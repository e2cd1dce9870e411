---------------------------- MODULE ToolActions ----------------------------
(***************************************************************************)
(* The actions of the six tools: the checks each makes itself and the      *)
(* backend methods it calls.  Do holds the method plans of one backend,    *)
(* Profile and Folders the step that finds the capability or refuses.      *)
(***************************************************************************)
EXTENDS ToolSteps, TLC

(* messages.go *)
MessageActions(Do) ==
  [send   |-> Given("chat_id, text") \o Do.SendMessage
              \o In({"resume"}, Do.RecordResumeSession),
   edit   |-> Given("chat_id, message_id") \o In({"text", "buttons"}, Do.EditMessage)
              \o In({"markup"}, Do.EditMessageButtons),
   delete |-> Given("chat_id, message_id") \o Do.DeleteMessage,
   forward |-> Given("from_chat, to_chat, message_id") \o Do.ForwardMessage,
   pin    |-> Given("chat_id, message_id") \o Do.PinMessage,
   react  |-> Given("chat_id, message_id, emoji") \o Do.ReactToMessage]

MessageReads(Do) ==
  [search  |-> Given("query") \o Do.SearchMessages,
   history |-> Given("chat_id") \o Do.GetHistory]

MessageAnswer(Do) ==
  [answer |-> Given("callback_query_id") \o Told("answer_text") \o Do.AnswerCallbackQuery]

MessageExtras(Do) ==
  [unpin        |-> Known \o Given("chat_id, message_id") \o Do.UnpinMessage,
   unpin_all    |-> Known \o Given("chat_id") \o Do.UnpinAllMessages,
   pinned       |-> Known \o Given("chat_id") \o Do.ListPinned,
   read         |-> Known \o Given("chat_id") \o Do.MarkRead,
   context      |-> Known \o Given("chat_id, message_id") \o Do.MessageContext,
   link         |-> Known \o Given("chat_id, message_id") \o Do.MessageLink,
   reactions    |-> Known \o Given("chat_id, message_id") \o Do.ListReactions,
   delete_bulk  |-> Known \o Given("chat_id, message_ids") \o Do.DeleteMessages,
   purge        |-> Known \o Given("chat_id") \o Do.PurgeHistory,
   forward_bulk |-> Known \o Given("from_chat, to_chat, message_ids") \o Do.ForwardMessages]

MessageLater(Do) ==
  [draft_save      |-> Known \o Given("chat_id") \o Do.SaveDraft,
   draft_list      |-> Known \o Do.ListDrafts,
   schedule        |-> Known \o Given("chat_id, text, send_at") \o Told("send_at")
                       \o Do.ScheduleMessage,
   schedule_list   |-> Known \o Given("chat_id") \o Do.ListScheduled,
   schedule_cancel |-> Known \o Given("chat_id, message_ids") \o Do.CancelScheduled,
   poll            |-> Known \o Given("chat_id, question, options")
                       \o In({"close_at"}, Told("close_at")) \o Do.SendPoll]

(* chats.go *)
ChatActions(Do) ==
  [list     |-> Do.ListChats,
   info     |-> Given("chat_id") \o Do.GetChatInfo,
   create   |-> Given("title") \o Do.CreateChat,
   join     |-> Given("link_or_hash") \o Do.JoinChat,
   leave    |-> Given("chat_id") \o Do.LeaveChat,
   members  |-> Given("chat_id") \o Do.GetMembers,
   admin    |-> Given("chat_id, user_id") \o Do.PromoteAdmin,
   settings |-> Given("chat_id") \o Given("title, description") \o Do.UpdateChatSettings,
   topics   |-> Given("chat_id") \o Given("topic_action") \o Do.ManageTopics]

ChatExtras(Do) ==
  [full          |-> Known \o Given("chat_id") \o Do.FullChat,
   mute          |-> Known \o Given("chat_id") \o Do.MuteChat,
   archive       |-> Known \o Given("chat_id") \o Do.ArchiveChat,
   resolve       |-> Known \o Given("username") \o Do.ResolveUsername,
   search_public |-> Known \o Given("query") \o Do.SearchPublic,
   common        |-> Known \o Given("user_id") \o Do.CommonChats,
   read_by       |-> Known \o Given("chat_id, message_id") \o Do.ReadBy,
   invite_link   |-> Known \o Given("chat_id") \o Do.InviteLink,
   invite        |-> Known \o Given("chat_id, user_ids") \o Do.InviteToChat,
   ban           |-> Known \o Given("chat_id, user_id") \o Do.BanUser]

ChatRules(Do) ==
  [permissions    |-> Known \o Given("chat_id, permissions") \o Do.SetPermissions,
   slow_mode      |-> Known \o Given("chat_id") \o Do.SetSlowMode,
   admins         |-> Known \o Given("chat_id") \o Do.ListAdmins,
   banned         |-> Known \o Given("chat_id") \o Do.ListBanned,
   recent_actions |-> Known \o Given("chat_id") \o Do.RecentActions,
   photo          |-> Known \o Given("chat_id") \o Do.SetChatPhoto]

(* contacts.go, aliases.go: an alias is saved after its chat is found      *)
ContactActions(Do) ==
  [list   |-> Do.ListContacts,
   search |-> Given("query") \o Do.SearchContacts,
   add    |-> Given("phone, first_name") \o Do.AddContact,
   block  |-> Given("user_id") \o Do.BlockUser]

ContactExtras(Do) ==
  [delete    |-> Known \o Given("user_id") \o Do.DeleteContact,
   import    |-> Known \o Given("contacts") \o Do.ImportContacts,
   export    |-> Known \o Do.ExportContacts,
   blocked   |-> Known \o Do.ListBlocked,
   last_seen |-> Known \o Given("user_id") \o Do.LastInteraction,
   send_card |-> Known \o Given("chat_id, user_id") \o Do.SendContactCard,
   direct    |-> Known \o Given("query") \o Do.DirectChat]

SavedThenFound(Do) ==
  [alias_list   |-> Known,
   alias_delete |-> Known \o Given("alias") \o Told("alias") \o Save("aliases"),
   alias_set    |-> Known \o Given("alias, chat_id") \o Told("alias") \o Save("aliases")
                    \o Do.GetChatInfo]

AliasActions(Do) ==
  [alias_list   |-> Known,
   alias_delete |-> Known \o Given("alias") \o Told("alias") \o Save("aliases"),
   alias_set    |-> Known \o Given("alias, chat_id") \o Do.GetChatInfo \o Told("alias")
                    \o Save("aliases")]

(* media.go: one plan stands for send_photo, _file, _voice and _video      *)
MediaActions(Do) ==
  [send         |-> Given("chat_id, file_path_or_url") \o Do.SendMedia,
   download     |-> Given("chat_id, message_id") \o Do.DownloadMedia,
   send_album   |-> Known \o Given("chat_id, files") \o Do.SendAlbum,
   send_sticker |-> Known \o Given("chat_id") \o Do.SendSticker,
   send_gif     |-> Known \o Given("chat_id, document_id") \o Do.SendGIF,
   info         |-> Known \o Given("chat_id, message_id") \o Do.MediaInfo,
   photos       |-> Known \o Given("chat_id") \o Do.ListPhotos,
   sticker_sets |-> Known \o Do.ListStickerSets,
   stickers     |-> Known \o Given("sticker_set") \o Do.ListStickers,
   gifs         |-> Known \o Do.SavedGIFs]

(* profile.go, folders.go: the capability is asked for before the          *)
(* arguments                                                               *)
ProfileActions(Do, Profile) ==
  [me           |-> Known \o Profile \o Do.GetMe,
   update       |-> Known \o Profile \o Given("first_name, last_name, about")
                    \o Do.UpdateProfile,
   photo_set    |-> Known \o Profile \o Given("path") \o Do.SetProfilePhoto,
   photo_delete |-> Known \o Profile \o Do.DeleteProfilePhoto,
   photos       |-> Known \o Profile \o Do.GetUserPhotos,
   user         |-> Known \o Profile \o Do.GetUserInfo,
   privacy_get  |-> Known \o Profile \o Given("key") \o Do.GetPrivacy,
   privacy_set  |-> Known \o Profile \o Given("key, rule") \o Do.SetPrivacy]

FolderActions(Do, Folders) ==
  [list     |-> Known \o Folders \o Do.ListFolders,
   get      |-> Known \o Folders \o Given("folder_id") \o Do.GetFolder,
   create   |-> Known \o Folders \o Given("title") \o Do.CreateFolder,
   delete   |-> Known \o Folders \o Given("folder_id") \o Do.DeleteFolder,
   add_chat |-> Known \o Folders \o Given("folder_id, chat_id") \o Do.SetFolderChat,
   remove_chat |-> Known \o Folders \o Given("folder_id, chat_id") \o Do.SetFolderChat,
   reorder  |-> Known \o Folders \o Given("order") \o Do.ReorderFolders]

(* The plans of a mode, by tool and action.                                *)
Tagged(tool, actions) ==
  [op \in {<<tool, a>> : a \in DOMAIN actions} |-> actions[op[2]]]

ToolPlans(Do, Capability) ==
  Tagged("message", MessageActions(Do) @@ MessageReads(Do) @@ MessageAnswer(Do)
                      @@ MessageExtras(Do) @@ MessageLater(Do))
    @@ Tagged("chat", ChatActions(Do) @@ ChatExtras(Do) @@ ChatRules(Do))
    @@ Tagged("contact", ContactActions(Do) @@ ContactExtras(Do) @@ AliasActions(Do))
    @@ Tagged("media", MediaActions(Do))
    @@ Tagged("profile", ProfileActions(Do, Capability))
    @@ Tagged("folder", FolderActions(Do, Capability))
=============================================================================
