---------------------------- MODULE BotMethods -----------------------------
(***************************************************************************)
(* The plan of every method of BotBackend.  The Bot API resolves names     *)
(* itself, so a method is its own checks and one request; what the Bot API *)
(* lacks answers NeedsUser.                                                *)
(***************************************************************************)
EXTENDS ToolSteps, TLC

Keyboard == In({"buttons", "markup"}, Told("buttons"))   \* BuildReplyMarkup
Post(x)  == Write(x)                                     \* call, do
Form(x)  == Path \o Write(x)                             \* readUpload, callForm

(* bot.go *)
BotMessages ==
  [SendMessage    |-> Keyboard \o Post("message"),
   EditMessage    |-> Keyboard \o Post("message"),
   DeleteMessage  |-> Post("message"),
   ForwardMessage |-> Post("message"),
   PinMessage     |-> Post("pin"),
   ReactToMessage |-> Post("reaction")]

BotHistory ==
  [SearchMessages |-> OnlyUser,
   GetHistory     |-> <<>>,
   EditMessageButtons |-> Keyboard \o Post("message")]

AnswersNeedUser ==
  [AnswerCallbackQuery |-> OnlyUser,
   RecordResumeSession |-> Hidden("resume_session") \o Save("resume map")]

BotAnswers ==
  [AnswerCallbackQuery |-> Post("answer"),
   RecordResumeSession |-> Hidden("resume_session") \o Save("resume map")]

BotChats ==
  [ListChats    |-> OnlyUser,
   GetChatInfo  |-> Ask,
   CreateChat   |-> OnlyUser,
   JoinChat     |-> OnlyUser,
   LeaveChat    |-> Post("membership"),
   GetMembers   |-> Ask,
   PromoteAdmin |-> Post("rights"),
   UpdateChatSettings |-> In({"title", "both"}, Post("title"))
                          \o In({"description", "both"}, Post("description")),
   ManageTopics |-> In({"list"}, Stop("told")) \o Told("topic_action")
                    \o In({"create", "close"}, Post("topic"))]

BotFiles ==
  [SendMedia     |-> Form("message"),
   DownloadMedia |-> Hidden("file_id") \o Ask \o Told("output_dir") \o Ask
                     \o In({"new"}, Save("download")) \o In({"over"}, Over("download"))]

BotContactBook == [m \in {"ListContacts", "SearchContacts", "AddContact", "BlockUser"} |->
                     OnlyUser]

(* bot_chats.go *)
BotModeration ==
  [BanUser        |-> Post("ban"),
   SetPermissions |-> Hidden("permission") \o Post("permissions"),
   InviteLink     |-> In({"revoke"}, Post("link")) \o In({"show"}, Ask \o Hidden("link")),
   ListAdmins     |-> Ask,
   SetChatPhoto   |-> In({"user", "group", "channel"}, Path)
                      \o In({"user", "group", "channel", "removal"}, Post("photo")),
   FullChat       |-> Ask]

BotChatsAbsent ==
  [m \in {"MuteChat", "ArchiveChat", "ResolveUsername", "SearchPublic", "CommonChats",
          "ReadBy", "SetSlowMode", "ListBanned", "RecentActions"} |-> OnlyUser]
    @@ [InviteToChat |-> Stop("hidden")]

(* bot_messages.go *)
BotBulk ==
  [UnpinMessage     |-> Post("pin"),
   UnpinAllMessages |-> Post("pin"),
   DeleteMessages   |-> Post("messages"),
   ForwardMessages  |-> Post("message"),
   SendPoll         |-> Hidden("options") \o Hidden("quiz") \o Post("message"),
   MessageLink      |-> Ask \o Hidden("channel")]

BotMessagesAbsent ==
  [m \in {"MarkRead", "ListPinned", "MessageContext", "ListReactions", "PurgeHistory",
          "SaveDraft", "ListDrafts", "ScheduleMessage", "ListScheduled",
          "CancelScheduled"} |-> OnlyUser]

(* bot_media.go; an album of two files *)
BotMedia ==
  [SendAlbum    |-> Hidden("files") \o Path \o Path \o Post("message"),
   SendSticker  |-> In({"set"}, Stop("hidden"))
                    \o In({"path"}, Hidden("path") \o Hidden(".webp") \o Form("message")),
   MediaInfo    |-> OnlyUser,
   ListStickers |-> Hidden("sticker_set") \o Ask]

BotMediaAbsent ==
  [m \in {"ListStickerSets", "SavedGIFs", "SendGIF", "ListPhotos"} |-> OnlyUser]

(* bot_contacts.go *)
BotContacts ==
  [m \in {"DeleteContact", "ImportContacts", "ExportContacts", "ListBlocked",
          "LastInteraction", "DirectChat"} |-> OnlyUser]
    @@ [SendContactCard |-> Stop("hidden")]

(* Without the capability the tool answers before any method runs.         *)
BotAbsent ==
  [m \in {"GetMe", "UpdateProfile", "SetProfilePhoto", "DeleteProfilePhoto",
          "GetUserPhotos", "GetUserInfo", "GetPrivacy", "SetPrivacy", "ListFolders",
          "GetFolder", "CreateFolder", "DeleteFolder", "SetFolderChat",
          "ReorderFolders"} |-> OnlyUser]

BotMethods ==
  BotMessages @@ BotHistory @@ BotAnswers @@ BotChats @@ BotFiles @@ BotContactBook
    @@ BotModeration @@ BotChatsAbsent @@ BotBulk @@ BotMessagesAbsent @@ BotMedia
    @@ BotMediaAbsent @@ BotContacts @@ BotAbsent
=============================================================================
