---------------------------- MODULE UserMethods ----------------------------
(***************************************************************************)
(* The plan of every method of UserBackend: what it checks, resolves, asks *)
(* and changes, in the order of the code.                                  *)
(***************************************************************************)
EXTENDS ToolSteps, TLC

Look      == Chat \o Ask
Edit(x)   == Chat \o Write(x)

(* user_messages.go *)
UserMessageState ==
  [UnpinMessage     |-> Edit("pin"),
   UnpinAllMessages |-> Edit("pin"),
   MarkRead         |-> Edit("read mark"),
   ListPinned       |-> Look,
   MessageContext   |-> Look,
   MessageLink      |-> Ready \o Hidden("chat") \o Hidden("channel") \o Ask]

UserBulk ==
  [ListReactions  |-> Look,
   DeleteMessages |-> Edit("messages"),
   PurgeHistory   |-> Edit("messages"),
   SendPoll       |-> Ready \o Hidden("options") \o Hidden("quiz") \o Edit("message")]

UserDrafts ==
  [SaveDraft       |-> Edit("draft"),
   ListDrafts      |-> Ready \o Ask,
   ScheduleMessage |-> Ready \o Hidden("send_at") \o Edit("message"),
   ListScheduled   |-> Look]

UserForward ==
  [CancelScheduled |-> Edit("messages"),
   ForwardMessages |-> Name("from_chat") \o Name("to_chat") \o Write("message")]

(* user.go *)
SentThenRefused ==
  [SendMessage |-> Edit("message") \o In({"buttons"}, OnlyBot),
   EditMessage |-> Edit("message") \o In({"buttons"}, OnlyBot)]

UserSend ==
  [SendMessage |-> In({"buttons"}, OnlyBot) \o Edit("message"),
   EditMessage |-> In({"buttons"}, OnlyBot) \o Edit("message")]

UserMessages ==
  [DeleteMessage |-> Edit("message"),
   ForwardMessage |-> UserForward.ForwardMessages,
   PinMessage    |-> Edit("pin"),
   ReactToMessage |-> Edit("reaction"),
   SearchMessages |-> Ready \o In({"in chat"}, Chat) \o Ask,
   GetHistory    |-> Look,
   EditMessageButtons  |-> OnlyBot,
   AnswerCallbackQuery |-> OnlyBot,
   RecordResumeSession |-> OnlyBot]

UserChats ==
  [ListChats    |-> Ready \o Ask,
   GetChatInfo  |-> Look,
   CreateChat   |-> Ready \o Write("chat"),
   JoinChat     |-> Ready \o In({"name"}, One("name", "link_or_hash")) \o Write("membership"),
   LeaveChat    |-> Chat \o In({"group"}, Ask) \o In({"user"}, Hidden("kind"))
                    \o In({"group", "channel"}, Write("membership"))]

UserMembers ==
  [GetMembers   |-> Ready \o Channel \o Ask,
   PromoteAdmin |-> Ready \o Channel \o Person \o Write("rights"),
   UpdateChatSettings |->
     Ready \o In({"title", "both"}, Channel \o Write("title"))
           \o In({"description", "both"}, Chat \o Write("description")),
   ManageTopics |-> Chat \o Told("topic_action") \o In({"list"}, Ask)
                    \o In({"create", "close"}, Write("topic"))]

UserFiles ==
  [SendMedia     |-> Chat \o Upload \o Write("message"),
   DownloadMedia |-> Chat \o Ask \o Hidden("message") \o Told("output_dir")
                     \o In({"new"}, Save("download")) \o In({"over"}, Over("download"))]

UserContactBook ==
  [ListContacts   |-> Ready \o Ask,
   SearchContacts |-> Ready \o Ask,
   AddContact     |-> Ready \o Ask \o Write("contact"),
   BlockUser      |-> Ready \o One("name", "user") \o Write("block")]

(* user_contacts.go *)
UserContacts ==
  [DeleteContact  |-> Ready \o Person \o Write("contact"),
   ImportContacts |-> Ready \o Hidden("contacts") \o Write("contact"),
   ExportContacts |-> UserContactBook.ListContacts,
   ListBlocked    |-> Ready \o Ask]

UserPeople ==
  [LastInteraction |-> Name("user") \o Person \o Ask \o Ask,
   SendContactCard |-> Chat \o Person \o Ask \o Hidden("phone") \o Write("message"),
   DirectChat      |-> Ready \o Hidden("query") \o Chat \o Hidden("person") \o Ask]

(* user_chats.go *)
UserDirectory ==
  [MuteChat        |-> Edit("notifications"),
   ArchiveChat     |-> Edit("folder"),
   ResolveUsername |-> Ready \o Hidden("username") \o Ask,
   SearchPublic    |-> Ready \o Hidden("query") \o Ask]

UserChatDetail ==
  [FullChat    |-> Look,
   CommonChats |-> Ready \o Person \o Ask,
   ReadBy      |-> Look]

UserInvites ==
  [InviteLink   |-> Chat \o Write("link") \o Hidden("no link came back"),
   InviteToChat |-> Chat \o Person \o In({"user"}, Hidden("kind"))
                    \o In({"channel", "group", "groups"}, Write("first person"))
                    \o In({"groups"}, Write("next person"))]

UserModeration ==
  [BanUser        |-> Ready \o Channel \o Name("user") \o Write("ban"),
   SetPermissions |-> Chat \o Hidden("permission") \o Write("permissions"),
   SetSlowMode    |-> Ready \o Channel \o Write("slow mode"),
   ListAdmins     |-> Ready \o Channel \o Ask]

UserModerationLog ==
  [ListBanned    |-> UserModeration.ListAdmins,
   RecentActions |-> Ready \o Channel \o Ask,
   SetChatPhoto  |-> Chat \o In({"user", "group", "channel"}, Upload)
                     \o In({"user"}, Hidden("kind"))
                     \o In({"group", "channel", "removal"}, Write("photo"))]

(* user_profile.go *)
UserProfile ==
  [GetMe              |-> Ready \o Ask,
   UpdateProfile      |-> Ready \o Write("profile"),
   SetProfilePhoto    |-> Ready \o Upload \o Write("photo"),
   DeleteProfilePhoto |-> Ready \o Ask \o Hidden("photo") \o Write("photo")]

UserInformation ==
  [GetUserPhotos |-> Ready \o In({"other"}, Person) \o Ask,
   GetUserInfo   |-> Ready \o In({"other"}, Person) \o Ask]

UserPrivacy ==
  [GetPrivacy |-> Ready \o Hidden("key") \o Ask,
   SetPrivacy |-> Ready \o Hidden("key") \o Hidden("rule") \o Write("privacy")]

(* user_media.go; an album of two files *)
UserAlbum ==
  [SendAlbum   |-> Ready \o Hidden("files") \o Chat \o Upload \o Upload \o Write("message"),
   SendSticker |-> Chat \o In({"path"}, Hidden("path") \o Upload \o Hidden(".webp"))
                   \o In({"set"}, Ask) \o Write("message")]

UserStickers ==
  [ListStickerSets |-> Ready \o Ask,
   ListStickers    |-> Ready \o Hidden("sticker_set") \o Ask,
   SavedGIFs       |-> Ready \o Ask]

UserGIFs ==
  [SendGIF   |-> Chat \o Ask \o Hidden("document_id") \o Write("message"),
   MediaInfo |-> Chat \o Ask \o Hidden("message")]

UserPhotos == [ListPhotos |-> Look]

(* user_folders.go; the folder is read and written whole.                  *)
UserFolderReads ==
  [ListFolders |-> Ready \o Ask,
   GetFolder   |-> Ready \o Ask \o Hidden("folder_id")]

CreatedThenFilled ==
  [CreateFolder   |-> Ready \o Ask \o Hidden("room") \o Write("folder") \o Name("chats")
                      \o Write("chats"),
   DeleteFolder   |-> Ready \o Ask \o Hidden("folder_id") \o Write("folder"),
   SetFolderChat  |-> Ready \o Ask \o Hidden("folder_id") \o Chat \o Hidden("chat_id")
                      \o Write("folder")]

UserFolderEdits ==
  [CreateFolder   |-> Ready \o Ask \o Hidden("room") \o Name("chats") \o Write("folder"),
   DeleteFolder   |-> Ready \o Ask \o Hidden("folder_id") \o Write("folder"),
   SetFolderChat  |-> Ready \o Ask \o Hidden("folder_id") \o Chat \o Hidden("chat_id")
                      \o Write("folder")]

UserFolderOrder ==
  [ReorderFolders |-> Ready \o Ask \o Hidden("order") \o Write("order")]

UserMethods ==
  UserMessageState @@ UserBulk @@ UserDrafts @@ UserForward @@ UserSend @@ UserMessages
    @@ UserChats @@ UserMembers @@ UserFiles @@ UserContactBook @@ UserContacts @@ UserPeople
    @@ UserDirectory @@ UserChatDetail @@ UserInvites @@ UserModeration
    @@ UserModerationLog @@ UserProfile @@ UserInformation @@ UserPrivacy @@ UserAlbum
    @@ UserStickers @@ UserGIFs @@ UserPhotos @@ UserFolderReads @@ UserFolderEdits
    @@ UserFolderOrder
=============================================================================
