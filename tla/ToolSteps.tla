----------------------------- MODULE ToolSteps -----------------------------
(***************************************************************************)
(* The steps an action of a tool is made of.  A plan is the sequence of    *)
(* the steps the code runs for one action in one mode, in their order:     *)
(*                                                                         *)
(*   known, given   the action exists, the arguments are there             *)
(*   told, hidden   a check of the caller's values: SafeError lets the     *)
(*                  message of the first through, not that of the second   *)
(*   only           the mode the method exists in; otherwise a ModeError   *)
(*   ready          ensure: the user account is connected                  *)
(*   name           a chat or person is resolved, with or without a request*)
(*   ask, write     a request that reads, one that changes the account     *)
(*   save           a change of a local file                               *)
(*   over           a file written in the place of one of that name        *)
(*   stop           the method always fails here, in the way named         *)
(*                                                                         *)
(* A step is taken for the forms of a call in its field "in" (options      *)
(* used, kind of chat), for every form when that set is empty.             *)
(***************************************************************************)
EXTENDS Sequences

CONSTANT Word      \* the words steps and calls are described with: strings

Doings == {"known", "given", "told", "hidden", "only", "ready", "name",
           "ask", "write", "save", "over", "stop"}
Step   == [do : Doings, of : Word, in : SUBSET Word]

One(do, of)  == <<[do |-> do, of |-> of, in |-> {}]>>
In(fs, plan) == [i \in DOMAIN plan |->
                  [plan[i] EXCEPT !.in = IF @ = {} THEN fs ELSE @ \cap fs]]

Known        == One("known", "action")
Given(x)     == One("given", x)
Told(x)      == One("told", x)
Hidden(x)    == One("hidden", x)
OnlyUser     == One("only", "user")
OnlyBot      == One("only", "bot")
Ready        == One("ready", "connection")
Ask          == One("ask", "account")
Write(x)     == One("write", x)
Save(x)      == One("save", x)
Over(x)      == One("over", x)
Stop(x)      == One("stop", x)

----------------------------------------------------------------------------
(* Steps the methods of the user backend share.                            *)

Name(x)  == Ready \o One("name", x)                 \* resolvePeer
Chat     == Name("chat")
Person   == Name("user") \o Hidden("person")        \* inputUserOf
Channel  == Chat \o Hidden("channel")               \* inputChannel
Path     == Told("path") \o Hidden("file")          \* security, then the file
Upload   == Path \o Ask                             \* uploadLocal

(* The forms a call has exactly one of: the kind of the chat (a group is    *)
(* "groups" when more than one request is made for it), and the            *)
(* alternatives of one action.  Any other form is an option, left out in a *)
(* plain call.                                                             *)
Ways == {"user", "group", "groups", "channel", "list", "create", "close",
         "title", "description", "both", "set", "path", "text", "markup",
         "show", "revoke", "removal", "new", "over"}

ASSUME Words == Doings \cup Ways \cup {"none", "plain"} \subseteq Word

Forms(plan) == LET fs == UNION {plan[i].in : i \in DOMAIN plan}
               IN  IF fs \cap Ways # {} THEN fs ELSE fs \cup {"plain"}
=============================================================================
