----------------------------- MODULE ToolCalls -----------------------------
(***************************************************************************)
(* One caller and the server: a call of a tool runs the steps of its plan  *)
(* in the mode the server is in and ends with a result or an error.  After *)
(* an error the caller calls again, as Err's comment expects: with the     *)
(* same arguments, with the fault of the call put right, or, told that the *)
(* action needs the other mode, against a server in that mode.             *)
(***************************************************************************)
EXTENDS ToolSteps, Naturals

CONSTANTS
  Op,        \* the actions of the tools
  Plan,      \* Plan[mode][op]: the steps of an action in a mode
  Halves,    \* the <<action, form>> pairs known to stop half done
  MaxTries   \* bound: how often one call is made

Mode == {"user", "bot"}

ASSUME PlanType == Op \subseteq Word \X Word /\ Plan \in [Mode -> [Op -> Seq(Step)]]

FormsOf(op) == Forms(Plan["user"][op] \o Plan["bot"][op])

Takes(step, form) == step.in = {} \/ form \in step.in

(* No step of the one kind comes before a step of the other in a call of   *)
(* that form, in either mode, the calls known to stop half done apart.     *)
NeverBefore(first, then) ==
  \A m \in Mode, op \in Op : \A form \in FormsOf(op) :
    <<op, form>> \notin Halves =>
      \A j \in DOMAIN Plan[m][op] : \A i \in 1..(j - 1) :
        Takes(Plan[m][op][i], form) /\ Takes(Plan[m][op][j], form)
          => ~(Plan[m][op][i].do \in first /\ Plan[m][op][j].do \in then)

(* A change is the last thing a call makes; and what the caller can get    *)
(* wrong in the shape of a call is looked at before Telegram is asked.     *)
ChangeLast    == NeverBefore({"write", "save", "over"}, Doings)
MistakesFirst == NeverBefore({"name", "ask", "write"}, {"known", "given", "only"})

(* Nor is a file emptied before what replaces it is there.                 *)
NothingOver ==
  \A m \in Mode, op \in Op : \A form \in FormsOf(op) :
    <<op, form>> \notin Halves =>
      \A i \in DOMAIN Plan[m][op] : Takes(Plan[m][op][i], form) => Plan[m][op][i].do # "over"

(* What is wrong with the call itself, if anything: a check it fails.      *)
Checks  == {"known", "given", "told", "hidden", "name"}
NoFlaw  == <<"none", "none">>

FlawsOf(op) == {NoFlaw} \cup
               UNION {{<<Plan[m][op][i].do, Plan[m][op][i].of>> :
                          i \in {j \in DOMAIN Plan[m][op] : Plan[m][op][j].do \in Checks}} :
                       m \in Mode}

(* The step turns a call of that form away for the mode m.                 *)
Rejects(m, op, form, i) ==
  LET step == Plan[m][op][i] IN Takes(step, form) /\ step.do = "only" /\ step.of # m

(* No call is turned away in both modes, and none before its action's name *)
(* was looked at, if that is looked at at all.                             *)
ServedSomewhere ==
  \A op \in Op : \A form \in FormsOf(op) :
    \E m \in Mode : \A i \in DOMAIN Plan[m][op] : ~Rejects(m, op, form, i)

NamedFirst ==
  \A m \in Mode, op \in Op : \A form \in FormsOf(op), fault \in FlawsOf(op) :
    \A j \in DOMAIN Plan[m][op] : Rejects(m, op, form, j) /\ fault[1] = "known" =>
      \E i \in 1..(j - 1) : LET step == Plan[m][op][i]
                            IN  Takes(step, form) /\ <<step.do, step.of>> = fault

Other(m) == IF m = "user" THEN "bot" ELSE "user"

VARIABLES
  call,      \* the action called and the form of the call
  flaw,      \* the check this call fails, or NoFlaw
  mode,      \* the mode the server runs in
  steps,     \* what the code does for this action in this mode
  at,        \* the next step of the plan; 0 before the first call
  wrote,     \* what this call has changed
  before,    \* what earlier tries of it had changed
  asked,     \* this call has sent a request
  lost,      \* the answer to a request of some try was lost
  bounced,   \* the modes that refused the call for being the wrong one
  tries,
  answer     \* "none" while the call runs

callVars == <<call, flaw, mode, steps, at, wrote, before, asked, lost, bounced, tries, answer>>

Answers == {"none", "ok", "missing", "told", "hidden", "mode", "down", "refused",
            "lost", "failed"}

NoCall == [op |-> <<"none", "none">>, form |-> "plain"]

CallsType ==
  /\ call \in [op : Word \X Word, form : Word]
  /\ flaw \in Word \X Word
  /\ mode \in Mode
  /\ steps \in Seq(Step)
  /\ at \in Nat
  /\ wrote \subseteq Word
  /\ before \subseteq Word
  /\ asked \in BOOLEAN
  /\ lost \in BOOLEAN
  /\ bounced \subseteq Mode
  /\ tries \in Nat
  /\ answer \in Answers

CallsInit ==
  /\ call = NoCall /\ flaw = NoFlaw /\ mode = "user"
  /\ steps = <<>> /\ at = 0 /\ tries = 0 /\ answer = "ok"
  /\ wrote = {} /\ before = {} /\ bounced = {}
  /\ asked = FALSE /\ lost = FALSE

----------------------------------------------------------------------------
(* The steps of a running call.                                            *)

Here    == steps[at]
Running == answer = "none" /\ at \in DOMAIN steps
Applies == Takes(Here, call.form)
Doing(doings) == Running /\ Applies /\ Here.do \in doings

Onward   == at' = at + 1 /\ answer' = "none"
Stops(a) == at' = at /\ answer' = a

SameCall == UNCHANGED <<call, flaw, mode, steps, before, tries>>
NoRequest == UNCHANGED <<wrote, asked, lost>>

NotHere ==
  /\ Running /\ ~Applies
  /\ Onward
  /\ SameCall /\ NoRequest /\ UNCHANGED bounced

(* The error a failed check ends with, as SafeError lets it through.       *)
Verdict(do) == CASE do \in {"known", "given"} -> "missing"
                 [] do = "told"               -> "told"
                 [] OTHER                     -> "hidden"

Check ==
  /\ Doing({"known", "given", "told", "hidden"})
  /\ IF flaw = <<Here.do, Here.of>> THEN Stops(Verdict(Here.do)) ELSE Onward
  /\ SameCall /\ NoRequest /\ UNCHANGED bounced

CheckMode ==
  /\ Doing({"only"})
  /\ \/ Here.of = mode /\ Onward /\ UNCHANGED bounced
     \/ Here.of # mode /\ Stops("mode") /\ bounced' = bounced \cup {mode}
  /\ SameCall /\ NoRequest

Barred ==
  /\ Doing({"stop"})
  /\ Stops(IF Here.of = "told" THEN "told" ELSE "hidden")
  /\ SameCall /\ NoRequest /\ UNCHANGED bounced

Ensure ==
  /\ Doing({"ready"})
  /\ Onward \/ Stops("down")
  /\ SameCall /\ NoRequest /\ UNCHANGED bounced

(* A name is known to this process or asked for.  A number nobody has is   *)
(* refused with the server's own PEER_NOT_FOUND, words with a plain error. *)
Resolve ==
  /\ Doing({"name"})
  /\ asked' \in {asked, TRUE}
  /\ \/ flaw # <<"name", Here.of>> /\ Onward /\ UNCHANGED lost
     \/ flaw = <<"name", Here.of>> /\ (Stops("told") \/ Stops("hidden")) /\ UNCHANGED lost
     \/ asked' /\ Stops("refused") /\ UNCHANGED lost
     \/ asked' /\ Stops("lost") /\ lost' = TRUE
  /\ SameCall /\ UNCHANGED <<wrote, bounced>>

Read ==
  /\ Doing({"ask"})
  /\ asked' = TRUE
  /\ \/ (Onward \/ Stops("refused")) /\ UNCHANGED lost
     \/ Stops("lost") /\ lost' = TRUE
  /\ SameCall /\ UNCHANGED <<wrote, bounced>>

(* A request that changes something is obeyed, refused without effect, or  *)
(* its answer is lost, with the effect or without.                         *)
Change ==
  /\ Doing({"write"})
  /\ asked' = TRUE
  /\ \/ Onward /\ wrote' = wrote \cup {Here.of} /\ UNCHANGED lost
     \/ Stops("refused") /\ UNCHANGED <<wrote, lost>>
     \/ Stops("lost") /\ lost' = TRUE /\ wrote' \in {wrote, wrote \cup {Here.of}}
  /\ SameCall /\ UNCHANGED bounced

(* The alias file is written beside its place and moved there; the map of  *)
(* resume sessions gets a line more; a download that nothing was in the    *)
(* way of is removed again (a directory made for it stays).                *)
Keep ==
  /\ Doing({"save"})
  /\ \/ Onward /\ wrote' = wrote \cup {Here.of}
     \/ Stops("failed") /\ UNCHANGED wrote
  /\ SameCall /\ UNCHANGED <<asked, lost, bounced>>

(* A download empties the file of its name when it begins to arrive and    *)
(* removes it when the rest does not: an earlier download is gone.         *)
WriteOver ==
  /\ Doing({"over"})
  /\ \/ Onward /\ wrote' = wrote \cup {Here.of}
     \/ Stops("failed") /\ wrote' \in {wrote, wrote \cup {Here.of}}
  /\ SameCall /\ UNCHANGED <<asked, lost, bounced>>

Result ==
  /\ answer = "none" /\ at \notin DOMAIN steps
  /\ answer' = "ok"
  /\ UNCHANGED at /\ SameCall /\ NoRequest /\ UNCHANGED bounced

----------------------------------------------------------------------------
(* The caller.                                                             *)

FirstCall(op, form, fault, m) ==
  /\ call' = [op |-> op, form |-> form]
  /\ flaw' = fault /\ mode' = m /\ steps' = Plan[m][op]
  /\ at' = 1 /\ tries' = 1 /\ answer' = "none"
  /\ UNCHANGED <<wrote, before, asked, lost, bounced>>

Errors == Answers \ {"none", "ok"}

CallAgain ==
  /\ answer \in Errors /\ tries < MaxTries
  /\ flaw' \in {flaw, NoFlaw}
  /\ mode' = IF answer = "mode" THEN Other(mode) ELSE mode
  /\ steps' = Plan[mode'][call.op]
  /\ before' = before \cup wrote /\ wrote' = {}
  /\ at' = 1 /\ tries' = tries + 1 /\ answer' = "none" /\ asked' = FALSE
  /\ UNCHANGED <<call, lost, bounced>>

(* The caller has its answer and is done with the call.                    *)
Leave ==
  /\ answer # "none" /\ at > 0
  /\ call' = NoCall /\ flaw' = NoFlaw /\ mode' = "user"
  /\ steps' = <<>> /\ at' = 0 /\ tries' = 0 /\ answer' = "ok"
  /\ wrote' = {} /\ before' = {} /\ bounced' = {}
  /\ asked' = FALSE /\ lost' = FALSE

CallsNext ==
  \/ /\ at = 0
     /\ \E op \in Op, m \in Mode : \E form \in FormsOf(op), fault \in FlawsOf(op) :
          FirstCall(op, form, fault, m)
  \/ NotHere \/ Check \/ CheckMode \/ Barred \/ Ensure
  \/ Resolve \/ Read \/ Change \/ Keep \/ WriteOver \/ Result
  \/ CallAgain \/ Leave

CallsSpec == CallsInit /\ [][CallsNext]_callVars

----------------------------------------------------------------------------
HalfDone == <<call.op, call.form>> \in Halves
Definite == Errors \ {"lost"}

(* An error that is not a lost answer leaves the account and the files as  *)
(* they were, the calls that stop half done apart, a download over an      *)
(* earlier one among them: the caller who reads the message and tries      *)
(* again starts from where it was (Err, SafeError).                        *)
ErrorsChangeNothing == answer \in Definite /\ ~HalfDone => wrote = {}

(* However often a call that ended with an error is made again, nothing is *)
(* done twice unless an answer was lost on the way (Err: "retry with       *)
(* better arguments").                                                     *)
RepeatIsSafe == wrote \cap before # {} => lost \/ HalfDone

(* A call refused for the mode is served in the other one: no action is    *)
(* refused in both; and a mistyped action is never blamed on the mode      *)
(* (NeedsUser, NeedsBot, handleMessageExtra).                              *)
AdviceWorks == /\ bounced # Mode
               /\ answer = "mode" => flaw[1] # "known"

(* A call with an argument missing, a mistyped action or the wrong mode is *)
(* refused before anything is sent to Telegram.                            *)
MistakesAreFree == answer \in {"missing", "mode"} /\ ~HalfDone => ~asked
=============================================================================
