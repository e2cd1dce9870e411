-------------------------- MODULE ToolCallsProofs --------------------------
(***************************************************************************)
(* Proofs about the calls of the tools, for every set of actions, every    *)
(* table of plans and any number of tries: the state has its type, and if  *)
(* the plans keep the two orders ToolCalls names, an error leaves nothing  *)
(* behind, a repeated call does nothing twice and a mistaken one asks      *)
(* nothing of Telegram; and if they offer each call a mode, the advice to  *)
(* change the mode helps.                                                  *)
(***************************************************************************)
EXTENDS ToolCalls, TLAPS

(* The running call follows the plan of its action in its mode.            *)
Follows == /\ call.op \in Op /\ call.form \in FormsOf(call.op)
           /\ steps = Plan[mode][call.op]

Passed(doings) == \E i \in 1..(at - 1) : /\ i \in DOMAIN steps /\ steps[i].do \in doings
                                         /\ Takes(steps[i], call.form)

(* Between calls nothing is remembered; what a running call has changed or *)
(* asked, a step of its plan did; what earlier tries changed was left      *)
(* behind by a lost answer.                                                *)
Resting  == at = 0 => wrote = {} /\ before = {} /\ answer = "ok" /\ ~lost /\ ~asked
Underway == at > 0 => Follows
Traced   == answer = "none" => /\ wrote # {} => Passed({"write", "save", "over"})
                               /\ asked => Passed({"name", "ask", "write"})
Blamed   == /\ answer = "lost" => lost
            /\ before # {} => lost \/ HalfDone

CallsBasis == CallsType /\ Resting /\ Underway /\ Traced

(* The steps of a running call.                                            *)
CallStep == \/ NotHere \/ Check \/ CheckMode \/ Barred \/ Ensure
            \/ Resolve \/ Read \/ Change \/ Keep \/ WriteOver \/ Result

Caller == \/ \E op \in Op, m \in Mode : \E form \in FormsOf(op), fault \in FlawsOf(op) :
               at = 0 /\ FirstCall(op, form, fault, m)
          \/ CallAgain \/ Leave

----------------------------------------------------------------------------
(* Every plan is a sequence of steps (PlanType).                           *)
LEMMA PlansAreSteps ==
  ASSUME NEW m \in Mode, NEW op \in Op
  PROVE  Plan[m][op] \in Seq(Step)
BY PlanType

(* The forms of an action are words (Forms).                               *)
LEMMA FormsAreWords ==
  ASSUME NEW op \in Op
  PROVE  FormsOf(op) \subseteq Word
<1> DEFINE plan == Plan["user"][op] \o Plan["bot"][op]
<1>1. plan \in Seq(Step)
  BY PlansAreSteps DEF Mode
<1> HIDE DEF plan
<1>2. \A i \in DOMAIN plan : plan[i] \in Step
  BY <1>1
<1>3. \A i \in DOMAIN plan : plan[i].in \subseteq Word
  BY <1>2 DEF Step
<1>4. Forms(plan) \subseteq Word
  BY <1>3, Words DEF Forms
<1> QED BY <1>4 DEF FormsOf, plan

(* What can be wrong with a call is named by two words (FlawsOf).          *)
LEMMA FlawsAreNamed ==
  ASSUME NEW op \in Op
  PROVE  FlawsOf(op) \subseteq Word \X Word
<1>1. NoFlaw \in Word \X Word
  BY Words DEF NoFlaw
<1>2. ASSUME NEW m \in Mode, NEW i \in DOMAIN Plan[m][op]
      PROVE  <<Plan[m][op][i].do, Plan[m][op][i].of>> \in Word \X Word
  <2>1. Plan[m][op][i] \in Step
    BY PlansAreSteps
  <2> QED BY <2>1, Words DEF Step
<1> QED BY <1>1, <1>2 DEF FlawsOf

(* A running call stands at a step of its plan, and that is a Step.        *)
LEMMA HereIsAStep ==
  ASSUME CallsType, Running
  PROVE  at \in DOMAIN steps /\ Here \in Step
BY DEF CallsType, Running, Here

(* The steps of a call keep the types (NotHere to Result).                 *)
LEMMA StepsKeepTypes ==
  ASSUME CallsType, CallStep
  PROVE  CallsType'
<1> USE DEF CallsType, SameCall, NoRequest, Onward, Stops, Answers
<1>1. CASE NotHere
  BY <1>1 DEF NotHere
<1>2. CASE Check
  BY <1>2 DEF Check, Verdict
<1>3. CASE CheckMode
  BY <1>3 DEF CheckMode
<1>4. CASE Barred
  BY <1>4 DEF Barred
<1>5. CASE Ensure
  BY <1>5 DEF Ensure
<1>6. CASE Resolve
  <2>1. asked' \in BOOLEAN /\ lost' \in BOOLEAN
    BY <1>6, Zenon DEF Resolve
  <2>2. at' \in Nat /\ answer' \in Answers
    BY <1>6 DEF Resolve
  <2> QED BY <1>6, <2>1, <2>2 DEF Resolve
<1>7. CASE Read
  <2>1. asked' \in BOOLEAN /\ lost' \in BOOLEAN
    BY <1>7, Zenon DEF Read
  <2>2. at' \in Nat /\ answer' \in Answers
    BY <1>7 DEF Read
  <2> QED BY <1>7, <2>1, <2>2 DEF Read
<1>8. CASE Change
  <2>1. Here.of \in Word
    BY <1>8, HereIsAStep DEF Change, Doing, Step
  <2>2. wrote' \subseteq Word
    BY <1>8, <2>1 DEF Change
  <2>3. asked' \in BOOLEAN /\ lost' \in BOOLEAN
    BY <1>8, Zenon DEF Change
  <2>4. at' \in Nat /\ answer' \in Answers
    BY <1>8 DEF Change
  <2> QED BY <1>8, <2>2, <2>3, <2>4 DEF Change
<1>9. CASE Keep
  <2>1. Here.of \in Word
    BY <1>9, HereIsAStep DEF Keep, Doing, Step
  <2>2. wrote' \subseteq Word
    BY <1>9, <2>1 DEF Keep
  <2> QED BY <1>9, <2>2 DEF Keep
<1>10. CASE WriteOver
  <2>1. Here.of \in Word
    BY <1>10, HereIsAStep DEF WriteOver, Doing, Step
  <2>2. wrote' \subseteq Word
    BY <1>10, <2>1 DEF WriteOver
  <2> QED BY <1>10, <2>2 DEF WriteOver
<1>11. CASE Result
  BY <1>11 DEF Result
<1> QED BY <1>1, <1>2, <1>3, <1>4, <1>5, <1>6, <1>7, <1>8, <1>9, <1>10, <1>11 DEF CallStep

(* What the caller does keeps them as well (FirstCall, CallAgain, Leave).  *)
LEMMA CallerKeepsTypes ==
  ASSUME CallsType, Resting, Underway, Caller
  PROVE  CallsType'
<1> USE DEF CallsType, Answers
<1>1. ASSUME NEW op \in Op, NEW m \in Mode, NEW form \in FormsOf(op), NEW fault \in FlawsOf(op),
             FirstCall(op, form, fault, m)
      PROVE  CallsType'
  <2>1. form \in Word /\ fault \in Word \X Word /\ op \in Word \X Word
    BY FormsAreWords, FlawsAreNamed, PlanType
  <2>2. Plan[m][op] \in Seq(Step)
    BY PlansAreSteps
  <2> QED BY <1>1, <2>1, <2>2 DEF FirstCall
<1>2. CASE CallAgain
  <2>1. call.op \in Op
    BY <1>2 DEF CallAgain, Errors, Resting, Underway, Follows
  <2>2. mode' \in Mode
    BY <1>2 DEF CallAgain, Other, Mode
  <2>3. steps' \in Seq(Step)
    BY <1>2, <2>1, <2>2, PlansAreSteps DEF CallAgain
  <2>4. flaw' \in Word \X Word
    BY <1>2, Words DEF CallAgain, NoFlaw
  <2>5. before' \subseteq Word /\ wrote' \subseteq Word
    BY <1>2 DEF CallAgain
  <2>6. asked' \in BOOLEAN /\ lost' \in BOOLEAN
    BY <1>2, Zenon DEF CallAgain
  <2>7. at' \in Nat /\ tries' \in Nat /\ answer' \in Answers
    BY <1>2 DEF CallAgain
  <2>8. bounced' \subseteq Mode /\ call' \in [op : Word \X Word, form : Word]
    BY <1>2 DEF CallAgain
  <2> QED BY <2>2, <2>3, <2>4, <2>5, <2>6, <2>7, <2>8
<1>3. CASE Leave
  <2>1. NoCall \in [op : Word \X Word, form : Word] /\ NoFlaw \in Word \X Word
    BY Words DEF NoCall, NoFlaw
  <2>2. <<>> \in Seq(Step)
    OBVIOUS
  <2> QED BY <1>3, <2>1, <2>2 DEF Leave, Mode
<1> QED BY <1>1, <1>2, <1>3 DEF Caller

----------------------------------------------------------------------------
(* What a passed step is stays passed, and the step just taken is one.     *)
LEMMA PassedGrows ==
  ASSUME CallsType, Running, at' = at + 1, steps' = steps, call' = call, NEW D
  PROVE  /\ Passed(D) => Passed(D)'
         /\ Applies /\ Here.do \in D => Passed(D)'
<1>1. at \in DOMAIN steps /\ at \in 1..(at' - 1) /\ 1..(at - 1) \subseteq 1..(at' - 1)
  BY DEF CallsType, Running
<1> QED BY <1>1 DEF Passed, Applies, Here

(* A step leaves the call, its plan and what earlier tries did as they are.*)
LEMMA StepsFollow ==
  ASSUME CallsBasis, CallStep
  PROVE  /\ Resting' /\ Underway' /\ at > 0 /\ answer = "none"
         /\ UNCHANGED <<call, mode, steps, before>>
<1> USE DEF CallsBasis, SameCall, Onward, Stops
<1>1. answer = "none" /\ at \in Nat
  BY DEF CallStep, NotHere, Check, CheckMode, Barred, Ensure, Resolve, Read, Change, Keep, WriteOver,
         Result, Doing, Running, CallsType
<1>2. at > 0
  BY <1>1 DEF Resting
<1>3. UNCHANGED <<call, mode, steps, before>> /\ at' \in {at, at + 1}
  BY DEF CallStep, NotHere, Check, CheckMode, Barred, Ensure, Resolve, Read, Change, Keep, WriteOver,
         Result
<1>4. at' # 0 /\ at' > 0
  BY <1>1, <1>2, <1>3
<1>5. Underway'
  BY <1>2, <1>3 DEF Underway, Follows
<1> QED BY <1>1, <1>2, <1>3, <1>4, <1>5 DEF Resting

(* After a step, what has been changed or asked was done by a passed step. *)
LEMMA StepsTraced ==
  ASSUME CallsBasis, CallStep
  PROVE  Traced'
<1> DEFINE W == {"write", "save", "over"}
           A == {"name", "ask", "write"}
<1> SUFFICES ASSUME answer' = "none"
             PROVE  (wrote' # {} => Passed(W)') /\ (asked' => Passed(A)')
  BY DEF Traced
<1>1. UNCHANGED <<call, steps>> /\ answer = "none"
  BY StepsFollow
<1>2. (wrote # {} => Passed(W)) /\ (asked => Passed(A))
  BY <1>1 DEF CallsBasis, Traced
<1>3. Running /\ at' = at + 1
  BY DEF CallStep, NotHere, Check, CheckMode, Barred, Ensure, Resolve, Read, Change, Keep, WriteOver,
         Result, Doing, Running, Onward, Stops, Verdict
<1>4. (Passed(W) => Passed(W)') /\ (Passed(A) => Passed(A)')
  BY <1>1, <1>3, PassedGrows DEF CallsBasis
<1>5. Applies /\ Here.do \in W => Passed(W)'
  BY <1>1, <1>3, PassedGrows DEF CallsBasis
<1>6. Applies /\ Here.do \in A => Passed(A)'
  BY <1>1, <1>3, PassedGrows DEF CallsBasis
<1>7. wrote' # {} => wrote # {} \/ (Applies /\ Here.do \in W)
  <2>1. CASE Change \/ Keep \/ WriteOver
    BY <2>1 DEF Change, Keep, WriteOver, Doing
  <2>2. CASE Resolve \/ Read
    BY <2>2 DEF Resolve, Read
  <2>3. CASE NotHere \/ Check \/ CheckMode \/ Barred \/ Ensure \/ Result
    BY <2>3 DEF NotHere, Check, CheckMode, Barred, Ensure, Result, NoRequest
  <2> QED BY <2>1, <2>2, <2>3 DEF CallStep
<1>8. asked' => asked \/ (Applies /\ Here.do \in A)
  <2>1. CASE Resolve \/ Read \/ Change
    BY <2>1 DEF Resolve, Read, Change, Doing
  <2>2. CASE Keep \/ WriteOver
    BY <2>2 DEF Keep, WriteOver
  <2>3. CASE NotHere \/ Check \/ CheckMode \/ Barred \/ Ensure \/ Result
    BY <2>3 DEF NotHere, Check, CheckMode, Barred, Ensure, Result, NoRequest
  <2> QED BY <2>1, <2>2, <2>3 DEF CallStep
<1> HIDE DEF W, A
<1> QED BY <1>2, <1>4, <1>5, <1>6, <1>7, <1>8

(* The caller between calls and before a new try.                          *)
LEMMA CallerTraced ==
  ASSUME CallsBasis, Caller
  PROVE  Resting' /\ Underway' /\ Traced'
<1> USE DEF CallsBasis
<1>1. ASSUME NEW op \in Op, NEW m \in Mode, NEW form \in FormsOf(op), NEW fault \in FlawsOf(op),
             at = 0, FirstCall(op, form, fault, m)
      PROVE  Resting' /\ Underway' /\ Traced'
  <2>1. wrote' = {} /\ ~asked'
    BY <1>1 DEF FirstCall, Resting
  <2>2. call'.op = op /\ call'.form = form /\ steps' = Plan[mode'][op] /\ at' = 1
    BY <1>1 DEF FirstCall
  <2>3. Underway'
    BY <2>2 DEF Underway, Follows
  <2> QED BY <2>1, <2>2, <2>3 DEF Resting, Traced
<1>2. CASE CallAgain
  <2>1. at > 0
    BY <1>2 DEF CallAgain, Errors, Resting, CallsType
  <2>2. wrote' = {} /\ ~asked' /\ at' = 1
    BY <1>2 DEF CallAgain
  <2>3. Underway'
    BY <1>2, <2>1 DEF CallAgain, Underway, Follows
  <2> QED BY <2>2, <2>3 DEF Resting, Traced
<1>3. CASE Leave
  <2>1. wrote' = {} /\ before' = {} /\ ~asked' /\ ~lost' /\ answer' = "ok" /\ at' = 0
    BY <1>3 DEF Leave
  <2> QED BY <2>1 DEF Resting, Underway, Traced
<1> QED BY <1>1, <1>2, <1>3 DEF Caller

(* Every step is one of a running call or one of the caller.               *)
LEMMA CallsNextSplits == CallsNext => CallStep \/ Caller
BY DEF CallsNext, CallStep, Caller

(* The unconditional part of the invariant is inductive.                   *)
LEMMA BasisInit == CallsInit => CallsBasis
<1> SUFFICES ASSUME CallsInit PROVE CallsBasis
  OBVIOUS
<1>1. NoCall \in [op : Word \X Word, form : Word] /\ NoFlaw \in Word \X Word
  BY Words DEF NoCall, NoFlaw
<1>2. asked \in BOOLEAN /\ lost \in BOOLEAN
  BY Zenon DEF CallsInit
<1>3. wrote \subseteq Word /\ before \subseteq Word /\ bounced \subseteq Mode
  BY DEF CallsInit
<1>4. CallsType
  BY <1>1, <1>2, <1>3 DEF CallsInit, CallsType, Answers, Mode
<1> QED BY <1>4 DEF CallsInit, CallsBasis, Resting, Underway, Traced

(* Every step keeps the types and the trace in agreement.                  *)
LEMMA BasisStep == CallsBasis /\ [CallsNext]_callVars => CallsBasis'
<1> SUFFICES ASSUME CallsBasis, [CallsNext]_callVars PROVE CallsBasis'
  OBVIOUS
<1>1. CASE CallStep
  BY <1>1, StepsKeepTypes, StepsFollow, StepsTraced DEF CallsBasis
<1>2. CASE Caller
  BY <1>2, CallerKeepsTypes, CallerTraced DEF CallsBasis
<1>3. CASE UNCHANGED callVars
  BY <1>3 DEF callVars, CallsBasis, CallsType, Resting, Underway, Follows, Traced, Passed
<1> QED BY <1>1, <1>2, <1>3, CallsNextSplits

(* The variables of a call keep the kinds of values their comments give    *)
(* (ToolCalls).                                                            *)
THEOREM CallsTypeCorrect == CallsSpec => []CallsType
<1>1. CallsBasis => CallsType
  BY DEF CallsBasis
<1> QED BY <1>1, BasisInit, BasisStep, PTL DEF CallsSpec

----------------------------------------------------------------------------
(* If a change is the last thing a call makes, a call that stands at a     *)
(* step it takes has changed nothing.                                      *)
LEMMA CleanSoFar ==
  ASSUME CallsBasis, ChangeLast, Running, Applies, ~HalfDone
  PROVE  wrote = {}
<1> SUFFICES ASSUME wrote # {} PROVE FALSE
  OBVIOUS
<1>1. Follows /\ at \in DOMAIN steps /\ mode \in Mode
  BY DEF CallsBasis, CallsType, Running, Underway, Resting
<1>2. PICK i \in 1..(at - 1) : steps[i].do \in {"write", "save", "over"} /\ Takes(steps[i], call.form)
  BY DEF CallsBasis, Traced, Running, Passed
<1>3. steps[at].do \in Doings /\ Takes(steps[at], call.form)
  BY HereIsAStep DEF CallsBasis, Here, Applies, Step
<1>4. <<call.op, call.form>> \notin Halves
  BY DEF HalfDone
<1> QED BY <1>1, <1>2, <1>3, <1>4 DEF ChangeLast, NeverBefore, Follows

(* If what a caller can get wrong is looked at first, a call that stands   *)
(* at such a look has asked nothing.                                       *)
LEMMA NotAskedYet ==
  ASSUME CallsBasis, MistakesFirst, Running, Applies, ~HalfDone,
         Here.do \in {"known", "given", "only"}
  PROVE  ~asked
<1> SUFFICES ASSUME asked PROVE FALSE
  OBVIOUS
<1>1. Follows /\ at \in DOMAIN steps /\ mode \in Mode
  BY DEF CallsBasis, CallsType, Running, Underway, Resting
<1>2. PICK i \in 1..(at - 1) : /\ steps[i].do \in {"name", "ask", "write"}
                               /\ Takes(steps[i], call.form)
  BY DEF CallsBasis, Traced, Running, Passed
<1>3. steps[at].do \in {"known", "given", "only"} /\ Takes(steps[at], call.form)
  BY DEF Here, Applies
<1>4. <<call.op, call.form>> \notin Halves
  BY DEF HalfDone
<1> QED BY <1>1, <1>2, <1>3, <1>4 DEF MistakesFirst, NeverBefore, Follows

(* A step that ends a call with an error other than a lost answer changes  *)
(* nothing itself, where no file is written over.                          *)
LEMMA StopsChangeNothing ==
  ASSUME CallsBasis, NothingOver, ~HalfDone, CallStep, answer' \in Definite
  PROVE  wrote' = wrote /\ Running /\ Applies
<1> USE DEF Definite, Errors, Answers, SameCall, NoRequest, Onward, Stops, Doing
<1>1. CASE NotHere \/ Result
  BY <1>1 DEF NotHere, Result
<1>2. CASE Check \/ CheckMode \/ Barred \/ Ensure
  BY <1>2 DEF Check, CheckMode, Barred, Ensure
<1>3. CASE Resolve \/ Read
  BY <1>3 DEF Resolve, Read
<1>4. CASE Change
  BY <1>4 DEF Change
<1>5. CASE Keep
  BY <1>5 DEF Keep
<1>6. CASE WriteOver
  <2>1. Running /\ Takes(steps[at], call.form) /\ steps[at].do = "over"
    BY <1>6 DEF WriteOver, Applies, Here
  <2>2. Follows /\ at \in DOMAIN steps /\ mode \in Mode
    BY <2>1 DEF CallsBasis, CallsType, Running, Underway, Resting
  <2>3. <<call.op, call.form>> \notin Halves
    BY DEF HalfDone
  <2> QED BY <2>1, <2>2, <2>3 DEF NothingOver, Follows
<1> QED BY <1>1, <1>2, <1>3, <1>4, <1>5, <1>6 DEF CallStep

(* A step that blames the shape of the call or the mode asks nothing.      *)
LEMMA MistakesAskNothing ==
  ASSUME CallStep, answer' \in {"missing", "mode"}
  PROVE  /\ asked' = asked /\ Running /\ Applies
         /\ Here.do \in {"known", "given", "only"}
<1> USE DEF SameCall, NoRequest, Onward, Stops, Doing
<1>1. CASE NotHere \/ Result \/ Barred \/ Ensure
  BY <1>1 DEF NotHere, Result, Barred, Ensure
<1>2. CASE Check
  BY <1>2 DEF Check, Verdict
<1>3. CASE CheckMode
  BY <1>3 DEF CheckMode
<1>4. CASE Resolve \/ Read
  BY <1>4 DEF Resolve, Read
<1>5. CASE Change \/ Keep \/ WriteOver
  BY <1>5 DEF Change, Keep, WriteOver
<1> QED BY <1>1, <1>2, <1>3, <1>4, <1>5 DEF CallStep

(* A step that loses an answer remembers it, and none forgets one.         *)
LEMMA StepsBlamed ==
  ASSUME CallStep
  PROVE  (answer' = "lost" => lost') /\ (lost => lost')
<1> USE DEF SameCall, NoRequest, Onward, Stops
<1>1. CASE NotHere \/ Result \/ Barred \/ Ensure \/ CheckMode
  BY <1>1 DEF NotHere, Result, Barred, Ensure, CheckMode
<1>2. CASE Check
  BY <1>2 DEF Check, Verdict
<1>3. CASE Resolve
  BY <1>3 DEF Resolve
<1>4. CASE Read
  BY <1>4 DEF Read
<1>5. CASE Change
  BY <1>5 DEF Change
<1>6. CASE Keep \/ WriteOver
  BY <1>6 DEF Keep, WriteOver
<1> QED BY <1>1, <1>2, <1>3, <1>4, <1>5, <1>6 DEF CallStep

----------------------------------------------------------------------------
Orderly == ErrorsChangeNothing /\ Blamed

(* A new try adds what the last one changed to what earlier tries did:     *)
(* nothing, unless an answer was lost.                                     *)
LEMMA OrderlyStep ==
  ASSUME ChangeLast, NothingOver, CallsBasis, Orderly, [CallsNext]_callVars
  PROVE  Orderly'
<1>1. CASE CallStep
  <2>1. HalfDone' <=> HalfDone
    BY <1>1, StepsFollow DEF HalfDone
  <2>2. ASSUME answer' \in Definite, ~HalfDone PROVE wrote' = {}
    BY <1>1, <2>2, StopsChangeNothing, CleanSoFar
  <2>3. answer' = "lost" => lost'
    BY <1>1, StepsBlamed
  <2>4. before' # {} => lost' \/ HalfDone'
    BY <1>1, <2>1, StepsFollow, StepsBlamed DEF Orderly, Blamed
  <2>5. ErrorsChangeNothing'
    BY <2>1, <2>2 DEF ErrorsChangeNothing
  <2> QED BY <2>3, <2>4, <2>5 DEF Orderly, Blamed
<1>2. ASSUME NEW op \in Op, NEW m \in Mode, NEW form \in FormsOf(op), NEW fault \in FlawsOf(op),
             at = 0, FirstCall(op, form, fault, m)
      PROVE  Orderly'
  <2>1. answer' = "none" /\ before' = {}
    BY <1>2 DEF FirstCall, CallsBasis, Resting
  <2> QED BY <2>1 DEF Orderly, Blamed, ErrorsChangeNothing, Definite, Errors
<1>3. CASE CallAgain
  <2>1. HalfDone' <=> HalfDone
    BY <1>3 DEF CallAgain, HalfDone
  <2>2. answer' = "none" /\ before' = before \cup wrote /\ lost' = lost
    BY <1>3 DEF CallAgain
  <2>3. wrote # {} => lost \/ HalfDone
    BY <1>3 DEF CallAgain, Orderly, Blamed, ErrorsChangeNothing, Definite
  <2>4. before' # {} => lost' \/ HalfDone'
    BY <2>1, <2>2, <2>3 DEF Orderly, Blamed
  <2> QED BY <2>2, <2>4 DEF Orderly, Blamed, ErrorsChangeNothing, Definite, Errors
<1>4. CASE Leave
  <2>1. wrote' = {} /\ before' = {} /\ answer' = "ok"
    BY <1>4 DEF Leave
  <2> QED BY <2>1 DEF Orderly, Blamed, ErrorsChangeNothing
<1>5. CASE UNCHANGED callVars
  BY <1>5 DEF callVars, Orderly, Blamed, ErrorsChangeNothing, HalfDone
<1> QED BY <1>1, <1>2, <1>3, <1>4, <1>5, CallsNextSplits DEF Caller

(* If in every plan a change is the last step a call takes and no file is  *)
(* emptied before what replaces it is there, an error that is not a lost   *)
(* answer leaves nothing changed, for any plans and any number of tries    *)
(* (Err, SafeError).                                                       *)
THEOREM ErrorsLeaveNothing ==
  ASSUME ChangeLast, NothingOver
  PROVE  CallsSpec => []ErrorsChangeNothing
<1>1. CallsInit => CallsBasis /\ Orderly
  BY BasisInit DEF CallsInit, Orderly, Blamed, ErrorsChangeNothing
<1>2. CallsBasis /\ Orderly /\ [CallsNext]_callVars => (CallsBasis /\ Orderly)'
  BY BasisStep, OrderlyStep
<1>3. CallsBasis /\ Orderly => ErrorsChangeNothing
  BY DEF Orderly
<1> QED BY <1>1, <1>2, <1>3, PTL DEF CallsSpec

(* And a call made again after errors does nothing twice, unless an answer *)
(* was lost (Err).                                                         *)
THEOREM RepeatsAreSafe ==
  ASSUME ChangeLast, NothingOver
  PROVE  CallsSpec => []RepeatIsSafe
<1>1. CallsInit => CallsBasis /\ Orderly
  BY BasisInit DEF CallsInit, Orderly, Blamed, ErrorsChangeNothing
<1>2. CallsBasis /\ Orderly /\ [CallsNext]_callVars => (CallsBasis /\ Orderly)'
  BY BasisStep, OrderlyStep
<1>3. CallsBasis /\ Orderly => RepeatIsSafe
  BY DEF Orderly, Blamed, RepeatIsSafe
<1> QED BY <1>1, <1>2, <1>3, PTL DEF CallsSpec

(* A step keeps mistaken calls free of requests.                           *)
LEMMA MistakesStep ==
  ASSUME MistakesFirst, CallsBasis, MistakesAreFree, [CallsNext]_callVars
  PROVE  MistakesAreFree'
<1>1. CASE CallStep
  <2>1. HalfDone' <=> HalfDone
    BY <1>1, StepsFollow DEF HalfDone
  <2>2. ASSUME answer' \in {"missing", "mode"}, ~HalfDone PROVE ~asked'
    <3>1. (asked' <=> asked) /\ Running /\ Applies /\ Here.do \in {"known", "given", "only"}
      BY <1>1, <2>2, MistakesAskNothing
    <3> QED BY <2>2, <3>1, NotAskedYet
  <2> QED BY <2>1, <2>2 DEF MistakesAreFree
<1>2. CASE Caller
  <2>1. answer' \in {"none", "ok"}
    BY <1>2 DEF Caller, FirstCall, CallAgain, Leave
  <2> QED BY <2>1 DEF MistakesAreFree
<1>3. CASE UNCHANGED callVars
  BY <1>3 DEF callVars, MistakesAreFree, HalfDone
<1> QED BY <1>1, <1>2, <1>3, CallsNextSplits

(* If in every plan the looks at the shape of a call and at the mode come  *)
(* before the first request, a call refused by one of them has asked       *)
(* nothing of Telegram (handleMessage and its siblings, NeedsUser).        *)
THEOREM MistakesStayFree ==
  ASSUME MistakesFirst
  PROVE  CallsSpec => []MistakesAreFree
<1>1. CallsInit => CallsBasis /\ MistakesAreFree
  BY BasisInit DEF CallsInit, MistakesAreFree
<1>2. CallsBasis /\ MistakesAreFree /\ [CallsNext]_callVars => (CallsBasis /\ MistakesAreFree)'
  BY BasisStep, MistakesStep
<1> QED BY <1>1, <1>2, PTL DEF CallsSpec

----------------------------------------------------------------------------
(* A mode that refused the call has a step that turns it away; a call that *)
(* stands at such a step got past the look at its action's name.           *)
Turned   == \A m \in bounced : /\ at > 0
                               /\ \E i \in DOMAIN Plan[m][call.op] :
                                    Rejects(m, call.op, call.form, i)
Suited   == at > 0 => flaw \in FlawsOf(call.op)
Unflawed == answer \in {"none", "mode"} =>
              \A i \in 1..(at - 1) :
                i \in DOMAIN steps /\ Takes(steps[i], call.form) /\ steps[i].do = "known"
                  => <<steps[i].do, steps[i].of>> # flaw
Faced    == answer = "mode" => at \in DOMAIN steps /\ Rejects(mode, call.op, call.form, at)

Advised == Turned /\ Suited /\ Unflawed /\ Faced

(* Only CheckMode refuses a call for the mode, at a step that turns it     *)
(* away; nothing else adds to the modes that did.                          *)
LEMMA StepsRefuse ==
  ASSUME CallsBasis, CallStep
  PROVE  /\ flaw' = flaw
         /\ \/ bounced' = bounced /\ answer' # "mode"
            \/ /\ bounced' = bounced \cup {mode} /\ answer' = "mode" /\ at' = at
               /\ at \in DOMAIN steps /\ Rejects(mode, call.op, call.form, at)
<1> USE DEF SameCall, NoRequest, Onward, Stops
<1>1. CASE NotHere \/ Result \/ Barred \/ Ensure
  BY <1>1 DEF NotHere, Result, Barred, Ensure
<1>2. CASE Check
  BY <1>2 DEF Check, Verdict
<1>3. CASE CheckMode
  <2>1. flaw' = flaw
    BY <1>3 DEF CheckMode
  <2>2. CASE bounced' = bounced /\ answer' = "none"
    BY <2>1, <2>2
  <2>3. CASE Here.of # mode /\ Stops("mode") /\ bounced' = bounced \cup {mode}
    <3>1. steps = Plan[mode][call.op] /\ at \in DOMAIN steps
      BY <1>3, StepsFollow DEF CheckMode, Doing, Running, CallsBasis, Underway, Follows
    <3>2. Takes(steps[at], call.form) /\ steps[at].do = "only" /\ steps[at].of # mode
      BY <1>3, <2>3 DEF CheckMode, Doing, Applies, Here
    <3>3. Rejects(mode, call.op, call.form, at)
      BY <3>1, <3>2 DEF Rejects
    <3> QED BY <2>1, <2>3, <3>1, <3>3
  <2> QED BY <1>3, <2>2, <2>3 DEF CheckMode
<1>4. CASE Resolve \/ Read
  BY <1>4 DEF Resolve, Read
<1>5. CASE Change \/ Keep \/ WriteOver
  BY <1>5 DEF Change, Keep, WriteOver
<1> QED BY <1>1, <1>2, <1>3, <1>4, <1>5 DEF CallStep

(* A call goes past the look at its action's name only without that flaw.  *)
LEMMA StepsUnflawed ==
  ASSUME CallsBasis, Unflawed, CallStep
  PROVE  Unflawed'
<1> SUFFICES ASSUME answer' \in {"none", "mode"}, NEW i \in 1..(at' - 1), i \in DOMAIN steps',
                    Takes(steps'[i], call'.form), steps'[i].do = "known"
             PROVE  <<steps'[i].do, steps'[i].of>> # flaw'
  BY DEF Unflawed
<1>1. UNCHANGED <<call, steps, flaw>> /\ answer = "none" /\ at \in Nat
  BY StepsFollow, StepsRefuse DEF CallsBasis, CallsType
<1>2. at' = at \/ (at' = at + 1 /\ answer' = "none")
  BY DEF CallStep, NotHere, Check, CheckMode, Barred, Ensure, Resolve, Read, Change, Keep, WriteOver,
         Result, Onward, Stops
<1>3. CASE i \in 1..(at - 1)
  BY <1>1, <1>3 DEF Unflawed
<1>4. CASE i \notin 1..(at - 1)
  <2>1. i = at /\ at' = at + 1 /\ answer' = "none"
    BY <1>1, <1>2, <1>4
  <2>2. Here.do = "known" /\ Applies
    BY <1>1, <2>1 DEF Here, Applies
  <2>3. Check
    BY <2>2 DEF CallStep, NotHere, Check, CheckMode, Barred, Ensure, Resolve, Read, Change,
              Keep, WriteOver, Result, Doing, Running, Here
  <2>4. flaw # <<Here.do, Here.of>>
    BY <2>1, <2>2, <2>3 DEF Check, Stops, Verdict
  <2> QED BY <1>1, <2>1, <2>4 DEF Here
<1> QED BY <1>3, <1>4

(* Every step keeps the refusals explained.                                *)
LEMMA AdvisedStep ==
  ASSUME CallsBasis, Advised, [CallsNext]_callVars
  PROVE  Advised'
<1> USE DEF Advised
<1>1. CASE CallStep
  <2>1. UNCHANGED <<call, mode, steps>> /\ at > 0 /\ at' > 0 /\ flaw' = flaw
    <3>1. UNCHANGED <<call, mode, steps>> /\ at > 0 /\ flaw' = flaw /\ at \in Nat
      BY <1>1, StepsFollow, StepsRefuse DEF CallsBasis, CallsType
    <3>2. at' \in {at, at + 1}
      BY <1>1 DEF CallStep, NotHere, Check, CheckMode, Barred, Ensure, Resolve, Read, Change,
                Keep, WriteOver, Result, Onward, Stops
    <3> QED BY <3>1, <3>2
  <2>2. steps = Plan[mode][call.op]
    BY <2>1 DEF CallsBasis, Underway, Follows
  <2>3. Turned'
    BY <1>1, <2>1, <2>2, StepsRefuse DEF Turned, Rejects
  <2>4. Suited'
    BY <2>1 DEF Suited
  <2>5. Faced'
    BY <1>1, <2>1, <2>2, StepsRefuse DEF Faced, Rejects
  <2> QED BY <1>1, <2>3, <2>4, <2>5, StepsUnflawed
<1>2. ASSUME NEW op \in Op, NEW m \in Mode, NEW form \in FormsOf(op), NEW fault \in FlawsOf(op),
             at = 0, FirstCall(op, form, fault, m)
      PROVE  Advised'
  <2>1. bounced = {}
    BY <1>2 DEF Turned
  <2>2. bounced' = {} /\ at' = 1 /\ answer' = "none" /\ call'.op = op /\ flaw' = fault
    BY <1>2, <2>1 DEF FirstCall
  <2> QED BY <2>2 DEF Turned, Suited, Unflawed, Faced
<1>3. CASE CallAgain
  <2>1. at > 0
    BY <1>3 DEF CallAgain, Errors, CallsBasis, Resting, CallsType
  <2>2. call' = call /\ at' = 1 /\ answer' = "none" /\ bounced' = bounced
    BY <1>3 DEF CallAgain
  <2>3. flaw' \in FlawsOf(call.op)
    BY <1>3, <2>1 DEF CallAgain, Suited, FlawsOf
  <2> QED BY <2>2, <2>3 DEF Turned, Suited, Unflawed, Faced
<1>4. CASE Leave
  <2>1. bounced' = {} /\ at' = 0 /\ answer' = "ok"
    BY <1>4 DEF Leave
  <2> QED BY <2>1 DEF Turned, Suited, Unflawed, Faced
<1>5. CASE UNCHANGED callVars
  BY <1>5 DEF callVars, Turned, Suited, Unflawed, Faced
<1> QED BY <1>1, <1>2, <1>3, <1>4, <1>5, CallsNextSplits DEF Caller

(* If the plans of the two modes turn no call away both, and look at the   *)
(* name of an action before they turn it away, then however often a caller *)
(* follows the advice the call is never refused for the mode in both, and  *)
(* a mistyped action in neither (NeedsUser, NeedsBot, handleMessageExtra). *)
THEOREM AdviceHelps ==
  ASSUME ServedSomewhere, NamedFirst
  PROVE  CallsSpec => []AdviceWorks
<1>1. CallsInit => CallsBasis /\ Advised
  BY BasisInit DEF CallsInit, Advised, Turned, Suited, Unflawed, Faced
<1>2. CallsBasis /\ Advised /\ [CallsNext]_callVars => (CallsBasis /\ Advised)'
  BY BasisStep, AdvisedStep
<1>3. CallsBasis /\ Advised => AdviceWorks
  <2> SUFFICES ASSUME CallsBasis, Advised
               PROVE  bounced # Mode /\ (answer = "mode" => flaw[1] # "known")
    BY DEF AdviceWorks
  <2>1. at > 0 => Follows
    BY DEF CallsBasis, Underway
  <2>2. ASSUME bounced = Mode PROVE FALSE
    <3>1. at > 0
      BY <2>2 DEF Advised, Turned, Mode
    <3>2. call.op \in Op /\ call.form \in FormsOf(call.op)
      BY <2>1, <3>1 DEF Follows
    <3>3. PICK m \in Mode : \A i \in DOMAIN Plan[m][call.op] : ~Rejects(m, call.op, call.form, i)
      BY <3>2 DEF ServedSomewhere
    <3> QED BY <2>2, <3>3 DEF Advised, Turned
  <2>3. ASSUME answer = "mode", flaw[1] = "known" PROVE FALSE
    <3>1. at \in Nat /\ at # 0 /\ mode \in Mode /\ steps \in Seq(Step)
      BY <2>3 DEF CallsBasis, Resting, CallsType
    <3>2. Follows /\ flaw \in FlawsOf(call.op)
      BY <2>1, <3>1 DEF Advised, Suited
    <3>3. at \in DOMAIN steps /\ Rejects(mode, call.op, call.form, at)
      BY <2>3 DEF Advised, Faced
    <3>4. PICK i \in 1..(at - 1) : /\ Takes(steps[i], call.form)
                                   /\ <<steps[i].do, steps[i].of>> = flaw
      BY <2>3, <3>1, <3>2, <3>3 DEF NamedFirst, Follows
    <3>5. steps[i].do = "known" /\ i \in DOMAIN steps
      BY <2>3, <3>1, <3>3, <3>4
    <3> QED BY <2>3, <3>4, <3>5 DEF Advised, Unflawed
  <2> QED BY <2>2, <2>3
<1> QED BY <1>1, <1>2, <1>3, PTL DEF CallsSpec
=============================================================================
