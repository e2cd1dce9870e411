--------------------------- MODULE MultiUserProofs ---------------------------
(***************************************************************************)
(* Theorems about MultiUser for any number of users, forms in progress,    *)
(* clients and restarts, with machine-checked proofs.                      *)
(***************************************************************************)
EXTENDS MultiUser, TLAPS

-----------------------------------------------------------------------------
(***************************************************************************)
(* The strengthening the proofs are by.                                    *)
(***************************************************************************)
\* No form is handled while sessions are restored, and what is still to be
\* restored has its record; what is being given up has left the index.
RestoreFirst ==
  /\ \A s \in Sub, r \in Request : restoring[s] # "no" => pc[r] = "idle"
  /\ \A s \in Sub : restoring[s] # "no" => active[s] = None
  /\ \A s \in Sub : restoring[s] = "load" => s \in index /\ record[s] # "none"
  /\ \A s \in Sub : restoring[s] = "drop" => s \notin index

\* The record is written before the index.
Recorded == \A r \in Request : pc[r] = "index" => record[who[r]] # "none"

\* A client in hand or pending is its user's, and no bot unless the form says so.
Owned ==
  /\ \A r \in Request : mine[r] # None =>
       /\ who[r] \in Sub /\ owner[mine[r]] = who[r]
       /\ mine[r] \in bots <=> form[r] = "bot"
  /\ \A s \in Sub : pending[s] # None => owner[pending[s]] = s /\ pending[s] \notin bots

\* How far the sign-in of a client in hand, or of a stored session, has come.
Progress ==
  /\ \A r \in Request :
       /\ form[r] = "bot" => pc[r] \in {"connect", "record", "index"}
       /\ pc[r] \in {"secure", "consume"} => account[who[r]] = "in"
       /\ pc[r] \in {"record", "index"} => form[r] = "bot" \/ account[who[r]] = "in"
  /\ \A s \in Sub : record[s] = "user" => account[s] = "in"

\* A client that is being connected is referred to by one task alone, and one
\* that is being stored is not pending.
Fresh == {"connect", "reconnect", "sendcode", "popped"}
Alone ==
  \A r \in Request :
    /\ pc[r] \in Fresh =>
         /\ \A s \in Sub : active[s] # mine[r] /\ pending[s] # mine[r]
         /\ \A q \in Request : mine[q] = mine[r] => q = r
    /\ pc[r] \in Writing => \A s \in Sub : pending[s] # mine[r]

-----------------------------------------------------------------------------
\* Freeing clients keeps what is known of clients in its type.
LEMMA FreeType ==
  ASSUME TypeOK, NEW S \in SUBSET Client, NEW H \in SUBSET Client, Free(S, H)
  PROVE  /\ {connected', bots', hashes'} \subseteq SUBSET Client
         /\ owner' \in [Client -> Sub \cup {None}]
  BY DEF TypeOK, Free, Referenced

\* A server starts in its type.
LEMMA MultiUserInitType == Init => TypeOK
  BY MultiUserAssumption DEF Init, TypeOK, HasClient, Writing

\* Every step keeps every variable in its type, and a task's client with its phase.
LEMMA MultiUserTypeStep ==
  ASSUME TypeOK, [Next]_vars
  PROVE  TypeOK'
  <1> USE MultiUserAssumption DEF TypeOK, HasClient, Writing, Goto, Return, Submit, NewClient,
        task, memory, backend, clients, history
  <1>1. ASSUME NEW r \in Request, NEW s \in Sub, NEW f \in {"phone", "bot"}, NEW c \in Client,
               Start(r, s, f, c)
        PROVE  TypeOK'
    BY <1>1 DEF Start
  <1>2. ASSUME NEW r \in Request, NEW s \in Sub, NEW f \in {"otp", "password"}, Complete(r, s, f)
        PROVE  TypeOK'
    BY <1>2 DEF Complete
  <1>3. ASSUME NEW r \in Request, NEW s \in Sub, NEW f \in {"otp", "password"},
               NothingPending(r, s, f)
        PROVE  TypeOK'
    BY <1>3 DEF NothingPending
  <1>4. ASSUME NEW r \in Request, NEW s \in Sub, NEW f \in {"otp", "password"}, NEW c \in Client,
               Resume(r, s, f, c)
        PROVE  TypeOK'
    BY <1>4 DEF Resume
  <1>5. ASSUME NEW r \in Request, Connected(r) PROVE TypeOK'
    <2>1. Free(connected \cup {mine[r]}, hashes) /\ mine[r] \in Client
      BY <1>5 DEF Connected
    <2>2. /\ {connected', bots', hashes'} \subseteq SUBSET Client
          /\ owner' \in [Client -> Sub \cup {None}]
      BY <1>5, <2>1, FreeType
    <2>3. QED
      BY <1>5, <2>2 DEF Connected
  <1>6. ASSUME NEW r \in Request, ConnectFails(r) PROVE TypeOK'
    <2>1. /\ {connected', bots', hashes'} \subseteq SUBSET Client
          /\ owner' \in [Client -> Sub \cup {None}]
      BY <1>6, FreeType DEF ConnectFails
    <2>2. QED
      BY <1>6, <2>1 DEF ConnectFails
  <1>7. ASSUME NEW r \in Request, CodeSent(r) PROVE TypeOK'
    <2>1. Free(connected, hashes \cup {mine[r]}) /\ mine[r] \in Client
      BY <1>7 DEF CodeSent
    <2>2. /\ {connected', bots', hashes'} \subseteq SUBSET Client
          /\ owner' \in [Client -> Sub \cup {None}]
      BY <1>7, <2>1, FreeType
    <2>3. QED
      BY <1>7, <2>2 DEF CodeSent, Register
  <1>8. ASSUME NEW r \in Request, CodeRefused(r) PROVE TypeOK'
    <2>1. /\ {connected', bots', hashes'} \subseteq SUBSET Client
          /\ owner' \in [Client -> Sub \cup {None}]
      BY <1>8, FreeType DEF CodeRefused
    <2>2. QED
      BY <1>8, <2>1 DEF CodeRefused
  <1>9. ASSUME NEW r \in Request, Popped(r) PROVE TypeOK'
    <2>1. /\ {connected', bots', hashes'} \subseteq SUBSET Client
          /\ owner' \in [Client -> Sub \cup {None}]
      BY <1>9, FreeType DEF Popped
    <2>2. QED
      BY <1>9, <2>1 DEF Popped, Register
  <1>10. ASSUME NEW r \in Request, SignedIn(r) PROVE TypeOK'
    BY <1>10 DEF SignedIn
  <1>11. ASSUME NEW r \in Request, NeedsPassword(r) PROVE TypeOK'
    <2>1. /\ {connected', bots', hashes'} \subseteq SUBSET Client
          /\ owner' \in [Client -> Sub \cup {None}]
      BY <1>11, FreeType DEF NeedsPassword
    <2>2. QED
      BY <1>11, <2>1 DEF NeedsPassword
  <1>12. ASSUME NEW r \in Request, SignInFails(r) PROVE TypeOK'
    <2>1. /\ {connected', bots', hashes'} \subseteq SUBSET Client
          /\ owner' \in [Client -> Sub \cup {None}]
      BY <1>12, FreeType DEF SignInFails
    <2>2. QED
      BY <1>12, <2>1 DEF SignInFails
  <1>13. ASSUME NEW r \in Request, Secured(r) PROVE TypeOK'
    <2>1. /\ {connected', bots', hashes'} \subseteq SUBSET Client
          /\ owner' \in [Client -> Sub \cup {None}]
      BY <1>13, FreeType DEF Secured
    <2>2. QED
      BY <1>13, <2>1 DEF Secured
  <1>14. ASSUME NEW r \in Request, Consume(r) PROVE TypeOK'
    BY <1>14 DEF Consume
  <1>15. ASSUME NEW r \in Request, Record(r) PROVE TypeOK'
    BY <1>15 DEF Record
  <1>16. ASSUME NEW r \in Request, Activate(r) PROVE TypeOK'
    <2>1. /\ {connected', bots', hashes'} \subseteq SUBSET Client
          /\ owner' \in [Client -> Sub \cup {None}]
      BY <1>16, FreeType DEF Activate
    <2>2. QED
      BY <1>16, <2>1 DEF Activate
  <1>17. ASSUME NEW r \in Request, WriteFails(r) PROVE TypeOK'
    <2>1. /\ {connected', bots', hashes'} \subseteq SUBSET Client
          /\ owner' \in [Client -> Sub \cup {None}]
      BY <1>17, FreeType DEF WriteFails
    <2>2. QED
      BY <1>17, <2>1 DEF WriteFails
  <1>18. ASSUME NEW s \in Sub, NEW c \in Client, Restored(s, c) PROVE TypeOK'
    BY <1>18 DEF Restored
  <1>19. ASSUME NEW s \in Sub, RestoreFails(s) PROVE TypeOK'
    BY <1>19 DEF RestoreFails
  <1>20. ASSUME NEW s \in Sub, DropRecord(s) PROVE TypeOK'
    BY <1>20 DEF DropRecord
  <1>21. CASE Restart
    <2>1. Free({}, {})
      BY <1>21 DEF Restart
    <2>2. /\ {connected', bots', hashes'} \subseteq SUBSET Client
          /\ owner' \in [Client -> Sub \cup {None}]
      BY <1>21, <2>1, FreeType
    <2>3. QED
      BY <1>21, <2>2 DEF Restart
  <1>22. CASE UNCHANGED vars
    BY <1>22 DEF vars
  <1> HIDE DEF TypeOK
  <1>23. QED
    BY <1>1, <1>2, <1>3, <1>4, <1>5, <1>6, <1>7, <1>8, <1>9, <1>10, <1>11, <1>12, <1>13,
       <1>14, <1>15, <1>16, <1>17, <1>18, <1>19, <1>20, <1>21, <1>22
       DEF Next, Step, Begin, Restore

\* Every variable keeps its type, for any users and any forms in progress.
THEOREM MultiUserTypeCorrect == Spec => []TypeOK
  <1>1. QED
    BY MultiUserInitType, MultiUserTypeStep, PTL DEF Spec

-----------------------------------------------------------------------------
\* What restarts rest on, and what they promise.
RestartInv == TypeOK /\ RestoreFirst /\ Recorded /\ IndexSound /\ Restorable

\* No step of a form in progress takes a record away, or starts a restore.
LEMMA StepKeepsRecords ==
  ASSUME RestartInv, NEW r \in Request, Step(r)
  PROVE  RestartInv'
  <1>1. TypeOK'
    BY MultiUserTypeStep DEF RestartInv, Next
  <1>2. pc[r] # "idle" /\ who[r] \in Sub /\ \A s \in Sub : restoring[s] = "no"
    <2>1. pc[r] # "idle"
      BY DEF Step, Connected, ConnectFails, CodeSent, CodeRefused, Popped, SignedIn, NeedsPassword,
           SignInFails, Secured, Consume, Record, Activate, WriteFails, Writing
    <2>2. who[r] \in Sub
      BY <2>1 DEF RestartInv, TypeOK
    <2>3. QED
      BY <2>1, <2>2 DEF RestartInv, RestoreFirst, TypeOK
  <1>3. restoring' = restoring
    BY DEF Step, Connected, ConnectFails, CodeSent, CodeRefused, Popped, SignedIn, NeedsPassword,
         SignInFails, Secured, Consume, Record, Activate, WriteFails
  <1>4. RestoreFirst'
    BY <1>1, <1>2, <1>3 DEF RestoreFirst, TypeOK
  <1>5. CASE pc[r] \notin {"record", "index"}
    <2>1. record' = record /\ index' = index /\ active' = active
      BY <1>5 DEF Step, Connected, ConnectFails, CodeSent, CodeRefused, Popped, SignedIn,
           NeedsPassword, SignInFails, Secured, Consume, Record, Activate, WriteFails, Writing,
           memory, backend
    <2>2. \A q \in Request : pc'[q] = "index" => pc[q] = "index" /\ who'[q] = who[q]
      BY <1>5
         DEF Step, Connected, ConnectFails, CodeSent, CodeRefused, Popped, SignedIn, NeedsPassword,
           SignInFails, Secured, Consume, Record, Activate, WriteFails, Writing, Goto, Return,
           Register, RestartInv, TypeOK
    <2>3. QED
      BY <1>1, <1>4, <2>1, <2>2 DEF RestartInv, Recorded, IndexSound, Restorable
  <1>6. CASE Record(r)
    <2>1. record' = [record EXCEPT ![who[r]] = IF form[r] = "bot" THEN "bot" ELSE "user"]
      BY <1>6 DEF Record
    <2>2. \A s \in Sub : record[s] # "none" => record'[s] # "none"
      BY <1>2, <2>1 DEF RestartInv, TypeOK
    <2>3. Recorded'
      <3> SUFFICES ASSUME NEW q \in Request, pc'[q] = "index" PROVE record'[who'[q]] # "none"
        BY DEF Recorded
      <3>1. CASE q = r
        BY <1>2, <1>6, <2>1, <3>1 DEF Record, RestartInv, TypeOK
      <3>2. CASE q # r
        <4>1. pc[q] = "index" /\ who'[q] = who[q] /\ who[q] \in Sub
          BY <1>6, <3>2 DEF Record, Goto, RestartInv, TypeOK, HasClient, Writing
        <4>2. QED
          BY <2>2, <4>1 DEF RestartInv, Recorded
      <3>3. QED
        BY <3>1, <3>2
    <2>4. IndexSound' /\ Restorable'
      BY <1>6, <2>2 DEF Record, RestartInv, TypeOK, IndexSound, Restorable, memory
    <2>5. QED
      BY <1>1, <1>4, <2>3, <2>4 DEF RestartInv
  <1>7. CASE Activate(r)
    <2>1. record' = record /\ record[who[r]] # "none"
      BY <1>7 DEF Activate, RestartInv, Recorded
    <2>2. \A q \in Request : pc'[q] = "index" => pc[q] = "index" /\ who'[q] = who[q]
      BY <1>7 DEF Activate, Return, Goto, RestartInv, TypeOK
    <2>3. index' = index \cup {who[r]} /\ active' = [active EXCEPT ![who[r]] = mine[r]]
      BY <1>7 DEF Activate
    <2>4. Recorded'
      BY <2>1, <2>2 DEF Recorded, RestartInv
    <2>5. IndexSound' /\ Restorable'
      BY <1>2, <2>1, <2>3 DEF IndexSound, Restorable, RestartInv, TypeOK
    <2>6. QED
      BY <1>1, <1>4, <2>4, <2>5 DEF RestartInv
  <1>8. CASE WriteFails(r)
    <2>1. UNCHANGED <<memory, backend>>
      BY <1>8 DEF WriteFails
    <2>2. \A q \in Request : pc'[q] = "index" => pc[q] = "index" /\ who'[q] = who[q]
      BY <1>8 DEF WriteFails, Return, Goto, RestartInv, TypeOK
    <2>3. QED
      BY <1>1, <1>4, <2>1, <2>2 DEF RestartInv, Recorded, IndexSound, Restorable, memory, backend
  <1>9. QED
    BY <1>5, <1>6, <1>7, <1>8
       DEF Step, Connected, ConnectFails, CodeSent, CodeRefused, Popped, SignedIn, NeedsPassword,
         SignInFails, Secured, Consume

\* A form that arrives leaves what is stored alone.
LEMMA BeginKeepsRecords ==
  ASSUME RestartInv, NEW r \in Request, NEW s \in Sub, Begin(r, s)
  PROVE  RestartInv'
  <1>1. TypeOK'
    BY MultiUserTypeStep DEF RestartInv, Next
  <1>2. \A t \in Sub : restoring[t] = "no"
    BY DEF Begin, Start, Complete, Resume, NothingPending, Submit
  <1>3. restoring' = restoring /\ record' = record /\ index' = index /\ active' = active
    BY DEF Begin, Start, Complete, Resume, NothingPending, memory, backend
  <1>4. \A q \in Request : pc'[q] = "index" => pc[q] = "index" /\ who'[q] = who[q]
    <2>1. \/ pc' = pc /\ who' = who
          \/ /\ pc' \in {[pc EXCEPT ![r] = where] : where \in {"connect", "signin", "reconnect"}}
             /\ who' = [who EXCEPT ![r] = s]
      BY DEF Begin, Start, Complete, Resume, NothingPending, Submit, Goto, task
    <2>2. QED
      BY <2>1 DEF RestartInv, TypeOK
  <1>5. RestoreFirst'
    BY <1>2, <1>3 DEF RestoreFirst
  <1>6. Recorded' /\ IndexSound' /\ Restorable'
    BY <1>3, <1>4 DEF RestartInv, Recorded, IndexSound, Restorable
  <1>7. QED
    BY <1>1, <1>5, <1>6 DEF RestartInv

\* A restart restores what the index lists; giving a session up clears the
\* index before the record.
LEMMA RestoreKeepsRecords ==
  ASSUME RestartInv, NEW s \in Sub, Restore(s)
  PROVE  RestartInv'
  <1>1. TypeOK'
    BY MultiUserTypeStep DEF RestartInv, Next
  <1>2. pc' = pc /\ who' = who /\ \A r \in Request : pc[r] = "idle"
    BY DEF Restore, Restored, RestoreFails, DropRecord, task, RestartInv, RestoreFirst
  <1>3. Recorded'
    BY <1>2 DEF Recorded
  <1>4. RestoreFirst'
    <2> USE DEF memory, backend, RestartInv, RestoreFirst, TypeOK
    <2>1. ASSUME NEW c \in Client, Restored(s, c) PROVE RestoreFirst'
      BY <1>2, <2>1 DEF Restored
    <2>2. CASE RestoreFails(s)
      BY <1>2, <2>2 DEF RestoreFails
    <2>3. CASE DropRecord(s)
      BY <1>2, <2>3 DEF DropRecord
    <2>4. QED
      BY <2>1, <2>2, <2>3 DEF Restore
  <1>5. IndexSound' /\ Restorable'
    BY DEF Restore, Restored, RestoreFails, DropRecord, memory, backend, RestartInv, RestoreFirst,
         IndexSound, Restorable, TypeOK
  <1>6. QED
    BY <1>1, <1>3, <1>4, <1>5 DEF RestartInv

\* What restarts rest on is inductive.
LEMMA RestartInvStep == RestartInv /\ [Next]_vars => RestartInv'
  <1> SUFFICES ASSUME RestartInv, [Next]_vars PROVE RestartInv'
    OBVIOUS
  <1>1. CASE Restart
    <2>1. TypeOK'
      BY MultiUserTypeStep DEF RestartInv
    <2>2. QED
      BY <1>1, <2>1 DEF Restart, RestartInv, RestoreFirst, Recorded, IndexSound, Restorable, TypeOK,
           backend
  <1>2. CASE UNCHANGED vars
    BY <1>2 DEF vars, task, memory, backend, clients, history, RestartInv, TypeOK, RestoreFirst,
         Recorded, IndexSound, Restorable
  <1>3. QED
    BY <1>1, <1>2, StepKeepsRecords, BeginKeepsRecords, RestoreKeepsRecords DEF Next

\* A server starts without sessions.
LEMMA RestartInvInit == Init => RestartInv
  <1> SUFFICES ASSUME Init PROVE RestartInv
    OBVIOUS
  <1>1. TypeOK
    BY MultiUserInitType
  <1>2. QED
    BY <1>1 DEF Init, RestartInv, RestoreFirst, Recorded, IndexSound, Restorable

\* The index never lists a user without a record, wherever a crash comes.
THEOREM IndexIsSound == Spec => []IndexSound
  <1>1. RestartInv => IndexSound
    BY DEF RestartInv
  <1>2. QED
    BY <1>1, RestartInvInit, RestartInvStep, PTL DEF Spec

\* Whoever has a working client is found by the next restart.
THEOREM SessionsAreKept == Spec => []Restorable
  <1>1. RestartInv => Restorable
    BY DEF RestartInv
  <1>2. QED
    BY <1>1, RestartInvInit, RestartInvStep, PTL DEF Spec

-----------------------------------------------------------------------------
\* Whose a client is, and who refers to it.
OwnerInv == TypeOK /\ Owned /\ Progress /\ Alone /\ ServedIsOwn /\ PendingApart

\* A step that takes on no client: it keeps or drops the references there are.
LetsGo ==
  /\ \A q \in Request : mine'[q] # None =>
       mine'[q] = mine[q] /\ who'[q] = who[q] /\ form'[q] = form[q]
  /\ \A s \in Sub : pending'[s] \in {pending[s], None} /\ active'[s] \in {active[s], None}
  /\ \A s \in Sub : account[s] = "in" => account'[s] = "in"
  /\ \A c \in Client : c \in Referenced' => owner'[c] = owner[c] /\ (c \in bots' <=> c \in bots)

\* Freeing clients changes nothing of those that are still referred to.
LEMMA FreeKeeps ==
  ASSUME NEW S, NEW H, Free(S, H), NEW c \in Client, c \in Referenced'
  PROVE  owner'[c] = owner[c] /\ (c \in bots' <=> c \in bots)
  BY DEF Free

\* What is in a variable of the program is referred to.
LEMMA Held ==
  ASSUME TypeOK
  PROVE  /\ \A q \in Request : mine[q] # None => mine[q] \in Client /\ mine[q] \in Referenced
         /\ \A s \in Sub : pending[s] # None => pending[s] \in Client /\ pending[s] \in Referenced
         /\ \A s \in Sub : active[s] # None => active[s] \in Client /\ active[s] \in Referenced
  BY DEF TypeOK, Referenced

\* The same after a step.
LEMMA HeldAfter ==
  ASSUME TypeOK'
  PROVE  /\ \A q \in Request : mine'[q] # None => mine'[q] \in Client /\ mine'[q] \in Referenced'
         /\ \A s \in Sub : pending'[s] # None =>
              pending'[s] \in Client /\ pending'[s] \in Referenced'
         /\ \A s \in Sub : active'[s] # None => active'[s] \in Client /\ active'[s] \in Referenced'
  BY DEF TypeOK, Referenced

\* A step that takes on no client leaves every client its user.
LEMMA LetsGoOwned ==
  ASSUME OwnerInv, TypeOK', LetsGo
  PROVE  Owned' /\ ServedIsOwn' /\ PendingApart'
  <1>1. Owned'
    BY HeldAfter DEF OwnerInv, Owned, LetsGo
  <1>2. ServedIsOwn'
    <2> SUFFICES ASSUME NEW s \in Sub, active'[s] # None
                 PROVE  owner'[active'[s]] = s /\ (active'[s] \in bots' \/ account'[s] = "in")
      BY DEF ServedIsOwn
    <2>1. active'[s] = active[s]
      BY DEF LetsGo
    <2>2. QED
      BY <2>1, HeldAfter DEF OwnerInv, ServedIsOwn, LetsGo
  <1>3. PendingApart'
    <2> SUFFICES ASSUME NEW s \in Sub, NEW t \in Sub, pending'[s] # None
                 PROVE  pending'[s] # active'[t]
      BY DEF PendingApart
    <2>1. pending'[s] = pending[s] /\ active'[t] \in {active[t], None}
      BY DEF LetsGo
    <2>2. QED
      BY <2>1 DEF OwnerInv, PendingApart
  <1>4. QED
    BY <1>1, <1>2, <1>3

\* Nor does it share a client that one task alone has in hand.
LEMMA LetsGoAlone ==
  ASSUME OwnerInv, TypeOK', LetsGo,
         \A q \in Request : pc'[q] \in Fresh => pc[q] \in Fresh,
         \A q \in Request : pc'[q] \in Writing => pc[q] \in Writing
  PROVE  Alone'
  <1> SUFFICES ASSUME NEW r \in Request
               PROVE  /\ pc'[r] \in Fresh =>
                           /\ \A s \in Sub : active'[s] # mine'[r] /\ pending'[s] # mine'[r]
                           /\ \A q \in Request : mine'[q] = mine'[r] => q = r
                      /\ pc'[r] \in Writing => \A s \in Sub : pending'[s] # mine'[r]
    BY DEF Alone
  <1>1. pc'[r] \in Fresh \cup Writing => mine'[r] # None /\ mine'[r] = mine[r]
    BY DEF TypeOK, HasClient, Fresh, LetsGo
  <1>2. QED
    BY <1>1 DEF OwnerInv, Alone, LetsGo

\* And where every task goes on as it was, or ends, no sign-in comes undone.
LEMMA LetsGoProgress ==
  ASSUME OwnerInv, LetsGo,
         \A q \in Request : \/ pc'[q] = pc[q] /\ form'[q] = form[q] /\ who'[q] = who[q]
                            \/ pc'[q] = "idle" /\ form'[q] = "none",
         \A s \in Sub : record'[s] = "user" => record[s] = "user"
  PROVE  Progress'
  <1>1. \A q \in Request : pc[q] # "idle" => who[q] \in Sub
    BY DEF OwnerInv, TypeOK
  <1>2. QED
    BY <1>1 DEF OwnerInv, Progress, LetsGo

\* A task that ends, whether it fails or has asked for the password.
LEMMA EndsOwner ==
  ASSUME OwnerInv, TypeOK', NEW r \in Request, Return(r), NEW S, NEW H, Free(S, H),
         active' = active, record' = record,
         \A s \in Sub : pending'[s] \in {pending[s], None},
         \A s \in Sub : account[s] = "in" => account'[s] = "in"
  PROVE  OwnerInv'
  <1>1. \A q \in Request : \/ pc'[q] = pc[q] /\ form'[q] = form[q] /\ who'[q] = who[q]
                           \/ pc'[q] = "idle" /\ form'[q] = "none"
    BY DEF Return, Goto, OwnerInv, TypeOK
  <1>2. LetsGo
    <2>1. \A q \in Request : mine'[q] # None =>
            mine'[q] = mine[q] /\ who'[q] = who[q] /\ form'[q] = form[q]
      BY DEF Return, OwnerInv, TypeOK
    <2>2. QED
      BY <2>1, FreeKeeps DEF LetsGo
  <1>3. \A q \in Request : pc'[q] \in Fresh \cup Writing => pc'[q] = pc[q]
    BY <1>1 DEF Fresh, Writing
  <1>4. Progress'
    BY <1>1, <1>2, LetsGoProgress
  <1>5. QED
    BY <1>2, <1>3, <1>4, LetsGoOwned, LetsGoAlone DEF OwnerInv, Writing, Fresh

\* A step that moves a task on, with the client it has, towards an active one.
LEMMA MovesOwner ==
  ASSUME OwnerInv, TypeOK', NEW r \in Request, NEW where, Goto(r, where),
         UNCHANGED <<mine, who, form, active, pending, clients>>,
         \A s \in Sub : account[s] = "in" => account'[s] = "in"
  PROVE  LetsGo /\ Owned' /\ ServedIsOwn' /\ PendingApart'
  <1>1. LetsGo
    BY DEF LetsGo, clients
  <1>2. QED
    BY <1>1, LetsGoOwned

LEMMA SignedInOwner ==
  ASSUME OwnerInv, TypeOK', NEW r \in Request, SignedIn(r)
  PROVE  OwnerInv'
  <1>1. who[r] \in Sub /\ account' = [account EXCEPT ![who[r]] = "in"] /\ pc[r] = "signin"
    BY DEF SignedIn, OwnerInv, TypeOK, HasClient
  <1>2. \A s \in Sub : account[s] = "in" => account'[s] = "in"
    BY <1>1 DEF OwnerInv, TypeOK
  <1>3. LetsGo /\ Owned' /\ ServedIsOwn' /\ PendingApart'
    BY <1>2, MovesOwner DEF SignedIn, memory, clients
  <1>4. \A q \in Request : pc'[q] \in Fresh \cup Writing => pc'[q] = pc[q]
    BY DEF SignedIn, Goto, OwnerInv, TypeOK, Fresh, Writing
  <1>5. Alone'
    BY <1>3, <1>4, LetsGoAlone
  <1>6. Progress'
    <2>1. \A q \in Request : pc'[q] = IF q = r THEN "secure" ELSE pc[q]
      BY DEF SignedIn, Goto, OwnerInv, TypeOK
    <2>2. form' = form /\ who' = who /\ record' = record
      BY DEF SignedIn, backend
    <2>3. form[r] # "bot" /\ account'[who[r]] = "in"
      BY <1>1 DEF OwnerInv, Progress, TypeOK
    <2>4. \A q \in Request : pc[q] # "idle" => who[q] \in Sub
      BY DEF OwnerInv, TypeOK
    <2>5. QED
      BY <1>2, <2>1, <2>2, <2>3, <2>4 DEF OwnerInv, Progress
  <1>7. QED
    BY <1>3, <1>5, <1>6 DEF OwnerInv

\* The pending entry is gone before the session is stored.
LEMMA SecuredOwner ==
  ASSUME OwnerInv, TypeOK', NEW r \in Request, Secured(r)
  PROVE  OwnerInv'
  <1> DEFINE s == who[r]
  <1>1. s \in Sub /\ pending' = [pending EXCEPT ![s] = None]
    BY DEF Secured, OwnerInv, TypeOK, HasClient
  <1>2. \A t \in Sub : pending'[t] \in {pending[t], None}
    BY <1>1 DEF OwnerInv, TypeOK
  <1>3. active' = active /\ record' = record /\ account' = account /\ Free(connected, hashes)
    BY DEF Secured, backend
  <1>4. CASE pending[s] = None
    BY <1>2, <1>3, <1>4, EndsOwner DEF Secured
  <1>5. CASE pending[s] # None
    <2>1. /\ \A q \in Request : pc'[q] = IF q = r THEN "consume" ELSE pc[q]
          /\ form' = form /\ who' = who /\ mine' = mine /\ pc[r] = "secure"
      BY <1>5 DEF Secured, Goto, OwnerInv, TypeOK
    <2>2. LetsGo
      BY <1>2, <1>3, <2>1, FreeKeeps DEF LetsGo
    <2>3. Owned' /\ ServedIsOwn' /\ PendingApart'
      BY <2>2, LetsGoOwned
    <2>4. Progress'
      BY <1>3, <2>1 DEF OwnerInv, Progress
    <2>5. \A t \in Sub : pending'[t] # mine[r]
      <3>1. owner[mine[r]] = s /\ mine[r] # None
        BY <2>1 DEF OwnerInv, Owned, TypeOK, HasClient
      <3>2. QED
        BY <1>1, <3>1 DEF OwnerInv, Owned, TypeOK
    <2>6. Alone'
      <3> SUFFICES ASSUME NEW q \in Request
                   PROVE  /\ pc'[q] \in Fresh =>
                               /\ \A t \in Sub : active'[t] # mine'[q] /\ pending'[t] # mine'[q]
                               /\ \A o \in Request : mine'[o] = mine'[q] => o = q
                          /\ pc'[q] \in Writing => \A t \in Sub : pending'[t] # mine'[q]
        BY DEF Alone
      <3>1. CASE q = r
        BY <2>1, <2>5, <3>1 DEF Fresh
      <3>2. CASE q # r
        <4>1. pc'[q] = pc[q] /\ mine'[q] = mine[q]
          BY <2>1, <3>2
        <4>2. pc[q] \in Fresh \cup Writing => mine[q] # None
          BY DEF OwnerInv, TypeOK, HasClient, Fresh
        <4>3. QED
          BY <1>2, <1>3, <2>1, <4>1, <4>2 DEF OwnerInv, Alone
      <3>3. QED
        BY <3>1, <3>2
    <2>7. QED
      BY <2>3, <2>4, <2>6 DEF OwnerInv
  <1>6. QED
    BY <1>4, <1>5

\* What was pending is consumed by a task that is signed in.
LEMMA ConsumeOwner ==
  ASSUME OwnerInv, TypeOK', NEW r \in Request, Consume(r)
  PROVE  OwnerInv'
  <1>1. LetsGo /\ Owned' /\ ServedIsOwn' /\ PendingApart'
    BY MovesOwner DEF Consume, memory, clients
  <1>2. /\ \A q \in Request : pc'[q] = IF q = r THEN "record" ELSE pc[q]
        /\ form' = form /\ who' = who /\ record' = record /\ account' = account
        /\ pc[r] = "consume"
    BY DEF Consume, Goto, OwnerInv, TypeOK
  <1>3. Progress'
    BY <1>2 DEF OwnerInv, Progress
  <1>4. Alone'
    BY <1>1, <1>2, LetsGoAlone DEF Fresh, Writing
  <1>5. QED
    BY <1>1, <1>3, <1>4 DEF OwnerInv

\* A user's record is written only when the account is signed in.
LEMMA RecordOwner ==
  ASSUME OwnerInv, TypeOK', NEW r \in Request, Record(r)
  PROVE  OwnerInv'
  <1>1. LetsGo /\ Owned' /\ ServedIsOwn' /\ PendingApart'
    BY MovesOwner DEF Record, memory, clients
  <1>2. /\ \A q \in Request : pc'[q] = IF q = r THEN "index" ELSE pc[q]
        /\ form' = form /\ who' = who /\ account' = account /\ pc[r] = "record"
    BY DEF Record, Goto, OwnerInv, TypeOK
  <1>3. \A s \in Sub : record'[s] = "user" => record[s] = "user" \/ (s = who[r] /\ form[r] # "bot")
    BY DEF Record, OwnerInv, TypeOK
  <1>4. Progress'
    BY <1>2, <1>3 DEF OwnerInv, Progress
  <1>5. Alone'
    BY <1>1, <1>2, LetsGoAlone DEF Fresh, Writing
  <1>6. QED
    BY <1>1, <1>4, <1>5 DEF OwnerInv

\* A new client is in the hands of the task that made it, for the user it serves.
LEMMA NewOwner ==
  ASSUME OwnerInv, TypeOK', NEW r \in Request, NEW s \in Sub, NEW c \in Client,
         NEW f \in {"phone", "bot", "otp", "password"},
         NEW where \in {"connect", "reconnect"}, where = "reconnect" => f # "bot",
         pc[r] = "idle", NewClient(s, c, f = "bot"), Goto(r, where),
         form' = [form EXCEPT ![r] = f], who' = [who EXCEPT ![r] = s],
         mine' = [mine EXCEPT ![r] = c],
         UNCHANGED <<active, pending, record, account>>
  PROVE  OwnerInv'
  <1>1. /\ \A q \in Request : pc'[q] = IF q = r THEN where ELSE pc[q]
        /\ \A q \in Request : form'[q] = IF q = r THEN f ELSE form[q]
        /\ \A q \in Request : who'[q] = IF q = r THEN s ELSE who[q]
        /\ \A q \in Request : mine'[q] = IF q = r THEN c ELSE mine[q]
    BY DEF Goto, OwnerInv, TypeOK
  <1>2. /\ owner'[c] = s /\ (c \in bots' <=> f = "bot")
        /\ \A d \in Client \ {c} : owner'[d] = owner[d] /\ (d \in bots' <=> d \in bots)
    BY DEF NewClient, OwnerInv, TypeOK
  <1>3. c # None
    BY MultiUserAssumption
  <1>4. /\ \A q \in Request : mine[q] # c
        /\ \A t \in Sub : active[t] # c /\ pending[t] # c
    BY DEF NewClient, Referenced
  <1>5. Owned'
    <2>1. \A q \in Request : mine[q] # None => mine[q] \in Client \ {c}
      BY <1>4, Held DEF OwnerInv
    <2>2. \A t \in Sub : pending[t] # None => pending[t] \in Client \ {c}
      BY <1>4, Held DEF OwnerInv
    <2>3. QED
      BY <1>1, <1>2, <1>3, <2>1, <2>2 DEF OwnerInv, Owned
  <1>6. Progress'
    BY <1>1 DEF OwnerInv, Progress
  <1>7. Alone'
    BY <1>1, <1>4 DEF OwnerInv, Alone, Fresh, Writing
  <1>8. ServedIsOwn'
    BY <1>2, <1>4, Held DEF OwnerInv, ServedIsOwn
  <1>9. PendingApart'
    BY DEF OwnerInv, PendingApart
  <1>10. QED
    BY <1>5, <1>6, <1>7, <1>8, <1>9 DEF OwnerInv

\* A pending client is one that its task has connected, or has a code for.
LEMMA PendsOwner ==
  ASSUME OwnerInv, TypeOK', NEW r \in Request, pc[r] \in {"reconnect", "sendcode", "popped"},
         NEW S, NEW H, Free(S, H),
         pending' = [pending EXCEPT ![who[r]] = mine[r]],
         \/ Return(r)
         \/ Goto(r, "signin") /\ UNCHANGED <<mine, who, form>>,
         UNCHANGED <<active, record, account>>
  PROVE  OwnerInv'
  <1>1. /\ mine[r] \in Client /\ who[r] \in Sub /\ owner[mine[r]] = who[r]
        /\ mine[r] \notin bots /\ mine[r] # None
    BY MultiUserAssumption DEF OwnerInv, TypeOK, Owned, Progress, HasClient
  <1>2. /\ \A q \in Request : \/ q # r /\ pc'[q] = pc[q] /\ form'[q] = form[q] /\ who'[q] = who[q]
                                 /\ mine'[q] = mine[q]
                              \/ q = r /\ pc'[q] = "idle" /\ form'[q] = "none" /\ mine'[q] = None
                              \/ q = r /\ pc'[q] = "signin" /\ form'[q] = form[q]
                                 /\ who'[q] = who[q] /\ mine'[q] = mine[q]
    BY DEF Return, Goto, OwnerInv, TypeOK
  <1>3. \A s \in Sub : pending'[s] = IF s = who[r] THEN mine[r] ELSE pending[s]
    BY <1>1 DEF OwnerInv, TypeOK
  <1>4. /\ \A s \in Sub : active[s] # mine[r]
        /\ \A q \in Request : mine[q] = mine[r] => q = r
    BY DEF OwnerInv, Alone, Fresh
  <1>5. Owned'
    <2>1. \A q \in Request : mine'[q] # None =>
            mine'[q] = mine[q] /\ who'[q] = who[q] /\ form'[q] = form[q]
      BY <1>2
    <2>2. \A s \in Sub : pending'[s] # None => owner[pending'[s]] = s /\ pending'[s] \notin bots
      BY <1>1, <1>3 DEF OwnerInv, Owned
    <2>3. QED
      BY <2>1, <2>2, FreeKeeps, HeldAfter DEF OwnerInv, Owned
  <1>6. Progress'
    <2>1. form[r] # "bot"
      BY DEF OwnerInv, Progress
    <2>2. QED
      BY <1>2, <2>1 DEF OwnerInv, Progress
  <1>7. Alone'
    <2> SUFFICES ASSUME NEW q \in Request
                 PROVE  /\ pc'[q] \in Fresh =>
                             /\ \A t \in Sub : active'[t] # mine'[q] /\ pending'[t] # mine'[q]
                             /\ \A o \in Request : mine'[o] = mine'[q] => o = q
                        /\ pc'[q] \in Writing => \A t \in Sub : pending'[t] # mine'[q]
      BY DEF Alone
    <2>1. CASE q = r
      BY <1>2, <2>1 DEF Fresh, Writing
    <2>2. CASE q # r
      <3>1. pc'[q] = pc[q] /\ mine'[q] = mine[q] /\ mine[q] # mine[r]
        BY <1>2, <1>4, <2>2
      <3>2. \A o \in Request : mine'[o] \in {mine[o], None}
        BY <1>2
      <3>3. pc[q] \in Fresh => mine[q] # None
        BY DEF OwnerInv, TypeOK, HasClient, Fresh
      <3>4. QED
        BY <1>3, <3>1, <3>2, <3>3 DEF OwnerInv, Alone
    <2>3. QED
      BY <2>1, <2>2
  <1>8. ServedIsOwn'
    BY FreeKeeps, HeldAfter DEF OwnerInv, ServedIsOwn
  <1>9. PendingApart'
    BY <1>3, <1>4 DEF OwnerInv, PendingApart
  <1>10. QED
    BY <1>5, <1>6, <1>7, <1>8, <1>9 DEF OwnerInv

\* The earlier entry is popped before its client is disconnected.
LEMMA PopsOwner ==
  ASSUME OwnerInv, TypeOK', NEW r \in Request, pc[r] = "sendcode", Goto(r, "popped"),
         NEW S, NEW H, Free(S, H),
         pending' = [pending EXCEPT ![who[r]] = None],
         UNCHANGED <<mine, who, form, active, record, account>>
  PROVE  OwnerInv'
  <1>1. LetsGo
    <2>1. \A s \in Sub : pending'[s] \in {pending[s], None}
      BY DEF OwnerInv, TypeOK
    <2>2. QED
      BY <2>1, FreeKeeps DEF LetsGo
  <1>2. \A q \in Request : pc'[q] = IF q = r THEN "popped" ELSE pc[q]
    BY DEF Goto, OwnerInv, TypeOK
  <1>3. Progress'
    <2>1. form[r] # "bot"
      BY DEF OwnerInv, Progress
    <2>2. QED
      BY <1>2, <2>1 DEF OwnerInv, Progress
  <1>4. Alone'
    BY <1>1, <1>2, LetsGoAlone DEF Fresh, Writing
  <1>5. QED
    BY <1>1, <1>3, <1>4, LetsGoOwned DEF OwnerInv

\* The client of a finished sign-in is its user's and signed in.
LEMMA ActivateOwner ==
  ASSUME OwnerInv, TypeOK', NEW r \in Request, Activate(r)
  PROVE  OwnerInv'
  <1>1. /\ mine[r] \in Client /\ who[r] \in Sub /\ owner[mine[r]] = who[r] /\ mine[r] # None
        /\ mine[r] \in bots \/ account[who[r]] = "in"
        /\ pc[r] = "index"
    BY MultiUserAssumption DEF Activate, OwnerInv, TypeOK, Owned, Progress, HasClient, Writing
  <1>2. /\ pending' = pending /\ record' = record /\ account' = account
        /\ Return(r) /\ Free(connected, hashes)
        /\ active' = [active EXCEPT ![who[r]] = mine[r]]
    BY DEF Activate
  <1>3. \A q \in Request : \/ q # r /\ pc'[q] = pc[q] /\ form'[q] = form[q] /\ who'[q] = who[q]
                              /\ mine'[q] = mine[q]
                           \/ q = r /\ pc'[q] = "idle" /\ form'[q] = "none" /\ mine'[q] = None
    BY <1>2 DEF Return, Goto, OwnerInv, TypeOK
  <1>4. \A s \in Sub : active'[s] = IF s = who[r] THEN mine[r] ELSE active[s]
    BY <1>1, <1>2 DEF OwnerInv, TypeOK
  <1>5. Owned'
    <2>1. \A q \in Request : mine'[q] # None =>
            mine'[q] = mine[q] /\ who'[q] = who[q] /\ form'[q] = form[q]
      BY <1>3
    <2>2. QED
      BY <1>2, <2>1, FreeKeeps, HeldAfter DEF OwnerInv, Owned
  <1>6. Progress'
    BY <1>2, <1>3 DEF OwnerInv, Progress
  <1>7. Alone'
    <2> SUFFICES ASSUME NEW q \in Request
                 PROVE  /\ pc'[q] \in Fresh =>
                             /\ \A t \in Sub : active'[t] # mine'[q] /\ pending'[t] # mine'[q]
                             /\ \A o \in Request : mine'[o] = mine'[q] => o = q
                        /\ pc'[q] \in Writing => \A t \in Sub : pending'[t] # mine'[q]
      BY DEF Alone
    <2>1. CASE q = r
      BY <1>3, <2>1 DEF Fresh, Writing
    <2>2. CASE q # r
      <3>1. pc'[q] = pc[q] /\ mine'[q] = mine[q] /\ \A o \in Request : mine'[o] \in {mine[o], None}
        BY <1>3, <2>2
      <3>2. pc[q] \in Fresh => mine[q] # None /\ mine[q] # mine[r]
        BY <2>2 DEF OwnerInv, TypeOK, HasClient, Fresh, Alone
      <3>3. QED
        BY <1>2, <1>4, <3>1, <3>2 DEF OwnerInv, Alone
    <2>3. QED
      BY <2>1, <2>2
  <1>8. ServedIsOwn'
    BY <1>1, <1>2, <1>4, FreeKeeps, HeldAfter DEF OwnerInv, ServedIsOwn
  <1>9. PendingApart'
    <2>1. \A s \in Sub : pending[s] # mine[r]
      BY <1>1 DEF OwnerInv, Alone, Writing
    <2>2. QED
      BY <1>2, <1>4, <2>1 DEF OwnerInv, PendingApart
  <1>10. QED
    BY <1>5, <1>6, <1>7, <1>8, <1>9 DEF OwnerInv

\* A bot that answers is stored next, and a user client asks for a code.
LEMMA ConnectedOwner ==
  ASSUME OwnerInv, TypeOK', NEW r \in Request, Connected(r)
  PROVE  OwnerInv'
  <1>1. Free(connected \cup {mine[r]}, hashes) /\ active' = active /\ record' = record
          /\ account' = account /\ UNCHANGED <<mine, who, form>>
    BY DEF Connected, backend
  <1>2. CASE pc[r] = "reconnect"
    BY <1>1, <1>2, PendsOwner DEF Connected
  <1>3. CASE pc[r] = "connect"
    <2> DEFINE next == IF form[r] = "bot" THEN "record" ELSE "sendcode"
    <2>1. pending' = pending /\ \A q \in Request : pc'[q] = IF q = r THEN next ELSE pc[q]
      BY <1>3 DEF Connected, Goto, OwnerInv, TypeOK
    <2>2. LetsGo
      BY <1>1, <2>1, FreeKeeps DEF LetsGo
    <2>3. Progress'
      BY <1>1, <2>1 DEF OwnerInv, Progress
    <2>4. Alone'
      <3> SUFFICES ASSUME NEW q \in Request
                   PROVE  /\ pc'[q] \in Fresh =>
                               /\ \A t \in Sub : active'[t] # mine'[q] /\ pending'[t] # mine'[q]
                               /\ \A o \in Request : mine'[o] = mine'[q] => o = q
                          /\ pc'[q] \in Writing => \A t \in Sub : pending'[t] # mine'[q]
        BY DEF Alone
      <3>1. pc'[q] \in Fresh => pc[q] \in Fresh
        BY <1>3, <2>1 DEF Fresh
      <3>2. pc'[q] \in Writing => pc[q] \in Fresh \cup Writing
        BY <1>3, <2>1 DEF Fresh, Writing
      <3>3. QED
        BY <1>1, <2>1, <3>1, <3>2 DEF OwnerInv, Alone
    <2>5. QED
      BY <2>2, <2>3, <2>4, LetsGoOwned DEF OwnerInv
  <1>4. QED
    BY <1>2, <1>3 DEF Connected

\* A form that completes a sign-in takes the user's pending client in hand.
LEMMA CompleteOwner ==
  ASSUME OwnerInv, TypeOK', NEW r \in Request, NEW s \in Sub, NEW f \in {"otp", "password"},
         Complete(r, s, f)
  PROVE  OwnerInv'
  <1>1. /\ \A q \in Request : pc'[q] = IF q = r THEN "signin" ELSE pc[q]
        /\ \A q \in Request : form'[q] = IF q = r THEN f ELSE form[q]
        /\ \A q \in Request : who'[q] = IF q = r THEN s ELSE who[q]
        /\ \A q \in Request : mine'[q] = IF q = r THEN pending[s] ELSE mine[q]
        /\ active' = active /\ pending' = pending /\ record' = record /\ account' = account
        /\ owner' = owner /\ bots' = bots
        /\ pending[s] # None
    BY DEF Complete, Submit, Goto, OwnerInv, TypeOK, memory, backend, clients
  <1>2. Owned' /\ Progress'
    BY <1>1 DEF OwnerInv, Owned, Progress
  <1>3. Alone'
    BY <1>1 DEF OwnerInv, Alone, Fresh, Writing
  <1>4. ServedIsOwn' /\ PendingApart'
    BY <1>1 DEF OwnerInv, ServedIsOwn, PendingApart
  <1>5. QED
    BY <1>2, <1>3, <1>4 DEF OwnerInv

\* The answer that nothing is pending changes nothing but what is kept or stashed.
LEMMA NothingPendingOwner ==
  ASSUME OwnerInv, TypeOK', NEW r \in Request, NEW s \in Sub, NEW f \in {"otp", "password"},
         NothingPending(r, s, f)
  PROVE  OwnerInv'
  BY DEF NothingPending, OwnerInv, Owned, Progress, Alone, ServedIsOwn, PendingApart, task, clients

\* A restored client is its user's: a bot, or one whose account is signed in.
LEMMA RestoreOwner ==
  ASSUME OwnerInv, RestartInv, TypeOK', NEW s \in Sub, Restore(s)
  PROVE  OwnerInv'
  <1>1. ASSUME NEW c \in Client, Restored(s, c) PROVE OwnerInv'
    <2>1. /\ UNCHANGED <<pc, form, who, mine, pending, record, account>>
          /\ \A t \in Sub : active'[t] = IF t = s THEN c ELSE active[t]
      BY <1>1 DEF Restored, task, backend, OwnerInv, TypeOK
    <2>2. /\ owner'[c] = s /\ (c \in bots' <=> record[s] = "bot")
          /\ \A d \in Client \ {c} : owner'[d] = owner[d] /\ (d \in bots' <=> d \in bots)
      BY <1>1 DEF Restored, OwnerInv, TypeOK
    <2>3. /\ \A q \in Request : mine[q] # c
          /\ \A t \in Sub : active[t] # c /\ pending[t] # c
      BY <1>1 DEF Restored, Referenced
    <2>4. record[s] = "bot" \/ account[s] = "in"
      <3>1. record[s] # "none" => record[s] = "bot" \/ account[s] = "in"
        BY DEF OwnerInv, Progress, TypeOK
      <3>2. QED
        BY <1>1, <3>1 DEF Restored, RestartInv, RestoreFirst
    <2>5. Owned'
      BY <2>1, <2>2, <2>3, Held DEF OwnerInv, Owned
    <2>6. Progress' /\ Alone'
      BY <2>1, <2>3 DEF OwnerInv, Progress, Alone
    <2>7. ServedIsOwn'
      BY <2>1, <2>2, <2>3, <2>4, Held DEF OwnerInv, ServedIsOwn
    <2>8. PendingApart'
      BY <2>1, <2>3 DEF OwnerInv, PendingApart
    <2>9. QED
      BY <2>5, <2>6, <2>7, <2>8 DEF OwnerInv
  <1>2. ASSUME RestoreFails(s) \/ DropRecord(s) PROVE OwnerInv'
    <2>1. /\ UNCHANGED <<pc, form, who, mine, active, pending, owner, bots, account>>
          /\ \A t \in Sub : record'[t] = "user" => record[t] = "user"
      BY <1>2 DEF RestoreFails, DropRecord, task, memory, clients, OwnerInv, TypeOK
    <2>2. QED
      BY <2>1 DEF OwnerInv, Owned, Progress, Alone, ServedIsOwn, PendingApart
  <1>3. QED
    BY <1>1, <1>2 DEF Restore

\* A form that arrives makes a client or takes the pending one.
LEMMA BeginOwner ==
  ASSUME OwnerInv, TypeOK', NEW r \in Request, NEW s \in Sub, Begin(r, s)
  PROVE  OwnerInv'
  <1>1. ASSUME NEW f \in {"phone", "bot"}, NEW c \in Client, Start(r, s, f, c) PROVE OwnerInv'
    BY <1>1, NewOwner DEF Start, Submit, memory, backend
  <1>2. ASSUME NEW f \in {"otp", "password"}, NEW c \in Client, Resume(r, s, f, c) PROVE OwnerInv'
    <2>1. NewClient(s, c, f = "bot")
      BY <1>2 DEF Resume, NewClient
    <2>2. QED
      BY <1>2, <2>1, NewOwner DEF Resume, Submit, memory, backend
  <1>3. QED
    BY <1>1, <1>2, CompleteOwner, NothingPendingOwner DEF Begin

\* Every step of a task keeps clients with their users.
LEMMA StepOwner ==
  ASSUME OwnerInv, TypeOK', NEW r \in Request, Step(r)
  PROVE  OwnerInv'
  <1>1. CASE ConnectFails(r)
    BY <1>1, EndsOwner DEF ConnectFails, memory, backend
  <1>2. CASE CodeSent(r)
    <2>1. /\ Free(connected, hashes \cup {mine[r]}) /\ pc[r] = "sendcode"
          /\ UNCHANGED <<active, record, account>>
      BY <1>2 DEF CodeSent
    <2>2. CASE pending[who[r]] = None
      BY <1>2, <2>1, <2>2, PendsOwner DEF CodeSent, Register
    <2>3. CASE pending[who[r]] # None
      BY <1>2, <2>1, <2>3, PopsOwner DEF CodeSent
    <2>4. QED
      BY <2>2, <2>3
  <1>3. CASE CodeRefused(r)
    BY <1>3, EndsOwner DEF CodeRefused, memory, backend
  <1>4. CASE Popped(r)
    BY <1>4, PendsOwner DEF Popped, Register
  <1>5. CASE NeedsPassword(r)
    <2>1. \A s \in Sub : account[s] = "in" => account'[s] = "in"
      BY <1>5 DEF NeedsPassword, OwnerInv, TypeOK
    <2>2. QED
      BY <1>5, <2>1, EndsOwner DEF NeedsPassword, backend
  <1>6. CASE SignInFails(r)
    BY <1>6, EndsOwner DEF SignInFails, backend
  <1>7. CASE WriteFails(r)
    BY <1>7, EndsOwner DEF WriteFails, memory, backend
  <1>8. QED
    BY <1>1, <1>2, <1>3, <1>4, <1>5, <1>6, <1>7, ConnectedOwner, SignedInOwner, SecuredOwner,
       ConsumeOwner, RecordOwner, ActivateOwner DEF Step

\* Together with what restarts rest on, ownership is inductive.
LEMMA OwnerInvStep == OwnerInv /\ RestartInv /\ [Next]_vars => OwnerInv'
  <1> SUFFICES ASSUME OwnerInv, RestartInv, [Next]_vars PROVE OwnerInv'
    OBVIOUS
  <1>1. TypeOK'
    BY MultiUserTypeStep DEF OwnerInv
  <1>2. CASE Restart
    <2>1. /\ \A q \in Request : mine'[q] = None /\ pc'[q] = "idle" /\ form'[q] = "none"
          /\ \A s \in Sub : active'[s] = None /\ pending'[s] = None
          /\ account' = account /\ \A s \in Sub : record'[s] = "user" => record[s] = "user"
      BY <1>2 DEF Restart, backend
    <2>2. QED
      BY <1>1, <2>1 DEF OwnerInv, Owned, Progress, Alone, ServedIsOwn, PendingApart, Fresh, Writing
  <1>3. CASE UNCHANGED vars
    BY <1>1, <1>3 DEF vars, task, memory, backend, clients, history, OwnerInv, Owned, Progress,
         Alone, ServedIsOwn, PendingApart
  <1>4. QED
    BY <1>1, <1>2, <1>3, StepOwner, BeginOwner, RestoreOwner DEF Next

\* A server starts without clients.
LEMMA OwnerInvInit == Init => OwnerInv
  <1> SUFFICES ASSUME Init PROVE OwnerInv
    OBVIOUS
  <1>1. TypeOK
    BY MultiUserInitType
  <1>2. QED
    BY <1>1 DEF Init, OwnerInv, Owned, Progress, Alone, ServedIsOwn, PendingApart, Fresh, Writing

\* Concurrent users are isolated: a user's tools run on a client made for that
\* user and signed in, however the forms of any users overlap.
THEOREM UsersAreIsolated == Spec => []ServedIsOwn
  <1>1. OwnerInv => ServedIsOwn
    BY DEF OwnerInv
  <1>2. QED
    BY <1>1, OwnerInvInit, OwnerInvStep, RestartInvInit, RestartInvStep, PTL DEF Spec

\* The pending client, which starting over disconnects, is never one that tools
\* run on, in whatever order forms, failures and restarts come.
THEOREM PendingIsApart == Spec => []PendingApart
  <1>1. OwnerInv => PendingApart
    BY DEF OwnerInv
  <1>2. QED
    BY <1>1, OwnerInvInit, OwnerInvStep, RestartInvInit, RestartInvStep, PTL DEF Spec

-----------------------------------------------------------------------------
\* A form of a user whose forms do not overlap is the user's only one, its client
\* is connected from the first answer on, and what it popped is used by nobody.
SoleForm(r) ==
  /\ \A q \in Request : who[q] = who[r] => q = r
  /\ pc[r] \notin {"connect", "reconnect"} => mine[r] \in connected
  /\ pc[r] = "popped" => old[r] \notin {mine[r], active[who[r]], pending[who[r]]}

\* What OneAtATime rests on.
Live ==
  /\ OneAtATime
  /\ \A r \in Request : who[r] \in Sub \ raced => SoleForm(r)
  /\ \A r \in Request : old[r] # None => owner[old[r]] = who[r]

\* What a popped entry held is still referred to while it is disconnected.
LEMMA OldHeldAfter ==
  ASSUME TypeOK'
  PROVE  \A q \in Request : old'[q] # None => old'[q] \in Client /\ old'[q] \in Referenced'
  BY DEF TypeOK, Referenced

\* A connection that a step does not close lasts as long as its client.
LEMMA StaysConnected ==
  ASSUME NEW S, NEW H, Free(S, H), NEW c \in S, c \in Referenced'
  PROVE  c \in connected'
  BY DEF Free

\* Only the task that makes a client knows it until it is pending or active.
LEMMA FreshAlone ==
  ASSUME OwnerInv, NEW r \in Request, pc[r] \in Fresh
  PROVE  /\ \A s \in Sub : active[s] # mine[r] /\ pending[s] # mine[r]
         /\ \A q \in Request : mine[q] = mine[r] => q = r
  BY DEF OwnerInv, Alone

\* A form that ends may disconnect the client it was the only one to know.
LEMMA EndsLive ==
  ASSUME OwnerInv, TypeOK', Live, NEW r \in Request, pc[r] # "idle", Return(r),
         NEW S, NEW H, Free(S, H), connected \ {mine[r]} \subseteq S,
         connected \subseteq S \/ pc[r] \in Fresh,
         active' = active, raced' = raced,
         \A s \in Sub : pending'[s] \in {pending[s], None}
  PROVE  Live'
  <1>1. \A q \in Request : \/ q # r /\ pc'[q] = pc[q] /\ who'[q] = who[q] /\ mine'[q] = mine[q]
                              /\ old'[q] = old[q]
                           \/ q = r /\ pc'[q] = "idle" /\ who'[q] = None /\ mine'[q] = None
                              /\ old'[q] = None
    BY DEF Return, Goto, OwnerInv, TypeOK
  <1>2. /\ \A s \in Sub : active[s] # mine[r] \/ connected \subseteq S
        /\ \A s \in Sub : pending[s] # mine[r] \/ connected \subseteq S
        /\ \A q \in Request : q # r => mine[q] # mine[r] \/ connected \subseteq S
    BY FreshAlone
  <1>3. \A c : c \in connected /\ c \in Referenced' /\ (c # mine[r] \/ connected \subseteq S)
          => c \in connected'
    BY StaysConnected
  <1>4. OneAtATime'
    <2> SUFFICES ASSUME NEW s \in Sub \ raced'
                 PROVE  active'[s] \in connected' \cup {None} /\ pending'[s] \in connected' \cup {None}
      BY DEF OneAtATime
    <2>1. active[s] \in connected \cup {None} /\ pending[s] \in connected \cup {None}
      BY DEF Live, OneAtATime
    <2>2. QED
      BY <1>2, <1>3, <2>1, HeldAfter
  <1>5. ASSUME NEW q \in Request, who'[q] \in Sub \ raced' PROVE SoleForm(q)'
    <2>1. q # r /\ pc'[q] = pc[q] /\ who'[q] = who[q] /\ mine'[q] = mine[q] /\ old'[q] = old[q]
      BY <1>1, <1>5, MultiUserAssumption
    <2>2. SoleForm(q)
      BY <1>5, <2>1 DEF Live
    <2>3. \A o \in Request : who'[o] = who'[q] => o = q
      BY <1>1, <1>5, <2>1, <2>2, MultiUserAssumption DEF SoleForm
    <2>4. mine[q] # None
      BY <1>5, <2>1, MultiUserAssumption DEF OwnerInv, TypeOK
    <2>5. pc[q] \notin {"connect", "reconnect"} => mine'[q] \in connected'
      BY <1>2, <1>3, <2>1, <2>2, <2>4, HeldAfter DEF SoleForm
    <2>6. pc[q] = "popped" => old[q] # None
      BY DEF OwnerInv, TypeOK
    <2>7. pending'[who[q]] \in {pending[who[q]], None}
      BY <1>5, <2>1
    <2>8. QED
      BY <2>1, <2>2, <2>3, <2>5, <2>6, <2>7 DEF SoleForm
  <1>6. \A q \in Request : old'[q] # None => owner'[old'[q]] = who'[q]
    BY <1>1, FreeKeeps, OldHeldAfter DEF Live
  <1>7. QED
    BY <1>4, <1>5, <1>6 DEF Live

\* A form that goes on, with the client it has, keeps every connection.
LEMMA MovesLive ==
  ASSUME OwnerInv, TypeOK', Live, NEW r \in Request, NEW where, Goto(r, where),
         pc[r] \notin {"idle", "connect", "reconnect", "popped"},
         where \notin {"connect", "reconnect", "popped"},
         UNCHANGED <<who, mine, old, active, raced>>,
         \A s \in Sub : pending'[s] \in {pending[s], None},
         \/ UNCHANGED <<connected, owner>>
         \/ Free(connected, hashes)
  PROVE  Live'
  <1>1. \A q \in Request : pc'[q] = IF q = r THEN where ELSE pc[q]
    BY DEF Goto, OwnerInv, TypeOK
  <1>2. \A c \in Client : c \in Referenced' =>
          owner'[c] = owner[c] /\ (c \in connected => c \in connected')
    BY FreeKeeps, StaysConnected
  <1>3. OneAtATime'
    <2> SUFFICES ASSUME NEW s \in Sub \ raced'
                 PROVE  active'[s] \in connected' \cup {None} /\ pending'[s] \in connected' \cup {None}
      BY DEF OneAtATime
    <2>1. active[s] \in connected \cup {None} /\ pending[s] \in connected \cup {None}
      BY DEF Live, OneAtATime
    <2>2. QED
      BY <1>2, <2>1, HeldAfter
  <1>4. ASSUME NEW q \in Request, who'[q] \in Sub \ raced' PROVE SoleForm(q)'
    <2>1. SoleForm(q)
      BY <1>4 DEF Live
    <2>2. mine[q] # None
      BY <1>4, MultiUserAssumption DEF OwnerInv, TypeOK
    <2>3. pc'[q] \notin {"connect", "reconnect"} => mine'[q] \in connected'
      BY <1>1, <1>2, <2>1, <2>2, HeldAfter DEF SoleForm
    <2>4. pc'[q] = "popped" => pc[q] = "popped" /\ old[q] # None
      BY <1>1 DEF OwnerInv, TypeOK
    <2>5. pending'[who[q]] \in {pending[who[q]], None}
      BY <1>4
    <2>6. QED
      BY <2>1, <2>3, <2>4, <2>5 DEF SoleForm
  <1>5. \A q \in Request : old'[q] # None => owner'[old'[q]] = who'[q]
    BY <1>2, OldHeldAfter DEF Live
  <1>6. QED
    BY <1>3, <1>4, <1>5 DEF Live

\* A client that answers is connected.
LEMMA ConnectedLive ==
  ASSUME OwnerInv, TypeOK', Live, NEW r \in Request, Connected(r)
  PROVE  Live'
  <1>1. /\ Free(connected \cup {mine[r]}, hashes) /\ UNCHANGED <<who, mine, old, active, raced>>
        /\ pc[r] \in {"connect", "reconnect"} /\ who[r] \in Sub
    BY DEF Connected, history, OwnerInv, TypeOK, HasClient
  <1>2. /\ \A q \in Request : q # r => pc'[q] = pc[q]
        /\ pc'[r] \in {"signin", "record", "sendcode"}
        /\ \A s \in Sub : pending'[s] \in {pending[s], mine[r]}
        /\ \A s \in Sub : pending'[s] = pending[s] \/ s = who[r]
    BY DEF Connected, Goto, OwnerInv, TypeOK
  <1>3. \A c \in Client : c \in Referenced' =>
          owner'[c] = owner[c] /\ (c \in connected \/ c = mine[r] => c \in connected')
    BY <1>1, FreeKeeps, StaysConnected
  <1>4. OneAtATime'
    <2> SUFFICES ASSUME NEW s \in Sub \ raced'
                 PROVE  active'[s] \in connected' \cup {None} /\ pending'[s] \in connected' \cup {None}
      BY DEF OneAtATime
    <2>1. active[s] \in connected \cup {None} /\ pending[s] \in connected \cup {None}
      BY <1>1 DEF Live, OneAtATime
    <2>2. QED
      BY <1>1, <1>2, <1>3, <2>1, HeldAfter
  <1>5. ASSUME NEW q \in Request, who'[q] \in Sub \ raced' PROVE SoleForm(q)'
    <2>1. SoleForm(q)
      BY <1>1, <1>5 DEF Live
    <2>2. mine[q] # None
      BY <1>1, <1>5, MultiUserAssumption DEF OwnerInv, TypeOK
    <2>3. pc'[q] \notin {"connect", "reconnect"} => mine'[q] \in connected'
      BY <1>1, <1>2, <1>3, <2>1, <2>2, HeldAfter DEF SoleForm
    <2>4. pc'[q] = "popped" => q # r /\ who[q] # who[r] /\ pc[q] = "popped"
      BY <1>2, <2>1, <1>1, <1>5 DEF SoleForm
    <2>5. pc'[q] = "popped" => pending'[who[q]] = pending[who[q]]
      BY <1>1, <1>2, <1>5, <2>4
    <2>6. QED
      BY <1>1, <2>1, <2>3, <2>4, <2>5 DEF SoleForm
  <1>6. \A q \in Request : old'[q] # None => owner'[old'[q]] = who'[q]
    BY <1>1, <1>3, OldHeldAfter DEF Live
  <1>7. QED
    BY <1>4, <1>5, <1>6 DEF Live

\* A client that was sent a code becomes pending; the one it replaces, which its
\* user alone had, is disconnected.
LEMMA RegisterLive ==
  ASSUME OwnerInv, TypeOK', Live, NEW r \in Request, Register(r),
         \/ pc[r] = "sendcode" /\ Free(connected, hashes \cup {mine[r]})
         \/ pc[r] = "popped" /\ Free(connected \ {old[r]}, hashes),
         UNCHANGED <<active, raced>>
  PROVE  Live'
  <1>1. \A q \in Request : \/ q # r /\ pc'[q] = pc[q] /\ who'[q] = who[q] /\ mine'[q] = mine[q]
                              /\ old'[q] = old[q]
                           \/ q = r /\ pc'[q] = "idle" /\ who'[q] = None /\ mine'[q] = None
                              /\ old'[q] = None
    BY DEF Register, Return, Goto, OwnerInv, TypeOK
  <1>2. /\ who[r] \in Sub /\ mine[r] # None /\ owner[mine[r]] = who[r]
        /\ \A s \in Sub : pending'[s] = IF s = who[r] THEN mine[r] ELSE pending[s]
    BY MultiUserAssumption DEF Register, OwnerInv, Owned, TypeOK, HasClient
  <1>3. \A c \in Client : c \in Referenced' =>
          owner'[c] = owner[c] /\ (c \in connected /\ c # old[r] => c \in connected')
    BY FreeKeeps, StaysConnected
  <1>4. ASSUME pc[r] = "popped", NEW c \in Client, owner[c] # who[r] PROVE c # old[r]
    BY <1>4 DEF Live, OwnerInv, TypeOK
  <1>5. pc[r] = "sendcode" => \A c \in Client : c \in Referenced' /\ c \in connected => c \in connected'
    BY StaysConnected
  <1>6. ASSUME NEW c \in Client, c \in connected, c \in Referenced',
               owner[c] # who[r] \/ (who[r] \notin raced /\ c \in {mine[r], active[who[r]]})
        PROVE  c \in connected'
    <2>1. CASE pc[r] = "sendcode"
      BY <1>5, <1>6, <2>1
    <2>2. CASE pc[r] = "popped"
      <3>1. who[r] \notin raced => old[r] \notin {mine[r], active[who[r]]}
        BY <1>2, <2>2 DEF Live, SoleForm
      <3>2. c # old[r]
        BY <1>4, <1>6, <2>2, <3>1
      <3>3. QED
        BY <1>3, <1>6, <3>2
    <2>3. QED
      BY <2>1, <2>2
  <1>7. who[r] \notin raced => mine[r] \in connected
    BY <1>2 DEF Live, SoleForm
  <1>8. OneAtATime'
    <2> SUFFICES ASSUME NEW s \in Sub \ raced'
                 PROVE  active'[s] \in connected' \cup {None} /\ pending'[s] \in connected' \cup {None}
      BY DEF OneAtATime
    <2>1. active[s] \in connected \cup {None} /\ pending[s] \in connected \cup {None}
      BY DEF Live, OneAtATime
    <2>2. active[s] # None => owner[active[s]] = s
      BY DEF OwnerInv, ServedIsOwn
    <2>3. pending[s] # None => owner[pending[s]] = s
      BY DEF OwnerInv, Owned
    <2>4. active'[s] \in connected' \cup {None}
      BY <1>6, <2>1, <2>2, HeldAfter
    <2>5. pending'[s] \in connected' \cup {None}
      <3>1. CASE s = who[r]
        BY <1>2, <1>6, <1>7, <3>1, HeldAfter
      <3>2. CASE s # who[r]
        BY <1>2, <1>6, <2>1, <2>3, <3>2, HeldAfter
      <3>3. QED
        BY <3>1, <3>2
    <2>6. QED
      BY <2>4, <2>5
  <1>9. ASSUME NEW q \in Request, who'[q] \in Sub \ raced' PROVE SoleForm(q)'
    <2>1. q # r /\ pc'[q] = pc[q] /\ who'[q] = who[q] /\ mine'[q] = mine[q] /\ old'[q] = old[q]
      BY <1>1, <1>9, MultiUserAssumption
    <2>2. SoleForm(q)
      BY <1>9, <2>1 DEF Live
    <2>3. who[q] # who[r]
      BY <1>2, <2>1, <2>2 DEF SoleForm
    <2>4. \A o \in Request : who'[o] = who'[q] => o = q
      BY <1>1, <1>9, <2>1, <2>2, MultiUserAssumption DEF SoleForm
    <2>5. mine[q] # None /\ owner[mine[q]] = who[q]
      BY <1>9, <2>1, MultiUserAssumption DEF OwnerInv, Owned, TypeOK
    <2>6. pc[q] \notin {"connect", "reconnect"} => mine'[q] \in connected'
      BY <1>6, <2>1, <2>2, <2>3, <2>5, HeldAfter DEF SoleForm
    <2>7. pending'[who[q]] = pending[who[q]]
      BY <1>2, <1>9, <2>1, <2>3
    <2>8. QED
      BY <2>1, <2>2, <2>4, <2>6, <2>7 DEF SoleForm
  <1>10. \A q \in Request : old'[q] # None => owner'[old'[q]] = who'[q]
    BY <1>1, <1>3, OldHeldAfter DEF Live
  <1>11. QED
    BY <1>8, <1>9, <1>10 DEF Live

\* Before its client is disconnected an entry is popped, and used by nobody else.
LEMMA PopsLive ==
  ASSUME OwnerInv, TypeOK', Live, NEW r \in Request, pc[r] = "sendcode", Goto(r, "popped"),
         pending[who[r]] # None,
         old' = [old EXCEPT ![r] = pending[who[r]]],
         pending' = [pending EXCEPT ![who[r]] = None],
         UNCHANGED <<who, mine, active, raced>>,
         NEW H, Free(connected, H)
  PROVE  Live'
  <1>1. /\ who[r] \in Sub
        /\ \A q \in Request : pc'[q] = IF q = r THEN "popped" ELSE pc[q]
        /\ \A q \in Request : old'[q] = IF q = r THEN pending[who[r]] ELSE old[q]
        /\ \A s \in Sub : pending'[s] = IF s = who[r] THEN None ELSE pending[s]
    BY DEF Goto, OwnerInv, TypeOK, HasClient
  <1>2. \A c \in Client : c \in Referenced' =>
          owner'[c] = owner[c] /\ (c \in connected => c \in connected')
    BY FreeKeeps, StaysConnected
  <1>3. pending[who[r]] \notin {mine[r], active[who[r]], None}
    BY <1>1, FreshAlone DEF Fresh, OwnerInv, PendingApart
  <1>4. OneAtATime'
    <2> SUFFICES ASSUME NEW s \in Sub \ raced'
                 PROVE  active'[s] \in connected' \cup {None} /\ pending'[s] \in connected' \cup {None}
      BY DEF OneAtATime
    <2>1. active[s] \in connected \cup {None} /\ pending[s] \in connected \cup {None}
      BY DEF Live, OneAtATime
    <2>2. QED
      BY <1>1, <1>2, <2>1, HeldAfter
  <1>5. ASSUME NEW q \in Request, who'[q] \in Sub \ raced' PROVE SoleForm(q)'
    <2>1. SoleForm(q)
      BY <1>5 DEF Live
    <2>2. mine[q] # None
      BY <1>5, MultiUserAssumption DEF OwnerInv, TypeOK
    <2>3. pc'[q] \notin {"connect", "reconnect"} => mine'[q] \in connected'
      BY <1>1, <1>2, <2>1, <2>2, HeldAfter DEF SoleForm
    <2>4. pc'[q] = "popped" => old'[q] \notin {mine'[q], active'[who'[q]], pending'[who'[q]]}
      <3>1. CASE q = r
        BY <1>1, <1>3, <3>1
      <3>2. CASE q # r
        <4>1. who[q] # who[r]
          BY <2>1, <3>2 DEF SoleForm
        <4>2. QED
          BY <1>1, <1>5, <2>1, <3>2, <4>1 DEF SoleForm
      <3>3. QED
        BY <3>1, <3>2
    <2>5. QED
      BY <2>1, <2>3, <2>4 DEF SoleForm
  <1>6. \A q \in Request : old'[q] # None => owner'[old'[q]] = who'[q]
    <2>1. owner[pending[who[r]]] = who[r]
      BY <1>1, <1>3 DEF OwnerInv, Owned
    <2>2. \A q \in Request : old'[q] # None => owner[old'[q]] = who[q]
      BY <1>1, <2>1 DEF Live
    <2>3. QED
      BY <1>2, <2>2, OldHeldAfter
  <1>7. QED
    BY <1>4, <1>5, <1>6 DEF Live

\* The client of a finished sign-in that tools run on from now is connected.
LEMMA ActivateLive ==
  ASSUME OwnerInv, TypeOK', Live, NEW r \in Request, Activate(r)
  PROVE  Live'
  <1>1. /\ pc[r] = "index" /\ Return(r) /\ Free(connected, hashes) /\ who[r] \in Sub
        /\ active' = [active EXCEPT ![who[r]] = mine[r]] /\ UNCHANGED <<pending, raced>>
    BY DEF Activate, history, OwnerInv, TypeOK, HasClient, Writing
  <1>2. \A q \in Request : \/ q # r /\ pc'[q] = pc[q] /\ who'[q] = who[q] /\ mine'[q] = mine[q]
                              /\ old'[q] = old[q]
                           \/ q = r /\ pc'[q] = "idle" /\ who'[q] = None /\ mine'[q] = None
                              /\ old'[q] = None
    BY <1>1 DEF Return, Goto, OwnerInv, TypeOK
  <1>3. \A s \in Sub : active'[s] = IF s = who[r] THEN mine[r] ELSE active[s]
    BY <1>1 DEF OwnerInv, TypeOK
  <1>4. \A c \in Client : c \in Referenced' =>
          owner'[c] = owner[c] /\ (c \in connected => c \in connected')
    BY <1>1, FreeKeeps, StaysConnected
  <1>5. who[r] \notin raced => mine[r] \in connected
    BY <1>1 DEF Live, SoleForm
  <1>6. OneAtATime'
    <2> SUFFICES ASSUME NEW s \in Sub \ raced'
                 PROVE  active'[s] \in connected' \cup {None} /\ pending'[s] \in connected' \cup {None}
      BY DEF OneAtATime
    <2>1. active[s] \in connected \cup {None} /\ pending[s] \in connected \cup {None}
      BY <1>1 DEF Live, OneAtATime
    <2>2. QED
      BY <1>1, <1>3, <1>4, <1>5, <2>1, HeldAfter
  <1>7. ASSUME NEW q \in Request, who'[q] \in Sub \ raced' PROVE SoleForm(q)'
    <2>1. q # r /\ pc'[q] = pc[q] /\ who'[q] = who[q] /\ mine'[q] = mine[q] /\ old'[q] = old[q]
      BY <1>2, <1>7, MultiUserAssumption
    <2>2. SoleForm(q) /\ who[q] # who[r]
      BY <1>1, <1>7, <2>1 DEF Live, SoleForm
    <2>3. \A o \in Request : who'[o] = who'[q] => o = q
      BY <1>2, <1>7, <2>1, <2>2, MultiUserAssumption DEF SoleForm
    <2>4. mine[q] # None
      BY <1>7, <2>1, MultiUserAssumption DEF OwnerInv, TypeOK
    <2>5. pc[q] \notin {"connect", "reconnect"} => mine'[q] \in connected'
      BY <1>4, <2>1, <2>2, <2>4, HeldAfter DEF SoleForm
    <2>6. active'[who[q]] = active[who[q]]
      BY <1>3, <1>7, <2>1, <2>2
    <2>7. QED
      BY <1>1, <2>1, <2>2, <2>3, <2>5, <2>6 DEF SoleForm
  <1>8. \A q \in Request : old'[q] # None => owner'[old'[q]] = who'[q]
    BY <1>2, <1>4, OldHeldAfter DEF Live
  <1>9. QED
    BY <1>6, <1>7, <1>8 DEF Live

\* A form that arrives is its user's only one, or the user's forms overlap.
LEMMA StartsLive ==
  ASSUME OwnerInv, TypeOK', Live, NEW r \in Request, NEW s \in Sub, NEW f, Submit(r, s, f),
         NEW where \in {"connect", "reconnect", "signin"}, Goto(r, where),
         NEW c, mine' = [mine EXCEPT ![r] = c],
         where = "signin" => c = pending[s] /\ c # None,
         UNCHANGED <<old, active, pending, connected>>,
         \A d \in Referenced : owner'[d] = owner[d]
  PROVE  Live'
  <1>1. /\ \A q \in Request : pc'[q] = IF q = r THEN where ELSE pc[q]
        /\ \A q \in Request : who'[q] = IF q = r THEN s ELSE who[q]
        /\ \A q \in Request : mine'[q] = IF q = r THEN c ELSE mine[q]
        /\ pc[r] = "idle" /\ raced \subseteq raced'
    BY DEF Submit, Goto, OwnerInv, TypeOK
  <1>2. s \notin raced' => \A q \in Request : who[q] # s
    <2>1. \A q \in Request : who[q] = s => pc[q] # "idle"
      BY MultiUserAssumption DEF OwnerInv, TypeOK, HasClient, Writing
    <2>2. QED
      BY <2>1 DEF Submit
  <1>3. OneAtATime'
    BY <1>1 DEF Live, OneAtATime
  <1>4. ASSUME NEW q \in Request, who'[q] \in Sub \ raced' PROVE SoleForm(q)'
    <2>1. \A o \in Request : who'[o] = who'[q] => o = q
      BY <1>1, <1>2, <1>4 DEF Live, SoleForm
    <2>2. pc'[q] \notin {"connect", "reconnect"} => mine'[q] \in connected'
      <3>1. CASE q = r
        <4>1. s \notin raced
          BY <1>1, <1>4, <3>1
        <4>2. QED
          BY <1>1, <3>1, <4>1 DEF Live, OneAtATime
      <3>2. CASE q # r
        BY <1>1, <1>4, <3>2 DEF Live, SoleForm
      <3>3. QED
        BY <3>1, <3>2
    <2>3. pc'[q] = "popped" => old'[q] \notin {mine'[q], active'[who'[q]], pending'[who'[q]]}
      BY <1>1, <1>4 DEF Live, SoleForm
    <2>4. QED
      BY <2>1, <2>2, <2>3 DEF SoleForm
  <1>5. \A q \in Request : old'[q] # None => owner'[old'[q]] = who'[q]
    <2>1. \A q \in Request : old[q] # None => old[q] \in Referenced /\ q # r
      BY <1>1 DEF Referenced, OwnerInv, TypeOK
    <2>2. QED
      BY <1>1, <2>1 DEF Live
  <1>6. QED
    BY <1>3, <1>4, <1>5 DEF Live

\* Every step keeps a user whose forms do not overlap on connected clients.
LEMMA LiveStep == ASSUME OwnerInv, RestartInv, Live, [Next]_vars PROVE Live'
  <1>0. TypeOK'
    BY MultiUserTypeStep DEF OwnerInv
  <1> USE DEF memory, backend, clients, history, task
  <1>1. ASSUME NEW r \in Request, NEW s \in Sub, Begin(r, s) PROVE Live'
    <2>1. ASSUME NEW f \in {"phone", "bot"}, NEW c \in Client, Start(r, s, f, c) PROVE Live'
      <3>1. Submit(r, s, f) /\ Goto(r, "connect") /\ mine' = [mine EXCEPT ![r] = c]
        BY <2>1 DEF Start
      <3>2. UNCHANGED <<old, active, pending, connected>>
        BY <2>1 DEF Start, NewClient
      <3>3. \A d \in Referenced : owner'[d] = owner[d]
        BY <2>1 DEF Start, NewClient, Referenced, OwnerInv, TypeOK
      <3>4. QED
        BY <1>0, <3>1, <3>2, <3>3, StartsLive
    <2>2. ASSUME NEW f \in {"otp", "password"}, NEW c \in Client, Resume(r, s, f, c) PROVE Live'
      <3>1. Submit(r, s, f) /\ Goto(r, "reconnect") /\ mine' = [mine EXCEPT ![r] = c]
        BY <2>2 DEF Resume
      <3>2. UNCHANGED <<old, active, pending, connected>>
        BY <2>2 DEF Resume, NewClient
      <3>3. \A d \in Referenced : owner'[d] = owner[d]
        BY <2>2 DEF Resume, NewClient, Referenced, OwnerInv, TypeOK
      <3>4. QED
        BY <1>0, <3>1, <3>2, <3>3, StartsLive
    <2>3. ASSUME NEW f \in {"otp", "password"}, Complete(r, s, f) PROVE Live'
      BY <1>0, <2>3, StartsLive DEF Complete
    <2>4. ASSUME NEW f \in {"otp", "password"}, NothingPending(r, s, f) PROVE Live'
      BY <2>4 DEF NothingPending, Live, OneAtATime, SoleForm
    <2>5. QED
      BY <1>1, <2>1, <2>2, <2>3, <2>4 DEF Begin
  <1>2. ASSUME NEW r \in Request, Step(r) PROVE Live'
    <2>1. CASE Connected(r)
      BY <1>0, <2>1, ConnectedLive
    <2>2. CASE ConnectFails(r)
      BY <1>0, <2>2, EndsLive DEF ConnectFails
    <2>3. CASE CodeSent(r)
      <3>1. CASE pending[who[r]] = None
        BY <1>0, <2>3, <3>1, RegisterLive DEF CodeSent
      <3>2. CASE pending[who[r]] # None
        BY <1>0, <2>3, <3>2, PopsLive DEF CodeSent
      <3>3. QED
        BY <3>1, <3>2
    <2>4. CASE CodeRefused(r)
      BY <1>0, <2>4, EndsLive DEF CodeRefused, Fresh
    <2>5. CASE Popped(r)
      BY <1>0, <2>5, RegisterLive DEF Popped
    <2>6. CASE SignedIn(r)
      BY <1>0, <2>6, MovesLive DEF SignedIn
    <2>7. CASE NeedsPassword(r)
      BY <1>0, <2>7, EndsLive DEF NeedsPassword
    <2>8. CASE SignInFails(r)
      BY <1>0, <2>8, EndsLive DEF SignInFails
    <2>9. CASE Secured(r)
      <3>1. \A s \in Sub : pending'[s] \in {pending[s], None}
        BY <2>9 DEF Secured, OwnerInv, TypeOK
      <3>2. CASE pending[who[r]] = None
        BY <1>0, <2>9, <3>1, <3>2, EndsLive DEF Secured
      <3>3. CASE pending[who[r]] # None
        BY <1>0, <2>9, <3>1, <3>3, MovesLive DEF Secured
      <3>4. QED
        BY <3>2, <3>3
    <2>10. CASE Consume(r)
      BY <1>0, <2>10, MovesLive DEF Consume
    <2>11. CASE Record(r)
      BY <1>0, <2>11, MovesLive DEF Record
    <2>12. CASE Activate(r)
      BY <1>0, <2>12, ActivateLive
    <2>13. CASE WriteFails(r)
      BY <1>0, <2>13, EndsLive DEF WriteFails, Writing
    <2>14. QED
      BY <1>2, <2>1, <2>2, <2>3, <2>4, <2>5, <2>6, <2>7, <2>8, <2>9, <2>10, <2>11, <2>12, <2>13
         DEF Step
  <1>3. ASSUME NEW s \in Sub, Restore(s) PROVE Live'
    <2>1. \A r \in Request : who'[r] = None /\ old'[r] = None
      BY <1>3 DEF Restore, Restored, RestoreFails, DropRecord, RestartInv, RestoreFirst, OwnerInv,
           TypeOK, HasClient, Writing
    <2>2. OneAtATime'
      <3>1. ASSUME NEW c \in Client, Restored(s, c) PROVE OneAtATime'
        BY <3>1 DEF Restored, Live, OneAtATime, OwnerInv, TypeOK
      <3>2. CASE RestoreFails(s) \/ DropRecord(s)
        BY <3>2 DEF RestoreFails, DropRecord, Live, OneAtATime
      <3>3. QED
        BY <1>3, <3>1, <3>2 DEF Restore
    <2>3. QED
      BY <2>1, <2>2, MultiUserAssumption DEF Live
  <1>4. CASE Restart
    BY <1>4, MultiUserAssumption DEF Restart, Live, OneAtATime
  <1>5. CASE UNCHANGED vars
    BY <1>5 DEF vars, Live, OneAtATime, SoleForm
  <1>6. QED
    BY <1>1, <1>2, <1>3, <1>4, <1>5 DEF Next

\* A user whose forms do not overlap is never left with a client somebody has
\* disconnected, for any number of users and whatever the forms of the others,
\* failures and restarts do: no disconnect in the provider hits a client that is
\* pending or that tools run on, unless two forms of its own user raced.
THEOREM SoleUsersStayConnected == Spec => []OneAtATime
  <1>1. Init => Live
    BY MultiUserAssumption DEF Init, Live, OneAtATime
  <1>2. OwnerInv /\ RestartInv /\ Live /\ [Next]_vars => Live'
    BY LiveStep
  <1>3. Live => OneAtATime
    BY DEF Live
  <1>4. QED
    BY <1>1, <1>2, <1>3, OwnerInvInit, OwnerInvStep, RestartInvInit, RestartInvStep, PTL DEF Spec

-----------------------------------------------------------------------------
\* One task writes to the backend at a time, and what it has recorded is the
\* kind of client it is about to make active.
Kind(r) == IF form[r] = "bot" THEN "bot" ELSE "user"

WriteInv ==
  /\ \A q, r \in Request : pc[q] \in Writing /\ pc[r] \in Writing => q = r
  /\ \A r \in Request : pc[r] = "index" => record[who[r]] = Kind(r)

\* A step that brings no task to its writes, and records nothing.
LEMMA WritesGoOn ==
  ASSUME WriteInv, record' = record,
         \A q \in Request : pc'[q] \in Writing => pc[q] \in Writing,
         \A q \in Request : pc'[q] = "index" =>
           pc[q] = "index" /\ form'[q] = form[q] /\ who'[q] = who[q]
  PROVE  WriteInv'
  BY DEF WriteInv, Kind

LEMMA WriteStep == ASSUME RestartInv, TypeOK', WriteInv, [Next]_vars PROVE WriteInv'
  <1> USE DEF RestartInv, TypeOK, HasClient
  <1>1. ASSUME NEW r \in Request, NEW s \in Sub, Begin(r, s) PROVE WriteInv'
    <2>1. record' = record
      BY <1>1 DEF Begin, Start, Complete, Resume, NothingPending, backend
    <2>2. \/ pc' = pc /\ form' = form /\ who' = who
          \/ /\ pc'[r] \in {"connect", "signin", "reconnect"}
             /\ \A q \in Request \ {r} : pc'[q] = pc[q] /\ form'[q] = form[q] /\ who'[q] = who[q]
      <3>1. ASSUME NEW f, NEW where \in {"connect", "signin", "reconnect"},
                   Submit(r, s, f), Goto(r, where)
            PROVE  /\ pc'[r] \in {"connect", "signin", "reconnect"}
                   /\ \A q \in Request \ {r} :
                        pc'[q] = pc[q] /\ form'[q] = form[q] /\ who'[q] = who[q]
        BY <3>1 DEF Submit, Goto
      <3>2. ASSUME NEW f \in {"phone", "bot"}, NEW c \in Client, Start(r, s, f, c)
            PROVE  Submit(r, s, f) /\ Goto(r, "connect")
        BY <3>2 DEF Start
      <3>3. ASSUME NEW f \in {"otp", "password"}, NEW c \in Client, Resume(r, s, f, c)
            PROVE  Submit(r, s, f) /\ Goto(r, "reconnect")
        BY <3>3 DEF Resume
      <3>4. ASSUME NEW f \in {"otp", "password"}, Complete(r, s, f)
            PROVE  Submit(r, s, f) /\ Goto(r, "signin")
        BY <3>4 DEF Complete
      <3>5. ASSUME NEW f \in {"otp", "password"}, NothingPending(r, s, f) PROVE UNCHANGED task
        BY <3>5 DEF NothingPending
      <3> QED BY <1>1, <3>1, <3>2, <3>3, <3>4, <3>5 DEF task, Begin
    <2> QED BY <2>1, <2>2, WritesGoOn DEF Writing
  <1>2. ASSUME NEW r \in Request, Step(r) PROVE WriteInv'
    <2>1. CASE Record(r)
      <3>1. pc' = [pc EXCEPT ![r] = "index"] /\ form' = form /\ who' = who /\ pc[r] = "record"
        BY <2>1 DEF Record, Goto
      <3>2. record' = [record EXCEPT ![who[r]] = Kind(r)] /\ who[r] \in Sub
        BY <2>1, <3>1 DEF Record, Kind, Writing
      <3>3. \A q \in Request : pc'[q] \in Writing <=> pc[q] \in Writing
        BY <3>1 DEF Writing
      <3>4. \A q \in Request : pc'[q] = "index" => q = r
        BY <3>1 DEF WriteInv, Writing
      <3> QED BY <3>1, <3>2, <3>3, <3>4 DEF WriteInv, Kind
    <2>2. CASE Connected(r) \/ Secured(r)
      <3>1. /\ record' = record /\ pc[r] \notin Writing /\ Turn(r)
            /\ \A q \in Request \ {r} : pc'[q] = pc[q] /\ form'[q] = form[q] /\ who'[q] = who[q]
            /\ pc'[r] # "index"
        BY <2>2 DEF Connected, Secured, Goto, Return, backend, Writing
      <3> QED BY <3>1 DEF WriteInv, Kind, Turn
    <2>3. CASE ~(Record(r) \/ Connected(r) \/ Secured(r))
      <3>1. record' = record
        BY <1>2, <2>3 DEF Step, ConnectFails, CodeSent, CodeRefused, Popped, SignedIn,
             NeedsPassword, SignInFails, Consume, Activate, WriteFails, backend
      <3>2. /\ \A q \in Request \ {r} : pc'[q] = pc[q] /\ form'[q] = form[q] /\ who'[q] = who[q]
            /\ pc'[r] \in Writing => pc[r] \in Writing
            /\ pc'[r] # "index"
        BY <1>2, <2>3 DEF Step, ConnectFails, CodeSent, CodeRefused, Popped, Register, SignedIn,
             NeedsPassword, SignInFails, Consume, Activate, WriteFails, Goto, Return, Writing
      <3> QED BY <3>1, <3>2, WritesGoOn
    <2> QED BY <2>1, <2>2, <2>3
  <1>3. CASE Restart \/ \E s \in Sub : Restore(s)
    <2>1. \A q \in Request : pc'[q] = "idle"
      BY <1>3 DEF Restart, Restore, Restored, RestoreFails, DropRecord, task, RestoreFirst
    <2> QED BY <2>1 DEF WriteInv, Writing
  <1>4. CASE UNCHANGED vars
    BY <1>4, WritesGoOn DEF vars, task, backend
  <1> QED BY <1>1, <1>2, <1>3, <1>4 DEF Next

-----------------------------------------------------------------------------
\* A client that tools run on does not become a bot, nor cease to be one.
LEMMA BotsStay ==
  ASSUME TypeOK, TypeOK', [Next]_vars, NEW s \in Sub, active[s] # None, active'[s] = active[s]
  PROVE  active[s] \in bots' <=> active[s] \in bots
  <1>1. active[s] \in Client /\ active[s] \in Referenced /\ active[s] \in Referenced'
    BY Held, HeldAfter
  <1>2. ASSUME NEW S, NEW H, Free(S, H) PROVE active[s] \in bots' <=> active[s] \in bots
    BY <1>1, <1>2, FreeKeeps
  <1>3. ASSUME NEW c \in Client, c \notin Referenced, bots' \in {bots \cup {c}, bots \ {c}}
        PROVE  active[s] \in bots' <=> active[s] \in bots
    BY <1>1, <1>3
  <1>4. ASSUME bots' = bots PROVE active[s] \in bots' <=> active[s] \in bots
    BY <1>4
  <1>5. \/ \E S, H : Free(S, H)
        \/ \E c \in Client : c \notin Referenced /\ bots' \in {bots \cup {c}, bots \ {c}}
        \/ bots' = bots
    <2>1. ASSUME NEW r \in Request, Step(r) PROVE (\E S, H : Free(S, H)) \/ bots' = bots
      BY <2>1 DEF Step, Connected, ConnectFails, CodeSent, CodeRefused, Popped, SignedIn,
           NeedsPassword, SignInFails, Secured, Consume, Record, Activate, WriteFails, clients
    <2>2. ASSUME NEW r \in Request, NEW t \in Sub, Begin(r, t)
          PROVE  \/ \E c \in Client : c \notin Referenced /\ bots' \in {bots \cup {c}, bots \ {c}}
                 \/ bots' = bots
      BY <2>2 DEF Begin, Start, Complete, Resume, NothingPending, NewClient, clients
    <2>3. ASSUME NEW t \in Sub, Restore(t)
          PROVE  \/ \E c \in Client : c \notin Referenced /\ bots' \in {bots \cup {c}, bots \ {c}}
                 \/ bots' = bots
      BY <2>3 DEF Restore, Restored, RestoreFails, DropRecord, clients
    <2>4. Restart => \E S, H : Free(S, H)
      BY DEF Restart
    <2>5. UNCHANGED vars => bots' = bots
      BY DEF vars, clients
    <2> QED BY <2>1, <2>2, <2>3, <2>4, <2>5 DEF Next
  <1> QED BY <1>2, <1>3, <1>4, <1>5

\* Tools that keep their client run on what they ran on.
LEMMA ToolsStay ==
  ASSUME TypeOK, TypeOK', [Next]_vars
  PROVE  /\ \A s \in Sub : active'[s] = active[s] => AtWork'[s] = AtWork[s]
         /\ active' = active => AtWork' = AtWork
  <1>1. ASSUME NEW s \in Sub, active'[s] = active[s] PROVE AtWork'[s] = AtWork[s]
    BY <1>1, BotsStay DEF AtWork
  <1>2. ASSUME active' = active PROVE AtWork' = AtWork
    BY <1>1, <1>2 DEF AtWork
  <1> QED BY <1>1, <1>2

\* A step that is none of the promise's.
Quiet == account' = account /\ Saved' = Saved /\ AtWork' = AtWork

Promised == Quiet \/ Sessions!Next

LEMMA Saves ==
  ASSUME TypeOK, NEW s \in Sub, NEW k \in {"bot", "user"}, k = "user" => account[s] = "in",
         account' = account, Saved' = [Saved EXCEPT ![s] = k],
         AtWork' \in {AtWork, [AtWork EXCEPT ![s] = k]}
  PROVE  Promised
  BY DEF Promised, Sessions!Next, Sessions!Save

LEMMA Accepts ==
  ASSUME NEW s \in Sub, account[s] # "in", NEW a \in {"half", "in"},
         account' = [account EXCEPT ![s] = a], Saved' = Saved, AtWork' = AtWork
  PROVE  Promised
  BY DEF Promised, Sessions!Next, Sessions!Accept

\* The record is saved already, if the index lists the user.
LEMMA RecordPromised ==
  ASSUME RestartInv, OwnerInv, WriteInv, TypeOK', NEW r \in Request, Record(r)
  PROVE  Promised
  <1>1. /\ who[r] \in Sub /\ pc[r] = "record"
        /\ UNCHANGED <<index, active, account>>
        /\ record' = [record EXCEPT ![who[r]] = Kind(r)]
    BY DEF Record, RestartInv, TypeOK, HasClient, Writing, Kind, memory
  <1>2. AtWork' = AtWork
    BY <1>1, ToolsStay DEF RestartInv, Next, Step
  <1>3. CASE who[r] \in index
    <2>1. Kind(r) \in {"bot", "user"} /\ (Kind(r) = "user" => account[who[r]] = "in")
      BY <1>1 DEF Kind, OwnerInv, Progress
    <2>2. \A t \in Sub : record'[t] = IF t = who[r] THEN Kind(r) ELSE record[t]
      BY <1>1 DEF RestartInv, TypeOK
    <2>3. Saved' = [Saved EXCEPT ![who[r]] = Kind(r)]
      BY <1>1, <1>3, <2>2 DEF Saved
    <2> QED BY <1>1, <1>2, <2>1, <2>3, Saves DEF RestartInv
  <1>4. CASE who[r] \notin index
    <2>1. Saved' = Saved
      BY <1>1, <1>4 DEF Saved, RestartInv, TypeOK
    <2> QED BY <1>1, <1>2, <2>1 DEF Promised, Quiet
  <1> QED BY <1>3, <1>4

LEMMA ActivatePromised ==
  ASSUME RestartInv, OwnerInv, WriteInv, TypeOK', NEW r \in Request, Activate(r)
  PROVE  Promised
  <1> DEFINE s == who[r]
  <1>1. /\ s \in Sub /\ pc[r] = "index" /\ mine[r] \in Client /\ mine[r] # None
        /\ UNCHANGED <<record, account>> /\ record[s] = Kind(r)
        /\ index' = index \cup {s} /\ active' = [active EXCEPT ![s] = mine[r]]
        /\ Free(connected, hashes)
    BY MultiUserAssumption DEF Activate, RestartInv, TypeOK, HasClient, Writing, WriteInv
  <1>2. Kind(r) \in {"bot", "user"} /\ (Kind(r) = "user" => account[s] = "in")
    BY <1>1 DEF Kind, OwnerInv, Progress
  <1>3. Saved' = [Saved EXCEPT ![s] = Kind(r)]
    BY <1>1 DEF Saved, RestartInv, TypeOK
  <1>4. active'[s] = mine[r] /\ \A t \in Sub \ {s} : active'[t] = active[t]
    BY <1>1 DEF RestartInv, TypeOK
  <1>5. mine[r] \in bots' <=> mine[r] \in bots
    <2>1. mine[r] \in Referenced'
      BY <1>1, <1>4, HeldAfter
    <2> QED BY <1>1, <2>1, FreeKeeps
  <1>6. AtWork'[s] = Kind(r)
    BY <1>1, <1>4, <1>5 DEF AtWork, Kind, OwnerInv, Owned
  <1>7. \A t \in Sub \ {s} : AtWork'[t] = AtWork[t]
    BY <1>4, ToolsStay DEF RestartInv, Next, Step
  <1>8. AtWork' = [AtWork EXCEPT ![s] = Kind(r)]
    BY <1>1, <1>6, <1>7 DEF AtWork
  <1> QED BY <1>1, <1>2, <1>3, <1>8, Saves DEF RestartInv

\* Of the other steps of a task, Telegram's answers alone are the promise's.
LEMMA StepPromised ==
  ASSUME RestartInv, OwnerInv, WriteInv, TypeOK', NEW r \in Request, Step(r)
  PROVE  Promised
  <1>1. CASE Record(r)
    BY <1>1, RecordPromised
  <1>2. CASE Activate(r)
    BY <1>2, ActivatePromised
  <1>3. CASE ~(Record(r) \/ Activate(r))
    <2>1. UNCHANGED <<index, record, active>>
      BY <1>3 DEF Step, Connected, ConnectFails, CodeSent, CodeRefused, Popped, SignedIn,
           NeedsPassword, SignInFails, Secured, Consume, WriteFails, memory, backend
    <2>2. Saved' = Saved /\ AtWork' = AtWork
      BY <2>1, ToolsStay DEF Saved, RestartInv, Next
    <2>3. \/ account' = account
          \/ /\ who[r] \in Sub
             /\ \E a \in {"half", "in"} : account' = [account EXCEPT ![who[r]] = a]
             /\ account[who[r]] # "in" \/ account'[who[r]] = "in"
      BY <1>3 DEF Step, Connected, ConnectFails, CodeSent, CodeRefused, Popped, SignedIn,
           NeedsPassword, SignInFails, Secured, Consume, WriteFails, RestartInv, TypeOK, HasClient
    <2>4. CASE account' = account
      BY <2>2, <2>4 DEF Promised, Quiet
    <2>5. CASE account' # account
      <3>1. account[who[r]] # "in"
        BY <2>3, <2>5 DEF RestartInv, TypeOK
      <3> QED BY <2>2, <2>3, <2>5, <3>1, Accepts
    <2> QED BY <2>4, <2>5
  <1> QED BY <1>1, <1>2, <1>3

\* A restore puts the tools to work on what was saved, or gives it up.
LEMMA RestorePromised ==
  ASSUME RestartInv, OwnerInv, TypeOK', NEW s \in Sub, Restore(s)
  PROVE  Promised
  <1>1. ASSUME NEW c \in Client, Restored(s, c) PROVE Promised
    <2>1. /\ restoring[s] = "load" /\ c \notin Referenced
          /\ UNCHANGED <<account, index, record>> /\ active' = [active EXCEPT ![s] = c]
          /\ bots' = IF record[s] = "bot" THEN bots \cup {c} ELSE bots \ {c}
      BY <1>1 DEF Restored, backend
    <2>2. s \in index /\ record[s] \in {"bot", "user"}
      BY <2>1 DEF RestartInv, RestoreFirst, TypeOK
    <2>3. Saved' = Saved /\ Saved[s] = record[s]
      BY <2>1, <2>2 DEF Saved
    <2>4. active'[s] = c /\ \A t \in Sub \ {s} : active'[t] = active[t]
      BY <2>1 DEF RestartInv, TypeOK
    <2>5. AtWork'[s] = record[s]
      BY <2>1, <2>2, <2>4, MultiUserAssumption DEF AtWork
    <2>6. \A t \in Sub \ {s} : AtWork'[t] = AtWork[t]
      BY <1>1, <2>4, ToolsStay DEF RestartInv, Next, Restore
    <2>7. AtWork' = [AtWork EXCEPT ![s] = Saved[s]]
      BY <2>3, <2>5, <2>6 DEF AtWork
    <2>8. Saved[s] # "none"
      BY <2>2, <2>3
    <2> QED BY <2>1, <2>3, <2>7, <2>8 DEF Promised, Sessions!Next, Sessions!Serve
  <1>2. CASE RestoreFails(s)
    <2>1. /\ active[s] = None /\ index' = index \ {s}
          /\ UNCHANGED <<account, record, active>>
      BY <1>2 DEF RestoreFails, RestartInv, RestoreFirst, memory
    <2>2. AtWork' = AtWork /\ AtWork[s] = "none"
      BY <1>2, <2>1, ToolsStay DEF AtWork, RestartInv, Next, Restore
    <2>3. Saved' = [Saved EXCEPT ![s] = "none"]
      BY <2>1 DEF Saved
    <2> QED BY <2>1, <2>2, <2>3 DEF Promised, Sessions!Next, Sessions!GiveUp
  <1>3. CASE DropRecord(s)
    <2>1. s \notin index /\ UNCHANGED <<account, index, active>>
      BY <1>3 DEF DropRecord, RestartInv, RestoreFirst, memory
    <2>2. AtWork' = AtWork
      BY <1>3, <2>1, ToolsStay DEF RestartInv, Next, Restore
    <2>3. Saved' = Saved
      BY <1>3, <2>1 DEF Saved, DropRecord, RestartInv, TypeOK
    <2> QED BY <2>1, <2>2, <2>3 DEF Promised, Quiet
  <1> QED BY <1>1, <1>2, <1>3 DEF Restore

LEMMA NextPromised ==
  ASSUME RestartInv, OwnerInv, WriteInv, TypeOK', [Next]_vars
  PROVE  Promised
  <1>1. ASSUME NEW r \in Request, NEW s \in Sub, Begin(r, s) PROVE Promised
    <2>1. UNCHANGED <<account, index, record, active>>
      BY <1>1 DEF Begin, Start, Complete, Resume, NothingPending, memory, backend
    <2>2. Saved' = Saved /\ AtWork' = AtWork
      BY <2>1, ToolsStay DEF Saved, RestartInv
    <2> QED BY <2>1, <2>2 DEF Promised, Quiet
  <1>2. CASE Restart
    <2>1. /\ account' = account /\ \A s \in Sub : active'[s] = None
          /\ IF Durable THEN UNCHANGED <<index, record>> ELSE index' = {}
      BY <1>2 DEF Restart, backend
    <2>2. AtWork' = Sessions!Nothing
      BY <2>1 DEF AtWork, Sessions!Nothing
    <2>3. Saved' = IF Durable THEN Saved ELSE Sessions!Nothing
      BY <2>1 DEF Saved, Sessions!Nothing
    <2> QED BY <2>1, <2>2, <2>3 DEF Promised, Sessions!Next, Sessions!Stop
  <1>3. CASE UNCHANGED vars
    BY <1>3 DEF vars, memory, backend, clients, Promised, Quiet, Saved, AtWork
  <1> QED BY <1>1, <1>2, <1>3, StepPromised, RestorePromised DEF Next

\* Whatever forms overlap, wherever the process is killed and whichever write the
\* backend refuses, the server does to each user what UserSessions allows: only an
\* accepted sign-in is saved, and tools run on what was saved.
THEOREM ServerKeepsItsPromise == Spec => SessionsArePromised
  <1>1. Init => RestartInv /\ OwnerInv /\ WriteInv
    BY RestartInvInit, OwnerInvInit DEF Init, WriteInv, Writing
  <1>2. RestartInv /\ OwnerInv /\ WriteInv /\ [Next]_vars => (RestartInv /\ OwnerInv /\ WriteInv)'
    BY RestartInvStep, OwnerInvStep, WriteStep DEF OwnerInv
  <1>3. Init => Sessions!Init
    BY DEF Init, Sessions!Init, Sessions!Nothing, Saved, AtWork
  <1>4. RestartInv /\ OwnerInv /\ WriteInv /\ OwnerInv' /\ [Next]_vars
          => [Sessions!Next]_<<account, Saved, AtWork>>
    BY NextPromised DEF OwnerInv, Promised, Quiet
  <1> QED BY <1>1, <1>2, <1>3, <1>4, PTL DEF Spec, SessionsArePromised, Sessions!Spec

LEMMA PromiseStep ==
  ASSUME TypeOK, Sessions!Next, NEW u \in Sub
  PROVE  /\ Durable /\ Saved[u] # "none" /\ Saved'[u] = "none" => AtWork[u] = "none"
         /\ AtWork'[u] # AtWork[u] => AtWork'[u] \in {"none", Saved'[u]}
         /\ account[u] = "in" => account'[u] = "in"
         /\ Sessions!Backed => /\ AtWork'[u] # "none" => Saved'[u] # "none"
                               /\ "user" \in {Saved'[u], AtWork'[u]} => account'[u] = "in"
  <1> DEFINE Goal == /\ Durable /\ Saved[u] # "none" /\ Saved'[u] = "none" => AtWork[u] = "none"
                     /\ AtWork'[u] # AtWork[u] => AtWork'[u] \in {"none", Saved'[u]}
                     /\ account[u] = "in" => account'[u] = "in"
                     /\ Sessions!Backed =>
                          /\ AtWork'[u] # "none" => Saved'[u] # "none"
                          /\ "user" \in {Saved'[u], AtWork'[u]} => account'[u] = "in"
  <1>0. DOMAIN account = Sub /\ DOMAIN Saved = Sub /\ DOMAIN AtWork = Sub
    BY DEF TypeOK, Saved, AtWork
  <1>1. CASE Sessions!Stop
    BY <1>1 DEF Sessions!Stop, Sessions!Nothing, Sessions!Backed
  <1>2. ASSUME NEW s \in Sub, Sessions!Accept(s) PROVE Goal
    BY <1>0, <1>2 DEF Sessions!Accept, Sessions!Backed, TypeOK
  <1>3. ASSUME NEW s \in Sub, Sessions!Serve(s) PROVE Goal
    <2>1. AtWork'[u] = IF u = s THEN Saved[s] ELSE AtWork[u]
      BY <1>0, <1>3 DEF Sessions!Serve
    <2> QED BY <1>3, <2>1 DEF Sessions!Serve, Sessions!Backed
  <1>4. ASSUME NEW s \in Sub, Sessions!GiveUp(s) PROVE Goal
    <2>1. Saved'[u] = IF u = s THEN "none" ELSE Saved[u]
      BY <1>0, <1>4 DEF Sessions!GiveUp
    <2> QED BY <1>4, <2>1 DEF Sessions!GiveUp, Sessions!Backed
  <1>5. ASSUME NEW s \in Sub, NEW kind \in {"bot", "user"}, Sessions!Save(s, kind) PROVE Goal
    <2>1. Saved'[u] = IF u = s THEN kind ELSE Saved[u]
      BY <1>0, <1>5 DEF Sessions!Save
    <2>2. AtWork'[u] \in {AtWork[u], IF u = s THEN kind ELSE AtWork[u]}
      BY <1>0, <1>5 DEF Sessions!Save
    <2> QED BY <1>5, <2>1, <2>2 DEF Sessions!Save, Sessions!Backed
  <1> QED BY <1>1, <1>2, <1>3, <1>4, <1>5 DEF Sessions!Next

\* Tools run only for a user whose next start restores a sign-in, and on nothing
\* but a bot unless Telegram has signed the user in.
THEOREM WorkIsBacked == Spec => []Sessions!Backed
  <1>1. Init => Sessions!Backed
    BY DEF Init, Sessions!Backed, Saved, AtWork
  <1>2. TypeOK /\ Sessions!Backed /\ [Sessions!Next]_<<account, Saved, AtWork>>
          => Sessions!Backed'
    BY PromiseStep DEF Sessions!Backed
  <1> QED BY <1>1, <1>2, ServerKeepsItsPromise, MultiUserTypeCorrect, PTL
          DEF Spec, SessionsArePromised, Sessions!Spec

\* A durable sign-in is lost only by a restore that fails, before the tools of its
\* user run; tools change to what is saved; a key stays signed in.
THEOREM NoSignInIsLost == Spec => Sessions!NoneIsLost
  <1> DEFINE Kept ==
        \A u \in Sub :
          /\ Durable /\ Saved[u] # "none" /\ Saved'[u] = "none" => AtWork[u] = "none"
          /\ AtWork'[u] # AtWork[u] => AtWork'[u] \in {"none", Saved'[u]}
          /\ account[u] = "in" => account'[u] = "in"
  <1>1. TypeOK /\ [Sessions!Next]_<<account, Saved, AtWork>>
          => [Kept]_<<account, Saved, AtWork>>
    BY PromiseStep
  <1> QED BY <1>1, ServerKeepsItsPromise, MultiUserTypeCorrect, PTL
          DEF SessionsArePromised, Sessions!Spec, Sessions!NoneIsLost
=============================================================================
