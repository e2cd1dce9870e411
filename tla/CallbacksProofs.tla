-------------------------- MODULE CallbacksProofs --------------------------
(***************************************************************************)
(* Theorems about Callbacks for any number of updates and callers, with    *)
(* machine-checked proofs.                                                 *)
(***************************************************************************)
EXTENDS Callbacks, FiniteSetTheorems, TLAPS

\* What a read returns is part of what it may return.
LEMMA OldestIsPart == \A S, n : Oldest(S, n) \subseteq S
  BY DEF Oldest

\* Ending calls leaves the locals of every call well formed.
LEMMA EndType == ASSUME RequestOK, NEW D, End(D) PROVE RequestOK'
  <1>1. NoAsk \in Ask
    BY CallbacksAssumption DEF NoAsk, Ask
  <1>2. QED
    BY <1>1, CallbacksAssumption DEF RequestOK, End, NoOffset

\* So does returning a batch: only presses go on to be served.
LEMMA ReturnType ==
  ASSUME TypeOK, NEW c \in Caller, NEW got \in SUBSET Id, ReturnBatch(c, got),
         UNCHANGED <<ask, from>>
  PROVE  RequestOK' /\ mu' \in [Server -> Caller \cup {NoCaller}]
  <1> USE CallbacksAssumption
  <1>1. pc' \in [Caller -> {"idle", "lock", "read", "store", "confirm", "serve"}]
    BY DEF TypeOK, RequestOK, ReturnBatch
  <1>2. batch' \in [Caller -> SUBSET Id] /\ todo' \in [Caller -> SUBSET Callback]
    BY DEF TypeOK, RequestOK, ReturnBatch
  <1>3. \A d \in Caller : pc'[d] = "serve" => batch'[d] \subseteq Callback
    BY DEF TypeOK, RequestOK, ReturnBatch
  <1>4. mu' \in [Server -> Caller \cup {NoCaller}]
    BY DEF TypeOK, CursorOK, ReturnBatch
  <1>5. QED
    BY <1>1, <1>2, <1>3, <1>4 DEF TypeOK, RequestOK

\* The same for either outcome of a read.
LEMMA GotType ==
  ASSUME TypeOK, NEW c \in Caller, NEW got \in SUBSET Id, GotBatch(c, got),
         UNCHANGED <<ask, from>>
  PROVE  RequestOK' /\ mu' \in [Server -> Caller \cup {NoCaller}]
  <1>1. CASE ReturnBatch(c, got)
    BY <1>1, ReturnType
  <1>2. CASE /\ batch' = [batch EXCEPT ![c] = got]
             /\ pc' = [pc EXCEPT ![c] = "store"]
             /\ UNCHANGED <<mu, todo>>
    BY <1>2 DEF TypeOK, RequestOK, CursorOK
  <1>3. QED
    BY <1>1, <1>2 DEF GotBatch

\* Every variable keeps the shape the Go declarations give it: cursors stay in
\* range, a batch holds update ids, only presses are served, taken or answered.
THEOREM TypeCorrect == Spec => []TypeOK
<1> USE CallbacksAssumption DEF Id, NoOffset
<1>1. Init => TypeOK
  BY DEF Init, TypeOK, StreamOK, CursorOK, RequestOK, HistoryOK, Ask, NoAsk
<1>2. TypeOK /\ [Next]_vars => TypeOK'
  <2> SUFFICES ASSUME TypeOK, [Next]_vars PROVE TypeOK'
    OBVIOUS
  <2> USE DEF TypeOK, stream, cursor, request, history
  <2>1. CASE Arrive
    BY <2>1 DEF Arrive, StreamOK, CursorOK, RequestOK, HistoryOK
  <2>2. ASSUME NEW c \in Caller, Begin(c) PROVE TypeOK'
    BY <2>2 DEF Begin, Call, Ask, SinceIds, StreamOK, CursorOK, RequestOK, HistoryOK
  <2>3. ASSUME NEW c \in Caller, Lock(c) PROVE TypeOK'
    BY <2>3 DEF Lock, StartAt, Cursor, Ask, StreamOK, CursorOK, RequestOK, HistoryOK
  <2>4. ASSUME NEW c \in Caller, GetUpdates(c) PROVE TypeOK'
    <3>1. Confirmed(from[c]) \subseteq source
      BY DEF Confirmed
    <3>2. Oldest(Confirmed(from[c]), ask[c].limit) \in SUBSET Id
      <4>1. source \subseteq Id
        BY DEF StreamOK
      <4>2. Oldest(Confirmed(from[c]), ask[c].limit) \subseteq Confirmed(from[c])
        BY OldestIsPart
      <4>3. QED
        BY <3>1, <4>1, <4>2
    <3>3. RequestOK' /\ mu' \in [Server -> Caller \cup {NoCaller}]
      BY <2>4, <3>2, GotType DEF GetUpdates
    <3>4. QED
      BY <2>4, <3>1, <3>3 DEF GetUpdates, StreamOK, CursorOK, HistoryOK
  <2>5. ASSUME NEW c \in Caller, ReadQueue(c) PROVE TypeOK'
    <3>1. Oldest({i \in source : i >= from[c]}, ask[c].limit) \in SUBSET Id
      <4>1. source \subseteq Id
        BY DEF StreamOK
      <4>2. Oldest({i \in source : i >= from[c]}, ask[c].limit) \subseteq source
        BY OldestIsPart
      <4>3. QED
        BY <4>1, <4>2
    <3>2. RequestOK' /\ mu' \in [Server -> Caller \cup {NoCaller}]
      BY <2>5, <3>1, GotType DEF ReadQueue
    <3>3. QED
      BY <2>5, <3>2 DEF ReadQueue, StreamOK, CursorOK, HistoryOK
  <2>6. ASSUME NEW c \in Caller, ReadFails(c) PROVE TypeOK'
    <3>1. RequestOK'
      BY <2>6, EndType DEF ReadFails
    <3>2. QED
      BY <2>6, <3>1 DEF ReadFails, Confirmed, StreamOK, CursorOK, HistoryOK
  <2>7. ASSUME NEW c \in Caller, NEW highest \in Id, StoreCursor(c, highest) PROVE TypeOK'
    <3>1. RequestOK' /\ mu' \in [Server -> Caller \cup {NoCaller}]
      <4>1. CASE ReturnBatch(c, batch[c])
        BY <2>7, <4>1, ReturnType DEF StoreCursor, RequestOK
      <4>2. CASE pc' = [pc EXCEPT ![c] = "confirm"] /\ UNCHANGED <<mu, batch, todo>>
        BY <2>7, <4>2 DEF StoreCursor, RequestOK, CursorOK
      <4>3. QED
        BY <2>7, <4>1, <4>2 DEF StoreCursor
    <3>2. CursorOK'
      <4>1. highest + 1 \in 0..MaxId + 1
        OBVIOUS
      <4>2. file' \in 0..MaxId + 1
        BY <2>7, <4>1 DEF StoreCursor, CursorOK
      <4>3. offset' \in [Server -> 0..MaxId + 1]
        BY <2>7, <4>1 DEF StoreCursor, CursorOK
      <4>4. QED
        BY <2>7, <3>1, <4>2, <4>3 DEF StoreCursor, CursorOK
    <3>3. QED
      BY <2>7, <3>1, <3>2 DEF StoreCursor, StreamOK, HistoryOK
  <2>8. ASSUME NEW c \in Caller, Confirm(c) PROVE TypeOK'
    <3>1. RequestOK' /\ mu' \in [Server -> Caller \cup {NoCaller}]
      BY <2>8, ReturnType DEF Confirm, RequestOK
    <3>2. QED
      BY <2>8, <3>1 DEF Confirm, Confirmed, StreamOK, CursorOK, HistoryOK
  <2>9. ASSUME NEW c \in Caller, NEW i \in Id, Serve(c, i) PROVE TypeOK'
    BY <2>9 DEF Serve, StreamOK, CursorOK, RequestOK, HistoryOK
  <2>10. ASSUME NEW c \in Caller, Reply(c) PROVE TypeOK'
    <3>1. RequestOK'
      BY <2>10, EndType DEF Reply
    <3>2. HistoryOK'
      <4>1. watermark' \in [Caller -> 0..MaxId]
        <5>1. PICK w \in 0..MaxId :
                watermark' = [watermark EXCEPT ![c] = IF SinceIdUsed THEN w ELSE 0]
          BY <2>10 DEF Reply
        <5>2. QED
          BY <5>1 DEF HistoryOK
      <4>2. taken' \subseteq Callback /\ again' \subseteq taken'
        BY <2>10 DEF Reply, HistoryOK, RequestOK
      <4>3. QED
        BY <2>10, <4>1, <4>2 DEF Reply, HistoryOK
    <3>3. QED
      BY <2>10, <3>1, <3>2 DEF Reply, StreamOK, CursorOK
  <2>11. ASSUME NEW s \in Server, Crash(s) PROVE TypeOK'
    <3>1. RequestOK'
      BY <2>11, EndType DEF Crash
    <3>2. QED
      BY <2>11, <3>1 DEF Crash, StreamOK, CursorOK, HistoryOK
  <2>12. CASE UNCHANGED vars
    BY <2>12 DEF vars, StreamOK, CursorOK, RequestOK, HistoryOK
  <2>13. QED
    BY <2>1, <2>2, <2>3, <2>4, <2>5, <2>6, <2>7, <2>8, <2>9, <2>10, <2>11, <2>12
    DEF Next, Step
<1>3. QED
  BY <1>1, <1>2, PTL DEF Spec

-----------------------------------------------------------------------------
\* The session directory belongs to one server process.
OneProcess == \A s, t \in Server : s = t

\* While a caller holds the mutex no other caller of its server reads.
LEMMA Exclusive ==
  ASSUME OneProcess, MutexHeld, NEW c \in Caller, NEW d \in Caller,
         pc[c] \in {"read", "store", "confirm"}, pc[d] \in {"read", "store", "confirm"}
  PROVE  c = d
  BY CallbacksAssumption DEF OneProcess, MutexHeld

\* A step that leaves the mutex and every reading call alone keeps MutexHeld,
\* and so do the steps that take or release the mutex.
LEMMA MutexStep == ASSUME TypeOK, MutexHeld, [Next]_vars PROVE MutexHeld'
<1> USE CallbacksAssumption DEF stream, cursor, request, history, TypeOK, CursorOK, RequestOK
<1>1. CASE Arrive
  BY <1>1 DEF Arrive, MutexHeld
<1>2. ASSUME NEW c \in Caller, Begin(c) PROVE MutexHeld'
  BY <1>2 DEF Begin, Call, MutexHeld
<1>3. ASSUME NEW c \in Caller, Lock(c) PROVE MutexHeld'
  BY <1>3 DEF Lock, MutexHeld
<1>4. ASSUME NEW c \in Caller, NEW got, ReturnBatch(c, got), UNCHANGED loaded,
             pc[c] \in {"read", "store", "confirm"}
      PROVE  MutexHeld'
  BY <1>4 DEF ReturnBatch, MutexHeld
<1>5. ASSUME NEW c \in Caller, NEW got, GotBatch(c, got), UNCHANGED loaded, pc[c] = "read"
      PROVE  MutexHeld'
  <2>1. CASE ReturnBatch(c, got)
    BY <1>4, <1>5, <2>1
  <2>2. CASE pc' = [pc EXCEPT ![c] = "store"] /\ UNCHANGED <<mu, todo>>
    BY <1>5, <2>2 DEF MutexHeld
  <2>3. QED
    BY <1>5, <2>1, <2>2 DEF GotBatch
<1>6. ASSUME NEW c \in Caller, GetUpdates(c) \/ ReadQueue(c) PROVE MutexHeld'
  BY <1>5, <1>6 DEF GetUpdates, ReadQueue
<1>7. ASSUME NEW c \in Caller, ReadFails(c) PROVE MutexHeld'
  BY <1>7 DEF ReadFails, End, MutexHeld
<1>8. ASSUME NEW c \in Caller, NEW highest \in Id, StoreCursor(c, highest) PROVE MutexHeld'
  <2>1. CASE ReturnBatch(c, batch[c])
    BY <1>4, <1>8, <2>1 DEF StoreCursor
  <2>2. CASE pc' = [pc EXCEPT ![c] = "confirm"] /\ UNCHANGED <<mu, batch, todo>>
    BY <1>8, <2>2 DEF StoreCursor, MutexHeld
  <2>3. QED
    BY <1>8, <2>1, <2>2 DEF StoreCursor
<1>9. ASSUME NEW c \in Caller, Confirm(c) PROVE MutexHeld'
  BY <1>4, <1>9 DEF Confirm
<1>10. ASSUME NEW c \in Caller, NEW i \in Id, Serve(c, i) PROVE MutexHeld'
  BY <1>10 DEF Serve, MutexHeld
<1>11. ASSUME NEW c \in Caller, Reply(c) PROVE MutexHeld'
  BY <1>11 DEF Reply, End, MutexHeld
<1>12. ASSUME NEW s \in Server, Crash(s) PROVE MutexHeld'
  BY <1>12 DEF Crash, End, MutexHeld
<1>13. CASE UNCHANGED vars
  BY <1>13 DEF vars, MutexHeld
<1>14. QED
  BY <1>1, <1>2, <1>3, <1>6, <1>7, <1>8, <1>9, <1>10, <1>11, <1>12, <1>13 DEF Next, Step

\* The batch of a read starts where the read was told to start.
LEMMA ReadAtOrAbove ==
  ASSUME NEW c \in Caller, GetUpdates(c) \/ ReadQueue(c)
  PROVE  /\ pc[c] = "read"
         /\ UNCHANGED <<cursor, ask, from, history, latest>>
         /\ \E got \in SUBSET source : GotBatch(c, got) /\ \A i \in got : i >= from[c]
<1>1. CASE GetUpdates(c)
  <2>1. GotBatch(c, Oldest(Confirmed(from[c]), ask[c].limit))
    BY <1>1 DEF GetUpdates
  <2>2. \A i \in Oldest(Confirmed(from[c]), ask[c].limit) : i >= from[c]
    BY DEF Oldest, Confirmed
  <2>3. Oldest(Confirmed(from[c]), ask[c].limit) \in SUBSET source
    BY DEF Oldest, Confirmed
  <2>4. QED
    BY <1>1, <2>1, <2>2, <2>3 DEF GetUpdates
<1>2. CASE ReadQueue(c)
  <2>1. GotBatch(c, Oldest({i \in source : i >= from[c]}, ask[c].limit))
    BY <1>2 DEF ReadQueue
  <2>2. \A i \in Oldest({i \in source : i >= from[c]}, ask[c].limit) : i >= from[c]
    BY DEF Oldest
  <2>3. Oldest({i \in source : i >= from[c]}, ask[c].limit) \in SUBSET source
    BY DEF Oldest
  <2>4. QED
    BY <1>2, <2>1, <2>2, <2>3 DEF ReadQueue, stream
<1>3. QED
  BY <1>1, <1>2

\* ReadsAhead survives every step when one process owns the cursor file.
LEMMA AheadStep ==
  ASSUME OneProcess, TypeOK, MutexHeld, ReadsAhead, [Next]_vars
  PROVE  ReadsAhead'
<1> USE CallbacksAssumption DEF stream, cursor, request, history, TypeOK, CursorOK, RequestOK, HistoryOK
<1>1. CASE Arrive
  BY <1>1 DEF Arrive, ReadsAhead
<1>2. ASSUME NEW c \in Caller, Begin(c) PROVE ReadsAhead'
  BY <1>2 DEF Begin, Call, ReadsAhead
<1>3. ASSUME NEW c \in Caller, Lock(c) PROVE ReadsAhead'
  <2>1. Cursor(ServerOf[c]) >= file /\ (faults = 0 => Cursor(ServerOf[c]) = file)
    BY DEF Cursor, ReadsAhead
  <2>2. StartAt(Cursor(ServerOf[c]), ask[c].since) >= Cursor(ServerOf[c])
    BY DEF StartAt, Cursor, Ask
  <2>3. \A d \in Caller : pc[d] \notin {"read", "store", "confirm"}
    BY <1>3 DEF Lock, MutexHeld, OneProcess
  <2>4. QED
    BY <1>3, <2>1, <2>2, <2>3 DEF Lock, ReadsAhead
<1>4. ASSUME NEW c \in Caller, GetUpdates(c) \/ ReadQueue(c) PROVE ReadsAhead'
  <2>1. PICK got \in SUBSET source : GotBatch(c, got) /\ \A i \in got : i >= from[c]
    BY <1>4, ReadAtOrAbove
  <2>2. pc[c] = "read" /\ UNCHANGED <<file, offset, loaded, ask, from, faults>>
    BY <1>4, ReadAtOrAbove
  <2>3. CASE ReturnBatch(c, got)
    BY <2>2, <2>3 DEF ReturnBatch, ReadsAhead
  <2>4. CASE /\ ~ask[c].peek
             /\ batch' = [batch EXCEPT ![c] = got]
             /\ pc' = [pc EXCEPT ![c] = "store"]
    <3>1. \A i \in got : i >= offset[ServerOf[c]]
      <4>1. TAKE i \in got
      <4>2. from[c] >= offset[ServerOf[c]] /\ i >= from[c]
        BY <2>1, <2>2 DEF ReadsAhead
      <4>3. i \in Int
        BY DEF StreamOK
      <4>4. QED
        BY <4>2, <4>3
    <3>2. QED
      BY <2>2, <2>4, <3>1 DEF ReadsAhead
  <2>5. QED
    BY <2>1, <2>3, <2>4 DEF GotBatch
<1>5. ASSUME NEW c \in Caller, ReadFails(c) PROVE ReadsAhead'
  BY <1>5 DEF ReadFails, End, ReadsAhead
<1>6. ASSUME NEW c \in Caller, NEW highest \in Id, StoreCursor(c, highest) PROVE ReadsAhead'
  <2>1. highest >= offset[ServerOf[c]] /\ ~ask[c].peek /\ offset[ServerOf[c]] >= file
    BY <1>6 DEF StoreCursor, ReadsAhead, MutexHeld
  <2>2. \A d \in Caller : d # c => pc[d] \notin {"read", "store", "confirm"}
    BY <1>6, Exclusive DEF StoreCursor
  <2>3. pc' = [pc EXCEPT ![c] = "serve"] \/ pc' = [pc EXCEPT ![c] = "confirm"]
    BY <1>6 DEF StoreCursor, ReturnBatch
  <2>4. highest + 1 >= file /\ highest \in Int
    BY <2>1 DEF Id
  <2>5. \A s \in Server : loaded'[s] => offset'[s] >= file' /\ (faults' = 0 => offset'[s] = file')
    <3>1. \A s \in Server : offset'[s] = highest + 1
      BY <1>6 DEF StoreCursor, OneProcess
    <3>2. file' = highest + 1 \/ (file' = file /\ faults' = faults + 1)
      BY <1>6 DEF StoreCursor
    <3>3. QED
      BY <2>4, <3>1, <3>2
  <2>6. QED
    BY <1>6, <2>1, <2>2, <2>3, <2>5 DEF StoreCursor, ReadsAhead
<1>7. ASSUME NEW c \in Caller, Confirm(c) PROVE ReadsAhead'
  BY <1>7 DEF Confirm, ReturnBatch, ReadsAhead
<1>8. ASSUME NEW c \in Caller, NEW i \in Id, Serve(c, i) PROVE ReadsAhead'
  BY <1>8 DEF Serve, ReadsAhead
<1>9. ASSUME NEW c \in Caller, Reply(c) PROVE ReadsAhead'
  BY <1>9 DEF Reply, End, ReadsAhead
<1>10. ASSUME NEW s \in Server, Crash(s) PROVE ReadsAhead'
  BY <1>10 DEF Crash, End, ReadsAhead, OneProcess
<1>11. CASE UNCHANGED vars
  BY <1>11 DEF vars, ReadsAhead
<1>12. QED
  BY <1>1, <1>2, <1>3, <1>4, <1>5, <1>6, <1>7, <1>8, <1>9, <1>10, <1>11 DEF Next, Step

\* InFlight only depends on the call's own locals.
LEMMA InFlightLocal ==
  ASSUME NEW c \in Caller, pc'[c] = pc[c], ask'[c] = ask[c], batch'[c] = batch[c]
  PROVE  InFlight(c)' = InFlight(c)
  BY DEF InFlight

\* A step that puts nothing in flight, hands nothing out and leaves the file
\* where it is keeps PassedOn.
LEMMA PassedOnShrinks ==
  ASSUME PassedOn, UNCHANGED <<file, faults, taken>>,
         \A c \in Caller : InFlight(c)' \subseteq InFlight(c)
  PROVE  PassedOn'
  BY DEF PassedOn

\* PassedOn survives every step when one process owns the cursor file: what a
\* consuming read puts in flight lies above everything passed on before.
LEMMA PassedStep ==
  ASSUME OneProcess, TypeOK, MutexHeld, ReadsAhead, PassedOn, [Next]_vars
  PROVE  PassedOn' /\ (faults' = 0 => again' \subseteq again)
<1> USE CallbacksAssumption DEF stream, cursor, request, history, TypeOK, CursorOK, RequestOK, HistoryOK
<1> DEFINE Goal == PassedOn' /\ (faults' = 0 => again' \subseteq again)
<1>1. CASE Arrive
  <2>1. \A c \in Caller : InFlight(c)' = InFlight(c)
    BY <1>1, InFlightLocal DEF Arrive
  <2>2. QED
    BY <1>1, <2>1, PassedOnShrinks DEF Arrive
<1>2. ASSUME NEW c \in Caller, Begin(c) PROVE Goal
  <2>1. \A d \in Caller : InFlight(d)' \subseteq InFlight(d)
    BY <1>2 DEF Begin, Call, InFlight
  <2>2. QED
    BY <1>2, <2>1, PassedOnShrinks DEF Begin, Call
<1>3. ASSUME NEW c \in Caller, Lock(c) PROVE Goal
  <2>1. \A d \in Caller : InFlight(d)' \subseteq InFlight(d)
    BY <1>3 DEF Lock, InFlight
  <2>2. QED
    BY <1>3, <2>1, PassedOnShrinks DEF Lock
<1>4. ASSUME NEW c \in Caller, GetUpdates(c) \/ ReadQueue(c) PROVE Goal
  <2>1. PICK got \in SUBSET source : GotBatch(c, got)
    BY <1>4, ReadAtOrAbove
  <2>2. pc[c] = "read" /\ UNCHANGED <<file, ask, faults, taken, again>>
    BY <1>4, ReadAtOrAbove
  <2>3. \A d \in Caller : InFlight(d)' \subseteq InFlight(d)
    <3>1. ASSUME NEW d \in Caller, d # c PROVE InFlight(d)' = InFlight(d)
      BY <2>1, <2>2, <3>1, InFlightLocal DEF GotBatch, ReturnBatch
    <3>2. InFlight(c)' = {}
      BY <2>1, <2>2 DEF GotBatch, ReturnBatch, InFlight
    <3>3. QED
      BY <3>1, <3>2
  <2>4. QED
    BY <2>2, <2>3, PassedOnShrinks
<1>5. ASSUME NEW c \in Caller, ReadFails(c) PROVE Goal
  <2>1. \A d \in Caller : InFlight(d)' \subseteq InFlight(d)
    BY <1>5 DEF ReadFails, End, InFlight
  <2>2. QED
    BY <1>5, <2>1, PassedOnShrinks DEF ReadFails
<1>6. ASSUME NEW c \in Caller, NEW highest \in Id, StoreCursor(c, highest) PROVE Goal
  <2> SUFFICES ASSUME faults' = 0 PROVE PassedOn'
    BY <1>6 DEF StoreCursor, PassedOn
  <2>1. faults = 0 /\ file' = highest + 1 /\ UNCHANGED <<taken, again, ask>>
    BY <1>6 DEF StoreCursor
  <2>2. offset[ServerOf[c]] = file /\ \A i \in batch[c] : i >= file /\ i <= highest
    BY <1>6, <2>1 DEF StoreCursor, ReadsAhead, MutexHeld
  <2>3. highest \in batch[c] /\ highest >= file /\ highest < highest + 1
    BY <1>6, <2>2 DEF StoreCursor, Id
  <2>4. \A d \in Caller : d # c => InFlight(d)' = InFlight(d)
    BY <1>6, InFlightLocal DEF StoreCursor, ReturnBatch
  <2>5. InFlight(c)' \subseteq batch[c]
    BY <1>6, <2>1 DEF StoreCursor, ReturnBatch, InFlight
  <2>6. InFlight(c)' \subseteq Id /\ taken \subseteq Id /\ \A d \in Caller : InFlight(d) \subseteq Id
    BY <2>5 DEF InFlight
  <2>7. \A i \in InFlight(c)' : i >= file /\ i < file'
    BY <2>1, <2>2, <2>5, <2>6 DEF Id
  <2>8. \A i \in taken : i < file /\ i < file'
    BY <2>1, <2>3, <2>6 DEF PassedOn, Id
  <2>9. \A d \in Caller : d # c => \A i \in InFlight(d) : i < file /\ i < file' /\ i \notin taken
    BY <2>1, <2>3, <2>6 DEF PassedOn, Id
  <2>10. \A i \in InFlight(c)' : i \notin taken
    BY <2>6, <2>7, <2>8 DEF Id
  <2>11. \A d \in Caller : d # c => InFlight(d)' \cap InFlight(c)' = {}
    BY <2>4, <2>6, <2>7, <2>9 DEF Id
  <2>12. QED
    BY <2>1, <2>4, <2>7, <2>8, <2>9, <2>10, <2>11 DEF PassedOn
<1>7. ASSUME NEW c \in Caller, Confirm(c) PROVE Goal
  <2>1. \A d \in Caller : InFlight(d)' \subseteq InFlight(d)
    BY <1>7 DEF Confirm, ReturnBatch, InFlight
  <2>2. QED
    BY <1>7, <2>1, PassedOnShrinks DEF Confirm
<1>8. ASSUME NEW c \in Caller, NEW i \in Id, Serve(c, i) PROVE Goal
  <2>1. \A d \in Caller : InFlight(d)' = InFlight(d)
    BY <1>8, InFlightLocal DEF Serve
  <2>2. QED
    BY <1>8, <2>1, PassedOnShrinks DEF Serve
<1>9. ASSUME NEW c \in Caller, Reply(c) PROVE Goal
  <2>1. \A d \in Caller : d # c => InFlight(d)' = InFlight(d)
    BY <1>9, InFlightLocal DEF Reply, End
  <2>2. InFlight(c)' = {}
    BY <1>9 DEF Reply, End, InFlight
  <2>3. CASE ask[c].peek
    BY <1>9, <2>1, <2>2, <2>3, PassedOnShrinks DEF Reply
  <2>4. CASE ~ask[c].peek
    <3>1. taken' = taken \cup InFlight(c) /\ again' = again \cup (InFlight(c) \cap taken)
      BY <1>9, <2>4 DEF Reply, InFlight
    <3>2. QED
      BY <1>9, <2>1, <2>2, <3>1 DEF Reply, PassedOn
  <2>5. QED
    BY <2>3, <2>4
<1>10. ASSUME NEW s \in Server, Crash(s) PROVE Goal
  <2>1. \A d \in Caller : InFlight(d)' \subseteq InFlight(d)
    BY <1>10 DEF Crash, End, InFlight
  <2>2. QED
    BY <1>10, <2>1, PassedOnShrinks DEF Crash
<1>11. CASE UNCHANGED vars
  <2>1. \A d \in Caller : InFlight(d)' = InFlight(d)
    BY <1>11, InFlightLocal DEF vars
  <2>2. QED
    BY <1>11, <2>1, PassedOnShrinks DEF vars
<1>12. QED
  BY <1>1, <1>2, <1>3, <1>4, <1>5, <1>6, <1>7, <1>8, <1>9, <1>10, <1>11 DEF Next, Step

\* How a step moves the cursor file and the fault counter.
LEMMA FileStep ==
  ASSUME TypeOK, [Next]_vars
  PROVE  /\ faults' = faults \/ faults' = faults + 1
         /\ \/ file' = file
            \/ \E c \in Caller, highest \in Id : StoreCursor(c, highest) /\ file' = highest + 1
  BY DEF Next, Begin, Call, Step, Arrive, Lock, GetUpdates, ReadQueue, ReadFails, StoreCursor,
         Confirm, Serve, Reply, Crash, vars, stream, cursor, request, history

\* CursorInv is an invariant of one server process: its mutex protects the
\* cursor, and what it has passed on lies below the cursor in the file.
THEOREM CursorInvariant == ASSUME OneProcess PROVE Spec => []CursorInv
<1>1. Init => MutexHeld /\ ReadsAhead /\ PassedOn
  BY DEF Init, MutexHeld, ReadsAhead, PassedOn, InFlight
<1>2. TypeOK /\ MutexHeld /\ ReadsAhead /\ PassedOn /\ [Next]_vars
        => (MutexHeld /\ ReadsAhead /\ PassedOn)'
  BY OneProcess, MutexStep, AheadStep, PassedStep
<1>3. QED
  BY <1>1, <1>2, TypeCorrect, PTL DEF Spec, CursorInv

\* docs/messages.md "`callbacks` returns each press once": for every number of
\* callers and updates, in either mode, with or without since_id, no press is in
\* two consuming results of one server process unless a cursor write failed.
THEOREM PressOnce == ASSUME OneProcess PROVE Spec => []EachPressOnce
<1>1. Init => EachPressOnce
  BY DEF Init, EachPressOnce
<1>2. CursorInv /\ EachPressOnce /\ [Next]_vars => EachPressOnce'
  <2> SUFFICES ASSUME CursorInv, EachPressOnce, [Next]_vars, faults' = 0
               PROVE  again' = {}
    BY DEF EachPressOnce
  <2>1. faults = 0
    BY FileStep DEF CursorInv, TypeOK, HistoryOK
  <2>2. again' \subseteq again
    BY OneProcess, PassedStep DEF CursorInv
  <2>3. QED
    BY <2>1, <2>2 DEF EachPressOnce
<1>3. QED
  BY <1>1, <1>2, CursorInvariant, PTL DEF Spec

\* storeCursor never writes an older cursor than the file holds, even after
\* writes that failed: one process only moves forward.
THEOREM CursorForward == ASSUME OneProcess PROVE Spec => CursorNeverBack
<1>1. CursorInv /\ [Next]_vars => [file' >= file]_file
  <2> SUFFICES ASSUME CursorInv, [Next]_vars, file' # file PROVE file' >= file
    OBVIOUS
  <2>1. PICK c \in Caller, highest \in Id : StoreCursor(c, highest) /\ file' = highest + 1
    BY FileStep DEF CursorInv
  <2>2. highest >= offset[ServerOf[c]] /\ offset[ServerOf[c]] >= file
    BY <2>1, CallbacksAssumption DEF StoreCursor, CursorInv, ReadsAhead, MutexHeld
  <2>3. highest \in Int /\ offset[ServerOf[c]] \in Int /\ file \in Int
    BY CallbacksAssumption DEF CursorInv, TypeOK, CursorOK, Id
  <2>4. QED
    BY <2>1, <2>2, <2>3
<1>2. QED
  BY <1>1, CursorInvariant, PTL DEF Spec, CursorNeverBack

-----------------------------------------------------------------------------
\* A step in which no call starts or stops being in flight is invisible to the
\* abstract stream.
LEMMA SameInFlight ==
  ASSUME \A c \in Caller : InFlight(c)' = InFlight(c), UNCHANGED <<file, taken>>
  PROVE  UNCHANGED <<file, Claimed, taken>>
  BY DEF Claimed

\* Every step of one process with a working disk is a step of PressStream.
LEMMA StreamStep ==
  ASSUME OneProcess, CursorInv, faults = 0, faults' = 0, [Next]_vars
  PROVE  [Stream!Next]_<<file, Claimed, taken>>
<1> USE CallbacksAssumption
    DEF stream, cursor, request, history, CursorInv, TypeOK, CursorOK, RequestOK, HistoryOK
<1> DEFINE Goal == [Stream!Next]_<<file, Claimed, taken>>
<1>1. CASE Arrive
  BY <1>1, InFlightLocal, SameInFlight DEF Arrive
<1>2. ASSUME NEW c \in Caller, Begin(c) PROVE Goal
  <2>1. \A d \in Caller : InFlight(d)' = InFlight(d)
    BY <1>2 DEF Begin, Call, InFlight
  <2>2. QED
    BY <1>2, <2>1, SameInFlight DEF Begin, Call
<1>3. ASSUME NEW c \in Caller, Lock(c) PROVE Goal
  <2>1. \A d \in Caller : InFlight(d)' = InFlight(d)
    BY <1>3 DEF Lock, InFlight
  <2>2. QED
    BY <1>3, <2>1, SameInFlight DEF Lock
<1>4. ASSUME NEW c \in Caller, GetUpdates(c) \/ ReadQueue(c) PROVE Goal
  <2>1. PICK got \in SUBSET source : GotBatch(c, got)
    BY <1>4, ReadAtOrAbove
  <2>2. pc[c] = "read" /\ UNCHANGED <<file, ask, faults, taken, again>>
    BY <1>4, ReadAtOrAbove
  <2>3. \A d \in Caller : InFlight(d)' = InFlight(d)
    <3>1. ASSUME NEW d \in Caller, d # c PROVE InFlight(d)' = InFlight(d)
      BY <2>1, <2>2, <3>1, InFlightLocal DEF GotBatch, ReturnBatch
    <3>2. InFlight(c)' = {} /\ InFlight(c) = {}
      BY <2>1, <2>2 DEF GotBatch, ReturnBatch, InFlight
    <3>3. QED
      BY <3>1, <3>2
  <2>4. QED
    BY <2>2, <2>3, SameInFlight
<1>5. ASSUME NEW c \in Caller, ReadFails(c) PROVE Goal
  <2>1. \A d \in Caller : InFlight(d)' = InFlight(d)
    BY <1>5 DEF ReadFails, End, InFlight
  <2>2. QED
    BY <1>5, <2>1, SameInFlight DEF ReadFails
<1>6. ASSUME NEW c \in Caller, NEW highest \in Id, StoreCursor(c, highest) PROVE Goal
  <2>1. file' = highest + 1 /\ UNCHANGED <<taken, ask>>
    BY <1>6 DEF StoreCursor
  <2>2. offset[ServerOf[c]] = file /\ \A i \in batch[c] : i >= file /\ i <= highest
    BY <1>6 DEF StoreCursor, ReadsAhead, MutexHeld
  <2>3. highest \in batch[c] /\ highest >= file
    BY <1>6, <2>2 DEF StoreCursor
  <2>4. \A d \in Caller : d # c => InFlight(d)' = InFlight(d)
    BY <1>6, InFlightLocal DEF StoreCursor, ReturnBatch
  <2>5. InFlight(c)' \subseteq batch[c] \cap Callback /\ InFlight(c) = {}
    BY <1>6, <2>1 DEF StoreCursor, ReturnBatch, InFlight
  <2>6. Claimed' = Claimed \cup InFlight(c)'
    BY <2>4, <2>5 DEF Claimed
  <2>7. InFlight(c)' \subseteq Callback \cap file..highest
    BY <2>2, <2>5 DEF Id
  <2>8. Stream!Claim(highest, InFlight(c)')
    BY <2>1, <2>3, <2>6, <2>7 DEF Stream!Claim
  <2>9. QED
    BY <2>7, <2>8 DEF Stream!Next
<1>7. ASSUME NEW c \in Caller, Confirm(c) PROVE Goal
  <2>1. \A d \in Caller : InFlight(d)' = InFlight(d)
    BY <1>7 DEF Confirm, ReturnBatch, InFlight
  <2>2. QED
    BY <1>7, <2>1, SameInFlight DEF Confirm
<1>8. ASSUME NEW c \in Caller, NEW i \in Id, Serve(c, i) PROVE Goal
  <2>1. \A d \in Caller : InFlight(d)' = InFlight(d)
    BY <1>8, InFlightLocal DEF Serve
  <2>2. QED
    BY <1>8, <2>1, SameInFlight DEF Serve
<1>9. ASSUME NEW c \in Caller, Reply(c) PROVE Goal
  <2>1. \A d \in Caller : d # c => InFlight(d)' = InFlight(d)
    BY <1>9, InFlightLocal DEF Reply, End
  <2>2. InFlight(c)' = {}
    BY <1>9 DEF Reply, End, InFlight
  <2>3. CASE ask[c].peek
    <3>1. InFlight(c) = {}
      BY <2>3 DEF InFlight
    <3>2. QED
      BY <1>9, <2>1, <2>2, <2>3, <3>1, SameInFlight DEF Reply
  <2>4. CASE ~ask[c].peek
    <3>1. taken' = taken \cup InFlight(c) /\ UNCHANGED file
      BY <1>9, <2>4 DEF Reply, InFlight
    <3>2. \A d \in Caller : d # c => InFlight(d) \cap InFlight(c) = {}
      BY DEF PassedOn
    <3>3. Claimed' = Claimed \ InFlight(c) /\ InFlight(c) \subseteq Claimed
      BY <2>1, <2>2, <3>2 DEF Claimed
    <3>4. Stream!Hand(InFlight(c))
      BY <3>1, <3>3 DEF Stream!Hand
    <3>5. QED
      BY <3>3, <3>4 DEF Stream!Next
  <2>5. QED
    BY <2>3, <2>4
<1>10. ASSUME NEW s \in Server, Crash(s) PROVE Goal
  <2>1. \A d \in Caller : InFlight(d)' = {}
    BY <1>10 DEF Crash, End, InFlight, OneProcess
  <2>2. Claimed' = {} /\ UNCHANGED <<file, taken>>
    BY <1>10, <2>1 DEF Claimed, Crash
  <2>3. Stream!Lose(Claimed)
    BY <2>2 DEF Stream!Lose
  <2>4. QED
    BY <2>3 DEF Stream!Next
<1>11. CASE UNCHANGED vars
  BY <1>11, InFlightLocal, SameInFlight DEF vars
<1>12. QED
  BY <1>1, <1>2, <1>3, <1>4, <1>5, <1>6, <1>7, <1>8, <1>9, <1>10, <1>11 DEF Next, Step

\* The reader implements PressStream: one server process on a working disk hands
\* presses out in cursor order, each claimed once, whichever way it crashes.
THEOREM ImplementsStream == ASSUME OneProcess, MaxFaults = 0 PROVE Spec => Delivers
<1>1. Init => Stream!Init
  <2>1. ASSUME Init PROVE Claimed = {}
    BY <2>1 DEF Init, Claimed, InFlight
  <2>2. QED
    BY <2>1 DEF Init, Stream!Init, NoOffset
<1>2. CursorInv /\ CursorInv' /\ [Next]_vars => [Stream!Next]_<<file, Claimed, taken>>
  <2>1. CursorInv => faults = 0
    BY DEF CursorInv, TypeOK, HistoryOK
  <2>2. CursorInv' => faults' = 0
    BY DEF CursorInv, TypeOK, HistoryOK
  <2>3. QED
    BY OneProcess, <2>1, <2>2, StreamStep
<1>3. QED
  BY <1>1, <1>2, CursorInvariant, PTL DEF Spec, Delivers, Stream!Spec

-----------------------------------------------------------------------------
\* The presses a consuming call has still to look at.
ToServe(c) ==
  IF pc[c] = "serve" /\ ~ask[c].peek THEN todo[c] ELSE InFlight(c)

\* A call looks only at presses of its batch, and what has been answered here
\* lies below the cursor and in front of no call any more.
AnswersBehind ==
  /\ \A c \in Caller : pc[c] = "serve" => todo[c] \subseteq batch[c]
  /\ faults = 0 => \A i \in answered \ PreAnswered :
                      i < file /\ \A c \in Caller : i \notin ToServe(c)

\* What a call has still to look at only depends on its own locals.
LEMMA ToServeLocal ==
  ASSUME NEW c \in Caller, pc'[c] = pc[c], ask'[c] = ask[c], batch'[c] = batch[c],
         todo'[c] = todo[c]
  PROVE  ToServe(c)' = ToServe(c)
  BY DEF ToServe, InFlight

\* A step that gives no call more to look at, answers nothing but what the
\* queue says is answered and leaves the file alone keeps AnswersBehind.
LEMMA AnswersKept ==
  ASSUME AnswersBehind, UNCHANGED <<file, faults>>,
         answered' \ PreAnswered \subseteq answered \ PreAnswered,
         \A c \in Caller : pc'[c] = "serve" => todo'[c] \subseteq batch'[c],
         \A c \in Caller : ToServe(c)' \subseteq ToServe(c)
  PROVE  AnswersBehind'
  BY DEF AnswersBehind

\* AnswersBehind survives every step of one process, and the step answers no
\* press a second time.
LEMMA AnswerStep ==
  ASSUME OneProcess, CursorInv, AnswersBehind, [Next]_vars
  PROVE  AnswersBehind' /\ (faults' = 0 => twice' \subseteq twice)
<1> USE CallbacksAssumption
    DEF stream, cursor, request, history, CursorInv, TypeOK, CursorOK, RequestOK, HistoryOK
<1> DEFINE Goal == AnswersBehind' /\ (faults' = 0 => twice' \subseteq twice)
           Kept == \A d \in Caller : pc'[d] = "serve" => todo'[d] \subseteq batch'[d]
<1>1. CASE Arrive
  <2>1. \A d \in Caller : ToServe(d)' = ToServe(d)
    BY <1>1, ToServeLocal DEF Arrive
  <2>2. Kept
    BY <1>1 DEF Arrive, AnswersBehind
  <2>3. QED
    BY <1>1, <2>1, <2>2, AnswersKept DEF Arrive
<1>2. ASSUME NEW c \in Caller, Begin(c) PROVE Goal
  <2>1. \A d \in Caller : ToServe(d)' \subseteq ToServe(d)
    BY <1>2 DEF Begin, Call, ToServe, InFlight
  <2>2. Kept
    BY <1>2 DEF Begin, Call, AnswersBehind
  <2>3. QED
    BY <1>2, <2>1, <2>2, AnswersKept DEF Begin, Call
<1>3. ASSUME NEW c \in Caller, Lock(c) PROVE Goal
  <2>1. \A d \in Caller : ToServe(d)' \subseteq ToServe(d)
    BY <1>3 DEF Lock, ToServe, InFlight
  <2>2. Kept
    BY <1>3 DEF Lock, AnswersBehind
  <2>3. QED
    BY <1>3, <2>1, <2>2, AnswersKept DEF Lock
<1>4. ASSUME NEW c \in Caller, GetUpdates(c) \/ ReadQueue(c) PROVE Goal
  <2>1. PICK got \in SUBSET source : GotBatch(c, got)
    BY <1>4, ReadAtOrAbove
  <2>2. pc[c] = "read" /\ UNCHANGED <<file, ask, faults, answered, twice>>
    BY <1>4, ReadAtOrAbove
  <2>3. \A d \in Caller : ToServe(d)' \subseteq ToServe(d)
    <3>1. ASSUME NEW d \in Caller, d # c PROVE ToServe(d)' = ToServe(d)
      BY <2>1, <2>2, <3>1, ToServeLocal DEF GotBatch, ReturnBatch
    <3>2. ToServe(c)' = {}
      BY <2>1, <2>2 DEF GotBatch, ReturnBatch, ToServe, InFlight
    <3>3. QED
      BY <3>1, <3>2
  <2>4. Kept
    BY <2>1, <2>2 DEF GotBatch, ReturnBatch, AnswersBehind
  <2>5. QED
    BY <2>2, <2>3, <2>4, AnswersKept
<1>5. ASSUME NEW c \in Caller, ReadFails(c) PROVE Goal
  <2>1. \A d \in Caller : ToServe(d)' \subseteq ToServe(d)
    BY <1>5 DEF ReadFails, End, ToServe, InFlight
  <2>2. Kept
    BY <1>5 DEF ReadFails, End, AnswersBehind
  <2>3. QED
    BY <1>5, <2>1, <2>2, AnswersKept DEF ReadFails
<1>6. ASSUME NEW c \in Caller, NEW highest \in Id, StoreCursor(c, highest) PROVE Goal
  <2>1. UNCHANGED <<ask, answered, twice>> /\ (faults' = 0 => faults = 0 /\ file' = highest + 1)
    BY <1>6 DEF StoreCursor
  <2>2. Kept
    BY <1>6 DEF StoreCursor, ReturnBatch, AnswersBehind
  <2>3. ASSUME faults' = 0, NEW i \in answered \ PreAnswered
        PROVE  i < file' /\ \A d \in Caller : i \notin ToServe(d)'
    <3>1. i < file /\ \A d \in Caller : i \notin ToServe(d)
      BY <2>1, <2>3 DEF AnswersBehind
    <3>2. offset[ServerOf[c]] = file /\ highest \in batch[c] /\ \A j \in batch[c] : j >= file
      BY <1>6, <2>1, <2>3 DEF StoreCursor, ReadsAhead, MutexHeld
    <3>3. i < file'
      BY <2>1, <2>3, <3>1, <3>2 DEF Id
    <3>4. ToServe(c)' \subseteq batch[c]
      BY <1>6, <2>1 DEF StoreCursor, ReturnBatch, ToServe, InFlight
    <3>5. \A d \in Caller : d # c => ToServe(d)' = ToServe(d)
      BY <1>6, ToServeLocal DEF StoreCursor, ReturnBatch
    <3>6. i \notin batch[c]
      BY <3>1, <3>2 DEF Id
    <3>7. QED
      BY <3>1, <3>3, <3>4, <3>5, <3>6
  <2>4. QED
    BY <2>1, <2>2, <2>3 DEF AnswersBehind
<1>7. ASSUME NEW c \in Caller, Confirm(c) PROVE Goal
  <2>1. \A d \in Caller : ToServe(d)' \subseteq ToServe(d)
    BY <1>7 DEF Confirm, ReturnBatch, ToServe, InFlight
  <2>2. Kept
    BY <1>7 DEF Confirm, ReturnBatch, AnswersBehind
  <2>3. QED
    BY <1>7, <2>1, <2>2, AnswersKept DEF Confirm
<1>8. ASSUME NEW c \in Caller, NEW i \in Id, Serve(c, i) PROVE Goal
  <2>1. UNCHANGED <<pc, ask, batch, file, faults>> /\ todo' = [todo EXCEPT ![c] = @ \ {i}]
    BY <1>8 DEF Serve
  <2>2. Kept
    BY <2>1 DEF AnswersBehind
  <2>3. \A d \in Caller : ToServe(d)' \subseteq ToServe(d)
    BY <2>1 DEF ToServe, InFlight
  <2>4. CASE UNCHANGED <<answered, twice>>
    BY <2>1, <2>2, <2>3, <2>4, AnswersKept
  <2>5. CASE /\ i \in Welcome \ PreAnswered
             /\ ~ask[c].peek
             /\ answered' = answered \cup {i}
             /\ twice' = twice \cup ({i} \cap answered)
    <3>1. pc[c] = "serve" /\ i \in todo[c] /\ ToServe(c) = todo[c] /\ i \in InFlight(c)
      BY <1>8, <2>5 DEF Serve, ToServe, InFlight, AnswersBehind
    <3>2. faults = 0 => i \notin answered
      BY <2>5, <3>1 DEF AnswersBehind
    <3>3. faults = 0 => i < file /\ \A d \in Caller : i \notin ToServe(d)'
      <4>1. SUFFICES ASSUME faults = 0 PROVE i < file /\ \A d \in Caller : i \notin ToServe(d)'
        OBVIOUS
      <4>2. i < file /\ \A d \in Caller : d # c => i \notin InFlight(d)
        BY <3>1, <4>1 DEF PassedOn
      <4>3. \A d \in Caller : ToServe(d) \subseteq InFlight(d)
        BY DEF ToServe, InFlight, AnswersBehind
      <4>4. i \notin ToServe(c)'
        BY <2>1, <2>5, <3>1 DEF ToServe
      <4>5. QED
        BY <2>3, <4>2, <4>3, <4>4
    <3>4. QED
      BY <2>1, <2>2, <2>3, <2>5, <3>2, <3>3 DEF AnswersBehind
  <2>6. QED
    BY <1>8, <2>4, <2>5 DEF Serve
<1>9. ASSUME NEW c \in Caller, Reply(c) PROVE Goal
  <2>1. \A d \in Caller : ToServe(d)' \subseteq ToServe(d)
    BY <1>9 DEF Reply, End, ToServe, InFlight
  <2>2. Kept
    BY <1>9 DEF Reply, End, AnswersBehind
  <2>3. QED
    BY <1>9, <2>1, <2>2, AnswersKept DEF Reply
<1>10. ASSUME NEW s \in Server, Crash(s) PROVE Goal
  <2>1. \A d \in Caller : ToServe(d)' \subseteq ToServe(d)
    BY <1>10 DEF Crash, End, ToServe, InFlight
  <2>2. Kept
    BY <1>10 DEF Crash, End, AnswersBehind
  <2>3. QED
    BY <1>10, <2>1, <2>2, AnswersKept DEF Crash
<1>11. CASE UNCHANGED vars
  <2>1. \A d \in Caller : ToServe(d)' = ToServe(d)
    BY <1>11, ToServeLocal DEF vars
  <2>2. QED
    BY <1>11, <2>1, AnswersKept DEF vars, AnswersBehind
<1>12. QED
  BY <1>1, <1>2, <1>3, <1>4, <1>5, <1>6, <1>7, <1>8, <1>9, <1>10, <1>11 DEF Next, Step

\* A spent callback_query_id is not reused: for any callers, crashes, lost
\* answers and lines the queue's writer has answered, one server process
\* acknowledges no press twice unless a cursor write failed.
THEOREM NoSecondAnswer == ASSUME OneProcess PROVE Spec => []AnsweredOnce
<1>1. Init => AnswersBehind /\ AnsweredOnce
  BY DEF Init, AnswersBehind, AnsweredOnce, ToServe, InFlight
<1>2. CursorInv /\ AnswersBehind /\ AnsweredOnce /\ [Next]_vars => (AnswersBehind /\ AnsweredOnce)'
  <2> SUFFICES ASSUME CursorInv, AnswersBehind, AnsweredOnce, [Next]_vars
               PROVE  AnswersBehind' /\ (faults' = 0 => twice' = {})
    BY DEF AnsweredOnce
  <2>1. faults' = 0 => faults = 0
    BY FileStep DEF CursorInv, TypeOK, HistoryOK
  <2>2. QED
    BY <2>1, OneProcess, AnswerStep DEF AnsweredOnce
<1>3. QED
  BY <1>1, <1>2, CursorInvariant, PTL DEF Spec

-----------------------------------------------------------------------------
\* The numbers of a set of updates below one of them.
LEMMA BelowIsFinite ==
  ASSUME NEW S \in SUBSET Id, NEW i
  PROVE  /\ IsFiniteSet({j \in S : j < i})
         /\ Cardinality({j \in S : j < i}) \in Nat
  <1>1. IsFiniteSet(Id)
    BY CallbacksAssumption, FS_Interval DEF Id
  <1>2. IsFiniteSet({j \in S : j < i})
    BY <1>1, FS_Subset
  <1>3. QED
    BY <1>2, FS_CardinalityType

\* The count of what lies below grows with the update.
LEMMA BelowGrows ==
  ASSUME NEW S \in SUBSET Id, NEW i \in S, NEW k \in S, i < k
  PROVE  Cardinality({j \in S : j < i}) < Cardinality({j \in S : j < k})
  <1> DEFINE A == {j \in S : j < i}
             B == {j \in S : j < k}
  <1>1. A \in SUBSET B /\ i \in B /\ i \notin A
    <2>1. S \subseteq Int /\ i \in Int /\ k \in Int
      BY CallbacksAssumption DEF Id
    <2>2. \A j \in S : j < i => j < k
      BY <2>1
    <2>3. i \in B /\ i \notin A
      BY <2>1
    <2>4. QED
      BY <2>2, <2>3
  <1>2. IsFiniteSet(B) /\ Cardinality(A) \in Nat /\ Cardinality(B) \in Nat
    BY BelowIsFinite
  <1>3. Cardinality(A) <= Cardinality(B) /\ Cardinality(A) # Cardinality(B)
    <2> HIDE DEF A, B
    <2>1. QED
      BY <1>1, <1>2, FS_Subset
  <1>4. QED
    BY <1>2, <1>3

\* limit bounds what a read returns.
LEMMA OldestFits ==
  ASSUME NEW S \in SUBSET Id, NEW n \in Nat
  PROVE  IsFiniteSet(Oldest(S, n)) /\ Cardinality(Oldest(S, n)) <= n
  <1> DEFINE O == Oldest(S, n)
             Rank == [i \in O |-> Cardinality({j \in S : j < i})]
  <1>1. O \subseteq S /\ \A i \in O : Cardinality({j \in S : j < i}) < n
    BY DEF Oldest
  <1>2. \A i \in O : Cardinality({j \in S : j < i}) \in 0..n-1
    <2>1. TAKE i \in O
    <2>2. Cardinality({j \in S : j < i}) \in Nat
      BY BelowIsFinite
    <2>3. QED
      BY <1>1, <2>2
  <1>3. \A i, k \in O : i # k => Rank[i] # Rank[k]
    <2>1. ASSUME NEW i \in O, NEW k \in O, i < k PROVE Rank[i] # Rank[k]
      <3>1. Cardinality({j \in S : j < i}) < Cardinality({j \in S : j < k})
        BY <1>1, <2>1, BelowGrows
      <3>2. Cardinality({j \in S : j < i}) \in Int /\ Cardinality({j \in S : j < k}) \in Int
        BY <1>2
      <3>3. QED
        BY <3>1, <3>2
    <2>2. O \subseteq Int
      <3>1. Id \subseteq Int
        BY CallbacksAssumption DEF Id
      <3>2. QED
        BY <1>1, <3>1
    <2>3. QED
      <3> HIDE DEF O, Rank
      <3>1. QED
        BY <2>1, <2>2
  <1>4. Rank \in Injection(O, 0..n-1)
    BY <1>2, <1>3 DEF Injection, IsInjective
  <1>5. IsFiniteSet(0..n-1) /\ Cardinality(0..n-1) <= n
    <2>1. n - 1 \in Int /\ 0 \in Int
      OBVIOUS
    <2>2. IsFiniteSet(0..n-1) /\ Cardinality(0..n-1) = IF 0 > n - 1 THEN 0 ELSE n - 1 - 0 + 1
      BY <2>1, FS_Interval
    <2>3. QED
      BY <2>2
  <1>6. QED
    <2>1. IsFiniteSet(O) /\ Cardinality(O) <= Cardinality(0..n-1)
      <3> HIDE DEF O, Rank
      <3>1. QED
        BY <1>4, <1>5, FS_Injection
    <2>2. Cardinality(O) \in Int /\ Cardinality(0..n-1) \in Int
      BY <2>1, <1>5, FS_CardinalityType
    <2>3. QED
      BY <2>1, <2>2, <1>5

\* A read skips nothing: with an update it returns every older one in range.
LEMMA OldestSkipsNothing ==
  ASSUME NEW S \in SUBSET Id, NEW n \in Nat, NEW h \in Oldest(S, n), NEW i \in S, i <= h
  PROVE  i \in Oldest(S, n)
  <1>1. h \in S /\ i \in Int /\ h \in Int
    BY CallbacksAssumption DEF Oldest, Id
  <1>2. CASE i = h
    BY <1>2
  <1>3. CASE i < h
    <2>1. Cardinality({j \in S : j < i}) < Cardinality({j \in S : j < h})
      BY <1>1, <1>3, BelowGrows
    <2>2. Cardinality({j \in S : j < h}) < n
      BY DEF Oldest
    <2>3. Cardinality({j \in S : j < i}) \in Nat /\ Cardinality({j \in S : j < h}) \in Nat
      BY BelowIsFinite
    <2>4. QED
      BY <2>1, <2>2, <2>3 DEF Oldest
  <1>4. QED
    BY <1>1, <1>2, <1>3

\* A family of finite sets, none above n elements, has at most n for each.
LEMMA FamilyFits ==
  ASSUME NEW D, IsFiniteSet(D), NEW n \in Nat, NEW F,
         \A d \in D : IsFiniteSet(F[d]) /\ Cardinality(F[d]) <= n
  PROVE  /\ IsFiniteSet(UNION {F[d] : d \in D})
         /\ Cardinality(UNION {F[d] : d \in D}) <= Cardinality(D) * n
  <1> DEFINE U == UNION {F[d] : d \in D}
             Owner(x) == CHOOSE d \in D : x \in F[d]
             Number(d) == CHOOSE f : f \in Injection(F[d], 1..n)
             Place == [x \in U |-> <<Owner(x), Number(Owner(x))[x]>>]
  <1>1. \A d \in D : \E f : f \in Injection(F[d], 1..n)
    <2>1. TAKE d \in D
    <2>2. IsFiniteSet(F[d]) /\ Cardinality(F[d]) \in Nat /\ Cardinality(F[d]) <= n
      BY FS_CardinalityType
    <2>3. ExistsBijection(F[d], 1..Cardinality(F[d]))
      <3>1. ExistsBijection(1..Cardinality(F[d]), F[d])
        BY <2>2, FS_CardinalityType
      <3>2. IsFiniteSet(1..Cardinality(F[d])) /\ Cardinality(1..Cardinality(F[d])) = Cardinality(F[d])
        BY <2>2, FS_Interval
      <3>3. QED
        BY <2>2, <3>2, FS_SameCardinalityBij
    <2>4. PICK f : f \in Bijection(F[d], 1..Cardinality(F[d]))
      BY <2>3 DEF ExistsBijection
    <2>5. f \in Injection(F[d], 1..n)
      <3>1. f \in [F[d] -> 1..Cardinality(F[d])] /\ IsInjective(f)
        BY <2>4 DEF Bijection, Injection
      <3>2. 1..Cardinality(F[d]) \subseteq 1..n
        BY <2>2
      <3>3. f \in [F[d] -> 1..n]
        BY <3>1, <3>2
      <3>4. QED
        BY <3>1, <3>3 DEF Injection
    <2>6. QED
      BY <2>5
  <1>2. \A x \in U : Owner(x) \in D /\ x \in F[Owner(x)]
    OBVIOUS
  <1>3. \A d \in D : Number(d) \in Injection(F[d], 1..n)
    BY <1>1
  <1>4. \A x \in U : Number(Owner(x))[x] \in 1..n
    <2> HIDE DEF U, Owner, Number
    <2>1. QED
      BY <1>2, <1>3 DEF Injection
  <1>5. Place \in [U -> D \X (1..n)]
    <2> HIDE DEF U, Owner, Number
    <2>1. QED
      BY <1>2, <1>4
  <1>6. \A x, y \in U : Place[x] = Place[y] => x = y
    <2> HIDE DEF U, Owner, Number
    <2>1. SUFFICES ASSUME NEW x \in U, NEW y \in U, Owner(x) = Owner(y),
                          Number(Owner(x))[x] = Number(Owner(y))[y]
                   PROVE  x = y
      OBVIOUS
    <2>2. Number(Owner(x)) \in Injection(F[Owner(x)], 1..n) /\ x \in F[Owner(x)] /\ y \in F[Owner(x)]
      BY <1>2, <1>3, <2>1
    <2>3. QED
      BY <2>1, <2>2 DEF Injection, IsInjective
  <1>7. Place \in Injection(U, D \X (1..n))
    <2> HIDE DEF U
    <2>1. QED
      BY <1>5, <1>6 DEF Injection, IsInjective
  <1>8. IsFiniteSet(1..n) /\ Cardinality(1..n) = n
    BY FS_Interval
  <1>9. IsFiniteSet(D \X (1..n)) /\ Cardinality(D \X (1..n)) = Cardinality(D) * n
    BY <1>8, FS_Product
  <1>10. IsFiniteSet(U) /\ Cardinality(U) <= Cardinality(D \X (1..n))
    <2> HIDE DEF U, Place
    <2>1. QED
      BY <1>7, <1>9, FS_Injection
  <1>11. QED
    BY <1>9, <1>10

-----------------------------------------------------------------------------
\* A read starts at the cursor or past what its caller has seen; what it got
\* has arrived, and leaves out nothing older that was still to be read.
ReadsInOrder ==
  /\ file <= latest + 1
  /\ \A s \in Server : offset[s] <= latest + 1
  /\ \A c \in Caller :
       /\ pc[c] = "read" => from[c] = StartAt(offset[ServerOf[c]], ask[c].since)
       /\ batch[c] \subseteq 1..latest
       /\ pc[c] = "store" => \A h \in batch[c], i \in source :
            offset[ServerOf[c]] <= i /\ i <= h => i \in batch[c] \/ i <= ask[c].since

\* Callers that were never given a cursor pass none back.
SinceUnused == ~SinceIdUsed => \A c \in Caller : watermark[c] = 0 /\ ask[c].since = 0

\* A batch is no larger than one of the limits callers may ask for.
BatchFits ==
  \A c \in Caller :
    /\ pc[c] # "idle" => ask[c].limit \in Limits
    /\ IsFiniteSet(batch[c])
    /\ pc[c] \in {"store", "confirm", "serve"} => Cardinality(batch[c]) <= ask[c].limit

\* What a step may do to the stream.
LEMMA SourceStep ==
  ASSUME TypeOK, [Next]_vars
  PROVE  \/ Arrive
         \/ latest' = latest /\ source' \subseteq source
  BY DEF Next, Begin, Call, Step, Arrive, Lock, GetUpdates, ReadQueue, ReadFails, StoreCursor,
         Confirm, Confirmed, Serve, Reply, Crash, vars, stream, cursor, request, history

\* A call whose read is over and whose batch, cursor and arguments a step leaves
\* alone still skips nothing: updates that arrive are newer than its batch.
LEMMA StillSkipsNothing ==
  ASSUME TypeOK, ReadsInOrder, [Next]_vars, NEW c \in Caller, pc[c] = "store",
         batch'[c] = batch[c], ask'[c] = ask[c], offset'[ServerOf[c]] = offset[ServerOf[c]],
         NEW h \in batch'[c], NEW i \in source',
         offset'[ServerOf[c]] <= i, i <= h
  PROVE  i \in batch'[c] \/ i <= ask'[c].since
<1>1. latest \in Nat /\ h \in 1..latest
  BY DEF TypeOK, StreamOK, ReadsInOrder
<1>2. i # latest + 1
  BY <1>1
<1>3. i \in source
  BY <1>2, SourceStep DEF Arrive
<1>4. QED
  BY <1>3 DEF ReadsInOrder

\* The numbers among a call's arguments.
LEMMA AskNumbers ==
  ASSUME TypeOK, NEW c \in Caller
  PROVE  ask[c].limit \in Nat /\ ask[c].since \in Int
  <1>1. ask[c].limit \in Limits \cup {1} /\ ask[c].since \in 0..MaxId
    BY DEF TypeOK, RequestOK, Ask
  <1>2. Limits \cup {1} \subseteq Nat /\ 0..MaxId \subseteq Int
    BY CallbacksAssumption
  <1>3. QED
    BY <1>1, <1>2

\* The read fills the batch from the cursor up, except for what the since_id
\* says has been seen.
LEMMA ReadInOrder ==
  ASSUME TypeOK, ReadsInOrder, NEW c \in Caller, GetUpdates(c) \/ ReadQueue(c)
  PROVE  \E got \in SUBSET source :
           /\ GotBatch(c, got)
           /\ IsFiniteSet(got) /\ Cardinality(got) <= ask[c].limit
           /\ \A h \in got, i \in source' :
                offset[ServerOf[c]] <= i /\ i <= h => i \in got \/ i <= ask[c].since
<1> USE CallbacksAssumption DEF TypeOK, RequestOK, CursorOK, StreamOK
<1> DEFINE S == {i \in source : i >= from[c]}
           n == ask[c].limit
<1>1. pc[c] = "read" /\ GotBatch(c, Oldest(S, n)) /\ source' \subseteq source
  BY DEF GetUpdates, ReadQueue, Confirmed, stream
<1>2. n \in Nat /\ ask[c].since \in Int
  BY AskNumbers
<1>3. S \in SUBSET Id /\ Oldest(S, n) \in SUBSET source /\ source \subseteq Int
  <2>1. source \subseteq Id /\ source \subseteq Int
    BY DEF Id
  <2>2. Oldest(S, n) \subseteq S
    BY OldestIsPart
  <2>3. QED
    BY <2>1, <2>2
<1>4. ASSUME NEW h \in Oldest(S, n), NEW i \in source,
             offset[ServerOf[c]] <= i, i <= h, ~(i <= ask[c].since)
      PROVE  i \in Oldest(S, n)
  <2>1. from[c] = StartAt(offset[ServerOf[c]], ask[c].since) /\ offset[ServerOf[c]] \in Int
    BY <1>1 DEF ReadsInOrder
  <2>2. i \in S
    BY <1>2, <1>3, <1>4, <2>1 DEF StartAt
  <2>3. QED
    <3> HIDE DEF S, n
    <3>1. QED
      BY <1>2, <1>3, <1>4, <2>2, OldestSkipsNothing
<1>5. IsFiniteSet(Oldest(S, n)) /\ Cardinality(Oldest(S, n)) <= n
  <2> HIDE DEF S, n
  <2>1. QED
    BY <1>2, <1>3, OldestFits
<1>6. QED
  <2> HIDE DEF S
  <2>1. \A h \in Oldest(S, n), i \in source' :
          offset[ServerOf[c]] <= i /\ i <= h => i \in Oldest(S, n) \/ i <= ask[c].since
    BY <1>1, <1>4
  <2>2. QED
    BY <1>1, <1>3, <1>5, <2>1

\* ReadsInOrder survives every step of one process.
LEMMA OrderStep ==
  ASSUME OneProcess, CursorInv, ReadsInOrder, [Next]_vars
  PROVE  ReadsInOrder'
<1> USE CallbacksAssumption
    DEF stream, cursor, request, history, CursorInv, TypeOK, StreamOK, CursorOK, RequestOK, HistoryOK
<1>0. latest \in Int /\ latest' \in Int /\ latest' >= latest /\ source \subseteq 1..latest
  BY SourceStep DEF Arrive
<1> DEFINE Alike(c) == /\ pc'[c] = "read" => pc[c] = "read"
                       /\ pc'[c] = "store" => pc[c] = "store"
                       /\ UNCHANGED <<batch[c], ask[c], from[c]>>
<1>1. ASSUME NEW c \in Caller, batch[c] \subseteq 1..latest PROVE batch[c] \subseteq 1..latest'
  BY <1>0, <1>1
<1>2. ASSUME NEW c \in Caller, Alike(c), offset'[ServerOf[c]] = offset[ServerOf[c]]
      PROVE  /\ pc'[c] = "read" => from'[c] = StartAt(offset[ServerOf[c]], ask[c].since)'
             /\ batch'[c] \subseteq 1..latest'
             /\ pc'[c] = "store" => \A h \in batch'[c], i \in source' :
                  offset'[ServerOf[c]] <= i /\ i <= h => i \in batch'[c] \/ i <= ask'[c].since
  <2>1. pc'[c] = "read" => from'[c] = StartAt(offset[ServerOf[c]], ask[c].since)'
    BY <1>2 DEF ReadsInOrder, StartAt
  <2>2. batch'[c] \subseteq 1..latest'
    BY <1>1, <1>2 DEF ReadsInOrder
  <2>3. ASSUME pc'[c] = "store", NEW h \in batch'[c], NEW i \in source',
               offset'[ServerOf[c]] <= i, i <= h
        PROVE  i \in batch'[c] \/ i <= ask'[c].since
    BY <1>2, <2>3, StillSkipsNothing
  <2>4. QED
    BY <2>1, <2>2, <2>3
<1>3. ASSUME UNCHANGED <<file, offset>>,
             \A c \in Caller : Alike(c) \/ (pc'[c] = "idle" /\ batch'[c] = {})
      PROVE  ReadsInOrder'
  <2>1. file' <= latest' + 1 /\ \A s \in Server : offset'[s] <= latest' + 1
    BY <1>0, <1>3 DEF ReadsInOrder
  <2>2. ASSUME NEW c \in Caller, pc'[c] = "idle", batch'[c] = {}
        PROVE  /\ pc'[c] = "read" => from'[c] = StartAt(offset[ServerOf[c]], ask[c].since)'
               /\ batch'[c] \subseteq 1..latest'
               /\ pc'[c] = "store" => \A h \in batch'[c], i \in source' :
                    offset'[ServerOf[c]] <= i /\ i <= h => i \in batch'[c] \/ i <= ask'[c].since
    BY <2>2
  <2>3. QED
    <3> HIDE DEF Alike
    <3>1. QED
      BY <1>2, <1>3, <2>1, <2>2 DEF ReadsInOrder
<1>4. CASE Arrive
  BY <1>3, <1>4 DEF Arrive
<1>5. ASSUME NEW c \in Caller, Begin(c) PROVE ReadsInOrder'
  BY <1>0, <1>5 DEF Begin, Call, ReadsInOrder, StartAt
<1>6. ASSUME NEW c \in Caller, Lock(c) PROVE ReadsInOrder'
  <2>1. \A d \in Caller : pc[d] \notin {"read", "store", "confirm"}
    BY <1>6 DEF Lock, MutexHeld, OneProcess
  <2>2. \A s \in Server : offset'[s] = Cursor(s) /\ offset'[s] <= latest + 1
    BY <1>6 DEF Lock, Cursor, ReadsInOrder, OneProcess
  <2>3. QED
    BY <1>6, <2>1, <2>2 DEF Lock, ReadsInOrder
<1>7. ASSUME NEW c \in Caller, GetUpdates(c) \/ ReadQueue(c) PROVE ReadsInOrder'
  <2>1. PICK got \in SUBSET source :
           /\ GotBatch(c, got)
           /\ \A h \in got, i \in source' :
                offset[ServerOf[c]] <= i /\ i <= h => i \in got \/ i <= ask[c].since
    BY <1>7, ReadInOrder
  <2>2. pc[c] = "read" /\ UNCHANGED <<cursor, ask, from, latest>>
    BY <1>7, ReadAtOrAbove
  <2>3. \A d \in Caller : d # c => Alike(d)
    BY <2>1, <2>2 DEF GotBatch, ReturnBatch
  <2>4. /\ pc'[c] # "read" /\ batch'[c] \subseteq 1..latest'
        /\ pc'[c] = "store" => batch'[c] = got
    <3>1. CASE ReturnBatch(c, got)
      <4>1. pc'[c] = "serve" /\ batch'[c] \subseteq got
        BY <3>1 DEF ReturnBatch
      <4>2. QED
        BY <1>0, <2>2, <4>1
    <3>2. CASE batch' = [batch EXCEPT ![c] = got] /\ pc' = [pc EXCEPT ![c] = "store"]
      <4>1. pc'[c] = "store" /\ batch'[c] = got
        BY <3>2
      <4>2. QED
        BY <1>0, <2>2, <4>1
    <3>3. QED
      BY <2>1, <3>1, <3>2 DEF GotBatch
  <2>5. QED
    <3> HIDE DEF Alike
    <3>1. QED
      BY <1>2, <2>1, <2>2, <2>3, <2>4 DEF ReadsInOrder
<1>8. ASSUME NEW c \in Caller, ReadFails(c) PROVE ReadsInOrder'
  <2>1. \A d \in Caller : Alike(d) \/ (pc'[d] = "idle" /\ batch'[d] = {})
    BY <1>8 DEF ReadFails, End
  <2>2. QED
    BY <1>3, <1>8, <2>1 DEF ReadFails
<1>9. ASSUME NEW c \in Caller, NEW highest \in Id, StoreCursor(c, highest) PROVE ReadsInOrder'
  <2>1. highest <= latest /\ highest \in Int /\ latest' = latest
    BY <1>9 DEF StoreCursor, ReadsInOrder, Id
  <2>2. file' <= latest' + 1
    BY <1>9, <2>1 DEF StoreCursor, ReadsInOrder
  <2>3. \A s \in Server : offset'[s] <= latest' + 1
    BY <1>9, <2>1 DEF StoreCursor, OneProcess
  <2>4. \A d \in Caller : pc'[d] \notin {"read", "store"}
    <3>1. \A d \in Caller : d # c => pc[d] \notin {"read", "store", "confirm"}
      BY <1>9, Exclusive DEF StoreCursor
    <3>2. QED
      BY <1>9, <3>1 DEF StoreCursor, ReturnBatch
  <2>5. \A d \in Caller : batch'[d] \subseteq batch[d]
    BY <1>9 DEF StoreCursor, ReturnBatch
  <2>6. QED
    BY <2>1, <2>2, <2>3, <2>4, <2>5 DEF ReadsInOrder
<1>10. ASSUME NEW c \in Caller, Confirm(c) PROVE ReadsInOrder'
  <2>1. \A d \in Caller : d # c => Alike(d)
    BY <1>10 DEF Confirm, ReturnBatch
  <2>2. pc'[c] = "serve" /\ batch'[c] \subseteq batch[c] /\ UNCHANGED <<latest, offset, file>>
    BY <1>10 DEF Confirm, ReturnBatch
  <2>3. QED
    <3> HIDE DEF Alike
    <3>1. QED
      BY <1>2, <2>1, <2>2 DEF ReadsInOrder
<1>11. ASSUME NEW c \in Caller, NEW i \in Id, Serve(c, i) PROVE ReadsInOrder'
  BY <1>3, <1>11 DEF Serve
<1>12. ASSUME NEW c \in Caller, Reply(c) PROVE ReadsInOrder'
  <2>1. \A d \in Caller : Alike(d) \/ (pc'[d] = "idle" /\ batch'[d] = {})
    BY <1>12 DEF Reply, End
  <2>2. QED
    BY <1>3, <1>12, <2>1 DEF Reply
<1>13. ASSUME NEW s \in Server, Crash(s) PROVE ReadsInOrder'
  <2>1. \A d \in Caller : pc'[d] = "idle" /\ batch'[d] = {}
    BY <1>13 DEF Crash, End, OneProcess
  <2>2. \A t \in Server : offset'[t] = NoOffset
    BY <1>13 DEF Crash, OneProcess
  <2>3. QED
    BY <1>0, <1>13, <2>1, <2>2 DEF Crash, NoOffset, ReadsInOrder
<1>14. CASE UNCHANGED vars
  BY <1>3, <1>14 DEF vars
<1>15. QED
  BY <1>4, <1>5, <1>6, <1>7, <1>8, <1>9, <1>10, <1>11, <1>12, <1>13, <1>14 DEF Next, Step

\* SinceUnused survives every step: Reply hands out no cursor to keep.
LEMMA SinceStep == ASSUME TypeOK, SinceUnused, [Next]_vars PROVE SinceUnused'
<1> USE CallbacksAssumption DEF stream, cursor, request, history, TypeOK, RequestOK, HistoryOK
<1>1. ASSUME NEW c \in Caller, Begin(c) PROVE SinceUnused'
  BY <1>1 DEF Begin, Call, SinceIds, SinceUnused, Ask
<1>2. ASSUME NEW D, End(D), UNCHANGED watermark PROVE SinceUnused'
  BY <1>2 DEF End, SinceUnused, NoAsk
<1>3. ASSUME NEW c \in Caller, Reply(c) PROVE SinceUnused'
  <2>1. PICK w \in 0..MaxId : watermark' = [watermark EXCEPT ![c] = IF SinceIdUsed THEN w ELSE 0]
    BY <1>3 DEF Reply
  <2>2. QED
    BY <1>3, <2>1 DEF Reply, End, SinceUnused, NoAsk
<1>4. CASE UNCHANGED <<ask, watermark>>
  BY <1>4 DEF SinceUnused
<1>5. QED
  BY <1>1, <1>2, <1>3, <1>4 DEF Next, Step, Arrive, Lock, GetUpdates, ReadQueue, ReadFails,
     StoreCursor, Confirm, Serve, Crash, vars

\* A press does not count more by being filtered.
LEMMA PartFits ==
  ASSUME NEW S, IsFiniteSet(S), NEW T \in SUBSET S, NEW n \in Int, Cardinality(S) <= n
  PROVE  IsFiniteSet(T) /\ Cardinality(T) <= n
  <1>1. IsFiniteSet(T) /\ Cardinality(T) <= Cardinality(S)
    BY FS_Subset
  <1>2. Cardinality(T) \in Int /\ Cardinality(S) \in Int
    BY <1>1, FS_CardinalityType
  <1>3. QED
    BY <1>1, <1>2

\* BatchFits survives every step.
LEMMA FitsStep == ASSUME TypeOK, ReadsInOrder, BatchFits, [Next]_vars PROVE BatchFits'
<1> USE CallbacksAssumption DEF stream, cursor, request, history, TypeOK, RequestOK
<1> DEFINE Fits(c) == /\ pc[c] # "idle" => ask[c].limit \in Limits
                      /\ IsFiniteSet(batch[c])
                      /\ pc[c] \in {"store", "confirm", "serve"} => Cardinality(batch[c]) <= ask[c].limit
           Alike(c) == /\ pc'[c] = "idle" \/ pc[c] # "idle"
                       /\ pc'[c] \in {"store", "confirm", "serve"} => pc[c] \in {"store", "confirm", "serve"}
                       /\ UNCHANGED <<batch[c], ask[c]>>
<1>1. ASSUME NEW c \in Caller, Alike(c) PROVE Fits(c)'
  BY <1>1 DEF BatchFits
<1>2. ASSUME NEW c \in Caller, pc'[c] = "idle", batch'[c] = {} PROVE Fits(c)'
  BY <1>2, FS_EmptySet
<1>3. ASSUME NEW c \in Caller, pc[c] # "idle", ask'[c] = ask[c],
             NEW S, IsFiniteSet(S), Cardinality(S) <= ask[c].limit, batch'[c] \in SUBSET S
      PROVE  Fits(c)'
  <2>1. ask[c].limit \in Int /\ ask[c].limit \in Limits
    BY <1>3, AskNumbers DEF BatchFits
  <2>2. IsFiniteSet(batch'[c]) /\ Cardinality(batch'[c]) <= ask[c].limit
    BY <1>3, <2>1, PartFits
  <2>3. QED
    BY <1>3, <2>1, <2>2
<1>4. ASSUME NEW D, End(D) PROVE BatchFits'
  <2>1. \A c \in Caller : Alike(c) \/ (pc'[c] = "idle" /\ batch'[c] = {})
    BY <1>4 DEF End
  <2>2. QED
    <3> HIDE DEF Alike
    <3>1. QED
      BY <1>1, <1>2, <2>1 DEF BatchFits
<1>5. ASSUME \A c \in Caller : Alike(c) PROVE BatchFits'
  <2> HIDE DEF Alike
  <2>1. QED
    BY <1>1, <1>5 DEF BatchFits
<1>6. ASSUME NEW c \in Caller, NEW S, IsFiniteSet(S), Cardinality(S) <= ask[c].limit,
             pc[c] # "idle", UNCHANGED ask, ReturnBatch(c, S) \/ GotBatch(c, S)
      PROVE  BatchFits'
  <2>1. \A d \in Caller : d # c => Alike(d)
    BY <1>6 DEF GotBatch, ReturnBatch
  <2>2. batch'[c] \in SUBSET S
    BY <1>6 DEF GotBatch, ReturnBatch
  <2>3. QED
    <3> HIDE DEF Alike
    <3>1. QED
      BY <1>1, <1>3, <1>6, <2>1, <2>2 DEF BatchFits
<1>7. CASE Arrive
  BY <1>5, <1>7 DEF Arrive
<1>8. ASSUME NEW c \in Caller, Begin(c) PROVE BatchFits'
  BY <1>8 DEF Begin, Call, BatchFits
<1>9. ASSUME NEW c \in Caller, Lock(c) PROVE BatchFits'
  BY <1>5, <1>9 DEF Lock
<1>10. ASSUME NEW c \in Caller, GetUpdates(c) \/ ReadQueue(c) PROVE BatchFits'
  <2>1. PICK got \in SUBSET source :
          GotBatch(c, got) /\ IsFiniteSet(got) /\ Cardinality(got) <= ask[c].limit
    BY <1>10, ReadInOrder
  <2>2. pc[c] = "read" /\ UNCHANGED ask
    BY <1>10, ReadAtOrAbove
  <2>3. QED
    BY <1>6, <2>1, <2>2
<1>11. ASSUME NEW c \in Caller, ReadFails(c) PROVE BatchFits'
  BY <1>4, <1>11 DEF ReadFails
<1>12. ASSUME NEW c \in Caller, NEW highest \in Id, StoreCursor(c, highest) PROVE BatchFits'
  <2>1. CASE ReturnBatch(c, batch[c])
    BY <1>6, <1>12, <2>1 DEF StoreCursor, BatchFits
  <2>2. CASE pc' = [pc EXCEPT ![c] = "confirm"] /\ UNCHANGED <<mu, batch, todo>>
    BY <1>5, <1>12, <2>2 DEF StoreCursor
  <2>3. QED
    BY <1>12, <2>1, <2>2 DEF StoreCursor
<1>13. ASSUME NEW c \in Caller, Confirm(c) PROVE BatchFits'
  BY <1>6, <1>13 DEF Confirm, BatchFits
<1>14. ASSUME NEW c \in Caller, NEW i \in Id, Serve(c, i) PROVE BatchFits'
  BY <1>5, <1>14 DEF Serve
<1>15. ASSUME NEW c \in Caller, Reply(c) PROVE BatchFits'
  BY <1>4, <1>15 DEF Reply
<1>16. ASSUME NEW s \in Server, Crash(s) PROVE BatchFits'
  BY <1>4, <1>16 DEF Crash
<1>17. CASE UNCHANGED vars
  BY <1>5, <1>17 DEF vars
<1>18. QED
  BY <1>7, <1>8, <1>9, <1>10, <1>11, <1>12, <1>13, <1>14, <1>15, <1>16, <1>17 DEF Next, Step

\* What a read of one process has asked for and got, on top of CursorInv.
ReadInv == CursorInv /\ ReadsInOrder /\ SinceUnused /\ BatchFits

\* Reads go in order, within their limit and from where the cursor is, for any
\* callers and updates of one server process.
THEOREM ReadInvariant == ASSUME OneProcess PROVE Spec => []ReadInv
<1>1. Init => ReadsInOrder /\ SinceUnused /\ BatchFits
  BY FS_EmptySet DEF Init, ReadsInOrder, SinceUnused, BatchFits, NoOffset, NoAsk
<1>2. CursorInv /\ ReadsInOrder /\ SinceUnused /\ BatchFits /\ [Next]_vars
        => (ReadsInOrder /\ SinceUnused /\ BatchFits)'
  BY OneProcess, OrderStep, SinceStep, FitsStep DEF CursorInv
<1>3. QED
  BY <1>1, <1>2, CursorInvariant, PTL DEF Spec, ReadInv

-----------------------------------------------------------------------------
\* Telegram forgets nothing at or above the offset it is asked from.
LEMMA WaitingKept ==
  ASSUME TypeOK, NEW s \in Server, NEW next \in Int, next <= Cursor(s),
         source \subseteq source' \/ source' = Confirmed(next),
         Cursor(s)' <= Cursor(s), Cursor(s)' \in Int
  PROVE  Waiting(s) \subseteq Waiting(s)'
<1>1. Cursor(s) \in Int /\ source \subseteq Int
  BY CallbacksAssumption DEF TypeOK, StreamOK, CursorOK, Cursor
<1>2. ASSUME NEW i \in Waiting(s) PROVE i \in Waiting(s)'
  <2>1. i \in source /\ i \in Callback /\ i >= Cursor(s) /\ i \in Int
    BY <1>1 DEF Waiting
  <2>2. i >= Cursor(s)' /\ i >= next
    BY <1>1, <2>1
  <2>3. i \in source'
    BY <2>1, <2>2 DEF Confirmed
  <2>4. QED
    BY <2>1, <2>2, <2>3 DEF Waiting
<1>3. QED
  BY <1>2

\* Presses stop being readable only when a consuming call moves the cursor past
\* its batch, unless a since_id told Telegram to forget them.
LEMMA WaitingStep ==
  ASSUME OneProcess, ReadInv, QueueMode \/ ~SinceIdUsed, [Next]_vars, NEW s \in Server
  PROVE  \/ Waiting(s) \subseteq Waiting(s)'
         \/ \E c \in Caller, highest \in Id :
              /\ StoreCursor(c, highest)
              /\ \A i \in Waiting(s) \ Waiting(s)' : i \in batch[c] \/ i <= ask[c].since
<1> USE CallbacksAssumption
    DEF stream, cursor, request, history, ReadInv, CursorInv, TypeOK, StreamOK, CursorOK, RequestOK
<1> DEFINE Kept == Waiting(s) \subseteq Waiting(s)'
<1>0. Cursor(s) \in Int
  BY DEF Cursor
<1>1. ASSUME UNCHANGED <<offset, loaded, file>>, source \subseteq source' PROVE Kept
  <2>1. Cursor(s)' = Cursor(s)
    BY <1>1 DEF Cursor
  <2>2. QED
    BY <1>0, <1>1, <2>1, WaitingKept
<1>2. ASSUME NEW c \in Caller, pc[c] = "read", ~QueueMode PROVE from[c] = Cursor(s)
  <2>1. ask[c].since = 0
    BY <1>2 DEF SinceUnused
  <2>2. ServerOf[c] = s /\ loaded[s]
    BY <1>2 DEF OneProcess, MutexHeld
  <2>3. QED
    BY <1>2, <2>1, <2>2 DEF ReadsInOrder, StartAt, Cursor
<1>3. CASE Arrive
  BY <1>1, <1>3 DEF Arrive
<1>4. ASSUME NEW c \in Caller, Begin(c) PROVE Kept
  BY <1>1, <1>4 DEF Begin, Call
<1>5. ASSUME NEW c \in Caller, Lock(c) PROVE Kept
  <2>1. Cursor(s)' = Cursor(s) /\ UNCHANGED source
    BY <1>5 DEF Lock, Cursor
  <2>2. QED
    BY <1>0, <2>1, WaitingKept
<1>6. ASSUME NEW c \in Caller, GetUpdates(c) \/ ReadFails(c), source' = Confirmed(from[c]), ~QueueMode
      PROVE  Kept
  <2>1. Cursor(s)' = Cursor(s)
    BY <1>6 DEF GetUpdates, ReadFails, Cursor
  <2>2. from[c] = Cursor(s)
    BY <1>2, <1>6 DEF GetUpdates, ReadFails
  <2>3. QED
    BY <1>0, <1>6, <2>1, <2>2, WaitingKept
<1>7. ASSUME NEW c \in Caller, GetUpdates(c) PROVE Kept
  BY <1>6, <1>7 DEF GetUpdates
<1>8. ASSUME NEW c \in Caller, ReadQueue(c) PROVE Kept
  BY <1>1, <1>8 DEF ReadQueue
<1>9. ASSUME NEW c \in Caller, ReadFails(c) PROVE Kept
  BY <1>1, <1>6, <1>9 DEF ReadFails
<1>10. ASSUME NEW c \in Caller, NEW highest \in Id, StoreCursor(c, highest),
              NEW i \in Waiting(s) \ Waiting(s)'
       PROVE  i \in batch[c] \/ i <= ask[c].since
  <2>1. ServerOf[c] = s /\ loaded[s] /\ UNCHANGED <<source, loaded>> /\ pc[c] = "store"
    BY <1>10 DEF StoreCursor, OneProcess, MutexHeld
  <2>2. Cursor(s) = offset[s] /\ Cursor(s)' = highest + 1
    BY <1>10, <2>1 DEF StoreCursor, Cursor
  <2>3. i \in source /\ i \in Int /\ i >= offset[s] /\ ~(i >= highest + 1)
    BY <1>10, <2>1, <2>2 DEF Waiting
  <2>4. highest \in batch[c] /\ i <= highest
    BY <1>10, <2>3 DEF StoreCursor, Id
  <2>5. QED
    BY <2>1, <2>3, <2>4 DEF ReadsInOrder
<1>11. ASSUME NEW c \in Caller, Confirm(c) PROVE Kept
  <2>1. Cursor(s)' = Cursor(s) /\ offset[ServerOf[c]] = Cursor(s)
    BY <1>11 DEF Confirm, Cursor, OneProcess, MutexHeld
  <2>2. QED
    BY <1>0, <1>1, <1>11, <2>1, WaitingKept DEF Confirm
<1>12. ASSUME NEW c \in Caller, NEW i \in Id, Serve(c, i) PROVE Kept
  BY <1>1, <1>12 DEF Serve
<1>13. ASSUME NEW c \in Caller, Reply(c) PROVE Kept
  BY <1>1, <1>13 DEF Reply
<1>14. ASSUME NEW t \in Server, Crash(t) PROVE Kept
  <2>1. Cursor(s)' = file /\ UNCHANGED source
    BY <1>14 DEF Crash, Cursor, OneProcess
  <2>2. file <= Cursor(s)
    BY DEF Cursor, ReadsAhead
  <2>3. QED
    BY <1>0, <2>1, <2>2, WaitingKept
<1>15. CASE UNCHANGED vars
  BY <1>1, <1>15 DEF vars
<1>16. QED
  <2>1. ASSUME NEW c \in Caller, NEW highest \in Id, StoreCursor(c, highest)
        PROVE  \A i \in Waiting(s) \ Waiting(s)' : i \in batch[c] \/ i <= ask[c].since
    BY <1>10, <2>1
  <2>2. QED
    BY <2>1, <1>3, <1>4, <1>5, <1>7, <1>8, <1>9, <1>11, <1>12, <1>13, <1>14, <1>15 DEF Next, Step

\* bot.go "With consume=false the cursor is left alone": for any callers and
\* crashes of one process, a press stops being readable only in a step of a
\* consuming call that has it in its batch or was told it is past it.  A poll
\* whose callers pass since_id is left out: there a peek tells Telegram to
\* forget (run CallbacksPeekSince).
THEOREM ConsumersTake ==
  ASSUME OneProcess, QueueMode \/ ~SinceIdUsed
  PROVE  Spec => OnlyConsumersTake
<1> DEFINE Takes == \A s \in Server : \A i \in Waiting(s) \ Waiting(s)' :
                      \E c \in Caller : /\ pc[c] \in {"read", "store"}
                                        /\ ~ask[c].peek
                                        /\ i \in batch[c] \/ i <= ask[c].since
<1>1. ReadInv /\ [Next]_vars => [Takes]_vars
  <2> SUFFICES ASSUME ReadInv, [Next]_vars, NEW s \in Server, NEW i \in Waiting(s) \ Waiting(s)'
               PROVE  \E c \in Caller : /\ pc[c] \in {"read", "store"}
                                        /\ ~ask[c].peek
                                        /\ i \in batch[c] \/ i <= ask[c].since
    OBVIOUS
  <2>1. PICK c \in Caller, highest \in Id :
              /\ StoreCursor(c, highest)
              /\ \A j \in Waiting(s) \ Waiting(s)' : j \in batch[c] \/ j <= ask[c].since
    BY OneProcess, QueueMode \/ ~SinceIdUsed, WaitingStep
  <2>2. pc[c] = "store" /\ ~ask[c].peek
    BY <2>1 DEF StoreCursor, ReadInv, CursorInv, ReadsAhead
  <2>3. QED
    BY <2>1, <2>2
<1>2. QED
  BY <1>1, ReadInvariant, PTL DEF Spec, OnlyConsumersTake

-----------------------------------------------------------------------------
\* The presses that arrived and are neither readable, on their way nor handed
\* out: the difference LossBounded counts, for one process s.
Lost(s) == (Callback \cap 1..latest) \ (Waiting(s) \cup Claimed \cup taken)

\* What LossBounded calls lost is Lost(s) for the only server.
LEMMA LostIsLost ==
  ASSUME OneProcess, NEW s \in Server
  PROVE  (Callback \cap 1..latest)
            \ ((UNION ({Waiting(t) : t \in Server} \cup {InFlight(c) : c \in Caller})) \cup taken)
         = Lost(s)
  <1>1. UNION {Waiting(t) : t \in Server} = Waiting(s)
    BY DEF OneProcess
  <1>2. UNION ({Waiting(t) : t \in Server} \cup {InFlight(c) : c \in Caller})
          = (UNION {Waiting(t) : t \in Server}) \cup (UNION {InFlight(c) : c \in Caller})
    OBVIOUS
  <1>3. QED
    BY <1>1, <1>2 DEF Lost, Claimed

\* What has been handed out stays handed out.
LEMMA TakenGrows == ASSUME [Next]_vars PROVE taken \subseteq taken'
  BY DEF Next, Begin, Call, Step, Arrive, Lock, GetUpdates, ReadQueue, ReadFails, StoreCursor,
         Confirm, Serve, Reply, Crash, vars, history

\* What a step may do to a call in flight: leave it, put a stored batch there,
\* hand it to the agent, or lose it in a crash.
LEMMA InFlightStep ==
  ASSUME TypeOK, [Next]_vars, \A s \in Server : ~Crash(s), NEW c \in Caller
  PROVE  InFlight(c) \subseteq InFlight(c)' \cup taken'
<1> USE CallbacksAssumption DEF stream, cursor, request, history, TypeOK, RequestOK
<1> DEFINE Goal == InFlight(c) \subseteq InFlight(c)' \cup taken'
<1>1. ASSUME UNCHANGED <<pc, ask, batch, taken>> PROVE Goal
  BY <1>1, InFlightLocal
<1>2. ASSUME NEW d \in Caller, Begin(d) \/ Lock(d) PROVE Goal
  BY <1>2 DEF Begin, Call, Lock, InFlight
<1>3. ASSUME NEW d \in Caller, NEW got, GotBatch(d, got), pc[d] = "read", UNCHANGED <<ask, taken>>
      PROVE  Goal
  <2>1. CASE c # d
    BY <1>3, <2>1, InFlightLocal DEF GotBatch, ReturnBatch
  <2>2. CASE c = d
    BY <1>3, <2>2 DEF InFlight
  <2>3. QED
    BY <2>1, <2>2
<1>4. ASSUME NEW d \in Caller, GetUpdates(d) \/ ReadQueue(d) PROVE Goal
  BY <1>3, <1>4 DEF GetUpdates, ReadQueue
<1>5. ASSUME NEW d \in Caller, ReadFails(d) PROVE Goal
  BY <1>5 DEF ReadFails, End, InFlight
<1>6. ASSUME NEW d \in Caller, NEW highest \in Id, StoreCursor(d, highest) PROVE Goal
  <2>1. CASE c # d
    BY <1>6, <2>1, InFlightLocal DEF StoreCursor, ReturnBatch
  <2>2. CASE c = d
    BY <1>6, <2>2 DEF StoreCursor, InFlight
  <2>3. QED
    BY <2>1, <2>2
<1>7. ASSUME NEW d \in Caller, Confirm(d) PROVE Goal
  BY <1>7 DEF Confirm, ReturnBatch, InFlight
<1>8. ASSUME NEW d \in Caller, NEW i \in Id, Serve(d, i) PROVE Goal
  BY <1>1, <1>8 DEF Serve
<1>9. ASSUME NEW d \in Caller, Reply(d) PROVE Goal
  <2>1. CASE c # d
    BY <1>9, <2>1, InFlightLocal DEF Reply, End
  <2>2. CASE c = d
    BY <1>9, <2>2 DEF Reply, InFlight
  <2>3. QED
    BY <2>1, <2>2
<1>10. CASE Arrive
  BY <1>1, <1>10 DEF Arrive
<1>11. CASE UNCHANGED vars
  BY <1>1, <1>11 DEF vars
<1>12. QED
  BY <1>2, <1>4, <1>5, <1>6, <1>7, <1>8, <1>9, <1>10, <1>11 DEF Next, Step

\* No step but a crash loses a press, and a crash loses what was in flight.
LEMMA LostStep ==
  ASSUME OneProcess, ~SinceIdUsed, ReadInv, [Next]_vars, NEW s \in Server
  PROVE  \/ Lost(s)' \subseteq Lost(s) /\ crashes' = crashes
         \/ Lost(s)' \subseteq Lost(s) \cup Claimed /\ crashes' = crashes + 1
<1> USE CallbacksAssumption DEF ReadInv, CursorInv
<1>1. CASE \E t \in Server : Crash(t)
  <2>1. PICK t \in Server : Crash(t)
    BY <1>1
  <2>2. UNCHANGED <<latest, taken>> /\ crashes' = crashes + 1
    BY <2>1 DEF Crash, stream
  <2>3. Waiting(s) \subseteq Waiting(s)'
    <3>1. ASSUME NEW c \in Caller, NEW highest \in Id PROVE ~StoreCursor(c, highest)
      BY <2>1 DEF Crash, StoreCursor, TypeOK, HistoryOK
    <3>2. QED
      BY <3>1, OneProcess, ~SinceIdUsed, WaitingStep
  <2>4. QED
    BY <2>2, <2>3 DEF Lost
<1>2. CASE \A t \in Server : ~Crash(t)
  <2>1. taken \subseteq taken' /\ Claimed \subseteq Claimed' \cup taken'
    <3>1. \A c \in Caller : InFlight(c) \subseteq InFlight(c)' \cup taken'
      BY <1>2, InFlightStep
    <3>2. taken \subseteq taken'
      BY TakenGrows
    <3>3. QED
      BY <3>1, <3>2 DEF Claimed
  <2>2. crashes' = crashes
    BY <1>2 DEF Next, Begin, Call, Step, Arrive, Lock, GetUpdates, ReadQueue, ReadFails,
       StoreCursor, Confirm, Serve, Reply, vars, history
  <2>3. Waiting(s) \subseteq Waiting(s)' \cup Claimed'
    <3>1. SUFFICES ASSUME NEW c \in Caller, NEW highest \in Id, StoreCursor(c, highest),
                          \A i \in Waiting(s) \ Waiting(s)' : i \in batch[c] \/ i <= ask[c].since
                   PROVE  Waiting(s) \subseteq Waiting(s)' \cup Claimed'
      BY OneProcess, ~SinceIdUsed, WaitingStep
    <3>2. ask[c].since = 0 /\ ~ask[c].peek /\ pc[c] = "store"
      BY <3>1 DEF StoreCursor, SinceUnused, ReadsAhead
    <3>3. InFlight(c)' = batch[c] \cap Callback
      BY <3>1, <3>2 DEF StoreCursor, ReturnBatch, InFlight, TypeOK, RequestOK
    <3>4. \A i \in Waiting(s) : i \in Callback /\ ~(i <= 0)
      <4>1. \A i \in Callback : ~(i <= 0)
        BY DEF Id
      <4>2. QED
        BY <4>1 DEF Waiting
    <3>5. QED
      BY <3>1, <3>2, <3>3, <3>4 DEF Claimed
  <2>4. Callback \cap 1..latest' \subseteq (Callback \cap 1..latest) \cup Waiting(s)'
    <3>1. CASE latest' = latest
      BY <3>1
    <3>2. CASE Arrive
      <4>1. latest' = latest + 1 /\ latest + 1 \in source'
        BY <3>2 DEF Arrive
      <4>2. Cursor(s)' = Cursor(s) /\ Cursor(s) <= latest + 1
        BY <3>2 DEF Arrive, cursor, Cursor, ReadsInOrder
      <4>3. 1..latest' = 1..latest \cup {latest + 1}
        BY <4>1 DEF TypeOK, StreamOK
      <4>4. latest + 1 \in Callback => latest + 1 \in Waiting(s)'
        BY <4>1, <4>2 DEF Waiting, TypeOK, StreamOK, CursorOK, Cursor
      <4>5. QED
        BY <4>3, <4>4
    <3>3. QED
      BY <3>1, <3>2, SourceStep
  <2>5. QED
    BY <2>1, <2>2, <2>3, <2>4 DEF Lost
<1>3. QED
  BY <1>1, <1>2

\* The calls of all callers hold at most a full batch each.
LEMMA ClaimedFits ==
  ASSUME IsFiniteSet(Caller), ReadInv, NEW n \in Limits, \A m \in Limits : m <= n
  PROVE  IsFiniteSet(Claimed) /\ Cardinality(Claimed) <= Cardinality(Caller) * n
<1> DEFINE F == [c \in Caller |-> InFlight(c)]
<1>1. n \in Nat
  BY CallbacksAssumption
<1>2. \A c \in Caller : IsFiniteSet(F[c]) /\ Cardinality(F[c]) <= n
  <2>1. TAKE c \in Caller
  <2>2. CASE F[c] = {}
    BY <1>1, <2>2, FS_EmptySet
  <2>3. CASE F[c] # {}
    <3>1. pc[c] \in {"confirm", "serve"} /\ F[c] \in SUBSET batch[c]
      BY <2>3 DEF InFlight
    <3>2. IsFiniteSet(batch[c]) /\ Cardinality(batch[c]) <= ask[c].limit /\ ask[c].limit \in Limits
      BY <3>1 DEF ReadInv, BatchFits
    <3>3. Cardinality(batch[c]) \in Nat /\ ask[c].limit \in Nat /\ ask[c].limit <= n
      BY <3>2, CallbacksAssumption, FS_CardinalityType
    <3>4. Cardinality(batch[c]) <= n
      BY <1>1, <3>2, <3>3
    <3>5. QED
      BY <1>1, <3>1, <3>2, <3>4, PartFits
  <2>4. QED
    BY <2>2, <2>3
<1>3. Claimed = UNION {F[c] : c \in Caller}
  BY DEF Claimed
<1>4. QED
  <2> HIDE DEF F
  <2>1. IsFiniteSet(UNION {F[c] : c \in Caller})
        /\ Cardinality(UNION {F[c] : c \in Caller}) <= Cardinality(Caller) * n
    BY <1>1, <1>2, FamilyFits
  <2>2. QED
    BY <1>3, <2>1

\* Presses disappear only with a crashing server: for any number of finitely many
\* callers and updates, with failed cursor writes and lost confirmations, what
\* is lost is at most a batch of each call for every crash.  Callers that pass
\* since_id are left out: they may skip presses on purpose.
THEOREM LossIsBounded ==
  ASSUME OneProcess, Server # {}, ~SinceIdUsed, IsFiniteSet(Caller)
  PROVE  Spec => []LossBounded
<1>0. PICK s \in Server : TRUE
  OBVIOUS
<1> DEFINE Full == \A n \in Limits : (\A m \in Limits : m <= n) =>
                     /\ IsFiniteSet(Lost(s))
                     /\ Cardinality(Lost(s)) <= crashes * Cardinality(Caller) * n
<1>1. Init => Full
  <2>1. ASSUME Init PROVE Lost(s) = {} /\ crashes = 0
    BY <2>1 DEF Init, Lost
  <2>2. Cardinality(Caller) \in Int /\ Limits \subseteq Int
    BY FS_CardinalityType, CallbacksAssumption
  <2>3. QED
    BY <2>1, <2>2, FS_EmptySet
<1>2. ReadInv /\ Full /\ [Next]_vars => Full'
  <2> SUFFICES ASSUME ReadInv, Full, [Next]_vars, NEW n \in Limits, \A m \in Limits : m <= n
               PROVE  /\ IsFiniteSet(Lost(s)')
                      /\ Cardinality(Lost(s)') <= crashes' * Cardinality(Caller) * n
    OBVIOUS
  <2> DEFINE L == Lost(s)
             K == Cardinality(Caller) * n
  <2>1. Cardinality(Caller) \in Nat /\ n \in Nat /\ crashes \in Nat
    BY FS_CardinalityType, CallbacksAssumption DEF ReadInv, CursorInv, TypeOK, HistoryOK
  <2>2. IsFiniteSet(L) /\ Cardinality(L) <= crashes * Cardinality(Caller) * n
    OBVIOUS
  <2>3. IsFiniteSet(Claimed) /\ Cardinality(Claimed) <= K
    BY ClaimedFits
  <2>4. CASE L' \subseteq L /\ crashes' = crashes
    <3>1. crashes * Cardinality(Caller) * n \in Int
      BY <2>1
    <3>2. QED
      <4> HIDE DEF L
      <4>1. IsFiniteSet(L') /\ Cardinality(L') <= crashes * Cardinality(Caller) * n
        BY <2>2, <2>4, <3>1, PartFits
      <4>2. QED
        BY <2>4, <4>1 DEF L
  <2>5. CASE L' \subseteq L \cup Claimed /\ crashes' = crashes + 1
    <3> HIDE DEF L
    <3>1. IsFiniteSet(L \cup Claimed)
          /\ Cardinality(L \cup Claimed) = Cardinality(L) + Cardinality(Claimed) - Cardinality(L \cap Claimed)
      BY <2>2, <2>3, FS_Union
    <3>2. Cardinality(L) \in Nat /\ Cardinality(Claimed) \in Nat /\ Cardinality(L \cap Claimed) \in Nat
      BY <2>2, <2>3, FS_CardinalityType, FS_Intersection
    <3>3. crashes * Cardinality(Caller) * n + K = (crashes + 1) * Cardinality(Caller) * n
          /\ (crashes + 1) * Cardinality(Caller) * n \in Int
          /\ crashes * Cardinality(Caller) * n \in Int
          /\ K \in Int
      BY <2>1
    <3>4. Cardinality(L \cup Claimed) <= (crashes + 1) * Cardinality(Caller) * n
      <4> HIDE DEF K
      <4>1. QED
        BY <2>2, <2>3, <3>1, <3>2, <3>3
    <3>5. IsFiniteSet(L') /\ Cardinality(L') <= (crashes + 1) * Cardinality(Caller) * n
      BY <2>5, <3>1, <3>3, <3>4, PartFits
    <3>6. QED
      BY <2>5, <3>5 DEF L
  <2>6. QED
    BY <2>4, <2>5, OneProcess, ~SinceIdUsed, LostStep
<1>3. Full => LossBounded
  <2>1. SUFFICES ASSUME Full, NEW n \in Limits, \A m \in Limits : m <= n
                 PROVE  Cardinality((Callback \cap 1..latest)
                          \ ((UNION ({Waiting(t) : t \in Server} \cup {InFlight(c) : c \in Caller}))
                                \cup taken))
                        <= crashes * Cardinality(Caller) * n
    BY DEF LossBounded
  <2>2. Cardinality(Lost(s)) <= crashes * Cardinality(Caller) * n
    BY <2>1
  <2>3. QED
    BY <2>2, OneProcess, LostIsLost
<1>4. QED
  <2> HIDE DEF Full
  <2>1. QED
    BY <1>1, <1>2, <1>3, ReadInvariant, PTL DEF Spec
=============================================================================
