------------------------- MODULE SessionClaimProofs -------------------------
(***************************************************************************)
(* Theorems about SessionClaim for any number of processes, whatever they  *)
(* run and however often they crash, with machine-checked proofs.          *)
(***************************************************************************)
EXTENDS SessionClaim, TLAPS

\* Cancelling a client leaves pairs of a process and a key.
LEMMA CancelledType ==
  ASSUME TypeOK, NEW p \in Proc
  PROVE  Cancelled(p) \subseteq Proc \X Key
  BY DEF TypeOK, Cancelled

\* And so does dropping the clients of a process that exits.
LEMMA SurvivorsArePart ==
  ASSUME NEW p \in Proc, NEW S
  PROVE  Survivors(p, S) \subseteq S
  BY DEF Survivors

\* One step keeps every variable in its type.
LEMMA SessionTypeStep == TypeOK /\ [Next]_vars => TypeOK'
<1> USE SessionAssumption DEF Key, Absent, Empty, NoKey, Seed
<1> SUFFICES ASSUME TypeOK, [Next]_vars PROVE TypeOK'
  OBVIOUS
<1> USE DEF TypeOK, Goto, Afterwards
<1>1. ASSUME NEW p \in Proc, Start(p) PROVE TypeOK'
  BY <1>1 DEF Start, Prepared
<1>2. ASSUME NEW p \in Proc, SaveSeed(p) PROVE TypeOK'
  BY <1>2 DEF SaveSeed
<1>3. ASSUME NEW p \in Proc, Claim(p) PROVE TypeOK'
  BY <1>3 DEF Claim
<1>4. ASSUME NEW p \in Proc, Refused(p) PROVE TypeOK'
  BY <1>4 DEF Refused
<1>5. ASSUME NEW p \in Proc, RecordPid(p) PROVE TypeOK'
  BY <1>5 DEF RecordPid
<1>6. ASSUME NEW p \in Proc, Dial(p) PROVE TypeOK'
  BY <1>6 DEF Dial
<1>7. ASSUME NEW p \in Proc, Store(p) PROVE TypeOK'
  BY <1>7 DEF Store
<1>8. ASSUME NEW p \in Proc, Ready(p) PROVE TypeOK'
  BY <1>8 DEF Ready
<1>9. ASSUME NEW p \in Proc, RunFails(p) PROVE TypeOK'
  BY <1>9 DEF RunFails
<1>10. ASSUME NEW p \in Proc, ConnectDeadline(p) PROVE TypeOK'
  <2>1. fading' \subseteq Proc \X Key
    BY <1>10, CancelledType, SurvivorsArePart DEF ConnectDeadline
  <2>2. QED
    BY <1>10, <2>1 DEF ConnectDeadline
<1>11. ASSUME NEW p \in Proc, NEW k \in Key, Fade(p, k) PROVE TypeOK'
  BY <1>11 DEF Fade
<1>12. ASSUME NEW p \in Proc, Disconnected(p) PROVE TypeOK'
  <2>1. fading' \subseteq Proc \X Key
    BY <1>12, SurvivorsArePart DEF Disconnected
  <2>2. QED
    BY <1>12, <2>1 DEF Disconnected
<1>13. ASSUME NEW p \in Proc, RemoveFile(p) PROVE TypeOK'
  BY <1>13 DEF RemoveFile
<1>14. ASSUME NEW p \in Proc, Die(p) PROVE TypeOK'
  BY <1>14 DEF Die
<1>15. ASSUME NEW p \in Proc, SignIn(p) PROVE TypeOK'
  BY <1>15 DEF SignIn
<1>16. ASSUME NEW p \in Proc, LogOut(p) PROVE TypeOK'
  BY <1>16 DEF LogOut
<1>17. ASSUME NEW p \in Proc, Disconnect(p) PROVE TypeOK'
  <2>1. fading' \subseteq Proc \X Key
    BY <1>17, CancelledType DEF Disconnect
  <2>2. QED
    BY <1>17, <2>1 DEF Disconnect
<1>18. ASSUME NEW p \in Proc, Crash(p) PROVE TypeOK'
  BY <1>18 DEF Crash
<1>19. CASE UNCHANGED vars
  BY <1>19 DEF vars
<1>20. QED
  BY <1>1, <1>2, <1>3, <1>4, <1>5, <1>6, <1>7, <1>8, <1>9, <1>10, <1>11, <1>12,
     <1>13, <1>14, <1>15, <1>16, <1>17, <1>18, <1>19 DEF Next, Step

\* So does every initial state.
LEMMA SessionInitType == Init => TypeOK
  BY SessionAssumption DEF Init, TypeOK, Key, Absent, Empty, NoKey, Seed

\* Every variable keeps the shape its declaration in the code gives it.
THEOREM SessionTypeCorrect == Spec => []TypeOK
<1>1. QED
  BY SessionInitType, SessionTypeStep, PTL DEF Spec

\* The claim is only ever given up, or taken by a compatible process.
LEMMA HeldStep ==
  ASSUME [Next]_vars
  PROVE  held' \subseteq held \/ \E p \in Proc : Compatible(p) /\ held' = held \cup {p}
  BY DEF Next, Step, vars, Start, Prepared, SaveSeed, Claim, Refused, RecordPid, Dial, Store, Ready,
       RunFails, ConnectDeadline, Fade, Disconnected, RemoveFile, Die, SignIn, LogOut,
       Disconnect, Crash

\* Holding the claim goes with a phase, step by step.
LEMMA PhaseStep ==
  ASSUME TypeOK, HolderPhase, ClientPhase, [Next]_vars
  PROVE  HolderPhase' /\ ClientPhase'
  <1> USE DEF TypeOK, HolderPhase, ClientPhase, Claiming, Goto, Afterwards
  <1>1. ASSUME NEW p \in Proc, Start(p) PROVE HolderPhase' /\ ClientPhase'
    BY <1>1 DEF Start, Prepared
  <1>2. ASSUME NEW p \in Proc, SaveSeed(p) PROVE HolderPhase' /\ ClientPhase'
    BY <1>2 DEF SaveSeed
  <1>3. ASSUME NEW p \in Proc, Claim(p) PROVE HolderPhase' /\ ClientPhase'
    BY <1>3 DEF Claim
  <1>4. ASSUME NEW p \in Proc, Refused(p) PROVE HolderPhase' /\ ClientPhase'
    BY <1>4 DEF Refused
  <1>5. ASSUME NEW p \in Proc, RecordPid(p) PROVE HolderPhase' /\ ClientPhase'
    BY <1>5 DEF RecordPid
  <1>6. ASSUME NEW p \in Proc, Dial(p) PROVE HolderPhase' /\ ClientPhase'
    BY <1>6 DEF Dial
  <1>7. ASSUME NEW p \in Proc, Store(p) PROVE HolderPhase' /\ ClientPhase'
    BY <1>7 DEF Store
  <1>8. ASSUME NEW p \in Proc, Ready(p) PROVE HolderPhase' /\ ClientPhase'
    BY <1>8 DEF Ready
  <1>9. ASSUME NEW p \in Proc, RunFails(p) PROVE HolderPhase' /\ ClientPhase'
    BY <1>9 DEF RunFails
  <1>10. ASSUME NEW p \in Proc, ConnectDeadline(p) PROVE HolderPhase' /\ ClientPhase'
    BY <1>10 DEF ConnectDeadline
  <1>11. ASSUME NEW p \in Proc, NEW k \in Key, Fade(p, k) PROVE HolderPhase' /\ ClientPhase'
    BY <1>11 DEF Fade
  <1>12. ASSUME NEW p \in Proc, Disconnected(p) PROVE HolderPhase' /\ ClientPhase'
    BY <1>12 DEF Disconnected
  <1>13. ASSUME NEW p \in Proc, RemoveFile(p) PROVE HolderPhase' /\ ClientPhase'
    BY <1>13 DEF RemoveFile
  <1>14. ASSUME NEW p \in Proc, Die(p) PROVE HolderPhase' /\ ClientPhase'
    BY <1>14 DEF Die
  <1>15. ASSUME NEW p \in Proc, SignIn(p) PROVE HolderPhase' /\ ClientPhase'
    BY <1>15 DEF SignIn
  <1>16. ASSUME NEW p \in Proc, LogOut(p) PROVE HolderPhase' /\ ClientPhase'
    BY <1>16 DEF LogOut
  <1>17. ASSUME NEW p \in Proc, Disconnect(p) PROVE HolderPhase' /\ ClientPhase'
    BY <1>17 DEF Disconnect
  <1>18. ASSUME NEW p \in Proc, Crash(p) PROVE HolderPhase' /\ ClientPhase'
    BY <1>18 DEF Crash
  <1>19. CASE UNCHANGED vars
    BY <1>19 DEF vars
  <1>20. QED
    BY <1>1, <1>2, <1>3, <1>4, <1>5, <1>6, <1>7, <1>8, <1>9, <1>10, <1>11, <1>12,
       <1>13, <1>14, <1>15, <1>16, <1>17, <1>18, <1>19 DEF Next, Step

\* Where clients are cancelled, and what that does to the phase: Disconnect
\* waits for the clients it cancelled, so none of p's is left when it moves on.
LEMMA WaitStep ==
  ASSUME ClaimInv, ~Deadlines, [Next]_vars
  PROVE  \A c \in fading' : pc'[c[1]] = "stopping"
  <1> USE DEF ClaimInv, TypeOK, WaitedFor, Goto, Afterwards
  <1>1. \A c \in fading : c[1] \in Proc /\ c[2] \in Key /\ c = <<c[1], c[2]>>
    OBVIOUS
  <1>2. ASSUME NEW p \in Proc, Disconnected(p) PROVE \A c \in fading' : pc'[c[1]] = "stopping"
    <2>1. \A c \in fading : c[1] # p
      BY <1>1, <1>2 DEF Disconnected
    <2>2. fading' \subseteq fading
      BY <1>2, SurvivorsArePart DEF Disconnected
    <2>3. QED
      BY <1>1, <1>2, <2>1, <2>2 DEF Disconnected
  <1>3. ASSUME NEW p \in Proc, Disconnect(p) PROVE \A c \in fading' : pc'[c[1]] = "stopping"
    <2>1. \A c \in fading' : c \in fading \/ c[1] = p
      BY <1>3 DEF Disconnect, Cancelled
    <2>2. QED
      BY <1>1, <1>3, <2>1 DEF Disconnect
  <1>4. ASSUME NEW p \in Proc, pc[p] # "stopping", fading' \subseteq fading,
               \A q \in Proc \ {p} : pc'[q] = pc[q]
        PROVE  \A c \in fading' : pc'[c[1]] = "stopping"
    BY <1>1, <1>4
  <1>5. ASSUME UNCHANGED pc, fading' \subseteq fading PROVE \A c \in fading' : pc'[c[1]] = "stopping"
    BY <1>1, <1>5
  <1>6. ASSUME NEW p \in Proc, Crash(p) PROVE \A c \in fading' : pc'[c[1]] = "stopping"
    BY <1>1, <1>6 DEF Crash
  <1>7. ASSUME NEW p \in Proc, \/ Start(p) \/ SaveSeed(p) \/ Claim(p) \/ Refused(p)
                               \/ RecordPid(p) \/ Ready(p) \/ RunFails(p) \/ RemoveFile(p)
        PROVE  \A c \in fading' : pc'[c[1]] = "stopping"
    <2>1. pc[p] # "stopping" /\ fading' \subseteq fading /\ \A q \in Proc \ {p} : pc'[q] = pc[q]
      BY <1>7 DEF Start, Prepared, SaveSeed, Claim, Refused, RecordPid, Ready, RunFails, RemoveFile
    <2>2. QED
      BY <1>4, <2>1
  <1>8. ASSUME NEW p \in Proc, \/ Dial(p) \/ Store(p) \/ Die(p) \/ SignIn(p) \/ LogOut(p)
                               \/ \E k \in Key : Fade(p, k)
        PROVE  \A c \in fading' : pc'[c[1]] = "stopping"
    <2>1. UNCHANGED pc /\ fading' \subseteq fading
      BY <1>8 DEF Dial, Store, Die, SignIn, LogOut, Fade
    <2>2. QED
      BY <1>5, <2>1
  <1>9. CASE UNCHANGED vars
    BY <1>5, <1>9 DEF vars
  <1>10. QED
    BY <1>2, <1>3, <1>6, <1>7, <1>8, <1>9 DEF Next, Step, ConnectDeadline

\* The invariant of the claim holds at the start,
LEMMA ClaimInitially == Init => ClaimInv
  <1>1. Init => HolderPhase /\ ClientPhase /\ SharersOnly /\ WaitedFor
    BY DEF Init, HolderPhase, ClientPhase, SharersOnly, WaitedFor, Claiming
  <1>2. QED
    BY <1>1, SessionInitType DEF ClaimInv

\* and every step keeps it.
LEMMA ClaimStep == ClaimInv /\ [Next]_vars => ClaimInv'
  <1> SUFFICES ASSUME ClaimInv, [Next]_vars PROVE ClaimInv'
    OBVIOUS
  <1>1. TypeOK'
    BY SessionTypeStep DEF ClaimInv
  <1>2. HolderPhase' /\ ClientPhase'
    BY PhaseStep DEF ClaimInv
  <1>3. SharersOnly'
    BY HeldStep DEF ClaimInv, SharersOnly, Compatible
  <1>4. WaitedFor'
    BY WaitStep DEF WaitedFor
  <1>5. QED
    BY <1>1, <1>2, <1>3, <1>4 DEF ClaimInv

\* The claim, its holders and their clients agree, for any processes, with and
\* without deadlines: sessionlock_unix.go and every path of Connect and Disconnect.
THEOREM ClaimInvariant == Spec => []ClaimInv
<1>1. QED
  BY ClaimInitially, ClaimStep, PTL DEF Spec

\* A connection that tool calls can use is backed by the claim, and two of them
\* only by two shared ones, even when connecting is cut short by a deadline.
THEOREM ClientsAreClaimed == Spec => []ClaimedClients
<1>1. ClaimInv => ClaimedClients
  BY DEF ClaimInv, HolderPhase, ClientPhase, SharersOnly, ClaimedClients, Claiming, Ensure
<1>2. QED
  BY <1>1, ClaimInvariant, PTL

\* No error path, deadline or crash leaves the session claimed.
THEOREM ClaimNeverLeaks == Spec => []NoLeakedClaim
<1>1. ClaimInv => NoLeakedClaim
  BY DEF ClaimInv, TypeOK, HolderPhase, NoLeakedClaim, Claiming
<1>2. QED
  BY <1>1, ClaimInvariant, PTL

\* When Disconnect and Connect always wait for the client, a key is never used
\* by two clients, unless their processes share it.
THEOREM OneClientPerKey == ASSUME ~Deadlines PROVE Spec => []OneClient
<1>1. ClaimInv => OneClient
  <2> SUFFICES ASSUME ClaimInv, NEW k \in Key
               PROVE  /\ \A p, q \in Proc : (p # q /\ Uses(p, k) /\ Uses(q, k))
                            => (p \in Shared /\ q \in Shared)
                      /\ \A p \in Proc : client[p] = k => <<p, k>> \notin fading
    BY DEF OneClient
  <2>1. k # NoKey
    BY SessionAssumption DEF Key, NoKey
  <2>2. \A p \in Proc : <<p, k>> \in fading => pc[p] = "stopping"
    BY DEF ClaimInv, WaitedFor
  <2>3. \A p \in Proc : client[p] = k => pc[p] \in {"starting", "on"}
    BY <2>1 DEF ClaimInv, ClientPhase
  <2>4. \A p \in Proc : Uses(p, k) => p \in held
    BY <2>2, <2>3 DEF Uses, ClaimInv, HolderPhase, Claiming
  <2>5. QED
    BY <2>2, <2>3, <2>4 DEF ClaimInv, SharersOnly
<1>2. QED
  BY <1>1, ClaimInvariant, PTL

-----------------------------------------------------------------------------
\* A move of one process is a move of somebody.
LEMMA OneConnects ==
  ASSUME NEW p \in Proc,
         \/ Connections!Acquire(p) \/ Connections!Open(p) \/ Connections!Close(p)
         \/ Connections!Release(p) \/ Connections!Drop(p)
  PROVE  Connections!Next
  BY DEF Connections!Next

LEMMA OneRuns ==
  ASSUME NEW p \in Proc,
         \/ Clients!Acquire(p) \/ Clients!Open(p) \/ Clients!Close(p)
         \/ Clients!Release(p) \/ Clients!Drop(p)
  PROVE  Clients!Next
  BY DEF Clients!Next

\* Connections are opened under the claim, and it is given up with them or after.
LEMMA ConnectionStep ==
  ASSUME ClaimInv, [Next]_vars
  PROVE  [Connections!Next]_<<held, Connected>>
  <1> USE DEF ClaimInv, TypeOK, HolderPhase, ClientPhase, Claiming
  <1>1. NoKey \notin Key /\ \A k \in 0..MaxKey : k \in Key
    BY SessionAssumption DEF Key, NoKey
  <1>2. ASSUME UNCHANGED <<held, client>> PROVE UNCHANGED <<held, Connected>>
    BY <1>2 DEF Connected
  <1>3. ASSUME NEW p \in Proc, Claim(p) PROVE Connections!Acquire(p)
    BY <1>3 DEF Claim, Compatible, Connections!Acquire, Connected
  <1>4. ASSUME NEW p \in Proc, Dial(p) PROVE Connections!Open(p)
    <2>1. client'[p] \in Key /\ held' = held /\ p \in held
      BY <1>4, SessionAssumption DEF Dial, Key
    <2>2. \A q \in Proc : q # p => client'[q] = client[q]
      BY <1>4 DEF Dial
    <2>3. QED
      BY <1>1, <2>1, <2>2 DEF Connections!Open, Connected
  <1>5. ASSUME NEW p \in Proc, client' = [client EXCEPT ![p] = NoKey]
        PROVE  Connected' = Connected \ {p}
    BY <1>5 DEF Connected
  <1>6. ASSUME NEW p \in Proc, RunFails(p) \/ ConnectDeadline(p) \/ Crash(p)
        PROVE  Connections!Drop(p)
    BY <1>5, <1>6 DEF RunFails, ConnectDeadline, Crash, Connections!Drop
  <1>7. ASSUME NEW p \in Proc, Die(p) \/ Disconnect(p) PROVE Connections!Close(p)
    BY <1>5, <1>7 DEF Die, Disconnect, Connections!Close
  <1>8. ASSUME NEW p \in Proc, Disconnected(p) PROVE Connections!Release(p)
    BY <1>8 DEF Disconnected, Connections!Release, Connected
  <1>9. ASSUME NEW p \in Proc,
               \/ Start(p) \/ SaveSeed(p) \/ Refused(p) \/ RecordPid(p) \/ Store(p) \/ Ready(p)
               \/ SignIn(p) \/ LogOut(p) \/ RemoveFile(p) \/ \E k \in Key : Fade(p, k)
        PROVE  UNCHANGED <<held, client>>
    BY <1>9 DEF Start, Prepared, SaveSeed, Refused, RecordPid, Store, Ready, SignIn, LogOut, RemoveFile, Fade
  <1>10. CASE UNCHANGED vars
    BY <1>2, <1>10 DEF vars
  <1>11. QED
    BY <1>2, <1>3, <1>4, <1>6, <1>7, <1>8, <1>9, <1>10, OneConnects DEF Next, Step

\* Every configuration, deadlines and crashes included, keeps to the claim with
\* the connections that tool calls can use.
THEOREM ConnectionsKeepToTheClaim == Spec => ConnectionsClaim
<1>1. Init => Connections!Init
  BY DEF Init, Connections!Init, Connected
<1>2. QED
  BY <1>1, ClaimInitially, ClaimStep, ConnectionStep, PTL DEF Spec, ConnectionsClaim, Connections!Spec

\* Without deadlines nothing runs on after the claim is gone: a client that is
\* cancelled counts until it has stopped.
LEMMA ClientStep ==
  ASSUME ClaimInv, ~Deadlines, [Next]_vars
  PROVE  [Clients!Next]_<<held, Running>>
  <1> USE DEF ClaimInv, TypeOK, HolderPhase, ClientPhase, WaitedFor, Claiming
  <1>1. NoKey \notin Key
    BY SessionAssumption DEF Key, NoKey
  <1>2. \A q \in Proc, k \in Key : <<q, k>> \in fading => pc[q] = "stopping"
    OBVIOUS
  <1>3. ASSUME UNCHANGED <<client, fading>> PROVE Running' = Running
    BY <1>3 DEF Running, Uses
  <1>4. ASSUME NEW p \in Proc, Claim(p) PROVE Clients!Acquire(p)
    <2>1. Running' = Running
      BY <1>3, <1>4 DEF Claim
    <2>2. QED
      BY <1>4, <2>1 DEF Claim, Compatible, Clients!Acquire
  <1>5. ASSUME NEW p \in Proc, Dial(p) PROVE Clients!Open(p)
    <2>1. client'[p] \in Key /\ UNCHANGED <<held, fading>> /\ p \in held
      BY <1>5, SessionAssumption DEF Dial, Key
    <2>2. \A q \in Proc : q # p => client'[q] = client[q]
      BY <1>5 DEF Dial
    <2>3. \A q \in Proc, k \in Key : q # p => (Uses(q, k)' <=> Uses(q, k))
      BY <2>1, <2>2 DEF Uses
    <2>4. \E k \in Key : Uses(p, k)'
      BY <2>1 DEF Uses
    <2>5. Running' = Running \cup {p}
      BY <2>3, <2>4 DEF Running
    <2>6. QED
      BY <2>1, <2>5 DEF Clients!Open
  <1>6. ASSUME NEW p \in Proc, pc[p] # "stopping", client' = [client EXCEPT ![p] = NoKey],
               \A q \in Proc, k \in Key : q # p => (<<q, k>> \in fading' <=> <<q, k>> \in fading),
               \A k \in Key : <<p, k>> \notin fading'
        PROVE  Running' = Running \ {p}
    BY <1>1, <1>6 DEF Running, Uses
  <1>7. ASSUME NEW p \in Proc, RunFails(p) \/ Crash(p) PROVE Clients!Drop(p)
    <2>1. CASE RunFails(p)
      <3>1. Running' = Running \ {p}
        BY <1>2, <1>6, <2>1 DEF RunFails
      <3>2. QED
        BY <2>1, <3>1 DEF RunFails, Clients!Drop
    <2>2. CASE Crash(p)
      <3>1. \A q \in Proc, k \in Key : Uses(q, k)' <=> (q # p /\ Uses(q, k))
        BY <1>1, <2>2 DEF Crash, Uses
      <3>2. Running' = Running \ {p}
        BY <3>1 DEF Running
      <3>3. QED
        BY <2>2, <3>2 DEF Crash, Clients!Drop
    <2>3. QED
      BY <1>7, <2>1, <2>2
  <1>8. ASSUME NEW p \in Proc, Die(p) PROVE Clients!Close(p)
    <2>1. Running' = Running \ {p}
      BY <1>2, <1>6, <1>8 DEF Die
    <2>2. QED
      BY <1>8, <2>1 DEF Die, Clients!Close
  <1>9. ASSUME NEW p \in Proc, NEW k \in Key, Fade(p, k)
        PROVE  Clients!Close(p) \/ UNCHANGED <<held, Running>>
    <2>1. \A q \in Proc, j \in Key : Uses(q, j)' => Uses(q, j)
      BY <1>9 DEF Fade, Uses
    <2>2. \A q \in Proc, j \in Key : q # p /\ Uses(q, j) => Uses(q, j)'
      BY <1>9 DEF Fade, Uses
    <2>3. Running' = Running \/ Running' = Running \ {p}
      BY <2>1, <2>2 DEF Running
    <2>4. QED
      BY <1>9, <2>3 DEF Fade, Clients!Close
  <1>10. ASSUME NEW p \in Proc, Disconnect(p) PROVE UNCHANGED <<held, Running>>
    <2>1. \A q \in Proc, k \in Key : Uses(q, k)' <=> Uses(q, k)
      BY <1>1, <1>2, <1>10 DEF Disconnect, Cancelled, Uses
    <2>2. QED
      BY <1>10, <2>1 DEF Disconnect, Running
  <1>11. ASSUME NEW p \in Proc, Disconnected(p) PROVE Clients!Release(p)
    <2>1. \A k \in Key : ~Uses(p, k)
      BY <1>1, <1>11 DEF Disconnected, Uses
    <2>2. \A q \in Proc, k \in Key : Uses(q, k)' <=> Uses(q, k)
      BY <2>1, <1>11 DEF Disconnected, Survivors, Uses
    <2>3. QED
      BY <1>11, <2>1, <2>2 DEF Disconnected, Clients!Release, Running
  <1>12. ASSUME NEW p \in Proc, RemoveFile(p) PROVE UNCHANGED <<held, Running>>
    <2>1. \A q \in Proc, k \in Key : Uses(q, k)' <=> Uses(q, k)
      BY <1>2, <1>12 DEF RemoveFile, Uses
    <2>2. QED
      BY <1>12, <2>1 DEF RemoveFile, Running
  <1>13. ASSUME NEW p \in Proc,
               \/ Start(p) \/ SaveSeed(p) \/ Refused(p) \/ RecordPid(p) \/ Store(p) \/ Ready(p)
               \/ SignIn(p) \/ LogOut(p)
        PROVE  UNCHANGED <<held, Running>>
    <2>1. UNCHANGED <<held, client, fading>>
      BY <1>13 DEF Start, Prepared, SaveSeed, Refused, RecordPid, Store, Ready, SignIn, LogOut
    <2>2. QED
      BY <1>3, <2>1
  <1>14. CASE UNCHANGED vars
    BY <1>3, <1>14 DEF vars
  <1>15. ASSUME NEW p \in Proc PROVE ~ConnectDeadline(p)
    BY DEF ConnectDeadline
  <1>16. QED
    BY <1>4, <1>5, <1>7, <1>8, <1>9, <1>10, <1>11, <1>12, <1>13, <1>14, <1>15, OneRuns DEF Next, Step

\* When Connect and Disconnect always wait for the client, the claim covers every
\* client until it has stopped, whatever crashes.
THEOREM ClientsKeepToTheClaim == ASSUME ~Deadlines PROVE Spec => ClientsClaim
<1>1. Init => Clients!Init
  BY SessionAssumption DEF Init, Clients!Init, Running, Uses, Key, NoKey
<1>2. ClaimInv /\ [Next]_vars => [Clients!Next]_<<held, Running>>
  BY ClientStep
<1>3. QED
  BY <1>1, <1>2, ClaimInitially, ClaimStep, PTL DEF Spec, ClientsClaim, Clients!Spec

-----------------------------------------------------------------------------
\* The setting of the last theorem: no deadline, no seed, no `auth --session-string`,
\* and nobody logs out of a session that servers share.
Plain ==
  /\ ~Deadlines
  /\ Seeded = {}
  /\ \A p \in Proc : Program[p] # "adopt"
  /\ Shared = {} \/ \A p \in Proc : Program[p] # "logout"

\* A process that uses a key holds the claim.
LEMMA UserHolds ==
  ASSUME ClaimInv, ~Deadlines, NEW p \in Proc, NEW k \in Key, Uses(p, k)
  PROVE  p \in held /\ (<<p, k>> \in fading => pc[p] = "stopping")
  <1>1. k # NoKey
    BY SessionAssumption DEF Key, NoKey
  <1>2. <<p, k>> \in fading => pc[p] = "stopping"
    BY DEF ClaimInv, WaitedFor
  <1>3. QED
    BY <1>1, <1>2 DEF Uses, ClaimInv, HolderPhase, ClientPhase, Claiming

\* A process uses one key.
LEMMA OneKey ==
  ASSUME ClaimInv, OneCancelled, ~Deadlines,
         NEW p \in Proc, NEW k \in Key, NEW j \in Key, Uses(p, k), Uses(p, j)
  PROVE  k = j
  <1>1. k # NoKey /\ j # NoKey
    BY SessionAssumption DEF Key, NoKey
  <1>2. client[p] # NoKey => pc[p] # "stopping"
    BY DEF ClaimInv, ClientPhase
  <1>3. CASE client[p] # NoKey
    BY <1>2, <1>3, UserHolds DEF Uses
  <1>4. CASE client[p] = NoKey
    <2>1. <<p, k>> \in fading /\ <<p, j>> \in fading
      BY <1>1, <1>4 DEF Uses
    <2>2. <<p, k>>[1] = <<p, j>>[1]
      OBVIOUS
    <2>3. <<p, k>> = <<p, j>>
      BY <2>1, <2>2 DEF OneCancelled
    <2>4. QED
      BY <2>3
  <1>5. QED
    BY <1>3, <1>4

\* An exclusive claim leaves one user of one key.
LEMMA OnlyUser ==
  ASSUME ClaimInv, OneCancelled, ~Deadlines, NEW p \in Proc, p \notin Shared,
         NEW q \in Proc, NEW k \in Key, NEW j \in Key, Uses(p, k), Uses(q, j)
  PROVE  p = q /\ k = j
  <1>1. p = q
    BY UserHolds DEF ClaimInv, SharersOnly
  <1>2. QED
    BY <1>1, OneKey

\* At most one client of a process is being waited for.
LEMMA CancelledStep ==
  ASSUME ClaimInv, OneCancelled, Plain, [Next]_vars
  PROVE  OneCancelled'
  <1> USE DEF Plain
  <1>1. ASSUME fading' \subseteq fading PROVE OneCancelled'
    BY <1>1 DEF OneCancelled
  <1>2. ASSUME NEW p \in Proc, Disconnect(p) PROVE OneCancelled'
    <2>1. \A c \in fading : c[1] # p
      BY <1>2 DEF Disconnect, ClaimInv, WaitedFor
    <2>2. \A c \in fading' : c \in fading \/ c = <<p, client[p]>>
      BY <1>2 DEF Disconnect, Cancelled
    <2>3. QED
      BY <2>1, <2>2 DEF OneCancelled
  <1>3. (\E p \in Proc : Disconnect(p)) \/ fading' \subseteq fading
    BY SurvivorsArePart DEF Next, Step, vars, Start, Prepared, SaveSeed, Claim, Refused, RecordPid, Dial,
       Store, Ready, RunFails, ConnectDeadline, Fade, Disconnected, RemoveFile, Die, SignIn,
       LogOut, Crash
  <1>4. QED
    BY <1>1, <1>2, <1>3

\* Where nothing is dialed, nobody comes to use another key.
LEMMA UsesStep ==
  ASSUME ClaimInv, [Next]_vars, \A p \in Proc : ~Dial(p)
  PROVE  \A q \in Proc, k \in Key : Uses(q, k)' => Uses(q, k)
  <1> USE DEF ClaimInv, TypeOK
  <1>1. NoKey \notin Key
    BY SessionAssumption DEF Key, NoKey
  <1>2. ASSUME NEW p \in Proc,
               client' = client \/ client' = [client EXCEPT ![p] = NoKey],
               fading' \subseteq Cancelled(p)
        PROVE  \A q \in Proc, k \in Key : Uses(q, k)' => Uses(q, k)
    BY <1>1, <1>2 DEF Cancelled, Uses
  <1>3. ASSUME NEW p \in Proc, Start(p) \/ Step(p) \/ Store(p) \/ Die(p) \/ SignIn(p) \/ LogOut(p)
                               \/ Disconnect(p) \/ Crash(p)
        PROVE  \A q \in Proc, k \in Key : Uses(q, k)' => Uses(q, k)
    <2>1. client' = client \/ client' = [client EXCEPT ![p] = NoKey]
      BY <1>3 DEF Step, Start, Prepared, SaveSeed, Claim, Refused, RecordPid, Store, Ready, RunFails,
         ConnectDeadline, Fade, Disconnected, RemoveFile, Die, SignIn, LogOut, Disconnect, Crash
    <2>2. /\ Survivors(p, fading) \subseteq fading
          /\ Survivors(p, Cancelled(p)) \subseteq Cancelled(p)
          /\ fading \subseteq Cancelled(p)
      BY SurvivorsArePart DEF Cancelled
    <2>3. CASE ConnectDeadline(p) \/ Disconnect(p) \/ Disconnected(p)
      BY <1>2, <2>1, <2>2, <2>3 DEF ConnectDeadline, Disconnect, Disconnected
    <2>4. CASE ~ConnectDeadline(p) /\ ~Disconnect(p) /\ ~Disconnected(p)
      <3>1. fading' \subseteq fading
        BY <1>3, <2>4 DEF Step, Start, Prepared, SaveSeed, Claim, Refused, RecordPid, Store, Ready,
           RunFails, Fade, RemoveFile, Die, SignIn, LogOut, Crash
      <3>2. QED
        BY <1>2, <2>1, <2>2, <3>1
    <2>5. QED
      BY <2>3, <2>4
  <1>4. CASE UNCHANGED vars
    BY <1>4 DEF vars, Uses
  <1>5. QED
    BY <1>3, <1>4 DEF Next

\* The signed-in session in the file stays the one in use.
LEMMA FileStep ==
  ASSUME AccountInv, Plain, [Next]_vars
  PROVE  SignedInUse' /\ SharersFollow' /\ KnownKeys'
  <1> USE DEF AccountInv, Plain
  <1> DEFINE Goal == SignedInUse' /\ SharersFollow' /\ KnownKeys'
  <1>1. /\ Absent \notin Key /\ Empty \notin Key /\ NoKey \notin Key
        /\ authorized \subseteq Key /\ minted \in Nat /\ Key \subseteq Nat
    BY SessionAssumption DEF Key, Absent, Empty, NoKey, ClaimInv, TypeOK
  <1>2. ASSUME \A q \in Proc, k \in Key : Uses(q, k)' => Uses(q, k),
               authorized' \subseteq authorized, minted' = minted,
               file' = file \/ file' \notin Key,
               Shared = {} \/ file' = file \/ file \notin Key
        PROVE  Goal
    <2>1. SignedInUse'
      BY <1>1, <1>2 DEF SignedInUse
    <2>2. SharersFollow'
      BY <1>1, <1>2, SessionAssumption DEF SharersFollow
    <2>3. KnownKeys'
      BY <1>1, <1>2 DEF KnownKeys
    <2>4. QED
      BY <2>1, <2>2, <2>3
  <1>3. ASSUME NEW p \in Proc, Dial(p) PROVE Goal
    <2>1. UNCHANGED <<file, fading, authorized>> /\ client = [q \in Proc |-> client[q]]
      BY <1>3 DEF Dial, ClaimInv, TypeOK
    <2>2. \A q \in Proc, k \in Key : Uses(q, k)' => Uses(q, k) \/ (q = p /\ k = client'[p])
      BY <1>3, <2>1 DEF Dial, Uses
    <2>3. CASE file \in Key
      <3>1. client'[p] = file /\ minted' = minted
        BY <1>3, <2>1, <2>3 DEF Dial
      <3>2. SignedInUse'
        BY <2>1, <2>2, <3>1 DEF SignedInUse
      <3>3. SharersFollow'
        BY <2>1, <2>2, <3>1, SessionAssumption DEF SharersFollow
      <3>4. KnownKeys'
        BY <2>1, <2>2, <2>3, <3>1 DEF KnownKeys
      <3>5. QED
        BY <3>2, <3>3, <3>4
    <2>4. CASE file \notin Key
      <3>1. client'[p] = minted + 1 /\ minted' = minted + 1
        BY <1>3, <2>1, <2>4 DEF Dial
      <3>2. SignedInUse'
        BY <1>1, <2>1, <2>4 DEF SignedInUse
      <3>3. \A k \in Key : k \in authorized => k <= minted
        BY DEF KnownKeys
      <3>4. SharersFollow'
        BY <1>1, <2>1, <2>2, <2>4, <3>1, <3>3, SessionAssumption DEF SharersFollow
      <3>5. KnownKeys'
        BY <1>1, <2>1, <2>2, <3>1 DEF KnownKeys
      <3>6. QED
        BY <3>2, <3>4, <3>5
    <2>5. QED
      BY <2>3, <2>4
  <1>4. ASSUME NEW p \in Proc, Store(p) PROVE Goal
    <2>1. /\ Uses(p, file') /\ file' \in Key
          /\ UNCHANGED <<authorized, minted>>
          /\ \A q \in Proc, k \in Key : Uses(q, k)' => Uses(q, k)
      BY <1>1, <1>4 DEF Store, Uses, ClaimInv, TypeOK
    <2>2. KnownKeys'
      BY <2>1 DEF KnownKeys
    <2>3. CASE p \notin Shared
      <3>1. \A q \in Proc, k \in Key : Uses(q, k) => q = p /\ k = file'
        BY <2>1, <2>3, OnlyUser
      <3>2. SignedInUse' /\ SharersFollow'
        BY <2>1, <2>3, <3>1, SessionAssumption DEF SignedInUse, SharersFollow
      <3>3. QED
        BY <2>2, <3>2
    <2>4. CASE p \in Shared /\ file' \in authorized
      BY <1>2, <2>1, <2>4 DEF SharersFollow
    <2>5. CASE p \in Shared /\ file' \notin authorized
      <3>1. SignedInUse'
        BY <2>1, <2>5 DEF SignedInUse
      <3>2. \A q \in Shared, k \in Key : Uses(q, k) => k \notin authorized
        BY <2>1, <2>5, SessionAssumption DEF SignedInUse, SharersFollow
      <3>3. SharersFollow'
        BY <2>1, <3>2, SessionAssumption DEF SharersFollow
      <3>4. QED
        BY <2>2, <3>1, <3>3
    <2>6. QED
      BY <2>3, <2>4, <2>5
  <1>5. ASSUME NEW p \in Proc, SignIn(p) PROVE Goal
    <2>1. p \notin Shared /\ client[p] \in Key /\ Uses(p, client[p])
      BY <1>5, SessionAssumption DEF SignIn, Uses, ClaimInv, TypeOK
    <2>2. \A q \in Proc, k \in Key : Uses(q, k) => q = p /\ k = client[p]
      BY <2>1, OnlyUser
    <2>3. /\ UNCHANGED <<file, minted>> /\ authorized' = authorized \cup {client[p]}
          /\ \A q \in Proc, k \in Key : Uses(q, k)' => Uses(q, k)
      BY <1>5 DEF SignIn, Uses
    <2>4. SignedInUse'
      BY <2>2, <2>3 DEF SignedInUse
    <2>5. SharersFollow'
      BY <2>1, <2>2, <2>3, SessionAssumption DEF SharersFollow
    <2>6. KnownKeys'
      BY <2>1, <2>3 DEF KnownKeys
    <2>7. QED
      BY <2>4, <2>5, <2>6
  <1>6. ASSUME NEW p \in Proc, LogOut(p) \/ RemoveFile(p) PROVE Goal
    <2>1. Program[p] = "logout"
      BY <1>6 DEF LogOut, RemoveFile, RemovesLast
    <2>2. Shared = {}
      BY <2>1
    <2>3. authorized' \subseteq authorized /\ minted' = minted /\ file' = Absent
      BY <1>6 DEF LogOut, RemoveFile
    <2>4. \A q \in Proc : ~Dial(q)
      BY <1>1, <1>6, <2>3 DEF Dial, LogOut, RemoveFile, ClaimInv, TypeOK
    <2>5. QED
      BY <1>1, <1>2, <2>2, <2>3, <2>4, UsesStep
  <1>7. ASSUME NEW p \in Proc, Start(p) PROVE Goal
    <2>1. authorized' = authorized /\ minted' = minted /\ client' = client /\ fading' = fading
      BY <1>7 DEF Start, Prepared
    <2>2. file' = file \/ (file' = Empty /\ file = Absent)
      BY <1>7 DEF Start, Prepared
    <2>3. \A q \in Proc, k \in Key : Uses(q, k)' => Uses(q, k)
      BY <2>1 DEF Uses
    <2>4. QED
      BY <1>1, <1>2, <2>1, <2>2, <2>3
  <1>8. ASSUME UNCHANGED <<file, authorized, minted>>, \A p \in Proc : ~Dial(p) PROVE Goal
    BY <1>2, <1>8, UsesStep
  <1>9. \/ \E p \in Proc : \/ Dial(p) \/ Store(p) \/ SignIn(p) \/ LogOut(p) \/ RemoveFile(p)
                           \/ Start(p) \/ SaveSeed(p)
        \/ UNCHANGED <<file, authorized, minted>>
    BY DEF Next, Step, vars, Claim, Refused, RecordPid, Ready, RunFails, ConnectDeadline, Fade,
       Disconnected, Die, Disconnect, Crash
  <1>10. ASSUME NEW p \in Proc PROVE ~SaveSeed(p)
    BY DEF SaveSeed, NobodySeeds
  <1>11. QED
    BY <1>3, <1>4, <1>5, <1>6, <1>7, <1>8, <1>9, <1>10

\* The two facts about phases.
LEMMA PlainPhases ==
  ASSUME AccountInv, Plain, [Next]_vars
  PROVE  NobodySeeds' /\ RemovesLast'
  <1> USE DEF AccountInv, ClaimInv, TypeOK, Plain, NobodySeeds, RemovesLast, Goto, Afterwards
  <1>1. ASSUME NEW p \in Proc, Start(p) PROVE NobodySeeds' /\ RemovesLast'
    BY <1>1 DEF Start, Prepared
  <1>2. ASSUME NEW p \in Proc, Step(p) PROVE NobodySeeds' /\ RemovesLast'
    BY <1>2 DEF Step, SaveSeed, Claim, Refused, RecordPid, Dial, Ready, RunFails,
       ConnectDeadline, Fade, Disconnected, RemoveFile
  <1>3. ASSUME NEW p \in Proc,
               Store(p) \/ Die(p) \/ SignIn(p) \/ LogOut(p) \/ Disconnect(p) \/ Crash(p)
        PROVE  NobodySeeds' /\ RemovesLast'
    BY <1>3 DEF Store, Die, SignIn, LogOut, Disconnect, Crash
  <1>4. CASE UNCHANGED vars
    BY <1>4 DEF vars
  <1>5. QED
    BY <1>1, <1>2, <1>3, <1>4 DEF Next

\* A step that takes a signed-in session out of the file is the logout command
\* on its way out.
LEMMA KeptStep ==
  ASSUME AccountInv, Plain, [Next]_vars, AccountLost
  PROVE  \E p \in Proc : Program[p] \in {"adopt", "logout"} /\ pc'[p] # pc[p]
  <1> USE DEF AccountInv, Plain, AccountLost
  <1>1. file \in Key /\ Absent \notin Key /\ NoKey \notin Key
    BY SessionAssumption DEF ClaimInv, TypeOK, Key, Absent, NoKey
  <1>2. ASSUME NEW p \in Proc, RemoveFile(p)
        PROVE  Program[p] \in {"adopt", "logout"} /\ pc'[p] # pc[p]
    BY <1>2 DEF RemoveFile, Goto, RemovesLast, ClaimInv, TypeOK
  <1>3. ASSUME NEW p \in Proc, Store(p) PROVE FALSE
    BY <1>1, <1>3 DEF Store, SignedInUse, Uses, ClaimInv, TypeOK
  <1>4. ASSUME NEW p \in Proc, LogOut(p) PROVE FALSE
    <2>1. client[p] = file
      BY <1>1, <1>4 DEF LogOut, SignedInUse, Uses, ClaimInv, TypeOK
    <2>2. QED
      BY <1>4, <2>1 DEF LogOut
  <1>5. ASSUME NEW p \in Proc, Start(p) PROVE FALSE
    BY <1>1, <1>5 DEF Start, Prepared
  <1>6. ASSUME NEW p \in Proc PROVE ~SaveSeed(p)
    BY DEF SaveSeed, NobodySeeds
  <1>7. (\E p \in Proc : \/ RemoveFile(p) \/ Store(p) \/ LogOut(p) \/ Start(p)) \/ file' = file
    BY <1>6 DEF Next, Step, vars, Claim, Refused, RecordPid, Dial, Ready, RunFails,
       ConnectDeadline, Fade, Disconnected, Die, SignIn, Disconnect, Crash
  <1>8. QED
    BY <1>2, <1>3, <1>4, <1>5, <1>7

\* Whatever a server or the auth command starts with is known and uncontested.
LEMMA AccountInitially == Init => AccountInv
  <1> SUFFICES ASSUME Init PROVE AccountInv
    OBVIOUS
  <1>1. \A p \in Proc, k \in Key : ~Uses(p, k)
    BY SessionAssumption DEF Init, Uses, Key, NoKey
  <1>2. KnownKeys
    BY <1>1, SessionAssumption DEF Init, KnownKeys, Key, Seed, Absent
  <1>3. SignedInUse /\ SharersFollow
    BY <1>1, SessionAssumption DEF SignedInUse, SharersFollow
  <1>4. OneCancelled /\ NobodySeeds /\ RemovesLast
    BY DEF Init, OneCancelled, NobodySeeds, RemovesLast
  <1>5. QED
    BY <1>2, <1>3, <1>4, ClaimInitially DEF AccountInv

\* Nothing but the logout command takes a signed-in session out of its file, in
\* any interleaving of any number of servers, sign-ins, logouts and crashes, and
\* of servers that share one session with sign-ins in between.
THEOREM AccountsAreKept == ASSUME Plain PROVE Spec => AccountKept
<1>1. AccountInv /\ [Next]_vars => AccountInv'
  <2>1. AccountInv /\ [Next]_vars => ClaimInv'
    BY ClaimStep DEF AccountInv
  <2>2. AccountInv /\ [Next]_vars =>
          SignedInUse' /\ SharersFollow' /\ KnownKeys' /\ OneCancelled' /\ NobodySeeds' /\ RemovesLast'
    BY FileStep, CancelledStep, PlainPhases DEF AccountInv
  <2>3. QED
    BY <2>1, <2>2 DEF AccountInv
<1>2. AccountInv /\ [Next]_vars => [AccountLost =>
        \E p \in Proc : Program[p] \in {"adopt", "logout"} /\ pc'[p] # pc[p]]_vars
  BY KeptStep
<1>3. QED
  BY AccountInitially, <1>1, <1>2, PTL DEF Spec, AccountKept
=============================================================================
