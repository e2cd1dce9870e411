---------------------------- MODULE ServerProofs ----------------------------
(***************************************************************************)
(* Theorems about Server for any number of concurrent tool calls, backends *)
(* and commands of the operator, with machine-checked proofs.              *)
(***************************************************************************)
EXTENDS Server, TLAPS

\* A server starts in its type.
LEMMA ServerInitType == Init => TypeOK
  <1> SUFFICES ASSUME Init PROVE TypeOK
    OBVIOUS
  <1> USE ServerAssumption DEF Init, Thread
  <1>1. saved \in {"none", "bot", "user"} /\ settings \in {"none", "bot", "user"}
    BY DEF Described
  <1>2. {session, signedIn, reachable, configured, pendingAuth, connecting} \subseteq BOOLEAN
    OBVIOUS
  <1>3. /\ life \in [Backend -> {"fresh", "dialing", "up"}]
        /\ kind \in [Backend -> {"bot", "user"}]
        /\ holders \subseteq Backend
    OBVIOUS
  <1>4. /\ pc \in [Thread -> {"idle", "connect"}]
        /\ mine \in [Thread -> {NoBackend}]
        /\ want \in [Thread -> {"none"}]
    OBVIOUS
  <1>5. QED
    BY <1>1, <1>2, <1>3, <1>4 DEF TypeOK, HasBackend

\* Every step keeps every variable in its type, and a goroutine's backend with its phase.
LEMMA ServerTypeStep ==
  ASSUME TypeOK, [Next]_vars
  PROVE  TypeOK'
  <1> USE ServerAssumption DEF Thread, credentials, world, state, backends, Goto, TypeOK, HasBackend, Described
  <1>1. ASSUME NEW t \in Thread, NothingToConnect(t) PROVE TypeOK'
    BY <1>1 DEF NothingToConnect, Done
  <1>2. ASSUME NEW t \in Thread, NEW b \in Backend, NewBackend(t, b) PROVE TypeOK'
    BY <1>2 DEF NewBackend
  <1>3. ASSUME NEW t \in Thread, Claim(t) PROVE TypeOK'
    BY <1>3 DEF Claim, Claimable
  <1>4. ASSUME NEW t \in Thread, Refused(t) PROVE TypeOK'
    BY <1>4 DEF Refused, Failed, Discard
  <1>5. ASSUME NEW t \in Thread, DialFails(t) PROVE TypeOK'
    BY <1>5 DEF DialFails, Failed, Discard
  <1>6. ASSUME NEW t \in Thread, DialUp(t) PROVE TypeOK'
    BY <1>6 DEF DialUp
  <1>7. ASSUME NEW t \in Thread, Publish(t) PROVE TypeOK'
    BY <1>7 DEF Publish, Done
  <1>8. CASE LoopEnds
    BY <1>8 DEF LoopEnds
  <1>9. CASE LoopGivesUp
    BY <1>9 DEF LoopGivesUp
  <1>10. CASE LoopRetries
    BY <1>10 DEF LoopRetries
  <1>11. ASSUME NEW t \in Thread, Reload(t) PROVE TypeOK'
    BY <1>11 DEF Reload
  <1>12. ASSUME NEW t \in Thread, TakeOut(t) PROVE TypeOK'
    BY <1>12 DEF TakeOut
  <1>13. ASSUME NEW t \in Thread, Disconnect(t) PROVE TypeOK'
    BY <1>13 DEF Disconnect, Discard
  <1>14. ASSUME NEW t \in Thread, Apply(t) PROVE TypeOK'
    BY <1>14 DEF Apply
  <1>15. ASSUME NEW t \in Thread, ClearStore(t) PROVE TypeOK'
    BY <1>15 DEF ClearStore
  <1>16. ASSUME NEW t \in Thread, ClearFlag(t) PROVE TypeOK'
    BY <1>16 DEF ClearFlag
  <1>17. CASE AuthBot
    BY <1>17 DEF AuthBot
  <1>18. CASE AuthPhone \/ SignIn \/ CodeFails
    BY <1>18 DEF AuthPhone, Visit, SignIn, CodeFails, VisitorsOnly
  <1>19. CASE LogOut \/ Revoke \/ Forget
    BY <1>19 DEF LogOut, Visit, Revoke, Forget, VisitorsOnly
  <1>20. CASE Outage
    BY <1>20 DEF Outage
  <1>21. CASE Recover
    BY <1>21 DEF Recover
  <1>22. CASE UNCHANGED vars
    BY <1>22 DEF vars, credentials, world, state, backends
  <1>23. QED
    BY <1>1, <1>2, <1>3, <1>4, <1>5, <1>6, <1>7, <1>8, <1>9, <1>10, <1>11, <1>12,
       <1>13, <1>14, <1>15, <1>16, <1>17, <1>18, <1>19, <1>20, <1>21, <1>22
       DEF Next, LoopStep, CallStep, Connect, Thread

\* The locked fields, the store and the backends keep the types of their
\* declarations, and a goroutine has a backend exactly while it works on one.
THEOREM ServerTypeCorrect == Spec => []TypeOK
<1>1. QED
  BY ServerInitType, ServerTypeStep, PTL DEF Spec

\* A backend changes hands in one step, and only when it is ready to.
LEMMA OwnerStep ==
  ASSUME OwnerInv, [Next]_vars
  PROVE  OneOwner' /\ OwnedLife'
  <1> USE ServerAssumption DEF Thread, credentials, world, state, backends, Goto, OwnerInv, TypeOK, HasBackend, OneOwner, OwnedLife
  <1>1. ASSUME NEW t \in Thread, NothingToConnect(t) PROVE OneOwner' /\ OwnedLife'
    BY <1>1 DEF NothingToConnect, Done
  <1>2. ASSUME NEW t \in Thread, NEW b \in Backend, NewBackend(t, b) PROVE OneOwner' /\ OwnedLife'
    BY <1>2 DEF NewBackend
  <1>3. ASSUME NEW t \in Thread, Claim(t) PROVE OneOwner' /\ OwnedLife'
    BY <1>3 DEF Claim, Claimable
  <1>4. ASSUME NEW t \in Thread, Refused(t) PROVE OneOwner' /\ OwnedLife'
    BY <1>4 DEF Refused, Failed, Discard
  <1>5. ASSUME NEW t \in Thread, DialFails(t) PROVE OneOwner' /\ OwnedLife'
    BY <1>5 DEF DialFails, Failed, Discard
  <1>6. ASSUME NEW t \in Thread, DialUp(t) PROVE OneOwner' /\ OwnedLife'
    BY <1>6 DEF DialUp
  <1>7. ASSUME NEW t \in Thread, Publish(t) PROVE OneOwner' /\ OwnedLife'
    BY <1>7 DEF Publish, Done
  <1>8. CASE LoopEnds
    BY <1>8 DEF LoopEnds
  <1>9. CASE LoopGivesUp
    BY <1>9 DEF LoopGivesUp
  <1>10. CASE LoopRetries
    BY <1>10 DEF LoopRetries
  <1>11. ASSUME NEW t \in Thread, Reload(t) PROVE OneOwner' /\ OwnedLife'
    BY <1>11 DEF Reload
  <1>12. ASSUME NEW t \in Thread, TakeOut(t) PROVE OneOwner' /\ OwnedLife'
    BY <1>12 DEF TakeOut
  <1>13. ASSUME NEW t \in Thread, Disconnect(t) PROVE OneOwner' /\ OwnedLife'
    BY <1>13 DEF Disconnect, Discard
  <1>14. ASSUME NEW t \in Thread, Apply(t) PROVE OneOwner' /\ OwnedLife'
    BY <1>14 DEF Apply
  <1>15. ASSUME NEW t \in Thread, ClearStore(t) PROVE OneOwner' /\ OwnedLife'
    BY <1>15 DEF ClearStore
  <1>16. ASSUME NEW t \in Thread, ClearFlag(t) PROVE OneOwner' /\ OwnedLife'
    BY <1>16 DEF ClearFlag
  <1>17. CASE AuthBot
    BY <1>17 DEF AuthBot
  <1>18. CASE AuthPhone \/ SignIn \/ CodeFails
    <2>1. UNCHANGED <<backends, published, pc, mine>>
      BY <1>18 DEF AuthPhone, Visit, SignIn, CodeFails, VisitorsOnly
    <2>2. QED
      BY <2>1
  <1>19. CASE LogOut \/ Revoke \/ Forget
    <2>1. UNCHANGED <<backends, published, pc, mine>>
      BY <1>19 DEF LogOut, Visit, Revoke, Forget, VisitorsOnly
    <2>2. QED
      BY <2>1
  <1>20. CASE Outage
    BY <1>20 DEF Outage
  <1>21. CASE Recover
    BY <1>21 DEF Recover
  <1>22. CASE UNCHANGED vars
    BY <1>22 DEF vars, credentials, world, state, backends
  <1>23. QED
    BY <1>1, <1>2, <1>3, <1>4, <1>5, <1>6, <1>7, <1>8, <1>9, <1>10, <1>11, <1>12,
       <1>13, <1>14, <1>15, <1>16, <1>17, <1>18, <1>19, <1>20, <1>21, <1>22
       DEF Next, LoopStep, CallStep, Connect, Thread

\* Nobody owns anything at the start.
LEMMA OwnerInit == Init => OwnerInv
  <1>1. Init => OneOwner /\ OwnedLife
    BY ServerAssumption DEF Init, OneOwner, OwnedLife, Thread
  <1>2. QED
    BY <1>1, ServerInitType DEF OwnerInv

\* A published backend is connected, and nobody is disconnecting it: whatever
\* number of refreshes race with each other and with the connect loop.
THEOREM PublishedStaysUp == Spec => []PublishedIsUp
<1>1. OwnerInv /\ [Next]_vars => OwnerInv'
  BY ServerTypeStep, OwnerStep DEF OwnerInv
<1>2. OwnerInv => PublishedIsUp
  BY DEF OwnerInv, OneOwner, OwnedLife, PublishedIsUp
<1>3. QED
  BY <1>1, <1>2, OwnerInit, PTL DEF Spec

\* A loop ends together with `connecting`, and nobody sets that again.
LEMMA LoopEndedStep ==
  ASSUME TypeOK, LoopEnded, [Next]_vars
  PROVE  LoopEnded'
  <1> USE ServerAssumption DEF Thread, credentials, world, state, backends, Goto, TypeOK, LoopEnded
  <1>1. ASSUME NEW t \in Thread, Connect(t) PROVE LoopEnded'
    <2>1. connecting' = connecting
      BY <1>1 DEF Connect, NothingToConnect, NewBackend, Claim, Refused, DialFails, Failed,
                  Discard, DialUp, Publish
    <2>2. pc'[Loop] = "done" => pc[Loop] = "done"
      BY <1>1 DEF Connect, NothingToConnect, NewBackend, Claim, Refused, DialFails, Failed,
                  Discard, DialUp, Publish, Done
    <2>3. QED
      BY <2>1, <2>2
  <1>2. CASE LoopEnds \/ LoopGivesUp \/ LoopRetries
    BY <1>2 DEF LoopEnds, LoopGivesUp, LoopRetries
  <1>3. ASSUME NEW c \in Caller, Reload(c) \/ TakeOut(c) \/ Disconnect(c) \/ Apply(c)
                                 \/ ClearStore(c) \/ ClearFlag(c)
        PROVE LoopEnded'
    BY <1>3 DEF Reload, TakeOut, Disconnect, Discard, Apply, ClearStore, ClearFlag
  <1>4. CASE AuthBot \/ AuthPhone \/ SignIn \/ CodeFails
    BY <1>4 DEF AuthBot, AuthPhone, Visit, SignIn, CodeFails, VisitorsOnly
  <1>5. CASE LogOut \/ Revoke \/ Forget \/ Outage \/ Recover
    BY <1>5 DEF LogOut, Visit, Revoke, Forget, VisitorsOnly, Outage, Recover
  <1>6. CASE UNCHANGED vars
    BY <1>6 DEF vars
  <1>7. QED
    BY <1>1, <1>2, <1>3, <1>4, <1>5, <1>6 DEF Next, LoopStep, CallStep

\* "The server keeps retrying" and "still connecting" are said only while there
\* is a loop to wait for.
THEOREM WaitingIsForTheLoop == Spec => []RetryIsReal
<1>1. Init => LoopEnded
  BY DEF Init, LoopEnded, Thread
<1>2. LoopEnded => RetryIsReal
  BY DEF LoopEnded, RetryIsReal, Reply
<1>3. QED
  BY <1>1, <1>2, ServerInitType, ServerTypeStep, LoopEndedStep, PTL DEF Spec

-----------------------------------------------------------------------------
\* The setting of the last theorem: a user account, and the exclusive lock.
UserOnly == ~SharedLock /\ "bot" \notin Mode /\ "bot" \notin Command

\* No bot comes from nowhere.
LEMMA ModeStep ==
  ASSUME ClaimInv, UserOnly, [Next]_vars
  PROVE  OnlyUser'
  <1> USE ServerAssumption DEF Thread, credentials, world, state, backends, Goto, UserOnly, ClaimInv, OwnerInv, TypeOK, HasBackend, OwnedLife, OnlyUser, Described
  <1>1. ASSUME NEW t \in Thread, NothingToConnect(t) PROVE OnlyUser'
    BY <1>1 DEF NothingToConnect, Done
  <1>2. ASSUME NEW t \in Thread, NEW b \in Backend, NewBackend(t, b) PROVE OnlyUser'
    BY <1>2 DEF NewBackend
  <1>3. ASSUME NEW t \in Thread, Claim(t) PROVE OnlyUser'
    BY <1>3 DEF Claim, Claimable
  <1>4. ASSUME NEW t \in Thread, Refused(t) PROVE OnlyUser'
    BY <1>4 DEF Refused, Failed, Discard
  <1>5. ASSUME NEW t \in Thread, DialFails(t) PROVE OnlyUser'
    BY <1>5 DEF DialFails, Failed, Discard
  <1>6. ASSUME NEW t \in Thread, DialUp(t) PROVE OnlyUser'
    BY <1>6 DEF DialUp
  <1>7. ASSUME NEW t \in Thread, Publish(t) PROVE OnlyUser'
    BY <1>7 DEF Publish, Done
  <1>8. CASE LoopEnds
    BY <1>8 DEF LoopEnds
  <1>9. CASE LoopGivesUp
    BY <1>9 DEF LoopGivesUp
  <1>10. CASE LoopRetries
    BY <1>10 DEF LoopRetries
  <1>11. ASSUME NEW t \in Thread, Reload(t) PROVE OnlyUser'
    BY <1>11 DEF Reload
  <1>12. ASSUME NEW t \in Thread, TakeOut(t) PROVE OnlyUser'
    BY <1>12 DEF TakeOut
  <1>13. ASSUME NEW t \in Thread, Disconnect(t) PROVE OnlyUser'
    BY <1>13 DEF Disconnect, Discard
  <1>14. ASSUME NEW t \in Thread, Apply(t) PROVE OnlyUser'
    BY <1>14 DEF Apply
  <1>15. ASSUME NEW t \in Thread, ClearStore(t) PROVE OnlyUser'
    BY <1>15 DEF ClearStore
  <1>16. ASSUME NEW t \in Thread, ClearFlag(t) PROVE OnlyUser'
    BY <1>16 DEF ClearFlag
  <1>17. CASE AuthBot
    BY <1>17 DEF AuthBot
  <1>18. CASE AuthPhone \/ SignIn \/ CodeFails
    BY <1>18 DEF AuthPhone, Visit, SignIn, CodeFails, VisitorsOnly
  <1>19. CASE LogOut \/ Revoke \/ Forget
    BY <1>19 DEF LogOut, Visit, Revoke, Forget, VisitorsOnly
  <1>20. CASE Outage
    BY <1>20 DEF Outage
  <1>21. CASE Recover
    BY <1>21 DEF Recover
  <1>22. CASE UNCHANGED vars
    BY <1>22 DEF vars, credentials, world, state, backends
  <1>23. QED
    BY <1>1, <1>2, <1>3, <1>4, <1>5, <1>6, <1>7, <1>8, <1>9, <1>10, <1>11, <1>12,
       <1>13, <1>14, <1>15, <1>16, <1>17, <1>18, <1>19, <1>20, <1>21, <1>22
       DEF Next, LoopStep, CallStep, Connect, Thread

\* The claim has one holder, and every client that is up or dialing is it.
LEMMA HolderStep ==
  ASSUME ClaimInv, UserOnly, [Next]_vars
  PROVE  UpClaims' /\ DialClaims' /\ OneHolder'
  <1> USE ServerAssumption DEF Thread, credentials, world, state, backends, Goto, UserOnly, ClaimInv, OwnerInv, TypeOK, HasBackend, OneOwner, OwnedLife, OnlyUser, UpClaims, DialClaims, OneHolder
  <1>1. ASSUME NEW t \in Thread, NothingToConnect(t) PROVE UpClaims' /\ DialClaims' /\ OneHolder'
    BY <1>1 DEF NothingToConnect, Done
  <1>2. ASSUME NEW t \in Thread, NEW b \in Backend, NewBackend(t, b) PROVE UpClaims' /\ DialClaims' /\ OneHolder'
    BY <1>2 DEF NewBackend
  <1>3. ASSUME NEW t \in Thread, Claim(t) PROVE UpClaims' /\ DialClaims' /\ OneHolder'
    BY <1>3 DEF Claim, Claimable
  <1>4. ASSUME NEW t \in Thread, Refused(t) PROVE UpClaims' /\ DialClaims' /\ OneHolder'
    BY <1>4 DEF Refused, Failed, Discard
  <1>5. ASSUME NEW t \in Thread, DialFails(t) PROVE UpClaims' /\ DialClaims' /\ OneHolder'
    BY <1>5 DEF DialFails, Failed, Discard
  <1>6. ASSUME NEW t \in Thread, DialUp(t) PROVE UpClaims' /\ DialClaims' /\ OneHolder'
    BY <1>6 DEF DialUp
  <1>7. ASSUME NEW t \in Thread, Publish(t) PROVE UpClaims' /\ DialClaims' /\ OneHolder'
    BY <1>7 DEF Publish, Done
  <1>8. CASE LoopEnds
    BY <1>8 DEF LoopEnds
  <1>9. CASE LoopGivesUp
    BY <1>9 DEF LoopGivesUp
  <1>10. CASE LoopRetries
    BY <1>10 DEF LoopRetries
  <1>11. ASSUME NEW t \in Thread, Reload(t) PROVE UpClaims' /\ DialClaims' /\ OneHolder'
    BY <1>11 DEF Reload
  <1>12. ASSUME NEW t \in Thread, TakeOut(t) PROVE UpClaims' /\ DialClaims' /\ OneHolder'
    BY <1>12 DEF TakeOut
  <1>13. ASSUME NEW t \in Thread, Disconnect(t) PROVE UpClaims' /\ DialClaims' /\ OneHolder'
    BY <1>13 DEF Disconnect, Discard
  <1>14. ASSUME NEW t \in Thread, Apply(t) PROVE UpClaims' /\ DialClaims' /\ OneHolder'
    BY <1>14 DEF Apply
  <1>15. ASSUME NEW t \in Thread, ClearStore(t) PROVE UpClaims' /\ DialClaims' /\ OneHolder'
    BY <1>15 DEF ClearStore
  <1>16. ASSUME NEW t \in Thread, ClearFlag(t) PROVE UpClaims' /\ DialClaims' /\ OneHolder'
    BY <1>16 DEF ClearFlag
  <1>17. CASE AuthBot
    BY <1>17 DEF AuthBot
  <1>18. CASE AuthPhone \/ SignIn \/ CodeFails
    BY <1>18 DEF AuthPhone, Visit, SignIn, CodeFails, VisitorsOnly
  <1>19. CASE LogOut \/ Revoke \/ Forget
    BY <1>19 DEF LogOut, Visit, Revoke, Forget, VisitorsOnly
  <1>20. CASE Outage
    BY <1>20 DEF Outage
  <1>21. CASE Recover
    BY <1>21 DEF Recover
  <1>22. CASE UNCHANGED vars
    BY <1>22 DEF vars, credentials, world, state, backends
  <1>23. QED
    BY <1>1, <1>2, <1>3, <1>4, <1>5, <1>6, <1>7, <1>8, <1>9, <1>10, <1>11, <1>12,
       <1>13, <1>14, <1>15, <1>16, <1>17, <1>18, <1>19, <1>20, <1>21, <1>22
       DEF Next, LoopStep, CallStep, Connect, Thread

\* Publish overwrites nothing: the backend it publishes holds the only claim.
LEMMA OrphanStep ==
  ASSUME ClaimInv, UserOnly, [Next]_vars
  PROVE  NeverOrphans'
  <1> USE ServerAssumption DEF Thread, credentials, world, state, backends, Goto, UserOnly, ClaimInv, OwnerInv, TypeOK, HasBackend, OneOwner, OwnedLife, UpClaims, OneHolder, NeverOrphans
  <1>1. ASSUME NEW t \in Thread, NothingToConnect(t) PROVE NeverOrphans'
    BY <1>1 DEF NothingToConnect, Done
  <1>2. ASSUME NEW t \in Thread, NEW b \in Backend, NewBackend(t, b) PROVE NeverOrphans'
    BY <1>2 DEF NewBackend
  <1>3. ASSUME NEW t \in Thread, Claim(t) PROVE NeverOrphans'
    BY <1>3 DEF Claim, Claimable
  <1>4. ASSUME NEW t \in Thread, Refused(t) PROVE NeverOrphans'
    BY <1>4 DEF Refused, Failed, Discard
  <1>5. ASSUME NEW t \in Thread, DialFails(t) PROVE NeverOrphans'
    BY <1>5 DEF DialFails, Failed, Discard
  <1>6. ASSUME NEW t \in Thread, DialUp(t) PROVE NeverOrphans'
    BY <1>6 DEF DialUp
  <1>7. ASSUME NEW t \in Thread, Publish(t) PROVE NeverOrphans'
    BY <1>7 DEF Publish, Done
  <1>8. CASE LoopEnds
    BY <1>8 DEF LoopEnds
  <1>9. CASE LoopGivesUp
    BY <1>9 DEF LoopGivesUp
  <1>10. CASE LoopRetries
    BY <1>10 DEF LoopRetries
  <1>11. ASSUME NEW t \in Thread, Reload(t) PROVE NeverOrphans'
    BY <1>11 DEF Reload
  <1>12. ASSUME NEW t \in Thread, TakeOut(t) PROVE NeverOrphans'
    BY <1>12 DEF TakeOut
  <1>13. ASSUME NEW t \in Thread, Disconnect(t) PROVE NeverOrphans'
    BY <1>13 DEF Disconnect, Discard
  <1>14. ASSUME NEW t \in Thread, Apply(t) PROVE NeverOrphans'
    BY <1>14 DEF Apply
  <1>15. ASSUME NEW t \in Thread, ClearStore(t) PROVE NeverOrphans'
    BY <1>15 DEF ClearStore
  <1>16. ASSUME NEW t \in Thread, ClearFlag(t) PROVE NeverOrphans'
    BY <1>16 DEF ClearFlag
  <1>17. CASE AuthBot
    BY <1>17 DEF AuthBot
  <1>18. CASE AuthPhone \/ SignIn \/ CodeFails
    <2>1. UNCHANGED <<backends, published, pc, mine>>
      BY <1>18 DEF AuthPhone, Visit, SignIn, CodeFails, VisitorsOnly
    <2>2. QED
      BY <2>1
  <1>19. CASE LogOut \/ Revoke \/ Forget
    <2>1. UNCHANGED <<backends, published, pc, mine>>
      BY <1>19 DEF LogOut, Visit, Revoke, Forget, VisitorsOnly
    <2>2. QED
      BY <2>1
  <1>20. CASE Outage
    BY <1>20 DEF Outage
  <1>21. CASE Recover
    BY <1>21 DEF Recover
  <1>22. CASE UNCHANGED vars
    BY <1>22 DEF vars, credentials, world, state, backends
  <1>23. QED
    BY <1>1, <1>2, <1>3, <1>4, <1>5, <1>6, <1>7, <1>8, <1>9, <1>10, <1>11, <1>12,
       <1>13, <1>14, <1>15, <1>16, <1>17, <1>18, <1>19, <1>20, <1>21, <1>22
       DEF Next, LoopStep, CallStep, Connect, Thread

\* A user-mode server under the exclusive lock never loses a connection, or the
\* claim: every backend that is not spent can still be closed.
THEOREM NoneIsLost == ASSUME UserOnly PROVE Spec => []NeverOrphans
<1>1. Init => ClaimInv
  <2>1. Init => NeverOrphans /\ UpClaims /\ DialClaims /\ OneHolder
    BY ServerAssumption DEF Init, NeverOrphans, UpClaims, DialClaims, OneHolder, Thread
  <2>2. Init => OnlyUser
    BY ServerAssumption DEF Init, OnlyUser, Described, UserOnly
  <2>3. QED
    BY <2>1, <2>2, OwnerInit DEF ClaimInv
<1>2. ClaimInv /\ [Next]_vars => ClaimInv'
  <2> SUFFICES ASSUME ClaimInv, [Next]_vars PROVE ClaimInv'
    OBVIOUS
  <2>1. OwnerInv'
    BY ServerTypeStep, OwnerStep DEF ClaimInv, OwnerInv
  <2>2. QED
    BY <2>1, ModeStep, HolderStep, OrphanStep DEF ClaimInv
<1>3. ClaimInv => NeverOrphans
  BY DEF ClaimInv
<1>4. QED
  BY <1>1, <1>2, <1>3, PTL DEF Spec
-----------------------------------------------------------------------------
\* A user client takes the claim before it dials, and Close gives it up with
\* the client: in every mode, under the exclusive and the shared lock.
LEMMA UserClaimsStep ==
  ASSUME OwnerInv, UserClaims, [Next]_vars
  PROVE  UserClaims'
  <1> USE ServerAssumption DEF Thread, credentials, world, state, backends, Goto, OwnerInv, TypeOK, HasBackend, OneOwner, OwnedLife, UserClaims, OnSession
  <1>1. ASSUME NEW t \in Thread, NothingToConnect(t) PROVE UserClaims'
    BY <1>1 DEF NothingToConnect, Done
  <1>2. ASSUME NEW t \in Thread, NEW b \in Backend, NewBackend(t, b) PROVE UserClaims'
    BY <1>2 DEF NewBackend
  <1>3. ASSUME NEW t \in Thread, Claim(t) PROVE UserClaims'
    BY <1>3 DEF Claim, Claimable
  <1>4. ASSUME NEW t \in Thread, Refused(t) PROVE UserClaims'
    BY <1>4 DEF Refused, Failed, Discard
  <1>5. ASSUME NEW t \in Thread, DialFails(t) PROVE UserClaims'
    BY <1>5 DEF DialFails, Failed, Discard
  <1>6. ASSUME NEW t \in Thread, DialUp(t) PROVE UserClaims'
    BY <1>6 DEF DialUp
  <1>7. ASSUME NEW t \in Thread, Publish(t) PROVE UserClaims'
    BY <1>7 DEF Publish, Done
  <1>8. CASE LoopEnds
    BY <1>8 DEF LoopEnds
  <1>9. CASE LoopGivesUp
    BY <1>9 DEF LoopGivesUp
  <1>10. CASE LoopRetries
    BY <1>10 DEF LoopRetries
  <1>11. ASSUME NEW t \in Thread, Reload(t) PROVE UserClaims'
    BY <1>11 DEF Reload
  <1>12. ASSUME NEW t \in Thread, TakeOut(t) PROVE UserClaims'
    BY <1>12 DEF TakeOut
  <1>13. ASSUME NEW t \in Thread, Disconnect(t) PROVE UserClaims'
    BY <1>13 DEF Disconnect, Discard
  <1>14. ASSUME NEW t \in Thread, Apply(t) PROVE UserClaims'
    BY <1>14 DEF Apply
  <1>15. ASSUME NEW t \in Thread, ClearStore(t) PROVE UserClaims'
    BY <1>15 DEF ClearStore
  <1>16. ASSUME NEW t \in Thread, ClearFlag(t) PROVE UserClaims'
    BY <1>16 DEF ClearFlag
  <1>17. CASE AuthBot
    BY <1>17 DEF AuthBot
  <1>18. CASE AuthPhone \/ SignIn \/ CodeFails
    BY <1>18 DEF AuthPhone, Visit, SignIn, CodeFails, VisitorsOnly
  <1>19. CASE LogOut \/ Revoke \/ Forget
    BY <1>19 DEF LogOut, Visit, Revoke, Forget, VisitorsOnly
  <1>20. CASE Outage
    BY <1>20 DEF Outage
  <1>21. CASE Recover
    BY <1>21 DEF Recover
  <1>22. CASE UNCHANGED vars
    BY <1>22 DEF vars, credentials, world, state, backends
  <1>23. QED
    BY <1>1, <1>2, <1>3, <1>4, <1>5, <1>6, <1>7, <1>8, <1>9, <1>10, <1>11, <1>12,
       <1>13, <1>14, <1>15, <1>16, <1>17, <1>18, <1>19, <1>20, <1>21, <1>22
       DEF Next, LoopStep, CallStep, Connect, Thread

\* A move of one backend is a move of somebody.
LEMMA OneMoves ==
  ASSUME NEW b \in Backend, Session!Acquire(b) \/ Session!Open(b) \/ Session!Drop(b)
  PROVE  Session!Next
  BY DEF Session!Next

\* Backends and claims change hands in the steps that SessionUse has for it.
LEMMA SessionStep ==
  ASSUME OwnerInv, UserClaims, [Next]_vars
  PROVE  [Session!Next]_<<holders, OnSession>>
  <1> USE ServerAssumption DEF Thread, credentials, world, state, backends, OwnerInv, TypeOK, HasBackend, OwnedLife
  <1> DEFINE Goal == [Session!Next]_<<holders, OnSession>>
  <1>1. ASSUME UNCHANGED <<holders, life, kind>> PROVE Goal
    BY <1>1 DEF OnSession
  <1>2. ASSUME NEW t \in Thread, NEW b \in Backend, NewBackend(t, b) PROVE Goal
    <2>1. OnSession' = OnSession /\ holders' = holders
      BY <1>2 DEF NewBackend, OnSession
    <2>2. QED
      BY <2>1
  <1>3. ASSUME NEW t \in Thread, Claim(t) PROVE Goal
    <2>1. Session!Acquire(mine[t]) /\ mine[t] \in Backend
      BY <1>3 DEF Claim, Claimable, Session!Acquire, OnSession
    <2>2. QED
      BY <2>1, OneMoves
  <1>4. ASSUME NEW b \in Backend, Discard(b), UNCHANGED kind PROVE Goal
    <2>1. Session!Drop(b)
      BY <1>4 DEF Discard, Session!Drop, OnSession
    <2>2. QED
      BY <2>1, OneMoves
  <1>5. ASSUME NEW t \in Thread, Refused(t) \/ DialFails(t) PROVE Goal
    <2>1. mine[t] \in Backend /\ Discard(mine[t]) /\ UNCHANGED kind
      BY <1>5 DEF Refused, DialFails, Failed
    <2>2. QED
      BY <1>4, <2>1
  <1>6. ASSUME NEW t \in Thread, Disconnect(t) PROVE Goal
    <2>1. mine[t] \in Backend /\ Discard(mine[t]) /\ UNCHANGED kind
      BY <1>6 DEF Disconnect
    <2>2. QED
      BY <1>4, <2>1
  <1>7. ASSUME NEW t \in Thread, DialUp(t) PROVE Goal
    <2>1. CASE kind[mine[t]] = "user"
      <3>1. Session!Open(mine[t]) /\ mine[t] \in Backend
        BY <1>7, <2>1 DEF DialUp, Session!Open, UserClaims, OnSession
      <3>2. QED
        BY <3>1, OneMoves
    <2>2. CASE kind[mine[t]] # "user"
      <3>1. \A b \in Backend : (life'[b] = "up" /\ kind'[b] = "user") <=> (life[b] = "up" /\ kind[b] = "user")
        BY <1>7, <2>2 DEF DialUp
      <3>2. OnSession' = OnSession /\ holders' = holders
        BY <1>7, <3>1 DEF DialUp, OnSession
      <3>3. QED
        BY <3>2
    <2>3. QED
      BY <2>1, <2>2
  <1>8. ASSUME NEW t \in Thread, \/ NothingToConnect(t) \/ Publish(t) \/ Reload(t) \/ TakeOut(t)
                                 \/ Apply(t) \/ ClearStore(t) \/ ClearFlag(t)
        PROVE  Goal
    BY <1>1, <1>8 DEF NothingToConnect, Publish, Reload, TakeOut, Apply, ClearStore, ClearFlag
  <1>9. CASE \/ LoopEnds \/ LoopGivesUp \/ LoopRetries \/ AuthBot \/ AuthPhone \/ SignIn \/ CodeFails
             \/ LogOut \/ Revoke \/ Forget
    BY <1>1, <1>9 DEF LoopEnds, LoopGivesUp, LoopRetries, AuthBot, AuthPhone, Visit, SignIn,
       CodeFails, LogOut, Revoke, Forget, VisitorsOnly
  <1>10. CASE Outage \/ Recover \/ UNCHANGED vars
    BY <1>1, <1>10 DEF Outage, Recover, vars
  <1>11. QED
    BY <1>2, <1>3, <1>5, <1>6, <1>7, <1>8, <1>9, <1>10 DEF Next, LoopStep, CallStep, Connect

\* The server uses the session as SessionUse says: the guard it puts on a claim,
\* and the places where it gives one up, are what SessionClaim provides.
THEOREM ServerKeepsToTheClaim == Spec => SessionIsClaimed
<1>1. Init => Session!Init /\ OwnerInv /\ UserClaims
  BY OwnerInit, ServerAssumption DEF Init, Session!Init, UserClaims, OnSession, Thread
<1>2. OwnerInv /\ UserClaims /\ [Next]_vars => OwnerInv' /\ UserClaims'
  BY ServerTypeStep, OwnerStep, UserClaimsStep DEF OwnerInv
<1>3. OwnerInv /\ UserClaims /\ [Next]_vars => [Session!Next]_<<holders, OnSession>>
  BY SessionStep
<1>4. QED
  BY <1>1, <1>2, <1>3, PTL DEF Spec, SessionIsClaimed, Session!Spec

\* Whoever keeps to SessionUse is alone on the session or shares it.
LEMMA SessionStaysHeld == Session!Spec => []Session!Held
<1>1. Session!Init => Session!Held
  BY DEF Session!Init, Session!Held
<1>2. Session!Held /\ [Session!Next]_<<holders, OnSession>> => Session!Held'
  <2> SUFFICES ASSUME Session!Held, [Session!Next]_<<holders, OnSession>> PROVE Session!Held'
    OBVIOUS
  <2>1. CASE UNCHANGED <<holders, OnSession>>
    BY <2>1 DEF Session!Held
  <2>2. ASSUME NEW u \in Backend,
               \/ Session!Acquire(u) \/ Session!Open(u) \/ Session!Close(u) \/ Session!Release(u)
               \/ Session!Drop(u)
        PROVE  Session!Held'
    BY <2>2 DEF Session!Held, Session!Acquire, Session!Open, Session!Close, Session!Release,
       Session!Drop
  <2>3. QED
    BY <2>1, <2>2 DEF Session!Next
<1>3. QED
  BY <1>1, <1>2, PTL DEF Session!Spec

\* However the connect loop and refreshes race, one server runs two clients on
\* one session only when it was told to share it, lost backends included.
THEOREM OneUserClient == Spec => []Session!Alone
<1>1. Session!Held => Session!Alone
  BY DEF Session!Held, Session!Alone
<1>2. QED
  BY <1>1, ServerKeepsToTheClaim, SessionStaysHeld, PTL DEF SessionIsClaimed
=============================================================================
