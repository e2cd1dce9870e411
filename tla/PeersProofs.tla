---------------------------- MODULE PeersProofs ----------------------------
(***************************************************************************)
(* Proofs about the resolution of ids, for any number of calls, chats and  *)
(* cleared caches: an id this process has shown together with its hash is  *)
(* called unknown only when the caches were cleared or, outside a folder,  *)
(* the request for it failed; and a chat of the account only with an       *)
(* excuse.                                                                 *)
(***************************************************************************)
EXTENDS Peers, TLAPS

(* The stages a call goes through are different stages.                    *)
LEMMA Stages ==
  /\ \A s \in {"idle", "lookup", "recall", "miss", "recall again", "lookup again", "unknown"} :
       At(s) \in Stage
  /\ \A n \in Source : Sweep(n) \in Stage
BY DEF At, Sweep, Stage

LEMMA StagesDiffer ==
  /\ At("idle") \notin {At("recall again"), At("lookup again"), At("unknown")}
  /\ At("recall again") \notin {At("lookup again"), At("unknown")}
  /\ At("lookup again") # At("unknown")
  /\ \A s \in {"lookup", "recall", "miss"} :
       At(s) \notin {At("idle"), At("recall again"), At("lookup again"), At("unknown")}
  /\ \A n, s : At(s) # Sweep(n) \/ s = "sweep"
  /\ \A m, n : Sweep(m) = Sweep(n) => m = n
BY DEF At, Sweep

(* The variables keep their types, one action at a time.                   *)
LEMMA PeersTypeStep ==
  ASSUME PeersType, PeersNext
  PROVE  PeersType'
<1>1. ASSUME NEW p \in Peer, Appear(p) PROVE PeersType'
  BY <1>1 DEF Appear, PeersType, calls
<1>2. ASSUME NEW p \in Peer, Learn(p) PROVE PeersType'
  <2>1. store' \subseteq Peer /\ shown' \in [Kind -> SUBSET Peer]
    BY <1>2 DEF Learn, PeersType, Kind
  <2> QED BY <1>2, <2>1 DEF Learn, PeersType, calls
<1>3. CASE ReadFolders
  <2>1. index' \subseteq Peer /\ shown' \in [Kind -> SUBSET Peer]
    BY <1>3 DEF ReadFolders, PeersType, Listed, Kind
  <2> QED BY <1>3, <2>1 DEF ReadFolders, PeersType, calls
<1>4. CASE Interval
  BY <1>4 DEF Interval, PeersType, calls
<1>5. CASE Forget
  <2>1. excuse' \in [Seeker -> SUBSET Excuse]
    BY <1>5 DEF Forget, PeersType, Excuse
  <2> QED BY <1>5, <2>1 DEF Forget, PeersType
<1>6. CASE ForgetSweep
  BY <1>6 DEF ForgetSweep, PeersType, calls
<1>7. ASSUME NEW c \in Seeker, NEW p \in Peer, Seek(c, p) PROVE PeersType'
  <2>1. Standing(p) \in SUBSET (Kind \cup {"account"})
    BY DEF Standing
  <2>2. seek' \in [Seeker -> Stage]
    BY <1>7, Stages DEF Seek, PeersType
  <2> QED BY <1>7, <2>1, <2>2 DEF Seek, PeersType
<1>8. ASSUME NEW c \in Seeker, Enter(c) PROVE PeersType'
  <2>1. seek' \in [Seeker -> Stage]
    <3>1. Sweep(1) \in Stage
      <4>1. 1 \in Source
        BY DEF Source
      <4> QED BY <4>1, Stages
    <3> QED BY <1>8, <3>1, Stages DEF Enter, PeersType
  <2>2. excuse' \in [Seeker -> SUBSET Excuse]
    BY <1>8 DEF Enter, PeersType, Excuse
  <2>3. sweeper' \subseteq Seeker
    BY <1>8 DEF Enter, PeersType
  <2>4. recent' \in BOOLEAN
    BY <1>8, Zenon DEF Enter, PeersType
  <2> QED BY <1>8, <2>1, <2>2, <2>3, <2>4 DEF Enter, PeersType
<1>9. ASSUME NEW c \in Seeker, Recall(c) PROVE PeersType'
  <2>1. /\ seek' \in [Seeker -> Stage] /\ want' \in [Seeker -> Peer \cup {NoPeer}]
        /\ had' \in [Seeker -> SUBSET (Kind \cup {"account"})]
        /\ excuse' \in [Seeker -> SUBSET Excuse]
    BY <1>9, Stages DEF Recall, Done, PeersType
  <2> QED BY <1>9, <2>1 DEF Recall, PeersType
<1>10. ASSUME NEW c \in Seeker, Return(c) PROVE PeersType'
  <2>1. /\ seek' \in [Seeker -> Stage] /\ want' \in [Seeker -> Peer \cup {NoPeer}]
        /\ had' \in [Seeker -> SUBSET (Kind \cup {"account"})]
        /\ excuse' \in [Seeker -> SUBSET Excuse]
    BY <1>10, Stages DEF Return, Done, PeersType
  <2> QED BY <1>10, <2>1 DEF Return, PeersType
<1>11. ASSUME NEW c \in Seeker, NEW n \in Source, NEW ok \in BOOLEAN, Walk(c, n, ok)
       PROVE  PeersType'
  <2>1. index' \subseteq Peer /\ store' \subseteq Peer
    BY <1>11 DEF Walk, PeersType, Taught, Listed
  <2>2. seek' \in [Seeker -> Stage]
    <3>1. n = 4 \/ n + 1 \in Source
      <4> HIDE <1>11
      <4> QED BY DEF Source
    <3>2. n + 1 \in Source \/ Ends(n, want[c])
      BY <3>1 DEF Ends
    <3> QED BY <1>11, <3>2, Stages DEF Walk, PeersType
  <2>3. sweeper' \subseteq Seeker /\ excuse' \in [Seeker -> SUBSET Excuse]
    BY <1>11 DEF Walk, PeersType, Excuse
  <2> QED BY <1>11, <2>1, <2>2, <2>3 DEF Walk, PeersType
<1>12. ASSUME NEW c \in Seeker, NEW ok \in BOOLEAN, LookupNumeric(c, ok) PROVE PeersType'
  <2>1. /\ seek' \in [Seeker -> Stage] /\ want' \in [Seeker -> Peer \cup {NoPeer}]
        /\ had' \in [Seeker -> SUBSET (Kind \cup {"account"})]
    BY <1>12, Stages DEF LookupNumeric, Done, PeersType
  <2>2. excuse' \in [Seeker -> SUBSET Excuse]
    <3>1. \/ excuse' = [excuse EXCEPT ![c] = {}]
          \/ excuse' = [excuse EXCEPT ![c] = @ \cup {"request failed"}]
          \/ excuse' = excuse
      BY <1>12 DEF LookupNumeric, Done
    <3> QED BY <3>1 DEF PeersType, Excuse
  <2> QED BY <1>12, <2>1, <2>2 DEF LookupNumeric, PeersType
<1> QED BY <1>1, <1>2, <1>3, <1>4, <1>5, <1>6, <1>7, <1>8, <1>9, <1>10, <1>11, <1>12
        DEF PeersNext

(* The types hold before the first call.                                   *)
LEMMA PeersTypeInit == PeersInit => PeersType
<1> SUFFICES ASSUME PeersInit PROVE PeersType
  OBVIOUS
<1>1. account \subseteq Peer /\ recent \in BOOLEAN
  BY DEF PeersInit
<1>2. seek \in [Seeker -> Stage] /\ want \in [Seeker -> Peer \cup {NoPeer}]
  BY Stages DEF PeersInit
<1>3. /\ had \in [Seeker -> SUBSET (Kind \cup {"account"})]
      /\ excuse \in [Seeker -> SUBSET Excuse]
  BY DEF PeersInit
<1> QED BY <1>1, <1>2, <1>3 DEF PeersInit, PeersType

(* The variables hold values of the kinds their comments give (Peers).     *)
THEOREM PeersTypeCorrect == PeersSpec => []PeersType
<1>1. PeersType /\ UNCHANGED peerVars => PeersType'
  BY DEF PeersType, peerVars
<1> QED BY <1>1, PeersTypeInit, PeersTypeStep, PTL DEF PeersSpec

----------------------------------------------------------------------------
(* What a list showed is in the store, what a folder showed in the index.  *)
(* Of a call: an idle one remembers nothing; the chat it wants is still    *)
(* there if it was in the account, and still known if it was shown and the *)
(* caches were not cleared; without an excuse, what the sources walked so  *)
(* far list is in the index.                                               *)
ShownIsKept == shown["list"] \subseteq store /\ shown["folder"] \subseteq index

IdleIsBlank(c) == seek[c] = At("idle") => had[c] = {} /\ excuse[c] = {}

WantStays(c) ==
  /\ had[c] # {} => want[c] \in Peer
  /\ "account" \in had[c] => want[c] \in account
  /\ "list" \in had[c] /\ "cleared" \notin excuse[c] => want[c] \in store
  /\ "folder" \in had[c] /\ "cleared" \notin excuse[c] => want[c] \in index

WalkedIsKnown(c) ==
  excuse[c] = {} /\ "account" \in had[c] /\ Place[want[c]] # 0 =>
    /\ \A n \in Source : seek[c] = Sweep(n) => want[c] \in index \/ Place[want[c]] >= n
    /\ seek[c] = At("recall again") => want[c] \in index
    /\ seek[c] # At("lookup again") /\ seek[c] # At("unknown")

Honest(c) ==
  /\ seek[c] \in {At("lookup again"), At("unknown")} /\ "folder" \in had[c]
       => "cleared" \in excuse[c]
  /\ seek[c] = At("unknown") /\ "list" \in had[c]
       => excuse[c] \cap {"cleared", "request failed"} # {}

SeekInv == \A c \in Seeker : /\ IdleIsBlank(c) /\ WantStays(c) /\ WalkedIsKnown(c)
                             /\ Honest(c)

PeersInv == PeersType /\ ShownIsKept /\ SeekInv

(* Reading the account or learning of a chat disturbs no call.             *)
LEMMA GrowthKeepsCalls ==
  ASSUME SeekInv, UNCHANGED <<seek, want, had, excuse>>,
         account \subseteq account', store \subseteq store', index \subseteq index'
  PROVE  SeekInv'
<1> SUFFICES ASSUME NEW c \in Seeker
             PROVE  (IdleIsBlank(c) /\ WantStays(c) /\ WalkedIsKnown(c) /\ Honest(c))'
  BY DEF SeekInv
<1>1. IdleIsBlank(c) /\ WantStays(c) /\ WalkedIsKnown(c) /\ Honest(c)
  BY DEF SeekInv
<1>2. (want[c] \in store => want[c] \in store') /\ (want[c] \in index => want[c] \in index')
  OBVIOUS
<1>3. IdleIsBlank(c)' /\ Honest(c)'
  BY <1>1 DEF IdleIsBlank, Honest
<1>4. WantStays(c)'
  BY <1>1, <1>2 DEF WantStays
<1>5. WalkedIsKnown(c)'
  BY <1>1, <1>2 DEF WalkedIsKnown
<1> QED BY <1>3, <1>4, <1>5

(* One step keeps what was shown known.                                    *)
LEMMA ShownStep ==
  ASSUME PeersInv, PeersNext
  PROVE  ShownIsKept'
<1>1. ShownIsKept /\ shown \in [Kind -> SUBSET Peer] /\ "list" \in Kind /\ "folder" \in Kind
  BY DEF PeersInv, PeersType, Kind
<1>2. "list" # "folder"
  OBVIOUS
<1>3. CASE shown' = shown /\ store \subseteq store' /\ index \subseteq index'
  BY <1>1, <1>3 DEF ShownIsKept
<1>4. ASSUME NEW p \in Peer, Learn(p) PROVE ShownIsKept'
  BY <1>1, <1>2, <1>4 DEF Learn, ShownIsKept
<1>5. CASE ReadFolders
  BY <1>1, <1>2, <1>5 DEF ReadFolders, ShownIsKept
<1>6. CASE Forget
  BY <1>1, <1>6 DEF Forget, ShownIsKept
<1>7. ASSUME NEW p \in Peer, Appear(p) PROVE ShownIsKept'
  BY <1>3, <1>7 DEF Appear
<1>8. CASE Interval \/ ForgetSweep
  BY <1>3, <1>8 DEF Interval, ForgetSweep
<1>9. ASSUME NEW c \in Seeker, NEW p \in Peer, Seek(c, p) PROVE ShownIsKept'
  BY <1>3, <1>9 DEF Seek
<1>10. ASSUME NEW c \in Seeker, Enter(c) \/ Recall(c) \/ Return(c) PROVE ShownIsKept'
  BY <1>3, <1>10 DEF Enter, Recall, Return
<1>11. ASSUME NEW c \in Seeker, NEW n \in Source, NEW ok \in BOOLEAN, Walk(c, n, ok)
       PROVE  ShownIsKept'
  BY <1>3, <1>11 DEF Walk
<1>12. ASSUME NEW c \in Seeker, NEW ok \in BOOLEAN, LookupNumeric(c, ok) PROVE ShownIsKept'
  BY <1>3, <1>12 DEF LookupNumeric
<1> QED BY <1>4, <1>5, <1>6, <1>7, <1>8, <1>9, <1>10, <1>11, <1>12 DEF PeersNext

(* A step of one call leaves the others alone, as long as nothing known is *)
(* forgotten.                                                              *)
LEMMA OthersKept ==
  ASSUME SeekInv, NEW c \in Seeker, NEW d \in Seeker, c # d,
         seek'[d] = seek[d], want'[d] = want[d], had'[d] = had[d], excuse'[d] = excuse[d],
         account \subseteq account', store \subseteq store', index \subseteq index'
  PROVE  (IdleIsBlank(d) /\ WantStays(d) /\ WalkedIsKnown(d) /\ Honest(d))'
<1>1. IdleIsBlank(d) /\ WantStays(d) /\ WalkedIsKnown(d) /\ Honest(d)
  BY DEF SeekInv
<1>2. (want[d] \in store => want[d] \in store') /\ (want[d] \in index => want[d] \in index')
  OBVIOUS
<1>3. IdleIsBlank(d)' /\ Honest(d)'
  BY <1>1 DEF IdleIsBlank, Honest
<1>4. WantStays(d)'
  BY <1>1, <1>2 DEF WantStays
<1>5. WalkedIsKnown(d)'
  BY <1>1, <1>2 DEF WalkedIsKnown
<1> QED BY <1>3, <1>4, <1>5

(* A call that sets out knows of its chat what it was told of it.          *)
LEMMA SeekKeeps ==
  ASSUME PeersInv, NEW c \in Seeker, NEW p \in Peer, Seek(c, p)
  PROVE  SeekInv'
<1> SUFFICES ASSUME NEW d \in Seeker
             PROVE  (IdleIsBlank(d) /\ WantStays(d) /\ WalkedIsKnown(d) /\ Honest(d))'
  BY DEF SeekInv
<1> USE DEF PeersInv, PeersType
<1>1. CASE d # c
  <2>1. /\ seek'[d] = seek[d] /\ want'[d] = want[d] /\ had'[d] = had[d]
        /\ excuse'[d] = excuse[d] /\ account' = account /\ store' = store /\ index' = index
    BY <1>1 DEF Seek
  <2> QED BY <1>1, <2>1, OthersKept
<1>2. CASE d = c
  <2>1. /\ want'[c] = p /\ excuse'[c] = excuse[c] /\ excuse[c] = {}
        /\ had'[c] = Standing(p) /\ seek'[c] = At("lookup")
        /\ account' = account /\ store' = store /\ index' = index
    BY DEF Seek, SeekInv, IdleIsBlank
  <2>2. /\ seek'[c] # At("idle") /\ seek'[c] # At("unknown") /\ seek'[c] # At("recall again")
        /\ seek'[c] # At("lookup again") /\ \A n \in Source : seek'[c] # Sweep(n)
    BY <2>1, StagesDiffer
  <2>3. IdleIsBlank(c)' /\ WalkedIsKnown(c)' /\ Honest(c)'
    BY <2>2 DEF IdleIsBlank, WalkedIsKnown, Honest
  <2>4. WantStays(c)'
    <3>1. /\ "account" \in Standing(p) => p \in account
          /\ "list" \in Standing(p) => p \in shown["list"]
          /\ "folder" \in Standing(p) => p \in shown["folder"]
      BY DEF Standing, Kind
    <3>2. ("list" \in Standing(p) => p \in store) /\ ("folder" \in Standing(p) => p \in index)
      BY <3>1 DEF ShownIsKept
    <3> QED BY <2>1, <3>1, <3>2 DEF WantStays
  <2> QED BY <1>2, <2>3, <2>4
<1> QED BY <1>1, <1>2

(* A call held back has its excuse; one that starts to sweep has walked    *)
(* nothing.                                                                *)
LEMMA EnterKeeps ==
  ASSUME PeersInv, NEW c \in Seeker, Enter(c)
  PROVE  SeekInv'
<1> SUFFICES ASSUME NEW d \in Seeker
             PROVE  (IdleIsBlank(d) /\ WantStays(d) /\ WalkedIsKnown(d) /\ Honest(d))'
  BY DEF SeekInv
<1> USE DEF PeersInv, PeersType
<1>1. CASE d # c
  <2>1. /\ seek'[d] = seek[d] /\ want'[d] = want[d] /\ had'[d] = had[d]
        /\ excuse'[d] = excuse[d]
        /\ account \subseteq account' /\ store \subseteq store' /\ index \subseteq index'
    BY <1>1 DEF Enter
  <2> QED BY <1>1, <2>1, OthersKept
<1>2. CASE d = c
  <2>1. UNCHANGED <<account, store, index, want, had>> /\ seek[c] = At("miss")
    BY DEF Enter
  <2>2. \/ seek'[c] = At("recall again") /\ excuse'[c] = excuse[c] \cup {"held back"}
        \/ seek'[c] = Sweep(1) /\ excuse'[c] = excuse[c]
    BY DEF Enter
  <2>3. seek'[c] # At("idle") /\ seek'[c] # At("unknown") /\ seek'[c] # At("lookup again")
    <3>1. seek'[c] = At("recall again") \/ seek'[c] = Sweep(1)
      BY <2>2
    <3>2. CASE seek'[c] = At("recall again")
      BY <3>2, StagesDiffer
    <3>3. CASE seek'[c] = Sweep(1)
      BY <3>3, StagesDiffer
    <3> QED BY <3>1, <3>2, <3>3
  <2>4. IdleIsBlank(c)' /\ Honest(c)'
    BY <2>3 DEF IdleIsBlank, Honest
  <2>5. WantStays(c)'
    <3>1. WantStays(c) /\ ("cleared" \in excuse'[c] <=> "cleared" \in excuse[c])
      BY <2>2 DEF SeekInv
    <3> QED BY <2>1, <3>1 DEF WantStays
  <2>6. WalkedIsKnown(c)'
    <3>1. CASE excuse'[c] = {}
      <4>1. seek'[c] = <<"sweep", 1>>
        BY <2>2, <3>1 DEF Sweep
      <4>2. had'[c] # {} => want'[c] \in Peer
        BY <2>1 DEF SeekInv, WantStays
      <4> QED BY <4>1, <4>2, PlaceType DEF WalkedIsKnown, At, Sweep, Source
    <3>2. CASE excuse'[c] # {}
      BY <3>2 DEF WalkedIsKnown
    <3> QED BY <3>1, <3>2
  <2> QED BY <1>2, <2>4, <2>5, <2>6
<1> QED BY <1>1, <1>2

(* A call that has its answer remembers nothing.                           *)
LEMMA DoneKeeps ==
  ASSUME PeersInv, NEW c \in Seeker, Done(c), UNCHANGED <<account, store, index>>
  PROVE  SeekInv'
<1> SUFFICES ASSUME NEW d \in Seeker
             PROVE  (IdleIsBlank(d) /\ WantStays(d) /\ WalkedIsKnown(d) /\ Honest(d))'
  BY DEF SeekInv
<1> USE DEF PeersInv, PeersType
<1>1. CASE d # c
  <2>1. /\ seek'[d] = seek[d] /\ want'[d] = want[d] /\ had'[d] = had[d]
        /\ excuse'[d] = excuse[d]
    BY <1>1 DEF Done
  <2> QED BY <1>1, <2>1, OthersKept
<1>2. CASE d = c
  <2>1. seek'[c] = At("idle") /\ had'[c] = {} /\ excuse'[c] = {}
    BY DEF Done
  <2> QED BY <1>2, <2>1, StagesDiffer DEF IdleIsBlank, WantStays, WalkedIsKnown, Honest
<1> QED BY <1>1, <1>2

(* A call that asks the index finds what is in it.                         *)
LEMMA RecallKeeps ==
  ASSUME PeersInv, NEW c \in Seeker, Recall(c)
  PROVE  SeekInv'
<1> SUFFICES ASSUME ~(want[c] \in index), NEW d \in Seeker
             PROVE  (IdleIsBlank(d) /\ WantStays(d) /\ WalkedIsKnown(d) /\ Honest(d))'
  BY DoneKeeps DEF SeekInv, Recall
<1> USE DEF PeersInv, PeersType
<1>1. CASE d # c
  <2>1. /\ seek'[d] = seek[d] /\ want'[d] = want[d] /\ had'[d] = had[d]
        /\ excuse'[d] = excuse[d]
        /\ account \subseteq account' /\ store \subseteq store' /\ index \subseteq index'
    BY <1>1 DEF Recall
  <2> QED BY <1>1, <2>1, OthersKept
<1>2. CASE d = c
  <2>1. UNCHANGED <<account, store, index, want, had, excuse>>
    BY DEF Recall
  <2>2. \/ seek[c] = At("recall") /\ seek'[c] = At("miss")
        \/ seek[c] = At("recall again") /\ seek'[c] = At("lookup again")
    BY StagesDiffer DEF Recall
  <2>3. WantStays(c) /\ WalkedIsKnown(c)
    BY DEF SeekInv
  <2>4. WantStays(c)'
    BY <2>1, <2>3 DEF WantStays
  <2>5. /\ seek'[c] # At("idle") /\ seek'[c] # At("recall again") /\ seek'[c] # At("unknown")
        /\ \A n \in Source : seek'[c] # Sweep(n)
    BY <2>2, StagesDiffer
  <2>6. seek'[c] = At("lookup again") => seek[c] = At("recall again")
    BY <2>2, StagesDiffer
  <2>7. Honest(c)' /\ IdleIsBlank(c)'
    BY <2>1, <2>3, <2>5 DEF Honest, WantStays, IdleIsBlank
  <2>8. WalkedIsKnown(c)'
    BY <2>1, <2>3, <2>5, <2>6 DEF WalkedIsKnown
  <2> QED BY <1>2, <2>4, <2>7, <2>8
<1> QED BY <1>1, <1>2

(* A call that asks the manager finds what is in the store, unless the     *)
(* request fails.                                                          *)
LEMMA LookupKeeps ==
  ASSUME PeersInv, NEW c \in Seeker, NEW ok \in BOOLEAN, LookupNumeric(c, ok)
  PROVE  SeekInv'
<1> SUFFICES ASSUME ~(want[c] \in store /\ ok), NEW d \in Seeker
             PROVE  (IdleIsBlank(d) /\ WantStays(d) /\ WalkedIsKnown(d) /\ Honest(d))'
  BY DoneKeeps DEF SeekInv, LookupNumeric
<1> USE DEF PeersInv, PeersType
<1>1. CASE d # c
  <2>1. /\ seek'[d] = seek[d] /\ want'[d] = want[d] /\ had'[d] = had[d]
        /\ excuse'[d] = excuse[d]
        /\ account \subseteq account' /\ store \subseteq store' /\ index \subseteq index'
    BY <1>1 DEF LookupNumeric
  <2> QED BY <1>1, <2>1, OthersKept
<1>2. CASE d = c
  <2>1. UNCHANGED <<account, store, index, want, had>>
    BY DEF LookupNumeric
  <2>2. \/ seek[c] = At("lookup") /\ seek'[c] = At("recall")
        \/ seek[c] = At("lookup again") /\ seek'[c] = At("unknown")
    BY StagesDiffer DEF LookupNumeric
  <2>3. /\ excuse[c] \subseteq excuse'[c]
        /\ "cleared" \in excuse'[c] => "cleared" \in excuse[c]
        /\ want[c] \in store => "request failed" \in excuse'[c]
    <3>1. excuse' = IF want[c] \in store
                    THEN [excuse EXCEPT ![c] = @ \cup {"request failed"}] ELSE excuse
      BY DEF LookupNumeric
    <3> QED BY <3>1
  <2>4. WantStays(c) /\ WalkedIsKnown(c) /\ Honest(c)
    BY DEF SeekInv
  <2>5. WantStays(c)'
    BY <2>1, <2>3, <2>4 DEF WantStays
  <2>6. /\ seek'[c] # At("idle") /\ seek'[c] # At("recall again")
        /\ seek'[c] # At("lookup again") /\ \A n \in Source : seek'[c] # Sweep(n)
    BY <2>2, StagesDiffer
  <2>7. seek'[c] = At("unknown") => seek[c] = At("lookup again")
    BY <2>2, StagesDiffer
  <2>8. IdleIsBlank(c)'
    BY <2>6 DEF IdleIsBlank
  <2>9. Honest(c)'
    BY <2>1, <2>3, <2>4, <2>6, <2>7 DEF Honest, WantStays
  <2>10. WalkedIsKnown(c)'
    BY <2>1, <2>3, <2>4, <2>6, <2>7 DEF WalkedIsKnown
  <2> QED BY <1>2, <2>5, <2>8, <2>9, <2>10
<1> QED BY <1>1, <1>2

(* A call that has given up remembers nothing.                             *)
LEMMA ReturnKeeps ==
  ASSUME PeersInv, NEW c \in Seeker, Return(c)
  PROVE  SeekInv'
BY DoneKeeps DEF Return

(* Clearing the caches is an excuse for every call under way.              *)
LEMMA ForgetKeeps ==
  ASSUME PeersInv, Forget
  PROVE  SeekInv'
<1> SUFFICES ASSUME NEW d \in Seeker
             PROVE  (IdleIsBlank(d) /\ WantStays(d) /\ WalkedIsKnown(d) /\ Honest(d))'
  BY DEF SeekInv
<1> USE DEF PeersInv, PeersType
<1>1. UNCHANGED <<account, seek, want, had>>
  BY DEF Forget
<1>2. IdleIsBlank(d) /\ WantStays(d)
  BY DEF SeekInv
<1>3. CASE seek[d] = At("idle")
  <2>1. excuse'[d] = {} /\ had'[d] = {} /\ seek'[d] = At("idle")
    BY <1>1, <1>2, <1>3 DEF Forget, IdleIsBlank
  <2> QED BY <2>1 DEF IdleIsBlank, WantStays, WalkedIsKnown, Honest
<1>4. CASE seek[d] # At("idle")
  <2>1. "cleared" \in excuse'[d]
    BY <1>4 DEF Forget
  <2> QED BY <1>1, <1>2, <1>4, <2>1 DEF IdleIsBlank, WantStays, WalkedIsKnown, Honest
<1> QED BY <1>3, <1>4

(* A source walked to its end without an excuse has taught what it lists.  *)
LEMMA WalkKeeps ==
  ASSUME PeersInv, NEW c \in Seeker, NEW n \in Source, NEW ok \in BOOLEAN, Walk(c, n, ok)
  PROVE  SeekInv'
<1> SUFFICES ASSUME NEW d \in Seeker
             PROVE  (IdleIsBlank(d) /\ WantStays(d) /\ WalkedIsKnown(d) /\ Honest(d))'
  BY DEF SeekInv
<1> USE DEF PeersInv, PeersType
<1>1. CASE d # c
  <2>1. /\ seek'[d] = seek[d] /\ want'[d] = want[d] /\ had'[d] = had[d]
        /\ excuse'[d] = excuse[d]
        /\ account \subseteq account' /\ store \subseteq store' /\ index \subseteq index'
    BY <1>1 DEF Walk
  <2> QED BY <1>1, <2>1, OthersKept
<1>2. CASE d = c
  <2>1. UNCHANGED <<account, want, had>> /\ seek[c] = Sweep(n)
    BY DEF Walk
  <2>2. /\ store \subseteq store' /\ index \subseteq index' /\ excuse[c] \subseteq excuse'[c]
        /\ "cleared" \in excuse'[c] => "cleared" \in excuse[c]
    BY DEF Walk
  <2>3. seek'[c] = IF Ends(n, want[c]) THEN At("recall again") ELSE Sweep(n + 1)
    BY DEF Walk
  <2>4. WantStays(c) /\ WalkedIsKnown(c)
    BY DEF SeekInv
  <2>5. seek'[c] # At("idle") /\ seek'[c] # At("unknown") /\ seek'[c] # At("lookup again")
    BY <2>3, StagesDiffer
  <2>6. IdleIsBlank(c)' /\ Honest(c)'
    BY <2>5 DEF IdleIsBlank, Honest
  <2>7. WantStays(c)'
    BY <2>1, <2>2, <2>4 DEF WantStays
  <2>8. ASSUME excuse'[c] = {}, "account" \in had[c], Place[want[c]] # 0
        PROVE  want[c] \in index' \/ Place[want[c]] > n
    <3>1. excuse[c] = {} /\ want[c] \in account
      BY <2>2, <2>4, <2>8 DEF WantStays
    <3>2. want[c] \in index \/ Place[want[c]] >= n
      BY <2>1, <2>4, <2>8, <3>1 DEF WalkedIsKnown
    <3>3. ok
      BY <2>8 DEF Walk
    <3>4. Place[want[c]] = n => want[c] \in Listed(n)
      BY <3>1 DEF Listed
    <3>5. Listed(n) \subseteq index' \/ want[c] \in index'
      BY <3>3 DEF Walk, Taught
    <3>6. Place[want[c]] \in 0..4 /\ n \in 1..4
      BY <3>1, PlaceType DEF Source
    <3> QED BY <2>1, <2>2, <3>2, <3>4, <3>5, <3>6
  <2>9. WalkedIsKnown(c)'
    <3> SUFFICES ASSUME excuse'[c] = {}, "account" \in had[c], Place[want[c]] # 0
                 PROVE  /\ \A m \in Source :
                              seek'[c] = Sweep(m) => want[c] \in index' \/ Place[want[c]] >= m
                        /\ seek'[c] = At("recall again") => want[c] \in index'
                        /\ seek'[c] # At("lookup again") /\ seek'[c] # At("unknown")
      BY <2>1 DEF WalkedIsKnown
    <3>1. Place[want[c]] \in 0..4 /\ n \in 1..4
      BY <2>4, PlaceType DEF Source, WantStays
    <3>2. ASSUME NEW m \in Source, seek'[c] = Sweep(m)
          PROVE  want[c] \in index' \/ Place[want[c]] >= m
      <4>1. m = n + 1
        BY <2>3, <3>2, StagesDiffer
      <4> QED BY <2>8, <3>1, <4>1
    <3>3. ASSUME seek'[c] = At("recall again") PROVE want[c] \in index'
      <4>1. Ends(n, want[c])
        BY <2>3, <3>3, StagesDiffer
      <4> QED BY <2>1, <2>8, <3>1, <4>1 DEF Ends
    <3> QED BY <2>5, <3>2, <3>3
  <2> QED BY <1>2, <2>6, <2>7, <2>9
<1> QED BY <1>1, <1>2

(* A fresh process has handed out nothing and no call is under way.        *)
LEMMA PeersInvInit == PeersInit => PeersInv
<1> SUFFICES ASSUME PeersInit PROVE PeersInv
  OBVIOUS
<1>1. ShownIsKept
  BY DEF PeersInit, ShownIsKept, Kind
<1>2. ASSUME NEW c \in Seeker
      PROVE  IdleIsBlank(c) /\ WantStays(c) /\ WalkedIsKnown(c) /\ Honest(c)
  <2>1. seek[c] = At("idle") /\ had[c] = {} /\ excuse[c] = {}
    BY DEF PeersInit
  <2> QED BY <2>1 DEF IdleIsBlank, WantStays, WalkedIsKnown, Honest
<1> QED BY <1>1, <1>2, PeersTypeInit DEF PeersInv, SeekInv

(* Every step keeps what is known, shown and excused in agreement.         *)
LEMMA PeersInvStep == PeersInv /\ [PeersNext]_peerVars => PeersInv'
<1> SUFFICES ASSUME PeersInv, [PeersNext]_peerVars PROVE PeersInv'
  OBVIOUS
<1>1. CASE UNCHANGED peerVars
  BY <1>1 DEF peerVars, PeersInv, PeersType, ShownIsKept, SeekInv, IdleIsBlank, WantStays,
              WalkedIsKnown, Honest
<1>2. CASE PeersNext
  <2>1. PeersType' /\ ShownIsKept'
    BY <1>2, PeersTypeStep, ShownStep DEF PeersInv
  <2>2. ASSUME NEW p \in Peer, Appear(p) \/ Learn(p) PROVE SeekInv'
    <3>1. /\ UNCHANGED <<seek, want, had, excuse>>
          /\ account \subseteq account' /\ store \subseteq store' /\ index \subseteq index'
      BY <2>2 DEF Appear, Learn, calls
    <3> QED BY <3>1, GrowthKeepsCalls DEF PeersInv
  <2>3. ASSUME ReadFolders \/ Interval \/ ForgetSweep PROVE SeekInv'
    <3>1. /\ UNCHANGED <<seek, want, had, excuse>>
          /\ account \subseteq account' /\ store \subseteq store' /\ index \subseteq index'
      BY <2>3 DEF ReadFolders, Interval, ForgetSweep, calls
    <3> QED BY <3>1, GrowthKeepsCalls DEF PeersInv
  <2>4. SeekInv'
    BY <1>2, <2>2, <2>3, ForgetKeeps, SeekKeeps, LookupKeeps, RecallKeeps, EnterKeeps, ReturnKeeps,
       WalkKeeps
       DEF PeersNext
  <2> QED BY <2>1, <2>4 DEF PeersInv
<1> QED BY <1>1, <1>2

(* A chat the account had when it was asked for, listed in a source of the *)
(* sweep, is called unknown only if the sweep was held back, a request     *)
(* failed or the caches were cleared meanwhile (sweepPeers,                *)
(* unresolvedPeer).                                                        *)
THEOREM UnknownNeedsReason == PeersSpec => []UnknownHasReason
<1>1. PeersInv => UnknownHasReason
  BY DEF PeersInv, SeekInv, WalkedIsKnown, UnknownHasReason
<1> QED BY <1>1, PeersInvInit, PeersInvStep, PTL DEF PeersSpec

(* An id a folder showed is not called unknown unless the caches were      *)
(* cleared meanwhile, one a result that keeps its entities showed only     *)
(* then or when the request for it failed (rememberFilterPeers,            *)
(* rememberPeers).                                                         *)
THEOREM ShownStaysKnown == PeersSpec => []ShownResolves
<1>1. PeersInv => ShownResolves
  BY DEF PeersInv, SeekInv, Honest, ShownResolves
<1> QED BY <1>1, PeersInvInit, PeersInvStep, PTL DEF PeersSpec
=============================================================================
