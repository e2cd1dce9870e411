----------------------------- MODULE RelayProofs -----------------------------
(***************************************************************************)
(* What holds of the relay for any number of updates, kills and refusals:  *)
(* what a kill costs, and when a press can come a second time.             *)
(***************************************************************************)
EXTENDS Relay, FiniteSetTheorems, SequenceTheorems, TLAPS

Delivering == {"append", "push", "cut", "resume", "fire"}
Working    == Delivering \cup {"handle", "brain"}

(* The update in hand is of the kind the step is for, and neither offset   *)
(* is past it.                                                             *)
OffsetsBehind ==
  /\ doing \in Delivering => hand \in Press
  /\ doing = "brain" => hand \in Text
  /\ doing # "poll" => stored <= hand + 1 /\ forgotten <= hand + 1
  /\ doing \in Working \cup {"write"} => forgotten <= hand /\ hand >= 1

(* The updates that have had their turn: Telegram or the relay is past     *)
(* them, or a later one was pushed or read.                                *)
HandDone == \/ doing \in {"next", "cut", "resume", "fire"}
            \/ doing = "push" /\ ownLast # hand

Passed(u) == \/ u < forgotten
             \/ doing = "poll" /\ u < stored
             \/ doing # "poll" /\ (u < hand \/ (u = hand /\ HandDone))
             \/ u < mark \/ u < ownLast
             \/ \E l \in Lines(queue) : u < l

(* Of those, the ones that reached nobody.                                 *)
Missed == {u \in Press \cup Text : Passed(u) /\ ~Reachable(u)}

MissedPaid == Cardinality(Missed) <= killed + refused

(* While the offset file was never left empty no press has two turns.      *)
Touched(u) == given[u] > 0 \/ u \in Lines(queue) \/ u = ownLast

OneTurn ==
  /\ doing \in Working => stored = hand + 1
  /\ \A u \in Press : Touched(u) =>
       /\ doing \in {"poll", "next"} => u < Later(stored, forgotten)
       /\ doing \in Working \cup {"write"} => u <= hand
       /\ doing \in {"write", "handle", "append"} => u # hand
  /\ doing = "push" => hand \notin Lines(queue)
  /\ doing \in {"push", "cut", "resume"} => given[hand] = 0
  /\ doing = "fire" => given[hand] = 0 \/ hand \in unsure
  /\ \A u \in Press \ unsure : given[u] <= 1
  /\ refused = 0 => /\ \A i, j \in DOMAIN queue : queue[i] = queue[j] => i = j
                    /\ doing = "push" => ownLast = hand

RelayInv == RelayType /\ OffsetsBehind /\ MissedPaid /\ (~wiped => OneTurn)

----------------------------------------------------------------------------
(* The queue after a line was pushed, and after it was cut.                *)
LEMMA PushedLine ==
  ASSUME NEW q \in Seq(Press), NEW l \in Press
  PROVE  /\ Append(q, l) \in Seq(Press)
         /\ Lines(Append(q, l)) = Lines(q) \cup {l}
         /\ (\A i, j \in DOMAIN q : q[i] = q[j] => i = j) /\ l \notin Lines(q)
              => \A i, j \in DOMAIN Append(q, l) : Append(q, l)[i] = Append(q, l)[j] => i = j
<1>1. /\ Append(q, l) \in Seq(Press) /\ Len(q) \in Nat
      /\ DOMAIN q = 1..Len(q) /\ DOMAIN Append(q, l) = 1..(Len(q) + 1)
      /\ \A i \in 1..Len(q) : Append(q, l)[i] = q[i]
      /\ Append(q, l)[Len(q) + 1] = l
  BY AppendProperties, LenProperties
<1> HIDE DEF Lines
<1>2. 1..(Len(q) + 1) = (1..Len(q)) \cup {Len(q) + 1}
  BY <1>1
<1>3. Lines(Append(q, l)) = Lines(q) \cup {l}
  BY <1>1, <1>2 DEF Lines
<1>4. ASSUME \A i, j \in DOMAIN q : q[i] = q[j] => i = j, l \notin Lines(q),
             NEW i \in DOMAIN Append(q, l), NEW j \in DOMAIN Append(q, l),
             Append(q, l)[i] = Append(q, l)[j]
      PROVE  i = j
  <2>1. \A k \in 1..Len(q) : q[k] # l
    BY <1>1, <1>4 DEF Lines
  <2> QED BY <1>1, <1>2, <1>4, <2>1
<1> QED BY <1>1, <1>3, <1>4

LEMMA CutLines ==
  ASSUME NEW q \in Seq(Press), Len(q) > queueCap,
         NEW c, c = SubSeq(q, Len(q) - queueKept + 1, Len(q))
  PROVE  /\ c \in Seq(Press)
         /\ Lines(c) \subseteq Lines(q)
         /\ (\A i, j \in DOMAIN q : q[i] = q[j] => i = j)
              => \A i, j \in DOMAIN c : c[i] = c[j] => i = j
<1> DEFINE n == Len(q)
           m == n - queueKept + 1
<1>0. c = SubSeq(q, m, n)
  OBVIOUS
<1>1. n \in Nat /\ DOMAIN q = 1..n /\ \A i \in 1..n : q[i] \in Press
  BY LenProperties, ElementOfSeq
<1>2. m \in 1..n /\ m \in Int /\ n \in Int
  BY <1>1, RelayUpdates
<1>3. \A i \in m..n : q[i] \in Press
  BY <1>1, <1>2
<1>4. /\ c \in Seq(Press) /\ Len(c) = n - m + 1
      /\ \A i \in 1..(n - m + 1) : c[i] = q[m + i - 1]
  <2> HIDE DEF m, n
  <2>1. /\ SubSeq(q, m, n) \in Seq(Press) /\ Len(SubSeq(q, m, n)) = n - m + 1
        /\ \A i \in 1..(n - m + 1) : SubSeq(q, m, n)[i] = q[m + i - 1]
    BY <1>2, <1>3, SubSeqProperties
  <2> QED BY <1>0, <2>1
<1>5. DOMAIN c = 1..(n - m + 1)
  BY <1>4, LenProperties
<1>6. \A i \in 1..(n - m + 1) : m + i - 1 \in 1..n
  BY <1>1, <1>2
<1> HIDE DEF m, n
<1>7. Lines(c) \subseteq Lines(q)
  BY <1>1, <1>4, <1>5, <1>6 DEF Lines
<1>8. ASSUME \A i, j \in DOMAIN q : q[i] = q[j] => i = j,
             NEW i \in DOMAIN c, NEW j \in DOMAIN c, c[i] = c[j]
      PROVE  i = j
  <2>1. m + i - 1 = m + j - 1
    BY <1>1, <1>4, <1>5, <1>6, <1>8
  <2> QED BY <1>2, <1>5, <2>1
<1> QED BY <1>4, <1>7, <1>8

LEMMA CutKeepsOld ==
  ASSUME RelayType, CutQueue
  PROVE  /\ queue' \in Seq(Press)
         /\ Lines(queue') \subseteq Lines(queue)
         /\ (\A i, j \in DOMAIN queue : queue[i] = queue[j] => i = j)
              => \A i, j \in DOMAIN queue' : queue'[i] = queue'[j] => i = j
<1>1. queue \in Seq(Press) /\ Len(queue) \in Nat
  BY LenProperties DEF RelayType
<1>2. CASE Len(queue) <= queueCap
  BY <1>1, <1>2 DEF CutQueue
<1>3. CASE ~(Len(queue) <= queueCap)
  <2>1. Len(queue) > queueCap /\ queue' = SubSeq(queue, Len(queue) - queueKept + 1, Len(queue))
    BY <1>1, <1>3, RelayUpdates DEF CutQueue
  <2> QED BY <1>1, <2>1, CutLines
<1> QED BY <1>2, <1>3

LEMMA LinesArePresses == ASSUME NEW q \in Seq(Press) PROVE Lines(q) \subseteq Press
BY ElementOfSeq, LenProperties DEF Lines

(* Updates are numbers.                                                    *)
LEMMA UpdatesAreNumbers ==
  /\ Press \cup Text \subseteq Nat \ {0}
  /\ MaxUpdates \in Nat /\ MaxKilled \in Nat /\ MaxRefused \in Nat
  /\ IsFiniteSet(Press \cup Text)
<1>1. MaxUpdates \in Nat /\ MaxKilled \in Nat /\ MaxRefused \in Nat
      /\ Press \cup Text \subseteq 1..MaxUpdates
  BY RelayUpdates
<1>2. IsFiniteSet(1..MaxUpdates)
  BY <1>1, FS_Interval
<1>3. IsFiniteSet(Press \cup Text)
  BY <1>1, <1>2, FS_Subset
<1> QED BY <1>1, <1>3

----------------------------------------------------------------------------
(* A delivery leaves counts of sessions.                                   *)
LEMMA AttemptTyped ==
  ASSUME RelayType, hand \in Press, NEW a \in BOOLEAN, NEW k \in BOOLEAN, Attempt(a, k)
  PROVE  given' \in [Press -> Nat] /\ unsure' \subseteq Press
BY DEF Attempt, RelayType

(* Every step keeps the types.                                             *)
LEMMA RelayTypeStep ==
  ASSUME RelayType, OffsetsBehind, [RelayNext]_relayVars
  PROVE  RelayType'
<1> USE UpdatesAreNumbers DEF outside, ours, sessions, mishaps
<1>1. CASE Happens
  BY <1>1 DEF Happens, RelayType
<1>2. CASE TakeNext
  BY <1>2 DEF TakeNext, RelayType, Offset
<1>3. CASE WriteOffset
  BY <1>3 DEF WriteOffset, RelayType, Offset
<1>4. CASE WriteFails
  BY <1>4 DEF WriteFails, RelayType
<1>5. CASE Handle
  BY <1>5 DEF Handle, RelayType
<1>6. CASE CutQueue
  <2>1. queue' \in Seq(Press)
    BY <1>6, CutKeepsOld
  <2>2. dropped' \subseteq Press
    BY <1>6, LinesArePresses DEF CutQueue, RelayType
  <2> QED BY <1>6, <2>1, <2>2 DEF CutQueue, RelayType
<1>7. CASE Resume
  <2>1. given' \in [Press -> Nat] /\ unsure' \subseteq Press
    BY <1>7, AttemptTyped DEF Resume, OffsetsBehind, Delivering, RelayType
  <2>2. doing' \in {"next", "fire"}
    BY <1>7 DEF Resume
  <2> QED BY <1>7, <2>1, <2>2 DEF Resume, RelayType
<1>8. CASE Fire
  <2>1. given' \in [Press -> Nat] /\ unsure' \subseteq Press
    BY <1>8, AttemptTyped DEF Fire, OffsetsBehind, Delivering, RelayType
  <2>2. doing' \in {"next", "fire"} /\ attempt' \in 0..1
    BY <1>8 DEF Fire, RelayType
  <2> QED BY <1>8, <2>1, <2>2 DEF Fire, RelayType
<1>9. CASE KilledRelay
  <2>1. wiped' \in BOOLEAN
    BY <1>9, Zenon DEF KilledRelay, RelayType
  <2> QED BY <1>9, <2>1 DEF KilledRelay, RelayType
<1>10. ASSUME NEW fails \in BOOLEAN, GetUpdates(fails) PROVE RelayType'
  BY <1>10 DEF GetUpdates, Later, RelayType, Offset
<1>11. ASSUME NEW fails \in BOOLEAN, SendReply(fails) PROVE RelayType'
  BY <1>11 DEF SendReply, Refuse, RelayType, OffsetsBehind
<1>12. ASSUME NEW fails \in BOOLEAN, AppendOwn(fails) PROVE RelayType'
  BY <1>12 DEF AppendOwn, Refuse, RelayType, OffsetsBehind, Delivering
<1>13. ASSUME NEW fails \in BOOLEAN, PushLast(fails) PROVE RelayType'
  <2>1. queue' \in Seq(Press)
    BY <1>13, PushedLine DEF PushLast, RelayType
  <2> QED BY <1>13, <2>1 DEF PushLast, Refuse, RelayType
<1>14. ASSUME NEW last \in Press, Consume(last) PROVE RelayType'
  <2>1. Lines(queue) \subseteq Press /\ last \in 1..MaxUpdates
    BY LinesArePresses, RelayUpdates DEF RelayType
  <2>2. mark' \in Offset
    BY <1>14, <2>1 DEF Consume, Offset
  <2>3. read' \subseteq Press
    BY <1>14, <2>1 DEF Consume, RelayType
  <2> QED BY <1>14, <2>2, <2>3 DEF Consume, RelayType
<1>15. CASE UNCHANGED relayVars
  BY <1>15 DEF relayVars, RelayType
<1> QED BY <1>1, <1>2, <1>3, <1>4, <1>5, <1>6, <1>7, <1>8, <1>9, <1>10, <1>11, <1>12, <1>13,
           <1>14, <1>15 DEF RelayNext

(* Every step keeps both offsets behind the update in hand.                *)
LEMMA OffsetsStep ==
  ASSUME RelayType, OffsetsBehind, [RelayNext]_relayVars
  PROVE  OffsetsBehind'
<1> USE UpdatesAreNumbers DEF outside, ours, sessions, mishaps, OffsetsBehind, Delivering, Working
<1>1. stored \in Nat /\ forgotten \in Nat /\ hand \in Nat /\ upto \in Nat /\ newest \in Nat
  BY DEF RelayType, Offset
<1>2. CASE TakeNext
  BY <1>1, <1>2 DEF TakeNext
<1>3. CASE WriteOffset \/ WriteFails
  BY <1>1, <1>3 DEF WriteOffset, WriteFails
<1>4. CASE Handle
  BY <1>1, <1>4 DEF Handle
<1>5. CASE CutQueue \/ Resume \/ Fire
  BY <1>1, <1>5 DEF CutQueue, Resume, Fire
<1>6. CASE KilledRelay
  BY <1>6 DEF KilledRelay
<1>7. ASSUME NEW fails \in BOOLEAN, GetUpdates(fails) PROVE OffsetsBehind'
  BY <1>1, <1>7 DEF GetUpdates, Later
<1>8. ASSUME NEW fails \in BOOLEAN, SendReply(fails) \/ AppendOwn(fails) \/ PushLast(fails)
      PROVE  OffsetsBehind'
  BY <1>1, <1>8 DEF SendReply, AppendOwn, PushLast
<1>9. CASE Happens \/ (\E last \in Press : Consume(last)) \/ UNCHANGED relayVars
  BY <1>9 DEF Happens, Consume, relayVars
<1> QED BY <1>2, <1>3, <1>4, <1>5, <1>6, <1>7, <1>8, <1>9 DEF RelayNext

----------------------------------------------------------------------------
(* A step that loses nothing, and one that loses the update in hand and is *)
(* a kill or a refusal.                                                    *)
LEMMA NothingMissed ==
  ASSUME RelayType, RelayType', MissedPaid, Missed' \subseteq Missed,
         killed' >= killed, refused' >= refused
  PROVE  MissedPaid'
<1>1. IsFiniteSet(Missed)
  BY UpdatesAreNumbers, FS_Subset DEF Missed
<1>2. IsFiniteSet(Missed') /\ Cardinality(Missed') <= Cardinality(Missed)
  BY <1>1, FS_Subset
<1>3. Cardinality(Missed) \in Nat /\ Cardinality(Missed') \in Nat
  BY <1>1, <1>2, FS_CardinalityType
<1> QED BY <1>2, <1>3, UpdatesAreNumbers DEF MissedPaid, RelayType

LEMMA OneMore ==
  ASSUME NEW m \in Nat, NEW n \in Nat, NEW k \in Nat, NEW l \in Nat,
         NEW i \in Nat, NEW j \in Nat, m <= k + l, n <= m + 1,
         \/ i = k + 1 /\ j = l
         \/ i = k /\ j = l + 1
  PROVE  n <= i + j
OBVIOUS

LEMMA OneMissed ==
  ASSUME RelayType, RelayType', MissedPaid, Missed' \subseteq Missed \cup {hand},
         \/ killed' = killed + 1 /\ refused' = refused
         \/ killed' = killed /\ refused' = refused + 1
  PROVE  MissedPaid'
<1>1. IsFiniteSet(Missed)
  BY UpdatesAreNumbers, FS_Subset DEF Missed
<1>2. /\ IsFiniteSet(Missed \cup {hand})
      /\ Cardinality(Missed \cup {hand}) \in {Cardinality(Missed), Cardinality(Missed) + 1}
  BY <1>1, FS_AddElement
<1>3. IsFiniteSet(Missed') /\ Cardinality(Missed') <= Cardinality(Missed \cup {hand})
  BY <1>2, FS_Subset
<1>4. Cardinality(Missed) \in Nat /\ Cardinality(Missed') \in Nat
  BY <1>1, <1>3, FS_CardinalityType
<1>5. Cardinality(Missed') <= Cardinality(Missed) + 1
  BY <1>2, <1>3, <1>4
<1>6. /\ killed \in Nat /\ refused \in Nat /\ killed' \in Nat /\ refused' \in Nat
      /\ Cardinality(Missed) <= killed + refused
  BY UpdatesAreNumbers DEF MissedPaid, RelayType
<1>7. Cardinality(Missed') <= killed' + refused'
  BY <1>4, <1>5, <1>6, OneMore
<1> QED BY <1>7 DEF MissedPaid

(* A line pushed puts no update before it that was not there.              *)
LEMMA PushPasses ==
  ASSUME RelayType, RelayType', OffsetsBehind, NEW fails \in BOOLEAN, PushLast(fails)
  PROVE  Missed' \subseteq IF fails THEN Missed \cup {hand} ELSE Missed
<1> USE UpdatesAreNumbers DEF outside, ours, sessions, mishaps
<1>1. /\ hand \in Press /\ doing = "push" /\ doing' \in {"cut", "resume"}
      /\ UNCHANGED <<outside, forgotten, hand, stored, ownLast, dropped, replied, sessions>>
  BY DEF PushLast, OffsetsBehind, Delivering
<1>2. hand \in Nat /\ ownLast \in Nat /\ mark \in Nat /\ Lines(queue) \subseteq Nat
  BY LinesArePresses DEF RelayType, Offset
<1>3. /\ Lines(queue) \subseteq Lines(queue') /\ Lines(queue') \subseteq Lines(queue) \cup {ownLast}
      /\ ~fails /\ ownLast # 0 => ownLast \in Lines(queue')
  <2>1. CASE fails \/ ownLast = 0
    BY <2>1 DEF PushLast
  <2>2. CASE ~fails /\ ownLast # 0
    BY <2>2, PushedLine DEF PushLast, RelayType
  <2> QED BY <2>1, <2>2
<1>4. ASSUME NEW u \in Press \cup Text, Passed(u)', ~Reachable(u)', u # hand
      PROVE  Passed(u) /\ ~Reachable(u)
  <2>1. Passed(u)
    BY <1>1, <1>2, <1>3, <1>4 DEF Passed
  <2>2. ~Reachable(u)
    BY <1>1, <1>3, <1>4 DEF Reachable
  <2> QED BY <2>1, <2>2
<1>5. ASSUME ~fails, ~Reachable(hand)' PROVE Passed(hand) /\ ~Reachable(hand)
  <2>1. hand \notin Text
    BY <1>1, RelayUpdates
  <2>2. ~Reachable(hand)
    BY <1>1, <1>3, <1>5, <2>1 DEF Reachable
  <2>3. CASE ownLast = hand
    <3>1. hand \in Lines(queue') /\ hand # 0
      BY <1>1, <1>3, <1>5, <2>3
    <3>2. hand < mark
      BY <1>1, <1>2, <1>5, <2>1, <3>1 DEF Reachable
    <3> QED BY <2>2, <3>2 DEF Passed
  <2>4. CASE ownLast # hand
    BY <1>1, <2>2, <2>4 DEF Passed, HandDone
  <2> QED BY <2>3, <2>4
<1>6. hand' = hand
  BY <1>1
<1> QED BY <1>4, <1>5, <1>6 DEF Missed

(* What a cut takes from the queue was read, or is dropped, or was missed. *)
LEMMA CutPasses ==
  ASSUME RelayType, OffsetsBehind, CutQueue
  PROVE  Missed' \subseteq Missed
<1> USE UpdatesAreNumbers DEF outside, ours, sessions, mishaps
<1>1. /\ hand \in Press /\ doing = "cut" /\ doing' = "resume"
      /\ UNCHANGED <<outside, forgotten, hand, stored, ownLast, replied, sessions>>
      /\ dropped' = dropped \cup {u \in Lines(queue) \ Lines(queue') : u >= mark /\ u \notin read}
  BY DEF CutQueue, OffsetsBehind, Delivering
<1>2. mark \in Nat /\ Lines(queue) \subseteq Nat
  BY LinesArePresses DEF RelayType, Offset
<1>3. Lines(queue') \subseteq Lines(queue)
  BY CutKeepsOld
<1>4. ASSUME NEW u \in Press \cup Text, Passed(u)' PROVE Passed(u)
  BY <1>1, <1>3, <1>4 DEF Passed, HandDone
<1>5. ASSUME NEW u \in Press \cup Text, Reachable(u) PROVE Reachable(u)'
  BY <1>1, <1>5 DEF Reachable
<1> QED BY <1>4, <1>5 DEF Missed

(* A session that reads passes only what a later line had passed already.  *)
LEMMA ReadPasses ==
  ASSUME RelayType, RelayType', NEW last \in Press, Consume(last)
  PROVE  Missed' \subseteq Missed
<1> USE UpdatesAreNumbers DEF outside, ours, sessions, mishaps
<1>1. /\ last \in Lines(queue) /\ last >= mark /\ mark' = last + 1
      /\ read' = read \cup {u \in Lines(queue) : u >= mark /\ u <= last}
      /\ UNCHANGED <<newest, forgotten, doing, hand, upto, ours, sessions, mishaps>>
  BY DEF Consume
<1>2. mark \in Nat /\ Lines(queue) \subseteq Nat /\ last \in Nat
  BY LinesArePresses DEF RelayType, Offset
<1>3. ASSUME NEW u \in Press \cup Text, ~Reachable(u)' PROVE ~Reachable(u)
  BY <1>1, <1>2, <1>3 DEF Reachable
<1>4. ASSUME NEW u \in Press \cup Text, Passed(u)', ~Reachable(u)' PROVE Passed(u)
  <2>1. CASE u < mark'
    <3>1. CASE u < last
      BY <1>1, <3>1 DEF Passed
    <3>2. CASE u = last
      <4>1. u \in read' /\ u \notin Text
        BY <1>1, <1>2, <3>2, RelayUpdates
      <4> QED BY <1>4, <4>1 DEF Reachable
    <3> QED BY <1>1, <1>2, <2>1, <3>1, <3>2
  <2>2. CASE ~(u < mark')
    BY <1>1, <1>4, <2>2 DEF Passed, HandDone
  <2> QED BY <2>1, <2>2
<1> QED BY <1>3, <1>4 DEF Missed

(* Telegram and the relay lose no more updates than there were kills and   *)
(* refusals.                                                               *)
LEMMA MissedStep ==
  ASSUME RelayType, RelayType', OffsetsBehind, MissedPaid, [RelayNext]_relayVars
  PROVE  MissedPaid'
<1> USE UpdatesAreNumbers DEF outside, ours, sessions, mishaps
<1>1. /\ stored \in Nat /\ forgotten \in Nat /\ hand \in Nat /\ upto \in Nat /\ newest \in Nat
      /\ killed \in Nat /\ refused \in Nat /\ mark \in Nat /\ ownLast \in Nat
  BY DEF RelayType, Offset
<1>2. CASE TakeNext
  <2>1. Missed' \subseteq Missed
    BY <1>1, <1>2 DEF TakeNext, Missed, Passed, Reachable, HandDone, OffsetsBehind
  <2> QED BY <1>1, <1>2, <2>1, NothingMissed DEF TakeNext
<1>3. CASE WriteOffset
  <2>1. Missed' \subseteq Missed
    BY <1>1, <1>3 DEF WriteOffset, Missed, Passed, Reachable, HandDone, OffsetsBehind
  <2> QED BY <1>1, <1>3, <2>1, NothingMissed DEF WriteOffset
<1>4. CASE WriteFails
  <2>1. Missed' \subseteq Missed
    BY <1>1, <1>4 DEF WriteFails, Missed, Passed, Reachable, HandDone, OffsetsBehind
  <2> QED BY <1>1, <1>4, <2>1, NothingMissed DEF WriteFails
<1>5. CASE Handle
  <2>1. ASSUME NEW u \in Press \cup Text, Passed(u)' PROVE Passed(u)
    BY <1>1, <1>5, <2>1 DEF Handle, Passed, HandDone
  <2>2. Missed' \subseteq Missed
    BY <1>5, <2>1 DEF Handle, Missed, Reachable
  <2> QED BY <1>1, <1>5, <2>2, NothingMissed DEF Handle
<1>6. CASE CutQueue
  BY <1>1, <1>6, CutPasses, NothingMissed DEF CutQueue
<1>7. CASE Resume \/ Fire
  <2>1. /\ UNCHANGED <<outside, forgotten, hand, stored, ownLast, queue, dropped, replied, mishaps>>
        /\ doing \in {"resume", "fire"} /\ doing' \in {"next", "fire"}
    BY <1>7 DEF Resume, Fire
  <2>2. Missed' \subseteq Missed
    BY <1>1, <2>1 DEF Missed, Passed, Reachable, HandDone
  <2> QED BY <1>1, <2>1, <2>2, NothingMissed
<1>8. CASE KilledRelay
  <2>1. Missed' \subseteq Missed \cup {hand}
    BY <1>1, <1>8 DEF KilledRelay, Missed, Passed, Reachable, HandDone, OffsetsBehind
  <2> QED BY <1>1, <1>8, <2>1, OneMissed DEF KilledRelay
<1>9. ASSUME NEW answer \in BOOLEAN, GetUpdates(answer) PROVE MissedPaid'
  <2>1. Missed' \subseteq Missed
    BY <1>1, <1>9 DEF GetUpdates, Later, Missed, Passed, Reachable, HandDone
  <2> QED BY <1>1, <1>9, <2>1, NothingMissed DEF GetUpdates
<1>10. ASSUME NEW fails \in BOOLEAN, SendReply(fails) PROVE MissedPaid'
  <2>1. hand \in Text /\ hand \notin Press
    BY <1>10, RelayUpdates DEF SendReply, OffsetsBehind
  <2>2. CASE fails
    <3>1. Missed' \subseteq Missed \cup {hand}
      BY <1>1, <1>10, <2>1, <2>2 DEF SendReply, Missed, Passed, Reachable, HandDone
    <3> QED BY <1>1, <1>10, <2>2, <3>1, OneMissed DEF SendReply, Refuse
  <2>3. CASE ~fails
    <3>1. Missed' \subseteq Missed
      BY <1>1, <1>10, <2>1, <2>3 DEF SendReply, Missed, Passed, Reachable, HandDone
    <3> QED BY <1>1, <1>10, <2>3, <3>1, NothingMissed DEF SendReply, Refuse
  <2> QED BY <2>2, <2>3
<1>11. ASSUME NEW fails \in BOOLEAN, AppendOwn(fails) PROVE MissedPaid'
  <2>1. ASSUME NEW u \in Press \cup Text, Passed(u)', u # hand PROVE Passed(u)
    BY <1>1, <1>11, <2>1 DEF AppendOwn, Passed, HandDone
  <2>2. CASE fails
    <3>1. Missed' \subseteq Missed \cup {hand}
      BY <1>11, <2>1 DEF AppendOwn, Missed, Reachable
    <3> QED BY <1>1, <1>11, <2>2, <3>1, OneMissed DEF AppendOwn, Refuse
  <2>3. CASE ~fails
    <3>1. Passed(hand)' => Passed(hand)
      BY <1>1, <1>11, <2>3 DEF AppendOwn, Passed, HandDone
    <3>2. Missed' \subseteq Missed
      BY <1>11, <2>1, <3>1 DEF AppendOwn, Missed, Reachable
    <3> QED BY <1>1, <1>11, <2>3, <3>2, NothingMissed DEF AppendOwn, Refuse
  <2> QED BY <2>2, <2>3
<1>12. ASSUME NEW fails \in BOOLEAN, PushLast(fails) PROVE MissedPaid'
  <2>1. killed' = killed /\ refused' = IF fails THEN refused + 1 ELSE refused
    BY <1>12 DEF PushLast, Refuse
  <2> QED BY <1>1, <1>12, <2>1, PushPasses, OneMissed, NothingMissed
<1>13. ASSUME NEW last \in Press, Consume(last) PROVE MissedPaid'
  BY <1>1, <1>13, ReadPasses, NothingMissed DEF Consume
<1>14. CASE Happens
  <2>1. Missed' \subseteq Missed
    BY <1>14 DEF Happens, Missed, Passed, Reachable, HandDone
  <2> QED BY <1>1, <1>14, <2>1, NothingMissed DEF Happens
<1>15. CASE UNCHANGED relayVars
  BY <1>15 DEF relayVars, MissedPaid, Missed, Passed, Reachable, HandDone
<1> QED BY <1>2, <1>3, <1>4, <1>5, <1>6, <1>7, <1>8, <1>9, <1>10, <1>11, <1>12, <1>13, <1>14,
           <1>15 DEF RelayNext

----------------------------------------------------------------------------
(* One more delivery of a press that had none, or none that was answered.  *)
LEMMA AttemptOnce ==
  ASSUME RelayType, hand \in Press, \A u \in Press \ unsure : given[u] <= 1,
         given[hand] = 0 \/ hand \in unsure, NEW a \in BOOLEAN, NEW k \in BOOLEAN, Attempt(a, k)
  PROVE  /\ \A u \in Press \ unsure' : given'[u] <= 1
         /\ \A u \in Press : u # hand => given'[u] = given[u]
         /\ ~k => given'[hand] = 0 \/ hand \in unsure'
<1>1. unsure \subseteq unsure' /\ given \in [Press -> Nat]
  BY DEF Attempt, RelayType
<1>2. \A u \in Press : u # hand => given'[u] = given[u]
  BY <1>1 DEF Attempt
<1>3. hand \notin unsure' => given'[hand] <= 1
  BY <1>1 DEF Attempt
<1>4. ~k => given'[hand] = 0 \/ hand \in unsure'
  BY <1>1 DEF Attempt
<1> QED BY <1>1, <1>2, <1>3, <1>4

(* While the offset file was never left empty every step keeps the presses *)
(* to one turn each.                                                       *)
LEMMA OneTurnStep ==
  ASSUME RelayType, RelayType', OffsetsBehind, ~wiped', ~wiped => OneTurn,
         [RelayNext]_relayVars
  PROVE  OneTurn'
<1> USE UpdatesAreNumbers DEF outside, ours, sessions, mishaps
<1>1. /\ stored \in Nat /\ forgotten \in Nat /\ hand \in Nat /\ upto \in Nat /\ newest \in Nat
      /\ refused \in Nat
  BY DEF RelayType, Offset
<1>0. Press \subseteq Nat \ {0} /\ given \in [Press -> Nat]
  BY DEF RelayType
<1>2. ~wiped /\ OneTurn
  <2>1. wiped' = wiped \/ WriteFails \/ KilledRelay
    BY DEF RelayNext, Happens, TakeNext, WriteOffset, Handle, CutQueue, Resume, Fire, GetUpdates,
           SendReply, AppendOwn, PushLast, Consume, relayVars
  <2>2. wiped => wiped'
    BY <2>1, Zenon DEF WriteFails, KilledRelay
  <2> QED BY <2>2, Zenon
<1>3. CASE TakeNext
  BY <1>0, <1>1, <1>2, <1>3 DEF TakeNext, OneTurn, Touched, Working, Delivering, OffsetsBehind, Later
<1>4. CASE WriteOffset
  BY <1>0, <1>1, <1>2, <1>4 DEF WriteOffset, OneTurn, Touched, Working, Delivering
<1>5. CASE WriteFails
  BY <1>2, <1>5 DEF WriteFails
<1>6. CASE Handle
  BY <1>0, <1>1, <1>2, <1>6 DEF Handle, OneTurn, Touched, Working, Delivering, OffsetsBehind, Later
<1>7. CASE CutQueue
  <2>1. /\ doing = "cut" /\ doing' = "resume"
        /\ UNCHANGED <<outside, forgotten, hand, upto, stored, ownLast, replied, sessions, mishaps>>
    BY <1>7 DEF CutQueue
  <2>2. \A u \in Press : Touched(u)' => Touched(u)
    BY <1>7, <2>1, CutKeepsOld DEF Touched
  <2>3. refused' = 0 => \A i, j \in DOMAIN queue' : queue'[i] = queue'[j] => i = j
    BY <1>2, <1>7, <2>1, CutKeepsOld DEF OneTurn
  <2> QED BY <1>0, <1>1, <1>2, <2>1, <2>2, <2>3 DEF OneTurn, Working, Delivering
<1>8. CASE Resume
  <2>1. /\ doing = "resume" /\ hand \in Press /\ stored = hand + 1 /\ doing' \in {"next", "fire"}
        /\ given[hand] = 0 /\ \A u \in Press \ unsure : given[u] <= 1
        /\ UNCHANGED <<outside, forgotten, hand, upto, ours, mishaps>>
    BY <1>2, <1>8 DEF Resume, OneTurn, OffsetsBehind, Working, Delivering
  <2>2. /\ \A u \in Press \ unsure' : given'[u] <= 1
        /\ \A u \in Press : u # hand => given'[u] = given[u]
        /\ doing' = "fire" => given'[hand] = 0 \/ hand \in unsure'
    <3>1. CASE UNCHANGED <<given, unsure>>
      BY <2>1, <3>1
    <3>2. ASSUME NEW a \in BOOLEAN, NEW k \in BOOLEAN, Attempt(a, k),
                 doing' = IF k THEN "next" ELSE "fire"
          PROVE  /\ \A u \in Press \ unsure' : given'[u] <= 1
                 /\ \A u \in Press : u # hand => given'[u] = given[u]
                 /\ doing' = "fire" => given'[hand] = 0 \/ hand \in unsure'
      BY <2>1, <3>2, AttemptOnce
    <3> QED BY <1>8, <3>1, <3>2 DEF Resume
  <2>3. \A u \in Press : Touched(u)' => Touched(u) \/ u = hand
    BY <2>1, <2>2 DEF Touched
  <2> QED BY <1>0, <1>1, <1>2, <2>1, <2>2, <2>3 DEF OneTurn, Working, Delivering, Later
<1>9. CASE Fire
  <2>1. /\ doing = "fire" /\ hand \in Press /\ stored = hand + 1 /\ doing' \in {"next", "fire"}
        /\ given[hand] = 0 \/ hand \in unsure
        /\ \A u \in Press \ unsure : given[u] <= 1
        /\ UNCHANGED <<outside, forgotten, hand, upto, ours, mishaps>>
    BY <1>2, <1>9 DEF Fire, OneTurn, OffsetsBehind, Working, Delivering
  <2>2. /\ \A u \in Press \ unsure' : given'[u] <= 1
        /\ \A u \in Press : u # hand => given'[u] = given[u]
        /\ doing' = "fire" => given'[hand] = 0 \/ hand \in unsure'
    <3>1. CASE doing' = "next" /\ UNCHANGED sessions
      BY <2>1, <3>1
    <3>2. ASSUME NEW a \in BOOLEAN, NEW k \in BOOLEAN, Attempt(a, k), k => doing' = "next"
          PROVE  /\ \A u \in Press \ unsure' : given'[u] <= 1
                 /\ \A u \in Press : u # hand => given'[u] = given[u]
                 /\ doing' = "fire" => given'[hand] = 0 \/ hand \in unsure'
      BY <2>1, <3>2, AttemptOnce
    <3> QED BY <1>9, <3>1, <3>2 DEF Fire
  <2>3. \A u \in Press : Touched(u)' => Touched(u) \/ u = hand
    BY <2>1, <2>2 DEF Touched
  <2> QED BY <1>0, <1>1, <1>2, <2>1, <2>2, <2>3 DEF OneTurn, Working, Delivering, Later
<1>10. CASE KilledRelay
  <2>1. /\ doing # "write" /\ doing' = "poll" /\ doing # "poll"
        /\ UNCHANGED <<outside, forgotten, ours, given, unsure, refused>>
    BY <1>10 DEF KilledRelay
  <2> QED BY <1>0, <1>1, <1>2, <2>1 DEF OneTurn, Touched, Working, Delivering, Later, RelayType
<1>11. ASSUME NEW answer \in BOOLEAN, GetUpdates(answer) PROVE OneTurn'
  BY <1>0, <1>1, <1>2, <1>11 DEF GetUpdates, Later, OneTurn, Touched, Working, Delivering
<1>12. ASSUME NEW fails \in BOOLEAN, SendReply(fails) PROVE OneTurn'
  BY <1>0, <1>1, <1>2, <1>12 DEF SendReply, Refuse, OneTurn, Touched, Working, Delivering, Later
<1>13. ASSUME NEW fails \in BOOLEAN, AppendOwn(fails) PROVE OneTurn'
  BY <1>0, <1>1, <1>2, <1>13 DEF AppendOwn, Refuse, OneTurn, Touched, Working, Delivering, OffsetsBehind
<1>14. ASSUME NEW fails \in BOOLEAN, PushLast(fails) PROVE OneTurn'
  <2>1. /\ doing = "push" /\ doing' \in {"resume", "cut"} /\ hand \in Press
        /\ hand \notin Lines(queue) /\ stored = hand + 1 /\ given[hand] = 0
        /\ UNCHANGED <<outside, forgotten, hand, upto, stored, ownLast, dropped, replied, sessions>>
    BY <1>2, <1>14 DEF PushLast, OneTurn, OffsetsBehind, Working, Delivering
  <2>2. refused' = 0 => refused = 0 /\ ~fails /\ ownLast = hand
    BY <1>0, <1>1, <1>2, <1>14 DEF PushLast, Refuse, OneTurn
  <2>3. Lines(queue') \subseteq Lines(queue) \cup {ownLast}
    BY <1>14, PushedLine DEF PushLast, RelayType
  <2>4. \A u \in Press : Touched(u)' => Touched(u)
    BY <2>1, <2>3 DEF Touched
  <2>5. ASSUME refused' = 0 PROVE \A i, j \in DOMAIN queue' : queue'[i] = queue'[j] => i = j
    <3>1. /\ queue' = Append(queue, hand) /\ queue \in Seq(Press)
          /\ \A i, j \in DOMAIN queue : queue[i] = queue[j] => i = j
      BY <1>0, <1>1, <1>2, <1>14, <2>1, <2>2, <2>5 DEF PushLast, OneTurn, RelayType
    <3> QED BY <2>1, <3>1, PushedLine
  <2> QED BY <1>0, <1>1, <1>2, <2>1, <2>4, <2>5 DEF OneTurn, Working, Delivering
<1>15. CASE Happens \/ (\E last \in Press : Consume(last)) \/ UNCHANGED relayVars
  <2>1. UNCHANGED <<forgotten, doing, hand, upto, ours, sessions, mishaps>>
    BY <1>15 DEF Happens, Consume, relayVars
  <2> QED BY <1>2, <2>1 DEF OneTurn, Touched, Later
<1> QED BY <1>3, <1>4, <1>5, <1>6, <1>7, <1>8, <1>9, <1>10, <1>11, <1>12, <1>13, <1>14, <1>15
        DEF RelayNext

(* Nothing has happened at first.                                          *)
LEMMA RelayInvInit == RelayInit => RelayInv
<1> SUFFICES ASSUME RelayInit PROVE RelayInv
  OBVIOUS
<1>1. OffsetsBehind
  BY DEF RelayInit, OffsetsBehind, Delivering, Working
<1>6. RelayType
  <2>1. wiped \in BOOLEAN
    BY Zenon DEF RelayInit
  <2>2. queue \in Seq(Press)
    BY DEF RelayInit
  <2>3. 0 \in 0..MaxUpdates /\ 0 \in 0..MaxKilled /\ 0 \in 0..MaxRefused /\ 0 \in Offset
    BY UpdatesAreNumbers DEF Offset
  <2> QED BY <2>1, <2>2, <2>3 DEF RelayInit, RelayType
<1>2. Lines(queue) = {}
  BY DEF RelayInit, Lines
<1>3. Missed = {}
  BY <1>2, UpdatesAreNumbers DEF RelayInit, Missed, Passed
<1>4. MissedPaid
  BY <1>3, FS_EmptySet DEF MissedPaid, RelayInit
<1>5. OneTurn
  BY <1>2, UpdatesAreNumbers DEF RelayInit, OneTurn, Touched, Working, Delivering
<1> QED BY <1>1, <1>4, <1>5, <1>6 DEF RelayInv

LEMMA RelayInvStep == RelayInv /\ [RelayNext]_relayVars => RelayInv'
BY RelayTypeStep, OffsetsStep, MissedStep, OneTurnStep DEF RelayInv

(* Every reachable state of the relay has its types.                       *)
THEOREM RelayTypeCorrect == RelaySpec => []RelayType
<1>1. RelayInv => RelayType
  BY DEF RelayInv
<1> QED BY <1>1, RelayInvInit, RelayInvStep, PTL DEF RelaySpec

(* However many updates a batch has and whatever order kills, refusals and *)
(* reads come in: Telegram has forgotten no more updates that reached      *)
(* nobody than the relay was killed or refused (relay.sh, the offset       *)
(* stored before each update).                                             *)
THEOREM EachKillCostsOne == RelaySpec => []KillCostsOne
<1>1. RelayInv => KillCostsOne
  <2> SUFFICES ASSUME RelayInv PROVE KillCostsOne
    OBVIOUS
  <2>1. Unseen \subseteq Missed
    BY DEF Unseen, Missed, Passed
  <2>2. IsFiniteSet(Missed)
    BY UpdatesAreNumbers, FS_Subset DEF Missed
  <2>3. IsFiniteSet(Unseen) /\ Cardinality(Unseen) <= Cardinality(Missed)
    BY <2>1, <2>2, FS_Subset
  <2>4. Cardinality(Unseen) \in Nat /\ Cardinality(Missed) \in Nat
    BY <2>2, <2>3, FS_CardinalityType
  <2> QED BY <2>3, <2>4, UpdatesAreNumbers DEF RelayInv, RelayType, MissedPaid, KillCostsOne
<1> QED BY <1>1, RelayInvInit, RelayInvStep, PTL DEF RelaySpec

(* While the offset file was never left empty no press is given to two     *)
(* sessions unless a delivery went unanswered, and none is queued twice    *)
(* unless something was refused, whatever kills come (relay.sh, resume     *)
(* before fire).                                                           *)
THEOREM SecondTimesHaveReasons == RelaySpec => []SecondTimeHasReason
<1>1. RelayInv => SecondTimeHasReason
  <2> SUFFICES ASSUME RelayInv, ~wiped PROVE SecondTimeHasReason
    BY DEF SecondTimeHasReason
  <2>1. OneTurn
    BY DEF RelayInv
  <2>2. ASSUME refused = 0, NEW u \in Press PROVE Times(u) <= 1
    <3> DEFINE at == {i \in DOMAIN queue : queue[i] = u}
    <3>1. \A i, j \in at : i = j
      BY <2>1, <2>2 DEF OneTurn
    <3>2. CASE at = {}
      BY <3>2, FS_EmptySet DEF Times
    <3>3. CASE at # {}
      <4>1. PICK i \in at : TRUE
        BY <3>3
      <4>2. at = {i}
        BY <3>1, <4>1
      <4> QED BY <4>2, FS_Singleton DEF Times
    <3> QED BY <3>2, <3>3
  <2> QED BY <2>1, <2>2 DEF OneTurn, SecondTimeHasReason
<1> QED BY <1>1, RelayInvInit, RelayInvStep, PTL DEF RelaySpec

----------------------------------------------------------------------------
(* Beside the order itself: the relay's last line is the newest of all,    *)
(* and the cursor stands right behind a line that was read.                *)
LastIsNewest ==
  /\ \A u \in Lines(queue) : u <= ownLast
  /\ mark = 0 \/ (mark - 1 \in read /\ mark - 1 <= ownLast)

OrderInv == RelayInv /\ QueueInOrder /\ (~wiped => LastIsNewest)

(* A line at the end that is no older than the others keeps the order, and *)
(* so does a cut.                                                          *)
LEMMA PushedInOrder ==
  ASSUME NEW q \in Seq(Press), NEW l \in Press, \A u \in Lines(q) : u <= l,
         \A i, j \in DOMAIN q : i <= j => q[i] <= q[j]
  PROVE  \A i, j \in DOMAIN Append(q, l) : i <= j => Append(q, l)[i] <= Append(q, l)[j]
<1>1. /\ Len(q) \in Nat
      /\ DOMAIN q = 1..Len(q) /\ DOMAIN Append(q, l) = 1..(Len(q) + 1)
      /\ \A i \in 1..Len(q) : Append(q, l)[i] = q[i]
      /\ Append(q, l)[Len(q) + 1] = l
  BY AppendProperties, LenProperties
<1>2. l \in Nat /\ \A i \in 1..Len(q) : q[i] <= l
  BY <1>1, UpdatesAreNumbers DEF Lines
<1>3. ASSUME NEW i \in 1..(Len(q) + 1), NEW j \in 1..(Len(q) + 1), i <= j
      PROVE  Append(q, l)[i] <= Append(q, l)[j]
  <2>1. CASE j = Len(q) + 1
    <3>1. i \in 1..Len(q) \/ i = Len(q) + 1
      BY <1>1
    <3> QED BY <1>1, <1>2, <2>1, <3>1
  <2>2. CASE j # Len(q) + 1
    <3>1. i \in 1..Len(q) /\ j \in 1..Len(q)
      BY <1>1, <1>3, <2>2
    <3> QED BY <1>1, <1>3, <3>1
  <2> QED BY <2>1, <2>2
<1> QED BY <1>1, <1>3

LEMMA CutInOrder ==
  ASSUME RelayType, CutQueue, \A i, j \in DOMAIN queue : i <= j => queue[i] <= queue[j]
  PROVE  \A i, j \in DOMAIN queue' : i <= j => queue'[i] <= queue'[j]
<1> DEFINE n == Len(queue)
           m == n - queueKept + 1
<1>1. queue \in Seq(Press) /\ n \in Nat /\ DOMAIN queue = 1..n /\ \A i \in 1..n : queue[i] \in Press
  BY LenProperties, ElementOfSeq DEF RelayType
<1>2. CASE n <= queueCap
  BY <1>1, <1>2 DEF CutQueue
<1>3. CASE ~(n <= queueCap)
  <2>1. m \in 1..n /\ m \in Int /\ n \in Int
    BY <1>1, <1>3, RelayUpdates
  <2>2. queue' = SubSeq(queue, m, n)
    BY <1>3 DEF CutQueue
  <2>3. \A i \in m..n : queue[i] \in Press
    BY <1>1, <2>1
  <2> HIDE DEF m, n
  <2>4. /\ queue' \in Seq(Press) /\ Len(queue') = n - m + 1
        /\ \A i \in 1..(n - m + 1) : queue'[i] = queue[m + i - 1]
    BY <2>1, <2>2, <2>3, SubSeqProperties
  <2>5. DOMAIN queue' = 1..(n - m + 1)
    BY <2>4, LenProperties
  <2>6. \A i \in 1..(n - m + 1) : m + i - 1 \in 1..n
    BY <1>1, <2>1
  <2>7. ASSUME NEW i \in 1..(n - m + 1), NEW j \in 1..(n - m + 1), i <= j
        PROVE  queue'[i] <= queue'[j]
    <3>1. m + i - 1 <= m + j - 1
      BY <2>1, <2>7
    <3> QED BY <1>1, <2>4, <2>6, <2>7, <3>1
  <2> QED BY <2>5, <2>7
<1> QED BY <1>2, <1>3

(* A press comes to the queue once the older ones had their turn.          *)
LEMMA OrderStep ==
  ASSUME OrderInv, RelayInv', ~wiped', [RelayNext]_relayVars
  PROVE  QueueInOrder' /\ LastIsNewest'
<1> USE UpdatesAreNumbers DEF outside, ours, sessions, mishaps
<1>1. /\ ~wiped /\ OneTurn /\ LastIsNewest /\ RelayType
      /\ \A i, j \in DOMAIN queue : i <= j => queue[i] <= queue[j]
      /\ \A u \in Lines(queue) : u < mark => u \in read
  <2>1. wiped' = wiped \/ WriteFails \/ KilledRelay
    BY DEF RelayNext, Happens, TakeNext, WriteOffset, Handle, CutQueue, Resume, Fire, GetUpdates,
           SendReply, AppendOwn, PushLast, Consume, relayVars
  <2>2. wiped => wiped'
    BY <2>1, Zenon DEF WriteFails, KilledRelay
  <2>3. ~wiped
    BY <2>2, Zenon
  <2> QED BY <2>3 DEF OrderInv, RelayInv, QueueInOrder
<1>2. /\ mark \in Nat /\ ownLast \in Nat /\ hand \in Nat /\ ownLast \in Press \cup {0}
      /\ queue \in Seq(Press) /\ Lines(queue) \subseteq Press
  BY <1>1, LinesArePresses DEF RelayType, Offset
<1>3. ASSUME UNCHANGED <<queue, mark, read>>, ownLast' \in Nat, ownLast <= ownLast'
      PROVE  QueueInOrder' /\ LastIsNewest'
  <2>1. \A u \in Lines(queue)' : u <= ownLast'
    <3>1. Lines(queue)' = Lines(queue)
      BY <1>3 DEF Lines
    <3>2. \A u \in Lines(queue) : u <= ownLast /\ u \in Nat
      BY <1>1, <1>2 DEF LastIsNewest
    <3> QED BY <1>2, <1>3, <3>1, <3>2
  <2>2. mark' = 0 \/ (mark' - 1 \in read' /\ mark' - 1 <= ownLast')
    BY <1>1, <1>2, <1>3 DEF LastIsNewest
  <2>3. QueueInOrder'
    BY <1>1, <1>3 DEF QueueInOrder, Lines
  <2> QED BY <2>1, <2>2, <2>3 DEF LastIsNewest
<1>4. ASSUME NEW fails \in BOOLEAN, AppendOwn(fails) PROVE QueueInOrder' /\ LastIsNewest'
  <2>1. hand \in Press /\ doing = "append"
    BY <1>4 DEF AppendOwn, OrderInv, RelayInv, OffsetsBehind, Delivering
  <2>2. ownLast \in Press => ownLast <= hand
    BY <1>1, <2>1 DEF OneTurn, Touched, Working, Delivering
  <2> QED BY <1>2, <1>3, <1>4, <2>1, <2>2 DEF AppendOwn
<1>5. ASSUME NEW fails \in BOOLEAN, PushLast(fails) PROVE QueueInOrder' /\ LastIsNewest'
  <2>1. UNCHANGED <<outside, ownLast>>
    BY <1>5 DEF PushLast
  <2>2. CASE fails \/ ownLast = 0
    BY <1>2, <1>3, <1>5, <2>1, <2>2 DEF PushLast
  <2>3. CASE ~fails /\ ownLast # 0
    <3>1. queue' = Append(queue, ownLast) /\ ownLast \in Press
      BY <1>2, <1>5, <2>3 DEF PushLast
    <3>2. Lines(queue') = Lines(queue) \cup {ownLast}
      BY <1>2, <3>1, PushedLine
    <3>3. \A i, j \in DOMAIN queue' : i <= j => queue'[i] <= queue'[j]
      BY <1>1, <1>2, <3>1, PushedInOrder DEF LastIsNewest
    <3>4. ownLast < mark => ownLast \in read
      BY <1>1, <1>2 DEF LastIsNewest
    <3>5. \A u \in Lines(queue') : u < mark' => u \in read'
      BY <1>1, <2>1, <3>2, <3>4
    <3>6. QueueInOrder'
      BY <3>3, <3>5 DEF QueueInOrder, Lines
    <3>7. LastIsNewest'
      BY <1>1, <1>2, <2>1, <3>2 DEF LastIsNewest, Lines
    <3> QED BY <3>6, <3>7
  <2> QED BY <2>2, <2>3
<1>6. CASE CutQueue
  <2>1. UNCHANGED <<outside, ownLast>>
    BY <1>6 DEF CutQueue
  <2>2. Lines(queue') \subseteq Lines(queue)
    BY <1>1, <1>6, CutKeepsOld
  <2>3. \A i, j \in DOMAIN queue' : i <= j => queue'[i] <= queue'[j]
    BY <1>1, <1>6, CutInOrder
  <2>4. QueueInOrder'
    BY <1>1, <2>1, <2>2, <2>3 DEF QueueInOrder, Lines
  <2>5. LastIsNewest'
    BY <1>1, <2>1, <2>2 DEF LastIsNewest, Lines
  <2> QED BY <2>4, <2>5
<1>7. ASSUME NEW last \in Press, Consume(last) PROVE QueueInOrder' /\ LastIsNewest'
  <2>1. /\ last \in Lines(queue) /\ last >= mark /\ mark' = last + 1 /\ UNCHANGED <<queue, ownLast>>
        /\ read' = read \cup {u \in Lines(queue) : u >= mark /\ u <= last}
    BY <1>7 DEF Consume
  <2>2. last \in Nat /\ last <= ownLast /\ last \in read'
    BY <1>1, <2>1 DEF LastIsNewest
  <2>3. \A u \in Lines(queue) : u < mark' => u \in read'
    BY <1>1, <1>2, <2>1, <2>2
  <2>4. QueueInOrder'
    BY <1>1, <2>1, <2>3 DEF QueueInOrder, Lines
  <2>5. LastIsNewest'
    BY <1>1, <2>1, <2>2 DEF LastIsNewest, Lines
  <2> QED BY <2>4, <2>5
<1>8. \/ UNCHANGED <<queue, mark, read, ownLast>>
      \/ CutQueue \/ (\E last \in Press : Consume(last))
      \/ \E fails \in BOOLEAN : AppendOwn(fails) \/ PushLast(fails)
  BY DEF RelayNext, Happens, TakeNext, WriteOffset, WriteFails, Handle, Resume, Fire, GetUpdates,
         SendReply, KilledRelay, relayVars
<1> QED BY <1>2, <1>3, <1>4, <1>5, <1>6, <1>7, <1>8

(* While the offset file was never left empty the queue is in order, and   *)
(* the reader's cursor passes over no line, whatever is killed, refused    *)
(* and cut (relay.sh, tail -n 1 of its own file; bot.go, readQueue).       *)
THEOREM QueueStaysInOrder == RelaySpec => []QueueInOrder
<1>1. RelayInit => OrderInv
  <2>1. RelayInit => QueueInOrder /\ LastIsNewest
    BY DEF RelayInit, QueueInOrder, LastIsNewest, Lines
  <2> QED BY <2>1, RelayInvInit DEF OrderInv
<1>2. OrderInv /\ [RelayNext]_relayVars => OrderInv'
  <2> SUFFICES ASSUME OrderInv, [RelayNext]_relayVars PROVE OrderInv'
    OBVIOUS
  <2>1. RelayInv'
    BY RelayInvStep DEF OrderInv
  <2>2. CASE wiped'
    BY <2>1, <2>2 DEF OrderInv, QueueInOrder
  <2>3. CASE ~wiped'
    BY <2>1, <2>3, OrderStep DEF OrderInv
  <2> QED BY <2>2, <2>3
<1>3. OrderInv => QueueInOrder
  BY DEF OrderInv
<1> QED BY <1>1, <1>2, <1>3, PTL DEF RelaySpec

(* The queue of the server is cut back behind every push: only a kill      *)
(* between the two leaves it a line longer, however many presses come and  *)
(* whatever is refused (relay.sh, PUSH).                                   *)
THEOREM QueueStaysCapped == RelaySpec => []QueueCapped
<1>1. RelayInit => QueueCapped
  BY RelayUpdates DEF RelayInit, QueueCapped
<1>2. ASSUME RelayType, RelayType', QueueCapped, [RelayNext]_relayVars PROVE QueueCapped'
  <2>1. /\ queueCap \in Nat /\ killed \in Nat /\ killed' \in Nat /\ queueKept \in 1..queueCap
        /\ Len(queue) \in Nat /\ queue \in Seq(Press)
    BY <1>2, RelayUpdates, LenProperties DEF RelayType
  <2>2. ASSUME NEW fails \in BOOLEAN, PushLast(fails) PROVE QueueCapped'
    <3>1. CASE fails \/ ownLast = 0
      BY <1>2, <2>1, <2>2, <3>1 DEF PushLast, QueueCapped
    <3>2. CASE ~(fails \/ ownLast = 0)
      <4>1. queue' = Append(queue, ownLast) /\ ownLast \in Press
        BY <1>2, <2>2, <3>2 DEF PushLast, RelayType
      <4>2. Len(queue') = Len(queue) + 1
        BY <2>1, <4>1, AppendProperties
      <4> QED BY <1>2, <2>1, <2>2, <3>2, <4>2 DEF PushLast, QueueCapped
    <3> QED BY <3>1, <3>2
  <2>3. CASE CutQueue
    <3>1. Len(queue') <= queueCap
      <4>1. CASE Len(queue) <= queueCap
        BY <2>3, <4>1 DEF CutQueue
      <4>2. CASE Len(queue) > queueCap
        <5> DEFINE m == Len(queue) - queueKept + 1
        <5>1. m \in 1..Len(queue) /\ queue' = SubSeq(queue, m, Len(queue))
          BY <2>1, <2>3, <4>2 DEF CutQueue
        <5>2. Len(queue') = Len(queue) - m + 1
          <6>1. \A i \in m..Len(queue) : queue[i] \in Press
            BY <2>1, <5>1, ElementOfSeq
          <6> HIDE DEF m
          <6> QED BY <2>1, <5>1, <6>1, SubSeqProperties
        <5> QED BY <2>1, <5>2
      <4> QED BY <2>1, <4>1, <4>2
    <3>2. doing' = "resume"
      BY <2>3 DEF CutQueue
    <3>3. Len(queue') \in Nat
      BY <1>2, LenProperties DEF RelayType
    <3> QED BY <2>1, <3>1, <3>2, <3>3 DEF QueueCapped
  <2>4. CASE KilledRelay
    BY <1>2, <2>1, <2>4 DEF KilledRelay, ours, QueueCapped
  <2>5. ASSUME ~CutQueue, ~KilledRelay, \A fails \in BOOLEAN : ~PushLast(fails)
        PROVE  QueueCapped'
    <3>1. queue' = queue /\ killed' = killed /\ (doing' = doing \/ doing # "cut")
      BY <1>2, <2>5 DEF RelayNext, Happens, TakeNext, WriteOffset, WriteFails, Handle, Resume, Fire,
           GetUpdates, SendReply, AppendOwn, Consume, ours, mishaps, relayVars
    <3> QED BY <1>2, <2>1, <3>1 DEF QueueCapped
  <2> QED BY <1>2, <2>2, <2>3, <2>4, <2>5
<1>3. QueueCapped /\ RelayInv /\ RelayInv' /\ [RelayNext]_relayVars => QueueCapped'
  BY <1>2 DEF RelayInv
<1> QED BY <1>1, <1>3, RelayInvInit, RelayInvStep, PTL DEF RelaySpec
=============================================================================
