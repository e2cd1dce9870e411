----------------------------- MODULE ResumeMap -----------------------------
(***************************************************************************)
(* The resume map of the bot backend: a file of registrations, one line    *)
(* each.  RecordResumeSession appends a line and then trims the file to    *)
(* its newest maxResumeEntries lines by reading it and writing it anew;    *)
(* LookupResumeSession takes the newest line of a message whose chat id    *)
(* prints like the press's.  Nothing locks the file and the process can    *)
(* die between two steps.                                                  *)
(***************************************************************************)
EXTENDS Naturals, Sequences

CONSTANTS
  Sender,            \* calls that register a session
  Message,           \* messages with buttons
  Long,              \* those in a chat whose id has seven digits or more
  maxResumeEntries,
  MaxLines           \* bound: registrations made

ASSUME SomeEntries == maxResumeEntries \in Nat \ {0} /\ MaxLines \in Nat

VARIABLES
  lines,      \* the file: <<message, spelling of its chat id, session>>
  trimming,   \* per call: "idle", "read", "truncate", "fill"
  kept,       \* per call: the lines it writes back
  log,        \* every line ever appended
  disturbed   \* two calls overlapped, or one died before it had trimmed

resumeVars == <<lines, trimming, kept, log, disturbed>>

Session  == 1..MaxLines
Spelling == {"number", "text", "name"}   \* 375465077, "375465077", "@someone"
Line     == Message \X Spelling \X Session

ResumeType ==
  /\ lines \in Seq(Line) /\ log \in Seq(Line)
  /\ trimming \in [Sender -> {"idle", "read", "truncate", "fill"}]
  /\ kept \in [Sender -> Seq(Line)]
  /\ disturbed \in BOOLEAN

ResumeInit ==
  /\ lines = <<>> /\ log = <<>>
  /\ trimming = [s \in Sender |-> "idle"]
  /\ kept = [s \in Sender |-> <<>>]
  /\ disturbed = FALSE

Newest(ls) == IF Len(ls) <= maxResumeEntries THEN ls
              ELSE SubSeq(ls, Len(ls) - maxResumeEntries + 1, Len(ls))

(* The line is written with one append, with the chat id as the caller     *)
(* spelled it; every registration is a session of its own here.            *)
Record(s, m, spelling) ==
  /\ trimming[s] = "idle" /\ Len(log) < MaxLines
  /\ lines' = Append(lines, <<m, spelling, Len(log) + 1>>)
  /\ log' = Append(log, <<m, spelling, Len(log) + 1>>)
  /\ trimming' = [trimming EXCEPT ![s] = "read"]
  /\ disturbed' = (disturbed \/ \E t \in Sender : trimming[t] # "idle")
  /\ UNCHANGED kept

KeepOldest(s) ==
  /\ trimming[s] = "read" /\ Len(lines) > maxResumeEntries
  /\ trimming' = [trimming EXCEPT ![s] = "truncate"]
  /\ kept' = [kept EXCEPT ![s] = SubSeq(lines, 1, maxResumeEntries)]
  /\ UNCHANGED <<lines, log, disturbed>>

ReadLines(s) ==
  /\ trimming[s] = "read"
  /\ \/ Len(lines) <= maxResumeEntries
          /\ trimming' = [trimming EXCEPT ![s] = "idle"] /\ UNCHANGED kept
     \/ Len(lines) > maxResumeEntries
          /\ trimming' = [trimming EXCEPT ![s] = "truncate"]
          /\ kept' = [kept EXCEPT ![s] = Newest(lines)]
  /\ UNCHANGED <<lines, log, disturbed>>

Truncate(s) ==
  /\ trimming[s] = "truncate"
  /\ lines' = <<>>
  /\ trimming' = [trimming EXCEPT ![s] = "fill"]
  /\ UNCHANGED <<kept, log, disturbed>>

(* What was appended to the emptied file meanwhile is written over.        *)
WriteBack(s) ==
  /\ trimming[s] = "fill"
  /\ lines' = kept[s]
  /\ trimming' = [trimming EXCEPT ![s] = "idle"]
  /\ kept' = [kept EXCEPT ![s] = <<>>]
  /\ UNCHANGED <<log, disturbed>>

Killed(s) ==
  /\ trimming[s] # "idle"
  /\ trimming' = [trimming EXCEPT ![s] = "idle"]
  /\ kept' = [kept EXCEPT ![s] = <<>>]
  /\ disturbed' = (disturbed \/ trimming[s] = "fill")
  /\ UNCHANGED <<lines, log>>

ResumeNext ==
  \E s \in Sender :
    \/ \E m \in Message, spelling \in Spelling : Record(s, m, spelling)
    \/ ReadLines(s) \/ Truncate(s) \/ WriteBack(s) \/ Killed(s)

ResumeSpec == ResumeInit /\ [][ResumeNext]_resumeVars

----------------------------------------------------------------------------
(* The press names its chat by an integer, printed in full.  A line's      *)
(* number is read back as a float64, which prints with an exponent from    *)
(* seven digits on; a name is never resolved.                              *)
Matches(m, spelling) == spelling = "text" \/ (spelling = "number" /\ m \notin Long)

(* LookupResumeSession: the last line of m wins; 0 is no session.          *)
Lookup(ls, m) ==
  LET mine == {i \in 1..Len(ls) : ls[i][1] = m /\ Matches(m, ls[i][2])}
  IN  IF mine = {} THEN 0 ELSE ls[CHOOSE i \in mine : \A j \in mine : j <= i][3]

(* Of the registrations of its message whose chat id prints like its own,  *)
(* a press is handed the last, as long as that one is among the newest     *)
(* maxResumeEntries of all, unless two registrations overlapped or the     *)
(* process died inside the rewrite (RecordResumeSession, trimResumeMap,    *)
(* LookupResumeSession).                                                   *)
NewestSessionFound ==
  ~disturbed /\ (\A s \in Sender : trimming[s] # "fill")
    => \A m \in Message : Lookup(Newest(log), m) # 0 => Lookup(lines, m) = Lookup(log, m)

(* A message registered with its chat id as a number, the way the messages *)
(* documentation shows it, and still in the file: every press of it        *)
(* carries a session ("Every press then carries `session_id`").            *)
PressCarriesSession ==
  \A i \in 1..Len(lines) : lines[i][2] = "number" => Lookup(lines, lines[i][1]) # 0
=============================================================================
