---------------------------- MODULE CassetteLog -----------------------------
(***************************************************************************)
(* What internal/recorder promises the programs that use it, with nothing  *)
(* of how it keeps the promise: a cassette is a log of exchanges, each one  *)
(* entered once, with every trace identifier behind a marker that stands    *)
(* for that identifier alone for as long as the session lasts.  Concurrency *)
(* (the in-flight calls and their locks) and the counter behind the marker  *)
(* numbers are in Recorder, which implements this specification.            *)
(***************************************************************************)
EXTENDS Naturals, Sequences

CONSTANTS Req,      \* the calls of one session
          Id,       \* trace / correlation identifiers a vendor may send
          MayLose   \* whether the disk may fail in the middle of a save

VARIABLES log,      \* the entries of the open cassette
          marks,    \* identifier -> marker number, 0 = none given yet
          session,  \* number of the recorder that is open
          saved     \* the entries of the file

vars == <<log, marks, session, saved>>

NoMarks == [a \in Id |-> 0]

(* mask[a] is the marker that replaced identifier a, 0 if a was not masked; *)
(* raw is the set of identifiers left as they were.                         *)
Entry == [req : Req, run : Nat, mask : [Id -> Nat], raw : SUBSET Id]

TypeOK ==
    /\ log \in Seq(Entry)
    /\ marks \in [Id -> Nat]
    /\ session \in Nat
    /\ saved \in Seq(Entry)

-----------------------------------------------------------------------------

Init ==
    /\ log = <<>>
    /\ marks = NoMarks
    /\ session = 1
    /\ saved = <<>>

(* An identifier gets a marker nobody else has.                             *)
Mark(a) ==
    /\ marks[a] = 0
    /\ marks' \in [Id -> Nat]
    /\ marks'[a] # 0
    /\ \A b \in Id : marks[b] # marks'[a]
    /\ \A b \in Id \ {a} : marks'[b] = marks[b]
    /\ UNCHANGED <<log, session, saved>>

(* An exchange of this session is entered at the end of the log, once.      *)
Record ==
    /\ Len(log') = Len(log) + 1
    /\ LET e == log'[Len(log')]
       IN /\ log' = Append(log, e)
          /\ e \in Entry
          /\ e.run = session
          /\ \A i \in DOMAIN log : log[i].run = session => log[i].req # e.req
          /\ \A a \in Id : e.mask[a] \in {0, marks[a]}
    /\ UNCHANGED <<marks, session, saved>>

(* The file becomes the whole log: no entry is left out.                    *)
Save ==
    /\ log # <<>>
    /\ saved' = log
    /\ UNCHANGED <<log, marks, session>>

(* Or, where the disk may fail, no more than its beginning.                 *)
Lose ==
    /\ MayLose
    /\ \E n \in 0 .. Len(log) - 1 : saved' = SubSeq(log, 1, n)
    /\ UNCHANGED <<log, marks, session>>

(* A file of an earlier session is put in front of what this one recorded.  *)
Adopt ==
    /\ \A i \in DOMAIN saved : saved[i].run < session
    /\ \A i \in DOMAIN log : log[i].run = session
    /\ log' = saved \o log
    /\ UNCHANGED <<marks, session, saved>>

(* The process ends, at any moment; a new one starts with a new recorder.   *)
Reopen ==
    /\ session' = session + 1
    /\ log' = <<>>
    /\ marks' = NoMarks
    /\ UNCHANGED saved

Next ==
    \/ \E a \in Id : Mark(a)
    \/ Record
    \/ Save
    \/ Lose
    \/ Adopt
    \/ Reopen

Spec == Init /\ [][Next]_vars

-----------------------------------------------------------------------------

(* Within a session a marker means the same identifier in every entry, and  *)
(* an identifier is never shown under two markers.                          *)
SameMeaning(e, f) ==
    e.run = f.run =>
       \A a, b \in Id :
          /\ e.mask[a] # 0 /\ e.mask[a] = f.mask[b] => a = b
          /\ e.mask[a] # 0 /\ f.mask[a] # 0 => e.mask[a] = f.mask[a]

Correlated(entries) ==
    \A i, j \in DOMAIN entries : SameMeaning(entries[i], entries[j])

(* Markers preserve correlation, in the open log and in the file.           *)
MarkersCorrelate == Correlated(log) /\ Correlated(saved)
=============================================================================
