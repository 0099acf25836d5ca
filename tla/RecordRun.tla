------------------------------ MODULE RecordRun ------------------------------
(***************************************************************************)
(* `opencassette record` in its single and batch modes (internal/cli:       *)
(* runRecordCommand, runBatch, recordOne, resolveOutPath, writeCassette),   *)
(* with the disk: one invocation is one process, and processes share the    *)
(* corpus directory and no lock.  Between the os.Stat that looks for a      *)
(* recording and the os.WriteFile that replaces it stands an API call of up *)
(* to --timeout; os.WriteFile itself truncates first and writes after.      *)
(*                                                                          *)
(* What a cassette holds is the sequence of its turns, one turn for the     *)
(* exchanges of one client.Do; Recorder models what is in them.             *)
(***************************************************************************)
EXTENDS Naturals, Sequences, FiniteSets

CONSTANTS Proc,      \* invocations of the command
          Name,      \* scenario names, the basename of a cassette
          Options,   \* the flag combinations an invocation may have
          Overlap,   \* whether two invocations may run at the same time
          Crashes    \* whether one may be killed, and a write fail

Buckets == {"stream", "nostream"}
Path == Name \X (Buckets \cup {"out"})

(* The scenarios of a pack are files of one directory: no two have one name.*)
NameList == {s \in UNION {[1 .. n -> Name] : n \in 1 .. Cardinality(Name)} :
                \A i, j \in DOMAIN s : s[i] = s[j] => i = j}

OptionType == [batch : BOOLEAN, append : BOOLEAN, force : BOOLEAN,
               out : BOOLEAN, bucket : Buckets \cup {"auto"}, names : NameList]

ASSUME NameAssumption == IsFiniteSet(Name)
ASSUME OptionsAssumption == Options \subseteq OptionType
ASSUME FlagsAssumption == Overlap \in BOOLEAN /\ Crashes \in BOOLEAN

VARIABLES
    opts,      \* the flags of each invocation
    pc,        \* where each is
    at,        \* index in opts.names of the scenario being recorded
    path,      \* where its cassette goes
    turns,     \* Recorder.interactions of the scenario, by turn
    failed,    \* scenarios that were skipped
    code,      \* exit code
    files,     \* the paths that exist
    disk,      \* the turns the file at a path can be read back to
    kept,      \* turns reported written, since the last --force (history)
    risked     \* turns a write that was cut off held, since then (history)

procVars == <<opts, pc, at, path, turns, failed, code>>
diskVars == <<files, disk, kept, risked>>
vars == <<procVars, diskVars>>

Stages == {"start", "resolve", "prepare", "call", "stat", "truncate", "fill",
           "exit", "killed"}
Turn == Proc \X Name

TypeOK ==
    /\ opts \in [Proc -> Options]
    /\ pc \in [Proc -> Stages]
    /\ at \in [Proc -> 1 .. Cardinality(Name)]
    /\ path \in [Proc -> Path]
    /\ turns \in [Proc -> Seq(Turn)]
    /\ failed \in [Proc -> SUBSET (1 .. Cardinality(Name))]
    /\ code \in [Proc -> 0 .. 1]
    /\ files \subseteq Path
    /\ disk \in [Path -> Seq(Turn)]
    /\ kept \in [Path -> SUBSET Turn]
    /\ risked \in [Path -> SUBSET Turn]

Scenario(p) == opts[p].names[at[p]]

TurnsAt(f) == {disk[f][i] : i \in DOMAIN disk[f]}

Held(p) == {turns[p][i] : i \in DOMAIN turns[p]}

-----------------------------------------------------------------------------
(* Mutants: faults the properties below are to notice.                      *)

(* --append composes its path like any other recording.                     *)
ComposedOnly(n, composed, sibling) == composed

(* No cassette is ever in the way.                                          *)
NeverInTheWay(p) == FALSE

(* A loaded cassette is written back without its earlier turns.             *)
OwnTurnOnly(p) == <<<<p, Scenario(p)>>>>

(* The parts of a turn are spread over the list.                            *)
Spread(p) == turns[p] \o <<p, Scenario(p)>>

(* A batch that skipped a scenario still exits 0.                           *)
AlwaysZero(skipped) == 0

(* A call that failed is made again.                                        *)
CallAgain(p) ==
    /\ pc[p] = "call"
    /\ pc' = [pc EXCEPT ![p] = "prepare"]
    /\ UNCHANGED <<opts, at, path, turns, failed, code, diskVars>>

-----------------------------------------------------------------------------

AnyPath == CHOOSE f \in Path : TRUE

Init ==
    /\ opts \in [Proc -> Options]
    /\ pc = [p \in Proc |-> "start"]
    /\ at = [p \in Proc |-> 1]
    /\ path = [p \in Proc |-> AnyPath]
    /\ turns = [p \in Proc |-> <<>>]
    /\ failed = [p \in Proc |-> {}]
    /\ code = [p \in Proc |-> 0]
    /\ files = {}
    /\ disk = [f \in Path |-> <<>>]
    /\ kept = [f \in Path |-> {}]
    /\ risked = [f \in Path |-> {}]

Running(p) == pc[p] \notin {"start", "exit", "killed"}

Exit(p, c) ==
    /\ pc' = [pc EXCEPT ![p] = "exit"]
    /\ code' = [code EXCEPT ![p] = c]

(* runRecordCommand: flags that exclude each other end it before any call.  *)
Start(p) ==
    /\ pc[p] = "start"
    /\ Overlap \/ \A q \in Proc : ~Running(q)
    /\ IF opts[p].batch /\ (opts[p].append \/ opts[p].out)
       THEN Exit(p, 1)
       ELSE pc' = [pc EXCEPT ![p] = "resolve"] /\ UNCHANGED code
    /\ UNCHANGED <<opts, at, path, turns, failed, diskVars>>

(* bucketStream, over the scenario's own stream flag s.                     *)
BucketStream(bucket, s) ==
    CASE bucket = "stream" -> TRUE
      [] bucket = "nostream" -> FALSE
      [] OTHER -> s

(* The file that exists wins over the bucket this turn would be given.      *)
AppendPath(n, composed, sibling) ==
    IF composed \notin files /\ sibling \in files THEN sibling ELSE composed

ResolveOutPath(o, n, s) ==
    LET composed == <<n, IF BucketStream(o.bucket, s) THEN "stream" ELSE "nostream">>
        sibling == <<n, IF BucketStream(o.bucket, s) THEN "nostream" ELSE "stream">>
    IN IF o.out THEN <<n, "out">>
       ELSE IF o.append THEN AppendPath(n, composed, sibling)
       ELSE composed

Resolve(p) ==
    /\ pc[p] = "resolve"
    /\ \E s \in BOOLEAN :
          path' = [path EXCEPT ![p] = ResolveOutPath(opts[p], Scenario(p), s)]
    /\ pc' = [pc EXCEPT ![p] = "prepare"]
    /\ UNCHANGED <<opts, at, turns, failed, code, diskVars>>

(* The body cannot be read or given its model, or no path be composed: the  *)
(* command ends here, with what it has recorded so far.                     *)
Abort(p) ==
    /\ pc[p] = "resolve"
    /\ Exit(p, 1)
    /\ UNCHANGED <<opts, at, path, turns, failed, diskVars>>

Last(p) == at[p] = Len(opts[p].names)

ExitCode(skipped) == IF skipped = {} THEN 0 ELSE 1

(* The end of recordOne: a single recording ends the command, a batch goes  *)
(* on with its next scenario whatever became of this one.                   *)
Ends(p, skipped) ==
    /\ failed' = [failed EXCEPT ![p] = skipped]
    /\ turns' = [turns EXCEPT ![p] = <<>>]
    /\ IF Last(p)
       THEN Exit(p, ExitCode(skipped)) /\ UNCHANGED at
       ELSE /\ pc' = [pc EXCEPT ![p] = "resolve"]
            /\ at' = [at EXCEPT ![p] = @ + 1]
            /\ UNCHANGED code
    /\ UNCHANGED <<opts, path>>

Failing(p) == failed[p] \cup {at[p]}

Fails(p) == Ends(p, Failing(p)) /\ UNCHANGED <<diskVars>>

(* Without --append and --force, a cassette that is already there.          *)
InTheWay(p) == ~opts[p].force /\ ~opts[p].append /\ path[p] \in files

(* --append: PrependFromFile needs a file with interactions.                *)
NothingToExtend(p) == opts[p].append /\ (path[p] \notin files \/ disk[path[p]] = <<>>)

Prepare(p) ==
    /\ pc[p] = "prepare"
    /\ ~InTheWay(p)
    /\ ~NothingToExtend(p)
    /\ turns' = [turns EXCEPT ![p] = IF opts[p].append THEN disk[path[p]] ELSE <<>>]
    /\ pc' = [pc EXCEPT ![p] = "call"]
    /\ UNCHANGED <<opts, at, path, failed, code, diskVars>>

(* "Check before spending the API call, not after."                         *)
PrepareFails(p) ==
    /\ pc[p] = "prepare"
    /\ InTheWay(p) \/ NothingToExtend(p)
    /\ Fails(p)

(* The turn is behind those loaded, if any.                                 *)
Extended(p) == Append(turns[p], <<p, Scenario(p)>>)

(* The vendor answered 2xx; the recorder holds the exchange.                *)
CallSucceeds(p) ==
    /\ pc[p] = "call"
    /\ turns' = [turns EXCEPT ![p] = Extended(p)]
    /\ pc' = [pc EXCEPT ![p] = "stat"]
    /\ UNCHANGED <<opts, at, path, failed, code, diskVars>>

(* No request could be built, the call failed or timed out, or the vendor   *)
(* answered outside 2xx: what was recorded is not written.                  *)
CallFails(p) == pc[p] = "call" /\ Fails(p)

FoundLate(p) == InTheWay(p)

(* writeCassette looks again, --append does not.                            *)
Stat(p) ==
    /\ pc[p] = "stat"
    /\ ~FoundLate(p)
    /\ pc' = [pc EXCEPT ![p] = "truncate"]
    /\ UNCHANGED <<opts, at, path, turns, failed, code, diskVars>>

(* A file stands in the way, or the directory could not be made, or the     *)
(* file not opened.                                                         *)
StatFails(p) ==
    /\ (pc[p] = "stat" /\ FoundLate(p)) \/ (pc[p] = "truncate" /\ Crashes)
    /\ Fails(p)

(* os.WriteFile opens the file: it exists, and is empty.  With --force this *)
(* is where earlier turns are given up.                                     *)
Truncate(p) ==
    /\ pc[p] = "truncate"
    /\ files' = files \cup {path[p]}
    /\ disk' = [disk EXCEPT ![path[p]] = <<>>]
    /\ IF opts[p].force /\ ~opts[p].append
       THEN /\ kept' = [kept EXCEPT ![path[p]] = {}]
            /\ risked' = [risked EXCEPT ![path[p]] = {}]
       ELSE UNCHANGED <<kept, risked>>
    /\ pc' = [pc EXCEPT ![p] = "fill"]
    /\ UNCHANGED <<opts, at, path, turns, failed, code>>

(* What can be read of a file after ts has been written from its start, the *)
(* file holding old by then: over what another process has filled in the    *)
(* meantime the bytes leave something nothing can parse, or these turns and *)
(* the last of the other's.                                                 *)
Written(ts, old) ==
    IF old = <<>> THEN {ts}
    ELSE {<<>>} \cup {ts \o SubSeq(old, k, Len(old)) : k \in 1 .. Len(old) + 1}

(* The bytes are written.                                                   *)
Fill(p) ==
    /\ pc[p] = "fill"
    /\ \E t \in Written(turns[p], disk[path[p]]) : disk' = [disk EXCEPT ![path[p]] = t]
    /\ kept' = [kept EXCEPT ![path[p]] = @ \cup {<<p, Scenario(p)>>}]
    /\ Ends(p, failed[p])
    /\ UNCHANGED <<files, risked>>

(* Some of them are, or all and then the file cannot be closed: YAML that is*)
(* cut off parses up to some turn, the last of which may lack its end.      *)
CutOff(p) ==
    /\ \E n \in 0 .. Len(turns[p]) :
       \E t \in Written(SubSeq(turns[p], 1, n), disk[path[p]]) :
          disk' = [disk EXCEPT ![path[p]] = t]
    /\ risked' = [risked EXCEPT ![path[p]] = @ \cup Held(p)]
    /\ UNCHANGED <<files, kept>>

(* The disk is full, and the scenario is reported failed.                   *)
FillFails(p) ==
    /\ Crashes
    /\ pc[p] = "fill"
    /\ CutOff(p)
    /\ Ends(p, Failing(p))

Killed(p) ==
    /\ Crashes
    /\ Running(p)
    /\ pc' = [pc EXCEPT ![p] = "killed"]
    /\ IF pc[p] = "fill" THEN CutOff(p) ELSE UNCHANGED diskVars
    /\ UNCHANGED <<opts, at, path, turns, failed, code>>

Step(p) ==
    \/ Resolve(p)
    \/ Abort(p)
    \/ Prepare(p)
    \/ PrepareFails(p)
    \/ CallSucceeds(p)
    \/ CallFails(p)
    \/ Stat(p)
    \/ StatFails(p)
    \/ Truncate(p)
    \/ Fill(p)
    \/ FillFails(p)

Next == \E p \in Proc : Start(p) \/ Step(p) \/ Killed(p)

Spec == Init /\ [][Next]_vars

(* A running command goes on by itself: its only waits are the pause of a   *)
(* batch and a call with a timeout.                                         *)
FairSpec == Spec /\ \A p \in Proc : WF_vars(Step(p))

-----------------------------------------------------------------------------
(* Properties                                                               *)

(* "A re-run must not silently replace" a recording: a file reported written*)
(* is opened for writing only by an invocation with --force, or --append,   *)
(* which has read it.                                                       *)
NeverClobbered ==
    [][\A p \in Proc :
          pc[p] = "truncate" /\ pc'[p] = "fill" =>
             kept[path[p]] = {} \/ opts[p].force \/ opts[p].append]_vars

(* A turn that was reported written stays in its cassette: whatever          *)
(* re-recordings, packs and later turns are made, failed or killed around   *)
(* it, only --force takes it away, or a write of it that is cut off.        *)
BeingWritten(f) == \E p \in Proc : pc[p] = "fill" /\ path[p] = f

Kept(f) == kept[f] \ risked[f] \subseteq TurnsAt(f)

ReportedTurnsKept == \A f \in Path : BeingWritten(f) \/ Kept(f)

(* --append finds the turns recorded so far in whichever bucket they are:   *)
(* it fails before the call only when neither has any, or when the file it  *)
(* found was left empty.                                                    *)
AppendFindsFirstTurn ==
    [][\A p \in Proc :
          /\ pc[p] = "prepare" /\ pc'[p] = "exit"
          /\ opts[p].append /\ ~opts[p].out
          => \/ path[p] \in files
             \/ \A b \in Buckets : disk[<<Scenario(p), b>>] = <<>>]_vars

(* The exit code and the list of skipped scenarios are what is on the disk: *)
(* after its last scenario a command has skipped exactly those that no      *)
(* cassette holds, and its code is 0 exactly when every one is held.  What   *)
(* is left of a write that was cut off does not count.                      *)
OnDisk(p, i) == \E f \in Path : <<p, opts[p].names[i]>> \in TurnsAt(f) \ risked[f]

ExitTellsTruth ==
    [][\A p \in Proc :
          Running(p) /\ pc'[p] = "exit" =>
             /\ code'[p] = 0 <=> \A i \in DOMAIN opts[p].names : OnDisk(p, i)'
             /\ \A i \in failed'[p] : ~OnDisk(p, i)']_vars

(* Every invocation that starts ends, whatever the others do.               *)
EveryRunEnds == \A p \in Proc : Running(p) ~> pc[p] \in {"exit", "killed"}
=============================================================================
