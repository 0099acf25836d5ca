------------------------------ MODULE ProbeRun ------------------------------
(***************************************************************************)
(* `opencassette record --probe-fields` (internal/cli: runProbe, probeOne,  *)
(* writeCassette): one request per field, one cassette per verdict in       *)
(* fields/ or fields-rejected/, and at the end the support matrix           *)
(* field-support.json.  Invocations follow one another over one protocol    *)
(* directory (RecordRun has those that overlap).                            *)
(*                                                                          *)
(* The fields are the numbers 1 .. Fields in the order of BuildProbes.      *)
(***************************************************************************)
EXTENDS Naturals

CONSTANTS Proc,        \* invocations of the command
          Fields,      \* fields to probe
          Unnameable,  \* those whose name is no path segment
          Crashes,     \* whether one may be killed, and a write fail
          None, Torn   \* no file, a file whose writing was cut off

ASSUME FieldsAssumption == Fields \in Nat \ {0} /\ Unnameable \subseteq 1 .. Fields
ASSUME FilesAssumption == None \notin Proc /\ Torn \notin Proc /\ None # Torn

VARIABLES
    force,     \* --force
    pc,        \* where each is
    at,        \* the field being probed
    results,   \* report.Fields: field -> verdict
    errored,   \* fields without a verdict
    code,      \* exit code
    dirs,      \* which of the two trees exist
    cassette,  \* whose cassette is at a path
    matrix     \* field-support.json: whose it is, and what it says

procVars == <<force, pc, at, results, errored, code>>
diskVars == <<dirs, cassette, matrix>>
vars == <<procVars, diskVars>>

Trees == {"fields", "fields-rejected"}
Field == 1 .. Fields
Verdict == {"supported", "rejected", "error"}
Stages == {"start", "baseline", "probe", "stat", "truncate", "fill",
           "fillMatrix", "exit", "killed"}

Unprobed == [f \in Field |-> "none"]
NoMatrix == [by |-> None, says |-> Unprobed]
TornMatrix == [by |-> Torn, says |-> Unprobed]

Says == [Field -> Verdict \cup {"none"}]

TypeOK ==
    /\ force \in [Proc -> BOOLEAN]
    /\ pc \in [Proc -> Stages]
    /\ at \in [Proc -> 1 .. Fields + 1]
    /\ results \in [Proc -> Says]
    /\ errored \in [Proc -> SUBSET Field]
    /\ code \in [Proc -> 0 .. 1]
    /\ dirs \subseteq Trees
    /\ cassette \in [Trees \X Field -> Proc \cup {None, Torn}]
    /\ matrix \in [by : Proc \cup {None, Torn}, says : Says]

-----------------------------------------------------------------------------
(* Mutants: faults the properties below are to notice.                      *)

(* Only the matrix counts as an earlier run.                                *)
MatrixOnly == matrix # NoMatrix

(* Every cassette goes to one tree.                                         *)
OneTree(verdict) == "fields"

(* A field that was never sent is forgotten when the run is summed up.      *)
SentOnly(p) == errored[p] \cup ({at[p]} \ Unnameable)

(* Fields are remembered by their index, counted from zero.                 *)
FromZero(p) == errored[p] \cup {at[p] - 1}

(* A field without a verdict is tried again.                                *)
Retried(p) == IF results'[p][at[p]] = "error" THEN at[p] ELSE at[p] + 1

-----------------------------------------------------------------------------

Init ==
    /\ force \in [Proc -> BOOLEAN]
    /\ pc = [p \in Proc |-> "start"]
    /\ at = [p \in Proc |-> 1]
    /\ results = [p \in Proc |-> Unprobed]
    /\ errored = [p \in Proc |-> {}]
    /\ code = [p \in Proc |-> 0]
    /\ dirs = {}
    /\ cassette = [x \in Trees \X Field |-> None]
    /\ matrix = NoMatrix

Running(p) == pc[p] \notin {"start", "exit", "killed"}

Moves(p, from, to) ==
    /\ pc[p] = from
    /\ pc' = [pc EXCEPT ![p] = to]

Exit(p, c) ==
    /\ pc' = [pc EXCEPT ![p] = "exit"]
    /\ code' = [code EXCEPT ![p] = c]

Fails(p) == Exit(p, 1) /\ UNCHANGED <<force, at, results, errored, diskVars>>

May(p) == pc[p] = "start" /\ \A q \in Proc : ~Running(q)

(* "Refuse to clobber an earlier probe run before spending any API calls":  *)
(* either tree, however empty, or the matrix.                               *)
EarlierRun == dirs # {} \/ matrix # NoMatrix

Start(p) ==
    /\ May(p)
    /\ force[p] \/ ~EarlierRun
    /\ Moves(p, "start", "baseline")
    /\ UNCHANGED <<force, at, results, errored, code, diskVars>>

(* There are earlier results; or the pack cannot be read, or makes no       *)
(* probes.                                                                  *)
StartFails(p) == May(p) /\ Fails(p)

(* The minimal request was answered 2xx.                                    *)
Baseline(p) ==
    /\ Moves(p, "baseline", "probe")
    /\ UNCHANGED <<force, at, results, errored, code, diskVars>>

(* Otherwise the run ends before any field.                                 *)
BaselineFails(p) == pc[p] = "baseline" /\ Fails(p)

Probing(p) == pc[p] = "probe" /\ at[p] <= Fields

(* 2xx, or 400 and 422: the verdict has a cassette.                         *)
Answered(p) ==
    /\ Probing(p)
    /\ at[p] \notin Unnameable
    /\ \E v \in {"supported", "rejected"} :
          results' = [results EXCEPT ![p][at[p]] = v]
    /\ Moves(p, "probe", "stat")
    /\ UNCHANGED <<force, at, errored, code, diskVars>>

Erring(p) == errored[p] \cup {at[p]}

NextField(p) == at[p] + 1

(* "401/403/429/5xx say nothing about the field", nor does a call that      *)
(* failed; a field whose name is no path segment is not sent.               *)
Unanswered(p) ==
    /\ Probing(p)
    /\ results' = [results EXCEPT ![p][at[p]] = "error"]
    /\ errored' = [errored EXCEPT ![p] = Erring(p)]
    /\ at' = [at EXCEPT ![p] = NextField(p)]
    /\ UNCHANGED <<force, pc, code, diskVars>>

TreeOf(verdict) == IF verdict = "supported" THEN "fields" ELSE "fields-rejected"

Target(p) == <<TreeOf(results[p][at[p]]), at[p]>>

InTheWay(p) == ~force[p] /\ cassette[Target(p)] # None

(* writeCassette                                                            *)
Stat(p) ==
    /\ Moves(p, "stat", "truncate")
    /\ ~InTheWay(p)
    /\ UNCHANGED <<force, at, results, errored, code, diskVars>>

Truncate(p) ==
    /\ Moves(p, "truncate", "fill")
    /\ dirs' = dirs \cup {Target(p)[1]}
    /\ cassette' = [cassette EXCEPT ![Target(p)] = Torn]
    /\ UNCHANGED <<force, at, results, errored, code, matrix>>

Fill(p) ==
    /\ Moves(p, "fill", "probe")
    /\ cassette' = [cassette EXCEPT ![Target(p)] = p]
    /\ at' = [at EXCEPT ![p] = @ + 1]
    /\ UNCHANGED <<force, results, errored, code, dirs, matrix>>

(* writeCassette finds one in the way, which NeverRefusedLate says is not   *)
(* to happen; or the directory could not be made, or the file not opened.   *)
(* The run ends without a matrix.                                           *)
WriteFails(p) ==
    /\ (pc[p] = "stat" /\ InTheWay(p)) \/ (pc[p] = "truncate" /\ Crashes)
    /\ dirs' \in {dirs, IF pc[p] = "stat" THEN dirs ELSE dirs \cup {Target(p)[1]}}
    /\ Exit(p, 1)
    /\ UNCHANGED <<force, at, results, errored, cassette, matrix>>

(* Or not be filled, a cassette or the matrix.                              *)
FillFails(p) == Crashes /\ pc[p] \in {"fill", "fillMatrix"} /\ Fails(p)

(* Every field has been probed.                                             *)
TruncateMatrix(p) ==
    /\ at[p] = Fields + 1
    /\ Moves(p, "probe", "fillMatrix")
    /\ matrix' = TornMatrix
    /\ UNCHANGED <<force, at, results, errored, code, dirs, cassette>>

TruncateMatrixFails(p) == Crashes /\ pc[p] = "probe" /\ at[p] = Fields + 1 /\ Fails(p)

FillMatrix(p) ==
    /\ pc[p] = "fillMatrix"
    /\ matrix' = [by |-> p, says |-> results[p]]
    /\ Exit(p, IF errored[p] = {} THEN 0 ELSE 1)
    /\ UNCHANGED <<force, at, results, errored, dirs, cassette>>

Killed(p) ==
    /\ Crashes
    /\ Running(p)
    /\ pc' = [pc EXCEPT ![p] = "killed"]
    /\ UNCHANGED <<force, at, results, errored, code, diskVars>>

Step(p) ==
    \/ Baseline(p)
    \/ BaselineFails(p)
    \/ Answered(p)
    \/ Unanswered(p)
    \/ Stat(p)
    \/ Truncate(p)
    \/ WriteFails(p)
    \/ Fill(p)
    \/ FillFails(p)
    \/ TruncateMatrix(p)
    \/ TruncateMatrixFails(p)
    \/ FillMatrix(p)

Next == \E p \in Proc : Start(p) \/ StartFails(p) \/ Step(p) \/ Killed(p)

Spec == Init /\ [][Next]_vars

(* A running command goes on by itself: its only waits are the pause        *)
(* between fields and calls with a timeout.                                 *)
FairSpec == Spec /\ \A p \in Proc : WF_vars(Step(p))

-----------------------------------------------------------------------------
(* Properties                                                               *)

(* An invocation that is not forced and found no earlier run is not stopped *)
(* by one after it has spent its calls, whatever a run that was killed left *)
(* behind.                                                                  *)
NeverRefusedLate == \A p \in Proc : pc[p] = "stat" => ~InTheWay(p)

(* A matrix is written with its evidence alongside: a field it calls        *)
(* supported has a cassette of that very run in fields/, one it calls       *)
(* rejected in fields-rejected/, and one it calls an error in neither.      *)
EvidenceAlongside ==
    [][matrix' # matrix /\ matrix'.by \in Proc =>
          \A f \in Field :
             /\ cassette'[<<"fields", f>>] = matrix'.by <=> matrix'.says[f] = "supported"
             /\ cassette'[<<"fields-rejected", f>>] = matrix'.by <=>
                   matrix'.says[f] = "rejected"]_vars

(* Exit code 0 says that the matrix on the disk is that of this run and has *)
(* a verdict, with a cassette, for every field.                             *)
ExitTellsTruth ==
    [][\A p \in Proc :
          pc[p] # "exit" /\ pc'[p] = "exit" =>
             (code'[p] = 0 <=>
                /\ matrix'.by = p
                /\ \A f \in Field : \E tree \in Trees : cassette'[<<tree, f>>] = p)]_vars

(* Every invocation that starts ends.                                       *)
EveryProbeEnds == \A p \in Proc : Running(p) ~> pc[p] \in {"exit", "killed"}

(* probe.go: the matrix says of each field "whether the vendor accepted it  *)
(* in isolation, with the evidence cassette alongside".  When no invocation *)
(* runs, no tree holds a cassette that says the opposite of a verdict.      *)
TreesAgreeWithMatrix ==
    (\A p \in Proc : ~Running(p)) /\ matrix.by \in Proc =>
       \A f \in Field : matrix.says[f] # "error" =>
          /\ cassette[<<"fields", f>>] # None => matrix.says[f] = "supported"
          /\ cassette[<<"fields-rejected", f>>] # None => matrix.says[f] = "rejected"
=============================================================================
