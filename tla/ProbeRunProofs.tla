--------------------------- MODULE ProbeRunProofs ---------------------------
(***************************************************************************)
(* Proofs about ProbeRun, for any number of invocations and fields: type    *)
(* correctness, and the inductive invariant from which it follows that no   *)
(* run is refused late, that a matrix has its evidence alongside, and that  *)
(* the exit code tells the truth.                                           *)
(***************************************************************************)
EXTENDS ProbeRun, TLAPS

-----------------------------------------------------------------------------
(* The inductive invariant                                                  *)

(* At most one invocation runs, and one that has not started is as it began.*)
InTurn ==
    /\ \A p, q \in Proc : Running(p) /\ Running(q) => p = q
    /\ \A p \in Proc : pc[p] = "start" => at[p] = 1 /\ errored[p] = {}

(* A cassette stands in a tree that exists, and none is there of a run that *)
(* has not started; only one that ended well has its matrix.                *)
OnDisk ==
    /\ \A tree \in Trees, f \in Field : cassette[<<tree, f>>] # None => tree \in dirs
    /\ \A p \in Proc : pc[p] = "start" =>
          \A tree \in Trees, f \in Field : cassette[<<tree, f>>] # p
    /\ \A p \in Proc : matrix.by = p => pc[p] = "exit"

(* Where a run has got to: a field being recorded has a verdict, and after  *)
(* the last there are no more.                                              *)
Recording(p) == pc[p] \in {"stat", "truncate", "fill"}

Progress(p) ==
    /\ Recording(p) => at[p] \in Field /\ results[p][at[p]] \in {"supported", "rejected"}
    /\ pc[p] = "fill" => TreeOf(results[p][at[p]]) \in dirs
    /\ pc[p] = "baseline" => at[p] = 1 /\ errored[p] = {}
    /\ pc[p] = "fillMatrix" => at[p] = Fields + 1

(* The fields behind it have verdicts, and a cassette of this run in the    *)
(* tree of the verdict and in no other.                                     *)
Behind(p) ==
    /\ errored[p] = {f \in Field : f < at[p] /\ results[p][f] = "error"}
    /\ \A f \in Field : f < at[p] =>
          /\ results[p][f] \in Verdict
          /\ \A tree \in Trees : cassette[<<tree, f>>] = p <=>
                results[p][f] # "error" /\ tree = TreeOf(results[p][f])

(* Those before it have none of this run's, and unless it is forced none at *)
(* all, but for the one it is filling.                                      *)
Ahead(p) ==
    /\ \A tree \in Trees, f \in Field : f >= at[p] =>
          /\ cassette[<<tree, f>>] # p
          /\ ~force[p] => \/ cassette[<<tree, f>>] = None
                          \/ pc[p] = "fill" /\ f = at[p]

IInv ==
    /\ TypeOK
    /\ InTurn
    /\ OnDisk
    /\ \A p \in Proc : Running(p) => Progress(p) /\ Behind(p) /\ Ahead(p)

-----------------------------------------------------------------------------
(* Types                                                                    *)

(* The trees a verdict can lead to.                                         *)
LEMMA TargetType ==
    ASSUME TypeOK, NEW p \in Proc, at[p] \in Field
    PROVE  Target(p) \in Trees \X Field
  BY DEF Target, TreeOf, Trees

(* Initially everything is of its type.                                     *)
LEMMA InitType == Init => TypeOK
  BY FieldsAssumption DEF Init, TypeOK, Unprobed, Says, NoMatrix, Stages, Field

(* Every step of an invocation keeps the types, given where it stands.      *)
LEMMA TypeStep ==
    ASSUME TypeOK, NEW p \in Proc, Running(p) => Progress(p),
           Start(p) \/ StartFails(p) \/ Step(p) \/ Killed(p)
    PROVE  TypeOK'
<1> USE FieldsAssumption DEF TypeOK, Stages, diskVars
<1>1. CASE Start(p)
  BY <1>1 DEF Start, Moves
<1>2. CASE StartFails(p)
  BY <1>2 DEF StartFails, Fails, Exit
<1>3. CASE Killed(p)
  BY <1>3 DEF Killed
<1>4. CASE Baseline(p)
  BY <1>4 DEF Baseline, Moves
<1>5. CASE BaselineFails(p)
  BY <1>5 DEF BaselineFails, Fails, Exit
<1>6. CASE Answered(p)
  <2>1. at[p] \in Field
    BY <1>6 DEF Answered, Probing, Field
  <2>2. results' \in [Proc -> Says]
    BY <1>6, <2>1 DEF Answered, Says, Verdict
  <2>3. QED
    BY <1>6, <2>2 DEF Answered, Moves
<1>7. CASE Unanswered(p)
  <2>1. at[p] \in Field /\ at[p] + 1 \in 1 .. Fields + 1
    BY <1>7 DEF Unanswered, Probing, Field
  <2>2. results' \in [Proc -> Says]
    BY <1>7, <2>1 DEF Unanswered, Says, Verdict
  <2>3. QED
    BY <1>7, <2>1, <2>2 DEF Unanswered, Erring, NextField
<1>8. CASE Stat(p)
  BY <1>8 DEF Stat, Moves
<1>9. CASE Truncate(p)
  <2>1. Target(p) \in Trees \X Field
    BY <1>9, TargetType DEF Truncate, Moves, Running, Progress, Recording
  <2>2. QED
    BY <1>9, <2>1 DEF Truncate, Moves
<1>10. CASE WriteFails(p)
  <2>1. Target(p) \in Trees \X Field
    BY <1>10, TargetType DEF WriteFails, Running, Progress, Recording
  <2>2. QED
    BY <1>10, <2>1 DEF WriteFails, Exit
<1>11. CASE Fill(p)
  <2>1. at[p] \in Field
    BY <1>11 DEF Fill, Moves, Running, Progress, Recording
  <2>2. Target(p) \in Trees \X Field /\ at[p] + 1 \in 1 .. Fields + 1
    BY <2>1, TargetType DEF Field
  <2>3. QED
    BY <1>11, <2>2 DEF Fill, Moves
<1>12. CASE FillFails(p)
  BY <1>12 DEF FillFails, Fails, Exit
<1>13. CASE TruncateMatrix(p)
  BY <1>13 DEF TruncateMatrix, Moves, TornMatrix, Unprobed, Says
<1>14. CASE TruncateMatrixFails(p)
  BY <1>14 DEF TruncateMatrixFails, Fails, Exit
<1>15. CASE FillMatrix(p)
  BY <1>15 DEF FillMatrix, Exit
<1>16. QED
  BY <1>1, <1>2, <1>3, <1>4, <1>5, <1>6, <1>7, <1>8, <1>9, <1>10, <1>11, <1>12, <1>13,
     <1>14, <1>15 DEF Step

-----------------------------------------------------------------------------
(* Invariance                                                               *)

Acts(p) == Start(p) \/ StartFails(p) \/ Step(p) \/ Killed(p)

(* When one invocation acts no other is running, and none of theirs changes.*)
LEMMA Alone ==
    ASSUME IInv, NEW p \in Proc, Acts(p), NEW q \in Proc, q # p
    PROVE  /\ ~Running(q)
           /\ pc'[q] = pc[q] /\ at'[q] = at[q]
           /\ results'[q] = results[q] /\ errored'[q] = errored[q]
<1> USE DEF IInv, TypeOK
<1>1. ~Running(q)
  <2>1. CASE Start(p) \/ StartFails(p)
    BY <2>1 DEF Start, StartFails, May
  <2>2. CASE Step(p) \/ Killed(p)
    <3>1. Running(p)
      BY <2>2 DEF Step, Killed, Running, Baseline, BaselineFails, Answered, Unanswered, Probing,
                  Stat, Truncate, WriteFails, Fill, FillFails, TruncateMatrix,
                  TruncateMatrixFails, FillMatrix, Moves
    <3>2. QED
      BY <3>1 DEF InTurn
  <2>3. QED
    BY <2>1, <2>2 DEF Acts
<1>2. pc'[q] = pc[q] /\ at'[q] = at[q]
  BY DEF Acts, Start, StartFails, Step, Killed, Baseline, BaselineFails, Answered, Unanswered,
         Stat, Truncate, WriteFails, Fill, FillFails, TruncateMatrix, TruncateMatrixFails,
         FillMatrix, Moves, Fails, Exit
<1>3. results'[q] = results[q] /\ errored'[q] = errored[q]
  BY DEF Acts, Start, StartFails, Step, Killed, Baseline, BaselineFails, Answered, Unanswered,
         Stat, Truncate, WriteFails, Fill, FillFails, TruncateMatrix, TruncateMatrixFails,
         FillMatrix, Fails
<1>4. QED
  BY <1>1, <1>2, <1>3

(* So the invariant is kept when it is for the one that acts.               *)
LEMMA OnlyOne ==
    ASSUME IInv, NEW p \in Proc, Acts(p), TypeOK',
           pc'[p] # "start", OnDisk',
           Running(p)' => Progress(p)' /\ Behind(p)' /\ Ahead(p)'
    PROVE  IInv'
<1>1. InTurn'
  <2>1. ASSUME NEW q \in Proc, NEW r \in Proc, Running(q)', Running(r)' PROVE q = r
    BY <2>1, Alone DEF Running
  <2>2. ASSUME NEW q \in Proc, pc'[q] = "start" PROVE at'[q] = 1 /\ errored'[q] = {}
    BY <2>2, Alone DEF IInv, InTurn
  <2>3. QED
    BY <2>1, <2>2 DEF InTurn
<1>2. ASSUME NEW q \in Proc, Running(q)' PROVE q = p
  BY <1>2, Alone DEF Running
<1>3. QED
  BY <1>1, <1>2 DEF IInv

(* What a step that leaves the disk alone has to show of it.                *)
LEMMA DiskKept ==
    ASSUME IInv, NEW p \in Proc, Acts(p), UNCHANGED diskVars, pc'[p] # "start",
           pc[p] # "exit"
    PROVE  OnDisk'
<1>1. ASSUME NEW q \in Proc, pc'[q] = "start" PROVE pc[q] = "start"
  BY <1>1, Alone
<1>2. ASSUME NEW q \in Proc, matrix.by = q PROVE pc'[q] = "exit"
  BY <1>2, Alone DEF IInv, OnDisk
<1>3. QED
  BY <1>1, <1>2 DEF IInv, OnDisk, diskVars

(* Initially nothing is on the disk and nothing runs.                       *)
LEMMA InitInv == Init => IInv
  BY InitType, FilesAssumption DEF Init, IInv, InTurn, OnDisk, NoMatrix, Running

(* A run that starts finds no cassette unless it is forced, and has none.   *)
LEMMA StartInv == ASSUME IInv, NEW p \in Proc, Start(p), TypeOK' PROVE IInv'
<1>1. Acts(p)
  BY DEF Acts
<1>2. /\ pc[p] = "start" /\ pc'[p] = "baseline"
      /\ UNCHANGED <<force, at, results, errored, diskVars>>
  BY DEF Start, Moves, IInv, TypeOK
<1>3. at[p] = 1 /\ errored[p] = {}
  BY <1>2 DEF IInv, InTurn
<1>4. OnDisk'
  BY <1>1, <1>2, DiskKept
<1>5. Progress(p)' /\ Behind(p)'
  BY <1>2, <1>3 DEF Progress, Behind, Recording, Field, diskVars
<1>6. Ahead(p)'
  <2>1. ASSUME NEW tree \in Trees, NEW f \in Field
        PROVE  cassette[<<tree, f>>] # p /\ (~force[p] => cassette[<<tree, f>>] = None)
    BY <1>2, FilesAssumption DEF IInv, OnDisk, Start, EarlierRun
  <2>2. QED
    BY <1>2, <2>1 DEF Ahead, diskVars
<1>7. QED
  BY <1>1, <1>2, <1>4, <1>5, <1>6, OnlyOne

(* A run that ends leaves nothing to show.                                  *)
LEMMA EndInv ==
    ASSUME IInv, NEW p \in Proc, Acts(p), TypeOK', UNCHANGED diskVars,
           pc[p] # "exit", ~Running(p)', pc'[p] # "start"
    PROVE  IInv'
  BY DiskKept, OnlyOne

(* The baseline succeeds.                                                   *)
LEMMA BaselineInv == ASSUME IInv, NEW p \in Proc, Baseline(p), TypeOK' PROVE IInv'
<1>1. Acts(p)
  BY DEF Acts, Step
<1>2. /\ pc[p] = "baseline" /\ pc'[p] = "probe" /\ Running(p)
      /\ UNCHANGED <<force, at, results, errored, diskVars>>
  BY DEF Baseline, Moves, IInv, TypeOK, Running
<1>3. OnDisk'
  BY <1>1, <1>2, DiskKept
<1>4. Progress(p)' /\ Behind(p)' /\ Ahead(p)'
  BY <1>2 DEF IInv, Progress, Behind, Ahead, Recording, diskVars
<1>5. QED
  BY <1>1, <1>2, <1>3, <1>4, OnlyOne

(* A verdict, for the field that is next.                                   *)
LEMMA AnsweredInv == ASSUME IInv, NEW p \in Proc, Answered(p), TypeOK' PROVE IInv'
<1>1. Acts(p)
  BY DEF Acts, Step
<1>2. /\ pc[p] = "probe" /\ pc'[p] = "stat" /\ Running(p) /\ at[p] \in Field
      /\ UNCHANGED <<force, at, errored, diskVars>>
      /\ at[p] \in Nat
  BY FieldsAssumption DEF Answered, Probing, Moves, IInv, TypeOK, Running, Field
<1>3. PICK v \in {"supported", "rejected"} : results' = [results EXCEPT ![p][at[p]] = v]
  BY DEF Answered
<1>4. results'[p] = [results[p] EXCEPT ![at[p]] = v]
  BY <1>3 DEF IInv, TypeOK
<1>5. results'[p][at[p]] = v /\ \A f \in Field : f # at[p] => results'[p][f] = results[p][f]
  BY <1>2, <1>4 DEF IInv, TypeOK, Says
<1>6. OnDisk'
  BY <1>1, <1>2, DiskKept
<1>7. Progress(p)'
  BY <1>2, <1>5 DEF Progress
<1>8. \A f \in Field : f < at[p] => results'[p][f] = results[p][f]
  BY <1>2, <1>5 DEF Field
<1>9. Behind(p)'
  BY <1>2, <1>8 DEF IInv, Behind, diskVars
<1>10. Ahead(p)'
  BY <1>2 DEF IInv, Ahead, diskVars
<1>11. QED
  BY <1>1, <1>2, <1>6, <1>7, <1>9, <1>10, OnlyOne

(* A field without a verdict is behind.                                     *)
LEMMA UnansweredInv == ASSUME IInv, NEW p \in Proc, Unanswered(p), TypeOK' PROVE IInv'
<1>1. Acts(p)
  BY DEF Acts, Step
<1>2. /\ pc[p] = "probe" /\ pc'[p] = "probe" /\ Running(p) /\ at[p] \in Field
      /\ at[p] \in Nat /\ at'[p] = at[p] + 1
      /\ errored'[p] = errored[p] \cup {at[p]}
      /\ UNCHANGED <<force, diskVars>>
  BY FieldsAssumption DEF Unanswered, Probing, IInv, TypeOK, Running, Field, NextField, Erring
<1>3. results'[p] = [results[p] EXCEPT ![at[p]] = "error"]
  BY DEF Unanswered, IInv, TypeOK
<1>4. results'[p][at[p]] = "error" /\ \A f \in Field : f # at[p] => results'[p][f] = results[p][f]
  BY <1>2, <1>3 DEF IInv, TypeOK, Says
<1>5. OnDisk'
  BY <1>1, <1>2, DiskKept
<1>6. Progress(p)'
  BY <1>2 DEF Progress, Recording
<1>7. \A f \in Field : f < at[p] + 1 <=> f < at[p] \/ f = at[p]
  BY <1>2 DEF Field
<1>8. errored'[p] = {f \in Field : f < at'[p] /\ results'[p][f] = "error"}
  BY <1>2, <1>4, <1>7 DEF IInv, Behind, Field
<1>9. ASSUME NEW f \in Field, f < at'[p], NEW tree \in Trees
      PROVE  /\ results'[p][f] \in Verdict
             /\ cassette[<<tree, f>>] = p <=>
                   results'[p][f] # "error" /\ tree = TreeOf(results'[p][f])
  <2>1. CASE f = at[p]
    <3>1. cassette[<<tree, f>>] # p
      BY <1>2, <2>1 DEF IInv, Ahead
    <3>2. QED
      BY <1>4, <2>1, <3>1 DEF Verdict
  <2>2. CASE f # at[p]
    BY <1>2, <1>4, <1>7, <1>9, <2>2 DEF IInv, Behind, Field
  <2>3. QED
    BY <2>1, <2>2
<1>10. Behind(p)'
  BY <1>2, <1>8, <1>9 DEF Behind, diskVars, Trees
<1>11. Ahead(p)'
  <2>1. \A f \in Field : f >= at[p] + 1 => f >= at[p] /\ f # at[p]
    BY <1>2 DEF Field
  <2>2. QED
    BY <1>2, <2>1 DEF IInv, Ahead, diskVars
<1>12. QED
  BY <1>1, <1>2, <1>5, <1>6, <1>10, <1>11, OnlyOne

(* Nothing is in the way.                                                   *)
LEMMA StatInv == ASSUME IInv, NEW p \in Proc, Stat(p), TypeOK' PROVE IInv'
<1>1. Acts(p)
  BY DEF Acts, Step
<1>2. /\ pc[p] = "stat" /\ pc'[p] = "truncate" /\ Running(p)
      /\ UNCHANGED <<force, at, results, errored, diskVars>>
  BY DEF Stat, Moves, IInv, TypeOK, Running
<1>3. OnDisk'
  BY <1>1, <1>2, DiskKept
<1>4. Progress(p)' /\ Behind(p)' /\ Ahead(p)'
  BY <1>2 DEF IInv, Progress, Behind, Ahead, Recording, diskVars
<1>5. QED
  BY <1>1, <1>2, <1>3, <1>4, OnlyOne

(* Where the cassette of the field at hand goes.                            *)
LEMMA TargetOf ==
    ASSUME IInv, NEW p \in Proc, Running(p), Recording(p)
    PROVE  /\ at[p] \in Field /\ at[p] \in Nat
           /\ results[p][at[p]] \in {"supported", "rejected"}
           /\ Target(p) = <<TreeOf(results[p][at[p]]), at[p]>>
           /\ TreeOf(results[p][at[p]]) \in Trees
           /\ Target(p) \in Trees \X Field
           /\ Target(p)[1] = TreeOf(results[p][at[p]])
  BY FieldsAssumption DEF IInv, Progress, Target, TreeOf, Trees, TypeOK

(* The cassette is opened.                                                  *)
LEMMA TruncateInv == ASSUME IInv, NEW p \in Proc, Truncate(p), TypeOK' PROVE IInv'
<1>1. Acts(p)
  BY DEF Acts, Step
<1>2. /\ pc[p] = "truncate" /\ pc'[p] = "fill" /\ Running(p) /\ Recording(p)
      /\ UNCHANGED <<force, at, results, errored, matrix>>
      /\ dirs' = dirs \cup {Target(p)[1]}
      /\ cassette' = [cassette EXCEPT ![Target(p)] = Torn]
  BY DEF Truncate, Moves, IInv, TypeOK, Running, Recording
<1>3. \A tree \in Trees, f \in Field :
         cassette'[<<tree, f>>] = IF <<tree, f>> = Target(p) THEN Torn ELSE cassette[<<tree, f>>]
  BY <1>2, TargetOf DEF IInv, TypeOK
<1>4. OnDisk'
  <2>1. ASSUME NEW tree \in Trees, NEW f \in Field, cassette'[<<tree, f>>] # None
        PROVE  tree \in dirs'
    BY <1>2, <1>3, <2>1, TargetOf DEF IInv, OnDisk
  <2>2. ASSUME NEW q \in Proc, pc'[q] = "start", NEW tree \in Trees, NEW f \in Field
        PROVE  cassette'[<<tree, f>>] # q
    BY <1>1, <1>2, <1>3, <2>2, Alone, FilesAssumption DEF IInv, OnDisk
  <2>3. ASSUME NEW q \in Proc, matrix'.by = q PROVE pc'[q] = "exit"
    BY <1>1, <1>2, <2>3, Alone DEF IInv, OnDisk
  <2>4. QED
    BY <2>1, <2>2, <2>3 DEF OnDisk
<1>5. Progress(p)'
  BY <1>2, TargetOf DEF IInv, Progress, Recording
<1>6. Behind(p)'
  <2>1. \A f \in Field : f < at[p] => f # at[p]
    BY <1>2, TargetOf DEF Field
  <2>2. \A tree \in Trees, f \in Field :
           f < at[p] => cassette'[<<tree, f>>] = cassette[<<tree, f>>]
    BY <1>2, <1>3, <2>1, TargetOf
  <2>3. QED
    BY <1>2, <2>2 DEF IInv, Behind
<1>7. Ahead(p)'
  BY <1>2, <1>3, TargetOf, FilesAssumption DEF IInv, Ahead
<1>8. QED
  BY <1>1, <1>2, <1>4, <1>5, <1>6, <1>7, OnlyOne

(* The cassette is written, and the field behind.                           *)
LEMMA FillInv == ASSUME IInv, NEW p \in Proc, Fill(p), TypeOK' PROVE IInv'
<1>1. Acts(p)
  BY DEF Acts, Step
<1>2. /\ pc[p] = "fill" /\ pc'[p] = "probe" /\ Running(p) /\ Recording(p)
      /\ at'[p] = at[p] + 1
      /\ UNCHANGED <<force, results, errored, dirs, matrix>>
      /\ cassette' = [cassette EXCEPT ![Target(p)] = p]
  BY DEF Fill, Moves, IInv, TypeOK, Running, Recording
<1>3. \A tree \in Trees, f \in Field :
         cassette'[<<tree, f>>] = IF <<tree, f>> = Target(p) THEN p ELSE cassette[<<tree, f>>]
  BY <1>2, TargetOf DEF IInv, TypeOK
<1>4. \A f \in Field : f < at[p] + 1 <=> f < at[p] \/ f = at[p]
  BY <1>2, TargetOf DEF Field
<1>5. OnDisk'
  <2>1. ASSUME NEW tree \in Trees, NEW f \in Field, cassette'[<<tree, f>>] # None
        PROVE  tree \in dirs'
    <3>1. CASE <<tree, f>> = Target(p)
      BY <1>2, <3>1, TargetOf DEF IInv, Progress
    <3>2. CASE <<tree, f>> # Target(p)
      BY <1>2, <1>3, <2>1, <3>2 DEF IInv, OnDisk
    <3>3. QED
      BY <3>1, <3>2
  <2>2. ASSUME NEW q \in Proc, pc'[q] = "start", NEW tree \in Trees, NEW f \in Field
        PROVE  cassette'[<<tree, f>>] # q
    BY <1>1, <1>2, <1>3, <2>2, Alone DEF IInv, OnDisk
  <2>3. ASSUME NEW q \in Proc, matrix'.by = q PROVE pc'[q] = "exit"
    BY <1>1, <1>2, <2>3, Alone DEF IInv, OnDisk
  <2>4. QED
    BY <2>1, <2>2, <2>3 DEF OnDisk
<1>6. Progress(p)'
  BY <1>2 DEF Progress, Recording
<1>7. errored'[p] = {f \in Field : f < at'[p] /\ results'[p][f] = "error"}
  <2>1. \A f \in Field : f < at'[p] /\ results[p][f] = "error" <=>
                          f < at[p] /\ results[p][f] = "error"
    BY <1>2, <1>4, TargetOf
  <2>2. QED
    BY <1>2, <2>1 DEF IInv, Behind
<1>8. ASSUME NEW f \in Field, f < at'[p], NEW tree \in Trees
      PROVE  /\ results'[p][f] \in Verdict
             /\ cassette'[<<tree, f>>] = p <=>
                   results'[p][f] # "error" /\ tree = TreeOf(results'[p][f])
  <2>1. CASE f = at[p]
    <3>1. cassette[<<tree, f>>] # p
      BY <1>2, <2>1, TargetOf DEF IInv, Ahead
    <3>2. results[p][f] \in Verdict \ {"error"}
      BY <1>2, <2>1, TargetOf DEF Verdict
    <3>3. <<tree, f>> = Target(p) <=> tree = TreeOf(results[p][f])
      BY <1>2, <2>1, TargetOf
    <3>4. QED
      BY <1>2, <1>3, <3>1, <3>2, <3>3
  <2>2. CASE f # at[p]
    BY <1>2, <1>3, <1>4, <1>8, <2>2, TargetOf DEF IInv, Behind
  <2>3. QED
    BY <2>1, <2>2
<1>9. Behind(p)'
  BY <1>7, <1>8 DEF Behind, Trees
<1>10. Ahead(p)'
  <2>1. \A f \in Field : f >= at[p] + 1 => f >= at[p] /\ f # at[p]
    BY <1>2, TargetOf DEF Field
  <2>2. \A tree \in Trees, f \in Field :
           f >= at'[p] => cassette'[<<tree, f>>] = cassette[<<tree, f>>]
    BY <1>2, <1>3, <2>1, TargetOf
  <2>3. QED
    BY <1>2, <2>1, <2>2 DEF IInv, Ahead
<1>11. QED
  BY <1>1, <1>2, <1>5, <1>6, <1>9, <1>10, OnlyOne

(* A write that fails ends the run; a tree may have been made.              *)
LEMMA WriteFailsInv == ASSUME IInv, NEW p \in Proc, WriteFails(p), TypeOK' PROVE IInv'
<1>1. Acts(p)
  BY DEF Acts, Step
<1>2. /\ Running(p) /\ pc'[p] = "exit" /\ dirs \subseteq dirs'
      /\ UNCHANGED <<cassette, matrix>>
  BY DEF WriteFails, Exit, IInv, TypeOK, Running
<1>3. OnDisk'
  BY <1>1, <1>2, Alone DEF IInv, OnDisk
<1>4. QED
  BY <1>1, <1>2, <1>3, OnlyOne DEF Running

(* The matrix is opened.                                                    *)
LEMMA TruncateMatrixInv ==
    ASSUME IInv, NEW p \in Proc, TruncateMatrix(p), TypeOK' PROVE IInv'
<1>1. Acts(p)
  BY DEF Acts, Step
<1>2. /\ pc[p] = "probe" /\ pc'[p] = "fillMatrix" /\ Running(p) /\ at[p] = Fields + 1
      /\ UNCHANGED <<force, at, results, errored, dirs, cassette>>
      /\ matrix'.by = Torn
  BY DEF TruncateMatrix, TornMatrix, Moves, IInv, TypeOK, Running
<1>3. OnDisk'
  BY <1>1, <1>2, Alone, FilesAssumption DEF IInv, OnDisk
<1>4. Progress(p)' /\ Behind(p)' /\ Ahead(p)'
  BY <1>2 DEF IInv, Progress, Behind, Ahead, Recording
<1>5. QED
  BY <1>1, <1>2, <1>3, <1>4, OnlyOne

(* The matrix is written, and the run ends.                                 *)
LEMMA FillMatrixInv == ASSUME IInv, NEW p \in Proc, FillMatrix(p), TypeOK' PROVE IInv'
<1>1. Acts(p)
  BY DEF Acts, Step
<1>2. /\ Running(p) /\ pc'[p] = "exit" /\ matrix'.by = p /\ UNCHANGED <<dirs, cassette>>
  BY DEF FillMatrix, Exit, IInv, TypeOK, Running
<1>3. OnDisk'
  BY <1>1, <1>2, Alone DEF IInv, OnDisk
<1>4. QED
  BY <1>1, <1>2, <1>3, OnlyOne DEF Running

(* Every step keeps the invariant.                                          *)
LEMMA ActInv == ASSUME IInv, NEW p \in Proc, Acts(p) PROVE IInv'
<1>1. TypeOK'
  BY TypeStep DEF IInv, Acts
<1>2. CASE StartFails(p)
  <2>1. pc[p] = "start" /\ pc'[p] = "exit" /\ UNCHANGED diskVars
    BY <1>2 DEF StartFails, May, Fails, Exit, IInv, TypeOK
  <2>2. QED
    BY <1>1, <2>1, EndInv DEF Running
<1>3. CASE BaselineFails(p) \/ FillFails(p) \/ TruncateMatrixFails(p) \/ Killed(p)
  <2>1. pc[p] # "exit" /\ pc'[p] \in {"exit", "killed"} /\ UNCHANGED diskVars
    BY <1>3 DEF BaselineFails, FillFails, TruncateMatrixFails, Killed, Running, Fails, Exit, IInv,
                TypeOK
  <2>2. QED
    BY <1>1, <2>1, EndInv DEF Running
<1>4. QED
  BY <1>1, <1>2, <1>3, StartInv, BaselineInv, AnsweredInv, UnansweredInv, StatInv, TruncateInv,
     WriteFailsInv, FillInv, TruncateMatrixInv, FillMatrixInv DEF Acts, Step

(* So does a step of nobody.                                                *)
LEMMA StepInv == IInv /\ [Next]_vars => IInv'
<1>1. ASSUME IInv, Next PROVE IInv'
  BY <1>1, ActInv DEF Next, Acts
<1>2. ASSUME IInv, UNCHANGED vars PROVE IInv'
  BY <1>2 DEF IInv, TypeOK, InTurn, OnDisk, Running, Progress, Recording, Behind, Ahead, vars,
              procVars, diskVars
<1>3. QED
  BY <1>1, <1>2

-----------------------------------------------------------------------------
(* Theorems                                                                 *)

(* For any invocations and fields, the invariant of probe.go's runs holds:  *)
(* what a run remembers of its fields is what it has left on the disk.      *)
THEOREM Invariance == Spec => []IInv
BY InitInv, StepInv, PTL DEF Spec

(* In every state of runProbe and what it calls, everything is of its type. *)
THEOREM TypeCorrect == Spec => []TypeOK
<1>1. IInv => TypeOK
  BY DEF IInv
<1>2. QED
  BY <1>1, Invariance, PTL

(* writeCassette stops no run that is not forced: the look at the start saw *)
(* all that can be in the way, and only this run has written since.         *)
THEOREM NotRefusedLate == Spec => []NeverRefusedLate
<1>1. IInv => NeverRefusedLate
  <2>1. SUFFICES ASSUME IInv, NEW p \in Proc, pc[p] = "stat" PROVE ~InTheWay(p)
    BY DEF NeverRefusedLate
  <2>2. Running(p) /\ Recording(p)
    BY <2>1 DEF Running, Recording
  <2>3. at[p] >= at[p]
    BY <2>1, <2>2, TargetOf
  <2>4. ~force[p] => cassette[<<TreeOf(results[p][at[p]]), at[p]>>] = None
    BY <2>1, <2>2, <2>3, TargetOf DEF IInv, Ahead
  <2>5. QED
    BY <2>1, <2>2, <2>4, TargetOf DEF InTheWay
<1>2. QED
  BY <1>1, Invariance, PTL

(* A run at its matrix has all its fields behind it.                        *)
LEMMA AllBehind ==
    ASSUME IInv, NEW p \in Proc, pc[p] = "fillMatrix"
    PROVE  /\ errored[p] = {f \in Field : results[p][f] = "error"}
           /\ \A f \in Field :
                 /\ results[p][f] \in Verdict
                 /\ \A tree \in Trees : cassette[<<tree, f>>] = p <=>
                       results[p][f] # "error" /\ tree = TreeOf(results[p][f])
<1>1. Behind(p) /\ at[p] = Fields + 1
  BY DEF IInv, Progress, Running
<1>2. \A f \in Field : f < at[p]
  BY <1>1, FieldsAssumption DEF Field
<1>3. QED
  BY <1>1, <1>2 DEF Behind

(* A step that leaves another matrix by some run is that run's FillMatrix.  *)
LEMMA MatrixBy ==
    ASSUME Next, matrix' # matrix, matrix'.by \in Proc
    PROVE  FillMatrix(matrix'.by)
<1>1. PICK p \in Proc : Acts(p)
  BY DEF Next, Acts
<1>2. TruncateMatrix(p) \/ FillMatrix(p)
  BY <1>1 DEF Acts, Start, StartFails, Step, Killed, Baseline, BaselineFails, Answered,
     Unanswered, Stat, Truncate, WriteFails, Fill, FillFails, TruncateMatrixFails, Fails, Exit,
     diskVars
<1>3. ~TruncateMatrix(p)
  BY FilesAssumption DEF TruncateMatrix, TornMatrix
<1>4. QED
  BY <1>2, <1>3 DEF FillMatrix

(* field-support.json is written with its evidence alongside.               *)
THEOREM Evidence == Spec => EvidenceAlongside
<1>1. ASSUME IInv, Next, matrix' # matrix, matrix'.by \in Proc, NEW f \in Field
      PROVE  /\ cassette'[<<"fields", f>>] = matrix'.by <=> matrix'.says[f] = "supported"
             /\ cassette'[<<"fields-rejected", f>>] = matrix'.by <=>
                   matrix'.says[f] = "rejected"
  <2> DEFINE p == matrix'.by
  <2>1. FillMatrix(p)
    BY <1>1, MatrixBy
  <2>2. pc[p] = "fillMatrix" /\ cassette' = cassette /\ matrix'.says = results[p]
    BY <2>1 DEF FillMatrix
  <2>3. results[p][f] \in Verdict
    BY <1>1, <2>2, AllBehind
  <2>4. \A tree \in Trees : cassette[<<tree, f>>] = p <=>
           results[p][f] # "error" /\ tree = TreeOf(results[p][f])
    BY <1>1, <2>2, AllBehind
  <2>5. QED
    BY <2>2, <2>3, <2>4 DEF Verdict, Trees, TreeOf
<1>2. IInv /\ [Next]_vars => [matrix' # matrix /\ matrix'.by \in Proc =>
          \A f \in Field :
             /\ cassette'[<<"fields", f>>] = matrix'.by <=> matrix'.says[f] = "supported"
             /\ cassette'[<<"fields-rejected", f>>] = matrix'.by <=>
                   matrix'.says[f] = "rejected"]_vars
  BY <1>1
<1>3. QED
  BY <1>2, Invariance, PTL DEF Spec, EvidenceAlongside

(* A run that ends early has exit code 1, and the matrix is not its own.    *)
LEMMA EndsEarly ==
    ASSUME IInv, NEW p \in Proc, Acts(p), ~FillMatrix(p), pc[p] # "exit", pc'[p] = "exit"
    PROVE  code'[p] = 1 /\ matrix'.by # p
<1>1. code'[p] = 1 /\ UNCHANGED matrix
  BY DEF Acts, Start, StartFails, Step, Killed, Baseline, BaselineFails, Answered, Unanswered,
         Stat, Truncate, WriteFails, Fill, FillFails, TruncateMatrix, TruncateMatrixFails,
         Moves, Fails, Exit, diskVars, IInv, TypeOK
<1>2. QED
  BY <1>1 DEF IInv, OnDisk

(* Exit code 0 of runProbe is a matrix on the disk and, for every field, a  *)
(* cassette.                                                                *)
THEOREM ExitCode == Spec => ExitTellsTruth
<1>1. ASSUME IInv, Next, NEW p \in Proc, pc[p] # "exit", pc'[p] = "exit"
      PROVE  code'[p] = 0 <=>
                /\ matrix'.by = p
                /\ \A f \in Field : \E tree \in Trees : cassette'[<<tree, f>>] = p
  <2>1. PICK q \in Proc : Acts(q)
    BY <1>1 DEF Next, Acts
  <2>2. q = p
    BY <1>1, <2>1, Alone
  <2>3. CASE FillMatrix(p)
    <3>1. /\ pc[p] = "fillMatrix" /\ matrix'.by = p /\ cassette' = cassette
          /\ code'[p] = IF errored[p] = {} THEN 0 ELSE 1
      BY <1>1, <2>3 DEF FillMatrix, Exit, IInv, TypeOK
    <3>2. ASSUME NEW f \in Field
          PROVE  (\E tree \in Trees : cassette[<<tree, f>>] = p) <=> results[p][f] # "error"
      BY <1>1, <3>1, AllBehind DEF TreeOf, Trees
    <3>3. errored[p] = {} <=> \A f \in Field : results[p][f] # "error"
      BY <1>1, <3>1, AllBehind
    <3>4. QED
      BY <3>1, <3>2, <3>3
  <2>4. CASE ~FillMatrix(p)
    BY <1>1, <2>1, <2>2, <2>4, EndsEarly
  <2>5. QED
    BY <2>3, <2>4
<1>2. IInv /\ [Next]_vars => [\A p \in Proc :
          pc[p] # "exit" /\ pc'[p] = "exit" =>
             (code'[p] = 0 <=>
                /\ matrix'.by = p
                /\ \A f \in Field : \E tree \in Trees : cassette'[<<tree, f>>] = p)]_vars
  BY <1>1
<1>3. QED
  BY <1>2, Invariance, PTL DEF Spec, ExitTellsTruth
=============================================================================
