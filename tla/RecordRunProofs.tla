-------------------------- MODULE RecordRunProofs --------------------------
(***************************************************************************)
(* Proofs about RecordRun, for any number of invocations, scenario names    *)
(* and flags: type correctness, whoever overlaps; and for invocations that  *)
(* follow one another the inductive invariant from which it follows that no *)
(* recording is clobbered, that a turn reported written stays, that --append*)
(* finds the first turn, and that the exit code tells the truth.            *)
(***************************************************************************)
EXTENDS RecordRun, SequenceTheorems, FiniteSetTheorems, TLAPS

-----------------------------------------------------------------------------
(* The inductive invariant                                                  *)

(* A command is always at one of its scenarios.                             *)
InList == \A p \in Proc : at[p] \in DOMAIN opts[p].names

(* An invocation that has not started has left nothing, neither on the disk *)
(* nor with others that loaded it; and at most one invocation runs.         *)
Unstarted(p) ==
    /\ at[p] = 1 /\ failed[p] = {}
    /\ \A f \in Path, n \in Name : <<p, n>> \notin TurnsAt(f) \cup risked[f]
    /\ \A q \in Proc, n \in Name : <<p, n>> \notin Held(q)

InTurn ==
    /\ \A p, q \in Proc : Running(p) /\ Running(q) => p = q
    /\ \A p \in Proc : pc[p] = "start" => Unstarted(p)

(* A path without a file holds no turns and has reported none, a path holds *)
(* turns of its scenario only, and one that is not open has all it should.  *)
Sound(f) ==
    /\ f \notin files => disk[f] = <<>> /\ kept[f] = {}
    /\ \A t \in TurnsAt(f) : t[2] = f[1]
    /\ BeingWritten(f) \/ Kept(f)

(* What recordOne holds of a scenario, from loading to writing.             *)
Holding(p) ==
    /\ pc[p] \in {"prepare", "call", "stat", "truncate", "fill"} => path[p][1] = Scenario(p)
    /\ pc[p] \in {"call", "stat", "truncate", "fill"} =>
          /\ \A t \in Held(p) : t[2] = Scenario(p)
          /\ opts[p].append => kept[path[p]] \ risked[path[p]] \subseteq Held(p)
    /\ pc[p] \in {"stat", "truncate", "fill"} => <<p, Scenario(p)>> \in Held(p)

(* What it knows of the path.                                               *)
Looked(p) ==
    /\ pc[p] = "prepare" /\ opts[p].append /\ ~opts[p].out /\ path[p] \notin files =>
          \A b \in Buckets : <<Scenario(p), b>> \notin files
    /\ pc[p] = "truncate" /\ ~opts[p].force /\ ~opts[p].append => path[p] \notin files
    /\ pc[p] = "fill" =>
          /\ path[p] \in files /\ disk[path[p]] = <<>>
          /\ ~opts[p].append => kept[path[p]] = {}

(* On the disk are exactly the scenarios it has been through and not        *)
(* skipped; it has cut off no write of those to come.                       *)
Unrisked(p, i) == \A f \in Path : <<p, opts[p].names[i]>> \notin risked[f]

Accounted(p) ==
    /\ \A i \in failed[p] : i < at[p]
    /\ \A i \in DOMAIN opts[p].names : OnDisk(p, i) <=> i < at[p] /\ i \notin failed[p]
    /\ \A i \in DOMAIN opts[p].names : i < at[p] \/ Unrisked(p, i)

IInv ==
    /\ TypeOK /\ InList
    /\ InTurn
    /\ \A f \in Path : Sound(f)
    /\ \A p \in Proc : Running(p) => Holding(p) /\ Looked(p) /\ Accounted(p)

-----------------------------------------------------------------------------
(* Types                                                                    *)

(* The list of scenarios: its indices, and that no two are one.             *)
LEMMA NamesOf ==
    ASSUME TypeOK, NEW p \in Proc
    PROVE  /\ opts[p] \in OptionType /\ Cardinality(Name) \in Nat
           /\ Len(opts[p].names) \in 1 .. Cardinality(Name)
           /\ DOMAIN opts[p].names = 1 .. Len(opts[p].names)
           /\ \A i \in DOMAIN opts[p].names : opts[p].names[i] \in Name
           /\ \A i, j \in DOMAIN opts[p].names :
                 opts[p].names[i] = opts[p].names[j] => i = j
<1>1. opts[p] \in OptionType
  BY OptionsAssumption DEF TypeOK
<1>2. opts[p].names \in NameList
  BY <1>1 DEF OptionType
<1>3. PICK n \in 1 .. Cardinality(Name) : opts[p].names \in [1 .. n -> Name]
  BY <1>2 DEF NameList
<1>4. Cardinality(Name) \in Nat
  BY NameAssumption, FS_CardinalityType
<1>5. Len(opts[p].names) = n
  BY <1>3, <1>4
<1>6. QED
  BY <1>1, <1>2, <1>3, <1>4, <1>5 DEF NameList

(* The scenario at hand has a name.                                         *)
LEMMA ScenarioType ==
    ASSUME TypeOK, InList, NEW p \in Proc
    PROVE  Scenario(p) \in Name /\ <<p, Scenario(p)>> \in Turn
  BY NamesOf DEF InList, Scenario, Turn

(* Every path the command composes or is given is a path.                   *)
LEMMA ResolveType ==
    ASSUME NEW o \in OptionType, NEW n \in Name, NEW s \in BOOLEAN
    PROVE  ResolveOutPath(o, n, s) \in Path
<1> DEFINE composed == <<n, IF BucketStream(o.bucket, s) THEN "stream" ELSE "nostream">>
           sibling == <<n, IF BucketStream(o.bucket, s) THEN "nostream" ELSE "stream">>
<1>1. composed \in Path /\ sibling \in Path /\ <<n, "out">> \in Path
  BY DEF Path, Buckets
<1>2. AppendPath(n, composed, sibling) \in {composed, sibling}
  BY DEF AppendPath
<1>3. ResolveOutPath(o, n, s) \in {<<n, "out">>, composed, AppendPath(n, composed, sibling)}
  BY DEF ResolveOutPath
<1>4. QED
  BY <1>1, <1>2, <1>3

(* Initially everything is of its type.                                     *)
LEMMA InitType == Init => TypeOK /\ InList
<1>1. SUFFICES ASSUME Init PROVE TypeOK /\ InList
  OBVIOUS
<1>2. Cardinality(Name) \in Nat
  BY NameAssumption, FS_CardinalityType
<1>3. ASSUME NEW p \in Proc
      PROVE  /\ 1 \in DOMAIN opts[p].names /\ 1 \in 1 .. Cardinality(Name)
             /\ AnyPath \in Path
  <2>1. opts[p] \in OptionType
    BY <1>1, OptionsAssumption DEF Init
  <2>2. opts[p].names \in NameList
    BY <2>1 DEF OptionType
  <2>3. PICK n \in 1 .. Cardinality(Name) : opts[p].names \in [1 .. n -> Name]
    BY <2>2 DEF NameList
  <2>4. 1 \in DOMAIN opts[p].names /\ 1 \in 1 .. Cardinality(Name)
    BY <1>2, <2>3
  <2>5. opts[p].names[1] \in Name
    BY <2>3, <2>4
  <2>6. \E f : f \in Path
    <3>1. <<opts[p].names[1], "out">> \in Path
      BY <2>5 DEF Path
    <3>2. QED
      BY <3>1
  <2>7. QED
    BY <2>4, <2>6 DEF AnyPath
<1>4. TypeOK
  BY <1>1, <1>3 DEF Init, TypeOK, Stages
<1>5. InList
  BY <1>1, <1>3 DEF Init, InList
<1>6. QED
  BY <1>4, <1>5

(* The end of a scenario, for any list of skipped ones.                     *)
LEMMA EndsType ==
    ASSUME TypeOK, InList, NEW p \in Proc,
           NEW skipped \in SUBSET (1 .. Cardinality(Name)), Ends(p, skipped)
    PROVE  /\ opts' \in [Proc -> Options] /\ pc' \in [Proc -> Stages]
           /\ at' \in [Proc -> 1 .. Cardinality(Name)]
           /\ path' \in [Proc -> Path]
           /\ turns' \in [Proc -> Seq(Turn)]
           /\ failed' \in [Proc -> SUBSET (1 .. Cardinality(Name))]
           /\ code' \in [Proc -> 0 .. 1]
           /\ InList'
<1> USE DEF TypeOK
<1>1. /\ opts' = opts /\ path' = path
      /\ turns' = [turns EXCEPT ![p] = <<>>]
      /\ failed' = [failed EXCEPT ![p] = skipped]
  BY DEF Ends
<1>2. turns' \in [Proc -> Seq(Turn)] /\ failed' \in [Proc -> SUBSET (1 .. Cardinality(Name))]
  BY <1>1
<1>3. CASE Last(p)
  <2>1. pc' = [pc EXCEPT ![p] = "exit"] /\ at' = at
        /\ code' = [code EXCEPT ![p] = ExitCode(skipped)]
    BY <1>3 DEF Ends, Exit
  <2>2. ExitCode(skipped) \in 0 .. 1
    BY DEF ExitCode
  <2>3. pc' \in [Proc -> Stages] /\ code' \in [Proc -> 0 .. 1]
    BY <2>1, <2>2 DEF Stages
  <2>4. InList'
    BY <1>1, <2>1 DEF InList
  <2>5. QED
    BY <1>1, <1>2, <2>1, <2>3, <2>4
<1>4. CASE ~Last(p)
  <2>1. at[p] + 1 \in DOMAIN opts[p].names /\ at[p] + 1 \in 1 .. Cardinality(Name)
    <3>1. at[p] \in 1 .. Len(opts[p].names) /\ at[p] # Len(opts[p].names)
      BY <1>4, NamesOf DEF Last, InList
    <3>2. QED
      BY <3>1, NamesOf
  <2>2. /\ pc' = [pc EXCEPT ![p] = "resolve"]
        /\ at' = [at EXCEPT ![p] = at[p] + 1]
        /\ code' = code
    BY <1>4 DEF Ends
  <2>3. /\ pc' \in [Proc -> Stages] /\ at' \in [Proc -> 1 .. Cardinality(Name)]
        /\ code' \in [Proc -> 0 .. 1]
    BY <2>1, <2>2 DEF Stages
  <2>4. InList'
    BY <1>1, <2>1, <2>2 DEF InList
  <2>5. QED
    BY <1>1, <1>2, <2>3, <2>4
<1>5. QED
  BY <1>3, <1>4

Acts(p) == Start(p) \/ Step(p) \/ Killed(p)

(* What a write leaves, whole or cut off, is made of turns; over an empty   *)
(* file it is those written.                                                *)
LEMMA WrittenType ==
    ASSUME NEW ts \in Seq(Turn), NEW old \in Seq(Turn)
    PROVE  /\ Written(ts, old) \subseteq Seq(Turn)
           /\ old = <<>> => Written(ts, old) = {ts}
           /\ \A n \in 0 .. Len(ts) : SubSeq(ts, 1, n) \in Seq(Turn)
<1>1. ASSUME NEW k \in 1 .. Len(old) + 1 PROVE ts \o SubSeq(old, k, Len(old)) \in Seq(Turn)
  BY SubSeqProperties, ConcatProperties
<1>2. \A n \in 0 .. Len(ts) : SubSeq(ts, 1, n) \in Seq(Turn)
  BY SubSeqProperties
<1>3. QED
  <2>1. CASE old = <<>>
    BY <1>2, <2>1 DEF Written
  <2>2. CASE old # <<>>
    <3>1. <<>> \in Seq(Turn)
      OBVIOUS
    <3>2. Written(ts, old) =
             {<<>>} \cup {ts \o SubSeq(old, k, Len(old)) : k \in 1 .. Len(old) + 1}
      BY <2>2 DEF Written
    <3>3. QED
      BY <1>1, <1>2, <2>2, <3>1, <3>2
  <2>3. QED
    BY <2>1, <2>2

(* The files after a write that is cut off.                                 *)
LEMMA CutOffType ==
    ASSUME TypeOK, NEW p \in Proc, CutOff(p)
    PROVE  files' \subseteq Path /\ disk' \in [Path -> Seq(Turn)]
           /\ kept' \in [Path -> SUBSET Turn] /\ risked' \in [Path -> SUBSET Turn]
<1>1. path[p] \in Path /\ turns[p] \in Seq(Turn) /\ disk[path[p]] \in Seq(Turn)
  BY DEF TypeOK
<1>2. PICK n \in 0 .. Len(turns[p]) :
         \E t \in Written(SubSeq(turns[p], 1, n), disk[path[p]]) :
            disk' = [disk EXCEPT ![path[p]] = t]
  BY DEF CutOff
<1>3. SubSeq(turns[p], 1, n) \in Seq(Turn)
  BY <1>1, WrittenType
<1>4. Written(SubSeq(turns[p], 1, n), disk[path[p]]) \subseteq Seq(Turn)
  BY <1>1, <1>3, WrittenType
<1>5. disk' \in [Path -> Seq(Turn)]
  BY <1>2, <1>4 DEF TypeOK
<1>6. Held(p) \subseteq Turn
  BY <1>1 DEF Held
<1>7. QED
  BY <1>5, <1>6 DEF CutOff, TypeOK

(* Every step of an invocation keeps the types.                             *)
LEMMA TypeStep == ASSUME TypeOK, InList, NEW p \in Proc, Acts(p) PROVE TypeOK' /\ InList'
<1> USE DEF diskVars
<1>1. CASE Start(p)
  <2>1. \E stage \in {"exit", "resolve"} : pc' = [pc EXCEPT ![p] = stage]
    BY <1>1 DEF Start, Exit
  <2>2. code' = [code EXCEPT ![p] = 1] \/ code' = code
    BY <1>1 DEF Start, Exit
  <2>3. pc' \in [Proc -> Stages]
    BY <2>1 DEF TypeOK, Stages
  <2>4. code' \in [Proc -> 0 .. 1]
    <3>1. code \in [Proc -> 0 .. 1]
      BY DEF TypeOK
    <3>2. QED
      BY <2>2, <3>1
  <2>5. QED
    BY <1>1, <2>3, <2>4 DEF Start, TypeOK, InList
<1>2. CASE Killed(p)
  <2>1. pc' \in [Proc -> Stages] /\ InList'
    BY <1>2 DEF Killed, TypeOK, InList, Stages
  <2>2. CASE pc[p] = "fill"
    BY <1>2, <2>1, <2>2, CutOffType DEF Killed, TypeOK
  <2>3. CASE pc[p] # "fill"
    BY <1>2, <2>1, <2>3 DEF Killed, TypeOK
  <2>4. QED
    BY <2>2, <2>3
<1>3. CASE Resolve(p)
  <2>1. PICK s \in BOOLEAN : path' = [path EXCEPT ![p] = ResolveOutPath(opts[p], Scenario(p), s)]
    BY <1>3 DEF Resolve
  <2>2. ResolveOutPath(opts[p], Scenario(p), s) \in Path
    BY ResolveType, NamesOf, ScenarioType
  <2>3. QED
    BY <1>3, <2>1, <2>2 DEF Resolve, TypeOK, InList, Stages
<1>4. CASE Abort(p)
  BY <1>4 DEF Abort, Exit, TypeOK, InList, Stages
<1>5. CASE Prepare(p)
  BY <1>5 DEF Prepare, TypeOK, InList, Stages
<1>6. CASE CallSucceeds(p)
  <2>1. Extended(p) \in Seq(Turn)
    BY ScenarioType, AppendProperties DEF Extended, TypeOK
  <2>2. QED
    BY <1>6, <2>1 DEF CallSucceeds, TypeOK, InList, Stages
<1>7. CASE Stat(p)
  BY <1>7 DEF Stat, TypeOK, InList, Stages
<1>8. CASE Truncate(p)
  <2>1. kept' \in [Path -> SUBSET Turn] /\ risked' \in [Path -> SUBSET Turn]
    BY <1>8 DEF Truncate, TypeOK
  <2>2. /\ files' = files \cup {path[p]} /\ disk' = [disk EXCEPT ![path[p]] = <<>>]
        /\ pc' = [pc EXCEPT ![p] = "fill"]
        /\ UNCHANGED <<opts, at, path, turns, failed, code>>
    BY <1>8 DEF Truncate
  <2>3. disk' \in [Path -> Seq(Turn)] /\ files' \subseteq Path
    <3>1. <<>> \in Seq(Turn) /\ path[p] \in Path
      BY DEF TypeOK
    <3>2. QED
      BY <2>2, <3>1 DEF TypeOK
  <2>4. QED
    BY <2>1, <2>2, <2>3 DEF TypeOK, InList, Stages
<1>9. CASE PrepareFails(p) \/ CallFails(p) \/ StatFails(p) \/ FillFails(p)
  <2>1. Failing(p) \in SUBSET (1 .. Cardinality(Name))
    BY DEF Failing, TypeOK
  <2>2. Ends(p, Failing(p)) /\ (CutOff(p) \/ UNCHANGED <<files, disk, kept, risked>>)
    BY <1>9 DEF PrepareFails, CallFails, StatFails, FillFails, Fails
  <2>3. files' \subseteq Path /\ disk' \in [Path -> Seq(Turn)]
        /\ kept' \in [Path -> SUBSET Turn] /\ risked' \in [Path -> SUBSET Turn]
    BY <2>2, CutOffType DEF TypeOK
  <2>4. QED
    BY <2>1, <2>2, <2>3, EndsType DEF TypeOK
<1>10. CASE Fill(p)
  <2>1. failed[p] \in SUBSET (1 .. Cardinality(Name)) /\ path[p] \in Path
    BY DEF TypeOK
  <2>2. Ends(p, failed[p]) /\ files' = files /\ risked' = risked
    BY <1>10 DEF Fill
  <2>3. disk' \in [Path -> Seq(Turn)]
    <3>1. PICK t \in Written(turns[p], disk[path[p]]) : disk' = [disk EXCEPT ![path[p]] = t]
      BY <1>10 DEF Fill
    <3>2. t \in Seq(Turn)
      BY <2>1, <3>1, WrittenType DEF TypeOK
    <3>3. QED
      BY <3>1, <3>2 DEF TypeOK
  <2>4. kept' \in [Path -> SUBSET Turn]
    BY <1>10, <2>1, ScenarioType DEF Fill, TypeOK
  <2>5. QED
    BY <2>1, <2>2, <2>3, <2>4, EndsType DEF TypeOK
<1>11. QED
  BY <1>1, <1>2, <1>3, <1>4, <1>5, <1>6, <1>7, <1>8, <1>9, <1>10 DEF Acts, Step

(* In every state of `opencassette record`, invocations overlapping or not, *)
(* everything is of its type, and a batch is at one of its scenarios.       *)
THEOREM TypeCorrect == Spec => [](TypeOK /\ InList)
<1>1. ASSUME TypeOK, InList, [Next]_vars PROVE TypeOK' /\ InList'
  <2>1. CASE Next
    BY <1>1, <2>1, TypeStep DEF Next, Acts
  <2>2. CASE UNCHANGED vars
    BY <1>1, <2>2 DEF TypeOK, InList, vars, procVars, diskVars
  <2>3. QED
    BY <1>1, <2>1, <2>2
<1>2. QED
  BY <1>1, InitType, PTL DEF Spec

-----------------------------------------------------------------------------
(* Invariance, for invocations in turn                                      *)

(* When one invocation acts no other is running, and none of theirs changes.*)
LEMMA Alone ==
    ASSUME ~Overlap, IInv, NEW p \in Proc, Acts(p), NEW q \in Proc, q # p
    PROVE  /\ ~Running(q)
           /\ pc'[q] = pc[q] /\ at'[q] = at[q]
           /\ failed'[q] = failed[q] /\ turns'[q] = turns[q]
<1> USE DEF IInv, TypeOK
<1>1. ~Running(q)
  <2>1. CASE Start(p)
    BY <2>1 DEF Start
  <2>2. CASE Step(p) \/ Killed(p)
    <3>1. Running(p)
      BY <2>2 DEF Step, Killed, Running, Resolve, Abort, Prepare, PrepareFails, CallSucceeds,
                  CallFails, Stat, StatFails, Truncate, Fill, FillFails
    <3>2. QED
      BY <3>1 DEF InTurn
  <2>3. QED
    BY <2>1, <2>2 DEF Acts
<1>2. pc'[q] = pc[q]
  BY DEF Acts, Start, Step, Killed, Resolve, Abort, Prepare, PrepareFails, CallSucceeds,
         CallFails, Stat, StatFails, Truncate, Fill, FillFails, Fails, Ends, Exit
<1>3. at'[q] = at[q] /\ failed'[q] = failed[q]
  BY DEF Acts, Start, Step, Killed, Resolve, Abort, Prepare, PrepareFails, CallSucceeds,
         CallFails, Stat, StatFails, Truncate, Fill, FillFails, Fails, Ends
<1>4. turns'[q] = turns[q]
  BY DEF Acts, Start, Step, Killed, Resolve, Abort, Prepare, PrepareFails, CallSucceeds,
         CallFails, Stat, StatFails, Truncate, Fill, FillFails, Fails, Ends
<1>5. QED
  BY <1>1, <1>2, <1>3, <1>4

(* The flags of an invocation never change.                                 *)
LEMMA FlagsStay == ASSUME NEW p \in Proc, Acts(p) PROVE opts' = opts
  BY DEF Acts, Start, Step, Killed, Resolve, Abort, Prepare, PrepareFails, CallSucceeds,
         CallFails, Stat, StatFails, Truncate, Fill, FillFails, Fails, Ends

(* So the invariant is kept when it is for the disk and the one that acts,  *)
(* and that one holds and writes nothing of those that have not started.    *)
LEMMA OnlyOne ==
    ASSUME ~Overlap, IInv, NEW p \in Proc, Acts(p), pc'[p] # "start",
           \A f \in Path : Sound(f)',
           \A q \in Proc, n \in Name : pc[q] = "start" /\ q # p =>
              /\ \A f \in Path : <<q, n>> \notin (TurnsAt(f) \cup risked[f])'
              /\ <<q, n>> \notin Held(p)',
           Running(p)' => Holding(p)' /\ Looked(p)' /\ Accounted(p)'
    PROVE  IInv'
<1>1. TypeOK' /\ InList'
  BY TypeStep DEF IInv
<1>2. ASSUME NEW q \in Proc, NEW r \in Proc, Running(q)', Running(r)' PROVE q = r
  BY <1>2, Alone DEF Running
<1>3. ASSUME NEW q \in Proc, pc'[q] = "start" PROVE Unstarted(q)'
  <2>1. q # p /\ pc[q] = "start" /\ at'[q] = 1 /\ failed'[q] = {}
    BY <1>3, Alone DEF IInv, InTurn, Unstarted
  <2>2. ASSUME NEW r \in Proc, NEW n \in Name PROVE <<q, n>> \notin Held(r)'
    <3>1. CASE r = p
      BY <2>1, <3>1
    <3>2. CASE r # p
      <4>1. Held(r)' = Held(r)
        BY <3>2, Alone DEF Held
      <4>2. QED
        BY <2>1, <4>1 DEF IInv, InTurn, Unstarted
    <3>3. QED
      BY <3>1, <3>2
  <2>3. QED
    BY <2>1, <2>2 DEF Unstarted
<1>4. InTurn'
  BY <1>2, <1>3 DEF InTurn
<1>5. ASSUME NEW q \in Proc, Running(q)' PROVE q = p
  BY <1>5, Alone DEF Running
<1>6. QED
  BY <1>1, <1>4, <1>5 DEF IInv

(* A step that leaves the disk alone only has to show its own part; what it *)
(* holds it held before, or found on the disk, or recorded itself.          *)
LEMMA DiskStays ==
    ASSUME ~Overlap, IInv, NEW p \in Proc, Acts(p), pc[p] # "fill", pc'[p] # "start",
           UNCHANGED <<files, disk, kept, risked>>,
           \A t \in Held(p)' :
              t \in Held(p) \/ (\E f \in Path : t \in TurnsAt(f)) \/ t = <<p, Scenario(p)>>,
           Running(p)' => Holding(p)' /\ Looked(p)' /\ Accounted(p)'
    PROVE  IInv'
<1>1. \A f \in Path : TurnsAt(f)' = TurnsAt(f)
  BY DEF TurnsAt
<1>2. \A f \in Path : Sound(f)'
  <2>1. \A q \in Proc : pc[q] # "fill"
    BY Alone DEF Running
  <2>2. \A f \in Path : Kept(f)
    BY <2>1 DEF IInv, Sound, BeingWritten
  <2>3. QED
    BY <1>1, <2>2 DEF IInv, Sound, Kept
<1>3. ASSUME NEW q \in Proc, NEW n \in Name, pc[q] = "start", q # p
      PROVE  /\ \A f \in Path : <<q, n>> \notin (TurnsAt(f) \cup risked[f])'
             /\ <<q, n>> \notin Held(p)'
  <2>1. /\ \A f \in Path : <<q, n>> \notin TurnsAt(f) \cup risked[f]
        /\ <<q, n>> \notin Held(p)
    BY <1>3 DEF IInv, InTurn, Unstarted
  <2>2. <<q, n>> # <<p, Scenario(p)>>
    BY <1>3
  <2>3. QED
    BY <1>1, <2>1, <2>2
<1>4. QED
  BY <1>2, <1>3, OnlyOne

(* The account of a command is of its place, its list and the disk.         *)
LEMMA AccountStays ==
    ASSUME NEW p \in Proc, Accounted(p), UNCHANGED <<opts, at, failed, disk, risked>>
    PROVE  Accounted(p)'
<1>1. \A i \in DOMAIN opts[p].names :
         /\ OnDisk(p, i)' <=> OnDisk(p, i)
         /\ Unrisked(p, i)' <=> Unrisked(p, i)
  BY DEF OnDisk, TurnsAt, Unrisked
<1>2. QED
  BY <1>1 DEF Accounted

(* Initially no file exists and nothing runs.                               *)
LEMMA InitInv == Init => IInv
<1>1. SUFFICES ASSUME Init PROVE IInv
  OBVIOUS
<1>2. TypeOK /\ InList
  BY <1>1, InitType
<1>3. \A f \in Path : disk[f] = <<>> /\ kept[f] = {} /\ TurnsAt(f) = {} /\ risked[f] = {}
  BY <1>1 DEF Init, TurnsAt
<1>4. \A p \in Proc : pc[p] = "start" /\ at[p] = 1 /\ failed[p] = {} /\ Held(p) = {}
  BY <1>1 DEF Init, Held
<1>5. \A f \in Path : Sound(f)
  BY <1>3 DEF Sound, Kept
<1>6. InTurn
  BY <1>3, <1>4 DEF InTurn, Unstarted, Running
<1>7. QED
  BY <1>2, <1>4, <1>5, <1>6 DEF IInv, Running

(* An invocation starts, or its flags exclude each other.                   *)
LEMMA StartInv == ASSUME ~Overlap, IInv, NEW p \in Proc, Start(p) PROVE IInv'
<1>1. Acts(p)
  BY DEF Acts
<1>2. /\ pc[p] = "start" /\ pc'[p] \in {"exit", "resolve"}
      /\ UNCHANGED <<opts, at, turns, failed, files, disk, kept, risked>>
  BY DEF Start, Exit, IInv, TypeOK, diskVars
<1>3. Unstarted(p)
  BY <1>2 DEF IInv, InTurn
<1>4. Held(p)' = Held(p)
  BY <1>2 DEF Held
<1>5. Holding(p)' /\ Looked(p)'
  BY <1>2 DEF Holding, Looked
<1>6. Accounted(p)'
  <2>1. ASSUME NEW i \in DOMAIN opts[p].names PROVE ~OnDisk(p, i)' /\ Unrisked(p, i)' /\ ~(i < 1)
    BY <1>2, <1>3, NamesOf DEF IInv, OnDisk, Unrisked, Unstarted, TurnsAt
  <2>2. QED
    BY <1>2, <1>3, <2>1 DEF Accounted, Unstarted
<1>7. QED
  BY <1>1, <1>2, <1>4, <1>5, <1>6, DiskStays

(* A path is composed; with --append, where the turns are if there are any. *)
LEMMA ResolveInv == ASSUME ~Overlap, IInv, NEW p \in Proc, Resolve(p) PROVE IInv'
<1>1. Acts(p)
  BY DEF Acts, Step
<1>2. /\ Running(p) /\ pc'[p] = "prepare"
      /\ UNCHANGED <<opts, at, turns, failed, files, disk, kept, risked>>
  BY DEF Resolve, IInv, TypeOK, diskVars, Running
<1>3. Held(p)' = Held(p)
  BY <1>2 DEF Held
<1>4. PICK s \in BOOLEAN : path'[p] = ResolveOutPath(opts[p], Scenario(p), s)
  BY DEF Resolve, IInv, TypeOK
<1>5. path'[p][1] = Scenario(p)
  BY <1>4 DEF ResolveOutPath, AppendPath
<1>6. ASSUME opts[p].append, ~opts[p].out, path'[p] \notin files, NEW b \in Buckets
      PROVE  <<Scenario(p), b>> \notin files
  <2> DEFINE B(x) == IF BucketStream(opts[p].bucket, s) = x THEN "stream" ELSE "nostream"
  <2>1. path'[p] = AppendPath(Scenario(p), <<Scenario(p), B(TRUE)>>, <<Scenario(p), B(FALSE)>>)
    BY <1>4, <1>6, NamesOf DEF ResolveOutPath, BucketStream, IInv, OptionType
  <2>2. b = B(TRUE) \/ b = B(FALSE)
    BY NamesOf DEF Buckets, BucketStream, IInv, OptionType
  <2>3. QED
    BY <1>6, <2>1, <2>2 DEF AppendPath
<1>7. Holding(p)' /\ Looked(p)'
  BY <1>2, <1>5, <1>6 DEF Holding, Looked, Scenario
<1>8. Accounted(p)'
  BY <1>2, AccountStays DEF IInv
<1>9. pc[p] # "fill"
  BY DEF Resolve
<1>10. QED
  BY <1>1, <1>2, <1>3, <1>7, <1>8, <1>9, DiskStays

(* The look before the call, and with --append the turns so far.            *)
LEMMA PrepareInv == ASSUME ~Overlap, IInv, NEW p \in Proc, Prepare(p) PROVE IInv'
<1>1. Acts(p)
  BY DEF Acts, Step
<1>2. /\ Running(p) /\ pc[p] = "prepare" /\ pc'[p] = "call" /\ path[p] \in Path
      /\ UNCHANGED <<opts, at, path, failed, files, disk, kept, risked>>
      /\ turns'[p] = IF opts[p].append THEN disk[path[p]] ELSE <<>>
  BY DEF Prepare, IInv, TypeOK, diskVars, Running
<1>3. Held(p)' = IF opts[p].append THEN TurnsAt(path[p]) ELSE {}
  BY <1>2 DEF Held, TurnsAt
<1>4. Kept(path[p])
  <2>1. \A q \in Proc : pc[q] # "fill"
    BY <1>1, <1>2, Alone DEF Running
  <2>2. QED
    BY <1>2, <2>1 DEF IInv, Sound, BeingWritten
<1>5. path[p][1] = Scenario(p) /\ \A t \in TurnsAt(path[p]) : t[2] = Scenario(p)
  BY <1>2 DEF IInv, Holding, Sound
<1>6. Holding(p)' /\ Looked(p)'
  BY <1>2, <1>3, <1>4, <1>5 DEF Holding, Looked, Scenario, Kept
<1>7. Accounted(p)'
  BY <1>2, AccountStays DEF IInv
<1>8. \A t \in Held(p)' : \E f \in Path : t \in TurnsAt(f)
  BY <1>2, <1>3
<1>9. QED
  BY <1>1, <1>2, <1>6, <1>7, <1>8, DiskStays

(* The turn is recorded.                                                    *)
LEMMA CallSucceedsInv == ASSUME ~Overlap, IInv, NEW p \in Proc, CallSucceeds(p) PROVE IInv'
<1>1. Acts(p)
  BY DEF Acts, Step
<1>2. /\ Running(p) /\ pc[p] = "call" /\ pc'[p] = "stat"
      /\ UNCHANGED <<opts, at, path, failed, files, disk, kept, risked>>
      /\ turns'[p] = Append(turns[p], <<p, Scenario(p)>>)
  BY DEF CallSucceeds, Extended, IInv, TypeOK, diskVars, Running
<1>3. turns[p] \in Seq(Turn) /\ <<p, Scenario(p)>> \in Turn
  BY ScenarioType DEF IInv, TypeOK
<1>4. Held(p)' = Held(p) \cup {<<p, Scenario(p)>>}
  BY <1>2, <1>3, AppendProperties DEF Held
<1>5. Holding(p)' /\ Looked(p)'
  <2>1. Scenario(p)' = Scenario(p)
    BY <1>2 DEF Scenario
  <2>2. Holding(p)
    BY <1>2 DEF IInv
  <2>3. \A t \in Held(p)' : t[2] = Scenario(p)
    BY <1>2, <1>4, <2>2 DEF Holding
  <2>4. QED
    BY <1>2, <1>4, <2>1, <2>2, <2>3 DEF Holding, Looked
<1>6. Accounted(p)'
  BY <1>2, AccountStays DEF IInv
<1>7. QED
  BY <1>1, <1>2, <1>4, <1>5, <1>6, DiskStays

(* The look before the write.                                               *)
LEMMA StatInv == ASSUME ~Overlap, IInv, NEW p \in Proc, Stat(p) PROVE IInv'
<1>1. Acts(p)
  BY DEF Acts, Step
<1>2. /\ Running(p) /\ pc[p] = "stat" /\ pc'[p] = "truncate"
      /\ UNCHANGED <<opts, at, path, turns, failed, files, disk, kept, risked>>
      /\ ~InTheWay(p)
  BY DEF Stat, FoundLate, IInv, TypeOK, diskVars, Running
<1>3. Held(p)' = Held(p)
  BY <1>2 DEF Held
<1>4. Holding(p)' /\ Looked(p)'
  BY <1>2, <1>3 DEF IInv, Holding, Looked, Scenario, InTheWay
<1>5. Accounted(p)'
  BY <1>2, AccountStays DEF IInv
<1>6. QED
  BY <1>1, <1>2, <1>3, <1>4, <1>5, DiskStays

(* A command that gives up, or is killed outside a write, leaves things as  *)
(* they are.                                                                *)
LEMMA StopInv ==
    ASSUME ~Overlap, IInv, NEW p \in Proc, Abort(p) \/ (Killed(p) /\ pc[p] # "fill")
    PROVE  IInv'
<1>1. Acts(p)
  BY DEF Acts, Step
<1>2. /\ pc[p] # "fill" /\ pc'[p] \in {"exit", "killed"}
      /\ UNCHANGED <<turns, files, disk, kept, risked>>
  BY DEF Killed, Abort, Exit, IInv, TypeOK, diskVars
<1>3. Held(p)' = Held(p)
  BY <1>2 DEF Held
<1>4. QED
  BY <1>1, <1>2, <1>3, DiskStays DEF Running

(* What a write that is cut off leaves: nothing that was not being written. *)
LEMMA CutOffWrites ==
    ASSUME IInv, NEW p \in Proc, pc[p] = "fill", CutOff(p)
    PROVE  /\ Running(p) /\ path[p] \in Path /\ files' = files /\ kept' = kept
           /\ \A f \in Path : f = path[p] => TurnsAt(f)' \subseteq Held(p)
                                          /\ risked'[f] = risked[f] \cup Held(p)
           /\ \A f \in Path : f # path[p] => TurnsAt(f)' = TurnsAt(f) /\ risked'[f] = risked[f]
<1>1. Running(p) /\ path[p] \in Path /\ turns[p] \in Seq(Turn) /\ disk[path[p]] = <<>>
  BY DEF Running, IInv, TypeOK, Looked
<1>2. PICK n \in 0 .. Len(turns[p]) :
         \E t \in Written(SubSeq(turns[p], 1, n), disk[path[p]]) :
            disk' = [disk EXCEPT ![path[p]] = t]
  BY DEF CutOff
<1>3. disk' = [disk EXCEPT ![path[p]] = SubSeq(turns[p], 1, n)]
  BY <1>1, <1>2 DEF Written
<1>4. /\ disk'[path[p]] = SubSeq(turns[p], 1, n)
      /\ \A f \in Path : f # path[p] => disk'[f] = disk[f]
  BY <1>1, <1>3 DEF IInv, TypeOK
<1>5. ASSUME NEW f \in Path, f = path[p] PROVE TurnsAt(f)' \subseteq Held(p)
  <2>1. /\ DOMAIN SubSeq(turns[p], 1, n) = 1 .. n
        /\ \A i \in 1 .. n : SubSeq(turns[p], 1, n)[i] = turns[p][i]
        /\ 1 .. n \subseteq DOMAIN turns[p]
    BY <1>1, SubSeqProperties
  <2>2. QED
    BY <1>4, <1>5, <2>1 DEF TurnsAt, Held
<1>6. risked' = [risked EXCEPT ![path[p]] = risked[path[p]] \cup Held(p)]
      /\ files' = files /\ kept' = kept
  BY DEF CutOff
<1>7. /\ \A f \in Path : f = path[p] => risked'[f] = risked[f] \cup Held(p)
      /\ \A f \in Path : f # path[p] => risked'[f] = risked[f]
  BY <1>1, <1>6 DEF IInv, TypeOK
<1>8. QED
  BY <1>1, <1>4, <1>5, <1>6, <1>7 DEF TurnsAt

(* So it takes away no turn but those that it held, and adds none of anyone *)
(* else.                                                                    *)
LEMMA CutOffSound ==
    ASSUME ~Overlap, IInv, NEW p \in Proc, pc[p] = "fill", CutOff(p)
    PROVE  /\ \A f \in Path : Sound(f)'
           /\ \A q \in Proc, n \in Name, f \in Path :
                 pc[q] = "start" => <<q, n>> \notin (TurnsAt(f) \cup risked[f])'
<1>1. Holding(p) /\ Looked(p)
  BY CutOffWrites DEF IInv
<1>2. kept[path[p]] \ risked[path[p]] \subseteq Held(p)
  BY <1>1 DEF Holding, Looked
<1>3. ASSUME NEW f \in Path PROVE Sound(f)'
  <2>1. CASE f = path[p]
    <3>1. f \in files' /\ \A t \in TurnsAt(f)' : t[2] = f[1]
      BY <1>1, <2>1, CutOffWrites DEF Holding, Looked
    <3>2. Kept(f)'
      BY <1>2, <2>1, CutOffWrites DEF Kept
    <3>3. QED
      BY <3>1, <3>2 DEF Sound
  <2>2. CASE f # path[p]
    <3>1. Sound(f) /\ ~BeingWritten(f)
      BY <2>2, CutOffWrites DEF IInv, BeingWritten, InTurn, Running
    <3>2. f \notin files => disk'[f] = <<>>
      BY <2>2, <3>1 DEF CutOff, Sound, IInv, TypeOK
    <3>3. QED
      BY <2>2, <3>1, <3>2, CutOffWrites DEF Sound, Kept
  <2>3. QED
    BY <2>1, <2>2
<1>4. ASSUME NEW q \in Proc, NEW n \in Name, NEW f \in Path, pc[q] = "start"
      PROVE  <<q, n>> \notin (TurnsAt(f) \cup risked[f])'
  <2>1. <<q, n>> \notin TurnsAt(f) \cup risked[f] /\ <<q, n>> \notin Held(p)
    BY <1>4 DEF IInv, InTurn, Unstarted
  <2>2. QED
    BY <2>1, CutOffWrites
<1>5. QED
  BY <1>3, <1>4

(* Killed in a write.                                                       *)
LEMMA KilledWritingInv ==
    ASSUME ~Overlap, IInv, NEW p \in Proc, Killed(p), pc[p] = "fill"
    PROVE  IInv'
<1>1. Acts(p)
  BY DEF Acts
<1>2. CutOff(p) /\ pc'[p] = "killed" /\ turns' = turns
  BY DEF Killed, IInv, TypeOK
<1>3. Held(p)' = Held(p)
  BY <1>2 DEF Held
<1>4. ASSUME NEW q \in Proc, NEW n \in Name, pc[q] = "start"
      PROVE  /\ \A f \in Path : <<q, n>> \notin (TurnsAt(f) \cup risked[f])'
             /\ <<q, n>> \notin Held(p)'
  BY <1>2, <1>3, <1>4, CutOffSound DEF IInv, InTurn, Unstarted
<1>5. QED
  BY <1>1, <1>2, <1>4, CutOffSound, OnlyOne DEF Running

(* A scenario ends, for a batch to go on with the next.                     *)
LEMMA EndsKinds ==
    ASSUME IInv, NEW p \in Proc, NEW skipped, Ends(p, skipped)
    PROVE  /\ opts' = opts /\ path' = path
           /\ Held(p)' = {} /\ failed'[p] = skipped
           /\ \/ pc'[p] = "exit" /\ Last(p) /\ code'[p] = ExitCode(skipped)
              \/ pc'[p] = "resolve" /\ ~Last(p) /\ at'[p] = at[p] + 1
<1>1. turns'[p] = <<>> /\ failed'[p] = skipped /\ opts' = opts /\ path' = path
  BY DEF Ends, IInv, TypeOK
<1>2. Held(p)' = {}
  BY <1>1 DEF Held
<1>3. CASE Last(p)
  <2>1. pc' = [pc EXCEPT ![p] = "exit"] /\ code' = [code EXCEPT ![p] = ExitCode(skipped)]
    BY <1>3 DEF Ends, Exit
  <2>2. QED
    BY <1>1, <1>2, <1>3, <2>1 DEF IInv, TypeOK
<1>4. CASE ~Last(p)
  <2>1. pc' = [pc EXCEPT ![p] = "resolve"] /\ at' = [at EXCEPT ![p] = at[p] + 1]
    BY <1>4 DEF Ends
  <2>2. QED
    BY <1>1, <1>2, <1>4, <2>1 DEF IInv, TypeOK
<1>5. QED
  BY <1>3, <1>4

(* What has to be shown of the end of a scenario.                           *)
LEMMA EndsInv ==
    ASSUME ~Overlap, IInv, NEW p \in Proc, Acts(p), NEW skipped, Ends(p, skipped),
           \A f \in Path : Sound(f)',
           \A q \in Proc, n \in Name, f \in Path :
              pc[q] = "start" /\ q # p => <<q, n>> \notin (TurnsAt(f) \cup risked[f])',
           skipped \in {failed[p], Failing(p)}, \A i \in failed[p] : i < at[p],
           \A i \in DOMAIN opts[p].names :
              /\ OnDisk(p, i)' <=> i < at[p] + 1 /\ i \notin skipped
              /\ i < at[p] + 1 \/ Unrisked(p, i)'
    PROVE  IInv'
<1>1. /\ Held(p)' = {} /\ opts' = opts /\ failed'[p] = skipped /\ pc'[p] \in {"exit", "resolve"}
      /\ pc'[p] = "resolve" => at'[p] = at[p] + 1
  BY EndsKinds
<1>2. Holding(p)' /\ Looked(p)'
  BY <1>1 DEF Holding, Looked
<1>3. ASSUME pc'[p] = "resolve" PROVE Accounted(p)'
  <2>1. failed[p] \subseteq Int /\ at[p] \in Int
    BY NamesOf DEF IInv, TypeOK
  <2>2. \A i \in skipped : i < at[p] + 1
    BY <2>1 DEF Failing
  <2>3. QED
    BY <1>1, <1>3, <2>2 DEF Accounted
<1>4. QED
  BY <1>1, <1>2, <1>3, OnlyOne DEF Running

(* A scenario fails, and leaves the disk alone.                             *)
LEMMA FailsInv ==
    ASSUME ~Overlap, IInv, NEW p \in Proc, Acts(p), Running(p), pc[p] # "fill", Fails(p)
    PROVE  IInv'
<1>1. Ends(p, Failing(p)) /\ UNCHANGED <<files, disk, kept, risked>>
  BY DEF Fails, diskVars
<1>2. \A f \in Path : TurnsAt(f)' = TurnsAt(f)
  BY <1>1 DEF TurnsAt
<1>3. \A f \in Path : Sound(f)'
  <2>1. \A q \in Proc : pc[q] # "fill"
    BY Alone DEF Running
  <2>2. \A f \in Path : Kept(f)
    BY <2>1 DEF IInv, Sound, BeingWritten
  <2>3. QED
    BY <1>1, <1>2, <2>2 DEF IInv, Sound, Kept
<1>4. ASSUME NEW q \in Proc, NEW n \in Name, NEW f \in Path, pc[q] = "start"
      PROVE  <<q, n>> \notin (TurnsAt(f) \cup risked[f])'
  BY <1>1, <1>2, <1>4 DEF IInv, InTurn, Unstarted
<1>5. opts' = opts
  BY <1>1, EndsKinds
<1>6. Accounted(p)
  BY DEF IInv
<1>7. ASSUME NEW i \in DOMAIN opts[p].names
      PROVE  /\ OnDisk(p, i)' <=> i < at[p] + 1 /\ i \notin Failing(p)
             /\ i < at[p] + 1 \/ Unrisked(p, i)'
  <2>1. /\ OnDisk(p, i)' <=> OnDisk(p, i)
        /\ Unrisked(p, i)' <=> Unrisked(p, i)
    BY <1>1, <1>2, <1>5 DEF OnDisk, Unrisked
  <2>2. OnDisk(p, i) <=> i < at[p] /\ i \notin failed[p]
    BY <1>6 DEF Accounted
  <2>0. i \in Nat /\ at[p] \in Nat
    BY NamesOf DEF IInv, TypeOK
  <2>3. i < at[p] + 1 <=> i < at[p] \/ i = at[p]
    BY <2>0
  <2>4. ~(at[p] < at[p])
    BY <2>0
  <2>5. i < at[p] \/ Unrisked(p, i)
    BY <1>6 DEF Accounted
  <2>6. QED
    BY <2>1, <2>2, <2>3, <2>4, <2>5 DEF Failing
<1>8. QED
  BY <1>1, <1>3, <1>4, <1>6, <1>7, EndsInv DEF Accounted

(* os.WriteFile opens the file, and its turns are gone: without --append    *)
(* there were none that anybody was told of, unless it is forced.           *)
LEMMA TruncateInv == ASSUME ~Overlap, IInv, NEW p \in Proc, Truncate(p) PROVE IInv'
<1>1. Acts(p)
  BY DEF Acts, Step
<1>2. /\ Running(p) /\ pc[p] = "truncate" /\ pc'[p] = "fill" /\ path[p] \in Path
      /\ UNCHANGED <<opts, at, path, turns, failed>>
      /\ files' = files \cup {path[p]}
  BY DEF Truncate, IInv, TypeOK, Running
<1>3. /\ disk'[path[p]] = <<>>
      /\ \A f \in Path : f # path[p] => disk'[f] = disk[f]
  BY <1>2 DEF Truncate, IInv, TypeOK
<1>4. /\ \A f \in Path : f # path[p] => kept'[f] = kept[f] /\ risked'[f] = risked[f]
      /\ opts[p].append => kept'[path[p]] = kept[path[p]] /\ risked'[path[p]] = risked[path[p]]
      /\ ~opts[p].append => kept'[path[p]] = {}
      /\ \A f \in Path : risked'[f] \subseteq risked[f]
  <2>1. CASE opts[p].force /\ ~opts[p].append
    <3>1. kept' = [kept EXCEPT ![path[p]] = {}] /\ risked' = [risked EXCEPT ![path[p]] = {}]
      BY <2>1 DEF Truncate
    <3>2. QED
      BY <1>2, <2>1, <3>1 DEF IInv, TypeOK
  <2>2. CASE ~(opts[p].force /\ ~opts[p].append)
    <3>1. kept' = kept /\ risked' = risked
      BY <2>2 DEF Truncate
    <3>2. ~opts[p].append => kept[path[p]] = {}
      BY <1>2, <2>2 DEF IInv, Looked, Sound
    <3>3. QED
      BY <3>1, <3>2
  <2>3. QED
    BY <2>1, <2>2
<1>5. \A f \in Path : TurnsAt(f)' = IF f = path[p] THEN {} ELSE TurnsAt(f)
  BY <1>2, <1>3 DEF TurnsAt
<1>6. ASSUME NEW f \in Path PROVE Sound(f)'
  <2>1. CASE f = path[p]
    <3>1. BeingWritten(f)'
      BY <1>2, <2>1 DEF BeingWritten
    <3>2. QED
      BY <1>2, <1>3, <1>5, <2>1, <3>1 DEF Sound
  <2>2. CASE f # path[p]
    <3>1. Sound(f) /\ ~BeingWritten(f)
      BY <1>2 DEF IInv, InTurn, BeingWritten, Running
    <3>2. QED
      BY <1>2, <1>3, <1>4, <1>5, <2>2, <3>1 DEF Sound, Kept
  <2>3. QED
    BY <2>1, <2>2
<1>7. Held(p)' = Held(p)
  BY <1>2 DEF Held
<1>8. ASSUME NEW q \in Proc, NEW n \in Name, pc[q] = "start"
      PROVE  /\ \A f \in Path : <<q, n>> \notin (TurnsAt(f) \cup risked[f])'
             /\ <<q, n>> \notin Held(p)'
  BY <1>4, <1>5, <1>7, <1>8 DEF IInv, InTurn, Unstarted
<1>9. Holding(p)' /\ Looked(p)'
  BY <1>2, <1>3, <1>4, <1>7 DEF IInv, Holding, Looked, Scenario
<1>10. Accounted(p)'
  <2>1. Accounted(p) /\ path[p][1] = Scenario(p) /\ at[p] \in DOMAIN opts[p].names
    BY <1>2 DEF IInv, Holding, InList
  <2>2. at[p] \in Int
    BY NamesOf DEF IInv, TypeOK
  <2>3. ASSUME NEW i \in DOMAIN opts[p].names
        PROVE  (OnDisk(p, i)' <=> OnDisk(p, i)) /\ (Unrisked(p, i) => Unrisked(p, i)')
    <3>0. Unrisked(p, i) => Unrisked(p, i)'
      BY <1>2, <1>4 DEF Unrisked
    <3>1. CASE i = at[p]
      <4>1. ~OnDisk(p, i)
        BY <2>1, <2>2, <3>1 DEF Accounted
      <4>2. QED
        BY <1>2, <1>4, <1>5, <3>0, <4>1 DEF OnDisk
    <3>2. CASE i # at[p]
      <4>1. opts[p].names[i] # path[p][1]
        BY <2>1, <3>2, NamesOf DEF IInv, Scenario
      <4>2. <<p, opts[p].names[i]>> \notin TurnsAt(path[p])
        BY <1>2, <4>1 DEF IInv, Sound
      <4>3. QED
        BY <1>2, <1>4, <1>5, <3>0, <4>2 DEF OnDisk
    <3>3. QED
      BY <3>1, <3>2
  <2>4. QED
    BY <1>2, <2>1, <2>3 DEF Accounted
<1>11. QED
  BY <1>1, <1>2, <1>6, <1>8, <1>9, <1>10, OnlyOne

(* What the write leaves on the disk.                                       *)
LEMMA FillWrites ==
    ASSUME IInv, NEW p \in Proc, Fill(p)
    PROVE  /\ pc[p] = "fill" /\ Running(p) /\ path[p] \in Path
           /\ Ends(p, failed[p]) /\ files' = files /\ opts' = opts
           /\ disk'[path[p]] = turns[p]
           /\ kept'[path[p]] = kept[path[p]] \cup {<<p, Scenario(p)>>}
           /\ \A f \in Path : TurnsAt(f)' = IF f = path[p] THEN Held(p) ELSE TurnsAt(f)
           /\ \A f \in Path : f # path[p] => disk'[f] = disk[f] /\ kept'[f] = kept[f]
           /\ risked' = risked
<1>1. /\ pc[p] = "fill" /\ Running(p) /\ path[p] \in Path
      /\ Ends(p, failed[p]) /\ files' = files /\ risked' = risked
  BY DEF Fill, Running, IInv, TypeOK
<1>2. disk[path[p]] = <<>>
  BY <1>1 DEF IInv, Looked
<1>3. disk' = [disk EXCEPT ![path[p]] = turns[p]]
  BY <1>2 DEF Fill, Written
<1>4. kept' = [kept EXCEPT ![path[p]] = kept[path[p]] \cup {<<p, Scenario(p)>>}]
  BY DEF Fill
<1>5. /\ disk'[path[p]] = turns[p]
      /\ \A f \in Path : f # path[p] => disk'[f] = disk[f]
  BY <1>1, <1>3 DEF IInv, TypeOK
<1>6. /\ kept'[path[p]] = kept[path[p]] \cup {<<p, Scenario(p)>>}
      /\ \A f \in Path : f # path[p] => kept'[f] = kept[f]
  BY <1>1, <1>4 DEF IInv, TypeOK
<1>7. opts' = opts /\ path' = path
  BY <1>1, EndsKinds
<1>8. \A f \in Path : TurnsAt(f)' = IF f = path[p] THEN Held(p) ELSE TurnsAt(f)
  BY <1>5 DEF TurnsAt, Held
<1>9. QED
  BY <1>1, <1>5, <1>6, <1>7, <1>8

(* After it exactly the scenarios up to this one are on the disk that were  *)
(* not skipped.                                                             *)
LEMMA FillAccounts ==
    ASSUME IInv, NEW p \in Proc, Fill(p), NEW i \in DOMAIN opts[p].names
    PROVE  /\ OnDisk(p, i)' <=> i < at[p] + 1 /\ i \notin failed[p]
           /\ i < at[p] + 1 \/ Unrisked(p, i)'
<1>1. /\ Accounted(p) /\ Holding(p) /\ Looked(p)
      /\ at[p] \in DOMAIN opts[p].names /\ at[p] \in Int /\ i \in Int
  BY FillWrites, NamesOf DEF IInv, InList, TypeOK
<1>2. /\ path[p][1] = Scenario(p) /\ <<p, Scenario(p)>> \in Held(p)
      /\ \A t \in Held(p) : t[2] = Scenario(p)
  BY <1>1, FillWrites DEF Holding
<1>3. CASE i = at[p]
  <2>0. Unrisked(p, i)
    BY <1>1, <1>3 DEF Accounted
  <2>1. OnDisk(p, i)'
    BY <1>2, <1>3, <2>0, FillWrites DEF OnDisk, Scenario, Unrisked
  <2>2. i \notin failed[p] /\ i < at[p] + 1
    BY <1>1, <1>3 DEF Accounted
  <2>3. QED
    BY <2>1, <2>2
<1>4. CASE i # at[p]
  <2>1. opts[p].names[i] # Scenario(p)
    BY <1>1, <1>4, NamesOf DEF IInv, Scenario
  <2>2. <<p, opts[p].names[i]>> \notin Held(p)
    BY <1>2, <2>1
  <2>3. <<p, opts[p].names[i]>> \notin TurnsAt(path[p])
    BY <1>2, <2>1, FillWrites DEF IInv, Sound
  <2>4. OnDisk(p, i)' <=> OnDisk(p, i)
    BY <2>2, <2>3, FillWrites DEF OnDisk
  <2>5. i < at[p] + 1 <=> i < at[p]
    BY <1>1, <1>4
  <2>6. Unrisked(p, i)' <=> Unrisked(p, i)
    BY FillWrites DEF Unrisked
  <2>7. QED
    BY <1>1, <2>4, <2>5, <2>6 DEF Accounted
<1>5. QED
  BY <1>3, <1>4

(* The bytes are written, and the scenario ends.                            *)
LEMMA FillInv == ASSUME ~Overlap, IInv, NEW p \in Proc, Fill(p) PROVE IInv'
<1>1. Acts(p)
  BY DEF Acts, Step
<1>2. Accounted(p) /\ Holding(p) /\ Looked(p)
  BY FillWrites DEF IInv
<1>3. ASSUME NEW f \in Path PROVE Sound(f)'
  <2>1. CASE f = path[p]
    <3>1. f \in files'
      BY <1>2, <2>1, FillWrites DEF Looked
    <3>2. \A t \in TurnsAt(f)' : t[2] = f[1]
      BY <1>2, <2>1, FillWrites DEF Holding
    <3>3. kept'[f] \ risked'[f] \subseteq TurnsAt(f)'
      BY <1>2, <2>1, FillWrites DEF Holding, Looked
    <3>4. QED
      BY <3>1, <3>2, <3>3 DEF Sound, Kept
  <2>2. CASE f # path[p]
    <3>1. Sound(f) /\ ~BeingWritten(f)
      BY <2>2, FillWrites DEF IInv, InTurn, BeingWritten, Running
    <3>2. QED
      BY <2>2, <3>1, FillWrites DEF Sound, Kept
  <2>3. QED
    BY <2>1, <2>2
<1>4. ASSUME NEW q \in Proc, NEW n \in Name, NEW f \in Path, pc[q] = "start"
      PROVE  <<q, n>> \notin (TurnsAt(f) \cup risked[f])'
  BY <1>4, FillWrites DEF IInv, InTurn, Unstarted
<1>5. QED
  BY <1>1, <1>2, <1>3, <1>4, FillWrites, FillAccounts, EndsInv DEF Accounted

(* The write is cut off, and the scenario fails: what is left of it counts  *)
(* as not on the disk.                                                      *)
LEMMA CutOffSkipped ==
    ASSUME ~Overlap, IInv, NEW p \in Proc, FillFails(p), NEW i \in DOMAIN opts[p].names
    PROVE  /\ OnDisk(p, i)' <=> i < at[p] + 1 /\ i \notin Failing(p)
           /\ i < at[p] + 1 \/ Unrisked(p, i)'
<1>1. /\ pc[p] = "fill" /\ CutOff(p) /\ Ends(p, Failing(p)) /\ opts' = opts
  BY EndsKinds DEF FillFails
<1>2. /\ Accounted(p) /\ Holding(p) /\ at[p] \in DOMAIN opts[p].names
      /\ \A f \in Path : Sound(f)
  BY <1>1, CutOffWrites DEF IInv, InList
<1>3. /\ path[p][1] = Scenario(p) /\ <<p, Scenario(p)>> \in Held(p)
      /\ \A t \in Held(p) : t[2] = Scenario(p)
  BY <1>1, <1>2 DEF Holding
<1>4. i \in Nat /\ at[p] \in Nat
  BY NamesOf DEF IInv, TypeOK
<1>5. CASE i = at[p]
  <2>1. ~OnDisk(p, i)
    BY <1>2, <1>4, <1>5 DEF Accounted
  <2>2. \A f \in Path : f = path[p] => TurnsAt(f)' \subseteq risked'[f]
    BY <1>1, CutOffWrites
  <2>3. ~OnDisk(p, i)'
    BY <1>1, <2>1, <2>2, CutOffWrites DEF OnDisk
  <2>4. QED
    BY <1>4, <1>5, <2>3 DEF Failing
<1>6. CASE i # at[p]
  <2>1. opts[p].names[i] # Scenario(p)
    BY <1>2, <1>6, NamesOf DEF IInv, Scenario
  <2>2. <<p, opts[p].names[i]>> \notin Held(p) /\ <<p, opts[p].names[i]>> \notin TurnsAt(path[p])
    BY <1>1, <1>2, <1>3, <2>1, CutOffWrites DEF Sound
  <2>3. OnDisk(p, i)' <=> OnDisk(p, i)
    BY <1>1, <2>2, CutOffWrites DEF OnDisk
  <2>4. Unrisked(p, i)' <=> Unrisked(p, i)
    BY <1>1, <2>2, CutOffWrites DEF Unrisked
  <2>5. i < at[p] + 1 <=> i < at[p]
    BY <1>4, <1>6
  <2>6. QED
    BY <1>2, <1>6, <2>3, <2>4, <2>5 DEF Accounted, Failing
<1>7. QED
  BY <1>5, <1>6

(* So the invariant is kept.                                                *)
LEMMA FillFailsInv == ASSUME ~Overlap, IInv, NEW p \in Proc, FillFails(p) PROVE IInv'
<1>1. /\ Acts(p) /\ pc[p] = "fill" /\ CutOff(p) /\ Ends(p, Failing(p))
  BY DEF FillFails, Acts, Step
<1>2. Accounted(p)
  BY <1>1, CutOffWrites DEF IInv
<1>3. QED
  BY <1>1, <1>2, CutOffSound, CutOffSkipped, EndsInv DEF Accounted

(* Every step keeps the invariant.                                          *)
LEMMA StepInv == ASSUME ~Overlap PROVE IInv /\ [Next]_vars => IInv'
<1>1. ASSUME IInv, NEW p \in Proc, Acts(p) PROVE IInv'
  <2>1. CASE PrepareFails(p) \/ CallFails(p) \/ StatFails(p)
    <3>1. Fails(p) /\ Running(p) /\ pc[p] # "fill"
      BY <2>1 DEF PrepareFails, CallFails, StatFails, Running
    <3>2. QED
      BY <1>1, <3>1, FailsInv
  <2>2. QED
    BY <1>1, <2>1, StartInv, ResolveInv, PrepareInv, CallSucceedsInv, StatInv, StopInv,
       KilledWritingInv, TruncateInv, FillInv, FillFailsInv DEF Acts, Step
<1>2. ASSUME IInv, UNCHANGED vars PROVE IInv'
  <2> USE <1>2 DEF vars, procVars, diskVars
  <2>1. /\ \A f \in Path : TurnsAt(f)' = TurnsAt(f)
        /\ \A p \in Proc : Held(p)' = Held(p) /\ Running(p)' = Running(p)
                           /\ Scenario(p)' = Scenario(p)
    BY DEF TurnsAt, Held, Running, Scenario
  <2>2. TypeOK' /\ InList'
    BY DEF IInv, TypeOK, InList
  <2>3. InTurn'
    BY <2>1 DEF IInv, InTurn, Unstarted
  <2>4. \A f \in Path : Sound(f)'
    <3>1. \A f \in Path : BeingWritten(f)' <=> BeingWritten(f)
      BY DEF BeingWritten
    <3>2. QED
      BY <2>1, <3>1 DEF IInv, Sound, Kept
  <2>5. ASSUME NEW p \in Proc, Running(p)' PROVE Holding(p)' /\ Looked(p)' /\ Accounted(p)'
    <3>1. Holding(p) /\ Looked(p) /\ Accounted(p)
      BY <2>1, <2>5 DEF IInv
    <3>2. Holding(p)' /\ Looked(p)'
      BY <2>1, <3>1 DEF Holding, Looked
    <3>3. QED
      BY <3>1, <3>2, AccountStays
  <2>6. QED
    BY <2>2, <2>3, <2>4, <2>5 DEF IInv
<1>3. QED
  BY <1>1, <1>2 DEF Next, Acts

-----------------------------------------------------------------------------
(* Theorems                                                                 *)

(* Invocations of record.go that follow one another keep the invariant: the *)
(* disk has what was reported, and each knows what it has left there.       *)
THEOREM Invariance == ASSUME ~Overlap PROVE Spec => []IInv
<1>1. IInv /\ [Next]_vars => IInv'
  BY StepInv
<1>2. QED
  BY <1>1, InitInv, PTL DEF Spec

(* A turn that was reported written stays in its cassette, until --force    *)
(* or a write that is cut off takes it away.                                *)
THEOREM TurnsKept == ASSUME ~Overlap PROVE Spec => []ReportedTurnsKept
<1>1. IInv => ReportedTurnsKept
  BY DEF IInv, Sound, ReportedTurnsKept
<1>2. QED
  BY <1>1, Invariance, PTL

(* A re-run opens a recording for writing only with --force or --append.    *)
THEOREM NotClobbered == ASSUME ~Overlap PROVE Spec => NeverClobbered
<1>1. ASSUME IInv, NEW p \in Proc, pc[p] = "truncate"
      PROVE  kept[path[p]] = {} \/ opts[p].force \/ opts[p].append
  <2>1. path[p] \in Path /\ Running(p)
    BY <1>1 DEF IInv, TypeOK, Running
  <2>2. QED
    BY <1>1, <2>1 DEF IInv, Looked, Sound
<1>2. IInv => [\A p \in Proc :
          pc[p] = "truncate" /\ pc'[p] = "fill" =>
             kept[path[p]] = {} \/ opts[p].force \/ opts[p].append]_vars
  BY <1>1
<1>3. QED
  BY <1>2, Invariance, PTL DEF NeverClobbered

(* resolveOutPath with --append finds the turns in either bucket.           *)
THEOREM FirstTurnFound == ASSUME ~Overlap PROVE Spec => AppendFindsFirstTurn
<1>1. ASSUME IInv, NEW p \in Proc, pc[p] = "prepare", opts[p].append, ~opts[p].out
      PROVE  path[p] \in files \/ \A b \in Buckets : disk[<<Scenario(p), b>>] = <<>>
  <2>1. path[p] \notin files => \A b \in Buckets : <<Scenario(p), b>> \notin files
    BY <1>1 DEF IInv, Looked, Running
  <2>2. \A b \in Buckets : <<Scenario(p), b>> \in Path
    BY <1>1, ScenarioType DEF IInv, Path
  <2>3. QED
    BY <1>1, <2>1, <2>2 DEF IInv, Sound
<1>2. IInv => [\A p \in Proc :
          /\ pc[p] = "prepare" /\ pc'[p] = "exit"
          /\ opts[p].append /\ ~opts[p].out
          => \/ path[p] \in files
             \/ \A b \in Buckets : disk[<<Scenario(p), b>>] = <<>>]_vars
  BY <1>1
<1>3. QED
  BY <1>2, Invariance, PTL DEF AppendFindsFirstTurn

(* The exit code of a command and its list of skipped scenarios are what is *)
(* on the disk.                                                             *)
THEOREM ExitCodes == ASSUME ~Overlap PROVE Spec => ExitTellsTruth
<1>1. ASSUME IInv, NEW p \in Proc, Acts(p), Running(p), pc'[p] = "exit"
      PROVE  /\ code'[p] = 0 <=> \A i \in DOMAIN opts[p].names : OnDisk(p, i)'
             /\ \A i \in failed'[p] : ~OnDisk(p, i)'
  <2> DEFINE Names == DOMAIN opts[p].names
  <2>1. Accounted(p) /\ at[p] \in Names /\ at[p] \in Int
    BY <1>1, NamesOf DEF IInv, InList, TypeOK
  <2>2. failed[p] \subseteq Names
    <3>1. failed[p] \subseteq 1 .. Cardinality(Name) /\ Cardinality(Name) \in Nat
      BY <1>1, NamesOf DEF IInv, TypeOK
    <3>2. Names = 1 .. Len(opts[p].names) /\ Len(opts[p].names) \in Nat
      BY <1>1, NamesOf DEF IInv
    <3>3. QED
      BY <2>1, <3>1, <3>2 DEF Accounted
  <2>3. CASE Fill(p)
    <3>1. /\ Last(p) /\ failed'[p] = failed[p]
          /\ code'[p] = ExitCode(failed[p])
      BY <1>1, <2>3, FillWrites, EndsKinds
    <3>2. \A i \in Names : i < at[p] + 1
      BY <1>1, <2>1, <3>1, NamesOf DEF IInv, Last
    <3>3. \A i \in Names : OnDisk(p, i)' <=> i \notin failed[p]
      BY <1>1, <2>3, <3>2, FillAccounts
    <3>4. QED
      BY <2>2, <3>1, <3>3 DEF ExitCode
  <2>4. CASE FillFails(p)
    <3>1. IInv' /\ Ends(p, Failing(p)) /\ CutOff(p) /\ pc[p] = "fill"
      BY <1>1, <2>4, FillFailsInv DEF FillFails
    <3>2. opts' = opts /\ failed'[p] = Failing(p) /\ code'[p] = 1
      BY <1>1, <3>1, EndsKinds DEF ExitCode, Failing
    <3>3. \A i \in Failing(p) : ~OnDisk(p, i)'
      BY <1>1, <2>1, <2>2, <2>4, CutOffSkipped DEF Failing
    <3>4. QED
      BY <2>1, <2>2, <3>2, <3>3 DEF Failing
  <2>5. CASE ~Fill(p) /\ ~FillFails(p)
    <3>1. /\ opts' = opts /\ disk' = disk /\ risked' = risked /\ code'[p] = 1
          /\ failed'[p] \in {failed[p], Failing(p)}
      <4>1. CASE Fails(p)
        <5>1. Ends(p, Failing(p)) /\ disk' = disk /\ risked' = risked
          BY <4>1 DEF Fails, diskVars
        <5>2. ExitCode(Failing(p)) = 1
          BY DEF ExitCode, Failing
        <5>3. QED
          BY <1>1, <5>1, <5>2, EndsKinds
      <4>2. CASE ~Fails(p)
        <5>1. Abort(p)
          <6>1. ~Start(p) /\ ~PrepareFails(p) /\ ~CallFails(p) /\ ~StatFails(p)
            BY <1>1, <4>2 DEF Start, Running, PrepareFails, CallFails, StatFails
          <6>2. pc \in [Proc -> Stages]
            BY <1>1 DEF IInv, TypeOK
          <6>3. ~Killed(p) /\ ~Resolve(p) /\ ~Prepare(p) /\ ~CallSucceeds(p) /\ ~Stat(p)
                /\ ~Truncate(p)
            BY <1>1, <6>2 DEF Killed, Resolve, Prepare, CallSucceeds, Stat, Truncate
          <6>4. QED
            BY <1>1, <2>5, <6>1, <6>3 DEF Acts, Step
        <5>2. QED
          BY <1>1, <5>1 DEF Abort, Exit, diskVars, IInv, TypeOK
      <4>3. QED
        BY <4>1, <4>2
    <3>2. \A i \in Names : OnDisk(p, i)' <=> OnDisk(p, i)
      BY <3>1 DEF OnDisk, TurnsAt
    <3>3. ~OnDisk(p, at[p]) /\ \A i \in failed[p] : ~OnDisk(p, i)
      BY <2>1, <2>2 DEF Accounted
    <3>4. QED
      BY <2>1, <2>2, <3>1, <3>2, <3>3 DEF Failing
  <2>6. QED
    BY <2>3, <2>4, <2>5
<1>2. ASSUME IInv, Next, NEW p \in Proc, Running(p), pc'[p] = "exit"
      PROVE  /\ code'[p] = 0 <=> \A i \in DOMAIN opts[p].names : OnDisk(p, i)'
             /\ \A i \in failed'[p] : ~OnDisk(p, i)'
  <2>1. PICK q \in Proc : Acts(q)
    BY <1>2 DEF Next, Acts
  <2>2. q = p
    BY <1>2, <2>1, Alone DEF Running
  <2>3. QED
    BY <1>1, <1>2, <2>1, <2>2
<1>3. IInv /\ [Next]_vars => [\A p \in Proc :
          Running(p) /\ pc'[p] = "exit" =>
             /\ code'[p] = 0 <=> \A i \in DOMAIN opts[p].names : OnDisk(p, i)'
             /\ \A i \in failed'[p] : ~OnDisk(p, i)']_vars
  BY <1>2
<1>4. QED
  BY <1>3, Invariance, PTL DEF Spec, ExitTellsTruth
=============================================================================
