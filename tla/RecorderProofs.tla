--------------------------- MODULE RecorderProofs ---------------------------
(***************************************************************************)
(* Proofs about Recorder, for any number of calls, identifiers and          *)
(* processes: type correctness, and the inductive invariant from which the  *)
(* correlation of markers and the accounting of entries follow.             *)
(***************************************************************************)
EXTENDS Recorder, SequenceTheorems, TLAPS

-----------------------------------------------------------------------------
(* Entries are only ever well formed.                                       *)

(* What AppendInteraction appends is an entry.                              *)
LEMMA ScrubbedIsEntry ==
    ASSUME TypeOK, NEW r \in Req
    PROVE  Scrubbed(r) \in Entry
  BY DEF TypeOK, Scrubbed, Entry

(* The calls' variables and the markers keep their types in every step.     *)
LEMMA TypeStep == TypeOK /\ [Next]_vars => TypeOK'
<1>1. SUFFICES ASSUME TypeOK, [Next]_vars PROVE TypeOK'
  OBVIOUS
<1>2. ASSUME NEW r \in Req, RoundTrip(r) PROVE TypeOK'
  <2>1. CASE StartRoundTrip(r)
    BY <1>1, <2>1 DEF TypeOK, StartRoundTrip, Goes, exchangeVars, Stages, tokenVars,
         fileVars
  <2>2. CASE ReadRequestFails(r)
    BY <1>1, <2>2 DEF TypeOK, ReadRequestFails, Goes, exchangeVars, Stages, tokenVars,
         fileVars
  <2>3. CASE ExchangeFails(r)
    BY <1>1, <2>3 DEF TypeOK, ExchangeFails, Goes, exchangeVars, Stages, tokenVars,
         fileVars
  <2>4. CASE ExchangeEnds(r)
    BY <1>1, <2>4 DEF TypeOK, ExchangeEnds, Goes, Collected, Stages, tokenVars, fileVars
  <2>5. CASE TraceToken(r)
    BY <1>1, <2>5 DEF TypeOK, TraceToken, MarkerOf, Stages, fileVars
  <2>6. CASE AppendInteraction(r)
    <3>1. interactions' \in Seq(Entry)
      BY <1>1, <2>6, ScrubbedIsEntry, AppendProperties DEF TypeOK, AppendInteraction, Goes, exchangeVars, Appended
    <3>2. QED
      BY <1>1, <2>6, <3>1 DEF TypeOK, AppendInteraction, Goes, exchangeVars, Appended, Stages,
         tokenVars, fileVars
  <2>7. CASE EncodeFails(r)
    BY <1>1, <2>7 DEF TypeOK, EncodeFails, EncodeFailed, Goes, exchangeVars, Stages,
         tokenVars, fileVars
  <2>8. CASE Return(r)
    BY <1>1, <2>8 DEF TypeOK, Return, Goes, exchangeVars, Stages, tokenVars, fileVars
  <2>9. QED
    BY <1>2, <2>1, <2>2, <2>3, <2>4, <2>5, <2>6, <2>7, <2>8 DEF RoundTrip
<1>3. CASE SetMeta
  BY <1>1, <1>3 DEF TypeOK, SetMeta, callVars, exchangeVars, tokenVars, fileVars
<1>4. CASE PrependFromFile
  <2>1. interactions' \in Seq(Entry)
    BY <1>1, <1>4, ConcatProperties DEF TypeOK, PrependFromFile, Prepended
  <2>2. QED
    BY <1>1, <1>4, <2>1 DEF TypeOK, PrependFromFile, Prepended, callVars, exchangeVars,
         tokenVars
<1>5. CASE WriteFile
  BY <1>1, <1>5 DEF TypeOK, WriteFile, Cassette, callVars, exchangeVars, tokenVars
<1>6. CASE WriteFileFails
  <2>1. PICK n \in 0 .. Len(interactions) - 1 :
             file' = [run |-> run, meta |-> meta,
                      entries |-> SubSeq(interactions, 1, n)]
    BY <1>6 DEF WriteFileFails
  <2>2. SubSeq(interactions, 1, n) \in Seq(Entry)
    BY <1>1, <2>1, SubSeqProperties DEF TypeOK
  <2>3. QED
    BY <1>1, <1>6, <2>1, <2>2 DEF TypeOK, WriteFileFails, callVars, exchangeVars, tokenVars
<1>7. CASE NewRecorder
  <2>1. run' \in Nat \ {0} /\ interactions' \in Seq(Entry)
    BY <1>1, <1>7 DEF TypeOK, NewRecorder, NewScrubber
  <2>2. traceValues' \in [Id -> Nat] /\ repl' \in [Req -> [Id -> Nat]]
    BY <1>7 DEF NewRecorder, NewScrubber, PerCall, NoMarks
  <2>3. QED
    BY <1>1, <1>7, <2>1, <2>2 DEF TypeOK, NewRecorder, NewScrubber, PerCall, Stages
<1>8. CASE UNCHANGED vars
  BY <1>1, <1>8 DEF TypeOK, vars, callVars, exchangeVars, tokenVars, fileVars
<1>9. QED
  BY <1>1, <1>2, <1>3, <1>4, <1>5, <1>6, <1>7, <1>8 DEF Next

(* A new recorder is well formed.                                           *)
LEMMA InitType == Init => TypeOK
<1>1. SUFFICES ASSUME Init PROVE TypeOK
  OBVIOUS
<1>2. traceValues \in [Id -> Nat] /\ repl \in [Req -> [Id -> Nat]]
  BY <1>1 DEF Init, PerCall, NoMarks
<1>3. interactions \in Seq(Entry)
  BY <1>1 DEF Init
<1>4. file \in [run : Nat, meta : Nat, entries : Seq(Entry)]
  BY <1>1 DEF Init, NoFile
<1>5. stage \in [Req -> Stages] /\ earlier \in [Req -> SUBSET Req]
  BY <1>1 DEF Init, PerCall, Stages
<1>6. /\ carried \in [Req -> SUBSET Id]
      /\ echoed \in [Req -> SUBSET Id]
      /\ pending \in [Req -> SUBSET Id]
  BY <1>1 DEF Init, PerCall
<1>7. nextTrace = 0 /\ meta = 0 /\ run = 1
  BY <1>1, Zenon DEF Init
<1>8. loaded \in BOOLEAN
  BY <1>1, Zenon DEF Init
<1>9. QED
  BY <1>2, <1>3, <1>4, <1>5, <1>6, <1>7, <1>8 DEF TypeOK

(* Every state of every behaviour is of the declared types.                 *)
THEOREM TypeCorrect == Spec => []TypeOK
<1>1. Init => TypeOK
  BY InitType
<1>2. QED
  BY <1>1, TypeStep, PTL DEF Spec

-----------------------------------------------------------------------------
(* A step either leaves alone the table, the log and the file, or is one of *)
(* six kinds.                                                               *)

Quiet ==
    /\ UNCHANGED <<traceValues, nextTrace, repl, interactions, file, run, loaded>>
    /\ \A r \in Req : stage'[r] \in Recorded <=> stage[r] \in Recorded

(* All of RoundTrip but naming and appending is quiet.                      *)
LEMMA StepKinds ==
    ASSUME TypeOK, [Next]_vars
    PROVE  \/ Quiet
           \/ \E r \in Req : TraceToken(r)
           \/ \E r \in Req : AppendInteraction(r)
           \/ PrependFromFile
           \/ WriteFile \/ WriteFileFails
           \/ NewRecorder
<1>1. ASSUME NEW r \in Req, RoundTrip(r), ~TraceToken(r), ~AppendInteraction(r)
      PROVE  Quiet
  <2>1. CASE StartRoundTrip(r)
    BY <2>1 DEF TypeOK, Quiet, Recorded, StartRoundTrip, Goes, exchangeVars,
         tokenVars, fileVars
  <2>2. CASE ReadRequestFails(r)
    BY <2>2 DEF TypeOK, Quiet, Recorded, ReadRequestFails, Goes, exchangeVars,
         tokenVars, fileVars
  <2>3. CASE ExchangeFails(r)
    BY <2>3 DEF TypeOK, Quiet, Recorded, ExchangeFails, Goes, exchangeVars,
         tokenVars, fileVars
  <2>4. CASE ExchangeEnds(r)
    BY <2>4 DEF TypeOK, Quiet, Recorded, ExchangeEnds, Goes, Collected,
         tokenVars, fileVars
  <2>5. CASE EncodeFails(r)
    BY <2>5 DEF TypeOK, Quiet, Recorded, EncodeFails, EncodeFailed, Goes,
         exchangeVars, tokenVars, fileVars
  <2>6. CASE Return(r)
    BY <2>6 DEF TypeOK, Quiet, Recorded, Return, Goes, exchangeVars, tokenVars,
         fileVars
  <2>7. QED
    BY <1>1, <2>1, <2>2, <2>3, <2>4, <2>5, <2>6 DEF RoundTrip
<1>2. SetMeta => Quiet
  BY DEF Quiet, SetMeta, callVars, exchangeVars, tokenVars, fileVars
<1>3. UNCHANGED vars => Quiet
  BY DEF Quiet, vars, callVars, exchangeVars, tokenVars, fileVars
<1>4. QED
  BY <1>1, <1>2, <1>3 DEF Next

-----------------------------------------------------------------------------
(* The parts of the invariant, one lemma each.                              *)

(* A new number is above every number given.                                *)
LEMMA TokensStep ==
    ASSUME TypeOK, TokensDistinct, [Next]_vars
    PROVE  TokensDistinct'
<1>1. ASSUME NEW r \in Req, TraceToken(r) PROVE TokensDistinct'
  <2>1. PICK a \in pending[r] :
          /\ traceValues' = [traceValues EXCEPT ![a] = MarkerOf(a)]
          /\ nextTrace' = IF traceValues[a] # 0 THEN nextTrace ELSE nextTrace + 1
    BY <1>1 DEF TraceToken
  <2>2. a \in Id
    BY DEF TypeOK
  <2>3. CASE traceValues[a] # 0
    <3>1. traceValues' = traceValues /\ nextTrace' = nextTrace
      BY <2>1, <2>2, <2>3 DEF TypeOK, MarkerOf
    <3>2. QED
      BY <3>1 DEF TokensDistinct
  <2>4. CASE traceValues[a] = 0
    <3>1. /\ nextTrace' = nextTrace + 1
          /\ \A b \in Id : traceValues'[b] = IF b = a THEN nextTrace + 1
                                                     ELSE traceValues[b]
      BY <2>1, <2>2, <2>4 DEF TypeOK, MarkerOf
    <3>2. \A b \in Id : traceValues[b] \in Nat /\ nextTrace \in Nat
      BY DEF TypeOK
    <3>3. QED
      BY <3>1, <3>2 DEF TokensDistinct
  <2>5. QED
    BY <2>3, <2>4
<1>2. CASE NewRecorder
  BY <1>2 DEF NewRecorder, NewScrubber, NoMarks, TokensDistinct
<1>3. CASE UNCHANGED tokenVars
  BY <1>3 DEF tokenVars, TokensDistinct
<1>4. QED
  BY <1>1, <1>2, <1>3, StepKinds
     DEF Quiet, tokenVars, AppendInteraction, Goes, exchangeVars,
         Appended, PrependFromFile, Prepended, WriteFile, Cassette,
         WriteFileFails

(* Within a process the table only grows: a marker given stays as given.    *)
LEMMA TableGrows ==
    ASSUME TypeOK, NEW r \in Req, TraceToken(r), NEW a \in Id, traceValues[a] # 0
    PROVE  traceValues'[a] = traceValues[a]
  BY DEF TypeOK, TraceToken, MarkerOf

(* A call's replacements are those of the table.                            *)
LEMMA ReplStep ==
    ASSUME TypeOK, ReplFromTable, [Next]_vars
    PROVE  ReplFromTable'
<1>1. ASSUME NEW r \in Req, TraceToken(r) PROVE ReplFromTable'
  <2>1. PICK a \in pending[r] :
          /\ traceValues' = [traceValues EXCEPT ![a] = MarkerOf(a)]
          /\ repl' = [repl EXCEPT ![r][a] = MarkerOf(a)]
    BY <1>1 DEF TraceToken
  <2>2. a \in Id
    BY DEF TypeOK
  <2>3. SUFFICES ASSUME NEW q \in Req, NEW b \in Id
                 PROVE  repl'[q][b] \in {0, traceValues'[b]}
    BY DEF ReplFromTable
  <2>4. CASE q = r /\ b = a
    BY <2>1, <2>2, <2>4 DEF TypeOK
  <2>5. CASE ~(q = r /\ b = a)
    <3>1. repl'[q][b] = repl[q][b]
      BY <2>1, <2>5 DEF TypeOK
    <3>2. repl[q][b] # 0 => traceValues'[b] = traceValues[b]
      BY <1>1, TableGrows DEF ReplFromTable
    <3>3. QED
      BY <3>1, <3>2 DEF ReplFromTable
  <2>6. QED
    BY <2>4, <2>5
<1>2. CASE NewRecorder
  BY <1>2 DEF NewRecorder, NewScrubber, PerCall, NoMarks, ReplFromTable
<1>3. CASE UNCHANGED <<traceValues, repl>>
  BY <1>3 DEF ReplFromTable
<1>4. QED
  BY <1>1, <1>2, <1>3, StepKinds
     DEF Quiet, callVars, exchangeVars, tokenVars, AppendInteraction,
         Goes, Appended, PrependFromFile, Prepended, WriteFile,
         Cassette, WriteFileFails

(* What the log and the file look like after each kind of step that touches *)
(* them: the facts about sequences that the lemmas below rest on.           *)

(* AppendInteraction puts one entry behind those that are there.            *)
LEMMA AppendShape ==
    ASSUME TypeOK, NEW r \in Req, AppendInteraction(r)
    PROVE  /\ DOMAIN interactions' = 1 .. Len(interactions) + 1
           /\ DOMAIN interactions = 1 .. Len(interactions)
           /\ Len(interactions) \in Nat
           /\ \A i \in DOMAIN interactions : interactions'[i] = interactions[i]
           /\ interactions'[Len(interactions) + 1] = Scrubbed(r)
<1>1. /\ interactions \in Seq(Entry)
      /\ interactions' = Append(interactions, Scrubbed(r))
      /\ Scrubbed(r) \in Entry
  BY ScrubbedIsEntry DEF TypeOK, AppendInteraction, Goes, exchangeVars, Appended
<1>2. QED
  BY <1>1, AppendProperties, LenProperties

(* What the log and the file hold are entries.                              *)
LEMMA EntryType ==
    ASSUME TypeOK
    PROVE  /\ \A i \in DOMAIN interactions : interactions[i] \in Entry
           /\ \A i \in DOMAIN file.entries : file.entries[i] \in Entry
<1>1. interactions \in Seq(Entry) /\ file.entries \in Seq(Entry)
  BY DEF TypeOK
<1>2. QED
  BY <1>1, LenProperties, ElementOfSeq

(* PrependFromFile puts the entries of the file in front, in their order.   *)
LEMMA PrependShape ==
    ASSUME TypeOK, PrependFromFile
    PROVE  /\ Len(file.entries) \in Nat /\ Len(interactions) \in Nat
           /\ DOMAIN file.entries = 1 .. Len(file.entries)
           /\ DOMAIN interactions = 1 .. Len(interactions)
           /\ DOMAIN interactions' = 1 .. Len(file.entries) + Len(interactions)
           /\ \A i \in DOMAIN interactions' :
                 interactions'[i] = IF i <= Len(file.entries)
                                    THEN file.entries[i]
                                    ELSE interactions[i - Len(file.entries)]
<1>1. /\ interactions \in Seq(Entry)
      /\ file.entries \in Seq(Entry)
      /\ interactions' = file.entries \o interactions
  BY DEF TypeOK, PrependFromFile, Prepended
<1>2. QED
  BY <1>1, ConcatProperties, LenProperties

(* A save, even one that breaks off, puts nothing into the file that is not *)
(* in the log.                                                              *)
LEMMA WriteShape ==
    ASSUME TypeOK, WriteFile \/ WriteFileFails
    PROVE  /\ file'.run = run
           /\ DOMAIN file'.entries \subseteq DOMAIN interactions
           /\ \A i \in DOMAIN file'.entries : file'.entries[i] = interactions[i]
           /\ UNCHANGED <<callVars, tokenVars, interactions, run, loaded>>
<1>1. CASE WriteFile
  BY <1>1 DEF WriteFile, Cassette
<1>2. CASE WriteFileFails
  <2>1. PICK n \in 0 .. Len(interactions) - 1 :
             file' = [run |-> run, meta |-> meta,
                      entries |-> SubSeq(interactions, 1, n)]
    BY <1>2 DEF WriteFileFails
  <2>2. /\ interactions \in Seq(Entry)
        /\ Len(interactions) \in Nat
        /\ DOMAIN interactions = 1 .. Len(interactions)
    BY LenProperties DEF TypeOK
  <2>3. \A i \in 1 .. n : interactions[i] \in Entry
    BY <2>2, ElementOfSeq
  <2>4. /\ SubSeq(interactions, 1, n) \in Seq(Entry)
        /\ Len(SubSeq(interactions, 1, n)) = n
        /\ \A i \in 1 .. n : SubSeq(interactions, 1, n)[i] = interactions[i]
    BY <2>1, <2>2, <2>3, SubSeqProperties
  <2>5. DOMAIN SubSeq(interactions, 1, n) = 1 .. n
    BY <2>4, LenProperties
  <2>6. QED
    BY <1>2, <2>1, <2>2, <2>4, <2>5 DEF WriteFileFails
<1>3. QED
  BY <1>1, <1>2

(* No entry is of a later process, and the markers of this one's are those  *)
(* of the table.                                                            *)
LEMMA MasksStep ==
    ASSUME TypeOK, ReplFromTable, MasksFromTable(interactions), RunsInOrder,
           [Next]_vars
    PROVE  MasksFromTable(interactions)'
<1>1. SUFFICES ASSUME NEW i \in DOMAIN interactions'
               PROVE  /\ interactions'[i].run <= run'
                      /\ interactions'[i].run = run' =>
                            \A a \in Id : interactions'[i].mask[a] \in {0, traceValues'[a]}
  BY DEF MasksFromTable
<1>2. CASE Quiet
  BY <1>2 DEF Quiet, MasksFromTable
<1>3. ASSUME NEW r \in Req, TraceToken(r)
      PROVE  /\ interactions'[i].run <= run'
             /\ interactions'[i].run = run' =>
                   \A a \in Id : interactions'[i].mask[a] \in {0, traceValues'[a]}
  <2>1. interactions' = interactions /\ run' = run
    BY <1>3 DEF TraceToken, fileVars
  <2>2. \A a \in Id : traceValues[a] # 0 => traceValues'[a] = traceValues[a]
    BY <1>3, TableGrows
  <2>3. QED
    BY <2>1, <2>2 DEF MasksFromTable
<1>4. ASSUME NEW r \in Req, AppendInteraction(r)
      PROVE  /\ interactions'[i].run <= run'
             /\ interactions'[i].run = run' =>
                   \A a \in Id : interactions'[i].mask[a] \in {0, traceValues'[a]}
  <2>1. run' = run /\ traceValues' = traceValues /\ run \in Nat
    BY <1>4 DEF AppendInteraction, Goes, exchangeVars, Appended, tokenVars,
         fileVars, TypeOK
  <2>2. CASE i \in DOMAIN interactions
    BY <1>4, <2>1, <2>2, AppendShape DEF MasksFromTable
  <2>3. CASE i \notin DOMAIN interactions
    <3>1. interactions'[i] = Scrubbed(r)
      BY <1>4, <2>3, AppendShape
    <3>2. QED
      BY <2>1, <3>1 DEF Scrubbed, ReplFromTable
  <2>4. QED
    BY <2>2, <2>3
<1>5. CASE PrependFromFile
  <2>1. /\ run' = run /\ traceValues' = traceValues
        /\ run \in Nat /\ file.run \in Nat /\ file.run < run
    BY <1>5 DEF PrependFromFile, Prepended, tokenVars, TypeOK
  <2>2. CASE i <= Len(file.entries)
    <3>1. i \in DOMAIN file.entries /\ interactions'[i] = file.entries[i]
      BY <1>5, <2>2, PrependShape
    <3>2. file.entries[i].run <= file.run
      BY <3>1 DEF RunsInOrder
    <3>3. file.entries[i].run \in Nat
      BY <3>1, EntryType DEF Entry
    <3>4. QED
      BY <2>1, <3>1, <3>2, <3>3
  <2>3. CASE ~(i <= Len(file.entries))
    <3>1. /\ i - Len(file.entries) \in DOMAIN interactions
          /\ interactions'[i] = interactions[i - Len(file.entries)]
      BY <1>5, <2>3, PrependShape
    <3>2. QED
      BY <2>1, <3>1 DEF MasksFromTable
  <2>4. QED
    BY <2>2, <2>3
<1>6. CASE WriteFile \/ WriteFileFails
  BY <1>6, WriteShape DEF MasksFromTable, tokenVars
<1>7. CASE NewRecorder
  BY <1>1, <1>7 DEF NewRecorder, NewScrubber
<1>8. QED
  BY <1>2, <1>3, <1>4, <1>5, <1>6, <1>7, StepKinds

(* Files are of this process or an earlier one; until it loads one, the log *)
(* holds only what this process recorded.                                   *)
LEMMA RunsStep ==
    ASSUME TypeOK, RunsInOrder, MasksFromTable(interactions), [Next]_vars
    PROVE  RunsInOrder'
<1>1. run \in Nat /\ file.run \in Nat
  BY DEF TypeOK
<1>2. CASE Quiet
  BY <1>2 DEF Quiet, RunsInOrder
<1>3. ASSUME NEW r \in Req, TraceToken(r) PROVE RunsInOrder'
  BY <1>3 DEF TraceToken, fileVars, RunsInOrder
<1>4. ASSUME NEW r \in Req, AppendInteraction(r) PROVE RunsInOrder'
  <2>1. UNCHANGED fileVars
    BY <1>4 DEF AppendInteraction, Goes, exchangeVars, Appended
  <2>2. Scrubbed(r).run = run
    BY DEF Scrubbed
  <2>3. ~loaded => \A i \in DOMAIN interactions' : interactions'[i].run = run
    BY <1>4, <2>2, AppendShape DEF RunsInOrder
  <2>4. QED
    BY <2>1, <2>3 DEF fileVars, RunsInOrder
<1>5. CASE PrependFromFile
  BY <1>5 DEF PrependFromFile, Prepended, RunsInOrder
<1>6. CASE WriteFile \/ WriteFileFails
  <2>1. \A i \in DOMAIN file'.entries : file'.entries[i].run <= run
    BY <1>6, WriteShape DEF MasksFromTable
  <2>2. QED
    BY <1>1, <1>6, <2>1, WriteShape DEF RunsInOrder
<1>7. CASE NewRecorder
  <2>1. \A i \in DOMAIN file.entries : file.entries[i].run <= file.run
    BY DEF RunsInOrder
  <2>2. run' = run + 1 /\ file' = file /\ interactions' = <<>>
    BY <1>7 DEF NewRecorder, NewScrubber
  <2>3. file.run <= run + 1
    BY <1>1 DEF RunsInOrder
  <2>4. QED
    BY <2>1, <2>2, <2>3 DEF RunsInOrder
<1>8. QED
  BY <1>2, <1>3, <1>4, <1>5, <1>6, <1>7, StepKinds

(* Appending is the one way into the log and into the recorded stages, and  *)
(* a call goes through it once.                                             *)
LEMMA RecordedStep ==
    ASSUME TypeOK, RunsInOrder, RecordedOnce, [Next]_vars
    PROVE  RecordedOnce'
<1>1. CASE Quiet
  BY <1>1 DEF Quiet, RecordedOnce, IsEntryOf
<1>2. ASSUME NEW r \in Req, TraceToken(r) PROVE RecordedOnce'
  BY <1>2 DEF TraceToken, fileVars, RecordedOnce, IsEntryOf
<1>3. ASSUME NEW r \in Req, AppendInteraction(r) PROVE RecordedOnce'
  <2>1. /\ run' = run
        /\ stage' = [stage EXCEPT ![r] = "appended"]
        /\ stage \in [Req -> Stages]
        /\ stage[r] = "naming"
    BY <1>3 DEF AppendInteraction, Goes, exchangeVars, Appended, fileVars, TypeOK
  <2>2. \A i \in DOMAIN interactions : ~IsEntryOf(i, r)
    BY <2>1 DEF RecordedOnce, Recorded
  <2>3. Scrubbed(r).run = run /\ Scrubbed(r).req = r
    BY DEF Scrubbed
  <2>4. \A i \in DOMAIN interactions', q \in Req :
           IsEntryOf(i, q)' <=> \/ i \in DOMAIN interactions /\ IsEntryOf(i, q)
                                \/ i = Len(interactions) + 1 /\ q = r
    BY <1>3, <2>1, <2>3, AppendShape DEF IsEntryOf
  <2>5. \A q \in Req : stage'[q] \in Recorded <=> stage[q] \in Recorded \/ q = r
    BY <2>1 DEF Recorded
  <2>6. \A i \in DOMAIN interactions', q \in Req :
           IsEntryOf(i, q)' => stage'[q] \in Recorded
    BY <2>4, <2>5 DEF RecordedOnce
  <2>7. \A q \in Req : stage'[q] \in Recorded =>
           \E i \in DOMAIN interactions' : IsEntryOf(i, q)'
    <3>1. Len(interactions) + 1 \in DOMAIN interactions' /\ DOMAIN interactions \subseteq DOMAIN interactions'
      BY <1>3, AppendShape
    <3>2. QED
      BY <2>4, <2>5, <3>1 DEF RecordedOnce
  <2>8. \A i, j \in DOMAIN interactions', q \in Req :
           IsEntryOf(i, q)' /\ IsEntryOf(j, q)' => i = j
    BY <2>2, <2>4 DEF RecordedOnce
  <2>9. QED
    BY <2>6, <2>7, <2>8 DEF RecordedOnce
<1>4. CASE PrependFromFile
  <2>1. /\ run' = run /\ stage' = stage
        /\ run \in Nat /\ file.run \in Nat /\ file.run < run
    BY <1>4 DEF PrependFromFile, Prepended, callVars, exchangeVars, TypeOK
  <2> DEFINE k == Len(file.entries)
  <2>2. \A i \in DOMAIN file.entries : file.entries[i].run # run
    <3>1. \A i \in DOMAIN file.entries : file.entries[i].run \in Nat
      BY EntryType DEF Entry
    <3>2. QED
      BY <2>1, <3>1 DEF RunsInOrder
  <2>3. \A i \in DOMAIN interactions', q \in Req :
           IsEntryOf(i, q)' => i - k \in DOMAIN interactions /\ IsEntryOf(i - k, q)
    BY <1>4, <2>1, <2>2, PrependShape DEF IsEntryOf
  <2>4. \A i \in DOMAIN interactions :
           i + k \in DOMAIN interactions' /\ interactions'[i + k] = interactions[i]
    <3>1. TAKE i \in DOMAIN interactions
    <3>2. /\ i \in Nat /\ k \in Nat /\ ~(i + k <= k) /\ (i + k) - k = i
          /\ i + k \in DOMAIN interactions'
      BY <1>4, PrependShape
    <3>3. interactions'[i + k] = interactions[(i + k) - k]
      BY <1>4, <3>2, PrependShape
    <3>4. QED
      BY <3>2, <3>3
  <2>5. \A i, j \in DOMAIN interactions' : i - k = j - k => i = j
    BY <1>4, PrependShape
  <2> HIDE DEF k
  <2>6. \A i \in DOMAIN interactions', q \in Req :
           IsEntryOf(i, q)' => stage'[q] \in Recorded
    BY <2>1, <2>3 DEF RecordedOnce
  <2>7. \A q \in Req : stage'[q] \in Recorded =>
           \E i \in DOMAIN interactions' : IsEntryOf(i, q)'
    <3>1. \A i \in DOMAIN interactions :
             \E j \in DOMAIN interactions' : interactions'[j] = interactions[i]
      BY <2>4
    <3>2. \A q \in Req, i \in DOMAIN interactions :
             IsEntryOf(i, q) => \E j \in DOMAIN interactions' : IsEntryOf(j, q)'
      BY <2>1, <3>1 DEF IsEntryOf
    <3>3. QED
      BY <2>1, <3>2 DEF RecordedOnce
  <2>8. \A i, j \in DOMAIN interactions', q \in Req :
           IsEntryOf(i, q)' /\ IsEntryOf(j, q)' => i = j
    BY <2>3, <2>5 DEF RecordedOnce
  <2>9. QED
    BY <2>6, <2>7, <2>8 DEF RecordedOnce
<1>5. CASE WriteFile \/ WriteFileFails
  BY <1>5, WriteShape DEF RecordedOnce, IsEntryOf, callVars, exchangeVars
<1>6. CASE NewRecorder
  <2>1. DOMAIN interactions' = {}
    BY <1>6 DEF NewRecorder, NewScrubber
  <2>2. \A q \in Req : stage'[q] \notin Recorded
    BY <1>6 DEF NewRecorder, NewScrubber, PerCall, Recorded
  <2>3. QED
    BY <2>1, <2>2 DEF RecordedOnce
<1>7. QED
  BY <1>1, <1>2, <1>3, <1>4, <1>5, <1>6, StepKinds

-----------------------------------------------------------------------------
(* Markers correlate.                                                       *)

(* Two entries whose markers, when they are of one process, come from its   *)
(* table, agree.                                                            *)
LEMMA FromTableAgree ==
    ASSUME TypeOK, TokensDistinct,
           NEW e \in Entry, NEW f \in Entry,
           e.run = f.run =>
              \A a \in Id : /\ e.mask[a] \in {0, traceValues[a]}
                            /\ f.mask[a] \in {0, traceValues[a]}
    PROVE  Log!SameMeaning(e, f)
  BY DEF TokensDistinct, Log!SameMeaning

(* Agreement of all pairs is kept by every step.                            *)
LEMMA CorrelateStep ==
    ASSUME IInv, [Next]_vars
    PROVE  MarkersCorrelate'
<1> USE DEF IInv
<1>1. SUFFICES Log!Correlated(interactions)' /\ Log!Correlated(file.entries)'
  BY DEF MarkersCorrelate, Log!MarkersCorrelate
<1>2. Log!Correlated(interactions) /\ Log!Correlated(file.entries)
  BY DEF MarkersCorrelate, Log!MarkersCorrelate
<1>3. CASE UNCHANGED <<interactions, file>>
  BY <1>2, <1>3 DEF Log!Correlated, Log!SameMeaning
<1>4. ASSUME NEW r \in Req, AppendInteraction(r)
      PROVE  Log!Correlated(interactions)' /\ Log!Correlated(file.entries)'
  <2> DEFINE e == Scrubbed(r)
  <2>1. e \in Entry /\ e.run = run /\ \A a \in Id : e.mask[a] \in {0, traceValues[a]}
    BY ScrubbedIsEntry DEF Scrubbed, ReplFromTable
  <2>2. \A i \in DOMAIN interactions :
           /\ interactions[i] \in Entry
           /\ interactions[i].run = run =>
                 \A a \in Id : interactions[i].mask[a] \in {0, traceValues[a]}
    BY EntryType DEF MasksFromTable
  <2> HIDE DEF e
  <2>3. /\ Log!SameMeaning(e, e)
        /\ \A i \in DOMAIN interactions : /\ Log!SameMeaning(e, interactions[i])
                                          /\ Log!SameMeaning(interactions[i], e)
    BY <2>1, <2>2, FromTableAgree
  <2>4. \A i \in DOMAIN interactions' :
           \/ interactions'[i] = e
           \/ i \in DOMAIN interactions /\ interactions'[i] = interactions[i]
    BY <1>4, AppendShape DEF e
  <2>5. \A i, j \in DOMAIN interactions' : Log!SameMeaning(interactions'[i], interactions'[j])
    BY <1>2, <2>3, <2>4 DEF Log!Correlated
  <2>6. file' = file
    BY <1>4 DEF AppendInteraction, Goes, exchangeVars, Appended, fileVars
  <2>7. QED
    BY <1>2, <2>5, <2>6 DEF Log!Correlated, Log!SameMeaning
<1>5. CASE PrependFromFile
  <2>1. /\ file' = file /\ run \in Nat /\ file.run \in Nat /\ file.run < run /\ ~loaded
    BY <1>5 DEF PrependFromFile, Prepended, TypeOK
  <2>2. /\ \A i \in DOMAIN file.entries :
              file.entries[i] \in Entry /\ file.entries[i].run # run
        /\ \A i \in DOMAIN interactions :
              interactions[i] \in Entry /\ interactions[i].run = run
    <3>1. /\ \A i \in DOMAIN file.entries : file.entries[i] \in Entry /\ file.entries[i].run \in Nat
          /\ \A i \in DOMAIN interactions : interactions[i] \in Entry
      BY EntryType DEF Entry
    <3>2. QED
      BY <2>1, <3>1 DEF RunsInOrder
  <2>3. \A i \in DOMAIN file.entries, j \in DOMAIN interactions :
           /\ Log!SameMeaning(file.entries[i], interactions[j])
           /\ Log!SameMeaning(interactions[j], file.entries[i])
    BY <2>2 DEF Log!SameMeaning
  <2>4. \A i \in DOMAIN interactions' :
           \/ \E m \in DOMAIN file.entries : interactions'[i] = file.entries[m]
           \/ \E m \in DOMAIN interactions : interactions'[i] = interactions[m]
    BY <1>5, PrependShape
  <2>5. \A i, j \in DOMAIN interactions' : Log!SameMeaning(interactions'[i], interactions'[j])
    BY <1>2, <2>3, <2>4 DEF Log!Correlated
  <2>6. QED
    BY <1>2, <2>1, <2>5 DEF Log!Correlated, Log!SameMeaning
<1>6. CASE WriteFile \/ WriteFileFails
  <2>1. \A i, j \in DOMAIN file'.entries : Log!SameMeaning(file'.entries[i], file'.entries[j])
    BY <1>2, <1>6, WriteShape DEF Log!Correlated
  <2>2. QED
    BY <1>2, <1>6, <2>1, WriteShape DEF Log!Correlated, Log!SameMeaning
<1>7. CASE NewRecorder
  BY <1>2, <1>7 DEF NewRecorder, NewScrubber, Log!Correlated, Log!SameMeaning
<1>8. QED
  BY <1>3, <1>4, <1>5, <1>6, <1>7, StepKinds DEF Quiet, TraceToken, fileVars

-----------------------------------------------------------------------------
(* The invariant, and what follows from it.                                 *)

(* The invariant holds of a new recorder.                                   *)
LEMMA InvInit == Init => IInv
<1>1. SUFFICES ASSUME Init PROVE IInv
  OBVIOUS
<1>2. /\ traceValues = NoMarks /\ nextTrace = 0 /\ repl = PerCall(NoMarks)
      /\ interactions = <<>> /\ file = NoFile /\ run = 1
      /\ stage = PerCall("idle")
  BY <1>1, Zenon DEF Init
<1>3. TokensDistinct /\ ReplFromTable
  BY <1>2 DEF TokensDistinct, ReplFromTable, NoMarks, PerCall
<1>4. DOMAIN interactions = {} /\ DOMAIN file.entries = {} /\ file.run = 0
  BY <1>2 DEF NoFile
<1>5. MasksFromTable(interactions) /\ RunsInOrder
  BY <1>2, <1>4 DEF MasksFromTable, RunsInOrder
<1>6. RecordedOnce
  BY <1>2, <1>4 DEF RecordedOnce, Recorded, PerCall
<1>7. MarkersCorrelate
  BY <1>4 DEF MarkersCorrelate, Log!MarkersCorrelate, Log!Correlated
<1>8. QED
  BY <1>1, <1>3, <1>5, <1>6, <1>7, InitType DEF IInv

(* Every step keeps the invariant.                                          *)
LEMMA InvStep == IInv /\ [Next]_vars => IInv'
<1>1. SUFFICES ASSUME IInv, [Next]_vars PROVE IInv'
  OBVIOUS
<1>2. TypeOK' /\ TokensDistinct' /\ ReplFromTable'
  BY <1>1, TypeStep, TokensStep, ReplStep DEF IInv
<1>3. MasksFromTable(interactions)' /\ RunsInOrder' /\ RecordedOnce'
  BY <1>1, MasksStep, RunsStep, RecordedStep DEF IInv
<1>4. MarkersCorrelate'
  BY <1>1, CorrelateStep
<1>5. QED
  BY <1>2, <1>3, <1>4 DEF IInv

(* IInv holds in every state.                                               *)
THEOREM Invariance == Spec => []IInv
  BY InvInit, InvStep, PTL DEF Spec

(* However calls, saves, loads and processes follow one another, a marker   *)
(* in the entries of one process stands for one identifier, in the log and  *)
(* in the file.                                                             *)
THEOREM Correlation == Spec => []MarkersCorrelate
<1>1. IInv => MarkersCorrelate
  BY DEF IInv
<1>2. QED
  BY <1>1, Invariance, PTL

(* A call has one entry once it is appended, and none before or without.    *)
THEOREM Accounting == Spec => []RecordedOnce
<1>1. IInv => RecordedOnce
  BY DEF IInv
<1>2. QED
  BY <1>1, Invariance, PTL

-----------------------------------------------------------------------------
(* Recorder implements CassetteLog.                                         *)

(* Naming a new identifier is Mark; naming a known one changes nothing.     *)
LEMMA TraceTokenMarks ==
    ASSUME IInv, NEW r \in Req, TraceToken(r)
    PROVE  [Log!Next]_(Log!vars)
<1> USE DEF IInv
<1>1. UNCHANGED <<interactions, run, file>>
  BY DEF TraceToken, fileVars
<1>2. PICK a \in pending[r] : traceValues' = [traceValues EXCEPT ![a] = MarkerOf(a)]
  BY DEF TraceToken
<1>3. a \in Id /\ traceValues \in [Id -> Nat] /\ nextTrace \in Nat
  BY DEF TypeOK
<1>4. CASE traceValues[a] # 0
  <2>1. traceValues' = traceValues
    BY <1>2, <1>3, <1>4 DEF MarkerOf
  <2>2. QED
    BY <1>1, <2>1 DEF Log!vars
<1>5. CASE traceValues[a] = 0
  <2>1. traceValues' = [traceValues EXCEPT ![a] = nextTrace + 1]
    BY <1>2, <1>5 DEF MarkerOf
  <2>2. \A b \in Id : traceValues[b] # nextTrace + 1
    BY <1>3 DEF TokensDistinct
  <2>3. Log!Mark(a)
    BY <1>1, <1>3, <1>5, <2>1, <2>2 DEF Log!Mark
  <2>4. QED
    BY <1>3, <2>3 DEF Log!Next
<1>6. QED
  BY <1>4, <1>5

(* Appending is Record: the call has no entry yet.                          *)
LEMMA AppendRecords ==
    ASSUME IInv, NEW r \in Req, AppendInteraction(r)
    PROVE  Log!Record
<1> USE DEF IInv
<1>1. /\ Scrubbed(r) \in Entry /\ interactions \in Seq(Entry)
      /\ interactions' = Append(interactions, Scrubbed(r))
      /\ UNCHANGED <<traceValues, run, file>>
      /\ stage[r] = "naming"
  BY ScrubbedIsEntry DEF AppendInteraction, Goes, exchangeVars, Appended, TypeOK,
         tokenVars, fileVars
<1>2. /\ Len(interactions') = Len(interactions) + 1
      /\ interactions'[Len(interactions')] = Scrubbed(r)
  BY <1>1, AppendProperties
<1>3. /\ Scrubbed(r).run = run /\ Scrubbed(r).req = r
      /\ \A a \in Id : Scrubbed(r).mask[a] \in {0, traceValues[a]}
  BY DEF Scrubbed, ReplFromTable
<1>4. \A i \in DOMAIN interactions : interactions[i].run = run => interactions[i].req # r
  BY <1>1 DEF RecordedOnce, IsEntryOf, Recorded
<1>5. Scrubbed(r) \in Log!Entry
  BY <1>1 DEF Entry, Log!Entry
<1>6. QED
  BY <1>1, <1>2, <1>3, <1>4, <1>5 DEF Log!Record

(* Loading is Adopt: a file of an earlier process, before a log of this one.*)
LEMMA PrependAdopts == ASSUME IInv, PrependFromFile PROVE Log!Adopt
<1> USE DEF IInv
<1>1. /\ file.run < run /\ ~loaded /\ run \in Nat /\ file.run \in Nat
      /\ interactions' = file.entries \o interactions
      /\ UNCHANGED <<traceValues, run, file>>
  BY DEF PrependFromFile, Prepended, TypeOK, tokenVars
<1>2. \A i \in DOMAIN file.entries : file.entries[i].run < run
  <2>1. \A i \in DOMAIN file.entries : file.entries[i].run \in Nat
    BY EntryType DEF Entry
  <2>2. QED
    BY <1>1, <2>1 DEF RunsInOrder
<1>3. QED
  BY <1>1, <1>2 DEF RunsInOrder, Log!Adopt

(* A step of Recorder is a step of CassetteLog, or changes nothing of it.   *)
LEMMA StepImplements == IInv /\ [Next]_vars => [Log!Next]_(Log!vars)
<1>1. SUFFICES ASSUME IInv, [Next]_vars PROVE [Log!Next]_(Log!vars)
  OBVIOUS
<1>2. CASE Quiet
  BY <1>2 DEF Quiet, Log!vars
<1>3. ASSUME NEW r \in Req, TraceToken(r) PROVE [Log!Next]_(Log!vars)
  BY <1>1, <1>3, TraceTokenMarks
<1>4. ASSUME NEW r \in Req, AppendInteraction(r) PROVE [Log!Next]_(Log!vars)
  BY <1>1, <1>4, AppendRecords DEF Log!Next
<1>5. CASE PrependFromFile
  BY <1>1, <1>5, PrependAdopts DEF Log!Next
<1>6. CASE WriteFile
  BY <1>6 DEF WriteFile, Cassette, tokenVars, Log!Save, Log!Next
<1>7. CASE WriteFileFails
  BY <1>7 DEF WriteFileFails, tokenVars, Log!Lose, Log!Next
<1>8. CASE NewRecorder
  BY <1>8 DEF NewRecorder, NewScrubber, NoMarks, Log!NoMarks, Log!Reopen,
         Log!Next
<1>9. QED
  BY <1>1, <1>2, <1>3, <1>4, <1>5, <1>6, <1>7, <1>8, StepKinds DEF IInv

(* The recorder, with its counter, its two locks and its calls in flight,   *)
(* does nothing the log it promises would not.                              *)
THEOREM Implementation == Spec => LogSpec
<1>1. Init => Log!Init
  <2>1. SUFFICES ASSUME Init PROVE Log!Init
    OBVIOUS
  <2>2. interactions = <<>> /\ traceValues = NoMarks /\ run = 1 /\ file = NoFile
    BY <2>1, Zenon DEF Init
  <2>3. QED
    BY <2>2 DEF NoFile, NoMarks, Log!NoMarks, Log!Init
<1>2. QED
  BY <1>1, StepImplements, Invariance, PTL DEF Spec, LogSpec, Log!Spec
=============================================================================
