------------------------- MODULE RecorderLogProofs -------------------------
(***************************************************************************)
(* More about what Recorder's log and file hold, for any number of calls,   *)
(* identifiers and processes: an exchange's own identifiers are masked,     *)
(* entries are in completion order, and a save keeps what it should.  Each  *)
(* is an invariant of its own, over that of RecorderProofs.                 *)
(***************************************************************************)
EXTENDS RecorderProofs

-----------------------------------------------------------------------------
(* Own identifiers                                                          *)

(* A call has taken nothing from the table before its exchange has ended;   *)
(* from then on it has a marker for each carried identifier but those that  *)
(* are pending.                                                             *)
OwnMarks ==
    \A r \in Req, a \in Id :
       /\ stage[r] \in {"idle", "sent"} => repl[r][a] = 0
       /\ stage[r] = "naming" =>
             /\ repl[r][a] # 0 <=> a \in carried[r] \ pending[r]
             /\ a \in pending[r] => a \in carried[r]

(* Initially no call has taken anything.                                    *)
LEMMA OwnMarksInit == Init => OwnMarks
  BY DEF Init, OwnMarks, PerCall, NoMarks

(* Only the end of an exchange and the naming of an identifier matter.      *)
LEMMA OwnMarksStep == ASSUME TypeOK, OwnMarks, [Next]_vars PROVE OwnMarks'
<1>1. ASSUME NEW r \in Req, RoundTrip(r) PROVE OwnMarks'
  <2>1. CASE ExchangeEnds(r)
    <3>1. PICK c \in SUBSET Id, d \in SUBSET Id :
             /\ carried' = [carried EXCEPT ![r] = c \cup d]
             /\ pending' = [pending EXCEPT ![r] = c \cup d]
      BY <2>1 DEF ExchangeEnds, Collected
    <3>2. /\ carried'[r] = pending'[r] /\ stage[r] = "sent" /\ stage'[r] = "naming"
          /\ repl' = repl
          /\ \A q \in Req : q # r => /\ carried'[q] = carried[q] /\ pending'[q] = pending[q]
                                     /\ stage'[q] = stage[q]
      BY <2>1, <3>1 DEF ExchangeEnds, Goes, TypeOK
    <3>3. QED
      BY <3>2 DEF OwnMarks
  <2>2. CASE TraceToken(r)
    <3>1. PICK b \in pending[r] :
             /\ repl' = [repl EXCEPT ![r][b] = MarkerOf(b)]
             /\ pending' = [pending EXCEPT ![r] = @ \ {b}]
      BY <2>2 DEF TraceToken
    <3>2. b \in Id /\ stage[r] = "naming" /\ UNCHANGED <<stage, carried>>
      BY <2>2 DEF TraceToken, TypeOK
    <3>3. MarkerOf(b) # 0
      BY <3>2 DEF MarkerOf, TypeOK
    <3>4. /\ \A q \in Req, a \in Id :
                repl'[q][a] = IF q = r /\ a = b THEN MarkerOf(b) ELSE repl[q][a]
          /\ \A q \in Req : pending'[q] = IF q = r THEN pending[q] \ {b} ELSE pending[q]
      BY <3>1, <3>2 DEF TypeOK
    <3>5. \A a \in Id : repl'[r][a] # 0 <=> a \in carried[r] \ pending'[r]
      <4>1. b \in carried[r]
        BY <3>2 DEF OwnMarks
      <4>2. ASSUME NEW a \in Id PROVE repl'[r][a] # 0 <=> a \in carried[r] \ pending'[r]
        <5>1. CASE a = b
          <6>1. repl'[r][a] # 0 /\ a \notin pending'[r]
            BY <3>3, <3>4, <5>1
          <6>2. QED
            BY <4>1, <5>1, <6>1
        <5>2. CASE a # b
          <6>1. repl'[r][a] = repl[r][a] /\ (a \in pending'[r] <=> a \in pending[r])
            BY <3>4, <5>2
          <6>2. repl[r][a] # 0 <=> a \in carried[r] \ pending[r]
            BY <3>2 DEF OwnMarks
          <6>3. QED
            BY <6>1, <6>2
        <5>3. QED
          BY <5>1, <5>2
      <4>3. QED
        BY <4>2
    <3>6. ASSUME NEW q \in Req, NEW a \in Id, q # r
          PROVE  repl'[q][a] = repl[q][a] /\ pending'[q] = pending[q]
      BY <3>4, <3>6
    <3>7. pending'[r] \subseteq pending[r]
      BY <3>4
    <3>8. QED
      BY <3>2, <3>5, <3>6, <3>7 DEF OwnMarks
  <2>3. CASE ~ExchangeEnds(r) /\ ~TraceToken(r)
    <3>1. UNCHANGED <<carried, pending, repl>>
      BY <1>1, <2>3 DEF RoundTrip, StartRoundTrip, ReadRequestFails, ExchangeFails,
         AppendInteraction, EncodeFails, Return, exchangeVars
    <3>2. \A q \in Req : /\ stage'[q] \in {"idle", "sent"} => stage[q] \in {"idle", "sent"}
                         /\ stage'[q] = "naming" => stage[q] = "naming"
      BY <1>1, <2>3 DEF RoundTrip, StartRoundTrip, ReadRequestFails, ExchangeFails,
         AppendInteraction, EncodeFails, EncodeFailed, Return, Goes, TypeOK
    <3>3. QED
      BY <3>1, <3>2 DEF OwnMarks
  <2>4. QED
    BY <2>1, <2>2, <2>3
<1>2. CASE NewRecorder
  BY <1>2 DEF NewRecorder, OwnMarks, PerCall, NoMarks
<1>3. CASE UNCHANGED callVars
  BY <1>3 DEF callVars, exchangeVars, OwnMarks
<1>4. QED
  BY <1>1, <1>2, <1>3 DEF Next, SetMeta, PrependFromFile, WriteFile, WriteFileFails, vars

(* An entry of this process has markers for what its exchange carried.      *)
LEMMA OwnIdsStep ==
    ASSUME IInv, OwnMarks, OwnIdsMasked, [Next]_vars
    PROVE  OwnIdsMasked'
<1> USE DEF IInv
<1>1. ASSUME NEW r \in Req, RoundTrip(r) PROVE OwnIdsMasked'
  <2>1. \A i \in DOMAIN interactions, q \in Req :
           IsEntryOf(i, q) /\ [Next]_vars => carried'[q] = carried[q]
    <3>1. \A q \in Req : stage[q] # "sent" => carried'[q] = carried[q]
      BY <1>1 DEF RoundTrip, StartRoundTrip, ReadRequestFails, ExchangeFails, ExchangeEnds,
         TraceToken, AppendInteraction, EncodeFails, Return, exchangeVars, Goes, TypeOK
    <3>2. QED
      BY <3>1 DEF RecordedOnce, Recorded
  <2>2. \A i \in DOMAIN interactions : interactions[i].req \in Req
    BY EntryType DEF Entry
  <2>3. CASE AppendInteraction(r)
    <3>1. /\ run' = run /\ carried' = carried /\ stage[r] = "naming" /\ pending[r] = {}
      BY <2>3 DEF AppendInteraction, AllNamed, Goes, exchangeVars, fileVars
    <3>2. \A a \in Id : repl[r][a] # 0 <=> a \in carried[r]
      BY <3>1 DEF OwnMarks
    <3>3. ASSUME NEW i \in DOMAIN interactions', interactions'[i].run = run', NEW a \in Id
          PROVE  interactions'[i].mask[a] # 0 <=> a \in carried'[interactions'[i].req]
      <4>1. CASE i \in DOMAIN interactions
        BY <2>3, <3>1, <3>3, <4>1, AppendShape DEF OwnIdsMasked
      <4>2. CASE i \notin DOMAIN interactions
        <5>1. interactions'[i] = Scrubbed(r)
          BY <2>3, <4>2, AppendShape
        <5>2. QED
          BY <3>1, <3>2, <5>1 DEF Scrubbed
      <4>3. QED
        BY <4>1, <4>2
    <3>4. QED
      BY <3>3 DEF OwnIdsMasked
  <2>4. CASE ~AppendInteraction(r)
    <3>1. interactions' = interactions /\ run' = run
      BY <1>1, <2>4 DEF RoundTrip, StartRoundTrip, ReadRequestFails, ExchangeFails,
         ExchangeEnds, TraceToken, EncodeFails, Return, fileVars
    <3>2. QED
      BY <2>1, <2>2, <3>1 DEF OwnIdsMasked, IsEntryOf
  <2>5. QED
    BY <2>3, <2>4
<1>2. CASE PrependFromFile
  <2>1. /\ run' = run /\ carried' = carried /\ run \in Nat /\ file.run \in Nat
        /\ file.run < run
    BY <1>2 DEF PrependFromFile, callVars, exchangeVars, TypeOK
  <2>2. \A i \in DOMAIN file.entries : file.entries[i].run # run
    <3>1. \A i \in DOMAIN file.entries : file.entries[i].run \in Nat
      BY EntryType DEF Entry
    <3>2. QED
      BY <2>1, <3>1 DEF RunsInOrder
  <2>3. \A i \in DOMAIN interactions' : interactions'[i].run = run =>
           \E j \in DOMAIN interactions : interactions'[i] = interactions[j]
    BY <1>2, <2>2, PrependShape
  <2>4. QED
    BY <2>1, <2>3 DEF OwnIdsMasked
<1>3. CASE NewRecorder
  <2>1. DOMAIN interactions' = {}
    BY <1>3 DEF NewRecorder
  <2>2. QED
    BY <2>1 DEF OwnIdsMasked
<1>4. CASE UNCHANGED <<callVars, interactions, run>>
  BY <1>4 DEF callVars, exchangeVars, OwnIdsMasked
<1>5. QED
  BY <1>1, <1>2, <1>3, <1>4 DEF Next, SetMeta, WriteFile, WriteFileFails, vars, fileVars

(* TraceReplacements and the scrubbing after it mask all identifiers that   *)
(* the exchange's own trace headers carry, and no others.                   *)
THEOREM OwnIds == Spec => []OwnIdsMasked
<1>1. Init => OwnMarks /\ OwnIdsMasked
  BY OwnMarksInit DEF Init, OwnIdsMasked
<1>2. IInv /\ OwnMarks /\ OwnIdsMasked /\ [Next]_vars => OwnMarks' /\ OwnIdsMasked'
  BY OwnMarksStep, OwnIdsStep DEF IInv
<1>3. QED
  BY <1>1, <1>2, Invariance, PTL DEF Spec

-----------------------------------------------------------------------------
(* Order                                                                    *)

(* What had returned when a call began has returned.                        *)
EarlierReturned ==
    \A r \in Req : \A q \in earlier[r] :
       stage[q] = "returned" /\ stage[r] # "idle"

(* A call that has returned stays so while the process lives.               *)
LEMMA EarlierStep == ASSUME TypeOK, EarlierReturned, [Next]_vars PROVE EarlierReturned'
<1>1. ASSUME NEW r \in Req, RoundTrip(r) PROVE EarlierReturned'
  <2>1. \A q \in Req : /\ stage[q] = "returned" => stage'[q] = "returned"
                       /\ stage[q] # "idle" => stage'[q] # "idle"
    BY <1>1 DEF RoundTrip, StartRoundTrip, ReadRequestFails, ExchangeFails, ExchangeEnds,
       TraceToken, AppendInteraction, EncodeFails, EncodeFailed, Return, Goes, TypeOK
  <2>2. CASE StartRoundTrip(r)
    <3>1. /\ earlier'[r] = {q \in Req : stage[q] = "returned"}
          /\ \A q \in Req : q # r => earlier'[q] = earlier[q]
          /\ stage'[r] = "sent"
      BY <2>2 DEF StartRoundTrip, Goes, TypeOK
    <3>2. \A q \in Req : earlier[q] \subseteq Req
      BY DEF TypeOK
    <3>3. QED
      BY <2>1, <3>1, <3>2 DEF EarlierReturned
  <2>3. CASE ~StartRoundTrip(r)
    <3>1. earlier' = earlier
      BY <1>1, <2>3 DEF RoundTrip, ReadRequestFails, ExchangeFails, ExchangeEnds,
         TraceToken, AppendInteraction, EncodeFails, Return
    <3>2. \A q \in Req : earlier[q] \subseteq Req
      BY DEF TypeOK
    <3>3. QED
      BY <2>1, <3>1, <3>2 DEF EarlierReturned
  <2>4. QED
    BY <2>2, <2>3
<1>2. CASE NewRecorder
  BY <1>2 DEF NewRecorder, PerCall, EarlierReturned
<1>3. CASE UNCHANGED callVars
  BY <1>3 DEF callVars, EarlierReturned
<1>4. QED
  BY <1>1, <1>2, <1>3 DEF Next, SetMeta, PrependFromFile, WriteFile, WriteFileFails, vars

(* An entry is put behind those of all calls that have returned.            *)
LEMMA OrderStep ==
    ASSUME IInv, EarlierReturned, RealTimeOrder, [Next]_vars
    PROVE  RealTimeOrder'
<1> USE DEF IInv
<1>1. \A i \in DOMAIN interactions :
         /\ interactions[i].req \in Req
         /\ interactions[i].run = run => stage[interactions[i].req] \in Recorded
  BY EntryType DEF Entry, RecordedOnce, IsEntryOf
<1>2. ASSUME NEW r \in Req, AppendInteraction(r) PROVE RealTimeOrder'
  <2>1. run' = run /\ earlier' = earlier /\ stage[r] = "naming"
    BY <1>2 DEF AppendInteraction, Goes, fileVars
  <2>2. \A q \in Req : r \notin earlier[q]
    BY <2>1 DEF EarlierReturned
  <2>3. ASSUME NEW i \in DOMAIN interactions', NEW j \in DOMAIN interactions',
               interactions'[i].run = run, interactions'[j].run = run,
               interactions'[i].req \in earlier[interactions'[j].req]
        PROVE  i < j
    <3>1. Scrubbed(r).req = r
      BY DEF Scrubbed
    <3>2. interactions'[j].req \in Req
      BY <1>1, <1>2, <3>1, AppendShape
    <3>3. i \in DOMAIN interactions /\ interactions'[i] = interactions[i]
      BY <1>2, <2>2, <2>3, <3>1, <3>2, AppendShape
    <3>4. CASE j \in DOMAIN interactions
      BY <1>2, <2>3, <3>3, <3>4, AppendShape DEF RealTimeOrder
    <3>5. CASE j \notin DOMAIN interactions
      BY <1>2, <3>3, <3>5, AppendShape
    <3>6. QED
      BY <3>4, <3>5
  <2>4. QED
    BY <2>1, <2>3 DEF RealTimeOrder
<1>3. ASSUME NEW r \in Req, StartRoundTrip(r) PROVE RealTimeOrder'
  <2>1. /\ run' = run /\ interactions' = interactions /\ stage[r] = "idle"
        /\ \A q \in Req : q # r => earlier'[q] = earlier[q]
    BY <1>3 DEF StartRoundTrip, Goes, fileVars, TypeOK
  <2>2. \A j \in DOMAIN interactions : interactions[j].run = run => interactions[j].req # r
    BY <1>1, <2>1 DEF Recorded
  <2>3. QED
    BY <1>1, <2>1, <2>2 DEF RealTimeOrder
<1>4. ASSUME NEW r \in Req, RoundTrip(r), ~StartRoundTrip(r), ~AppendInteraction(r)
      PROVE  UNCHANGED <<earlier, interactions, run>>
  BY <1>4 DEF RoundTrip, ReadRequestFails, ExchangeFails, ExchangeEnds, TraceToken,
     EncodeFails, Return, fileVars
<1>5. CASE PrependFromFile
  <2>1. /\ run' = run /\ earlier' = earlier /\ run \in Nat /\ file.run \in Nat
        /\ file.run < run
    BY <1>5 DEF PrependFromFile, callVars, TypeOK
  <2>2. \A i \in DOMAIN file.entries : file.entries[i].run # run
    <3>1. \A i \in DOMAIN file.entries : file.entries[i].run \in Nat
      BY EntryType DEF Entry
    <3>2. QED
      BY <2>1, <3>1 DEF RunsInOrder
  <2> DEFINE k == Len(file.entries)
  <2>3. k \in Nat /\ DOMAIN interactions' \subseteq Nat
    BY <1>5, PrependShape
  <2>4. \A i \in DOMAIN interactions' : interactions'[i].run = run =>
           i - k \in DOMAIN interactions /\ interactions'[i] = interactions[i - k]
    BY <1>5, <2>2, PrependShape
  <2>5. \A i, j \in Nat : i - k < j - k => i < j
    BY <2>3
  <2> HIDE DEF k
  <2>6. QED
    BY <2>1, <2>3, <2>4, <2>5 DEF RealTimeOrder
<1>6. CASE NewRecorder
  <2>1. DOMAIN interactions' = {}
    BY <1>6 DEF NewRecorder
  <2>2. QED
    BY <2>1 DEF RealTimeOrder
<1>7. CASE UNCHANGED <<earlier, interactions, run>>
  BY <1>7 DEF RealTimeOrder
<1>8. QED
  BY <1>2, <1>3, <1>4, <1>5, <1>6, <1>7
     DEF Next, RoundTrip, SetMeta, WriteFile, WriteFileFails, vars, fileVars, callVars

(* RoundTrip appends in completion order, however calls interleave.         *)
THEOREM Order == Spec => []RealTimeOrder
<1>1. Init => EarlierReturned /\ RealTimeOrder
  BY DEF Init, PerCall, EarlierReturned, RealTimeOrder
<1>2. IInv /\ EarlierReturned /\ RealTimeOrder /\ [Next]_vars =>
         EarlierReturned' /\ RealTimeOrder'
  BY EarlierStep, OrderStep DEF IInv
<1>3. QED
  BY <1>1, <1>2, Invariance, PTL DEF Spec

-----------------------------------------------------------------------------
(* Saves                                                                    *)

(* A file this process has loaded or written is the beginning of its log,   *)
(* with provenance that is the log's or gives way to this process' own.     *)
FileIsPrefix ==
    /\ loaded \/ file.run = run =>
          IsPrefixOf(file.entries, interactions) /\ meta \in {file.meta, run}
    /\ ~loaded => meta \in {0, run}

(* A longer log has the same beginnings.                                    *)
LEMMA PrefixOfAppended ==
    ASSUME TypeOK, NEW r \in Req, AppendInteraction(r), IsPrefixOf(file.entries, interactions)
    PROVE  IsPrefixOf(file.entries, interactions')
<1>1. /\ Len(file.entries) \in Nat /\ DOMAIN file.entries = 1 .. Len(file.entries)
      /\ interactions' \in Seq(Entry)
  BY TypeStep DEF TypeOK, Next, RoundTrip
<1>2. Len(interactions') = Len(interactions) + 1
  BY <1>1, AppendShape
<1>3. \A i \in DOMAIN file.entries : i \in DOMAIN interactions
  BY <1>1, AppendShape DEF IsPrefixOf
<1>4. QED
  BY <1>1, <1>2, <1>3, AppendShape DEF IsPrefixOf

(* Every step keeps it.                                                     *)
LEMMA PrefixStep == ASSUME IInv, FileIsPrefix, [Next]_vars PROVE FileIsPrefix'
<1> USE DEF IInv
<1>1. ASSUME NEW r \in Req, AppendInteraction(r) PROVE FileIsPrefix'
  <2>1. UNCHANGED <<meta, file, run, loaded>>
    BY <1>1 DEF AppendInteraction, fileVars
  <2>2. QED
    BY <1>1, <2>1, PrefixOfAppended DEF FileIsPrefix
<1>2. ASSUME NEW r \in Req, RoundTrip(r), ~AppendInteraction(r)
      PROVE  UNCHANGED <<interactions, meta, file, run, loaded>>
  BY <1>2 DEF RoundTrip, StartRoundTrip, ReadRequestFails, ExchangeFails, ExchangeEnds,
     TraceToken, EncodeFails, Return, fileVars
<1>3. CASE SetMeta
  BY <1>3 DEF SetMeta, fileVars, FileIsPrefix
<1>4. CASE PrependFromFile
  <2>1. /\ file' = file /\ run' = run /\ loaded' /\ ~loaded
        /\ meta' = IF meta = 0 THEN file.meta ELSE meta
    BY <1>4 DEF PrependFromFile
  <2>2. meta' \in {file.meta, run}
    BY <2>1 DEF FileIsPrefix
  <2>3. Len(interactions') = Len(file.entries) + Len(interactions)
    <3>1. interactions' \in Seq(Entry)
      BY TypeStep DEF TypeOK
    <3>2. QED
      BY <1>4, <3>1, PrependShape
  <2>4. IsPrefixOf(file.entries, interactions')
    BY <1>4, <2>3, PrependShape DEF IsPrefixOf
  <2>5. QED
    BY <2>1, <2>2, <2>4 DEF FileIsPrefix
<1>5. CASE WriteFile
  <2>1. /\ file'.entries = interactions /\ file'.meta = meta
        /\ UNCHANGED <<interactions, meta, run, loaded>>
    BY <1>5 DEF WriteFile, Cassette
  <2>2. Len(interactions) \in Nat
    BY LenProperties DEF TypeOK
  <2>3. QED
    BY <2>1, <2>2 DEF FileIsPrefix, IsPrefixOf
<1>6. CASE WriteFileFails
  <2>1. PICK n \in 0 .. Len(interactions) - 1 :
           file' = [run |-> run, meta |-> meta, entries |-> SubSeq(interactions, 1, n)]
    BY <1>6 DEF WriteFileFails
  <2>2. UNCHANGED <<interactions, meta, run, loaded>>
    BY <1>6 DEF WriteFileFails
  <2>3. Len(interactions) \in Nat /\ Len(file'.entries) = n
    BY <2>1, LenProperties DEF TypeOK
  <2>4. IsPrefixOf(file'.entries, interactions)
    BY <1>6, <2>1, <2>3, WriteShape DEF IsPrefixOf
  <2>5. QED
    BY <2>1, <2>2, <2>4 DEF FileIsPrefix
<1>7. CASE NewRecorder
  <2>1. file' = file /\ run' = run + 1 /\ ~loaded' /\ meta' = 0
    BY <1>7 DEF NewRecorder
  <2>2. file.run # run + 1
    <3>1. file.run \in Nat /\ run \in Nat /\ file.run <= run
      BY DEF TypeOK, RunsInOrder
    <3>2. QED
      BY <3>1
  <2>3. QED
    BY <2>1, <2>2 DEF FileIsPrefix
<1>8. CASE UNCHANGED <<interactions, meta, file, run, loaded>>
  BY <1>8 DEF FileIsPrefix
<1>9. QED
  BY <1>1, <1>2, <1>3, <1>4, <1>5, <1>6, <1>7, <1>8 DEF Next, vars, fileVars

(* WriteFile never gives up what the cassette held: its entries stay, in    *)
(* front; its provenance too unless SetMeta replaced it; and every call     *)
(* that has returned is in it.                                              *)
THEOREM Saves == Spec => SaveKeeps
<1>1. Init => FileIsPrefix
  <2>1. SUFFICES ASSUME Init PROVE FileIsPrefix
    OBVIOUS
  <2>2. loaded = FALSE /\ run = 1 /\ file.run = 0 /\ meta = 0
    BY <2>1 DEF Init, NoFile
  <2>3. QED
    BY <2>2 DEF FileIsPrefix
<1>2. IInv /\ FileIsPrefix /\ [Next]_vars => FileIsPrefix'
  BY PrefixStep
<1>3. ASSUME IInv, FileIsPrefix, WriteFile
      PROVE  /\ loaded \/ file.run = run =>
                   /\ IsPrefixOf(file.entries, file'.entries)
                   /\ file'.meta \in {file.meta, run}
             /\ \A r \in Req : stage[r] = "returned" =>
                   \E i \in DOMAIN file'.entries :
                      file'.entries[i].run = run /\ file'.entries[i].req = r
  <2>1. file'.entries = interactions /\ file'.meta = meta
    BY <1>3 DEF WriteFile, Cassette
  <2>2. QED
    BY <1>3, <2>1 DEF FileIsPrefix, IInv, RecordedOnce, Recorded, IsEntryOf
<1>4. IInv /\ FileIsPrefix => [WriteFile =>
         /\ loaded \/ file.run = run =>
               /\ IsPrefixOf(file.entries, file'.entries)
               /\ file'.meta \in {file.meta, run}
         /\ \A r \in Req : stage[r] = "returned" =>
               \E i \in DOMAIN file'.entries :
                  file'.entries[i].run = run /\ file'.entries[i].req = r]_vars
  BY <1>3
<1>5. QED
  BY <1>1, <1>2, <1>4, Invariance, PTL DEF Spec, SaveKeeps
=============================================================================
