------------------------------ MODULE Recorder ------------------------------
(***************************************************************************)
(* internal/recorder with the trace-token table of internal/redact: an      *)
(* http.RoundTripper that many calls use at once.  Every call runs          *)
(* Recorder.RoundTrip, which takes two locks, one at a time: Scrubber.mu    *)
(* once per identifier (traceToken) and Recorder.mu once, to append.  The   *)
(* file is what WriteFile leaves behind and PrependFromFile picks up in the *)
(* next process.                                                            *)
(*                                                                          *)
(* An identifier stands for a value traceParts lets through (eight bytes or *)
(* more).  The text of an exchange is only the set of identifiers it holds: *)
(* Redact has the text.  Identifiers are numbers because TraceReplacements  *)
(* names them in sorted order.                                              *)
(***************************************************************************)
EXTENDS Naturals, Sequences

CONSTANTS Req,         \* the calls made through one recorder
          Id,          \* trace / correlation identifiers, in sort order
          MaxRuns,     \* bound: processes that open the cassette in turn
          TornWrites   \* whether os.WriteFile may fail half way

ASSUME IdAssumption == Id \subseteq Nat
ASSUME MaxRunsAssumption == MaxRuns \in Nat \ {0}
ASSUME TornWritesAssumption == TornWrites \in BOOLEAN

VARIABLES
    stage,         \* where each call is in RoundTrip
    carried,       \* identifiers in the trace headers of the exchange
    echoed,        \* identifiers anywhere else in it: body, URI, headers
    pending,       \* TraceReplacements' identifiers still to be named
    repl,          \* traceReplacements of the call: identifier -> marker
    traceValues,   \* Scrubber.traceValues: identifier -> marker, 0 = none
    nextTrace,     \* Scrubber.nextTrace
    interactions,  \* Recorder.interactions
    meta,          \* Recorder.meta: the run that set it, 0 = nil
    file,          \* the cassette on disk, run = 0 before there is one
    run,           \* number of the process (history)
    loaded,        \* whether PrependFromFile has succeeded in this process
    earlier        \* calls that had returned when a call began (history)

exchangeVars == <<carried, echoed, pending, repl>>
callVars == <<stage, exchangeVars, earlier>>
tokenVars == <<traceValues, nextTrace>>
fileVars == <<file, run, loaded>>
vars == <<callVars, tokenVars, interactions, meta, fileVars>>

Stages == {"idle", "sent", "naming", "appended", "returned", "failed"}

NoMarks == [a \in Id |-> 0]

(* One element of interactions: whose exchange it is, the markers written   *)
(* over identifiers and the identifiers left in the text.                   *)
Entry == [req : Req, run : Nat, mask : [Id -> Nat], raw : SUBSET Id]

NoFile == [run |-> 0, meta |-> 0, entries |-> <<>>]

TypeOK ==
    /\ stage \in [Req -> Stages]
    /\ carried \in [Req -> SUBSET Id]
    /\ echoed \in [Req -> SUBSET Id]
    /\ pending \in [Req -> SUBSET Id]
    /\ repl \in [Req -> [Id -> Nat]]
    /\ earlier \in [Req -> SUBSET Req]
    /\ traceValues \in [Id -> Nat]
    /\ nextTrace \in Nat
    /\ interactions \in Seq(Entry)
    /\ meta \in Nat
    /\ file \in [run : Nat, meta : Nat, entries : Seq(Entry)]
    /\ run \in Nat \ {0}
    /\ loaded \in BOOLEAN

PerCall(v) == [r \in Req |-> v]

-----------------------------------------------------------------------------
(* Mutants: faults the properties below are to notice.  No specification    *)
(* uses them.                                                               *)

(* The table is not looked up before a number is drawn.                     *)
MarkerAlwaysNew(a) == nextTrace + 1

(* Only the headers of the request are searched.                            *)
RequestHeadersOnly(c, d) == c

(* A call waits until no other call is between its response and the log.    *)
AloneInScrubber(r) ==
    pending[r] = {} /\ \A q \in Req \ {r} : stage[q] # "naming"

(* The table of the last scrubber goes on, its counter does not.            *)
TableOutlivesCounter == UNCHANGED traceValues /\ nextTrace' = 0

(* The loaded file goes behind what was recorded before it was loaded.      *)
Behind(loadedEntries) == interactions \o loadedEntries

(* The newest exchange is put in front.                                     *)
InFront(e) == <<e>> \o interactions

(* An encoding error is swallowed: the response is returned all the same.   *)
AfterEncodeError == "appended"

(* A new marker is the number below the counter, not the one above.         *)
OneBelow(a) == IF traceValues[a] # 0 THEN traceValues[a] ELSE nextTrace - 1

-----------------------------------------------------------------------------
(* A recorder and its scrubber as NewWithRules makes them.                  *)

Init ==
    /\ stage = PerCall("idle")
    /\ carried = PerCall({})
    /\ echoed = PerCall({})
    /\ pending = PerCall({})
    /\ repl = PerCall(NoMarks)
    /\ earlier = PerCall({})
    /\ traceValues = NoMarks
    /\ nextTrace = 0
    /\ interactions = <<>>
    /\ meta = 0
    /\ file = NoFile
    /\ run = 1
    /\ loaded = FALSE

NewScrubber == traceValues' = NoMarks /\ nextTrace' = 0

(* The process ends at any moment, whatever its calls are doing, and the    *)
(* next one starts with a recorder that knows nothing; the file stays.      *)
NewRecorder ==
    /\ run < MaxRuns
    /\ run' = run + 1
    /\ stage' = PerCall("idle")
    /\ carried' = PerCall({})
    /\ echoed' = PerCall({})
    /\ pending' = PerCall({})
    /\ repl' = PerCall(NoMarks)
    /\ earlier' = PerCall({})
    /\ NewScrubber
    /\ interactions' = <<>>
    /\ meta' = 0
    /\ loaded' = FALSE
    /\ UNCHANGED file

(* SetMeta, like every configuration method, comes before the first call.   *)
SetMeta ==
    /\ \A r \in Req : stage[r] = "idle"
    /\ meta' = run
    /\ UNCHANGED <<callVars, tokenVars, interactions, fileVars>>

-----------------------------------------------------------------------------
(* RoundTrip                                                                *)

Goes(r, from, to) ==
    /\ stage[r] = from
    /\ stage' = [stage EXCEPT ![r] = to]

(* The caller hands over a request; its body has been read.                 *)
StartRoundTrip(r) ==
    /\ Goes(r, "idle", "sent")
    /\ earlier' = [earlier EXCEPT ![r] = {q \in Req : stage[q] = "returned"}]
    /\ UNCHANGED <<exchangeVars, tokenVars, interactions, meta, fileVars>>

(* The request body could not be read: nothing is sent.                     *)
ReadRequestFails(r) ==
    /\ Goes(r, "idle", "failed")
    /\ UNCHANGED <<exchangeVars, earlier, tokenVars, interactions, meta, fileVars>>

(* The transport failed, the client's timeout ended the call, or the        *)
(* response body broke off: the caller has the error, nothing is recorded.  *)
ExchangeFails(r) ==
    /\ Goes(r, "sent", "failed")
    /\ UNCHANGED <<exchangeVars, earlier, tokenVars, interactions, meta, fileVars>>

(* What TraceReplacements collects from the request's and the response's    *)
(* trace headers.                                                           *)
Collected(c, d) == c \cup d

(* The response was read to its end.                                        *)
ExchangeEnds(r) ==
    /\ Goes(r, "sent", "naming")
    /\ \E c, d, e \in SUBSET Id :
          /\ carried' = [carried EXCEPT ![r] = c \cup d]
          /\ pending' = [pending EXCEPT ![r] = Collected(c, d)]
          /\ echoed' = [echoed EXCEPT ![r] = e]
    /\ UNCHANGED <<repl, earlier, tokenVars, interactions, meta, fileVars>>

(* The marker traceToken gives a: the one it has, or the next number.       *)
MarkerOf(a) == IF traceValues[a] # 0 THEN traceValues[a] ELSE nextTrace + 1

(* One turn of TraceReplacements' loop: traceToken, under Scrubber.mu, of   *)
(* the first identifier in sort order.                                      *)
TraceToken(r) ==
    /\ stage[r] = "naming"
    /\ \E a \in pending[r] :
          /\ \A b \in pending[r] : a <= b
          /\ traceValues' = [traceValues EXCEPT ![a] = MarkerOf(a)]
          /\ nextTrace' = IF traceValues[a] # 0 THEN nextTrace ELSE nextTrace + 1
          /\ repl' = [repl EXCEPT ![r][a] = MarkerOf(a)]
          /\ pending' = [pending EXCEPT ![r] = @ \ {a}]
    /\ UNCHANGED <<stage, carried, echoed, earlier, interactions, meta, fileVars>>

AllNamed(r) == pending[r] = {}

(* The scrubbed copy: the identifiers of traceReplacements are masked       *)
(* wherever they stand, every other identifier stays.                       *)
Scrubbed(r) ==
    [req |-> r, run |-> run, mask |-> repl[r],
     raw |-> {a \in echoed[r] : repl[r][a] = 0}]

Appended(e) == Append(interactions, e)

(* The copy is encoded and appended under Recorder.mu.                      *)
AppendInteraction(r) ==
    /\ AllNamed(r)
    /\ Goes(r, "naming", "appended")
    /\ interactions' = Appended(Scrubbed(r))
    /\ UNCHANGED <<exchangeVars, earlier, tokenVars, meta, fileVars>>

EncodeFailed == "failed"

(* node.Encode failed: the caller gets an error for a call that succeeded,  *)
(* and the tokens it named stay in the table.                               *)
EncodeFails(r) ==
    /\ AllNamed(r)
    /\ Goes(r, "naming", EncodeFailed)
    /\ UNCHANGED <<exchangeVars, earlier, tokenVars, interactions, meta, fileVars>>

(* The caller has the response.                                             *)
Return(r) ==
    /\ Goes(r, "appended", "returned")
    /\ UNCHANGED <<exchangeVars, earlier, tokenVars, interactions, meta, fileVars>>

-----------------------------------------------------------------------------
(* The file                                                                 *)

Prepended(loadedEntries) == loadedEntries \o interactions

(* A file of an earlier process is put in front, once.  Its meta block is   *)
(* kept unless this process has set one.  A file with no interactions, like *)
(* one that does not exist, is an error and changes nothing.                *)
PrependFromFile ==
    /\ ~loaded
    /\ file.run < run
    /\ file.entries # <<>>
    /\ interactions' = Prepended(file.entries)
    /\ meta' = IF meta = 0 THEN file.meta ELSE meta
    /\ loaded' = TRUE
    /\ UNCHANGED <<callVars, tokenVars, file, run>>

Cassette == [run |-> run, meta |-> meta, entries |-> interactions]

(* WriteFile, under Recorder.mu from its first line to its last.            *)
WriteFile ==
    /\ interactions # <<>>
    /\ file' = Cassette
    /\ UNCHANGED <<callVars, tokenVars, interactions, meta, run, loaded>>

(* os.WriteFile truncates before it writes: when it fails, or the process   *)
(* dies in it, the file holds the entries that got there, perhaps none.     *)
WriteFileFails ==
    /\ TornWrites
    /\ interactions # <<>>
    /\ \E n \in 0 .. Len(interactions) - 1 :
          file' = [run |-> run, meta |-> meta,
                   entries |-> SubSeq(interactions, 1, n)]
    /\ UNCHANGED <<callVars, tokenVars, interactions, meta, run, loaded>>

-----------------------------------------------------------------------------

RoundTrip(r) ==
    \/ StartRoundTrip(r)
    \/ ReadRequestFails(r)
    \/ ExchangeFails(r)
    \/ ExchangeEnds(r)
    \/ TraceToken(r)
    \/ AppendInteraction(r)
    \/ EncodeFails(r)
    \/ Return(r)

Next ==
    \/ \E r \in Req : RoundTrip(r)
    \/ SetMeta
    \/ PrependFromFile
    \/ WriteFile
    \/ WriteFileFails
    \/ NewRecorder

Spec == Init /\ [][Next]_vars

(* A goroutine in RoundTrip is scheduled, and its exchange ends because     *)
(* every client of the recorder sets http.Client.Timeout.  Nothing makes a  *)
(* caller begin a call, save the file or start another process.             *)
Fairness ==
    \A r \in Req :
       /\ WF_vars(ExchangeEnds(r) \/ ExchangeFails(r))
       /\ WF_vars(TraceToken(r))
       /\ WF_vars(AppendInteraction(r) \/ EncodeFails(r))
       /\ WF_vars(Return(r))

FairSpec == Spec /\ Fairness

-----------------------------------------------------------------------------
(* Properties                                                               *)

Log == INSTANCE CassetteLog
           WITH log <- interactions, marks <- traceValues, session <- run,
                saved <- file.entries, MayLose <- TornWrites

LogSpec == Log!Spec

(* However the calls interleave between the two locks, a marker in the      *)
(* entries of one recorder stands for one identifier, and an identifier has *)
(* one marker, in memory and in the file.                                   *)
MarkersCorrelate == Log!MarkersCorrelate

(* A call whose response was handed to the caller has exactly one entry, a  *)
(* call that failed has none: RoundTrip records and returns, or does        *)
(* neither.                                                                 *)
Recorded == {"appended", "returned"}

IsEntryOf(i, r) == interactions[i].run = run /\ interactions[i].req = r

RecordedOnce ==
    /\ \A i \in DOMAIN interactions, r \in Req :
          IsEntryOf(i, r) => stage[r] \in Recorded
    /\ \A r \in Req :
          stage[r] \in Recorded => \E i \in DOMAIN interactions : IsEntryOf(i, r)
    /\ \A i, j \in DOMAIN interactions, r \in Req :
          IsEntryOf(i, r) /\ IsEntryOf(j, r) => i = j

(* No identifier of an exchange's own trace headers is left in its entry,   *)
(* and an identifier is masked in it only if the headers carried it.        *)
OwnIdsMasked ==
    \A i \in DOMAIN interactions :
       interactions[i].run = run =>
          \A a \in Id :
             LET owner == interactions[i].req
             IN (interactions[i].mask[a] # 0) <=> (a \in carried[owner])

(* The log is in completion order: a call that began after another had      *)
(* returned stands behind it.                                               *)
RealTimeOrder ==
    \A i, j \in DOMAIN interactions :
       /\ interactions[i].run = run
       /\ interactions[j].run = run
       /\ interactions[i].req \in earlier[interactions[j].req]
       => i < j

IsPrefixOf(s, t) ==
    Len(s) <= Len(t) /\ \A i \in DOMAIN s : s[i] = t[i]

(* A completed write keeps all that the file held when this process has   *)
(* loaded or written it, keeps its provenance unless SetMeta replaced it,   *)
(* and holds every call that has returned.                                  *)
SaveKeeps ==
    [][WriteFile =>
         /\ loaded \/ file.run = run =>
               /\ IsPrefixOf(file.entries, file'.entries)
               /\ file'.meta \in {file.meta, run}
         /\ \A r \in Req : stage[r] = "returned" =>
               \E i \in DOMAIN file'.entries :
                  file'.entries[i].run = run /\ file'.entries[i].req = r]_vars

(* Every call that was sent ends, with a response or an error, unless the   *)
(* process ends first: no call waits for another behind the two locks.      *)
CallsEnd ==
    \A r \in Req :
       stage[r] = "sent" ~> stage[r] \in {"returned", "failed", "idle"}

(* redact.go: "a value repeated across headers, JSON and SSE chunks - even  *)
(* across separate exchanges - maps to the same **TRACE_ID_n** marker".     *)
(* Once an entry has masked an identifier, no later entry of the recording  *)
(* shows it.                                                                *)
RepeatedIdMasked ==
    \A i, j \in DOMAIN interactions :
       /\ i < j
       /\ interactions[i].run = interactions[j].run
       => \A a \in interactions[j].raw : interactions[i].mask[a] = 0

(* FORMAT.md: an identifier is replaced with a marker, "preserving          *)
(* correlation".  In one file, one marker stands for one identifier.        *)
FileMarkersCorrelate ==
    \A i, j \in DOMAIN file.entries :
       \A a, b \in Id :
          /\ file.entries[i].mask[a] # 0
          /\ file.entries[i].mask[a] = file.entries[j].mask[b]
          => a = b

-----------------------------------------------------------------------------
(* The inductive invariant behind MarkersCorrelate and RecordedOnce         *)

(* The table: numbers up to nextTrace, each given to one identifier.        *)
TokensDistinct ==
    /\ \A a \in Id : traceValues[a] <= nextTrace
    /\ \A a, b \in Id :
          traceValues[a] # 0 /\ traceValues[a] = traceValues[b] => a = b

(* What a call took from the table is what the table still says.            *)
ReplFromTable ==
    \A r \in Req, a \in Id : repl[r][a] \in {0, traceValues[a]}

MasksFromTable(entries) ==
    \A i \in DOMAIN entries :
       /\ entries[i].run <= run
       /\ entries[i].run = run =>
             \A a \in Id : entries[i].mask[a] \in {0, traceValues[a]}

RunsInOrder ==
    /\ file.run <= run
    /\ \A i \in DOMAIN file.entries : file.entries[i].run <= file.run
    /\ ~loaded => \A i \in DOMAIN interactions : interactions[i].run = run

IInv ==
    /\ TypeOK
    /\ TokensDistinct
    /\ ReplFromTable
    /\ MasksFromTable(interactions)
    /\ RunsInOrder
    /\ RecordedOnce
    /\ MarkersCorrelate
=============================================================================
