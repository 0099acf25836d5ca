# TLA+ models of opencassette

opencassette records what LLM vendors really answer: it sends scenario
requests, scrubs credentials and trace identifiers from copies of the
exchanges, and keeps the copies as cassettes (YAML files) that clients replay
in tests. These modules model the parts where order, concurrency, crashes and
substitution decide whether a cassette is right. `PROJECT.json` lists runs,
mutants, source lines, hazards and theorems for tools.

    tlc -config RecorderConcurrent.cfg MCRecorder    # any .cfg with its MC module
    tlapm RecorderProofs.tla                          # or another *Proofs.tla

## The system

| Part | State it keeps | Operations | Talks to |
|---|---|---|---|
| `internal/recorder` | interactions, meta, under one mutex | RoundTrip, SetMeta, PrependFromFile, WriteFile | wraps an HTTP transport; a Scrubber; the cassette file |
| `internal/redact` | Rules (configured before use); Scrubber: table of trace tokens and its counter, under a mutex of its own | TraceReplacements, Headers, URI, Bytes, ScrubEndpoint; Merge, AddReplacement, LoadProfile | called by every RoundTrip, concurrently |
| `internal/cli` record, single and batch | the file system, and per process: flags, position in the pack, failures | runRecordCommand, runBatch, recordOne, writeCassette, resolveOutPath | one Recorder per scenario; the vendor; the corpus directory shared with other processes |
| `internal/cli` probe | fields/, fields-rejected/, field-support.json | runProbe, probeOne | one Recorder per field |
| `internal/scenario` | none | LoadPack, WithModel, BuildProbes | read by batch, probe and audit |
| `internal/verify` | none | File, Dir | reads cassettes; second net behind the scrubber |
| `cassette` | none | Load, LoadDir | reads what the recorder writes, and a second format |
| `internal/audit` | none | Fields, PackFields, Compare | vendor API specifications against packs |
| AWS, Google authentication, eventstream decoding | credentials | sign, exchange tokens, decode frames | SDKs |

What is hard, and what makes each part correct:

- **recorder.** Many calls run RoundTrip at once and take two locks one after
  the other, the scrubber's once per identifier. Correct: one marker for one
  identifier, every answered call in the log exactly once, completion order,
  nothing of a loaded cassette lost, no call waiting for another for ever.
- **redact.** Order of substitution, escaped spellings, components of
  composite carriers, the eight-byte limit. Correct: no secret or discovered
  identifier is left, and nothing else changes.
- **record.** An API call stands between the look at a path and the write; a
  process may be killed, the disk full, another process at the same path.
  Correct: recordings are replaced only with `--force`, appended turns keep the
  earlier ones, calls are not wasted, the exit code is true.
- **probe.** A run writes many files; it may stop anywhere. Correct: matrix and
  cassettes agree, an earlier run is noticed before calls are spent.
- **cassette, verify.** Two formats and several encodings meet two readers of
  one file. Correct: what the recorder writes loads back and passes, what passes
  loads, is scrubbed, and has its signs of synthetic data named.
- **scenario, audit, the request side of record.** Sequential, but written in
  different places that must agree: what the audit calls covered and what
  recording sends, where a cassette is filed and what was asked for, where a
  credential is put and what is blanked. Correct: those agree, a specification
  with cycles is read whole, and the exit code of an audit is that of all packs.

## Modules

| Module | Models | Extends / uses |
|---|---|---|
| `CassetteLog` | what a recorder promises: a log, markers with one meaning, sessions, saves | |
| `Recorder` | recorder.go with the token table of redact.go | implements CassetteLog |
| `RecorderProofs`, `RecorderLogProofs` | theorems about Recorder | extend Recorder, TLAPS |
| `Scrubber` | the text side of redact.go, and the rules profiles make | |
| `ScrubberProofs` | theorems about Scrubber | extends Scrubber, LeastNumber |
| `RecordRun` | record.go: processes over a shared disk | |
| `RecordRunProofs` | theorems about RecordRun | extends RecordRun, TLAPS |
| `ProbeRun` | probe.go: a probe run over its directory | |
| `ProbeRunProofs` | theorems about ProbeRun | extends ProbeRun, TLAPS |
| `Cassette` | cassette.go, and the file shape recorder.go writes | |
| `Verify` | verify.go of internal/verify and internal/cli | extends Cassette |
| `VerifyProofs` | theorems about Verify and Cassette | extends Verify, LeastNumber |
| `Packs` | internal/scenario: manifests, scenarios, WithModel, BuildProbes | |
| `Audit` | internal/audit and the audit command | extends Packs |
| `Requests` | the request side of record: rules, bodies, buckets, buildRequest, the AWS and Google styles | extends Packs |
| `PackUse` | audit and record over the same packs | extends Audit, Requests |
| `PackUseProofs` | theorems about PackUse | extends PackUse, LeastNumber |
| `LeastNumber` | induction over numbers as facts to cite | extends WellFoundedInduction, TLAPS |
| `MC*` | values of the constants for TLC | |

Each module has a block of mutants: operators no specification uses that change
one definition as a likely bug would. Put in the place of that definition they
break the property they are listed with in `PROJECT.json`.

**CassetteLog and Recorder.** A call `r` moves through `stage[r]`: `idle`,
`sent` (body read, request with the transport), `naming` (response read; the
identifiers of its trace headers wait in `pending`), `appended`, `returned`, or
`failed`. `StartRoundTrip`, `ReadRequestFails`, `ExchangeFails`, `ExchangeEnds`
are RoundTrip up to the response; `TraceToken` is one turn of
TraceReplacements' loop under the scrubber's lock, first identifier in sort
order; `AppendInteraction` the append under the recorder's lock; `EncodeFails`
the error between them. `SetMeta`, `PrependFromFile`, `WriteFile` are the
methods, `WriteFileFails` a write that stops after truncating, and
`NewRecorder` the end of the process at any moment and the start of the next.
A marker `**TRACE_ID_n**` is the number `n`; an entry keeps which identifiers
were masked by which marker and which stayed. Step for step, `TraceToken` of a new identifier
is CassetteLog's `Mark`, `AppendInteraction` is `Record`, `PrependFromFile` is
`Adopt`, `WriteFile` is `Save`, `WriteFileFails` is `Lose`, `NewRecorder` is
`Reopen`; all else is stuttering.

Abstractions: an identifier is a number (any value traceParts lets through);
the exchange is the set it carries in trace headers and the set it holds
elsewhere; encoding to YAML and back is in Cassette.
PrependFromFile is called once per recorder and with the file of an earlier
process, as recordOne does.

**Scrubber.** Texts are sequences of symbols with widths in bytes; a marker is
one symbol. `Discovered` is what TraceReplacements finds, `NewTokens` the
numbering, `RedactString` the substitution (values of one width in any order:
Go's map order and an unstable sort), `ScrubHeader`, `URI`, `Bytes` the three
places, `ScrubEndpoint` the provenance. `Record` is one exchange with both
directions. A recording's rules are `BuiltRules`: the baseline, `Merge`d with a
vendor's profile whose replacements `AddReplacement` sorts into overrides of a
header and rules for a scope, then what flags and key add; a profile that is
not `WellFormed` makes none. A URI is put together as Go does it (scheme, host,
`PathAndQuery`) and then substituted as one text, so that an identifier or a rule
may reach over its parts. `meta.endpoint` is the host alone: a rule that spans
host and path masks the URI and leaves the endpoint as it was, in spite of
redact.go:328-330. `EndpointReadsAsUri` therefore speaks of rules and texts that
contain no edge of the host (`Edges`); one rule set of the run has rules that do.
`VerifierAccepts` leaves out trace headers that a profile overrides: their text
stands where verify, which knows no profiles, wants a marker (see Verify).
Abstractions: a pattern is the set of texts it matches, wherever they stand, so
that anchors and groups in what is written are left out; the scheme is one
symbol; header names lower case; values without surrounding space; the query in
the order url.Values.Encode gives it, without `+` for a space; the escaped
spelling of a marker the same symbol as the marker; one tie order for the texts
of an exchange (each text sees every order in some
behaviour); numbers given in any fixed order, since no property asks which.
Exchanges are taken one at a time: Recorder has the concurrency. The rules are
an argument of every operator that reads them, as `*Rules` is in Go.

**RecordRun.** One invocation is one process `p` with flags `opts[p]`; `pc[p]`
is where it is: `resolve` (resolveOutPath), `prepare` (the look before the
call, or PrependFromFile), `call`, `stat` (the look in writeCassette),
`truncate` and `fill` (os.WriteFile opening and writing), `exit`, `killed`. A
batch goes round per scenario. A cassette is its sequence of turns, one turn
for what a `client.Do` records, redirects included. A write that fails or is
killed in `fill` leaves any beginning of what it had to write (`CutOff`): YAML
that is cut off may parse, with fewer turns or with a last one that lacks its
end. `kept` is history, turns reported written since the last `--force`, and so is
`risked`, turns that a write which was cut off had to write. The two looks inside
resolveOutPath for `--append` are one step. A scenario's stream flag is any.

**ProbeRun.** Fields are `1 .. Fields` in sorted order. `Start` is the refusal
of earlier results, `Baseline` the minimal request, `Answered` and
`Unanswered` the verdict (2xx and 400/422 against all else, a call that failed,
a name that is no path segment), `Stat`, `Truncate`, `Fill` the cassette,
`TruncateMatrix`, `FillMatrix` the matrix and the exit code. One invocation at
a time: what overlap does at a path is in RecordRun.

**Packs, Audit, Requests, PackUse.** A body is a function from its top-level
fields to values. Packs is operators over `packs`: `Loads` is LoadPack with the
manifest rules, `ProbeBody` one body of BuildProbes with both rule tables.
In Audit a specification is a graph of schemas; `CollectProps` is the walk with
its depth cap, `ReportOn` PackFields and Compare. `AuditStart` finds the packs,
then one action per way past a pack (`SkipUnloadable`, `SkipWithoutSpec`,
`Resolve`, `AuditPack`) or out of the command (`Unloadable`, `ResolveFails`,
`SpecFails`, a fetch that may fail at any time), and `AuditEnds` is the exit
code. In Requests `Configure` is runRecordCommand up to its modes, with the
credentials of each `--auth` style and the rules; `Begin` reads pack or body and
makes the `jobs`, in one fixed order; `Send` is buildRequest, the
call, and what a Bedrock eventstream is decoded to; `SendFails` and `Skip` are
the ways past a job. The names of headers, parameters and secrets are kept, the
text that is scrubbed is in Scrubber, the files are in RecordRun and ProbeRun.
A pack whose manifest says that no body has a model (`model_field` empty) has
none in the instance, as the manifest's comment has it. PackUse lets both
commands go their way over the same packs, so that `CoveredIsSent` can compare
them.

**Cassette and Verify.** A value YAML decodes to is a record with its kind, a
string a name; what a string is like (unpacks, secret-shaped, JSON with usage
that adds up, a time so many days from now) is given by constants, so that no
pattern is matched. `Interactions` is parse after unmarshalling, `FileDoc` what
WriteFile writes. A file of the directory has a suffix, the number of reads that
succeed, whether it is packed as a whole and its document; `recorded` is
history, the exchanges it was written from. Each file is one step of the walk:
`Unparseable`, `NoInteractions` and `Unreadable` are the early returns of File,
`Check` all its checks. A recording has besides the rules it was made under and
the recorder's clock, which need not be the verifier's; its headers are anything
those rules leave (`HeadersWritten`): an override stands as it is, and a short
secret may have been cut out of a trace header.
Findings are a set: how often one is repeated, and for
which interaction, is left out. Dates without quotes are left out. decodeBody
follows the key `string` down as far as there are mappings; the model follows it
`MaxNesting` times, and what lies deeper counts as no body.

## Runs and what they show

| Run (cfg) | Instance | Shows |
|---|---|---|
| `RecorderConcurrent` | 2 calls, 2 identifiers, 1 process | `MarkersCorrelate`, `RecordedOnce`, `OwnIdsMasked`, `RealTimeOrder`; `CallsEnd` under fairness |
| `RecorderRestart` | 2 calls, 1 identifier, 2 processes, torn writes | the inductive invariant `IInv`; `SaveKeeps`; `LogSpec`, that is, Recorder implements CassetteLog |
| `RecordInTurn` | 3 invocations of 8 kinds in turn, 2 names, kills, full disk | `ReportedTurnsKept`, `NeverClobbered`, `AppendFindsFirstTurn`, `ExitTellsTruth` |
| `RecordOverlap` | 2 invocations that overlap and crash | `EveryRunEnds` |
| `ProbeInTurn` | 2 runs, 3 fields, one without a usable name, kills, full disk | `NeverRefusedLate`, `EvidenceAlongside`, `ExitTellsTruth`, `EveryProbeEnds` |
| `Scrubber` | 672 exchanges of five composite carriers and plain ones, then one of two that repeat identifiers, 5 rule sets | `VerifierAccepts`, `SecretsGone`, `DiscoveredGone`, `EndpointReadsAsUri`, `BodiesRestorable`, `ShortIdsStay` |
| `VerifyCorpus` | 1631 directories of one or two files, both formats, 346 with a recording, under 7 rule sets and 5 clocks | `PassedLoads`, `PassedIsScrubbed`, `RecordingsJudged`, `RecordedLoadsBack`, `SignsSurface` |
| `PackUse` | 1312 uses of 28 packs: audits against 11 spec blocks and none, all modes of record with all styles, both at once | `ReportExact`, `StrictTellsTruth`, `KeyCovered`, `PlaceTellsRequest`, `VendorsModelSent`, `CoveredIsSent` |

Four runs check a statement of the documentation or of a comment that the code
does not keep; TLC finds the counterexample.

| Run (cfg) | Statement | What happens |
|---|---|---|
| `RecorderRepeatedId` | redact.go:220-222, a value repeated "even across separate exchanges" maps to its marker | an identifier known from one exchange is left in the body of a later one whose headers do not carry it |
| `RecorderAppend` | FORMAT.md:58-60, replaced consistently, "preserving correlation" | after `--append` numbering begins again and one marker of the file stands for two identifiers |
| `ProbeStale` | probe.go:16-18, matrix "with the evidence cassette alongside" | a forced re-probe leaves cassettes of old verdicts in the other tree |
| `VerifyPacked` | FORMAT.md:65-66, verify treats a raw trace header "as a hard failure" | headers and provenance of a `*.yaml.gz` are not looked at: the second read is not unpacked |

`NeverClobbered` and `ExitTellsTruth` are properties of invocations in turn.
With `Overlap = TRUE` the first fails (both invocations pass both looks, then
both write); the code has no lock to prevent it. A write that is cut
off loses turns, with `--append` those of earlier invocations too, and what is
left may well be a file that loads. `ReportedTurnsKept` says that nothing but such
a write and `--force` takes away a turn that was reported: no failing call, look,
batch or later recording does. `ExitTellsTruth` counts what such a write left as
not recorded, as the command does, and `LogSpec` says that it is a beginning of
the log.

`RecordingsJudged` takes a recording through verify. It fails exactly if there is
something scrubbing cannot have taken care of: a clock more than a day ahead of
the verifier's or before 2020, a URI without a host, a text that looks like a
secret the recorder was not told of, one of the patterns verify looks for in the
raw file, or a trace header that holds no marker because a profile overrides it or a
short secret was cut out of it.

`ReportExact` compares a report with the schema and with the pack: a field is
covered exactly when a body carries it or a synthetic probe of protocol openai
sends it, and every declared field is in one of the two lists, unless the schema
is nested deeper than the cap or the field is the model of a pack without one.

Some properties say less than their subject may suggest. `CallsEnd` has each
critical section as one step: it shows that no call is starved, and cannot show a
deadlock of locks. `IInv` of Recorder is checked with one identifier; that two
identifiers never share a marker is shown by `RecorderConcurrent` and proved.
`PassedIsScrubbed` leaves out the headers of files packed as a whole, which
`VerifyPacked` is about. `RecordedLoadsBack` takes unpacking as given. That a
batch or a probe run ends (`EveryRunEnds`, `EveryProbeEnds`) follows from loops
that are short; what the runs add is that no failure or other process stops them.

`PlaceTellsRequest` and `CoveredIsSent` leave out combinations of `aws-sigv4`
in which the code does otherwise: with `--bucket auto` the transport is chosen
before the body is read, so that a streaming scenario is sent as a plain invoke
and filed under `stream/`; and a probe of the field `stream` loses that very
field to the rewriting of the body.

### Bounds

- Two calls and two identifiers are enough for every pairwise race of look-ups
  and appends; the theorems below hold for any number. One identifier is enough
  where the question is order and loss (`RecorderRestart`). A second process is
  the first that can load.
- Three invocations in turn: a recording, an append or a forced one, and one
  that meets what both left. Two for overlap and probes, where the hazard is
  between two.
- In Scrubber the carriers are those traceParts knows, each with components
  above and below eight bytes; two exchanges are the least that share a table.
- In Verify every request section meets every response section, in either
  format, in lists of equal and of unequal length, and in files that have both;
  every form of the provenance block stands in a file of its own. A file is
  checked by itself, so directories of two are only needed for the exit code.
- `MaxNesting` is 3 in the runs, where no body lies deeper than two; the
  theorems hold for any bound above zero (the recorder nests none).
- In PackUse a specification has a cycle, or a chain that ends at the depth cap
  or one step beyond it; a directory holds two packs, the least in which one
  can be lost behind the other; packs lack, in turn, everything LoadPack asks
  for; every style meets every bucket and mode, with and without headers of the
  user's, a profile, a key.
- `CHECK_DEADLOCK FALSE` everywhere: calls, processes and recordings end, and
  nothing must follow.

### Fairness

`Recorder!Fairness`: a call that is in RoundTrip is scheduled, and its exchange
ends, since every client in the program sets `http.Client.Timeout`. Nothing is
assumed of callers, saves or restarts. `RecordRun!FairSpec` and
`ProbeRun!FairSpec`: a running command takes its next step; its only waits are
a pause and a call with a timeout. Being killed is never forced.

## Proofs

Every invariant and every action property a run checks is a theorem, for every
value of the constants that the named assumptions allow (all of them evaluated
by TLC in the runs); so is the refinement of CassetteLog. Each component has an
inductive invariant `IInv`, checked with TLC before it was proved, and what
follows from it.

| Module | Theorems | For every |
|---|---|---|
| `RecorderProofs` | `TypeCorrect`, `Invariance`, `Correlation` (`MarkersCorrelate`), `Accounting` (`RecordedOnce`), `Implementation` (`LogSpec`) | `Req`, `Id` (a set of naturals), `MaxRuns`, `TornWrites` |
| `RecorderLogProofs` | `OwnIds` (`OwnIdsMasked`), `Order` (`RealTimeOrder`), `Saves` (`SaveKeeps`) | the same |
| `ScrubberProofs` | `TypeCorrect`, `Invariance`, `Secrets` (`SecretsGone`), `Identifiers` (`DiscoveredGone`), `Accepted` (`VerifierAccepts`), `Provenance` (`EndpointReadsAsUri`), `Restorable` (`BodiesRestorable`), `ShortIds` (`ShortIdsStay`) | policies, profiles, exchanges, widths, spellings |
| `RecordRunProofs` | `TypeCorrect`; for invocations in turn (`~Overlap`) `Invariance`, `TurnsKept` (`ReportedTurnsKept`), `NotClobbered` (`NeverClobbered`), `FirstTurnFound` (`AppendFindsFirstTurn`), `ExitCodes` (`ExitTellsTruth`) | processes, finite set of names, kinds of invocation, crashing or not |
| `ProbeRunProofs` | `TypeCorrect`, `Invariance`, `NotRefusedLate` (`NeverRefusedLate`), `Evidence` (`EvidenceAlongside`), `ExitCode` (`ExitTellsTruth`) | number of invocations and fields |
| `VerifyProofs` | `TypeCorrect`, `Invariance`, `Replayable` (`PassedLoads`), `Scrubbing` (`PassedIsScrubbed`), `Surfacing` (`SignsSurface`), `Judgement` (`RecordingsJudged`), `RoundTrip` (`RecordedLoadsBack`) | directories, documents, what strings are like |
| `PackUseProofs` | `TypeCorrect`, `Invariance`, `CredentialsCovered` (`KeyCovered`), `ExitCode` (`StrictTellsTruth`), `ReportsExact` (`ReportExact`), `VendorsModel` (`VendorsModelSent`), `PlaceTells` (`PlaceTellsRequest`), `CoveredSent` (`CoveredIsSent`) | packs, specifications, audits, invocations |
| `LeastNumber` | `LeastNat`, `Downward`, `Upward`, `Recursion`, `Iterates` | |

What they assume of the constants:

| Assumption | Says | Because |
|---|---|---|
| `TextsAssumption` | a symbol has a width and a spelling that is a symbol; no marker is one | the scrubber's markers are not in what vendors send |
| `RulesAssumption` | secrets and what rules find are not empty | AddSecret and AddReplacement refuse empty text; a pattern that matches it is left out |
| `ExchangesAssumption` | headers are finitely many; a host name holds no escape; a path begins with `/`; no query parameter comes twice | net/url parses no host in which an ASCII character is escaped, and what follows a host is a path from the root or a query; repeated parameters are left out |
| `NestingAssumption` | `MaxNesting` is not zero | |
| `CorporaAssumption` | a file said to be recorded is what WriteFile writes of exchanges whose headers some rules that include the baseline have been through; its clock is any | `HeadersWritten` follows Scrubber's `ScrubHeader`; that a trace header without override and short secret has whole markers is theorem `Accepted` there |
| `ClockAssumption` | times are whole days from now | |
| `WebAssumption` | a path of a specification names one of its finitely many schemas | audit.Fields leaves out the others |
| `UsesAssumption` | bodies are finite; `Truthful`: where a manifest puts the model elsewhere, no body has a field `model`, and model and wish to stream are different fields | the manifest's own comment |
| of Recorder, RecordRun, ProbeRun | finite names, numbers, kinds of flags | |

**Induction.** The library's induction theorems take an operator as a
parameter, which the installed provers cannot instantiate. `LeastNumber` states
what is needed for a set instead: one that is not empty has a least element (from
the library's `WFMin`), so one that holds zero and the successor of each of its
elements holds every number. `Recursion` and `Iterates` say that a recursive
function has a value where it is defined. So what the recursive functions of
Scrubber, Audit and Cassette compute is proved for inputs of any size.

**Recorder.** `MarkersCorrelate` is not inductive: it says nothing of the table or of calls
that are between naming and appending. `IInv` adds that the table gives each
number up to `nextTrace` to one identifier (`TokensDistinct`), that what a call
in flight took from the table is still what the table says (`ReplFromTable`,
for the table only grows within a process: lemma `TableGrows`), that masks of
this process' entries come from the table (`MasksFromTable`), and that entries
of earlier processes can be told apart (`RunsInOrder`: before a file is loaded
every entry is of this process, and a file that can be loaded is of an earlier
one). `StepKinds` first sorts the steps: most change none of this (`Quiet`), so
each part is proved for the few kinds that remain. `Implementation` maps each
kind to a step of CassetteLog; the guard of `Record`, that the call has no
entry yet, is `RecordedOnce`. RecorderLogProofs has one more invariant for each
of its theorems: a call has markers for what it carries, all but the pending
(`OwnMarks`); what had returned when a call began has returned
(`EarlierReturned`); a file this process has loaded or written is the beginning
of its log (`FileIsPrefix`).

**RecordRun.** `ReportedTurnsKept` and `NeverClobbered` speak of the disk and the
step that opens a file, and say nothing of what a process holds between them.
`IInv` adds: a process that has not begun has left nothing anywhere (`InTurn`),
a path holds turns of its own scenario and reported ones only where there is a
file (`Sound`), a process from loading to writing holds its scenario's turns
and, appending, all that were reported and not cut off (`Holding`), what it saw at a look is
still so (`Looked`, which is where overlap would break it), and the disk has
exactly the scenarios behind it that it has not skipped (`Accounted`). The last
needs that the scenarios of a pack have different names (`NameList`): they are
files of one directory.

**ProbeRun.** The same argument over fields: those behind the run have a
cassette in the tree of their verdict and in no other (`Behind`), those ahead
have none of this run and, unless it is forced, none at all (`Ahead`).

**PackUse.** The two commands share no variable that either writes, so `IInv`
has a part for each: the rules name every header the credential can be in, and
its value, from Configure on (`Registered`), and every request was covered when
it was made (`Covered`); an audit has a report on, or has still to read, every
pack it owes one, and reports are what they were when they were made
(`AuditInv`). That none of the packs is lost at the start is lemma `Listed`.
`PlaceInv` is what the properties of requests need: each was made from one of
the jobs that mode and pack give (`FromJob`), the jobs left are the last ones,
and as many are gone as were sent or skipped (`Counted`). When as many requests
as jobs are there, none was skipped; this is why `CoveredIsSent` can look at the
requests alone. `ReportExact` is about a graph: the walk with its cap collects
the fields of what can be reached in eight steps (`Collected`), what can be
reached only grows, once it does not grow it never does (`WithinStops`), and in
as many steps as there are schemas it has stopped (`NearIsSomewhere`).

**Verify.** `IInv` says that the findings are those of the files behind the
walk, no more and no fewer (`FoundBehind`), and that a run that passed has come
to the end without a FAIL. What a file is found to be is a function of the file
(`Verdict`), so the rest is about one file: one that passed loads, has
interactions and passed every check (`PassedVerdict`); one that the recorder wrote
loads as the exchanges it was written from, in their order (`FileLoads`), its
headers fail for what overrides and short secrets left in them (`HeadersJudged`),
its interactions for host and secrets (`InteractionJudged`), and with the clock
these are the whole of its verdict (`RecordedVerdict`).

**Scrubber.** `IInv` keeps little: the table numbers texts from one on without a
gap (`Numbers`), and each copy is what scrubbing made of its exchange with the
numbers that are still in the table (`Kept`). The rest is about substitution in
one text. `Rewriting` describes ReplaceMatches by what is written from each
position on to the end. A text that is replaced does not stand in the result
(`ReplacedWhole`, `NotCreated`) when what is written cannot be part of it
(`MarkApart`: no marker is a symbol), and later replacements do not put it
together again (`Clearing`); so secrets and identifiers are gone in any order of
values of one width. For `VerifierAccepts` order matters: what is discovered in a
trace header is the value or a shorter stretch of it (`CarriedParts`, `Stretch`),
the longest comes first, so the value is replaced whole before a component can
break it (`IdentifierMarked`). For `EndpointReadsAsUri` a text that holds no edge
symbol is replaced in what stands before an edge and in what stands behind it
each by itself (`Distributes`); so every substitution of the URI leaves scheme and
edge where they are and does to the host what it does to the host alone
(`ReplacedAround`), identifiers find nothing there, and the escaped spelling of a
secret nothing more than the plain one (`HostEscapes`). For `BodiesRestorable` every symbol is
spelled out, markers by what the table has them for: each substitution writes one
symbol that is spelled out as what it replaced (`PutsBack`), and the table gives
no marker to two texts.

What the proofs showed, where a first statement was not true or not enough:

- `Secrets` and `Identifiers` have a condition, `SecretsUnwritten` and
  `IdentifiersUnwritten`: no override has the text, and what a profile's
  replacement writes differs from it wherever the two are laid over each other.
  It holds without replacements. Without it a replacement, which comes after the
  secrets, may write the end of a secret behind a beginning that stood there by
  chance (of the five rule sets of the run one writes the end of the key, two a
  part of a carrier; there is no such beginning in its exchanges, so TLC finds the
  properties true).
- `Accepted` has the condition `SecretsWide`, that no secret is shorter than the
  eight bytes of an identifier (true of all rule sets of the run): a shorter one
  inside a trace value too short to be an identifier is masked, the value has
  changed, and what is around the secret stays. AddSecret takes a key of any
  length but none.
- `Provenance` needs that a host holds no escape: ScrubEndpoint looks for secrets
  in the plain spelling only, URI in both. And it needs that nothing looked for
  holds an edge of the host, which is a limit of the code.
- `Judgement` is about what a body unpacks to, not about the body: verify looks at
  what Load gives.
- `TurnsKept` cannot say all turns or none: a write that is cut off may leave some
  turns in a file that loads.
- `VendorsModel` and `PlaceTells` need manifests that say the truth
  (`Truthful`): a body with a `model` of its own in a pack that says the model is
  elsewhere is sent as committed.
- `CoveredSent` needed that synthetic probes are counted by an audit for protocol
  openai only, while they are sent with any pack; and the model, under whichever
  name.

Only model-checked is liveness: `CallsEnd`, `EveryRunEnds`, `EveryProbeEnds`. The
prover does not handle fairness and ENABLED. Of invocations that overlap only
types are proved and only liveness is checked: the rest does not hold.

## Not modelled

- The matching of regular expressions: a pattern is the texts it matches,
  none of them empty.
- Signing, the exchange of a key for a token, TLS, the framing of an
  eventstream: calls into SDKs. Their outcomes, and which credentials take part,
  are in Requests.
- Fetching: a document is there, or the fetch fails. Parsing of YAML and JSON
  is that they succeed or not.
- `root.go`, `main.go`, `embed.go`: flag registration and embedded data, no
  state of their own. Printing, previews, usage messages.
- The recorded corpus and vendored cassettes, which are data.

## Plan

1. *Done:* CassetteLog, Recorder, Scrubber with the building of rules,
   RecordRun, ProbeRun, Cassette, Verify, Packs, Audit, Requests, PackUse; proofs
   of every safety property of theirs.
2. Proofs: conditions under which `Secrets` and `Identifiers` hold with
   replacements that write part of what was masked; a weaker `InTurn`, for
   processes that overlap on different scenarios only.
3. Verify composed with Scrubber, so that `HeadersWritten` is no assumption but a
   consequence of `ScrubHeader`.
