------------------------------- MODULE Verify -------------------------------
(***************************************************************************)
(* `opencassette verify` (internal/verify: Dir, File, checkHeaders,         *)
(* checkMeta, checkUsage; internal/cli/verify.go): one walk over the files  *)
(* of a directory, each of which is loaded, read a second time and checked. *)
(* A FAIL makes the exit code 1, a WARN is printed.                         *)
(***************************************************************************)
EXTENDS Cassette, Integers

CONSTANTS Corpora,            \* the directories there may be: sequences of
                              \* files in the order of the walk
          CredentialHeaders,  \* header names in lower case
          TraceHeaders,
          TraceMarkers,       \* strings that are **TRACE_ID**, **TRACE_ID_n**
          Redacted,           \* the string **REDACTED**
          SecretShaped,       \* strings with sk- and 20 characters in them
          Hosted, Https,      \* URIs with a host, with the scheme https
          Placeholder,        \* strings with a placeholder id, a placeholder
          EpochPlaceholder,   \* for the time of creation
          Usage,              \* a string that is a JSON object -> "none",
                              \* "adds", "off": what its usage block says
          DataLines,          \* a string -> what follows data: in its lines
          DaysFromNow,        \* an RFC3339 time -> days after now
          Year2020            \* the day 2020 began, counted from now

VARIABLES corpus,    \* the directory
          at,        \* the next file of the walk
          findings,  \* []Finding
          files,     \* cassettes examined
          pc,
          code       \* exit code

vars == <<corpus, at, findings, files, pc, code>>

-----------------------------------------------------------------------------
(* Mutants: faults the properties below are to notice.                      *)

(* Files are numbered from zero.                                            *)
FromZero(n, found) == {[file |-> n - 1, level |-> f.level, about |-> f.about] : f \in found}

(* Every marker has a number.                                               *)
NumberedOnly(s) == s = Redacted \/ s \in TraceMarkers \ {"**TRACE_ID**"}

(* Files that are packed as a whole are passed over.                        *)
PlainFilesOnly(f) == f.suffix = ".yaml"

(* No clock is ahead of this one.                                           *)
NoneAhead(time) ==
    time \in DOMAIN DaysFromNow /\ DaysFromNow[time] <= 0 /\ DaysFromNow[time] >= Year2020

(* Only a response that is one JSON document is added up.                   *)
WholeOnly(b) == {b} \cap DOMAIN Usage

-----------------------------------------------------------------------------
Fail(about) == [level |-> "FAIL", about |-> about]
Warn(about) == [level |-> "WARN", about |-> about]

(* The findings of a file carry its path.                                   *)
Of(n, found) == {[file |-> n, level |-> f.level, about |-> f.about] : f \in found}

(* One finding when a condition holds.                                      *)
When(condition, finding) == IF condition THEN {finding} ELSE {}

-----------------------------------------------------------------------------
(* checkHeaders                                                             *)

(* The maps whose headers it inspects, both formats at once.                *)
Exchanged(doc) == {Get(v, part) : v \in ToSet(Items(Get(doc, "interactions"))),
                                  part \in {"request", "response"}}

SideBySide(doc) == ToSet(Items(Get(doc, "requests"))) \cup ToSet(Items(Get(doc, "responses")))

(* Mutant: the format is told by the key interactions:, whatever it holds.  *)
FormatByKey(doc) ==
    IF "interactions" \in DOMAIN doc.at THEN Exchanged(doc) ELSE SideBySide(doc)

Sections(doc) == Exchanged(doc) \cup SideBySide(doc)

Strings(v) ==
    {s.is : s \in {s \in {v} \cup ToSet(Items(v)) : s.kind = "string"}}

IsMarked(s) == s = Redacted \/ s \in TraceMarkers

Scrubbed(name, s) ==
    /\ name \in CredentialHeaders => s = Redacted
    /\ name \in TraceHeaders \ CredentialHeaders => IsMarked(s)
    /\ name \notin CredentialHeaders \cup TraceHeaders => s \notin SecretShaped

AllScrubbed(section) ==
    LET headers == Get(section, "headers")
    IN headers.kind = "map" =>
          \A name \in DOMAIN headers.at : \A s \in Strings(headers.at[name]) : Scrubbed(name, s)

(* What the second read gives is not unpacked: a packed file is no YAML.    *)
RawDoc(f) == IF f.gz THEN Broken ELSE f.doc

CheckHeaders(f) ==
    When(Parses(RawDoc(f)) /\ \E s \in Sections(RawDoc(f)) : ~AllScrubbed(s), Fail("header"))

-----------------------------------------------------------------------------
(* checkMeta                                                                *)

(* recorded_at, where a meta block can be decoded.                          *)
HasMeta(f) ==
    /\ Get(RawDoc(f), "meta").kind = "map"
    /\ Get(Get(RawDoc(f), "meta"), "recorded_at").kind \notin {"list", "map"}

RecordedAt(f) == StringOf(Get(Get(RawDoc(f), "meta"), "recorded_at"))

(* A day ahead of this clock is allowed.                                    *)
Possible(time) ==
    time \in DOMAIN DaysFromNow /\ DaysFromNow[time] <= 1 /\ DaysFromNow[time] >= Year2020

CheckMeta(f) ==
    When(~HasMeta(f), Warn("no meta"))
       \cup When(HasMeta(f) /\ ~Possible(RecordedAt(f)), Fail("recorded_at"))

-----------------------------------------------------------------------------
(* The interactions                                                         *)

(* The JSON documents in a response: the whole, or else its data: lines.    *)
Documents(b) ==
    IF b \in DOMAIN Usage THEN {b}
    ELSE IF b \in DOMAIN DataLines THEN ToSet(DataLines[b]) \cap DOMAIN Usage ELSE {}

CheckUsage(b) == When(\E d \in Documents(b) : Usage[d] = "off", Warn("usage"))

CheckResponse(b) ==
    When(b \in SecretShaped, Fail("response"))
       \cup When(b \in Placeholder, Warn("placeholder id"))
       \cup When(b \in EpochPlaceholder, Warn("epoch placeholder"))
       \cup CheckUsage(b)

(* An interaction without a host is looked at no further.                   *)
CheckInteraction(it) ==
    IF it.uri \notin Hosted THEN {Fail("URI")}
    ELSE When(it.uri \notin Https, Warn("URI"))
            \cup When({it.request, it.uri} \cap SecretShaped # {}, Fail("request"))
            \cup CheckResponse(it.response)

Checks(f) ==
    When(f.patterns /\ ~f.gz, Fail("pattern")) \cup CheckHeaders(f) \cup CheckMeta(f)
       \cup UNION {CheckInteraction(it) : it \in ToSet(Interactions(f.doc))}

-----------------------------------------------------------------------------
(* The directories                                                          *)

(* What the recorder's rules leave of headers (Scrubber!Headers).  That a   *)
(* trace header has whole markers is Scrubber!VerifierAccepts, if no secret *)
(* is shorter than an identifier has to be.                                 *)
HeadersWritten(rules, h) ==
    \A name \in DOMAIN h :
       /\ name \in rules.credential => h[name] = <<Redacted>>
       /\ name \in DOMAIN rules.overrides \ rules.credential =>
             h[name] = <<rules.overrides[name]>>
       /\ name \in rules.trace \ (rules.credential \cup DOMAIN rules.overrides) =>
             rules.short \/ ToSet(h[name]) \subseteq TraceMarkers \cup {Redacted}

(* A file of the recorder: its exchanges as its rules leave them, under the *)
(* time of its own clock, not packed.  Rules hold what baseline.yaml names, *)
(* which is what verify looks for.                                          *)
Recorded(f) ==
    /\ ~f.gz
    /\ f.clock \in DOMAIN DaysFromNow
    /\ f.doc = FileDoc(f.clock, f.recorded)
    /\ CredentialHeaders \subseteq f.rules.credential /\ TraceHeaders \subseteq f.rules.trace
    /\ f.rules.short \in BOOLEAN
    /\ \A x \in ToSet(f.recorded) :
          HeadersWritten(f.rules, x.request) /\ HeadersWritten(f.rules, x.response)

ASSUME CorporaAssumption ==
    \A dir \in Corpora :
       /\ dir \in Seq(ToSet(dir))
       /\ \A f \in ToSet(dir) :
             /\ f.reads \in 0 .. 2
             /\ f.recorded \in Seq(ToSet(f.recorded))
             /\ f.recorded # <<>> => Recorded(f)

ASSUME ClockAssumption ==
    Year2020 \in Int /\ \A time \in DOMAIN DaysFromNow : DaysFromNow[time] \in Int

-----------------------------------------------------------------------------
(* The walk                                                                 *)

Init ==
    /\ corpus \in Corpora
    /\ at = 1
    /\ findings = {}
    /\ files = 0
    /\ pc = "walk"
    /\ code = 0

Here == corpus[at]

Examined(f) == f.suffix \in {".yaml", ".yaml.gz"}

Walking == pc = "walk" /\ at <= Len(corpus)

(* One file has been verified, with these findings.                         *)
Verified(found) ==
    /\ Walking
    /\ Examined(Here)
    /\ findings' = findings \cup Of(at, found)
    /\ files' = files + 1
    /\ at' = at + 1
    /\ UNCHANGED <<corpus, pc, code>>

PassOver ==
    /\ Walking
    /\ ~Examined(Here)
    /\ at' = at + 1
    /\ UNCHANGED <<corpus, findings, files, pc, code>>

Unparseable == Walking /\ ~Loads(Here) /\ Verified({Fail("unparseable")})

IsEmpty(f) == Loads(f) /\ Interactions(f.doc) = <<>>

NoInteractions == Walking /\ IsEmpty(Here) /\ Verified({Fail("no interactions")})

(* The second read of the file fails.                                       *)
Unreadable ==
    /\ Walking /\ Loads(Here) /\ ~IsEmpty(Here) /\ Here.reads = 1
    /\ Verified({Fail("unreadable")})

Check ==
    /\ Walking /\ Loads(Here) /\ ~IsEmpty(Here) /\ Here.reads = 2
    /\ Verified(Checks(Here))

(* A directory cannot be read: no findings, an error.                       *)
WalkFails ==
    /\ pc = "walk"
    /\ pc' = "exit"
    /\ code' = 1
    /\ findings' = {}
    /\ files' = 0
    /\ UNCHANGED <<corpus, at>>

HasFailures == \E f \in findings : f.level = "FAIL"

Exit ==
    /\ pc = "walk" /\ at = Len(corpus) + 1
    /\ pc' = "exit"
    /\ code' = IF HasFailures THEN 1 ELSE 0
    /\ UNCHANGED <<corpus, at, findings, files>>

Next ==
    \/ PassOver
    \/ Unparseable
    \/ NoInteractions
    \/ Unreadable
    \/ Check
    \/ WalkFails
    \/ Exit

Spec == Init /\ [][Next]_vars

-----------------------------------------------------------------------------
(* Properties                                                               *)

TypeOK ==
    /\ corpus \in Corpora
    /\ at \in 1 .. Len(corpus) + 1
    /\ files \in 0 .. at - 1
    /\ findings \subseteq [file : 1 .. at - 1, level : {"FAIL", "WARN"},
                           about : {"header", "no meta", "recorded_at", "response",
                                    "placeholder id", "epoch placeholder", "usage", "URI",
                                    "request", "pattern", "unparseable", "no interactions",
                                    "unreadable"}]
    /\ pc \in {"walk", "exit"}
    /\ code \in {0, 1}

Passed == pc = "exit" /\ code = 0

Cassettes == {i \in DOMAIN corpus : IsCassette(corpus[i])}

(* A directory that passes can be replayed: LoadDir loads all of it, and    *)
(* each cassette gives interactions, each with a host to send it to.        *)
PassedLoads ==
    Passed =>
       /\ LoadsDir(corpus)
       /\ \A i \in Cassettes :
             /\ Interactions(corpus[i].doc) # <<>>
             /\ \A it \in ToSet(Interactions(corpus[i].doc)) : it.uri \in Hosted

(* Of a directory that passes, nothing Load returns is secret-shaped, and   *)
(* no header of a section that Load takes an interaction from is unscrubbed *)
(* (for files not packed as a whole: TraceHeadersFail), whichever of the    *)
(* two formats the file is in or seems to be in.                            *)
LoadedSections(doc) ==
    IF Get(doc, "interactions").kind = "list" THEN Exchanged(doc) ELSE SideBySide(doc)

PassedIsScrubbed ==
    Passed =>
       \A i \in Cassettes :
          /\ \A it \in ToSet(Interactions(corpus[i].doc)) :
                {it.uri, it.request, it.response} \cap SecretShaped = {}
          /\ ~corpus[i].gz => \A s \in LoadedSections(corpus[i].doc) : AllScrubbed(s)

(* What a recorded body is to load as.                                      *)
LoadedBody(b) == IF b \in {None, ""} THEN None ELSE GunzipIfNeeded(b)

(* What is amiss with a trace header of a recording: a profile has its own  *)
(* text for it, or a short secret was cut out of the value.                 *)
TraceShows(rules, h) ==
    \E name \in (DOMAIN h \cap TraceHeaders) \ rules.credential :
       /\ name \in DOMAIN rules.overrides \/ rules.short
       /\ ~(ToSet(h[name]) \subseteq TraceMarkers \cup {Redacted})

(* A header that is no credential's and no trace's holds a secret the       *)
(* recorder was not told of.                                                *)
ForeignSecret(h) ==
    \E name \in DOMAIN h \ (CredentialHeaders \cup TraceHeaders) :
       ToSet(h[name]) \cap SecretShaped # {}

Faulty(f) ==
    \/ f.patterns
    \/ DaysFromNow[f.clock] > 1 \/ DaysFromNow[f.clock] < Year2020
    \/ \E x \in ToSet(f.recorded) :
          \/ x.uri \notin Hosted
          \/ {x.uri, LoadedBody(x.body), LoadedBody(x.answer)} \cap SecretShaped # {}
          \/ \E h \in {x.request, x.response} : TraceShows(f.rules, h) \/ ForeignSecret(h)

(* A recording gets a FAIL for these reasons and no other, whatever is in   *)
(* the files around it: the two clocks are more than a day apart (or the    *)
(* recorder's is before 2020), a URI has lost its host, a secret that the   *)
(* recorder did not know of, or a trace header whose value is no marker,    *)
(* which takes a profile's override or a short secret.  Each of them keeps  *)
(* the directory from passing.  So whatever the rules do to a header, a     *)
(* recording with none of these passes.                                     *)
RecordingsJudged ==
    \A i \in Cassettes : corpus[i].recorded # <<>> /\ corpus[i].reads = 2 =>
       /\ (\E f \in findings : f.file = i /\ f.level = "FAIL") => Faulty(corpus[i])
       /\ Passed => ~Faulty(corpus[i])

(* And loads back: the same exchanges in the same order, their bodies       *)
(* unpacked, an empty body as none.                                         *)
RecordedLoadsBack ==
    \A i \in Cassettes : corpus[i].recorded # <<>> =>
       Interactions(corpus[i].doc) =
          [n \in DOMAIN corpus[i].recorded |->
             LET x == corpus[i].recorded[n]
             IN [method |-> x.method, uri |-> x.uri,
                 request |-> LoadedBody(x.body), response |-> LoadedBody(x.answer)]]

(* "Warns are surfaced": a directory that passes has a warning for every    *)
(* sign of synthetic data in any response of any file, usage that does not  *)
(* add up in one chunk of a stream included.                                *)
Signs(b) ==
    When(b \in Placeholder, "placeholder id")
       \cup When(b \in EpochPlaceholder, "epoch placeholder")
       \cup When(\E d \in DOMAIN Usage :
                     /\ Usage[d] = "off"
                     /\ d = b \/ (b \in DOMAIN DataLines \ DOMAIN Usage /\ d \in ToSet(DataLines[b])),
                 "usage")

SignsSurface ==
    Passed =>
       \A i \in Cassettes : \A it \in ToSet(Interactions(corpus[i].doc)) :
          \A sign \in Signs(it.response) :
             [file |-> i, level |-> "WARN", about |-> sign] \in findings

(* FORMAT.md: "`verify` treats a raw value in a known trace/correlation     *)
(* header as a hard failure."                                               *)
TraceHeadersFail ==
    Passed => \A i \in Cassettes : \A s \in LoadedSections(corpus[i].doc) :
                 LET headers == Get(s, "headers")
                 IN headers.kind = "map" =>
                       \A name \in DOMAIN headers.at \cap TraceHeaders :
                          \A v \in Strings(headers.at[name]) : IsMarked(v)
=============================================================================
