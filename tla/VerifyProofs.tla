---------------------------- MODULE VerifyProofs -----------------------------
(***************************************************************************)
(* Theorems about Verify, for every corpus: what a directory that passes is *)
(* worth, and that what the recorder writes passes and loads back.  At any  *)
(* moment of the walk the findings are those of the files behind it.        *)
(***************************************************************************)
EXTENDS Verify, LeastNumber

-----------------------------------------------------------------------------
(* The findings of a file, whichever action looks at it.                    *)
Verdict(f) ==
    IF ~Loads(f) THEN {Fail("unparseable")}
    ELSE IF IsEmpty(f) THEN {Fail("no interactions")}
    ELSE IF f.reads = 1 THEN {Fail("unreadable")} ELSE Checks(f)

Behind == {i \in 1 .. at - 1 : Examined(corpus[i])}

FoundBehind == UNION {Of(i, Verdict(corpus[i])) : i \in Behind}

Kinds == {"header", "no meta", "recorded_at", "response", "placeholder id",
          "epoch placeholder", "usage", "URI", "request", "pattern", "unparseable",
          "no interactions", "unreadable"}

IInv ==
    /\ corpus \in Corpora
    /\ at \in 1 .. Len(corpus) + 1
    /\ files \in 0 .. at - 1
    /\ pc \in {"walk", "exit"}
    /\ code \in {0, 1}
    /\ findings = FoundBehind \/ (pc = "exit" /\ code = 1 /\ findings = {})
    /\ Passed => at = Len(corpus) + 1 /\ findings = FoundBehind /\ ~HasFailures

-----------------------------------------------------------------------------
(* The walk                                                                 *)

(* A verdict is findings of known kinds.                                    *)
LEMMA VerdictKinds ==
    ASSUME NEW f PROVE Verdict(f) \subseteq [level : {"FAIL", "WARN"}, about : Kinds]
<1> DEFINE Finding == [level : {"FAIL", "WARN"}, about : Kinds]
<1>1. ASSUME NEW about \in Kinds, NEW condition
      PROVE  When(condition, Fail(about)) \subseteq Finding
             /\ When(condition, Warn(about)) \subseteq Finding
  BY DEF When, Fail, Warn
<1>2. {"header", "no meta", "recorded_at", "response", "placeholder id", "epoch placeholder",
       "usage", "URI", "request", "pattern", "unparseable", "no interactions",
       "unreadable"} \subseteq Kinds
  BY DEF Kinds
<1> HIDE DEF Finding
<1>3. ASSUME NEW about \in Kinds PROVE {Fail(about)} \subseteq Finding
  BY <1>1 DEF When
<1>4. ASSUME NEW b PROVE CheckResponse(b) \subseteq Finding
  BY <1>1, <1>2 DEF CheckResponse, CheckUsage
<1>5. ASSUME NEW it PROVE CheckInteraction(it) \subseteq Finding
  BY <1>1, <1>2, <1>3, <1>4 DEF CheckInteraction
<1>6. CheckHeaders(f) \subseteq Finding /\ CheckMeta(f) \subseteq Finding
  BY <1>1, <1>2 DEF CheckHeaders, CheckMeta
<1>7. Checks(f) \subseteq Finding BY <1>1, <1>2, <1>5, <1>6 DEF Checks
<1> QED BY <1>2, <1>3, <1>7 DEF Verdict, Finding

(* A file whose reads are counted right gets its verdict by one action.     *)
LEMMA VerdictGiven ==
    ASSUME Unparseable \/ NoInteractions \/ Unreadable \/ Check
    PROVE  Verified(Verdict(Here))
<1>1. CASE Unparseable BY <1>1 DEF Unparseable, Verdict
<1>2. CASE NoInteractions BY <1>2 DEF NoInteractions, Verdict, IsEmpty
<1>3. CASE Unreadable BY <1>3 DEF Unreadable, Verdict
<1>4. CASE Check BY <1>4 DEF Check, Verdict
<1> QED BY <1>1, <1>2, <1>3, <1>4

(* A directory is a sequence.                                               *)
LEMMA Walked ==
    ASSUME IInv PROVE Len(corpus) \in Nat /\ DOMAIN corpus = 1 .. Len(corpus)
BY CorporaAssumption DEF IInv

(* The walk begins with nothing behind it.                                  *)
LEMMA Start == Init => IInv
<1> SUFFICES ASSUME Init PROVE IInv OBVIOUS
<1>1. Len(corpus) \in Nat BY CorporaAssumption DEF Init
<1>2. Behind = {} BY DEF Behind, Init
<1>3. FoundBehind = {} BY <1>2 DEF FoundBehind
<1> QED BY <1>1, <1>3 DEF Init, IInv, Passed

(* Every step leaves the findings of the files behind the walk, or of none. *)
LEMMA Step == IInv /\ [Next]_vars => IInv'
<1> SUFFICES ASSUME IInv, [Next]_vars PROVE IInv' OBVIOUS
<1> USE DEF Passed
<1>1. ASSUME Verified(Verdict(Here)) PROVE IInv'
  <2>1. /\ pc = "walk" /\ at <= Len(corpus) /\ at \in Nat \ {0} /\ at' = at + 1
        /\ UNCHANGED <<corpus, pc, code>> /\ files' = files + 1
        /\ findings' = findings \cup Of(at, Verdict(Here)) /\ Examined(Here)
    BY <1>1 DEF Verified, Walking, IInv
  <2>2. Behind' = Behind \cup {at}
    <3>1. Behind' = {i \in 1 .. at' - 1 : Examined(corpus[i])} BY <2>1 DEF Behind
    <3>2. 1 .. at' - 1 = (1 .. at - 1) \cup {at} BY <2>1
    <3> QED BY <2>1, <3>1, <3>2 DEF Behind, Here
  <2>3. FoundBehind' = UNION {Of(i, Verdict(corpus[i])) : i \in Behind'}
    BY <2>1 DEF FoundBehind
  <2>4. FoundBehind' = FoundBehind \cup Of(at, Verdict(Here))
    BY <2>2, <2>3 DEF FoundBehind, Here
  <2> QED BY <2>1, <2>4, Walked DEF IInv
<1>2. CASE PassOver
  <2>1. /\ pc = "walk" /\ at <= Len(corpus) /\ at \in Nat \ {0} /\ at' = at + 1
        /\ UNCHANGED <<corpus, findings, files, pc, code>> /\ ~Examined(Here)
    BY <1>2 DEF PassOver, Walking, IInv
  <2>2. Behind' = Behind
    <3>1. Behind' = {i \in 1 .. at' - 1 : Examined(corpus[i])} BY <2>1 DEF Behind
    <3>2. 1 .. at' - 1 = (1 .. at - 1) \cup {at} BY <2>1
    <3> QED BY <2>1, <3>1, <3>2 DEF Behind, Here
  <2>3. FoundBehind' = FoundBehind BY <2>1, <2>2 DEF FoundBehind
  <2> QED BY <2>1, <2>3, Walked DEF IInv
<1>3. CASE WalkFails
  BY <1>3, Walked DEF WalkFails, IInv
<1>4. CASE Exit
  <2>1. FoundBehind' = FoundBehind /\ HasFailures' = HasFailures
    BY <1>4 DEF Exit, FoundBehind, Behind, HasFailures
  <2> QED BY <1>4, <2>1 DEF Exit, IInv
<1>5. CASE UNCHANGED vars
  <2>1. FoundBehind' = FoundBehind /\ HasFailures' = HasFailures
    BY <1>5 DEF vars, FoundBehind, Behind, HasFailures
  <2> QED BY <1>5, <2>1 DEF vars, IInv
<1> QED BY <1>1, <1>2, <1>3, <1>4, <1>5, VerdictGiven DEF Next

(* The inductive invariant holds of every walk.                             *)
THEOREM Invariance == Spec => []IInv
<1>1. Init => IInv BY Start
<1>2. IInv /\ [Next]_vars => IInv' BY Step
<1> QED BY <1>1, <1>2, PTL DEF Spec

-----------------------------------------------------------------------------
(* What the recorder writes                                                 *)

(* A body is decoded to what it comes to after one look-up of `string`,     *)
(* when that is no mapping itself.                                          *)
LEMMA DecodeOnce ==
    ASSUME NEW v, NEW w, ~IsMap(w), w = IF IsMap(v) THEN Get(v, "string") ELSE v
    PROVE  DecodeBody(v) = IF w.kind = "string" THEN GunzipIfNeeded(w.is) ELSE None
<1> DEFINE Solves(g) ==
             g = [n \in 0 .. MaxNesting |->
                    IF n = 0 THEN v
                    ELSE IF IsMap(g[n - 1]) THEN Get(g[n - 1], "string") ELSE g[n - 1]]
           below == CHOOSE g : Solves(g)
<1>1. MaxNesting \in Nat /\ MaxNesting # 0 BY NestingAssumption
<1>2. Solves(below)
  <2> DEFINE g == [n \in 0 .. MaxNesting |-> IF n = 0 THEN v ELSE w]
  <2>1. ASSUME NEW n \in 0 .. MaxNesting, n # 0
        PROVE  w = IF IsMap(g[n - 1]) THEN Get(g[n - 1], "string") ELSE g[n - 1]
    <3>1. n - 1 \in 0 .. MaxNesting BY <1>1, <2>1
    <3>2. g[n - 1] = IF n - 1 = 0 THEN v ELSE w BY <3>1
    <3> QED BY <3>2
  <2>2. Solves(g) BY <2>1
  <2> QED BY <2>2
<1> HIDE DEF below
<1>3. ASSUME NEW n \in 0 .. MaxNesting
      PROVE  below[n] = IF n = 0 THEN v
                        ELSE IF IsMap(below[n - 1]) THEN Get(below[n - 1], "string")
                        ELSE below[n - 1]
  BY <1>2
<1>4. below[MaxNesting] = w
  <2> DEFINE T == {n \in 1 .. MaxNesting : below[n] # w}
  <2> SUFFICES ASSUME T # {} PROVE FALSE BY <1>1
  <2>1. T \subseteq Nat BY <1>1
  <2>2. PICK n \in T : \A m \in T : n <= m BY <2>1, LeastNat
  <2>3. n \in 1 .. MaxNesting /\ below[n] # w OBVIOUS
  <2>4. CASE n = 1 BY <1>1, <1>3, <2>3, <2>4
  <2>5. CASE n # 1
    <3>1. n - 1 \in 1 .. MaxNesting /\ ~(n <= n - 1) BY <1>1, <2>3, <2>5
    <3>2. below[n - 1] = w BY <2>2, <3>1
    <3> QED BY <1>1, <1>3, <2>3, <3>2
  <2> QED BY <2>4, <2>5
<1>5. DecodeBody(v) = IF below[MaxNesting].kind = "string"
                      THEN GunzipIfNeeded(below[MaxNesting].is) ELSE None
  BY DEF DecodeBody, below
<1> QED BY <1>4, <1>5

(* A sequence of mappings is kept whole.                                    *)
LEMMA MappingsKept ==
    ASSUME NEW S, NEW s \in Seq(S), \A i \in 1 .. Len(s) : IsMap(s[i])
    PROVE  Mappings(s) = s
<1> DEFINE Solves(g) ==
             g = [n \in 0 .. Len(s) |->
                    IF n = 0 THEN <<>>
                    ELSE IF IsMap(s[n]) THEN Append(g[n - 1], s[n]) ELSE g[n - 1]]
           kept == CHOOSE g : Solves(g)
           First(n) == [i \in 1 .. n |-> s[i]]
<1>1. Len(s) \in Nat OBVIOUS
<1>2. ASSUME NEW n \in 1 .. Len(s) PROVE Append(First(n - 1), s[n]) = First(n)
  <2>1. First(n - 1) \in Seq(S) /\ Len(First(n - 1)) = n - 1 BY <1>1
  <2> QED BY <2>1
<1>3. First(0) = <<>> /\ First(Len(s)) = s OBVIOUS
<1> HIDE DEF First
<1>4. Solves(kept)
  <2> DEFINE g == [n \in 0 .. Len(s) |-> First(n)]
  <2>1. ASSUME NEW n \in 0 .. Len(s)
        PROVE  First(n) = IF n = 0 THEN <<>>
                          ELSE IF IsMap(s[n]) THEN Append(g[n - 1], s[n]) ELSE g[n - 1]
    <3>1. CASE n = 0 BY <1>3, <3>1
    <3>2. CASE n # 0
      <4>1. n \in 1 .. Len(s) /\ n - 1 \in 0 .. Len(s) BY <1>1, <3>2
      <4> QED BY <1>2, <3>2, <4>1
    <3> QED BY <3>1, <3>2
  <2>2. Solves(g) BY <2>1
  <2> QED BY <2>2
<1> HIDE DEF kept
<1>5. ASSUME NEW n \in 0 .. Len(s)
      PROVE  kept[n] = IF n = 0 THEN <<>>
                       ELSE IF IsMap(s[n]) THEN Append(kept[n - 1], s[n]) ELSE kept[n - 1]
  BY <1>4
<1>6. kept[Len(s)] = First(Len(s))
  <2> DEFINE T == {n \in 0 .. Len(s) : kept[n] # First(n)}
  <2> SUFFICES ASSUME T # {} PROVE FALSE BY <1>1
  <2>1. T \subseteq Nat BY <1>1
  <2>2. PICK n \in T : \A m \in T : n <= m BY <2>1, LeastNat
  <2>3. n \in 0 .. Len(s) /\ kept[n] # First(n) OBVIOUS
  <2>4. CASE n = 0 BY <1>3, <1>5, <2>3, <2>4
  <2>5. CASE n # 0
    <3>1. n \in 1 .. Len(s) /\ n - 1 \in 0 .. Len(s) /\ ~(n <= n - 1)
      BY <1>1, <2>3, <2>5
    <3>2. kept[n - 1] = First(n - 1) BY <2>2, <3>1
    <3> QED BY <1>2, <1>5, <2>3, <2>5, <3>1, <3>2
  <2> QED BY <2>4, <2>5
<1>7. Mappings(s) = kept[Len(s)] BY DEF Mappings, kept
<1> QED BY <1>3, <1>6, <1>7

(* The exchange that InteractionDoc(x) is loaded as.                        *)
Reloaded(x) ==
    [method |-> x.method, uri |-> x.uri,
     request |-> LoadedBody(x.body), response |-> LoadedBody(x.answer)]

(* A body comes back unpacked from either side of an exchange.              *)
LEMMA BodyLoads ==
    ASSUME NEW b
    PROVE  /\ DecodeBody(BodyValue(b)) = LoadedBody(b)
           /\ DecodeBody(Map([string |-> BodyValue(b)])) = LoadedBody(b)
<1> DEFINE w == BodyValue(b)
<1>1. ~IsMap(w) BY DEF BodyValue, IsMap, Null, Str
<1>2. (IF w.kind = "string" THEN GunzipIfNeeded(w.is) ELSE None) = LoadedBody(b)
  BY DEF BodyValue, LoadedBody, Null, Str
<1>3. DecodeBody(w) = LoadedBody(b)
  <2> HIDE DEF w
  <2>1. w = IF IsMap(w) THEN Get(w, "string") ELSE w BY <1>1
  <2> QED BY <1>1, <1>2, <2>1, DecodeOnce
<1>4. DecodeBody(Map([string |-> w])) = LoadedBody(b)
  <2> HIDE DEF w
  <2>1. IsMap(Map([string |-> w])) /\ Get(Map([string |-> w]), "string") = w
    BY DEF IsMap, Map, Get
  <2> QED BY <1>1, <1>2, <2>1, DecodeOnce
<1> QED BY <1>3, <1>4

(* So does the exchange.                                                    *)
LEMMA ExchangeLoads ==
    ASSUME NEW x
    PROVE  LET doc == InteractionDoc(x)
           IN /\ IsMap(doc)
              /\ BuildInteraction(Get(doc, "request"), Get(doc, "response")) = Reloaded(x)
<1> DEFINE doc == InteractionDoc(x)
           req == [body |-> BodyValue(x.body), headers |-> HeadersDoc(x.request),
                   method |-> Str(x.method), uri |-> Str(x.uri)]
           resp == [body |-> Map([string |-> BodyValue(x.answer)]),
                    headers |-> HeadersDoc(x.response)]
<1>1. IsMap(doc) /\ Get(doc, "request") = Map(req) /\ Get(doc, "response") = Map(resp)
  BY DEF InteractionDoc, IsMap, Map, Get
<1>2. /\ Get(Map(req), "method") = Str(x.method) /\ Get(Map(req), "uri") = Str(x.uri)
      /\ Get(Map(req), "body") = BodyValue(x.body)
      /\ Get(Map(resp), "body") = Map([string |-> BodyValue(x.answer)])
  BY DEF Map, Get
<1>3. StringOf(Str(x.method)) = x.method /\ StringOf(Str(x.uri)) = x.uri
  BY DEF StringOf, Str
<1> QED BY <1>1, <1>2, <1>3, BodyLoads DEF BuildInteraction, Reloaded

(* And so does the file: the same exchanges in the same order.              *)
LEMMA FileLoads ==
    ASSUME NEW S, NEW exchanges \in Seq(S), NEW time
    PROVE  Interactions(FileDoc(time, exchanges)) =
              [n \in DOMAIN exchanges |-> Reloaded(exchanges[n])]
<1> DEFINE doc == FileDoc(time, exchanges)
           items == [n \in DOMAIN exchanges |-> InteractionDoc(exchanges[n])]
<1>1. Get(doc, "interactions") = List(items) BY DEF FileDoc, Map, Get
<1>2. Get(doc, "interactions").kind = "list" /\ Items(Get(doc, "interactions")) = items
  BY <1>1 DEF List, Items
<1>3. DOMAIN exchanges = 1 .. Len(exchanges) /\ Len(exchanges) \in Nat OBVIOUS
<1>4. items \in Seq({items[n] : n \in DOMAIN exchanges}) /\ Len(items) = Len(exchanges)
  BY <1>3
<1>5. \A n \in 1 .. Len(items) : IsMap(items[n]) BY <1>3, <1>4, ExchangeLoads
<1>6. Mappings(items) = items BY <1>4, <1>5, MappingsKept
<1>7. Interactions(doc) =
         [n \in DOMAIN items |->
            BuildInteraction(Get(items[n], "request"), Get(items[n], "response"))]
  BY <1>2, <1>6 DEF Interactions
<1>8. ASSUME NEW n \in DOMAIN exchanges
      PROVE  BuildInteraction(Get(items[n], "request"), Get(items[n], "response"))
                = Reloaded(exchanges[n])
  BY ExchangeLoads
<1> QED BY <1>7, <1>8

(* verify objects to a header of a section when the section's headers are   *)
(* what the recorder's rules leave of h, and h shows something.             *)
LEMMA HeadersJudged ==
    ASSUME NEW f, Recorded(f), NEW h, HeadersWritten(f.rules, h),
           NEW section, Get(section, "headers") = HeadersDoc(h)
    PROVE  ~AllScrubbed(section) <=> TraceShows(f.rules, h) \/ ForeignSecret(h)
<1> DEFINE values(name) == List([i \in DOMAIN h[name] |-> Str(h[name][i])])
           rules == f.rules
           marks == TraceMarkers \cup {Redacted}
<1>1. HeadersDoc(h).kind = "map" /\ HeadersDoc(h).at = [name \in DOMAIN h |-> values(name)]
  BY DEF HeadersDoc, Map
<1>2. ASSUME NEW name \in DOMAIN h PROVE Strings(values(name)) = ToSet(h[name])
  <2>1. values(name).kind = "list"
        /\ Items(values(name)) = [i \in DOMAIN h[name] |-> Str(h[name][i])]
    BY DEF List, Items
  <2>2. \A s : Str(s).kind = "string" /\ Str(s).is = s BY DEF Str
  <2>3. ASSUME NEW s \in Strings(values(name)) PROVE s \in ToSet(h[name])
    <3>1. PICK v \in {values(name)} \cup ToSet(Items(values(name))) :
                 v.kind = "string" /\ s = v.is
      BY DEF Strings
    <3>2. PICK i \in DOMAIN h[name] : v = Str(h[name][i]) BY <2>1, <3>1 DEF ToSet
    <3> QED BY <2>2, <3>1, <3>2 DEF ToSet
  <2>4. ASSUME NEW s \in ToSet(h[name]) PROVE s \in Strings(values(name))
    <3>1. PICK i \in DOMAIN h[name] : s = h[name][i] BY DEF ToSet
    <3>2. Str(s) \in ToSet(Items(values(name))) BY <2>1, <3>1 DEF ToSet
    <3> QED BY <2>2, <3>2 DEF Strings
  <2> QED BY <2>3, <2>4
<1> HIDE DEF values
<1>3. AllScrubbed(section) <=> \A name \in DOMAIN h : \A s \in ToSet(h[name]) : Scrubbed(name, s)
  BY <1>1, <1>2 DEF AllScrubbed
<1>4. CredentialHeaders \subseteq rules.credential /\ TraceHeaders \subseteq rules.trace
      /\ rules.short \in BOOLEAN
  BY DEF Recorded
<1>5. \A s : IsMarked(s) <=> s \in marks BY DEF IsMarked
<1> DEFINE Written(name) ==
             /\ name \in rules.credential => h[name] = <<Redacted>>
             /\ name \in rules.trace \ (rules.credential \cup DOMAIN rules.overrides) =>
                   rules.short \/ ToSet(h[name]) \subseteq marks
<1>6. \A name \in DOMAIN h : Written(name) BY DEF HeadersWritten
<1>7. ToSet(<<Redacted>>) = {Redacted} BY DEF ToSet
<1> HIDE DEF rules, marks
<1>8. ASSUME NEW name \in DOMAIN h, NEW s \in ToSet(h[name]), ~Scrubbed(name, s)
      PROVE  TraceShows(f.rules, h) \/ ForeignSecret(h)
  <2>1. name \notin CredentialHeaders
    <3>1. CASE name \in CredentialHeaders
      <4>1. ToSet(h[name]) = {Redacted} BY <1>4, <1>6, <1>7, <3>1
      <4>2. s = Redacted => Scrubbed(name, s) BY <3>1 DEF Scrubbed
      <4> QED BY <1>8, <4>1, <4>2
    <3> QED BY <3>1
  <2>2. CASE name \in TraceHeaders
    <3>1. s \notin marks BY <1>5, <1>8, <2>1, <2>2 DEF Scrubbed
    <3>2. name \notin rules.credential
      <4>1. CASE name \in rules.credential
        <5>1. ToSet(h[name]) = {Redacted} BY <1>6, <1>7, <4>1
        <5> QED BY <3>1, <5>1 DEF marks
      <4> QED BY <4>1
    <3>3. ~(ToSet(h[name]) \subseteq marks) BY <3>1
    <3>4. name \in DOMAIN rules.overrides \/ rules.short BY <1>4, <1>6, <2>2, <3>2, <3>3
    <3> QED BY <2>2, <3>2, <3>3, <3>4 DEF TraceShows, rules, marks
  <2>3. CASE name \notin TraceHeaders
    <3>1. s \in SecretShaped BY <1>8, <2>1, <2>3 DEF Scrubbed
    <3> QED BY <2>1, <2>3, <3>1 DEF ForeignSecret
  <2> QED BY <2>2, <2>3
<1>9. ASSUME TraceShows(f.rules, h)
      PROVE  \E name \in DOMAIN h : \E s \in ToSet(h[name]) : ~Scrubbed(name, s)
  <2>1. PICK name \in (DOMAIN h \cap TraceHeaders) \ rules.credential :
               ~(ToSet(h[name]) \subseteq marks)
    BY <1>9 DEF TraceShows, rules, marks
  <2>2. PICK s \in ToSet(h[name]) : s \notin marks BY <2>1
  <2>3. name \notin CredentialHeaders BY <1>4, <2>1
  <2>4. ~Scrubbed(name, s) BY <1>5, <2>1, <2>2, <2>3 DEF Scrubbed
  <2> QED BY <2>1, <2>2, <2>4
<1>10. ASSUME ForeignSecret(h)
       PROVE  \E name \in DOMAIN h : \E s \in ToSet(h[name]) : ~Scrubbed(name, s)
  BY <1>10 DEF ForeignSecret, Scrubbed
<1> QED BY <1>3, <1>8, <1>9, <1>10

(* A FAIL of an interaction.                                                *)
LEMMA InteractionJudged ==
    ASSUME NEW it
    PROVE  (\E g \in CheckInteraction(it) : g.level = "FAIL") <=>
              it.uri \notin Hosted \/ {it.uri, it.request, it.response} \cap SecretShaped # {}
<1>1. \A about : Warn(about).level = "WARN" /\ Fail(about).level = "FAIL" BY DEF Warn, Fail
<1>2. CASE it.uri \notin Hosted
  <2>1. CheckInteraction(it) = {Fail("URI")} BY <1>2 DEF CheckInteraction
  <2> QED BY <1>1, <1>2, <2>1
<1>3. CASE it.uri \in Hosted /\ {it.uri, it.request, it.response} \cap SecretShaped # {}
  <2>1. CASE {it.request, it.uri} \cap SecretShaped # {}
    <3>1. Fail("request") \in CheckInteraction(it) BY <1>3, <2>1 DEF CheckInteraction, When
    <3> QED BY <1>1, <1>3, <3>1
  <2>2. CASE it.response \in SecretShaped
    <3>1. Fail("response") \in CheckInteraction(it)
      BY <1>3, <2>2 DEF CheckInteraction, CheckResponse, When
    <3> QED BY <1>1, <1>3, <3>1
  <2> QED BY <1>3, <2>1, <2>2
<1>4. CASE it.uri \in Hosted /\ {it.uri, it.request, it.response} \cap SecretShaped = {}
  <2>1. CheckInteraction(it) \subseteq
           {Warn("URI"), Warn("placeholder id"), Warn("epoch placeholder"), Warn("usage")}
    BY <1>4 DEF CheckInteraction, CheckResponse, CheckUsage, When
  <2> QED BY <1>1, <1>4, <2>1
<1> QED BY <1>2, <1>3, <1>4

(* What the recorder writes gets a FAIL when it is at fault, and only then. *)
LEMMA RecordedVerdict ==
    ASSUME NEW f, f.recorded \in Seq(ToSet(f.recorded)), f.recorded # <<>>, Recorded(f),
           f.reads = 2
    PROVE  (\E g \in Verdict(f) : g.level = "FAIL") <=> Faulty(f)
<1> DEFINE time == f.clock
           items == [n \in DOMAIN f.recorded |-> InteractionDoc(f.recorded[n])]
           ThatFails(found) == \E g \in found : g.level = "FAIL"
<1>1. f.doc = FileDoc(time, f.recorded) /\ time \in DOMAIN DaysFromNow BY DEF Recorded
<1> HIDE DEF time
<1>2. /\ f.doc.kind = "map"
      /\ Get(f.doc, "interactions") = List(items)
      /\ Get(f.doc, "meta") = Map([recorded_at |-> Str(time)])
      /\ Get(f.doc, "requests") = Null /\ Get(f.doc, "responses") = Null
  BY <1>1 DEF FileDoc, Map, Get
<1>3. Interactions(f.doc) = [n \in DOMAIN f.recorded |-> Reloaded(f.recorded[n])]
  BY <1>1, FileLoads
<1>4. Loads(f) /\ ~IsEmpty(f)
  <2>1. Loads(f) BY <1>2 DEF Loads, Parses
  <2>2. 1 \in DOMAIN f.recorded OBVIOUS
  <2>3. Interactions(f.doc) # <<>> BY <1>3, <2>2
  <2> QED BY <2>1, <2>3 DEF IsEmpty
<1>5. RawDoc(f) = f.doc BY DEF RawDoc, Recorded
<1>6. \A about : Warn(about).level = "WARN" /\ Fail(about).level = "FAIL" BY DEF Warn, Fail
<1> DEFINE Shows(x) ==
             \E h \in {x.request, x.response} : TraceShows(f.rules, h) \/ ForeignSecret(h)
<1>7. ThatFails(CheckHeaders(f)) <=> \E x \in ToSet(f.recorded) : Shows(x)
  <2>1. SideBySide(f.doc) = {} BY <1>2 DEF SideBySide, Items, Null, ToSet
  <2>2. Sections(f.doc) = Exchanged(f.doc) BY <2>1 DEF Sections
  <2>3. Items(Get(f.doc, "interactions")) = items BY <1>2 DEF Items, List
  <2>4. ASSUME NEW n \in DOMAIN f.recorded, NEW part \in {"request", "response"}
        PROVE  LET h == f.recorded[n][part]
               IN ~AllScrubbed(Get(InteractionDoc(f.recorded[n]), part)) <=>
                     TraceShows(f.rules, h) \/ ForeignSecret(h)
    <3> DEFINE x == f.recorded[n]
    <3>1. HeadersWritten(f.rules, x.request) /\ HeadersWritten(f.rules, x.response)
      BY DEF Recorded, ToSet
    <3>2. Get(Get(InteractionDoc(x), "request"), "headers") = HeadersDoc(x.request)
          /\ Get(Get(InteractionDoc(x), "response"), "headers") = HeadersDoc(x.response)
      BY DEF InteractionDoc, Map, Get
    <3> HIDE DEF x
    <3>3. CASE part = "request"
      <4>1. ~AllScrubbed(Get(InteractionDoc(x), "request")) <=>
               TraceShows(f.rules, x.request) \/ ForeignSecret(x.request)
        BY <3>1, <3>2, HeadersJudged
      <4> QED BY <3>3, <4>1 DEF x
    <3>4. CASE part = "response"
      <4>1. ~AllScrubbed(Get(InteractionDoc(x), "response")) <=>
               TraceShows(f.rules, x.response) \/ ForeignSecret(x.response)
        BY <3>1, <3>2, HeadersJudged
      <4> QED BY <3>4, <4>1 DEF x
    <3> QED BY <3>3, <3>4
  <2>5. (\E s \in Exchanged(f.doc) : ~AllScrubbed(s)) <=>
           \E n \in DOMAIN f.recorded : \E part \in {"request", "response"} :
              ~AllScrubbed(Get(InteractionDoc(f.recorded[n]), part))
    <3>1. \A v : v \in ToSet(items) <=> \E n \in DOMAIN f.recorded : v = InteractionDoc(f.recorded[n])
      BY DEF ToSet
    <3> HIDE DEF items
    <3> QED BY <2>3, <3>1 DEF Exchanged
  <2>6. (\E s \in Exchanged(f.doc) : ~AllScrubbed(s)) <=>
           \E n \in DOMAIN f.recorded : Shows(f.recorded[n])
    BY <2>4, <2>5
  <2>7. (\E s \in Exchanged(f.doc) : ~AllScrubbed(s)) <=> \E x \in ToSet(f.recorded) : Shows(x)
    <3> HIDE DEF Shows
    <3> QED BY <2>6 DEF ToSet
  <2> HIDE DEF Shows
  <2> QED BY <1>2, <1>5, <1>6, <2>2, <2>7 DEF CheckHeaders, When, Parses
<1>8. ThatFails(CheckMeta(f)) <=> DaysFromNow[time] > 1 \/ DaysFromNow[time] < Year2020
  <2>1. Get(Map([recorded_at |-> Str(time)]), "recorded_at") = Str(time)
        /\ Map([recorded_at |-> Str(time)]).kind = "map"
    BY DEF Map, Get
  <2>2. Str(time).kind = "string" /\ StringOf(Str(time)) = time BY DEF Str, StringOf
  <2>3. HasMeta(f) BY <1>2, <1>5, <2>1, <2>2 DEF HasMeta
  <2>4. RecordedAt(f) = time BY <1>2, <1>5, <2>1, <2>2 DEF RecordedAt
  <2>5. ~Possible(time) <=> DaysFromNow[time] > 1 \/ DaysFromNow[time] < Year2020
    BY <1>1, ClockAssumption DEF Possible
  <2> QED BY <1>6, <2>3, <2>4, <2>5 DEF CheckMeta, When
<1> DEFINE Amiss(x) == \/ x.uri \notin Hosted
                       \/ {x.uri, LoadedBody(x.body), LoadedBody(x.answer)} \cap SecretShaped # {}
<1>9. ASSUME NEW x PROVE ThatFails(CheckInteraction(Reloaded(x))) <=> Amiss(x)
  BY InteractionJudged DEF Reloaded
<1>10. ThatFails(UNION {CheckInteraction(it) : it \in ToSet(Interactions(f.doc))}) <=>
          \E x \in ToSet(f.recorded) : Amiss(x)
  <2> HIDE DEF Amiss
  <2>1. ToSet(Interactions(f.doc)) = {Reloaded(x) : x \in ToSet(f.recorded)} BY <1>3 DEF ToSet
  <2> QED BY <1>9, <2>1
<1>11. ThatFails(When(f.patterns /\ ~f.gz, Fail("pattern"))) <=> f.patterns
  BY <1>6 DEF When, Recorded
<1>12. Verdict(f) = ((When(f.patterns /\ ~f.gz, Fail("pattern")) \cup CheckHeaders(f)) \cup CheckMeta(f))
          \cup UNION {CheckInteraction(it) : it \in ToSet(Interactions(f.doc))}
  BY <1>4 DEF Verdict, Checks
<1>13. \A A, B : ThatFails(A \cup B) <=> ThatFails(A) \/ ThatFails(B) OBVIOUS
<1>14. ThatFails(Verdict(f)) <=>
          \/ f.patterns \/ DaysFromNow[time] > 1 \/ DaysFromNow[time] < Year2020
          \/ \E x \in ToSet(f.recorded) : Shows(x)
          \/ \E x \in ToSet(f.recorded) : Amiss(x)
  <2> DEFINE P == When(f.patterns /\ ~f.gz, Fail("pattern"))
             H == CheckHeaders(f)
             M == CheckMeta(f)
             I == UNION {CheckInteraction(it) : it \in ToSet(Interactions(f.doc))}
  <2>1. ThatFails(P \cup H \cup M \cup I)
           <=> ThatFails(P) \/ ThatFails(H) \/ ThatFails(M) \/ ThatFails(I)
    <3> HIDE DEF P, H, M, I
    <3> QED BY <1>13
  <2>2. Verdict(f) = P \cup H \cup M \cup I BY <1>12
  <2> HIDE DEF ThatFails, Shows, Amiss
  <2> QED BY <1>7, <1>8, <1>10, <1>11, <2>1, <2>2
<1> HIDE DEF ThatFails
<1>15. Faulty(f) <=>
          \/ f.patterns \/ DaysFromNow[time] > 1 \/ DaysFromNow[time] < Year2020
          \/ \E x \in ToSet(f.recorded) : Shows(x) \/ Amiss(x)
  BY DEF Faulty, time
<1> HIDE DEF Shows, Amiss
<1> QED BY <1>14, <1>15 DEF ThatFails

-----------------------------------------------------------------------------
(* The theorems                                                             *)

(* Of a directory that passes, each cassette has been checked to the end,   *)
(* its findings are all there, and none of them is a FAIL.                  *)
LEMMA PassedVerdict ==
    ASSUME IInv, Passed, NEW i \in Cassettes
    PROVE  /\ Loads(corpus[i]) /\ Interactions(corpus[i].doc) # <<>>
           /\ Fail("header") \notin CheckHeaders(corpus[i])
           /\ \A it \in ToSet(Interactions(corpus[i].doc)) :
                 \A g \in CheckInteraction(it) : g.level # "FAIL"
           /\ Of(i, Checks(corpus[i])) \subseteq findings
<1>1. i \in 1 .. at - 1 /\ i \in DOMAIN corpus /\ IsCassette(corpus[i])
  BY Walked DEF IInv, Cassettes
<1>2. i \in Behind BY <1>1 DEF Behind, Examined, IsCassette
<1>3. Of(i, Verdict(corpus[i])) \subseteq findings BY <1>2 DEF FoundBehind, IInv
<1>4. ASSUME NEW g \in Verdict(corpus[i]) PROVE g.level # "FAIL"
  <2>1. [file |-> i, level |-> g.level, about |-> g.about] \in findings BY <1>3 DEF Of
  <2> QED BY <2>1 DEF IInv, HasFailures
<1>5. Fail("unparseable").level = "FAIL" /\ Fail("no interactions").level = "FAIL"
      /\ Fail("unreadable").level = "FAIL" /\ Fail("header").level = "FAIL"
  BY DEF Fail
<1>6. Loads(corpus[i]) /\ ~IsEmpty(corpus[i]) /\ Verdict(corpus[i]) = Checks(corpus[i])
  BY <1>4, <1>5 DEF Verdict
<1> QED BY <1>3, <1>4, <1>5, <1>6 DEF IsEmpty, Checks

(* Every state of a walk is of the declared types.                          *)
THEOREM TypeCorrect == Spec => []TypeOK
<1>1. IInv => TypeOK
  <2> SUFFICES ASSUME IInv PROVE TypeOK OBVIOUS
  <2>1. ASSUME NEW g \in FoundBehind
        PROVE  g \in [file : 1 .. at - 1, level : {"FAIL", "WARN"}, about : Kinds]
    <3>1. PICK i \in Behind : g \in Of(i, Verdict(corpus[i])) BY DEF FoundBehind
    <3>2. i \in 1 .. at - 1 BY DEF Behind
    <3> QED BY <3>1, <3>2, VerdictKinds DEF Of
  <2>2. findings \subseteq [file : 1 .. at - 1, level : {"FAIL", "WARN"}, about : Kinds]
    BY <2>1 DEF IInv
  <2> QED BY <2>2 DEF IInv, TypeOK, Kinds
<1> QED BY <1>1, Invariance, PTL

(* A directory that passes can be replayed: LoadDir loads all of it, and    *)
(* each cassette gives interactions with a host (Dir, fileAt).              *)
THEOREM Replayable == Spec => []PassedLoads
<1>1. IInv => PassedLoads
  <2> SUFFICES ASSUME IInv, Passed PROVE PassedLoads BY DEF PassedLoads
  <2>1. LoadsDir(corpus) BY PassedVerdict DEF LoadsDir, Cassettes
  <2>2. ASSUME NEW i \in Cassettes, NEW it \in ToSet(Interactions(corpus[i].doc))
        PROVE  it.uri \in Hosted
    BY PassedVerdict DEF CheckInteraction, Fail
  <2> QED BY <2>1, <2>2, PassedVerdict DEF PassedLoads
<1> QED BY <1>1, Invariance, PTL

(* Of a directory that passes, nothing Load returns is secret-shaped and no *)
(* header beside it unscrubbed, whichever of the formats a file is in.      *)
THEOREM Scrubbing == Spec => []PassedIsScrubbed
<1>1. IInv => PassedIsScrubbed
  <2> SUFFICES ASSUME IInv, Passed PROVE PassedIsScrubbed BY DEF PassedIsScrubbed
  <2>1. ASSUME NEW i \in Cassettes, NEW it \in ToSet(Interactions(corpus[i].doc))
        PROVE  {it.uri, it.request, it.response} \cap SecretShaped = {}
    <3>1. \A g \in CheckInteraction(it) : g.level # "FAIL" BY PassedVerdict
    <3>2. Fail("URI").level = "FAIL" /\ Fail("request").level = "FAIL"
          /\ Fail("response").level = "FAIL"
      BY DEF Fail
    <3>3. {it.request, it.uri} \cap SecretShaped = {}
      BY <3>1, <3>2 DEF CheckInteraction, When
    <3>4. it.response \notin SecretShaped
      BY <3>1, <3>2 DEF CheckInteraction, CheckResponse, When
    <3> QED BY <3>3, <3>4
  <2>2. ASSUME NEW i \in Cassettes, ~corpus[i].gz,
               NEW s \in LoadedSections(corpus[i].doc)
        PROVE  AllScrubbed(s)
    <3>1. RawDoc(corpus[i]) = corpus[i].doc BY <2>2 DEF RawDoc
    <3>2. Parses(corpus[i].doc) BY PassedVerdict DEF Loads
    <3>3. s \in Sections(corpus[i].doc) BY DEF LoadedSections, Sections
    <3> QED BY <3>1, <3>2, <3>3, PassedVerdict DEF CheckHeaders, When
  <2> QED BY <2>1, <2>2 DEF PassedIsScrubbed
<1> QED BY <1>1, Invariance, PTL

(* A directory that passes has a warning for every sign of synthetic data   *)
(* in any response of it (checkUsage included).                             *)
THEOREM Surfacing == Spec => []SignsSurface
<1>1. IInv => SignsSurface
  <2> SUFFICES ASSUME IInv, Passed, NEW i \in Cassettes,
                      NEW it \in ToSet(Interactions(corpus[i].doc)),
                      NEW sign \in Signs(it.response)
               PROVE  [file |-> i, level |-> "WARN", about |-> sign] \in findings
    BY DEF SignsSurface
  <2>1. it.uri \in Hosted BY PassedVerdict DEF CheckInteraction, Fail
  <2>2. Warn(sign) \in CheckResponse(it.response)
    BY DEF Signs, CheckResponse, CheckUsage, Documents, When, ToSet
  <2>3. Warn(sign) \in Checks(corpus[i]) BY <2>1, <2>2 DEF Checks, CheckInteraction
  <2>4. [file |-> i, level |-> "WARN", about |-> sign] \in Of(i, Checks(corpus[i]))
    BY <2>3 DEF Of, Warn
  <2> QED BY <2>4, PassedVerdict
<1> QED BY <1>1, Invariance, PTL

(* What the recorder writes gets a FAIL for the reasons RecordingsJudged     *)
(* names and no other, whatever is in the files around it, and cannot pass  *)
(* with any of them.                                                        *)
THEOREM Judgement == Spec => []RecordingsJudged
<1>1. IInv => RecordingsJudged
  <2> SUFFICES ASSUME IInv, NEW i \in Cassettes, corpus[i].recorded # <<>>, corpus[i].reads = 2
               PROVE  /\ (\E f \in findings : f.file = i /\ f.level = "FAIL") => Faulty(corpus[i])
                      /\ Passed => ~Faulty(corpus[i])
    BY DEF RecordingsJudged
  <2>1. corpus[i] \in ToSet(corpus) BY DEF Cassettes, ToSet
  <2>2. /\ corpus[i].recorded \in Seq(ToSet(corpus[i].recorded))
        /\ Recorded(corpus[i])
    BY <2>1, CorporaAssumption DEF IInv
  <2>3. (\E v \in Verdict(corpus[i]) : v.level = "FAIL") <=> Faulty(corpus[i])
    BY <2>2, RecordedVerdict
  <2>4. ASSUME NEW g \in findings, g.file = i, g.level = "FAIL" PROVE Faulty(corpus[i])
    <3>1. g \in FoundBehind BY DEF IInv
    <3>2. PICK j \in Behind : g \in Of(j, Verdict(corpus[j])) BY <3>1 DEF FoundBehind
    <3> QED BY <2>3, <2>4, <3>2 DEF Of
  <2>5. ASSUME Passed PROVE ~Faulty(corpus[i])
    <3>1. i \in Behind BY <2>5, Walked DEF IInv, Cassettes, Behind, Examined, IsCassette
    <3>2. Of(i, Verdict(corpus[i])) \subseteq findings BY <2>5, <3>1 DEF FoundBehind, IInv
    <3>3. ASSUME NEW v \in Verdict(corpus[i]), v.level = "FAIL" PROVE FALSE
      <4>1. [file |-> i, level |-> v.level, about |-> v.about] \in findings BY <3>2 DEF Of
      <4> QED BY <2>5, <3>3, <4>1 DEF IInv, HasFailures
    <3> QED BY <2>3, <3>3
  <2> QED BY <2>4, <2>5
<1> QED BY <1>1, Invariance, PTL

(* And loads back: writing and loading a file of any exchanges are inverse, *)
(* but for what gunzip makes of a body (WriteFile, Load).                   *)
THEOREM RoundTrip == Spec => []RecordedLoadsBack
<1>1. IInv => RecordedLoadsBack
  <2> SUFFICES ASSUME IInv, NEW i \in Cassettes, corpus[i].recorded # <<>>
               PROVE  Interactions(corpus[i].doc) =
                         [n \in DOMAIN corpus[i].recorded |-> Reloaded(corpus[i].recorded[n])]
    BY DEF RecordedLoadsBack, Reloaded
  <2>1. corpus[i] \in ToSet(corpus) BY DEF Cassettes, ToSet
  <2>2. /\ corpus[i].recorded \in Seq(ToSet(corpus[i].recorded))
        /\ Recorded(corpus[i])
    BY <2>1, CorporaAssumption DEF IInv
  <2> QED BY <2>2, FileLoads DEF Recorded
<1> QED BY <1>1, Invariance, PTL
=============================================================================
