------------------------------ MODULE Scrubber ------------------------------
(***************************************************************************)
(* internal/redact: what a recording keeps of the text of an exchange.  One *)
(* Scrubber takes the exchanges of a recording one after another (Recorder  *)
(* has them at the same time) and writes a copy of each in which            *)
(* credentials, secrets and trace identifiers are replaced.                 *)
(*                                                                          *)
(* A text is a sequence of symbols.  A symbol of the exchange stands for a  *)
(* run of characters of a known width that no other symbol shares a         *)
(* character with; a marker the scrubber writes is one symbol.  Header      *)
(* names are in lower case, and header values carry no space around them    *)
(* (net/http trims those of a response, buildRequest those of a request).   *)
(***************************************************************************)
EXTENDS Naturals, FiniteSets, Sequences, SequencesExt

CONSTANTS Policies,      \* what the Rules of a recording may be made from
          Exchanges,     \* the exchanges it may see, in order: Exchanges[i]
                         \* is the set of those that may be the i-th
          WidthOf,       \* bytes of a symbol of an exchange
          EscapeOf,      \* its url.QueryEscape spelling
          Baseline       \* the profile of baseline.yaml

VARIABLES rules,         \* Rules
          traceValues,   \* Scrubber.traceValues: text -> marker number
          nextTrace,     \* Scrubber.nextTrace
          log            \* the exchanges, each with its recorded copy

vars == <<rules, traceValues, nextTrace, log>>

-----------------------------------------------------------------------------
(* Texts                                                                    *)

Char(c) == [char |-> c, mark |-> 0]
TraceMarker(n) == [char |-> "**TRACE_ID_n**", mark |-> n]
TraceRedacted == [char |-> "**TRACE_ID**", mark |-> 0]
Redacted == [char |-> "**REDACTED**", mark |-> 0]

Text(chars) == [i \in DOMAIN chars |-> Char(chars[i])]

Width(t) ==
    LET upTo[n \in 0 .. Len(t)] == IF n = 0 THEN 0 ELSE upTo[n - 1] + WidthOf[t[n].char]
    IN upTo[Len(t)]

QueryEscape(t) == [i \in DOMAIN t |-> Char(EscapeOf[t[i].char])]

StandsAt(t, i, old) ==
    /\ i + Len(old) - 1 <= Len(t)
    /\ \A k \in DOMAIN old : t[i + k - 1] = old[k]

Occurs(t, old) == \E i \in DOMAIN t : StandsAt(t, i, old)

(* Mutant: only the first occurrence is replaced.                           *)
ReplaceFirst(t, old, new) ==
    LET at == {i \in DOMAIN t : StandsAt(t, i, old)}
    IN IF at = {} THEN t
       ELSE LET i == CHOOSE i \in at : \A k \in at : i <= k
            IN SubSeq(t, 1, i - 1) \o new \o SubSeq(t, i + Len(old), Len(t))

(* Regexp.ReplaceAllString, the pattern being the texts it matches; where   *)
(* several stand, any may be taken.                                         *)
ReplaceMatches(t, matches, new) ==
    LET rest[i \in 1 .. Len(t) + 1] ==
          IF i > Len(t) THEN <<>>
          ELSE IF \E m \in matches : StandsAt(t, i, m)
               THEN new \o rest[i + Len(CHOOSE m \in matches : StandsAt(t, i, m))]
          ELSE <<t[i]>> \o rest[i + 1]
    IN rest[1]

(* strings.ReplaceAll.                                                      *)
ReplaceText(t, old, new) == ReplaceMatches(t, {old}, new)

(* strings.Split                                                            *)
Split(t, sep) ==
    LET cuts == {0, Len(t) + 1} \cup {i \in DOMAIN t : t[i] = Char(sep)}
        cut(k) == CHOOSE i \in cuts : Cardinality({j \in cuts : j < i}) = k
    IN [k \in 1 .. Cardinality(cuts) - 1 |-> SubSeq(t, cut(k - 1) + 1, cut(k) - 1)]

(* strings.Cut, where sep is found.                                         *)
Before(t, sep) == Split(t, sep)[1]
After(t, sep) == SubSeq(t, Len(Before(t, sep)) + 2, Len(t))
Has(t, sep) == Occurs(t, <<Char(sep)>>)

-----------------------------------------------------------------------------
(* More mutants: faults the properties below are to notice.                 *)

(* Every value found is propagated, however short.                          *)
AnyWidth(t) == TRUE

(* A value is replaced before those that contain it.                        *)
ShortestFirst(values) ==
    {o \in SetToSeqs(values) :
        \A i, j \in DOMAIN o : i < j => Width(o[i]) <= Width(o[j])}

(* Only the plain spelling is replaced.                                     *)
PlainOnly(t, old, new, escaped) == ReplaceText(t, old, new)

(* Each exchange numbers its identifiers from one.                          *)
NumberFromOne(news) == [v \in news |-> CHOOSE n \in 1 .. Len(SetToSeq(news)) :
                                          SetToSeq(news)[n] = v]

-----------------------------------------------------------------------------
(* Rules: the baseline, overlaid with the profile of the vendor, to which   *)
(* record adds the headers named by --scrub-header, the parameter that has  *)
(* the key, and the key.                                                    *)

NoRules ==
    [credential |-> {}, trace |-> {}, params |-> {}, secrets |-> <<>>,
     overrides |-> [name \in {} |-> <<>>], replacements |-> <<>>]

(* "exactly one of header/find/pattern", and something to put there         *)
WellFormed(rp) ==
    /\ rp.with # <<>>
    /\ LET given == <<rp.header # "", rp.find # <<>>, rp.pattern # {}>>
       IN Cardinality({k \in DOMAIN given : given[k]}) = 1

ScopeSet(in) == IF in = {} THEN {"header", "uri", "body"} ELSE in

(* The last override of a header counts; the others apply in order.         *)
AddReplacement(r, rp) ==
    IF rp.header # "" THEN [r EXCEPT !.overrides = (rp.header :> rp.with) @@ @]
    ELSE [r EXCEPT !.replacements =
            Append(@, [matches |-> IF rp.find # <<>> THEN {rp.find} ELSE rp.pattern,
                       with |-> rp.with, scopes |-> ScopeSet(rp.in)])]

Merge(r, profile) ==
    FoldLeft(AddReplacement,
             [r EXCEPT !.credential = @ \cup profile.credential,
                       !.trace = @ \cup profile.trace,
                       !.params = @ \cup profile.params],
             profile.replacements)

BuiltRules(policy) ==
    [Merge(Merge(NoRules, Baseline), policy.profile) EXCEPT
        !.credential = @ \cup policy.scrub, !.params = @ \cup policy.param,
        !.secrets = policy.secrets]

(* A profile that is not well-formed fails before anything is recorded.     *)
RuleSets ==
    {BuiltRules(policy) : policy \in
        {q \in Policies : \A rp \in ToSet(q.profile.replacements) : WellFormed(rp)}}

(* Texts are of symbols of an exchange, of which no marker is one.  A       *)
(* secret is not empty (AddSecret), nor is what a rule finds.               *)
Symbols == {Char(c) : c \in DOMAIN WidthOf}

Plain == Seq(Symbols)

ASSUME TextsAssumption ==
    /\ \A c \in DOMAIN WidthOf : WidthOf[c] \in Nat \ {0} /\ EscapeOf[c] \in DOMAIN WidthOf
    /\ {"**TRACE_ID**", "**REDACTED**"} \cap DOMAIN WidthOf = {}
    /\ {"https://", "/", "?", "&", "="} \subseteq DOMAIN WidthOf

ASSUME RulesAssumption ==
    \A r \in RuleSets :
       /\ r.secrets \in Seq(Plain \ {<<>>})
       /\ \A name \in DOMAIN r.overrides : r.overrides[name] \in Plain
       /\ DOMAIN r.replacements = 1 .. Len(r.replacements) /\ Len(r.replacements) \in Nat
       /\ \A i \in DOMAIN r.replacements :
             /\ \A m \in r.replacements[i].matches : m \in Plain /\ m # <<>>
             /\ r.replacements[i].with \in Plain /\ r.replacements[i].with # <<>>

(* net/url parses no host name in which an ASCII character is escaped, and  *)
(* what follows it is a path from the root, if there is one, and a query,   *)
(* its parameters in the order url.Values.Encode has them, none twice, and  *)
(* no + in it for a space.                                                  *)
ASSUME ExchangesAssumption ==
    /\ DOMAIN Exchanges = 1 .. Len(Exchanges) /\ Len(Exchanges) \in Nat
    /\ \A i \in DOMAIN Exchanges : \A x \in Exchanges[i] :
          /\ \A h \in {x.request, x.response} :
                IsFiniteSet(DOMAIN h) /\ \A name \in DOMAIN h : h[name] \in Seq(Plain)
          /\ {x.body, x.answer, x.uri.host, x.uri.path} \subseteq Plain
          /\ x.uri.path = <<>> \/ x.uri.path[1] = Char("/")
          /\ x.uri.query \in Seq([name : DOMAIN WidthOf, value : Plain])
          /\ \A k, l \in DOMAIN x.uri.query :
                x.uri.query[k].name = x.uri.query[l].name => k = l
          /\ \A k \in DOMAIN x.uri.host : \A c \in DOMAIN WidthOf :
                x.uri.host[k] = Char(EscapeOf[c]) => EscapeOf[c] = c

-----------------------------------------------------------------------------
(* Trace identifiers                                                        *)

Fields(v, sep, atLeast, wanted) ==
    LET f == Split(v, sep) IN IF Len(f) < atLeast THEN {} ELSE {f[i] : i \in wanted}

(* The components of a composite carrier worth finding by themselves.       *)
Components(name, v) ==
    CASE name = "b3" -> Fields(v, "-", 2, {1, 2})
      [] name = "traceparent" -> Fields(v, "-", 4, {2, 3})
      [] name = "uber-trace-id" -> Fields(v, ":", 2, {1, 2})
      [] name = "x-cloud-trace-context" /\ Has(v, "/") ->
            {Before(v, "/"), Before(After(v, "/"), ";")}
      [] name = "x-amzn-trace-id" ->
            {After(f, "=") : f \in {f \in ToSet(Split(v, ";")) :
                Has(f, "=") /\ Before(f, "=") \in {Text(<<"root">>), Text(<<"parent">>)}}}
      [] OTHER -> {}

(* "Very short request IDs are not safe global replacements."               *)
WideEnough(t) == Width(t) >= 8

TraceParts(name, v) == {t \in {v} \cup Components(name, v) : WideEnough(t)}

Carried(r, headers) ==
    UNION {UNION {TraceParts(name, v) : v \in ToSet(headers[name])} :
             name \in DOMAIN headers \cap r.trace}

(* The values TraceReplacements finds in an exchange.                       *)
Discovered(r, x) == Carried(r, x.request) \cup Carried(r, x.response)

(* traceToken for each value that has none, in one fixed order (the code's  *)
(* is that of sort.Strings; any will do).                                   *)
NewTokens(news) ==
    [v \in news |-> nextTrace + CHOOSE n \in 1 .. Len(SetToSeq(news)) :
                                   SetToSeq(news)[n] = v]

-----------------------------------------------------------------------------
(* Substitution                                                             *)

(* "Replace longer values first": values of one width come in any order,    *)
(* that of the map and of an unstable sort.                                 *)
LongestFirst(values) ==
    {o \in SetToSeqs(values) :
        \A i, j \in DOMAIN o : i < j => Width(o[i]) >= Width(o[j])}

(* A value, and in a URI its escaped spelling.                              *)
Substitute(t, old, new, escaped) ==
    IF escaped THEN ReplaceText(ReplaceText(t, old, new), QueryEscape(old), new)
    ELSE ReplaceText(t, old, new)

Traced(t, order, repl, escaped) ==
    LET upTo[n \in 0 .. Len(order)] ==
          IF n = 0 THEN t
          ELSE Substitute(upTo[n - 1], order[n], <<TraceMarker(repl[order[n]])>>, escaped)
    IN upTo[Len(order)]

WithoutSecrets(r, t, escaped) ==
    LET upTo[n \in 0 .. Len(r.secrets)] ==
          IF n = 0 THEN t ELSE Substitute(upTo[n - 1], r.secrets[n], <<Redacted>>, escaped)
    IN upTo[Len(r.secrets)]

RedactString(r, t, order, repl, escaped) ==
    WithoutSecrets(r, Traced(t, order, repl, escaped), escaped)

Replaced(t, rp, scope) ==
    IF scope \in rp.scopes THEN ReplaceMatches(t, rp.matches, rp.with) ELSE t

ApplyReplacements(r, t, scope) ==
    LET upTo[n \in 0 .. Len(r.replacements)] ==
          IF n = 0 THEN t ELSE Replaced(upTo[n - 1], r.replacements[n], scope)
    IN upTo[Len(r.replacements)]

IsCredential(r, name) == name \in r.credential

(* A header: a credential is blanked, then an override by name, then a      *)
(* trace header, which never keeps its value, then any other.               *)
ScrubHeader(r, name, values, order, repl) ==
    LET redacted == [i \in DOMAIN values |-> RedactString(r, values[i], order, repl, FALSE)]
    IN CASE IsCredential(r, name) -> <<<<Redacted>>>>
         [] ~IsCredential(r, name) /\ name \in DOMAIN r.overrides ->
               <<r.overrides[name]>>
         [] ~IsCredential(r, name) /\ name \notin DOMAIN r.overrides /\ name \in r.trace ->
               [i \in DOMAIN values |->
                   IF redacted[i] = values[i] THEN <<TraceRedacted>> ELSE redacted[i]]
         [] OTHER -> [i \in DOMAIN values |-> ApplyReplacements(r, redacted[i], "header")]

Headers(r, h, order, repl) ==
    [name \in DOMAIN h |-> ScrubHeader(r, name, h[name], order, repl)]

(* What follows the host in a URI: a configured parameter is blanked, and   *)
(* then the whole query is encoded anew.                                    *)
PathAndQuery(r, u) ==
    LET blanked == {k \in DOMAIN u.query : u.query[k].name \in r.params}
        value(k) == IF k \in blanked THEN <<Redacted>>
                    ELSE IF blanked # {} THEN QueryEscape(u.query[k].value)
                    ELSE u.query[k].value
        parameter(k) == Text(<<IF k = 1 THEN "?" ELSE "&", u.query[k].name, "=">>) \o value(k)
    IN u.path \o FlattenSeq([k \in DOMAIN u.query |-> parameter(k)])

(* The URI is one text, its scheme one symbol of it; secrets and            *)
(* identifiers are looked for in both spellings.                            *)
URI(r, u, order, repl) ==
    ApplyReplacements(r,
        RedactString(r, Text(<<"https://">>) \o u.host \o PathAndQuery(r, u), order, repl, TRUE),
        "uri")

(* Mutant: meta.endpoint without the profile's replacements.                *)
SecretsOnly(r, host) == RedactString(r, host, <<>>, [v \in {} |-> 0], FALSE)

(* meta.endpoint.                                                           *)
ScrubEndpoint(r, host) ==
    ApplyReplacements(r, RedactString(r, host, <<>>, [v \in {} |-> 0], FALSE), "uri")

Bytes(r, t, order, repl) == ApplyReplacements(r, RedactString(r, t, order, repl, FALSE), "body")

Scrub(r, x, order, repl) ==
    [request |-> Headers(r, x.request, order, repl),
     response |-> Headers(r, x.response, order, repl),
     uri |-> URI(r, x.uri, order, repl),
     body |-> Bytes(r, x.body, order, repl),
     answer |-> Bytes(r, x.answer, order, repl)]

-----------------------------------------------------------------------------

Init ==
    /\ rules \in RuleSets
    /\ traceValues = [v \in {} |-> 0]
    /\ nextTrace = 0
    /\ log = <<>>

(* One exchange.  Each of its texts has its own order among values of one   *)
(* width; one order for all of them shows all that can become of each.      *)
Record(x) ==
    /\ LET news == Discovered(rules, x) \ DOMAIN traceValues
           tokens == NewTokens(news)
           table == [v \in news \cup DOMAIN traceValues |->
                        IF v \in news THEN tokens[v] ELSE traceValues[v]]
           repl == [v \in Discovered(rules, x) |-> table[v]]
       IN /\ traceValues' = table
          /\ nextTrace' = nextTrace + Len(SetToSeq(news))
          /\ \E order \in LongestFirst(Discovered(rules, x)) :
                log' = Append(log, [of |-> x, copy |-> Scrub(rules, x, order, repl)])
    /\ UNCHANGED rules

Next ==
    /\ Len(log) < Len(Exchanges)
    /\ \E x \in Exchanges[Len(log) + 1] : Record(x)

Spec == Init /\ [][Next]_vars

-----------------------------------------------------------------------------
(* Properties, of every recorded copy                                       *)

Values(h) == UNION {ToSet(h[name]) : name \in DOMAIN h}

Texts(c) == Values(c.request) \cup Values(c.response) \cup {c.uri, c.body, c.answer}

TypeOK ==
    /\ rules \in RuleSets
    /\ IsInjective(traceValues)
    /\ ToSet(traceValues) = 1 .. nextTrace
    /\ \A i \in DOMAIN log : log[i].of \in Exchanges[i]

(* verify.checkHeaders would pass the copy: a credential header holds       *)
(* **REDACTED** and a trace header a marker or **REDACTED**, whole, with    *)
(* nothing of the value around it, whatever the rules say of one name; but  *)
(* a profile may override a trace header, and verify knows no profiles.     *)
IsMarker(t) == Len(t) = 1 /\ t[1].char \in {"**TRACE_ID_n**", "**TRACE_ID**", "**REDACTED**"}

VerifierAccepts ==
    \A i \in DOMAIN log : \A h \in {log[i].copy.request, log[i].copy.response} :
       /\ \A name \in DOMAIN h \cap rules.credential : ToSet(h[name]) = {<<Redacted>>}
       /\ \A name \in (DOMAIN h \cap rules.trace) \ DOMAIN rules.overrides :
             \A t \in ToSet(h[name]) : IsMarker(t)

(* A registered secret is nowhere in the copy, in the URI not escaped       *)
(* either, nor in the provenance.                                           *)
SecretsGone ==
    \A i \in DOMAIN log : \A s \in ToSet(rules.secrets) :
       /\ ~Occurs(ScrubEndpoint(rules, log[i].of.uri.host), s)
       /\ \A t \in Texts(log[i].copy) : ~Occurs(t, s)
       /\ ~Occurs(log[i].copy.uri, QueryEscape(s))

(* Nor is an identifier the headers of the exchange carried, or a wide      *)
(* enough component of it.                                                  *)
DiscoveredGone ==
    \A i \in DOMAIN log : \A v \in Discovered(rules, log[i].of) :
       /\ \A t \in Texts(log[i].copy) : ~Occurs(t, v)
       /\ ~Occurs(log[i].copy.uri, QueryEscape(v))

(* What is looked for in the URI of an exchange.                            *)
LookedForInUri(r, x) ==
    LET texts == Discovered(r, x) \cup ToSet(r.secrets)
    IN texts \cup {QueryEscape(t) : t \in texts}
       \cup UNION {rp.matches : rp \in {rp \in ToSet(r.replacements) : "uri" \in rp.scopes}}

(* The symbols that a host stands between.                                  *)
Edges == {Char("https://"), Char("/"), Char("?")}

(* The provenance names the host as the URIs of the exchanges do: a rule    *)
(* that masks an internal proxy in one masks it in the other, as long as    *)
(* nothing looked for reaches beyond the host, which the provenance has by  *)
(* itself, and the host holds no identifier, of which it knows none.        *)
EndpointReadsAsUri ==
    \A i \in DOMAIN log :
       LET x == log[i].of
       IN /\ \A t \in LookedForInUri(rules, x) : ToSet(t) \cap Edges = {}
          /\ \A v \in Discovered(rules, x) : ~Occurs(x.uri.host, v)
          => IsPrefix(Text(<<"https://">>) \o ScrubEndpoint(rules, x.uri.host)
                         \o SubSeq(PathAndQuery(rules, x.uri), 1, 1),
                      log[i].copy.uri)

(* Nothing else is lost: with the table and the secret at hand the bodies   *)
(* can be restored symbol by symbol, from any exchange of the recording.    *)
(* Correlation survives because each marker is one identifier throughout.   *)
Unmasked(c) ==
    IF c.mark # 0 THEN CHOOSE v \in DOMAIN traceValues : traceValues[v] = c.mark
    ELSE IF c = Redacted THEN rules.secrets[1]
    ELSE <<c>>

Restored(t) == FlattenSeq([i \in DOMAIN t |-> Unmasked(t[i])])

BodiesRestorable ==
    Len(rules.secrets) <= 1 /\ rules.replacements = <<>> =>
       \A i \in DOMAIN log :
          /\ Restored(log[i].copy.body) = log[i].of.body
          /\ Restored(log[i].copy.answer) = log[i].of.answer

(* A short request ID does not corrupt unrelated data: bodies that hold no  *)
(* secret are kept as they are when no trace header has eight bytes.        *)
ShortIdsStay ==
    \A i \in DOMAIN log :
       LET x == log[i].of
           ids == UNION {Values([n \in DOMAIN h \cap rules.trace |-> h[n]]) :
                            h \in {x.request, x.response}}
       IN /\ \A t \in ids : Width(t) < 8
          /\ \A s \in ToSet(rules.secrets) : ~Occurs(x.answer, s)
          /\ rules.replacements = <<>>
          => log[i].copy.answer = x.answer
=============================================================================
