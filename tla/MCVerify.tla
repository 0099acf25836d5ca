------------------------------ MODULE MCVerify ------------------------------
(* Instances of Verify for TLC.                                             *)
EXTENDS Verify, TLC

UnpackedBodies == "packed" :> "hand-typed"
Json == ("json" :> "none") @@ ("usage" :> "adds") @@ ("hand-typed" :> "off")
Streams == ("stream" :> <<"json", "hand-typed", "[DONE]">>) @@ ("good stream" :> <<"json", "usage">>)
Start2020 == -2400

Times ==
    ("last week" :> -7) @@ ("tomorrow" :> 1) @@ ("the day after" :> 2)
       @@ ("new year 2020" :> Start2020) @@ ("old year 2019" :> Start2020 - 1)

Nothing == [n \in {} |-> <<>>]

(* Headers of sections written by others: one value or a list.              *)
OtherHeaders ==
    {Null, Map([x_api_key |-> Str("Bearer")]), Map([x_api_key |-> List(<<Str("**REDACTED**")>>)]),
     Map([b3 |-> List(<<Str("**TRACE_ID_1**"), Str("id")>>)]), Map([server |-> List(<<Str("key")>>)]),
     Map([server |-> Scalar, b3 |-> Str("**TRACE_ID**")])}

Request(uri, body, headers) ==
    Map([method |-> Str("POST"), uri |-> Str(uri), body |-> body, headers |-> headers])
Response(body, headers) == Map([body |-> body, headers |-> headers])

Requests ==
    {Null, Request("https://host", Str("json"), Null), Request("path", Str("json"), Null),
     Request("http://host", Map([string |-> Str("key")]), Null)}
       \cup {Request("https://host", Null, h) : h \in OtherHeaders}
Responses ==
    {Null, Scalar, Response(Map([string |-> Str("packed")]), Null),
     Response(Map([string |-> Map([string |-> Str("stream")])]), Null)}
       \cup {Response(Str(b), Null) : b \in {"key", "stream", "sample id", "1234567890"}}
       \cup {Response(Str("json"), h) : h \in OtherHeaders}

Metas ==
    {Null, Scalar, Map([other |-> Scalar]), Map([recorded_at |-> Scalar]),
     Map([recorded_at |-> List(<<>>)])}
       \cup {Map([recorded_at |-> Str(t)]) : t \in DOMAIN Times \cup {"noon"}}

(* Both formats, alone and in one file, the lists of one length or not.     *)
Item1(req, resp) == Map([request |-> req, response |-> resp])

Simple == Request("https://host", Str("json"), Null)
SimpleAnswer == Response(Str("usage"), Null)
Leak == Response(Str("json"), Map([b3 |-> Str("id")]))

Docs ==
    {Broken, Null, Map([meta |-> Scalar])}
       \cup {Map([interactions |-> List(<<Item1(q, r)>>)]) : q \in Requests, r \in Responses}
       \cup {Map([interactions |-> List(<<Scalar, Item1(q, SimpleAnswer), Item1(Simple, r)>>),
                  meta |-> Map([recorded_at |-> Str("last week")])]) :
               q \in Requests, r \in Responses}
       \cup {Map([interactions |-> List(<<Item1(Simple, SimpleAnswer)>>), meta |-> m]) : m \in Metas}
       \cup {Map([requests |-> List(<<q>>), responses |-> List(<<SimpleAnswer, r>>)]) :
               q \in Requests, r \in Responses}
       \cup {Map([requests |-> List(<<Simple, q>>), responses |-> List(<<r>>)]) :
               q \in Requests, r \in Responses}
       \cup {Map([interactions |-> i, requests |-> List(<<Simple>>), responses |-> List(<<r>>)]) :
               i \in {Scalar, Null, List(<<>>), List(<<Item1(Simple, Leak)>>)}, r \in Responses}

Other(suffix, reads, gz, doc, patterns) ==
    [suffix |-> suffix, reads |-> reads, gz |-> gz, doc |-> doc, patterns |-> patterns,
     recorded |-> <<>>, rules |-> Null, clock |-> ""]

(* Files of the recorder, under the baseline and with a profile: one that   *)
(* overrides a trace header by a text of its own or by a marker, one that   *)
(* adds to the headers or overrides one of a credential, in vain; and with  *)
(* a short secret.                                                          *)
Baseline ==
    [credential |-> {"x_api_key"}, trace |-> {"b3"}, overrides |-> Nothing, short |-> FALSE]

Rules ==
    {Baseline, [Baseline EXCEPT !.short = TRUE],
     [Baseline EXCEPT !.overrides = "b3" :> "masked"],
     [Baseline EXCEPT !.overrides = "b3" :> "**REDACTED**"],
     [Baseline EXCEPT !.credential = @ \cup {"b3"}, !.overrides = "b3" :> "masked"],
     [Baseline EXCEPT !.trace = @ \cup {"server"}, !.overrides = "x_api_key" :> "masked"],
     [Baseline EXCEPT !.overrides = "server" :> "masked"]}

AllHeaders ==
    {Nothing, ("x_api_key" :> <<"**REDACTED**">>) @@ ("b3" :> <<"**TRACE_ID_1**">>),
     ("b3" :> <<"**TRACE_ID**", "**REDACTED**">>) @@ ("server" :> <<"id">>),
     "b3" :> <<"**REDACTED**">>, "b3" :> <<"masked">>, "b3" :> <<"half **REDACTED**">>,
     "server" :> <<"id", "key">>, "server" :> <<"masked">>, "server" :> <<"**TRACE_ID_1**">>}

Recording(clock, rules, exchanges) ==
    [suffix |-> ".yaml", reads |-> 2, gz |-> FALSE, doc |-> FileDoc(clock, exchanges),
     patterns |-> FALSE, recorded |-> exchanges, rules |-> rules, clock |-> clock]

AnExchange ==
    [method |-> "POST", uri |-> "https://host", body |-> "", answer |-> "good stream",
     request |-> Nothing, response |-> "b3" :> <<"**TRACE_ID_1**">>]

Plain == Recording("last week", Baseline, <<AnExchange>>)

Exchanges ==
    {[AnExchange EXCEPT !.uri = u, !.body = b, !.answer = a] :
        u \in {"https://host", "http://host", "https://key", "path"}, b \in {"json", None, "", "key"},
        a \in {"json", "stream", "packed", "key", ""}}

(* Two exchanges under the same rules, with headers these leave.            *)
Ruled ==
    {[rules |-> r, exchanges |-> <<[AnExchange EXCEPT !.response = Nothing],
                                   [AnExchange EXCEPT !.request = h, !.response = g]>>] :
        r \in Rules, h \in AllHeaders, g \in AllHeaders}

Recordings ==
    {Recording("tomorrow", Baseline, <<AnExchange, x>>) : x \in Exchanges}
       \cup {Recording(t, Baseline, <<AnExchange>>) : t \in DOMAIN Times}
       \cup {Recording("last week", d.rules, d.exchanges) :
                d \in {d \in Ruled : \A x \in ToSet(d.exchanges) :
                          HeadersWritten(d.rules, x.request) /\ HeadersWritten(d.rules, x.response)}}

Others ==
    {Other(".yaml", 2, FALSE, d, FALSE) : d \in Docs}
       \cup {Other(".yaml.gz", 2, TRUE, d, FALSE) : d \in Docs}

AnyFile == Others \cup Recordings

(* Files for a walk over two.                                               *)
SimpleDoc == Map([interactions |-> List(<<Item1(Simple, SimpleAnswer)>>)])
Neighbours ==
    {[Plain EXCEPT !.patterns = TRUE],
     Other(".json", 2, FALSE, Broken, TRUE), Other(".yaml.gz", 2, TRUE, Broken, FALSE),
     Other(".yaml", 0, FALSE, SimpleDoc, FALSE), Other(".yaml", 1, FALSE, SimpleDoc, FALSE),
     Other(".yaml", 2, FALSE, SimpleDoc, TRUE), Plain}

Directories == {<<f>> : f \in AnyFile} \cup {<<f, g>> : f, g \in Neighbours}
=============================================================================
