----------------------------- MODULE MCScrubber -----------------------------
(* Instances of Scrubber for TLC.  Symbols: a trace id, a span id, a        *)
(* version, flags, a request id, a short id, a key, a reserved character in *)
(* a key with its escaped spelling, JSON text, a host, the scheme and the   *)
(* parameters of a URI.                                                     *)
EXTENDS Scrubber

Width1 ==
    [trace |-> 32, span |-> 16, ver |-> 2, flags |-> 2, id |-> 12, short |-> 3,
     key |-> 20, json |-> 9, proxy |-> 11, root |-> 4, parent |-> 6, param |-> 7, v |-> 1]
Scheme == ("https://" :> 8) @@ ("https%3A%2F%2F" :> 14)
Reserved ==
    ("+" :> "%2B") @@ (":" :> "%3A") @@ (";" :> "%3B") @@ ("/" :> "%2F") @@ ("=" :> "%3D")
        @@ ("?" :> "%3F") @@ ("&" :> "%26") @@ ("https://" :> "https%3A%2F%2F")
Seps == {"-"} \cup DOMAIN Reserved \cup {Reserved[c] : c \in DOMAIN Reserved}
Widths == Width1 @@ Scheme @@ [c \in Seps |-> IF Len(c) = 1 THEN 1 ELSE 3]

Escapes == Reserved @@ [c \in DOMAIN Widths |-> c]

Key == Text(<<"key", "+", "short">>)

Traceparent == Text(<<"ver", "-", "trace", "-", "span", "-", "flags">>)

One(name, chars) == name :> <<Text(chars)>>
None == [n \in {} |-> <<>>]

Profile(credential, trace, replacements) ==
    [credential |-> credential, trace |-> trace, params |-> {}, replacements |-> replacements]

BaselineProfile ==
    Profile({"authorization", "cookie"},
            {"traceparent", "b3", "uber-trace-id", "x-cloud-trace-context", "x-amzn-trace-id"}, <<>>)

NoReplacement == [header |-> "", find |-> <<>>, pattern |-> {}, with |-> <<>>, in |-> {}]

Override(name, with) == [NoReplacement EXCEPT !.header = name, !.with = Text(with)]
Find(t, with, in) == [NoReplacement EXCEPT !.find = Text(t), !.with = Text(with), !.in = in]
Pattern(ts, with, in) ==
    [NoReplacement EXCEPT !.pattern = {Text(t) : t \in ts}, !.with = Text(with), !.in = in]

Policy(profile) == [profile |-> profile, scrub |-> {}, param |-> {"param"}, secrets |-> <<Key>>]

(* The baseline with a vendor's request id, a request header that is named  *)
(* a credential, replacements for the body and a header, replacements that  *)
(* mask a proxy, override a trace and a credential header and rewrite ids,  *)
(* one that masks a proxy with what stands before and behind it in a URI,   *)
(* and one that is not well-formed.                                         *)
EveryPolicy ==
    {Policy(Profile({}, {"x-request-id"}, <<>>)),
     [Policy(Profile({}, {"x-request-id"}, <<>>)) EXCEPT !.scrub = {"x-request-id"}, !.param = {}],
     Policy(Profile({}, {"x-request-id"},
                    <<Override("server", <<"json">>), Find(<<"json">>, <<"short">>, {"body"})>>)),
     Policy(Profile({}, {"x-request-id"},
                    <<Find(<<"proxy">>, <<"json">>, {"uri"}), Override("x-request-id", <<"ver">>),
                      Override("authorization", <<"ver">>), Override("x-request-id", <<"json">>),
                      Pattern({<<"short">>, <<"ver", "-">>}, <<"flags">>, {})>>)),
     Policy(Profile({}, {}, <<Pattern({<<"https://", "proxy">>, <<"id", "/", "json">>}, <<"ver">>, {})>>)),
     Policy(Profile({}, {}, <<[Find(<<"json">>, <<"short">>, {}) EXCEPT !.header = "server"]>>))}

RequestHeaders ==
    {None, ("traceparent" :> <<Traceparent>>) @@ ("authorization" :> <<Text(<<"json">>) \o Key>>),
     One("b3", <<"trace", "-", "span", "-", "short">>),
     One("uber-trace-id", <<"trace", ":", "span", ":", "short">>)}

ResponseHeaders ==
    {None, One("x-request-id", <<"id">>) @@ One("server", <<"span", "json">>),
     One("x-request-id", <<"short">>),
     "x-request-id" :> <<Text(<<"short", "-", "id">>), Key>>,
     One("x-cloud-trace-context", <<"trace", "/", "span", ";", "short">>),
     One("x-amzn-trace-id", <<"root", "=", "trace", ";", "parent", "=", "span", ";", "short">>)}

Answers ==
    {Text(t) : t \in {<<"json", "id", "json">>, <<"trace", "span", "trace">>,
                      <<"ver", "-", "trace", "-", "span", "-", "flags", "-", "id">>,
                      <<"short", "json", "short", "-", "id">>,
                      <<"key", "+", "short", "key", "+", "short">>,
                      <<"trace", "-", "span", "-", "short">>, <<>>}}

Uri(host, path, v) ==
    [host |-> Text(host), path |-> Text(path),
     query |-> <<[name |-> "param", value |-> QueryEscape(Key)], [name |-> "v", value |-> Text(v)]>>]

Uris == {Uri(<<"proxy", "id">>, <<"/", "json", "/", "id">>, <<"key", "%2B", "short">>),
         [Uri(<<"proxy", "short">>, <<"/", "json">>, <<"trace", "%3A", "span", "%3A", "short">>)
             EXCEPT !.path = <<>>]}

Bodies == {Text(<<"json", "span", "json">>), Text(<<"id", "id", "key", "+", "short">>)}

EveryExchange ==
    [request : RequestHeaders, response : ResponseHeaders, uri : Uris,
     body : Bodies, answer : Answers]

(* A second exchange that repeats identifiers of the first, one of them in  *)
(* no header of its own.                                                    *)
Repeats ==
    [request : {One("b3", <<"trace", "-", "span", "-", "short">>)},
     response : {None, One("x-request-id", <<"id">>)},
     uri : {Uri(<<"json", "proxy">>, <<"/", "json", "/", "id">>, <<"trace">>)},
     body : {Text(<<"json", "span", "json">>)},
     answer : {Text(<<"trace", "id", "trace">>)}]

TwoExchanges == <<EveryExchange, Repeats>>
=============================================================================
