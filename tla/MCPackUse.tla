------------------------------ MODULE MCPackUse ------------------------------
(* Instances of PackUse for TLC.                                            *)
EXTENDS PackUse, TLC

-----------------------------------------------------------------------------
(* Specifications: schemas that refer and merge, in a cycle; chains of      *)
(* references that end within the cap and beyond it; one that leads out of  *)
(* the document.                                                            *)

Node(ref, allOf, props) == [ref |-> ref, allOf |-> allOf, props |-> props]

Openapi(nodes, root) == [kind |-> "openapi", nodes |-> nodes, paths |-> [chat |-> root]]

Cyclic ==
    [Request |-> Node("Create", {}, {"ignored"}),
     Create |-> Node("", {"Shared", "Own", "Elsewhere"}, {"model", "messages", "n"}),
     Shared |-> Node("Create", {}, {}),
     Own |-> Node("", {"Create"}, {"stream_options", "audio", "seed"})]

Chain(length) ==
    [n \in {"s" \o ToString(i) : i \in 0 .. length} |->
       IF n = "s" \o ToString(length) THEN Node("", {}, {"deep", "messages"})
       ELSE LET i == CHOOSE i \in 0 .. length - 1 : n = "s" \o ToString(i)
            IN IF i % 2 = 0 THEN Node("s" \o ToString(i + 1), {}, {})
               ELSE Node("", {"s" \o ToString(i + 1)}, IF i = 1 THEN {"tools"} ELSE {})]

Specs ==
    [cyclic |-> Openapi(Cyclic, "Request"),
     chain8 |-> Openapi(Chain(8), "s0"), chain9 |-> Openapi(Chain(9), "s0"),
     remote |-> Openapi([Request |-> Node("Elsewhere", {}, {"n"})], "Request"),
     stats |-> [kind |-> "stats", names |-> "cyclic"],
     unnamed |-> [kind |-> "stats", names |-> ""],
     google |-> [kind |-> "discovery", schemas |-> [Generate |-> {"contents", "model"}]]]

Ref(kind, url, at) == [kind |-> kind, url |-> url, at |-> at]

ChatSpecs ==
    {Ref("openapi", u, "chat") : u \in {"cyclic", "chain8", "chain9", "remote", "stats", "gone"}}
    \cup {Ref("stainless-stats", u, "chat") : u \in {"stats", "unnamed", "cyclic"}}
    \cup {Ref("openapi", "cyclic", "other"), Ref("discovery", "google", "Other"),
          Ref("graphql", "cyclic", "chat"), NoSpec}

-----------------------------------------------------------------------------
(* Packs                                                                    *)

Manifest(protocol, required, model, stream, spec) ==
    Object([protocol |-> protocol, required |-> required, model_field |-> model,
            stream_field |-> stream, spec |-> spec])

ChatManifest(spec) == Manifest("openai", {"model", "messages"}, "model", "stream", spec)

Body(f) == Object([model |-> "committed", messages |-> "hello"] @@ f)

Basic == Body([seed |-> "basic"])
FullBody == Body([tools |-> "t", tool_choice |-> "named", stream |-> "false", audio |-> "voice"])
Streaming == Body([stream |-> "true", stream_options |-> "usage"])

Bodies == [chat_basic |-> Basic, chat_full_params |-> FullBody, tools_stream |-> Streaming]

Pack(manifest, bodies) == [manifest |-> manifest, bodies |-> bodies]

Chat(spec) == Pack(ChatManifest(spec), Bodies)

(* No body of it carries a field that a synthetic probe sends.              *)
NoSynthetic == Pack(ChatManifest(Ref("openapi", "cyclic", "chat")), [chat_basic |-> Basic])

Gemini ==
    Pack(Manifest("gemini", {"contents"}, "", "", Ref("discovery", "google", "Generate")),
         [content |-> Object([contents |-> "hello"])])

Without(f, key) == [k \in DOMAIN f \ {key} |-> f[k]]

(* Packs with something the matter.                                         *)
Odd ==
    {Pack(Object(Without(ChatManifest(NoSpec).at, "model_field")), Bodies),
     Pack(Manifest("", {"model"}, "model", "stream", NoSpec), Bodies),
     Pack(Manifest("openai", {}, "model", "stream", NoSpec), Bodies),
     Pack(Broken, Bodies),
     Pack(Absent, NoFields),
     Pack(ChatManifest(NoSpec), [Bodies EXCEPT !.tools_stream = Broken]),
     Pack(ChatManifest(NoSpec), [Bodies EXCEPT !.tools_stream = NoObject]),
     Pack(ChatManifest(NoSpec), [Bodies EXCEPT !.chat_basic = Object([messages |-> "hello"])]),
     Pack(ChatManifest(NoSpec), [Bodies EXCEPT !.chat_full_params.at = Without(@, "tools")]),
     Pack(Absent, [Bodies EXCEPT !.chat_full_params = Body(NoFields)]),
     Pack(Absent, [Bodies EXCEPT !.chat_basic = NoObject])}

(* Packs one can record and probe.                                          *)
Sound ==
    {Chat(Ref("openapi", "cyclic", "chat")), Pack(Absent, Bodies),
     Pack(Manifest("openai", {"messages"}, "model", "stream", Ref("openapi", "cyclic", "chat")),
          [Bodies EXCEPT !.chat_basic = Object([messages |-> "hello"])]),
     Pack(Absent, [Bodies EXCEPT !.chat_full_params =
                     Body([parallel_tool_calls |-> "true", tools |-> "t", modalities |-> "text",
                           stream |-> "true", stream_options |-> "usage"])])}

(* Of another protocol, its model under another name.                       *)
Named(f) == Object([model_id |-> "committed", messages |-> "hello"] @@ f)

OtherName ==
    Pack(Manifest("other", {"messages"}, "model_id", "stream", Ref("openapi", "cyclic", "chat")),
         [chat_basic |-> Named([seed |-> "basic"]),
          chat_full_params |-> Named([tools |-> "t", tool_choice |-> "named"])])

Two(a, b) == [first |-> a, second |-> b]
Just(a) == [first |-> a]

-----------------------------------------------------------------------------
(* Uses                                                                     *)

Use(ps, a, i) == [packs |-> ps, audit |-> a, inv |-> i]

AuditOf(dir, strict, resolve) == [dir |-> dir, strict |-> strict, resolve |-> resolve]

Audits == {AuditOf(d, s, r) : d \in {"packs", "first", "missing"}, s \in BOOLEAN, r \in BOOLEAN}

AuditUses ==
    {Use(Two(Chat(spec), b), a, NoInvocation) :
        spec \in ChatSpecs, b \in {Gemini, Pack(Absent, Bodies), Chat(NoSpec)}, a \in Audits}
    \cup {Use(Two(o, Chat(Ref("openapi", "cyclic", "chat"))), a, NoInvocation) :
             o \in Odd, a \in Audits}
    \cup {Use(Two(NoSynthetic, Gemini), a, NoInvocation) : a \in Audits}

Record(mode, auth, bucket) ==
    [NoInvocation EXCEPT !.mode = mode, !.auth = auth, !.bucket = bucket, !.key = "key",
                         !.dir = "first", !.param = IF auth = "query" THEN "key" ELSE ""]

Styles == {"bearer", "x-api-key", "api-key", "none", "google-sa", "aws-sigv4", "query", "other"}

(* With headers of one's own, one of them that of a credential, a name to   *)
(* scrub, a profile; and without a key.                                     *)
Variants(i) ==
    {i, [i EXCEPT !.headers = {"authorization", "x-extra"}, !.scrub = {"x-extra"}, !.named = TRUE],
     [i EXCEPT !.key = "", !.profile = [credential |-> {"x-gid"}, params |-> {"token"}]]}

Buckets == {"auto", "stream", "nostream"}

SingleUses ==
    {Use(Just(Gemini), NoAudit, [j EXCEPT !.body = b]) :
        j \in UNION {Variants(Record("single", a, k)) : a \in Styles, k \in Buckets},
        b \in {Basic, Streaming, NoObject, Absent}}

BatchUses ==
    {Use(Just(p), NoAudit, j) :
        p \in Sound \cup {Gemini}, j \in UNION {Variants(Record("batch", a, k)) : a \in Styles, k \in Buckets}}
    \cup {Use(Just(p), NoAudit, [Record("batch", "bearer", "auto") EXCEPT !.named = TRUE]) : p \in Odd}

ProbeUses ==
    {Use(Just(p), NoAudit, j) :
        p \in Sound, j \in {Record("probe", "query", "auto"), Record("probe", "aws-sigv4", "auto")}}
    \cup {Use(Just(p), NoAudit, Record("probe", "bearer", "auto")) : p \in Odd}

(* Audited and recorded.                                                    *)
BothUses ==
    {Use(Just(Chat(spec)), AuditOf("first", FALSE, FALSE), Record("batch", "bearer", "auto")) :
        spec \in ChatSpecs}
    \cup {Use(Just(p), AuditOf("first", FALSE, FALSE), Record(mode, "bearer", "auto")) :
             p \in Sound \cup {OtherName}, mode \in {"batch", "probe"}}

EveryUse == AuditUses \cup SingleUses \cup BatchUses \cup ProbeUses \cup BothUses

(* What Bedrock may stream.                                                 *)
Frames == {<<"start", "stop">>, <<"start", "exception">>, <<>>}
=============================================================================
