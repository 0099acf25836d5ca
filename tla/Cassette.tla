------------------------------ MODULE Cassette ------------------------------
(***************************************************************************)
(* Cassette files: the shape internal/recorder writes and the package       *)
(* cassette that loads it and one other.  A string is a name; what it is    *)
(* like (packed, a secret, JSON) is given by constants here and in Verify.  *)
(* A value YAML decodes to is a record with its kind.                       *)
(***************************************************************************)
EXTENDS Naturals, Sequences, SequencesExt

CONSTANTS Unpacked,    \* a string with the gzip magic number that unpacks ->
                       \* what it unpacks to
          MaxNesting   \* how often a body may lie below the key `string`

ASSUME NestingAssumption == MaxNesting \in Nat \ {0}

Null == [kind |-> "null"]
Scalar == [kind |-> "scalar"]                   \* a number, a truth value
Broken == [kind |-> "broken"]                   \* no YAML, or a gzip file cut off
Str(s) == [kind |-> "string", is |-> s]         \* !!binary too, when decoded
List(s) == [kind |-> "list", items |-> s]
Map(f) == [kind |-> "map", at |-> f]

Get(v, key) == IF v.kind = "map" /\ key \in DOMAIN v.at THEN v.at[key] ELSE Null
Items(v) == IF v.kind = "list" THEN v.items ELSE <<>>
StringOf(v) == IF v.kind = "string" THEN v.is ELSE ""

Item(s, i) == IF i \in DOMAIN s THEN s[i] ELSE Null

None == "nil"       \* a nil slice of bytes

Longer(s, t) == IF Len(s) > Len(t) THEN Len(s) ELSE Len(t)

-----------------------------------------------------------------------------
(* Mutant: a fault the properties of Verify are to notice.                  *)

(* An empty body is an empty string.                                        *)
EmptyString(b) == Str(IF b = None THEN "" ELSE b)

-----------------------------------------------------------------------------
(* Writing: interactionDoc, fileDoc                                         *)

(* "nil for an empty body, matching how a bodyless request loads back".     *)
BodyValue(b) == IF b \in {None, ""} THEN Null ELSE Str(b)

HeadersDoc(h) == Map([name \in DOMAIN h |-> List([i \in DOMAIN h[name] |-> Str(h[name][i])])])

InteractionDoc(x) ==
    Map([request |-> Map([body |-> BodyValue(x.body), headers |-> HeadersDoc(x.request),
                          method |-> Str(x.method), uri |-> Str(x.uri)]),
         response |-> Map([body |-> Map([string |-> BodyValue(x.answer)]),
                           headers |-> HeadersDoc(x.response)])])

FileDoc(recordedAt, exchanges) ==
    Map([meta |-> Map([recorded_at |-> Str(recordedAt)]),
         interactions |-> List([i \in DOMAIN exchanges |-> InteractionDoc(exchanges[i])])])

-----------------------------------------------------------------------------
(* Loading                                                                  *)

GunzipIfNeeded(b) == IF b \in DOMAIN Unpacked THEN Unpacked[b] ELSE b

IsMap(v) == v.kind = "map"

(* A body is a string, or stands below the key `string`, at any depth.      *)
DecodeBody(v) ==
    LET below[n \in 0 .. MaxNesting] ==
          IF n = 0 THEN v
          ELSE IF IsMap(below[n - 1]) THEN Get(below[n - 1], "string") ELSE below[n - 1]
        body == below[MaxNesting]
    IN IF body.kind = "string" THEN GunzipIfNeeded(body.is) ELSE None

BuildInteraction(req, resp) ==
    [method |-> StringOf(Get(req, "method")), uri |-> StringOf(Get(req, "uri")),
     request |-> DecodeBody(Get(req, "body")), response |-> DecodeBody(Get(resp, "body"))]

Mappings(s) ==
    LET kept[n \in 0 .. Len(s)] ==
          IF n = 0 THEN <<>>
          ELSE IF IsMap(s[n]) THEN Append(kept[n - 1], s[n]) ELSE kept[n - 1]
    IN kept[Len(s)]

(* The items of interactions:, except those that are no mapping; or, when   *)
(* that is no list, requests: and responses: side by side, the shorter one  *)
(* filled up with nothing.                                                  *)
Interactions(doc) ==
    IF Get(doc, "interactions").kind = "list"
    THEN LET entries == Mappings(Items(Get(doc, "interactions")))
         IN [i \in DOMAIN entries |->
               BuildInteraction(Get(entries[i], "request"), Get(entries[i], "response"))]
    ELSE LET reqs == Items(Get(doc, "requests"))
             resps == Items(Get(doc, "responses"))
         IN [i \in 1 .. Longer(reqs, resps) |-> BuildInteraction(Item(reqs, i), Item(resps, i))]

(* parse: an empty file is an empty mapping; anything else that is no       *)
(* mapping is an error.                                                     *)
Parses(doc) == doc.kind \in {"map", "null"}

(* A file of a directory: its suffix, how many reads of it succeed (each    *)
(* tool reads it once or twice), whether it is packed as a whole, the       *)
(* document in it, whether its text has a pattern of verify, and, for one   *)
(* the recorder wrote, the exchanges.                                       *)
IsCassette(f) == f.suffix \in {".yaml", ".yaml.gz"}

Loads(f) == f.reads >= 1 /\ Parses(f.doc)

(* LoadDir fails as a whole when one of its cassettes does.                 *)
LoadsDir(dir) == \A i \in DOMAIN dir : IsCassette(dir[i]) => Loads(dir[i])
=============================================================================
