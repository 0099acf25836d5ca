-------------------------------- MODULE Audit --------------------------------
(***************************************************************************)
(* `opencassette audit` (internal/audit, internal/cli: runAuditCommand): how *)
(* much of the request schema of a protocol a pack's bodies cover.  A       *)
(* specification is a graph: the nodes of a document are its schemas, and a *)
(* node either refers to another or merges others and has properties of its *)
(* own.                                                                     *)
(***************************************************************************)
EXTENDS Packs, Sequences, SequencesExt

CONSTANT Web      \* what stands at the URLs that answer: URL -> document

(* A path has the schema it names; one whose schema is not in the document  *)
(* is not in paths.                                                         *)
ASSUME WebAssumption ==
    \A url \in DOMAIN Web : Web[url].kind = "openapi" =>
       /\ IsFiniteSet(DOMAIN Web[url].nodes)
       /\ \A path \in DOMAIN Web[url].paths : Web[url].paths[path] \in DOMAIN Web[url].nodes

VARIABLES
    audit,     \* --dir, --strict, --resolve; or that there is no audit
    todo,      \* pack directories still to be read
    scanning,  \* whether they were found below --dir
    gaps,      \* whether a report has missing fields
    reports,   \* pack directory -> its Report
    outcome    \* "none", "running", "ok", "gaps" (exit code 1) or "error"

auditVars == <<audit, todo, scanning, gaps, reports, outcome>>

Parent == "packs"   \* the directory above all packs

-----------------------------------------------------------------------------
(* Mutants: faults the properties are to notice.                            *)

(* The walk stops one step early.                                           *)
OneLess == 7

(* No pack is asked for the model.                                          *)
NeverModel(dir, fields) == fields \ {"model"}

(* The directory above the packs is among the packs.                        *)
AndItself(name) == IF name = Parent THEN SetToSeq(DOMAIN packs \cup {Parent}) ELSE <<>>

(* Every field of the specification is covered.                             *)
AllCovered(pack, spec) == [covered |-> spec, missing |-> {}, extra |-> pack \ spec]

(* What is not in a body is missing, a synthetic probe or not.              *)
BodiesOnly(dir) == UNION {FieldsOf(dir.bodies[name]) : name \in DOMAIN dir.bodies}

(* A gap is forgotten by the next pack.                                     *)
LastGap(report) == report.missing # {}

-----------------------------------------------------------------------------
(* Specifications                                                           *)

(* What collectProps goes on with: a $ref, alone, or the members of allOf,  *)
(* where either is a node of this document.                                 *)
Follows(nodes, n) ==
    (IF nodes[n].ref # "" THEN {nodes[n].ref} ELSE nodes[n].allOf) \cap DOMAIN nodes

OwnProps(nodes, n) == IF nodes[n].ref # "" THEN {} ELSE nodes[n].props

MaxDepth == 8

(* "Depth-capped: specs are graphs and a cyclic $ref must not hang the      *)
(* audit."                                                                  *)
CollectProps(nodes, root) ==
    LET collect[depth \in 0 .. MaxDepth + 1] ==
          [n \in DOMAIN nodes |->
             IF depth > MaxDepth THEN {}
             ELSE OwnProps(nodes, n) \cup UNION {collect[depth + 1][m] : m \in Follows(nodes, n)}]
    IN collect[0][root]

(* No fields: the path or its schema is not there, or has no properties, or *)
(* the document is of another kind.  Each is an error.                      *)
OpenapiRequestFields(doc, path) ==
    IF doc.kind = "openapi" /\ path \in DOMAIN doc.paths
    THEN CollectProps(doc.nodes, doc.paths[path]) ELSE {}

DiscoveryFields(doc, schema) ==
    IF doc.kind = "discovery" /\ schema \in DOMAIN doc.schemas THEN doc.schemas[schema] ELSE {}

(* "": no Stainless .stats.yml.                                             *)
StainlessSpecURL(url) ==
    IF url \in DOMAIN Web /\ Web[url].kind = "stats" THEN Web[url].names ELSE ""

(* The document a pack's spec block leads to.                               *)
SpecURL(ref) == IF ref.kind = "stainless-stats" THEN StainlessSpecURL(ref.url) ELSE ref.url

SpecFields(ref) ==
    IF SpecURL(ref) \notin DOMAIN Web THEN {}
    ELSE CASE ref.kind \in {"openapi", "stainless-stats"} ->
                 OpenapiRequestFields(Web[SpecURL(ref)], ref.at)
           [] ref.kind = "discovery" -> DiscoveryFields(Web[SpecURL(ref)], ref.at)
           [] OTHER -> {}

-----------------------------------------------------------------------------
(* Reports                                                                  *)

PackFields(dir) ==
    (UNION {FieldsOf(dir.bodies[name]) : name \in DOMAIN dir.bodies})
        \cup IF ManifestOf(dir).protocol = "openai" THEN SyntheticProbeFields ELSE {}

(* "the pack not carrying it is by design, not a gap"                       *)
Audited(dir, fields) ==
    IF ManifestOf(dir).model_field = "" THEN fields \ {"model"} ELSE fields

Compare(pack, spec) ==
    [covered |-> spec \cap pack, missing |-> spec \ pack, extra |-> pack \ spec]

ReportOn(dir) == Compare(PackFields(dir), Audited(dir, SpecFields(ManifestOf(dir).spec)))

-----------------------------------------------------------------------------

NoAudit == [dir |-> "", strict |-> FALSE, resolve |-> FALSE]

NoReports == [d \in {} |-> Compare({}, {})]

AuditInit(use) ==
    /\ audit = use
    /\ todo = <<>>
    /\ scanning = FALSE
    /\ gaps = FALSE
    /\ reports = NoReports
    /\ outcome = "none"

(* A directory with a pack.json, readable or not, is a pack; the            *)
(* directories in any other are taken for packs.  (Packs hold no            *)
(* directories.)                                                            *)
IsPack(name) == name \in DOMAIN packs /\ packs[name].manifest.kind # "absent"

Below(name) == IF name = Parent THEN SetToSeq(DOMAIN packs) ELSE <<>>

AuditStart ==
    /\ outcome = "none" /\ audit # NoAudit
    /\ audit.dir \in DOMAIN packs \cup {Parent}
    /\ scanning' = ~IsPack(audit.dir)
    /\ todo' = IF IsPack(audit.dir) THEN <<audit.dir>> ELSE Below(audit.dir)
    /\ outcome' = "running"
    /\ UNCHANGED <<audit, gaps, reports>>

(* --dir is no directory.                                                   *)
AuditStartFails ==
    /\ outcome = "none" /\ audit # NoAudit
    /\ audit.dir \notin DOMAIN packs \cup {Parent}
    /\ outcome' = "error"
    /\ UNCHANGED <<audit, todo, scanning, gaps, reports>>

Auditing == outcome = "running" /\ todo # <<>>

Dir == packs[Head(todo)]
Spec0 == ManifestOf(Dir).spec

AuditNextPack ==
    /\ todo' = Tail(todo)
    /\ UNCHANGED <<audit, scanning, outcome>>

AuditFails ==
    /\ outcome' = "error"
    /\ UNCHANGED <<audit, todo, scanning, gaps, reports>>

(* A directory that is no pack is skipped when it was only found below      *)
(* --dir.                                                                   *)
SkipUnloadable ==
    /\ Auditing /\ ~Loads(Dir) /\ scanning
    /\ AuditNextPack
    /\ UNCHANGED <<gaps, reports>>

Unloadable == Auditing /\ ~Loads(Dir) /\ ~scanning /\ AuditFails

SkipWithoutSpec ==
    /\ Auditing /\ Loads(Dir) /\ Spec0 = NoSpec
    /\ AuditNextPack
    /\ UNCHANGED <<gaps, reports>>

Specified == Auditing /\ Loads(Dir) /\ Spec0 # NoSpec

(* --resolve prints the URL of the specification and reads no more.         *)
Resolve ==
    /\ Specified /\ audit.resolve
    /\ Spec0.kind = "stainless-stats" => SpecURL(Spec0) # ""
    /\ AuditNextPack
    /\ UNCHANGED <<gaps, reports>>

(* A fetch fails, which it may at any time, or what it brings is not what   *)
(* the spec block says: the command ends, the packs behind this one unread. *)
ResolveFails == Specified /\ audit.resolve /\ Spec0.kind = "stainless-stats" /\ AuditFails

SpecFails == Specified /\ ~audit.resolve /\ AuditFails

Gaps(report) == gaps \/ report.missing # {}

AuditPack ==
    /\ Specified /\ ~audit.resolve /\ SpecFields(Spec0) # {}
    /\ reports' = [d \in DOMAIN reports \cup {Head(todo)} |->
                     IF d = Head(todo) THEN ReportOn(Dir) ELSE reports[d]]
    /\ gaps' = Gaps(ReportOn(Dir))
    /\ AuditNextPack

AuditEnds ==
    /\ outcome = "running" /\ todo = <<>>
    /\ outcome' = IF audit.strict /\ gaps THEN "gaps" ELSE "ok"
    /\ UNCHANGED <<audit, todo, scanning, gaps, reports>>

AuditNext ==
    \/ AuditStart
    \/ AuditStartFails
    \/ SkipUnloadable
    \/ Unloadable
    \/ SkipWithoutSpec
    \/ Resolve
    \/ ResolveFails
    \/ SpecFails
    \/ AuditPack
    \/ AuditEnds

AuditTypeOK ==
    /\ {audit.strict, audit.resolve} \subseteq BOOLEAN
    /\ ToSet(todo) \subseteq DOMAIN packs
    /\ {scanning, gaps} \subseteq BOOLEAN
    /\ DOMAIN reports \subseteq {d \in DOMAIN packs : Loads(packs[d])}
    /\ outcome \in {"none", "running", "ok", "gaps", "error"}

-----------------------------------------------------------------------------
(* Properties                                                               *)

(* The nodes within so many steps of the root, and the properties a         *)
(* document declares at any distance.                                       *)
Within(nodes, root) ==
    LET reach[k \in Nat] ==
          IF k = 0 THEN {root}
          ELSE reach[k - 1] \cup UNION {Follows(nodes, n) : n \in reach[k - 1]}
    IN reach

Near(nodes, root) == Within(nodes, root)[8]
Everywhere(nodes, root) == Within(nodes, root)[Cardinality(DOMAIN nodes)]

Declared(nodes, root) == UNION {OwnProps(nodes, n) : n \in Everywhere(nodes, root)}

(* A pack provides for a field when one of its bodies carries it or, in a   *)
(* pack of protocol openai, a synthetic probe sends it.                     *)
Provides(dir, field) ==
    \/ \E name \in DOMAIN dir.bodies : field \in FieldsOf(dir.bodies[name])
    \/ ManifestOf(dir).protocol = "openai" /\ field \in SyntheticProbeFields

(* A report is right whatever shape the specification has: what it calls    *)
(* missing or covered is declared somewhere in the request schema, and      *)
(* unless the schema is nested deeper than the cap, every declared property *)
(* is in it.  A field it names is covered exactly when the pack provides    *)
(* for it, missing otherwise, and extra when the pack provides for it and   *)
(* the schema does not have it.  Cycles neither hang the walk nor hide a    *)
(* property.                                                                *)
ReportExact ==
    \A d \in DOMAIN reports :
       LET ref == ManifestOf(packs[d]).spec
           doc == Web[SpecURL(ref)]
           report == reports[d]
           listed == report.covered \cup report.missing
           declared == IF ref.kind = "discovery" THEN doc.schemas[ref.at]
                       ELSE Declared(doc.nodes, doc.paths[ref.at])
           whole == ref.kind = "discovery" \/
                    Near(doc.nodes, doc.paths[ref.at]) = Everywhere(doc.nodes, doc.paths[ref.at])
           byDesign == IF ManifestOf(packs[d]).model_field = "" THEN {"model"} ELSE {}
       IN /\ listed \subseteq declared \ byDesign
          /\ whole => listed = declared \ byDesign
          /\ \A field \in report.covered : Provides(packs[d], field)
          /\ \A field \in report.missing : ~Provides(packs[d], field)
          /\ \A field \in report.extra : Provides(packs[d], field) /\ field \notin listed

(* --strict can be relied upon: the exit code is that of gaps exactly when  *)
(* some pack's report has any, and an audit that ended well, of one pack or *)
(* of a directory of them, has a report on every pack there that loads and  *)
(* names a specification.                                                   *)
StrictTellsTruth ==
    outcome \in {"ok", "gaps"} =>
       /\ outcome = "gaps" <=>
             audit.strict /\ \E d \in DOMAIN reports : reports[d].missing # {}
       /\ ~audit.resolve =>
             \A d \in DOMAIN packs :
                /\ audit.dir = Parent \/ (audit.dir = d /\ IsPack(d))
                /\ Loads(packs[d]) /\ ManifestOf(packs[d]).spec # NoSpec
                => d \in DOMAIN reports
=============================================================================
