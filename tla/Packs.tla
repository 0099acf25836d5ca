-------------------------------- MODULE Packs --------------------------------
(***************************************************************************)
(* internal/scenario: pack directories, and what the commands that read one *)
(* make of it.  A body is a JSON object, which is the function from its     *)
(* top-level fields to their values, or something else; a value is a name,  *)
(* "" where it is the empty string, and "true" where gjson would call it    *)
(* true.                                                                    *)
(***************************************************************************)
EXTENDS Naturals, FiniteSets

VARIABLE packs   \* the pack directories: name -> [manifest, bodies].  The
                 \* commands read them and write none.

Object(f) == [kind |-> "object", at |-> f]
NoObject == [kind |-> "other", at |-> <<>>]   \* JSON, but no object
Broken == [kind |-> "broken", at |-> <<>>]    \* not JSON, or not readable
Absent == [kind |-> "absent", at |-> <<>>]    \* no such file

FieldsOf(body) == IF body.kind = "object" THEN DOMAIN body.at ELSE {}

IsTrue(body, field) == field \in FieldsOf(body) /\ body.at[field] = "true"

(* A body with one field given a value.                                     *)
Set(body, field, value) ==
    Object([f \in FieldsOf(body) \cup {field} |-> IF f = field THEN value ELSE body.at[f]])

-----------------------------------------------------------------------------
(* Mutants: faults the properties are to notice.                            *)

(* A manifest may leave out what may be empty.                              *)
FewKeys == {"protocol", "required"}

(* A probe is the base with the field added.                                *)
BaseAndField(base, full, field) ==
    Set(base, field, IF field \in FieldsOf(full) THEN full.at[field] ELSE "include_usage")

(* Only what the full body carries is probed.                               *)
CarriedOnly(full) == FieldsOf(full) \ {"model", "messages"}

-----------------------------------------------------------------------------
(* The manifest                                                             *)

NoSpec == [kind |-> "none", url |-> "", at |-> ""]

(* Without pack.json.                                                       *)
DefaultManifest ==
    [protocol |-> "openai", required |-> {"model", "messages"},
     model_field |-> "model", stream_field |-> "stream", spec |-> NoSpec]

(* "every key must be written out explicitly"                               *)
ExplicitKeys == {"protocol", "required", "model_field", "stream_field"}

ManifestLoads(m) ==
    \/ m.kind = "absent"
    \/ /\ m.kind = "object"
       /\ ExplicitKeys \subseteq DOMAIN m.at
       /\ m.at.protocol # "" /\ m.at.required # {}

ManifestOf(dir) ==
    IF dir.manifest.kind = "absent" THEN DefaultManifest
    ELSE [key \in DOMAIN DefaultManifest |->
            IF key \in DOMAIN dir.manifest.at THEN dir.manifest.at[key]
            ELSE IF key = "spec" THEN NoSpec ELSE ""]   \* Go's zero values

-----------------------------------------------------------------------------
(* LoadPack: one file that is no JSON, or lacks a required field, spoils    *)
(* the pack.                                                                *)

Loads(dir) ==
    /\ ManifestLoads(dir.manifest)
    /\ DOMAIN dir.bodies # {}
    /\ \A name \in DOMAIN dir.bodies :
          /\ dir.bodies[name].kind # "broken"
          /\ ManifestOf(dir).required \subseteq FieldsOf(dir.bodies[name])

ScenarioStream(dir, name) == IsTrue(dir.bodies[name], ManifestOf(dir).stream_field)

(* WithModel fails on a body that is no object (a null makes it panic).     *)
TakesModel(body, field) == field = "" \/ body.kind = "object"

WithModel(body, field, model) == IF field = "" THEN body ELSE Set(body, field, model)

-----------------------------------------------------------------------------
(* BuildProbes                                                              *)

NoFields == [f \in {} |-> ""]

Rule(value, companions, extra) ==
    [value |-> value, companions |-> companions, extra |-> extra]

ProbeRules ==
    [tool_choice |-> Rule("", {"tools"}, NoFields),
     parallel_tool_calls |-> Rule("", {"tools"}, NoFields),
     stream |-> Rule("true", {}, NoFields),
     audio |-> Rule("", {}, [modalities |-> "text,audio"])]

SyntheticProbes ==
    [stream_options |-> Rule("include_usage", {}, [stream |-> "true"])]

SyntheticProbeFields == DOMAIN SyntheticProbes

Core == {"model", "messages"}

ProbeFields(full) == (FieldsOf(full) \ Core) \cup SyntheticProbeFields

(* A synthetic probe that the full body carries has the rule of any other.  *)
RuleFor(full, field) ==
    IF field \notin FieldsOf(full) THEN SyntheticProbes[field]
    ELSE IF field \in DOMAIN ProbeRules THEN ProbeRules[field]
    ELSE Rule("", {}, NoFields)

ProbesBuild(base, full) ==
    /\ Core \subseteq FieldsOf(base)
    /\ FieldsOf(full) \ Core # {}
    /\ \A field \in ProbeFields(full) : RuleFor(full, field).companions \subseteq FieldsOf(full)

Companions(full, field, rule) == rule.companions \cup DOMAIN rule.extra

(* Model and messages, the field under test, its companions as the full     *)
(* body has them, its extra fields.                                         *)
ProbeBody(base, full, field) ==
    LET rule == RuleFor(full, field)
        value(f) == IF f \in DOMAIN rule.extra THEN rule.extra[f]
                    ELSE IF f \in rule.companions THEN full.at[f]
                    ELSE IF f # field THEN base.at[f]
                    ELSE IF rule.value # "" THEN rule.value ELSE full.at[f]
    IN Object([f \in Core \cup {field} \cup Companions(full, field, rule) |-> value(f)])
=============================================================================
