------------------------------- MODULE PackUse -------------------------------
(***************************************************************************)
(* What a maintainer does with scenario packs: audits them against the      *)
(* protocol's specification (Audit) and records a vendor with them          *)
(* (Requests), in whichever order, over the same directories.               *)
(***************************************************************************)
EXTENDS Audit, Requests

CONSTANT Uses   \* pack directories, with an audit and an invocation of record

(* What a pack.json says of its bodies is true: where the model is not in   *)
(* `model` there is none, and no field is both the model and a wish to      *)
(* stream.                                                                  *)
Truthful(dir) ==
    LET says == dir.manifest.at
    IN /\ "model_field" \in DOMAIN says /\ says.model_field # "model" =>
             \A name \in DOMAIN dir.bodies : "model" \notin FieldsOf(dir.bodies[name])
       /\ {"model_field", "stream_field"} \subseteq DOMAIN says =>
             says.model_field # says.stream_field \/ says.model_field = ""

(* The directory above the packs is not one of them; what is recorded with  *)
(* is one.                                                                  *)
ASSUME UsesAssumption ==
    \A use \in Uses :
       /\ IsFiniteSet(DOMAIN use.packs) /\ Parent \notin DOMAIN use.packs
       /\ {use.audit.strict, use.audit.resolve} \subseteq BOOLEAN
       /\ use.inv.mode \in {"none", "single", "batch", "probe"}
       /\ use.inv.mode = "none" => use.inv = NoInvocation
       /\ use.inv.mode \in {"batch", "probe"} => use.inv.dir \in DOMAIN use.packs
       /\ \A d \in DOMAIN use.packs :
             /\ Truthful(use.packs[d])
             /\ IsFiniteSet(DOMAIN use.packs[d].bodies)
             /\ \A name \in DOMAIN use.packs[d].bodies :
                   IsFiniteSet(FieldsOf(use.packs[d].bodies[name]))

vars == <<packs, auditVars, requestVars>>

Init ==
    \E use \in Uses :
       /\ packs = use.packs
       /\ AuditInit(use.audit)
       /\ RequestInit(use.inv)

Next ==
    \/ AuditNext /\ UNCHANGED <<packs, requestVars>>
    \/ RequestNext /\ UNCHANGED <<packs, auditVars>>

Spec == Init /\ [][Next]_vars

TypeOK == AuditTypeOK /\ RequestTypeOK

-----------------------------------------------------------------------------

(* The fields requests were sent to exercise.                               *)
Exercised ==
    UNION {IF sent[i].job.kind = "probe" THEN {sent[i].job.of}
           ELSE FieldsOf(sent[i].request.body) : i \in DOMAIN sent}

EverySent ==
    /\ status = "done" /\ inv.mode \in {"batch", "probe"}
    /\ Len(sent) = IF inv.mode = "probe" THEN Cardinality(ProbeFields(Full(BodyDir))) + 1
                   ELSE Cardinality(DOMAIN BodyDir.bodies)

(* An audit tells what recording the pack would show of a vendor.  When all *)
(* requests of a pack were sent, a field it calls covered was exercised by  *)
(* them: by the batch, or, where no body can carry it or the full body      *)
(* does, by the probes; and one it calls missing was not, save for the      *)
(* model, which recording puts into bodies that have none, and the fields   *)
(* of synthetic probes, which are sent with any pack and counted only for   *)
(* protocol openai.                                                         *)
CoveredIsSent ==
    EverySent /\ inv.dir \in DOMAIN reports /\ inv.auth # "aws-sigv4" =>
       LET report == reports[inv.dir]
       IN /\ inv.mode = "batch" => report.covered \ SyntheticProbeFields \subseteq Exercised
          /\ inv.mode = "probe" =>
                report.covered \cap (SyntheticProbeFields \cup FieldsOf(Full(BodyDir)))
                    \subseteq Exercised
          /\ report.missing \cap Exercised \subseteq
                {"model", ManifestOf(BodyDir).model_field} \cup
                IF ManifestOf(BodyDir).protocol = "openai" THEN {} ELSE SyntheticProbeFields
=============================================================================
