------------------------------ MODULE Requests ------------------------------
(***************************************************************************)
(* The request side of `opencassette record` (internal/cli: runRecordCommand*)
(* up to its modes, runBatch, runProbe, buildRequest, bucketStream, the AWS  *)
(* and Google styles of authentication): which requests one invocation      *)
(* sends over a pack, with which credentials, under which redaction rules,  *)
(* and where each recording belongs.  What becomes of the files is in       *)
(* RecordRun and ProbeRun, what is recorded of an exchange in Recorder and  *)
(* Scrubber.                                                                *)
(***************************************************************************)
EXTENDS Packs, Sequences, SequencesExt

CONSTANTS FrameSeqs   \* eventstreams a vendor may send: sequences of frames

VARIABLES
    inv,      \* flags and environment; or that there is no invocation
    rules,    \* redact.Rules, as far as names and secrets: one for all recorders
    jobs,     \* requests still to be made
    sent,     \* those made, each with its response and what was blanked
    status    \* "none", "configured", "running", "done" or "error"

requestVars == <<inv, rules, jobs, sent, status>>

-----------------------------------------------------------------------------
(* Mutants: faults the properties are to notice.                            *)

(* The name of the parameter is left to the secret's literal.               *)
LiteralOnly(r) == r

(* --bucket is for the place alone.                                         *)
BodyDecides(bodyStream) == bodyStream

(* The bodies of a batch are sent as they stand in the pack.                *)
AsCommitted(dir, name) == dir.bodies[name]

-----------------------------------------------------------------------------
(* Flags, environment, rules                                                *)

NoInvocation ==
    [mode |-> "none", auth |-> "none", param |-> "", bucket |-> "auto", key |-> "",
     dir |-> "", body |-> Absent, named |-> FALSE, headers |-> {}, scrub |-> {},
     profile |-> [credential |-> {}, params |-> {}]]

Model == "vendor-model"   \* --model

(* google-sa: the key is exchanged for a token, once, for the whole run.    *)
Style == IF inv.auth = "google-sa" THEN "bearer" ELSE inv.auth
Key == IF inv.auth = "google-sa" THEN "token" ELSE inv.key

(* What the role and its keys bring: all of it is registered.               *)
AwsSecrets ==
    {"access-key", "secret-key", "temp-access-key", "temp-secret-key", "session-token"}

BaselineCredentials ==
    {"authorization", "x-api-key", "api-key", "x-amz-security-token", "cookie"}

(* AddSecret: "replaced wherever its exact bytes appear", so never an empty *)
(* one.                                                                     *)
AddSecrets(secrets) == secrets \ {""}

BuiltRules ==
    [credential |-> BaselineCredentials \cup inv.profile.credential \cup inv.scrub,
     params |-> inv.profile.params,
     secrets |-> AddSecrets({Key} \cup IF inv.auth = "aws-sigv4" THEN AwsSecrets ELSE {})]

(* The transport is chosen before any body is read.                         *)
AwsStream == inv.bucket = "stream"

-----------------------------------------------------------------------------
(* Requests                                                                 *)

AuthHeader ==
    CASE Style = "bearer" -> [authorization |-> Key]
      [] Style \in {"x-api-key", "api-key"} -> [name \in {Style} |-> Key]
      [] Style = "aws-sigv4" ->
            [name \in {"authorization", "x-amz-security-token"} |->
               IF name = "authorization" THEN "signature" ELSE "session-token"]
      [] OTHER -> NoFields

(* -H is set before the credential, which wins; the AWS style takes none.   *)
RequestHeaders ==
    LET extra == IF Style = "aws-sigv4" THEN {} ELSE inv.headers
    IN [name \in {"content-type"} \cup extra \cup DOMAIN AuthHeader |->
          IF name \in DOMAIN AuthHeader THEN AuthHeader[name]
          ELSE IF name \in extra THEN "extra" ELSE "application/json"]

(* The model is in the path, and so is whether to stream.                   *)
RewriteBedrockBody(body) ==
    Object([f \in (FieldsOf(body) \ {"model", "stream"}) \cup {"anthropic_version"} |->
              IF f = "anthropic_version" THEN "bedrock-2023-05-31" ELSE body.at[f]])

Buildable(body) ==
    /\ Style = "aws-sigv4" => body.kind = "object"
    /\ Style \in {"bearer", "x-api-key", "api-key", "query", "none", "aws-sigv4"}

BuildRequest(body) ==
    [url |-> IF Style # "aws-sigv4" THEN "endpoint"
             ELSE IF AwsStream THEN "invoke-with-response-stream" ELSE "invoke",
     params |-> IF Style = "query" THEN [p \in {inv.param} |-> Key] ELSE NoFields,
     headers |-> RequestHeaders,
     body |-> IF Style = "aws-sigv4" THEN RewriteBedrockBody(body) ELSE body]

(* rec.ScrubQueryParam writes to the rules that every recorder of the run   *)
(* shares, again for each request.                                          *)
ScrubQueryParam(r) == IF Style = "query" THEN [r EXCEPT !.params = @ \cup {inv.param}] ELSE r

-----------------------------------------------------------------------------
(* Responses: the vendor accepts the request, refuses it (400, 422), or     *)
(* answers something else.                                                  *)

Plain(verdict) == [verdict |-> verdict, type |-> "json", frames |-> <<>>, cut |-> FALSE]

Responses(request) ==
    {Plain(v) : v \in {"accepted", "refused", "other"}} \cup
    IF request.url = "invoke-with-response-stream"
    THEN [verdict : {"accepted"}, type : {"eventstream"}, frames : FrameSeqs, cut : BOOLEAN]
    ELSE {}

(* A frame has bytes when it wraps an event.                                *)
HasBytes(frame) == frame \notin {"exception"}

(* decodeBedrockEventstream: an error in a frame discards all of it.        *)
Decodes(resp) == resp.type = "eventstream" => ~resp.cut

(* bedrockStreamTransport, the AWS style's when it is to stream.            *)
Decoded(resp) ==
    IF resp.type = "eventstream"
    THEN [resp EXCEPT !.type = "sse", !.frames = SelectSeq(@, HasBytes)] ELSE resp

-----------------------------------------------------------------------------
(* Jobs                                                                     *)

Job(kind, of, bucket, body) == [kind |-> kind, of |-> of, bucket |-> bucket, body |-> body]

BucketStream(bodyStream) ==
    IF inv.bucket = "auto" THEN bodyStream ELSE inv.bucket = "stream"

Bucket(bodyStream) == IF BucketStream(bodyStream) THEN "stream" ELSE "nostream"

BatchBody(dir, name) == WithModel(dir.bodies[name], ManifestOf(dir).model_field, Model)

BatchJobs(dir) ==
    LET names == SetToSeq(DOMAIN dir.bodies)
    IN [i \in DOMAIN names |->
          Job("scenario", names[i], Bucket(ScenarioStream(dir, names[i])),
              BatchBody(dir, names[i]))]

(* A pack without a model in its bodies needs one in the URL; one that does *)
(* not signal streaming needs --bucket.                                     *)
BatchBegins(dir) ==
    /\ Loads(dir)
    /\ ManifestOf(dir).model_field = "" => inv.named
    /\ ManifestOf(dir).stream_field = "" => inv.bucket # "auto"

BodyIn(dir, name) == IF name \in DOMAIN dir.bodies THEN dir.bodies[name] ELSE Absent

Full(dir) == BodyIn(dir, "chat_full_params")

(* Probing takes two files and no manifest.                                 *)
ProbeBase(dir) == WithModel(BodyIn(dir, "chat_basic"), "model", Model)

ProbeBegins(dir) ==
    /\ TakesModel(BodyIn(dir, "chat_basic"), "model")
    /\ ProbesBuild(ProbeBase(dir), Full(dir))

(* The baseline, and then the fields.                                       *)
ProbeJobs(dir) ==
    LET fields == SetToSeq(ProbeFields(Full(dir)))
    IN <<Job("baseline", "", "", ProbeBase(dir))>> \o
       [i \in DOMAIN fields |->
          Job("probe", fields[i], "fields", ProbeBody(ProbeBase(dir), Full(dir), fields[i]))]

-----------------------------------------------------------------------------

NoRules == [credential |-> {}, params |-> {}, secrets |-> {}]

RequestInit(use) ==
    /\ inv = use
    /\ rules = NoRules
    /\ jobs = <<>>
    /\ sent = <<>>
    /\ status = "none"

Configure ==
    /\ status = "none" /\ inv # NoInvocation
    /\ inv.key # "" \/ inv.auth = "none"
    /\ rules' = BuiltRules
    /\ status' = "configured"
    /\ UNCHANGED <<inv, jobs, sent>>

Ends(how) == status' = how /\ UNCHANGED <<inv, rules, jobs, sent>>

(* No key; a profile that does not parse or has a malformed replacement; no *)
(* token or no role.                                                        *)
ConfigureFails == status = "none" /\ inv # NoInvocation /\ Ends("error")

BodyDir == packs[inv.dir]

Begins ==
    CASE inv.mode = "single" -> inv.body.kind # "absent"
      [] inv.mode = "batch" -> BatchBegins(BodyDir)
      [] inv.mode = "probe" -> ProbeBegins(BodyDir)

JobsOf ==
    CASE inv.mode = "single" ->
            <<Job("single", "", Bucket(IsTrue(inv.body, "stream")), inv.body)>>
      [] inv.mode = "batch" -> BatchJobs(BodyDir)
      [] inv.mode = "probe" -> ProbeJobs(BodyDir)

Begin ==
    /\ status = "configured"
    /\ Begins
    /\ jobs' = JobsOf
    /\ status' = "running"
    /\ UNCHANGED <<inv, rules, sent>>

(* The pack or body is not fit for it, or a file is in the way.             *)
BeginFails == status = "configured" /\ Ends("error")

Sending == status = "running" /\ jobs # <<>>
NextJob == Head(jobs)

(* A single recording and the baseline of a probe run end the command when  *)
(* they do not succeed; a batch and the fields go on.                       *)
GoesOn == NextJob.kind \in {"scenario", "probe"}

After(ok) ==
    /\ jobs' = Tail(jobs)
    /\ status' = IF ok \/ GoesOn THEN "running" ELSE "error"
    /\ UNCHANGED inv

(* A cassette is written of what was accepted, and of a refused field.      *)
Kept(job, resp) ==
    \/ resp.verdict = "accepted" /\ job.kind # "baseline"
    \/ resp.verdict = "refused" /\ job.kind = "probe"

Blanked(r, request) ==
    (DOMAIN request.headers \cap r.credential) \cup (DOMAIN request.params \cap r.params)

Send ==
    /\ Sending
    /\ Buildable(NextJob.body)
    /\ rules' = ScrubQueryParam(rules)
    /\ LET request == BuildRequest(NextJob.body)
       IN \E resp \in Responses(request) :
             /\ Decodes(resp)
             /\ sent' = Append(sent, [job |-> NextJob, request |-> request, resp |-> resp,
                                      answer |-> Decoded(resp),
                                      kept |-> Kept(NextJob, resp),
                                      blanked |-> Blanked(rules', request)])
             /\ After(resp.verdict = "accepted")

(* No request can be built, the call fails, or its answer cannot be decoded.*)
(* (The parameter has been added to the rules all the same.)                *)
SendFails ==
    /\ Sending
    /\ rules' = ScrubQueryParam(rules)
    /\ After(FALSE)
    /\ UNCHANGED sent

(* A scenario whose cassette is there already, or a field that cannot name  *)
(* one, is passed over before a request is built.                           *)
Skip ==
    /\ Sending /\ NextJob.kind # "baseline"
    /\ After(FALSE)
    /\ UNCHANGED <<rules, sent>>

RecordEnds == status = "running" /\ jobs = <<>> /\ Ends("done")

RequestNext ==
    \/ Configure
    \/ ConfigureFails
    \/ Begin
    \/ BeginFails
    \/ Send
    \/ SendFails
    \/ Skip
    \/ RecordEnds

RequestTypeOK ==
    /\ inv.mode \in {"none", "single", "batch", "probe"}
    /\ DOMAIN rules = DOMAIN NoRules
    /\ \A i \in DOMAIN jobs : jobs[i].bucket \in {"stream", "nostream", "fields", ""}
    /\ \A i \in DOMAIN sent : sent[i].resp \in Responses(sent[i].request)
    /\ status \in {"none", "configured", "running", "done", "error"}

-----------------------------------------------------------------------------
(* Properties                                                               *)

(* Two nets under every credential.  Wherever buildRequest puts the key or  *)
(* what stands for it, in whichever of the requests of a run, the copy has  *)
(* that header or parameter blanked by name; and the values themselves are  *)
(* registered, none of them empty, which would be found everywhere.  An -H  *)
(* of the same name does not take the credential's place.                   *)
Carriers == IF Style = "query" THEN {inv.param} ELSE DOMAIN AuthHeader

KeyCovered ==
    \A i \in DOMAIN sent :
       LET r == sent[i].request
       IN /\ Carriers \subseteq sent[i].blanked
          /\ Style = "query" => r.params[inv.param] = Key
          /\ Style # "query" => \A name \in Carriers : r.headers[name] = AuthHeader[name]
          /\ {Key} \ {""} \subseteq rules.secrets /\ "" \notin rules.secrets
          /\ Style = "aws-sigv4" => AwsSecrets \subseteq rules.secrets

(* A place in the corpus tells what was asked for.  What lies in stream/ by *)
(* itself (--bucket auto) was asked for as a stream, what lies in nostream/ *)
(* was not; Bedrock is asked as --bucket says.  What lies in fields/ or     *)
(* fields-rejected/ was sent with that field, its companions, the model and *)
(* the messages, all as the pack has them, and nothing else.  Left out is   *)
(* Bedrock without --bucket, where the body's wish is dropped after the     *)
(* place was chosen, and its probes, where the field itself may be dropped. *)
BucketTells(x) ==
    CASE inv.auth = "aws-sigv4" /\ inv.bucket # "auto" ->
            x.job.bucket = "stream" <=> x.request.url = "invoke-with-response-stream"
      [] inv.auth # "aws-sigv4" /\ inv.bucket = "auto" ->
            x.job.bucket = "stream" <=>
               IsTrue(x.request.body, IF inv.mode = "single" THEN "stream"
                                      ELSE ManifestOf(BodyDir).stream_field)
      [] OTHER -> TRUE

Needs(field) ==
    CASE field \in {"tool_choice", "parallel_tool_calls"} -> {"tools"}
      [] field = "audio" -> {"modalities"}
      [] field = "stream_options" /\ field \notin FieldsOf(Full(BodyDir)) -> {"stream"}
      [] OTHER -> {}

FieldTells(x) ==
    LET body == x.request.body
        field == x.job.of
    IN /\ FieldsOf(body) = {"model", "messages", field} \cup Needs(field)
       /\ body.at["messages"] = BodyIn(BodyDir, "chat_basic").at["messages"]
       /\ "stream" \in FieldsOf(body) => body.at["stream"] = "true"
       /\ \A f \in FieldsOf(Full(BodyDir)) \cap FieldsOf(body) :
             \/ f \in {"model", "messages", "stream"}
             \/ f = "modalities" /\ field = "audio"
             \/ body.at[f] = Full(BodyDir).at[f]

PlaceTellsRequest ==
    \A i \in DOMAIN sent : sent[i].kept =>
       /\ sent[i].job.kind \in {"scenario", "single"} => BucketTells(sent[i])
       /\ sent[i].job.kind = "probe" /\ inv.auth # "aws-sigv4" => FieldTells(sent[i])

(* No recording of a pack keeps the model the pack was committed with,      *)
(* while its path names the vendor's: the body has --model, under whichever *)
(* name the pack has for it, or the URL has, and then the body has none.    *)
VendorsModelSent ==
    \A i \in DOMAIN sent : inv.mode \in {"batch", "probe"} /\ inv.auth # "aws-sigv4" =>
       LET body == sent[i].request.body
           field == ManifestOf(BodyDir).model_field
       IN IF "model" \in FieldsOf(body) THEN body.at["model"] = Model
          ELSE inv.named \/ (field \in FieldsOf(body) /\ body.at[field] = Model)
=============================================================================
