---------------------------- MODULE PackUseProofs ----------------------------
(***************************************************************************)
(* Theorems about PackUse, for every collection of packs, specifications,   *)
(* audits and invocations: the credentials of a request are covered, and    *)
(* the exit code of an audit is true.  The steps of audit and record share  *)
(* no variable but the packs, which neither writes, so that either has an   *)
(* invariant of its own.                                                    *)
(***************************************************************************)
EXTENDS PackUse, FiniteSetTheorems, SequenceTheorems, LeastNumber

-----------------------------------------------------------------------------
(* Sequences                                                                *)

(* A finite set is listed without leaving out or repeating an element.      *)
LEMMA Listed ==
    ASSUME NEW S, IsFiniteSet(S)
    PROVE  /\ SetToSeq(S) \in Seq(S) /\ Range(SetToSeq(S)) = S
           /\ DOMAIN SetToSeq(S) = 1 .. Cardinality(S) /\ Cardinality(S) \in Nat
<1> DEFINE n == Cardinality(S)
           f == SetToSeq(S)
<1>1. n \in Nat /\ ExistsBijection(1 .. n, S) BY FS_CardinalityType
<1>2. \E g \in [1 .. n -> S] : IsInjective(g)
  BY <1>1 DEF ExistsBijection, Bijection, Injection
<1>3. f \in [1 .. n -> S] /\ IsInjective(f) BY <1>2 DEF SetToSeq
<1>4. Cardinality(1 .. n) = n BY <1>1, FS_Interval
<1>5. f \in Surjection(1 .. n, S) BY <1>3, <1>4, FS_Injection DEF Injection
<1>6. f \in Seq(S) BY <1>1, <1>3
<1>7. Range(f) = S BY <1>3, <1>5 DEF Range, Surjection
<1> QED BY <1>1, <1>3, <1>6, <1>7

(* The rest of a sequence has all its elements but the first.               *)
LEMMA Rest ==
    ASSUME NEW S, NEW s \in Seq(S), s # <<>>
    PROVE  Tail(s) \in Seq(S) /\ Head(s) \in S /\ Range(s) = {Head(s)} \cup Range(Tail(s))
<1>1. Len(s) \in Nat \ {0} /\ DOMAIN s = 1 .. Len(s) BY EmptySeq, LenProperties
<1>2. /\ Tail(s) \in Seq(S) /\ Len(Tail(s)) = Len(s) - 1
      /\ \A i \in 1 .. Len(s) - 1 : Tail(s)[i] = s[i + 1]
  BY HeadTailProperties
<1>3. Head(s) = s[1] /\ s[1] \in S BY <1>1, ElementOfSeq
<1>4. DOMAIN Tail(s) = 1 .. Len(s) - 1 BY <1>1, <1>2, LenProperties
<1>5. ASSUME NEW i \in 1 .. Len(s), i # 1
      PROVE  i - 1 \in 1 .. Len(s) - 1 /\ Tail(s)[i - 1] = s[i]
  <2>1. i - 1 \in 1 .. Len(s) - 1 /\ (i - 1) + 1 = i BY <1>1, <1>5
  <2> QED BY <1>2, <2>1
<1>6. Range(s) \subseteq {Head(s)} \cup Range(Tail(s))
  <2>1. ASSUME NEW i \in 1 .. Len(s), i # 1 PROVE s[i] \in Range(Tail(s))
    BY <1>4, <1>5, <2>1 DEF Range
  <2>2. ASSUME NEW i \in 1 .. Len(s) PROVE s[i] = Head(s) \/ s[i] \in Range(Tail(s))
    BY <1>3, <2>1
  <2> QED BY <1>1, <2>2 DEF Range
<1>7. \A i \in 1 .. Len(s) - 1 : i + 1 \in 1 .. Len(s) BY <1>1
<1>8. Range(Tail(s)) \subseteq Range(s) BY <1>1, <1>2, <1>4, <1>7 DEF Range
<1>9. Head(s) \in Range(s) BY <1>1, <1>3 DEF Range
<1> QED BY <1>2, <1>3, <1>6, <1>8, <1>9

(* A sequence is one of its own elements.                                   *)
LEMMA Own ==
    ASSUME NEW S, NEW s \in Seq(S) PROVE s \in Seq(Range(s))
<1>1. Len(s) \in Nat /\ s \in [1 .. Len(s) -> S] BY LenProperties
<1>2. \A i \in 1 .. Len(s) : s[i] \in Range(s) BY <1>1 DEF Range
<1>3. s \in [1 .. Len(s) -> Range(s)] BY <1>1, <1>2
<1> QED BY <1>1, <1>3

(* What is appended is behind what was there.                               *)
LEMMA Behind ==
    ASSUME NEW s, s \in Seq(Range(s)), NEW x
    PROVE  /\ Append(s, x) \in Seq(Range(Append(s, x)))
           /\ Len(Append(s, x)) = Len(s) + 1
           /\ \A i \in 1 .. Len(s) : Append(s, x)[i] = s[i]
           /\ Append(s, x)[Len(s) + 1] = x
           /\ Range(Append(s, x)) = Range(s) \cup {x}
<1> DEFINE S == Range(s) \cup {x}
           t == Append(s, x)
<1> HIDE DEF S, t
<1>1. s \in Seq(S) /\ x \in S BY DEF S
<1>2. /\ t \in Seq(S) /\ Len(t) = Len(s) + 1
      /\ \A i \in 1 .. Len(s) : t[i] = s[i]
      /\ t[Len(s) + 1] = x
  BY <1>1, AppendProperties DEF t
<1>3. Len(s) \in Nat /\ DOMAIN s = 1 .. Len(s) /\ DOMAIN t = 1 .. Len(s) + 1
  BY <1>1, <1>2, LenProperties
<1>4. Range(t) = S
  <2>1. \A i \in 1 .. Len(s) + 1 : i \in 1 .. Len(s) \/ i = Len(s) + 1 BY <1>3
  <2>2. \A i \in 1 .. Len(s) : i \in 1 .. Len(s) + 1 BY <1>3
  <2>3. Len(s) + 1 \in 1 .. Len(s) + 1 BY <1>3
  <2> QED BY <1>2, <1>3, <2>1, <2>2, <2>3 DEF Range, S
<1> QED BY <1>2, <1>4 DEF S, t

-----------------------------------------------------------------------------
(* The request side                                                         *)

(* What the rules owe to the key from Configure on.                         *)
Registered ==
    /\ BaselineCredentials \subseteq rules.credential
    /\ {Key} \ {""} \subseteq rules.secrets /\ "" \notin rules.secrets
    /\ Style = "aws-sigv4" => AwsSecrets \subseteq rules.secrets

(* What one request carries, and its copy does not.                         *)
Covered(x) ==
    /\ Carriers \subseteq x.blanked
    /\ Style = "query" => x.request.params[inv.param] = Key
    /\ Style # "query" => \A name \in Carriers : x.request.headers[name] = AuthHeader[name]

RequestInv ==
    /\ DOMAIN rules = DOMAIN NoRules
    /\ status \in {"configured", "running"} \/ sent # <<>> => Registered
    /\ sent \in Seq({sent[i] : i \in DOMAIN sent})
    /\ \A i \in DOMAIN sent : Covered(sent[i])

-----------------------------------------------------------------------------

(* Every header that holds a credential is one the baseline blanks.         *)
LEMMA BaselineCovers ==
    Style # "query" => Carriers \subseteq BaselineCredentials
<1>1. DOMAIN AuthHeader \subseteq BaselineCredentials
  <2>1. CASE Style = "bearer" BY <2>1 DEF AuthHeader, BaselineCredentials
  <2>2. CASE Style \in {"x-api-key", "api-key"} BY <2>2 DEF AuthHeader, BaselineCredentials
  <2>3. CASE Style = "aws-sigv4" BY <2>3 DEF AuthHeader, BaselineCredentials
  <2>4. CASE Style \notin {"bearer", "x-api-key", "api-key", "aws-sigv4"}
    BY <2>4 DEF AuthHeader, NoFields
  <2> QED BY <2>1, <2>2, <2>3, <2>4
<1> QED BY <1>1 DEF Carriers

(* The rules that Configure builds register the key and what AWS brings.    *)
LEMMA BuiltRegister == rules' = BuiltRules /\ UNCHANGED inv => Registered'
<1> SUFFICES ASSUME rules' = BuiltRules, inv' = inv PROVE Registered' OBVIOUS
<1>1. Style' = Style /\ Key' = Key BY DEF Style, Key
<1>2. BaselineCredentials \subseteq rules'.credential BY DEF BuiltRules
<1>3. rules'.secrets = ({Key} \cup IF inv.auth = "aws-sigv4" THEN AwsSecrets ELSE {}) \ {""}
  BY DEF BuiltRules, AddSecrets
<1>4. {Key} \ {""} \subseteq rules'.secrets /\ "" \notin rules'.secrets BY <1>3
<1>5. Style = "aws-sigv4" => AwsSecrets \subseteq rules'.secrets
  BY <1>3 DEF Style, AwsSecrets
<1> QED BY <1>1, <1>2, <1>4, <1>5 DEF Registered, BaselineCredentials, AwsSecrets
(* Adding the parameter keeps what is registered.                           *)
LEMMA ParamKeeps ==
    DOMAIN rules = DOMAIN NoRules =>
       /\ DOMAIN ScrubQueryParam(rules) = DOMAIN NoRules
       /\ ScrubQueryParam(rules).credential = rules.credential
       /\ ScrubQueryParam(rules).secrets = rules.secrets
       /\ Style = "query" => inv.param \in ScrubQueryParam(rules).params
BY DEF ScrubQueryParam, NoRules

(* A request that is built under such rules is covered.                     *)
LEMMA BuiltCovered ==
    ASSUME NEW body, NEW r, BaselineCredentials \subseteq r.credential,
           Style = "query" => inv.param \in r.params
    PROVE  LET request == BuildRequest(body)
           IN /\ Carriers \subseteq Blanked(r, request)
              /\ Style = "query" => request.params[inv.param] = Key
              /\ Style # "query" =>
                    \A name \in Carriers : request.headers[name] = AuthHeader[name]
<1> DEFINE request == BuildRequest(body)
<1>1. request.headers = RequestHeaders BY DEF BuildRequest
<1>2. request.params = IF Style = "query" THEN [p \in {inv.param} |-> Key] ELSE NoFields
  BY DEF BuildRequest
<1>3. CASE Style = "query" BY <1>2, <1>3 DEF Carriers, Blanked
<1>4. CASE Style # "query"
  <2>1. Carriers = DOMAIN AuthHeader BY <1>4 DEF Carriers
  <2>2. \A name \in Carriers : name \in DOMAIN RequestHeaders
                              /\ RequestHeaders[name] = AuthHeader[name]
    BY <2>1 DEF RequestHeaders
  <2> QED BY <1>1, <1>4, <2>1, <2>2, BaselineCovers DEF Blanked
<1> QED BY <1>3, <1>4

-----------------------------------------------------------------------------

(* A step that adds no request keeps the invariant when it keeps or builds  *)
(* the rules.                                                               *)
LEMMA QuietKeeps ==
    ASSUME RequestInv, UNCHANGED <<inv, sent>>, DOMAIN rules' = DOMAIN NoRules,
           status' \in {"configured", "running"} \/ sent' # <<>> => Registered'
    PROVE  RequestInv'
<1>1. ASSUME NEW x PROVE Covered(x)' <=> Covered(x)
  BY DEF Covered, Carriers, Style, Key, AuthHeader
<1> QED BY <1>1 DEF RequestInv, NoRules

(* Registered is about the names and secrets alone.                         *)
LEMMA RegisteredKept ==
    ASSUME Registered, UNCHANGED inv, rules'.credential = rules.credential,
           rules'.secrets = rules.secrets
    PROVE  Registered'
BY DEF Registered, Style, Key, BaselineCredentials, AwsSecrets

(* Every step of an invocation of record keeps its part: rules only grow,   *)
(* and a request that is added is covered.                                  *)
LEMMA RequestStep ==
    ASSUME RequestInv, RequestNext PROVE RequestInv'
<1>1. CASE Configure
  <2>1. Registered' BY <1>1, BuiltRegister DEF Configure
  <2>2. DOMAIN rules' = DOMAIN NoRules BY <1>1 DEF Configure, BuiltRules, NoRules
  <2> QED BY <1>1, <2>1, <2>2, QuietKeeps DEF Configure
<1>2. CASE ConfigureFails \/ BeginFails \/ RecordEnds
  <2>1. UNCHANGED <<inv, rules, sent>> /\ status' \in {"error", "done"}
    BY <1>2 DEF ConfigureFails, BeginFails, RecordEnds, Ends
  <2>2. sent' # <<>> => Registered' BY <2>1, RegisteredKept DEF RequestInv
  <2> QED BY <2>1, <2>2, QuietKeeps DEF RequestInv, NoRules
<1>3. CASE Begin
  <2>1. Registered' BY <1>3, RegisteredKept DEF RequestInv, Begin
  <2> QED BY <1>3, <2>1, QuietKeeps DEF Begin, RequestInv, NoRules
<1>4. CASE Skip
  <2>1. Registered' BY <1>4, RegisteredKept DEF RequestInv, Skip, Sending, After
  <2> QED BY <1>4, <2>1, QuietKeeps DEF Skip, After, RequestInv, NoRules
<1>5. CASE SendFails
  <2>1. Registered'
    BY <1>5, RegisteredKept, ParamKeeps DEF RequestInv, SendFails, Sending, After
  <2>2. DOMAIN rules' = DOMAIN NoRules BY <1>5, ParamKeeps DEF RequestInv, SendFails
  <2> QED BY <1>5, <2>1, <2>2, QuietKeeps DEF SendFails, After
<1>6. CASE Send
  <2>1. Registered /\ rules' = ScrubQueryParam(rules) /\ UNCHANGED inv
    BY <1>6 DEF RequestInv, Send, Sending, After
  <2>2. Registered' BY <2>1, RegisteredKept, ParamKeeps DEF RequestInv
  <2>3. DOMAIN rules' = DOMAIN NoRules BY <2>1, ParamKeeps DEF RequestInv
  <2>4. PICK x : sent' = Append(sent, x) /\ Covered(x)
    <3> DEFINE request == BuildRequest(NextJob.body)
    <3>1. PICK resp :
             sent' = Append(sent, [job |-> NextJob, request |-> request, resp |-> resp,
                                   answer |-> Decoded(resp),
                                   kept |-> Kept(NextJob, resp),
                                   blanked |-> Blanked(rules', request)])
      BY <1>6 DEF Send
    <3> DEFINE x == [job |-> NextJob, request |-> request, resp |-> resp,
                     answer |-> Decoded(resp), kept |-> Kept(NextJob, resp),
                     blanked |-> Blanked(rules', request)]
    <3>2. BaselineCredentials \subseteq rules'.credential
      BY <2>1, ParamKeeps DEF RequestInv, Registered
    <3>3. Style = "query" => inv.param \in rules'.params
      BY <2>1, ParamKeeps DEF RequestInv
    <3>4. x.request = request /\ x.blanked = Blanked(rules', request) OBVIOUS
    <3>5. Covered(x) BY <3>2, <3>3, <3>4, BuiltCovered DEF Covered
    <3> HIDE DEF x, request
    <3> QED BY <3>1, <3>5 DEF x
  <2> DEFINE S == {sent[i] : i \in DOMAIN sent} \cup {x}
  <2>5. sent \in Seq(S) BY DEF RequestInv
  <2>6. /\ sent' \in Seq(S) /\ Len(sent') = Len(sent) + 1
        /\ \A i \in 1 .. Len(sent) : sent'[i] = sent[i]
        /\ sent'[Len(sent) + 1] = x
    <3> HIDE DEF S
    <3>1. x \in S BY DEF S
    <3> QED BY <2>4, <2>5, <3>1, AppendProperties
  <2>7. sent' \in Seq({sent'[i] : i \in DOMAIN sent'}) BY <2>6
  <2>8. \A i \in DOMAIN sent' : Covered(sent'[i])
    BY <2>4, <2>5, <2>6, ElementOfSeq, LenProperties DEF RequestInv
  <2>9. ASSUME NEW y PROVE Covered(y)' <=> Covered(y)
    BY <2>1 DEF Covered, Carriers, Style, Key, AuthHeader
  <2> QED BY <2>2, <2>3, <2>7, <2>8, <2>9 DEF RequestInv, NoRules
<1> QED BY <1>1, <1>2, <1>3, <1>4, <1>5, <1>6 DEF RequestNext
-----------------------------------------------------------------------------
(* The jobs                                                                 *)

InUse == \E use \in Uses : packs = use.packs /\ inv = use.inv

(* What a mode makes a job of.                                              *)
SingleJob(j) == j = Job("single", "", Bucket(IsTrue(inv.body, "stream")), inv.body)

BatchJob(j, name) ==
    j = Job("scenario", name, Bucket(ScenarioStream(BodyDir, name)), BatchBody(BodyDir, name))

BaselineJob(j) == j = Job("baseline", "", "", ProbeBase(BodyDir))

FieldJob(j, field) ==
    j = Job("probe", field, "fields", ProbeBody(ProbeBase(BodyDir), Full(BodyDir), field))

Made(j) ==
    \/ inv.mode = "single" /\ SingleJob(j)
    \/ inv.mode = "batch" /\ \E name \in DOMAIN BodyDir.bodies : BatchJob(j, name)
    \/ inv.mode = "probe" /\ BaselineJob(j)
    \/ inv.mode = "probe" /\ \E field \in ProbeFields(Full(BodyDir)) : FieldJob(j, field)

(* The parts of a job.                                                      *)
LEMMA JobParts ==
    \A kind, of, bucket, body, j : j = Job(kind, of, bucket, body) =>
       j.kind = kind /\ j.of = of /\ j.bucket = bucket /\ j.body = body
BY DEF Job

(* Those of the job of each mode.                                           *)
LEMMA MadeParts ==
    \A j :
       /\ SingleJob(j) => /\ j.kind = "single" /\ j.body = inv.body
                          /\ j.bucket = Bucket(IsTrue(inv.body, "stream"))
       /\ \A name : BatchJob(j, name) =>
             /\ j.kind = "scenario" /\ j.body = BatchBody(BodyDir, name)
             /\ j.bucket = Bucket(ScenarioStream(BodyDir, name))
       /\ BaselineJob(j) =>
             j.kind = "baseline" /\ j.bucket = "" /\ j.body = ProbeBase(BodyDir)
       /\ \A field : FieldJob(j, field) =>
             /\ j.kind = "probe" /\ j.of = field /\ j.bucket = "fields"
             /\ j.body = ProbeBody(ProbeBase(BodyDir), Full(BodyDir), field)
<1>1. ASSUME NEW j, SingleJob(j)
      PROVE  /\ j.kind = "single" /\ j.body = inv.body
             /\ j.bucket = Bucket(IsTrue(inv.body, "stream"))
  <2>1. j = [kind |-> "single", of |-> "",
             bucket |-> Bucket(IsTrue(inv.body, "stream")), body |-> inv.body]
    BY <1>1, Zenon DEF SingleJob, Job
  <2>2. j.kind = "single" BY <2>1, Zenon
  <2>3. j.body = inv.body BY <2>1, Zenon
  <2>4. j.bucket = Bucket(IsTrue(inv.body, "stream")) BY <2>1, Zenon
  <2> QED BY <2>2, <2>3, <2>4
<1>2. ASSUME NEW j, NEW name, BatchJob(j, name)
      PROVE  /\ j.kind = "scenario" /\ j.body = BatchBody(BodyDir, name)
             /\ j.bucket = Bucket(ScenarioStream(BodyDir, name))
  BY <1>2, JobParts DEF BatchJob
<1>3. ASSUME NEW j, BaselineJob(j)
      PROVE  j.kind = "baseline" /\ j.bucket = "" /\ j.body = ProbeBase(BodyDir)
  <2>1. j = [kind |-> "baseline", of |-> "", bucket |-> "", body |-> ProbeBase(BodyDir)]
    BY <1>3, Zenon DEF BaselineJob, Job
  <2>2. j.kind = "baseline" BY <2>1, Zenon
  <2>3. j.body = ProbeBase(BodyDir) BY <2>1, Zenon
  <2>4. j.bucket = "" BY <2>1, Zenon
  <2> QED BY <2>2, <2>3, <2>4, Zenon
<1>4. ASSUME NEW j, NEW field, FieldJob(j, field)
      PROVE  /\ j.kind = "probe" /\ j.of = field /\ j.bucket = "fields"
             /\ j.body = ProbeBody(ProbeBase(BodyDir), Full(BodyDir), field)
  BY <1>4, JobParts DEF FieldJob
<1> QED BY <1>1, <1>2, <1>3, <1>4, Zenon

(* A batch has a job for each body.                                         *)
LEMMA BatchListed ==
    ASSUME InUse, inv.mode = "batch"
    PROVE  /\ JobsOf \in Seq(Range(JobsOf))
           /\ Len(JobsOf) = Cardinality(DOMAIN BodyDir.bodies)
           /\ \A j \in Range(JobsOf) : Made(j)
           /\ \A name \in DOMAIN BodyDir.bodies : \E j \in Range(JobsOf) : BatchJob(j, name)
<1> DEFINE D == DOMAIN BodyDir.bodies
           names == SetToSeq(D)
           J == [i \in DOMAIN names |->
                   Job("scenario", names[i], Bucket(ScenarioStream(BodyDir, names[i])),
                       BatchBody(BodyDir, names[i]))]
<1>1. IsFiniteSet(D)
  <2>1. PICK use \in Uses : packs = use.packs /\ inv = use.inv BY DEF InUse
  <2>2. inv.dir \in DOMAIN packs BY <2>1, UsesAssumption
  <2> QED BY <2>1, <2>2, UsesAssumption DEF BodyDir
<1>2. JobsOf = J BY DEF JobsOf, BatchJobs
<1> HIDE DEF D
<1>3. /\ names \in Seq(D) /\ Range(names) = D
      /\ DOMAIN names = 1 .. Cardinality(D) /\ Cardinality(D) \in Nat
  BY <1>1, Listed
<1> HIDE DEF names
<1>4. DOMAIN J = 1 .. Cardinality(D) BY <1>3
<1>5. \A i \in DOMAIN names : BatchJob(J[i], names[i]) /\ names[i] \in D
  <2>1. \A i \in DOMAIN names : names[i] \in D BY <1>3 DEF Range
  <2> QED BY <2>1 DEF BatchJob
<1>6. \A name \in D : \E i \in DOMAIN names : names[i] = name BY <1>3 DEF Range
<1>7. \A i \in DOMAIN J : J[i] \in Range(J) BY DEF Range
<1>8. J \in [1 .. Cardinality(D) -> Range(J)] BY <1>4, <1>7
<1>9. J \in Seq(Range(J)) /\ Len(J) = Cardinality(D) BY <1>3, <1>8
<1>10. \A j \in Range(J) : \E i \in DOMAIN names : j = J[i] BY DEF Range
<1>11. \A j \in Range(J) : \E name \in D : BatchJob(j, name) BY <1>5, <1>10
<1>12. \A name \in D : \E j \in Range(J) : BatchJob(j, name)
  BY <1>3, <1>4, <1>5, <1>6, <1>7
<1> HIDE DEF J
<1> QED BY <1>2, <1>9, <1>11, <1>12 DEF Made, D

(* A probe run has one for each field, and the baseline.                    *)
LEMMA ProbesListed ==
    ASSUME InUse, inv.mode = "probe"
    PROVE  /\ JobsOf \in Seq(Range(JobsOf))
           /\ Len(JobsOf) = Cardinality(ProbeFields(Full(BodyDir))) + 1
           /\ \A j \in Range(JobsOf) : Made(j)
           /\ \E j \in Range(JobsOf) : BaselineJob(j)
           /\ \A field \in ProbeFields(Full(BodyDir)) :
                 \E j \in Range(JobsOf) : FieldJob(j, field)
<1> DEFINE F == ProbeFields(Full(BodyDir))
           fields == SetToSeq(F)
           first == Job("baseline", "", "", ProbeBase(BodyDir))
           probe(field) == Job("probe", field, "fields",
                               ProbeBody(ProbeBase(BodyDir), Full(BodyDir), field))
           P == [i \in DOMAIN fields |-> probe(fields[i])]
           S == {first} \cup {probe(field) : field \in F}
<1>1. IsFiniteSet(F)
  <2>1. PICK use \in Uses : packs = use.packs /\ inv = use.inv BY DEF InUse
  <2>2. inv.dir \in DOMAIN packs BY <2>1, UsesAssumption
  <2>3. IsFiniteSet(FieldsOf(Full(BodyDir)))
    <3>1. CASE "chat_full_params" \in DOMAIN BodyDir.bodies
      BY <2>1, <2>2, <3>1, UsesAssumption DEF Full, BodyIn, BodyDir
    <3>2. CASE "chat_full_params" \notin DOMAIN BodyDir.bodies
      BY <3>2, FS_EmptySet DEF Full, BodyIn, FieldsOf, Absent
    <3> QED BY <3>1, <3>2
  <2>4. IsFiniteSet(FieldsOf(Full(BodyDir)) \ Core) BY <2>3, FS_Difference
  <2>5. SyntheticProbeFields = {"stream_options"}
    BY DEF SyntheticProbeFields, SyntheticProbes
  <2>6. IsFiniteSet(SyntheticProbeFields) BY <2>5, FS_Singleton
  <2> QED BY <2>4, <2>6, FS_Union DEF ProbeFields
<1>2. JobsOf = <<first>> \o P BY DEF JobsOf, ProbeJobs
<1> HIDE DEF F
<1>3. /\ fields \in Seq(F) /\ Range(fields) = F
      /\ DOMAIN fields = 1 .. Cardinality(F) /\ Cardinality(F) \in Nat
  BY <1>1, Listed
<1> HIDE DEF fields, first, probe
<1>4. \A i \in DOMAIN fields : fields[i] \in F BY <1>3 DEF Range
<1>5. P \in [1 .. Cardinality(F) -> S] BY <1>3, <1>4
<1>6. P \in Seq(S) /\ Len(P) = Cardinality(F) BY <1>3, <1>5
<1>7. <<first>> \in Seq(S) /\ Len(<<first>>) = 1 /\ <<first>>[1] = first OBVIOUS
<1> DEFINE J == <<first>> \o P
<1> HIDE DEF P
<1>8. /\ J \in Seq(S) /\ Len(J) = Cardinality(F) + 1
      /\ J[1] = first /\ \A i \in 1 .. Cardinality(F) : J[i + 1] = P[i]
  <2> HIDE DEF S
  <2>1. J \in Seq(S) /\ Len(J) = Cardinality(F) + 1 BY <1>3, <1>6, <1>7
  <2>2. J[1] = first BY <1>3, <1>6, <1>7
  <2>3. ASSUME NEW i \in 1 .. Cardinality(F) PROVE J[i + 1] = P[i]
    BY <1>3, <1>6, <1>7
  <2> QED BY <2>1, <2>2, <2>3
<1> HIDE DEF J, S
<1>9. DOMAIN J = 1 .. Cardinality(F) + 1 BY <1>8, LenProperties
<1>10. J \in Seq(Range(J))
  <2>1. \A i \in DOMAIN J : J[i] \in Range(J) BY DEF Range
  <2>2. J \in [1 .. Cardinality(F) + 1 -> Range(J)] BY <1>8, <1>9, <2>1
  <2>3. Cardinality(F) + 1 \in Nat BY <1>3
  <2> QED BY <2>2, <2>3
<1>11. Range(J) \subseteq S
  <2>1. \A i \in 1 .. Len(J) : J[i] \in S BY <1>8, ElementOfSeq
  <2> QED BY <1>8, <1>9, <2>1 DEF Range
<1>12. first \in Range(J)
  <2>1. 1 \in DOMAIN J BY <1>3, <1>9
  <2> QED BY <1>8, <2>1 DEF Range
<1>13. \A field \in F : probe(field) \in Range(J)
  <2> TAKE field \in F
  <2>1. PICK i \in 1 .. Cardinality(F) : fields[i] = field BY <1>3 DEF Range
  <2>2. P[i] = probe(field) BY <1>3, <2>1 DEF P
  <2>3. i + 1 \in DOMAIN J BY <1>3, <1>9
  <2> QED BY <1>8, <2>2, <2>3 DEF Range
<1>14. BaselineJob(first) BY DEF BaselineJob, first
<1>15. \A field \in F : FieldJob(probe(field), field) BY DEF FieldJob, probe
<1>16. \A j \in Range(J) : Made(j) BY <1>11, <1>14, <1>15 DEF S, Made, F
<1> QED BY <1>2, <1>8, <1>10, <1>12, <1>13, <1>14, <1>15, <1>16 DEF J, F

(* In every mode the jobs are a sequence, each made as the mode makes them. *)
LEMMA JobsListed ==
    ASSUME InUse, inv # NoInvocation
    PROVE  /\ JobsOf \in Seq(Range(JobsOf))
           /\ \A j \in Range(JobsOf) : Made(j)
<1>1. inv.mode \in {"single", "batch", "probe"} BY UsesAssumption DEF InUse
<1>2. CASE inv.mode = "single"
  <2> DEFINE j == Job("single", "", Bucket(IsTrue(inv.body, "stream")), inv.body)
  <2>1. JobsOf = <<j>> BY <1>2 DEF JobsOf
  <2> HIDE DEF j
  <2>2. Range(<<j>>) = {j} BY DEF Range
  <2>3. <<j>> \in Seq({j}) OBVIOUS
  <2> QED BY <1>2, <2>1, <2>2, <2>3 DEF Made, SingleJob, j
<1> QED BY <1>1, <1>2, BatchListed, ProbesListed

-----------------------------------------------------------------------------
(* What is sent, and in which order                                         *)

Begun == status \in {"running", "done"} \/ jobs # <<>> \/ sent # <<>>

(* A request that was sent is the one built of a job.                       *)
FromJob(x) ==
    /\ x.job \in Range(JobsOf)
    /\ x.request = BuildRequest(x.job.body)
    /\ x.resp \in Responses(x.request)
    /\ x.kept => x.job.kind # "baseline"

(* The jobs left are the last ones; no more was sent than jobs are gone,    *)
(* and when as much was, each of them was.                                  *)
Counted ==
    /\ Len(jobs) + Len(sent) <= Len(JobsOf)
    /\ \A k \in 1 .. Len(jobs) : jobs[k] = JobsOf[Len(JobsOf) - Len(jobs) + k]
    /\ Len(jobs) + Len(sent) = Len(JobsOf) =>
          \A k \in 1 .. Len(sent) : sent[k].job = JobsOf[k]

PlaceInv ==
    /\ InUse
    /\ status \in {"none", "configured", "running", "done", "error"}
    /\ status # "none" => inv # NoInvocation
    /\ status \in {"none", "configured"} => jobs = <<>> /\ sent = <<>>
    /\ status = "done" => jobs = <<>>
    /\ jobs \in Seq(Range(jobs)) /\ sent \in Seq(Range(sent))
    /\ Begun => Begins /\ Counted
    /\ \A x \in Range(sent) : FromJob(x)

-----------------------------------------------------------------------------

(* The jobs and the requests depend on the invocation and the packs alone.  *)
LEMMA Same ==
    ASSUME UNCHANGED <<inv, packs>>
    PROVE  /\ JobsOf' = JobsOf /\ (Begins' <=> Begins) /\ (InUse' <=> InUse)
           /\ \A x : FromJob(x)' <=> FromJob(x)
<1>1. JobsOf' = JobsOf
  BY DEF JobsOf, BodyDir, Bucket, BucketStream, BatchJobs, BatchBody, ProbeJobs
<1>2. Begins' <=> Begins BY DEF Begins, BodyDir, BatchBegins, ProbeBegins
<1>3. InUse' <=> InUse BY DEF InUse
<1>4. ASSUME NEW body PROVE BuildRequest(body)' = BuildRequest(body)
  BY DEF BuildRequest, Style, Key, AwsStream, RequestHeaders, AuthHeader
<1>5. ASSUME NEW x PROVE FromJob(x)' <=> FromJob(x)
  BY <1>1, <1>4 DEF FromJob
<1> QED BY <1>1, <1>2, <1>3, <1>5

(* To go on to the next job is to send the first of those left, or not to.  *)
LEMMA Advances ==
    ASSUME PlaceInv, UNCHANGED <<inv, packs>>, Sending, jobs' = Tail(jobs),
           status' \in {"running", "error"},
           \/ sent' = sent
           \/ \E x : sent' = Append(sent, x) /\ x.job = Head(jobs) /\ FromJob(x)
    PROVE  PlaceInv'
<1> DEFINE J == JobsOf
<1>1. /\ InUse /\ inv # NoInvocation /\ Begins /\ Counted
      /\ jobs \in Seq(Range(jobs)) /\ sent \in Seq(Range(sent)) /\ jobs # <<>>
  BY DEF PlaceInv, Begun, Sending
<1>2. J \in Seq(Range(J)) /\ Len(J) \in Nat BY <1>1, JobsListed, LenProperties
<1>3. /\ Len(jobs) \in Nat \ {0} /\ Len(jobs') = Len(jobs) - 1
      /\ jobs' \in Seq(Range(jobs)) /\ Head(jobs) = jobs[1]
      /\ \A k \in 1 .. Len(jobs) - 1 : jobs'[k] = jobs[k + 1]
  BY <1>1, HeadTailProperties, EmptySeq, LenProperties
<1>4. jobs' \in Seq(Range(jobs')) BY <1>3, Own
<1>5. \A k \in 1 .. Len(jobs') : jobs'[k] = J[Len(J) - Len(jobs') + k]
  <2> SUFFICES ASSUME NEW k \in 1 .. Len(jobs')
               PROVE  jobs'[k] = J[Len(J) - Len(jobs') + k] OBVIOUS
  <2>1. k \in 1 .. Len(jobs) - 1 /\ k + 1 \in 1 .. Len(jobs) BY <1>3
  <2>2. jobs'[k] = J[Len(J) - Len(jobs) + (k + 1)] BY <1>1, <1>3, <2>1 DEF Counted
  <2>3. Len(J) - Len(jobs) + (k + 1) = Len(J) - Len(jobs') + k BY <1>2, <1>3
  <2> QED BY <2>2, <2>3
<1>6. Len(sent) \in Nat /\ DOMAIN sent = 1 .. Len(sent) BY <1>1, LenProperties
<1>7. Counted' /\ sent' \in Seq(Range(sent')) /\ \A x \in Range(sent') : FromJob(x)
  <2> HIDE DEF J
  <2>1. CASE sent' = sent
    <3>1. Len(jobs') + Len(sent') < Len(J)
      BY <1>1, <1>2, <1>3, <1>6, <2>1 DEF Counted, J
    <3>2. Counted' BY <1>2, <1>3, <1>5, <1>6, <2>1, <3>1, Same DEF Counted, J
    <3> QED BY <1>1, <2>1, <3>2 DEF PlaceInv
  <2>2. CASE \E x : sent' = Append(sent, x) /\ x.job = Head(jobs) /\ FromJob(x)
    <3>1. PICK x : sent' = Append(sent, x) /\ x.job = Head(jobs) /\ FromJob(x) BY <2>2
    <3>2. /\ sent' \in Seq(Range(sent')) /\ Len(sent') = Len(sent) + 1
          /\ \A i \in 1 .. Len(sent) : sent'[i] = sent[i]
          /\ sent'[Len(sent) + 1] = x
          /\ Range(sent') = Range(sent) \cup {x}
      BY <1>1, <3>1, Behind
    <3>3. Len(jobs') + Len(sent') = Len(jobs) + Len(sent) BY <1>3, <1>6, <3>2
    <3>4. ASSUME Len(jobs') + Len(sent') = Len(J)
          PROVE  \A k \in 1 .. Len(sent') : sent'[k].job = J[k]
      <4>1. \A k \in 1 .. Len(sent) : sent[k].job = J[k]
        BY <1>1, <3>3, <3>4 DEF Counted, J
      <4>2. 1 \in 1 .. Len(jobs) BY <1>3
      <4>3. x.job = J[Len(J) - Len(jobs) + 1] BY <1>1, <1>3, <3>1, <4>2 DEF Counted, J
      <4>4. Len(J) - Len(jobs) + 1 = Len(sent) + 1
        <5> DEFINE a == Len(jobs)
                   b == Len(sent)
                   n == Len(J)
        <5>1. a \in Nat /\ b \in Nat /\ n \in Nat /\ a + b = n
          BY <1>2, <1>3, <1>6, <3>3, <3>4
        <5> HIDE DEF a, b, n
        <5>2. n - a + 1 = b + 1 BY <5>1
        <5> QED BY <5>2 DEF a, b, n
      <4>5. \A k \in 1 .. Len(sent) + 1 : k \in 1 .. Len(sent) \/ k = Len(sent) + 1
        BY <1>6
      <4> QED BY <3>2, <4>1, <4>3, <4>4, <4>5
    <3>5. Counted' BY <1>1, <1>5, <3>3, <3>4, Same DEF Counted, J
    <3> QED BY <3>1, <3>2, <3>5 DEF PlaceInv
  <2> QED BY <2>1, <2>2
<1>8. InUse' /\ Begins' /\ inv' # NoInvocation BY <1>1, Same DEF NoInvocation
<1>9. \A x \in Range(sent)' : FromJob(x)' BY <1>7, Same
<1> QED BY <1>4, <1>7, <1>8, <1>9 DEF PlaceInv, NoInvocation

(* Every step of an invocation keeps jobs and requests in step.             *)
LEMMA PlaceStep ==
    ASSUME PlaceInv, UNCHANGED packs, RequestNext PROVE PlaceInv'
<1>1. UNCHANGED inv
  BY DEF RequestNext, Configure, ConfigureFails, Begin, BeginFails, Send, SendFails, Skip,
         RecordEnds, Ends, After
<1>2. CASE ConfigureFails \/ BeginFails \/ RecordEnds
  <2>1. UNCHANGED <<inv, jobs, sent>> /\ status' \in {"error", "done"}
    BY <1>2 DEF ConfigureFails, BeginFails, RecordEnds, Ends
  <2>2. status' = "done" => jobs = <<>> /\ Begun
    BY <1>2 DEF ConfigureFails, BeginFails, RecordEnds, Ends, Begun
  <2>3. inv # NoInvocation
    BY <1>2 DEF ConfigureFails, BeginFails, RecordEnds, PlaceInv
  <2>4. Begun' => Begun BY <2>1, <2>2 DEF Begun
  <2>5. Counted => Counted' BY <1>1, <2>1, Same DEF Counted
  <2> QED BY <1>1, <2>1, <2>2, <2>3, <2>4, <2>5, Same DEF PlaceInv, NoInvocation
<1>3. CASE Configure
  <2>1. /\ UNCHANGED <<inv, jobs, sent>> /\ jobs = <<>> /\ sent = <<>>
        /\ status' = "configured" /\ inv # NoInvocation
    BY <1>3 DEF Configure, PlaceInv
  <2>2. ~Begun' BY <2>1 DEF Begun
  <2> QED BY <1>1, <2>1, <2>2, Same DEF PlaceInv, NoInvocation
<1>4. CASE Begin
  <2>1. /\ jobs' = JobsOf /\ sent = <<>> /\ sent' = <<>> /\ Begins
        /\ status' = "running" /\ inv # NoInvocation
    BY <1>4 DEF Begin, PlaceInv
  <2>2. JobsOf \in Seq(Range(JobsOf)) BY <2>1, JobsListed DEF PlaceInv
  <2>3. Counted'
    <3> DEFINE J == JobsOf
    <3> HIDE DEF J
    <3>1. Len(J) \in Nat BY <2>2, LenProperties DEF J
    <3>2. \A k \in 1 .. Len(J) : Len(J) - Len(J) + k = k BY <3>1
    <3>3. jobs' = J /\ JobsOf' = J /\ Len(sent') = 0 BY <1>1, <2>1, Same DEF J
    <3> QED BY <3>1, <3>2, <3>3 DEF Counted
  <2>4. Range(sent') = {} BY <2>1 DEF Range
  <2> QED BY <1>1, <2>1, <2>2, <2>3, <2>4, Same DEF PlaceInv, NoInvocation
<1>5. CASE Skip \/ SendFails
  <2>1. Sending /\ jobs' = Tail(jobs) /\ status' \in {"running", "error"} /\ sent' = sent
    BY <1>5 DEF Skip, SendFails, After
  <2> QED BY <1>1, <2>1, Advances
<1>6. CASE Send
  <2>1. Sending /\ jobs' = Tail(jobs) /\ status' \in {"running", "error"}
    BY <1>6 DEF Send, After
  <2> DEFINE request == BuildRequest(NextJob.body)
  <2>2. PICK resp \in Responses(request) :
           sent' = Append(sent, [job |-> NextJob, request |-> request, resp |-> resp,
                                 answer |-> Decoded(resp),
                                 kept |-> Kept(NextJob, resp),
                                 blanked |-> Blanked(rules', request)])
    BY <1>6 DEF Send
  <2> DEFINE x == [job |-> NextJob, request |-> request, resp |-> resp,
                   answer |-> Decoded(resp), kept |-> Kept(NextJob, resp),
                   blanked |-> Blanked(rules', request)]
  <2>3. x.job = Head(jobs) /\ x.request = BuildRequest(x.job.body)
        /\ x.resp \in Responses(x.request) /\ x.kept = Kept(x.job, x.resp)
    BY <2>2 DEF NextJob
  <2>4. x.job \in Range(JobsOf)
    <3> DEFINE J == JobsOf
    <3>1. /\ InUse /\ inv # NoInvocation /\ Begins /\ Counted /\ jobs # <<>>
          /\ jobs \in Seq(Range(jobs)) /\ sent \in Seq(Range(sent))
      BY <2>1 DEF PlaceInv, Sending, Begun
    <3>2. /\ J \in Seq(Range(J)) /\ Len(J) \in Nat /\ DOMAIN J = 1 .. Len(J)
      BY <3>1, JobsListed, LenProperties
    <3>3. Len(jobs) \in Nat \ {0} /\ Len(sent) \in Nat /\ Head(jobs) = jobs[1]
      BY <3>1, HeadTailProperties, EmptySeq, LenProperties
    <3>4. 1 \in 1 .. Len(jobs) BY <3>3
    <3>5. Head(jobs) = J[Len(J) - Len(jobs) + 1] BY <3>1, <3>3, <3>4 DEF Counted
    <3> HIDE DEF J
    <3>6. Len(J) - Len(jobs) + 1 \in DOMAIN J
      <4> DEFINE a == Len(jobs)
                 b == Len(sent)
                 n == Len(J)
      <4>1. a \in Nat \ {0} /\ b \in Nat /\ n \in Nat /\ a + b <= n
        BY <3>1, <3>2, <3>3 DEF Counted, J
      <4>2. DOMAIN J = 1 .. n BY <3>2
      <4> HIDE DEF a, b, n
      <4>3. n - a + 1 \in 1 .. n BY <4>1
      <4> QED BY <4>2, <4>3 DEF a, n
    <3>7. Head(jobs) \in Range(J) BY <3>5, <3>6 DEF Range
    <3> QED BY <2>3, <3>7 DEF J
  <2>5. x.kept => x.job.kind # "baseline" BY <2>3 DEF Kept
  <2>6. FromJob(x) BY <2>3, <2>4, <2>5 DEF FromJob
  <2>7. sent' = Append(sent, x) BY <2>2
  <2> HIDE DEF x, request
  <2>8. \E y : sent' = Append(sent, y) /\ y.job = Head(jobs) /\ FromJob(y)
    BY <2>3, <2>6, <2>7
  <2> QED BY <1>1, <2>1, <2>8, Advances
<1> QED BY <1>2, <1>3, <1>4, <1>5, <1>6 DEF RequestNext

-----------------------------------------------------------------------------
(* Specifications: what the walk of a schema finds                          *)

(* Within is what it is defined to be: the root, and then what follows from *)
(* what there is.                                                           *)
LEMMA WithinSteps ==
    ASSUME NEW nodes, NEW root \in DOMAIN nodes
    PROVE  /\ Within(nodes, root) \in [Nat -> SUBSET DOMAIN nodes]
           /\ Within(nodes, root)[0] = {root}
           /\ \A k \in Nat :
                 Within(nodes, root)[k + 1] =
                    Within(nodes, root)[k]
                       \cup UNION {Follows(nodes, n) : n \in Within(nodes, root)[k]}
<1> DEFINE V == SUBSET DOMAIN nodes
           step == [S \in V |-> S \cup UNION {Follows(nodes, n) : n \in S}]
           Solves(g) == g = [k \in Nat |->
                               IF k = 0 THEN {root}
                               ELSE g[k - 1] \cup UNION {Follows(nodes, n) : n \in g[k - 1]}]
           reach == CHOOSE g : Solves(g)
<1>1. \A S \in V : S \cup UNION {Follows(nodes, n) : n \in S} \in V BY DEF Follows
<1>2. step \in [V -> V] BY <1>1
<1>3. {root} \in V OBVIOUS
<1>4. PICK f \in [Nat -> V] : f = [k \in Nat |-> IF k = 0 THEN {root} ELSE step[f[k - 1]]]
  <2> HIDE DEF step, V
  <2> QED BY <1>2, <1>3, Iterates
<1>5. Solves(f)
  <2>1. ASSUME NEW k \in Nat, k # 0
        PROVE  step[f[k - 1]] = f[k - 1] \cup UNION {Follows(nodes, n) : n \in f[k - 1]}
    <3>1. k - 1 \in Nat BY <2>1
    <3>2. f[k - 1] \in V BY <3>1, <1>4
    <3> HIDE DEF V
    <3> QED BY <3>2
  <2>2. \A k \in Nat : f[k] = IF k = 0 THEN {root}
                              ELSE f[k - 1] \cup UNION {Follows(nodes, n) : n \in f[k - 1]}
    <3> HIDE DEF step
    <3> QED BY <2>1, <1>4
  <2> HIDE DEF step, V
  <2>3. f = [k \in Nat |-> f[k]] BY <1>4
  <2> QED BY <2>2, <2>3
<1>6. Solves(reach)
  <2> HIDE DEF Solves
  <2> QED BY <1>5
<1>7. Within(nodes, root) = reach BY DEF Within
<1> HIDE DEF reach, V
<1>8. \A k \in Nat : reach[k] = IF k = 0 THEN {root}
                                ELSE reach[k - 1] \cup UNION {Follows(nodes, n) : n \in reach[k - 1]}
  BY <1>6
<1>9. \A k \in Nat : reach[k + 1] = reach[k] \cup UNION {Follows(nodes, n) : n \in reach[k]}
  <2> TAKE k \in Nat
  <2>1. k + 1 \in Nat /\ k + 1 # 0 /\ (k + 1) - 1 = k OBVIOUS
  <2> QED BY <1>8, <2>1
<1>10. \A k \in Nat : reach[k] \in V
  <2> DEFINE T == {k \in Nat : reach[k] \notin V}
  <2> SUFFICES ASSUME T # {} PROVE FALSE OBVIOUS
  <2>1. PICK k \in T : \A l \in T : k <= l BY LeastNat
  <2>2. k # 0 BY <1>3, <1>8
  <2>3. k - 1 \in Nat /\ k - 1 \notin T BY <2>1, <2>2
  <2>4. reach[k - 1] \in V BY <2>3
  <2>5. reach[k] = reach[k - 1] \cup UNION {Follows(nodes, n) : n \in reach[k - 1]}
    BY <1>8, <2>2
  <2> QED BY <1>1, <2>1, <2>4, <2>5
<1>11. reach = [k \in Nat |-> reach[k]] BY <1>6
<1>12. reach \in [Nat -> V] BY <1>10, <1>11
<1> QED BY <1>7, <1>8, <1>9, <1>12 DEF V

(* What lies within more steps starts with what follows from the root.      *)
LEMMA WithinFromRoot ==
    ASSUME NEW nodes, NEW k \in Nat
    PROVE  \A root \in DOMAIN nodes :
              Within(nodes, root)[k + 1] =
                 {root} \cup UNION {Within(nodes, m)[k] : m \in Follows(nodes, root)}
<1> DEFINE W(n) == Within(nodes, n)
           Next1(S) == UNION {Follows(nodes, n) : n \in S}
           P(j) == \A root \in DOMAIN nodes :
                      W(root)[j + 1] = {root} \cup UNION {W(m)[j] : m \in Follows(nodes, root)}
           T == {j \in Nat : ~P(j)}
<1> SUFFICES ASSUME T # {} PROVE FALSE OBVIOUS
<1>1. PICK j \in T : \A l \in T : j <= l BY LeastNat
<1>2. \A n \in DOMAIN nodes : Follows(nodes, n) \subseteq DOMAIN nodes BY DEF Follows
<1> HIDE DEF W
<1>3. ASSUME NEW n \in DOMAIN nodes
      PROVE  W(n)[0] = {n} /\ \A i \in Nat : W(n)[i + 1] = W(n)[i] \cup Next1(W(n)[i])
  BY <1>3, WithinSteps DEF W
<1>4. ASSUME NEW root \in DOMAIN nodes
      PROVE  W(root)[j + 1] = {root} \cup UNION {W(m)[j] : m \in Follows(nodes, root)}
  <2>1. CASE j = 0
    <3>1. W(root)[0 + 1] = {root} \cup Next1({root}) BY <1>3
    <3>2. \A m \in Follows(nodes, root) : W(m)[0] = {m} BY <1>2, <1>3
    <3>3. UNION {W(m)[0] : m \in Follows(nodes, root)} = Follows(nodes, root) BY <3>2
    <3>4. Next1({root}) = Follows(nodes, root) OBVIOUS
    <3> QED BY <2>1, <3>1, <3>3, <3>4
  <2>2. CASE j # 0
    <3>1. j \in Nat /\ j - 1 \in Nat /\ (j - 1) + 1 = j /\ P(j - 1) BY <1>1, <2>2
    <3>2. W(root)[j] = {root} \cup UNION {W(m)[j - 1] : m \in Follows(nodes, root)}
      BY <3>1
    <3>3. W(root)[j + 1] = W(root)[j] \cup Next1(W(root)[j]) BY <1>3, <3>1
    <3>4. ASSUME NEW m \in Follows(nodes, root)
          PROVE  W(m)[j] = W(m)[j - 1] \cup Next1(W(m)[j - 1]) /\ m \in W(m)[j]
      <4>1. m \in DOMAIN nodes BY <1>2
      <4>2. W(m)[j] = W(m)[j - 1] \cup Next1(W(m)[j - 1]) BY <1>3, <3>1, <4>1
      <4>3. W(m)[j] = {m} \cup UNION {W(l)[j - 1] : l \in Follows(nodes, m)}
        BY <3>1, <4>1
      <4> QED BY <4>2, <4>3
    <3>5. Next1(W(root)[j]) =
             Follows(nodes, root) \cup UNION {Next1(W(m)[j - 1]) : m \in Follows(nodes, root)}
      BY <3>2
    <3> HIDE DEF Next1
    <3>6. W(root)[j + 1] =
             {root} \cup Follows(nodes, root)
               \cup UNION {W(m)[j - 1] \cup Next1(W(m)[j - 1]) : m \in Follows(nodes, root)}
      BY <3>2, <3>3, <3>5
    <3>7. UNION {W(m)[j - 1] \cup Next1(W(m)[j - 1]) : m \in Follows(nodes, root)}
             = UNION {W(m)[j] : m \in Follows(nodes, root)}
      BY <3>4
    <3>8. Follows(nodes, root) \subseteq UNION {W(m)[j] : m \in Follows(nodes, root)}
      BY <3>4
    <3> QED BY <3>6, <3>7, <3>8
  <2> QED BY <2>1, <2>2
<1> QED BY <1>4

(* It only grows.                                                           *)
LEMMA WithinGrows ==
    ASSUME NEW nodes, NEW root \in DOMAIN nodes, NEW i \in Nat, NEW j \in Nat, i <= j
    PROVE  Within(nodes, root)[i] \subseteq Within(nodes, root)[j]
<1> DEFINE W == Within(nodes, root)
           T == {k \in Nat : i <= k /\ ~(W[i] \subseteq W[k])}
<1> HIDE DEF W
<1> SUFFICES ASSUME T # {} PROVE FALSE BY DEF W
<1>1. PICK k \in T : \A l \in T : k <= l BY LeastNat
<1>2. k # i BY <1>1
<1>3. k - 1 \in Nat /\ i <= k - 1 /\ (k - 1) + 1 = k BY <1>2
<1>4. W[i] \subseteq W[k - 1] BY <1>1, <1>3
<1>5. W[k - 1] \subseteq W[k]
  <2>1. W[(k - 1) + 1] = W[k - 1] \cup UNION {Follows(nodes, n) : n \in W[k - 1]}
    BY <1>3, WithinSteps DEF W
  <2> QED BY <1>3, <2>1
<1> QED BY <1>1, <1>4, <1>5

(* Once a step adds nothing, none does any more.                            *)
LEMMA WithinStops ==
    ASSUME NEW nodes, NEW root \in DOMAIN nodes, NEW i \in Nat, NEW j \in Nat, i <= j,
           Within(nodes, root)[i + 1] = Within(nodes, root)[i]
    PROVE  Within(nodes, root)[j] = Within(nodes, root)[i]
<1> DEFINE W == Within(nodes, root)
           T == {k \in Nat : i <= k /\ W[k] # W[i]}
<1> HIDE DEF W
<1> SUFFICES ASSUME T # {} PROVE FALSE BY DEF W
<1>1. PICK k \in T : \A l \in T : k <= l BY LeastNat
<1>2. k # i BY <1>1
<1>3. k - 1 \in Nat /\ i <= k - 1 /\ (k - 1) + 1 = k BY <1>2
<1>4. W[i] = W[k - 1] BY <1>1, <1>3
<1>5. \A l \in Nat : W[l + 1] = W[l] \cup UNION {Follows(nodes, n) : n \in W[l]}
  BY WithinSteps DEF W
<1>6. W[k] = W[i + 1] BY <1>3, <1>4, <1>5
<1> QED BY <1>1, <1>6 DEF W

(* Everything that can be reached is, in as many steps as there are nodes:  *)
(* of a finite set, no more than its size can be added one at a time.       *)
LEMMA NearIsSomewhere ==
    ASSUME NEW nodes, IsFiniteSet(DOMAIN nodes), NEW root \in DOMAIN nodes
    PROVE  Near(nodes, root) \subseteq Everywhere(nodes, root)
<1> DEFINE W == Within(nodes, root)
           N == Cardinality(DOMAIN nodes)
           P(k) == Cardinality(W[k]) >= k + 1 \/ \E i \in 0 .. k - 1 : W[i + 1] = W[i]
           T == {k \in Nat : ~P(k)}
<1>1. /\ W \in [Nat -> SUBSET DOMAIN nodes]
      /\ W[0] = {root}
      /\ \A k \in Nat : W[k] \subseteq W[k + 1]
  <2>1. ASSUME NEW k \in Nat PROVE W[k] \subseteq W[k + 1]
    <3>1. k + 1 \in Nat /\ k <= k + 1 OBVIOUS
    <3> QED BY <3>1, WithinGrows
  <2> QED BY <2>1, WithinSteps
<1>2. N \in Nat BY FS_CardinalityType
<1> HIDE DEF W, N
<1>3. ASSUME NEW k \in Nat
      PROVE  /\ IsFiniteSet(W[k]) /\ Cardinality(W[k]) \in Nat /\ Cardinality(W[k]) <= N
             /\ W[k] # W[k + 1] => Cardinality(W[k]) < Cardinality(W[k + 1])
  <2>1. W[k] \in SUBSET DOMAIN nodes /\ W[k + 1] \in SUBSET DOMAIN nodes BY <1>1
  <2>2. IsFiniteSet(W[k]) /\ IsFiniteSet(W[k + 1]) /\ Cardinality(W[k]) <= N
    BY <2>1, FS_Subset DEF N
  <2>3. Cardinality(W[k]) \in Nat /\ Cardinality(W[k + 1]) \in Nat
    BY <2>2, FS_CardinalityType
  <2>4. W[k] \in SUBSET W[k + 1] BY <1>1
  <2>5. Cardinality(W[k]) <= Cardinality(W[k + 1])
        /\ (Cardinality(W[k + 1]) = Cardinality(W[k]) => W[k + 1] = W[k])
    BY <2>2, <2>4, FS_Subset
  <2> QED BY <2>2, <2>3, <2>5
<1>4. T = {}
  <2> SUFFICES ASSUME T # {} PROVE FALSE OBVIOUS
  <2>1. PICK k \in T : \A l \in T : k <= l BY LeastNat
  <2>2. k # 0
    <3>1. Cardinality(W[0]) = 1 BY <1>1, FS_Singleton
    <3> QED BY <2>1, <3>1
  <2>3. k - 1 \in Nat /\ (k - 1) + 1 = k /\ P(k - 1) BY <2>1, <2>2
  <2>4. W[k - 1] # W[k]
    <3>1. k - 1 \in 0 .. k - 1 BY <2>3
    <3> QED BY <2>1, <2>3, <3>1
  <2>5. Cardinality(W[k - 1]) < Cardinality(W[k]) BY <1>3, <2>3, <2>4
  <2>6. CASE Cardinality(W[k - 1]) >= (k - 1) + 1
    <3>1. Cardinality(W[k - 1]) \in Nat /\ Cardinality(W[k]) \in Nat BY <1>3, <2>3
    <3> QED BY <2>1, <2>5, <2>6, <3>1
  <2>7. CASE \E i \in 0 .. (k - 1) - 1 : W[i + 1] = W[i]
    <3>1. 0 .. (k - 1) - 1 \subseteq 0 .. k - 1 BY <2>3
    <3> QED BY <2>1, <2>7, <3>1
  <2> QED BY <2>3, <2>6, <2>7
<1>5. P(N) BY <1>2, <1>4
<1>6. PICK i \in 0 .. N - 1 : W[i + 1] = W[i] BY <1>2, <1>3, <1>5
<1>7. i \in Nat /\ i <= N BY <1>2
<1>8. W[N] = W[i] BY <1>2, <1>6, <1>7, WithinStops DEF W
<1>9. W[8] \subseteq W[i]
  <2>1. CASE 8 <= i BY <1>7, <2>1, WithinGrows DEF W
  <2>2. CASE i <= 8 BY <1>6, <1>7, <2>2, WithinStops DEF W
  <2> QED BY <1>7, <2>1, <2>2
<1> QED BY <1>8, <1>9 DEF Near, Everywhere, W, N

(* The walk collects what the nodes near the root have, whichever way it    *)
(* comes to them and however often.                                         *)
LEMMA Collected ==
    ASSUME NEW nodes, NEW root \in DOMAIN nodes
    PROVE  CollectProps(nodes, root) = UNION {OwnProps(nodes, n) : n \in Near(nodes, root)}
<1> DEFINE D == DOMAIN nodes
           Props(S) == UNION {OwnProps(nodes, n) : n \in S}
           W(n) == Within(nodes, n)
           More(g, n, depth) ==
              IF depth > MaxDepth THEN {}
              ELSE OwnProps(nodes, n) \cup UNION {g[depth + 1][m] : m \in Follows(nodes, n)}
           Solves(g) == g = [depth \in 0 .. MaxDepth + 1 |-> [n \in D |-> More(g, n, depth)]]
           collect == CHOOSE g : Solves(g)
           c == [depth \in 0 .. MaxDepth + 1 |-> [n \in D |->
                   IF depth > MaxDepth THEN {} ELSE Props(W(n)[MaxDepth - depth])]]
<1>1. MaxDepth = 8 BY DEF MaxDepth
<1>2. \A n \in D : Follows(nodes, n) \subseteq D BY DEF Follows
<1> HIDE DEF D
<1>3. ASSUME NEW n \in D, NEW depth \in 0 .. MaxDepth + 1 PROVE c[depth][n] = More(c, n, depth)
  <2>1. CASE depth > MaxDepth BY <2>1
  <2>2. CASE depth = MaxDepth
    <3>1. W(n)[0] = {n} BY WithinSteps DEF D
    <3>2. c[depth][n] = OwnProps(nodes, n) BY <1>1, <2>2, <3>1
    <3>3. \A m \in Follows(nodes, n) : c[depth + 1][m] = {} BY <1>1, <1>2, <2>2
    <3>4. UNION {c[depth + 1][m] : m \in Follows(nodes, n)} = {} BY <3>3
    <3> HIDE DEF c
    <3> QED BY <1>1, <2>2, <3>2, <3>4
  <2>3. CASE depth < MaxDepth
    <3> DEFINE k == MaxDepth - (depth + 1)
    <3>1. k \in Nat /\ MaxDepth - depth = k + 1 /\ depth + 1 \in 0 .. MaxDepth + 1
          /\ ~(depth + 1 > MaxDepth) /\ ~(depth > MaxDepth)
      BY <1>1, <2>3
    <3>2. c[depth][n] = Props(W(n)[k + 1]) BY <3>1
    <3>3. \A m \in Follows(nodes, n) : c[depth + 1][m] = Props(W(m)[k]) BY <1>2, <3>1
    <3> HIDE DEF c, k
    <3>4. W(n)[k + 1] = {n} \cup UNION {W(m)[k] : m \in Follows(nodes, n)}
      BY <3>1, WithinFromRoot DEF D
    <3>5. Props(W(n)[k + 1]) =
             OwnProps(nodes, n) \cup UNION {Props(W(m)[k]) : m \in Follows(nodes, n)}
      <4> HIDE DEF W
      <4> QED BY <3>4
    <3>6. UNION {Props(W(m)[k]) : m \in Follows(nodes, n)}
             = UNION {c[depth + 1][m] : m \in Follows(nodes, n)}
      <4> HIDE DEF W, Props
      <4> QED BY <3>3
    <3> HIDE DEF W, Props
    <3> QED BY <3>1, <3>2, <3>5, <3>6
  <2> HIDE DEF c
  <2> QED BY <1>1, <2>1, <2>2, <2>3
<1>4. Solves(c)
  <2> HIDE DEF More, Props, W
  <2> QED BY <1>3
<1>5. Solves(collect)
  <2> HIDE DEF Solves, c
  <2> QED BY <1>4
<1>6. CollectProps(nodes, root) = collect[0][root]
  BY DEF CollectProps, D
<1> HIDE DEF collect
<1>7. ASSUME NEW n \in D, NEW depth \in 0 .. MaxDepth + 1
      PROVE  collect[depth][n] = More(collect, n, depth)
  <2> HIDE DEF More
  <2>1. collect[depth] = [m \in D |-> More(collect, m, depth)] BY <1>5
  <2> QED BY <2>1
<1> HIDE DEF c
<1>8. \A n \in D : collect[0][n] = c[0][n]
  <2> DEFINE Differ(j) == \E n \in D : collect[9 - j][n] # c[9 - j][n]
             T == {j \in 0 .. 9 : Differ(j)}
  <2> SUFFICES ASSUME T # {} PROVE FALSE
    <3>1. 9 - 9 = 0 /\ 9 \in 0 .. 9 OBVIOUS
    <3>2. ~Differ(9) BY <3>1
    <3> QED BY <3>1, <3>2
  <2>1. PICK j \in T : \A l \in T : j <= l
    <3>1. T \subseteq Nat OBVIOUS
    <3> HIDE DEF T
    <3> QED BY <3>1, LeastNat
  <2>2. PICK n \in D : collect[9 - j][n] # c[9 - j][n] OBVIOUS
  <2>3. j \in 0 .. 9 /\ 9 - j \in 0 .. MaxDepth + 1 BY <1>1
  <2>4. CASE j = 0
    <3>1. 9 - j > MaxDepth BY <1>1, <2>3, <2>4
    <3>2. More(collect, n, 9 - j) = {} /\ More(c, n, 9 - j) = {} BY <3>1
    <3> HIDE DEF More
    <3>3. collect[9 - j][n] = {} /\ c[9 - j][n] = {} BY <1>3, <1>7, <2>3, <3>2
    <3> QED BY <2>2, <3>3
  <2>5. CASE j # 0
    <3>1. j - 1 \in 0 .. 9 /\ ~(j <= j - 1) /\ 9 - (j - 1) = (9 - j) + 1 BY <2>3, <2>5
    <3>2. \A m \in D : collect[(9 - j) + 1][m] = c[(9 - j) + 1][m] BY <2>1, <3>1
    <3>3. UNION {collect[(9 - j) + 1][m] : m \in Follows(nodes, n)}
             = UNION {c[(9 - j) + 1][m] : m \in Follows(nodes, n)}
      BY <1>2, <3>2
    <3>4. More(collect, n, 9 - j) = More(c, n, 9 - j) BY <3>3
    <3> QED BY <1>3, <1>7, <2>2, <2>3, <3>4
  <2> QED BY <2>4, <2>5
<1>9. c[0][root] = Props(W(root)[8])
  <2> HIDE DEF W, Props
  <2> QED BY <1>1 DEF c, D
<1> QED BY <1>6, <1>8, <1>9 DEF Near, D

-----------------------------------------------------------------------------
(* The audit                                                                *)

(* The packs an audit that ends well owes a report.                         *)
Due(d) ==
    /\ audit.dir = Parent \/ (audit.dir = d /\ IsPack(d))
    /\ Loads(packs[d]) /\ ManifestOf(packs[d]).spec # NoSpec

AllIn(dirs) == \A d \in DOMAIN packs : Due(d) => d \in dirs

(* A report is made of a pack that loads, and of a specification that has   *)
(* fields.                                                                  *)
Reported(d) ==
    d \in DOMAIN packs /\ Loads(packs[d]) /\ SpecFields(ManifestOf(packs[d]).spec) # {}

AuditInv ==
    /\ \E use \in Uses : packs = use.packs /\ audit = use.audit
    /\ todo \in Seq(DOMAIN packs) /\ scanning \in BOOLEAN /\ gaps \in BOOLEAN
    /\ \A d \in DOMAIN reports : Reported(d) /\ reports[d] = ReportOn(packs[d])
    /\ gaps <=> \E d \in DOMAIN reports : reports[d].missing # {}
    /\ outcome \in {"none", "running", "ok", "gaps", "error"}
    /\ outcome \in {"ok", "gaps"} => (outcome = "gaps" <=> audit.strict /\ gaps)
    /\ outcome = "running" /\ ~audit.resolve => AllIn(DOMAIN reports \cup Range(todo))
    /\ outcome \in {"ok", "gaps"} /\ ~audit.resolve => AllIn(DOMAIN reports)

-----------------------------------------------------------------------------

(* A step to the next pack leaves no due pack behind that has no report.    *)
LEMMA NextPackOwes ==
    ASSUME AuditInv, UNCHANGED <<packs, audit>>, Auditing, ~audit.resolve, todo' = Tail(todo),
           DOMAIN reports \subseteq DOMAIN reports',
           Due(Head(todo)) => Head(todo) \in DOMAIN reports'
    PROVE  AllIn(DOMAIN reports \cup Range(todo)) =>
              AllIn(DOMAIN reports \cup Range(todo))'
<1>1. Range(todo) = {Head(todo)} \cup Range(todo')
  BY Rest DEF AuditInv, Auditing
<1>2. ASSUME NEW d PROVE Due(d)' <=> Due(d) BY DEF Due, IsPack, Loads, ManifestLoads, ManifestOf
<1> QED BY <1>1, <1>2 DEF AllIn
(* What is assumed of the pack directories.                                 *)
LEMMA DirsFinite == AuditInv => IsFiniteSet(DOMAIN packs) /\ Parent \notin DOMAIN packs
BY UsesAssumption DEF AuditInv

(* One pack or all below the directory: none that is due is left out.       *)
LEMMA AuditStartStep ==
    ASSUME AuditInv, UNCHANGED packs, AuditStart PROVE AuditInv'
<1>1. ASSUME NEW d PROVE Due(d)' <=> Due(d)
  BY DEF AuditStart, Due, IsPack, Loads, ManifestLoads, ManifestOf
<1>2. todo' \in Seq(DOMAIN packs) /\ \A d \in DOMAIN packs : Due(d) => d \in Range(todo')
  <2>1. CASE IsPack(audit.dir)
    <3>1. todo' = <<audit.dir>> /\ audit.dir \in DOMAIN packs
      BY <2>1 DEF AuditStart, IsPack
    <3>2. audit.dir \in Range(todo') BY <3>1 DEF Range
    <3> QED BY <2>1, <3>1, <3>2, DirsFinite DEF Due
  <2>2. CASE ~IsPack(audit.dir) /\ audit.dir = Parent
    BY <2>2, DirsFinite, Listed DEF AuditStart, Below
  <2>3. CASE ~IsPack(audit.dir) /\ audit.dir # Parent
    <3>1. todo' = <<>> BY <2>3 DEF AuditStart, Below
    <3> QED BY <2>3, <3>1 DEF Due
  <2> QED BY <2>1, <2>2, <2>3
<1>3. AllIn(DOMAIN reports \cup Range(todo))' BY <1>1, <1>2 DEF AllIn, AuditStart
<1>4. scanning' \in BOOLEAN /\ outcome' = "running" BY DEF AuditStart
<1>5. UNCHANGED <<packs, audit, gaps, reports>> BY DEF AuditStart
<1>6. todo' \in Seq(DOMAIN packs') BY <1>2
<1> QED BY <1>3, <1>4, <1>5, <1>6 DEF AuditInv, Reported, ReportOn

(* The three ways past a pack without a report.                             *)
LEMMA PassStep ==
    ASSUME AuditInv, UNCHANGED packs, SkipUnloadable \/ SkipWithoutSpec \/ Resolve
    PROVE  AuditInv'
<1>1. /\ Auditing /\ todo' = Tail(todo)
      /\ UNCHANGED <<packs, audit, scanning, outcome, gaps, reports>>
  BY DEF SkipUnloadable, SkipWithoutSpec, Resolve, Specified, AuditNextPack
<1>2. todo' \in Seq(DOMAIN packs) BY <1>1, Rest DEF AuditInv, Auditing
<1>3. ~audit.resolve => ~Due(Head(todo))
  BY DEF SkipUnloadable, SkipWithoutSpec, Resolve, Specified, Due, Dir, Spec0
<1>4. outcome' = "running" /\ ~audit'.resolve => AllIn(DOMAIN reports \cup Range(todo))'
  BY <1>1, <1>3, NextPackOwes DEF AuditInv
<1>5. outcome = "running" /\ outcome' = "running" BY <1>1 DEF Auditing
<1> QED BY <1>1, <1>2, <1>4, <1>5 DEF AuditInv, Reported, ReportOn

(* A report is added, or made again as it was.                              *)
LEMMA AuditPackStep ==
    ASSUME AuditInv, UNCHANGED packs, AuditPack PROVE AuditInv'
<1>1. /\ Auditing /\ todo' = Tail(todo) /\ ~audit.resolve
      /\ UNCHANGED <<packs, audit, scanning, outcome>>
  BY DEF AuditPack, Specified, AuditNextPack
<1> DEFINE h == Head(todo)
<1>2. todo' \in Seq(DOMAIN packs) /\ h \in DOMAIN packs
  BY <1>1, Rest DEF AuditInv, Auditing
<1>3. reports' = [d \in DOMAIN reports \cup {h} |->
                    IF d = h THEN ReportOn(packs[h]) ELSE reports[d]]
  BY DEF AuditPack, Dir
<1>4. gaps' = (gaps \/ ReportOn(packs[h]).missing # {}) BY DEF AuditPack, Gaps, Dir
<1> HIDE DEF h
<1>5. DOMAIN reports' = DOMAIN reports \cup {h} BY <1>3
<1>6. \A d \in DOMAIN reports' : Reported(d) /\ reports'[d] = ReportOn(packs[d])
  <2>1. Reported(h) BY <1>2 DEF AuditPack, Specified, Reported, Dir, Spec0, h
  <2> QED BY <1>3, <2>1 DEF AuditInv
<1>7. \A d \in DOMAIN reports : reports'[d] = reports[d] BY <1>5, <1>6 DEF AuditInv
<1>8. reports'[h] = ReportOn(packs[h]) BY <1>5, <1>6
<1>9. gaps' <=> \E d \in DOMAIN reports' : reports'[d].missing # {}
  BY <1>4, <1>5, <1>7, <1>8 DEF AuditInv
<1>10. AllIn(DOMAIN reports \cup Range(todo))'
  BY <1>1, <1>5, NextPackOwes DEF AuditInv, Auditing, h
<1>11. gaps' \in BOOLEAN BY <1>4 DEF AuditInv
<1>12. outcome = "running" /\ outcome' = "running" BY <1>1 DEF Auditing
<1> QED BY <1>1, <1>2, <1>6, <1>9, <1>10, <1>11, <1>12 DEF AuditInv, Reported, ReportOn

(* At the end nothing is still to be read.                                  *)
LEMMA AuditEndsStep ==
    ASSUME AuditInv, UNCHANGED packs, AuditEnds PROVE AuditInv'
<1>1. /\ outcome = "running" /\ todo = <<>>
      /\ outcome' = IF audit.strict /\ gaps THEN "gaps" ELSE "ok"
      /\ UNCHANGED <<packs, audit, todo, scanning, gaps, reports>>
  BY DEF AuditEnds
<1>2. Range(todo) = {} BY <1>1 DEF Range
<1>3. ~audit.resolve => AllIn(DOMAIN reports) BY <1>1, <1>2 DEF AuditInv
<1>4. ASSUME NEW d PROVE Due(d)' <=> Due(d)
  BY <1>1 DEF Due, IsPack, Loads, ManifestLoads, ManifestOf
<1>5. ~audit'.resolve => AllIn(DOMAIN reports)' BY <1>1, <1>3, <1>4 DEF AllIn
<1>6. outcome' \in {"ok", "gaps"} /\ (outcome' = "gaps" <=> audit'.strict /\ gaps')
  BY <1>1
<1> QED BY <1>1, <1>5, <1>6 DEF AuditInv, Reported, ReportOn

(* Every step of an audit keeps its part.                                   *)
LEMMA AuditStep ==
    ASSUME AuditInv, UNCHANGED packs, AuditNext PROVE AuditInv'
<1>1. CASE AuditStartFails \/ Unloadable \/ ResolveFails \/ SpecFails
  <2>1. outcome' = "error" /\ UNCHANGED <<packs, audit, todo, scanning, gaps, reports>>
    BY <1>1 DEF AuditStartFails, Unloadable, ResolveFails, SpecFails, AuditFails
  <2> QED BY <2>1 DEF AuditInv, Reported, ReportOn
<1> QED
  BY <1>1, AuditStartStep, PassStep, AuditPackStep, AuditEndsStep DEF AuditNext
-----------------------------------------------------------------------------

(* All parts.                                                               *)
IInv == RequestInv /\ PlaceInv /\ AuditInv

(* Initially nothing is sent and nothing audited.                           *)
LEMMA InitIInv == Init => IInv
<1> SUFFICES ASSUME Init PROVE IInv OBVIOUS
<1>1. PICK use \in Uses : packs = use.packs /\ AuditInit(use.audit) /\ RequestInit(use.inv)
  BY DEF Init
<1>2. RequestInv
  <2>1. rules = NoRules /\ sent = <<>> /\ status = "none" BY <1>1 DEF RequestInit
  <2> QED BY <2>1 DEF RequestInv
<1>3. AuditInv
  <2>1. /\ packs = use.packs /\ audit = use.audit /\ todo = <<>> /\ scanning = FALSE
        /\ gaps = FALSE /\ DOMAIN reports = {} /\ outcome = "none"
    BY <1>1 DEF AuditInit, NoReports
  <2>2. \E u \in Uses : packs = u.packs /\ audit = u.audit BY <2>1
  <2>3. todo \in Seq(DOMAIN packs) BY <2>1, EmptySeq
  <2>4. gaps <=> \E d \in DOMAIN reports : reports[d].missing # {} BY <2>1
  <2> QED BY <2>1, <2>2, <2>3, <2>4 DEF AuditInv
<1>4. PlaceInv
  <2>1. inv = use.inv /\ jobs = <<>> /\ sent = <<>> /\ status = "none"
    BY <1>1 DEF RequestInit
  <2>2. InUse BY <1>1, <2>1 DEF InUse
  <2>3. Range(<<>>) = {} /\ <<>> \in Seq({}) BY DEF Range
  <2> QED BY <2>1, <2>2, <2>3 DEF PlaceInv, Begun
<1> QED BY <1>2, <1>3, <1>4 DEF IInv

(* A step of one command leaves the variables of the other alone.           *)
LEMMA NextIInv == IInv /\ [Next]_vars => IInv'
<1> SUFFICES ASSUME IInv, [Next]_vars PROVE IInv' OBVIOUS
<1>1. ASSUME UNCHANGED requestVars PROVE RequestInv'
  <2>1. UNCHANGED <<inv, rules, sent, status>> BY <1>1 DEF requestVars
  <2>2. RequestInv BY DEF IInv
  <2>3. Registered => Registered' BY <2>1, RegisteredKept
  <2> QED BY <2>1, <2>2, <2>3, QuietKeeps DEF RequestInv, NoRules
<1>2. ASSUME UNCHANGED <<packs, auditVars>> PROVE AuditInv'
  <2>1. UNCHANGED <<packs, audit, todo, scanning, gaps, reports, outcome>>
    BY <1>2 DEF auditVars
  <2>2. ASSUME NEW d PROVE Due(d)' <=> Due(d)
    BY <2>1 DEF Due, IsPack, Loads, ManifestLoads, ManifestOf
  <2>3. AllIn(DOMAIN reports \cup Range(todo)) => AllIn(DOMAIN reports \cup Range(todo))'
    BY <2>1, <2>2 DEF AllIn
  <2>4. AllIn(DOMAIN reports) => AllIn(DOMAIN reports)' BY <2>1, <2>2 DEF AllIn
  <2> QED BY <2>1, <2>3, <2>4 DEF IInv, AuditInv, Reported, ReportOn
<1>6. ASSUME UNCHANGED <<packs, requestVars>> PROVE PlaceInv'
  <2>1. UNCHANGED <<packs, inv, jobs, sent, status>> BY <1>6 DEF requestVars
  <2>2. PlaceInv BY DEF IInv
  <2>3. (Counted' <=> Counted) /\ (Begun' <=> Begun) BY <2>1, Same DEF Counted, Begun
  <2> QED BY <2>1, <2>2, <2>3, Same DEF PlaceInv, NoInvocation
<1>3. CASE AuditNext /\ UNCHANGED <<packs, requestVars>>
  BY <1>1, <1>3, <1>6, AuditStep DEF IInv
<1>4. CASE RequestNext /\ UNCHANGED <<packs, auditVars>>
  BY <1>2, <1>4, RequestStep, PlaceStep DEF IInv
<1>5. CASE UNCHANGED vars BY <1>1, <1>2, <1>5, <1>6 DEF vars, IInv
<1> QED BY <1>3, <1>4, <1>5 DEF Next

-----------------------------------------------------------------------------
(* What a request has in its body                                           *)

(* A request that was sent is that of a job of a mode that had begun.       *)
LEMMA SentMade ==
    ASSUME PlaceInv, NEW i \in DOMAIN sent
    PROVE  /\ InUse /\ inv # NoInvocation /\ Begins
           /\ FromJob(sent[i]) /\ Made(sent[i].job)
<1>1. sent[i] \in Range(sent) /\ sent # <<>> BY DEF Range
<1>2. InUse /\ inv # NoInvocation /\ Begins /\ FromJob(sent[i])
  BY <1>1 DEF PlaceInv, Begun
<1>3. Made(sent[i].job) BY <1>2, JobsListed DEF FromJob
<1> QED BY <1>2, <1>3

(* The body a request has over any other style of authentication is the     *)
(* job's.                                                                   *)
LEMMA BodySent ==
    ASSUME NEW x, FromJob(x), inv.auth # "aws-sigv4" PROVE x.request.body = x.job.body
BY DEF FromJob, BuildRequest, Style

(* A field that is set is there with its value, and the others are as they  *)
(* were.                                                                    *)
LEMMA SetGives ==
    ASSUME NEW body, NEW field, NEW value
    PROVE  /\ FieldsOf(Set(body, field, value)) = FieldsOf(body) \cup {field}
           /\ Set(body, field, value).at[field] = value
           /\ \A f \in FieldsOf(body) \ {field} : Set(body, field, value).at[f] = body.at[f]
BY DEF FieldsOf, Set, Object

(* The pack in use keeps what its manifest says, and says both names.       *)
LEMMA PackInUse ==
    ASSUME InUse, inv.mode \in {"batch", "probe"}
    PROVE  /\ inv.dir \in DOMAIN packs /\ BodyDir = packs[inv.dir]
           /\ Truthful(BodyDir)
BY UsesAssumption DEF InUse, BodyDir

(* A batch sets the model where the manifest has it: no body keeps another, *)
(* and none loses or wins a wish to stream by it.                           *)
LEMMA BatchBodyHas ==
    ASSUME InUse, inv.mode = "batch", Begins, NEW name \in DOMAIN BodyDir.bodies
    PROVE  LET m == ManifestOf(BodyDir)
               body == BatchBody(BodyDir, name)
           IN /\ m.model_field = "" => inv.named
              /\ FieldsOf(BodyDir.bodies[name]) \subseteq FieldsOf(body)
              /\ FieldsOf(body) \subseteq FieldsOf(BodyDir.bodies[name]) \cup {m.model_field}
              /\ IF "model" \in FieldsOf(body) THEN body.at["model"] = Model
                 ELSE inv.named \/ (m.model_field \in FieldsOf(body)
                                    /\ body.at[m.model_field] = Model)
              /\ inv.bucket = "auto" =>
                    (IsTrue(body, m.stream_field) <=> ScenarioStream(BodyDir, name))
<1> DEFINE m == ManifestOf(BodyDir)
           old == BodyDir.bodies[name]
           body == BatchBody(BodyDir, name)
<1>1. BatchBegins(BodyDir) BY DEF Begins
<1>2. Truthful(BodyDir) BY PackInUse
<1>3. /\ m.model_field = "" => inv.named
      /\ m.stream_field = "" => inv.bucket # "auto"
      /\ ManifestLoads(BodyDir.manifest)
  BY <1>1 DEF BatchBegins, Loads
<1>4. /\ m.model_field # "model" => "model" \notin FieldsOf(old)
      /\ m.model_field # m.stream_field \/ m.model_field = ""
  <2>1. CASE BodyDir.manifest.kind = "absent"
    BY <2>1 DEF ManifestOf, DefaultManifest
  <2>2. CASE BodyDir.manifest.kind # "absent"
    <3>1. {"model_field", "stream_field"} \subseteq DOMAIN BodyDir.manifest.at
      BY <1>3, <2>2 DEF ManifestLoads, ExplicitKeys
    <3>2. /\ m.model_field = BodyDir.manifest.at.model_field
          /\ m.stream_field = BodyDir.manifest.at.stream_field
      BY <2>2, <3>1 DEF ManifestOf, DefaultManifest
    <3> QED BY <1>2, <3>1, <3>2 DEF Truthful
  <2> QED BY <2>1, <2>2
<1>5. body = IF m.model_field = "" THEN old ELSE Set(old, m.model_field, Model)
  BY DEF BatchBody, WithModel
<1>6. ScenarioStream(BodyDir, name) <=> IsTrue(old, m.stream_field) BY DEF ScenarioStream
<1> HIDE DEF m, old, body
<1>7. CASE m.model_field = ""
  BY <1>3, <1>4, <1>5, <1>6, <1>7 DEF m, old, body
<1>8. CASE m.model_field # ""
  <2>0. body = Set(old, m.model_field, Model) BY <1>5, <1>8
  <2>1. /\ FieldsOf(body) = FieldsOf(old) \cup {m.model_field}
        /\ body.at[m.model_field] = Model
        /\ \A f \in FieldsOf(old) \ {m.model_field} : body.at[f] = old.at[f]
    BY <2>0, SetGives
  <2>2. IsTrue(body, m.stream_field) <=> IsTrue(old, m.stream_field)
    BY <1>4, <1>8, <2>1 DEF IsTrue
  <2>3. IF "model" \in FieldsOf(body) THEN body.at["model"] = Model
        ELSE inv.named \/ (m.model_field \in FieldsOf(body)
                           /\ body.at[m.model_field] = Model)
    BY <1>4, <2>1
  <2> QED BY <1>6, <1>8, <2>1, <2>2, <2>3 DEF m, old, body
<1> QED BY <1>7, <1>8

(* The baseline has --model, and the messages of chat_basic.                *)
LEMMA BaseHas ==
    ASSUME inv.mode = "probe", Begins
    PROVE  LET base == ProbeBase(BodyDir)
               basic == BodyIn(BodyDir, "chat_basic")
           IN /\ Core \subseteq FieldsOf(base)
              /\ FieldsOf(base) = FieldsOf(basic) \cup {"model"}
              /\ base.at["model"] = Model
              /\ base.at["messages"] = basic.at["messages"]
              /\ ProbesBuild(base, Full(BodyDir))
<1> DEFINE base == ProbeBase(BodyDir)
           basic == BodyIn(BodyDir, "chat_basic")
<1>1. ProbesBuild(base, Full(BodyDir)) BY DEF Begins, ProbeBegins
<1>2. base = Set(basic, "model", Model) BY DEF ProbeBase, WithModel
<1> HIDE DEF base, basic
<1>3. /\ FieldsOf(base) = FieldsOf(basic) \cup {"model"} /\ base.at["model"] = Model
      /\ \A f \in FieldsOf(basic) \ {"model"} : base.at[f] = basic.at[f]
  BY <1>2, SetGives
<1>4. Core \subseteq FieldsOf(base) BY <1>1 DEF ProbesBuild
<1>5. "messages" \in FieldsOf(basic) BY <1>3, <1>4 DEF Core
<1> QED BY <1>1, <1>3, <1>4, <1>5 DEF base, basic

(* A probe has the field, what goes with it, the baseline's model and       *)
(* messages and no more, all but what a rule says as the full body has it.  *)
LEMMA ProbeHas ==
    ASSUME NEW base, NEW full, NEW field \in ProbeFields(full), ProbesBuild(base, full)
    PROVE  LET body == ProbeBody(base, full, field)
               rule == RuleFor(full, field)
           IN /\ FieldsOf(body) = Core \cup {field} \cup Companions(full, field, rule)
              /\ \A f \in Core : body.at[f] = base.at[f]
              /\ "stream" \in FieldsOf(body) => body.at["stream"] = "true"
              /\ \A f \in FieldsOf(full) \cap FieldsOf(body) :
                    \/ f \in Core \cup {"stream"}
                    \/ f = "modalities" /\ field = "audio"
                    \/ body.at[f] = full.at[f]
<1> DEFINE body == ProbeBody(base, full, field)
           rule == RuleFor(full, field)
           value(f) == IF f \in DOMAIN rule.extra THEN rule.extra[f]
                       ELSE IF f \in rule.companions THEN full.at[f]
                       ELSE IF f # field THEN base.at[f]
                       ELSE IF rule.value # "" THEN rule.value ELSE full.at[f]
           D == Core \cup {field} \cup Companions(full, field, rule)
<1>1. field \notin Core BY DEF ProbeFields, Core, SyntheticProbeFields, SyntheticProbes
<1>2. FieldsOf(body) = D /\ \A f \in D : body.at[f] = value(f)
  BY DEF ProbeBody, FieldsOf, Object
<1>3. /\ rule.companions \subseteq {"tools"}
      /\ DOMAIN rule.extra \subseteq {"stream", "modalities"}
      /\ "stream" \in DOMAIN rule.extra => rule.extra["stream"] = "true"
      /\ "modalities" \in DOMAIN rule.extra => field = "audio"
      /\ rule.value # "" => field \in {"stream"} \/ field \notin FieldsOf(full)
      /\ field = "stream" => rule.value = "true"
  <2>1. CASE field \notin FieldsOf(full)
    <3>1. field = "stream_options"
      BY <2>1 DEF ProbeFields, SyntheticProbeFields, SyntheticProbes
    <3>2. rule = Rule("include_usage", {}, [stream |-> "true"])
      BY <2>1, <3>1 DEF RuleFor, SyntheticProbes
    <3> HIDE DEF rule
    <3>3. /\ rule.companions = {} /\ rule.extra = [stream |-> "true"]
          /\ rule.value = "include_usage"
      BY <3>2 DEF Rule
    <3> QED BY <2>1, <3>1, <3>3
  <2>2. CASE field \in FieldsOf(full)
    <3>1. CASE field \in DOMAIN ProbeRules
      <4>1. rule = ProbeRules[field] BY <2>2, <3>1 DEF RuleFor
      <4>2. field \in {"tool_choice", "parallel_tool_calls", "stream", "audio"}
        BY <3>1 DEF ProbeRules
      <4>3. CASE field \in {"tool_choice", "parallel_tool_calls"}
        <5>1. rule = Rule("", {"tools"}, NoFields)
          <6> HIDE DEF rule
          <6>1. ProbeRules["tool_choice"] = Rule("", {"tools"}, NoFields)
                /\ ProbeRules["parallel_tool_calls"] = Rule("", {"tools"}, NoFields)
            BY DEF ProbeRules
          <6> QED BY <4>1, <4>3, <6>1
        <5> HIDE DEF rule
        <5>2. rule.value = "" /\ rule.companions = {"tools"} /\ rule.extra = NoFields
          BY <5>1 DEF Rule
        <5> QED BY <4>3, <5>2 DEF NoFields
      <4>4. CASE field = "stream"
        <5>1. rule = Rule("true", {}, NoFields) BY <4>1, <4>4 DEF ProbeRules
        <5> HIDE DEF rule
        <5>2. rule.value = "true" /\ rule.companions = {} /\ rule.extra = NoFields
          BY <5>1 DEF Rule
        <5> QED BY <4>4, <5>2 DEF NoFields
      <4>5. CASE field = "audio"
        <5>1. rule = Rule("", {}, [modalities |-> "text,audio"])
          BY <4>1, <4>5 DEF ProbeRules
        <5> HIDE DEF rule
        <5>2. /\ rule.value = "" /\ rule.companions = {}
              /\ rule.extra = [modalities |-> "text,audio"]
          BY <5>1 DEF Rule
        <5> QED BY <4>5, <5>2
      <4> QED BY <4>2, <4>3, <4>4, <4>5
    <3>2. CASE field \notin DOMAIN ProbeRules
      <4>1. rule = Rule("", {}, NoFields) BY <2>2, <3>2 DEF RuleFor
      <4>2. field # "stream" BY <3>2 DEF ProbeRules
      <4> HIDE DEF rule
      <4>3. rule.value = "" /\ rule.companions = {} /\ rule.extra = NoFields
        BY <4>1 DEF Rule
      <4> QED BY <4>2, <4>3 DEF NoFields
    <3> QED BY <3>1, <3>2
  <2> QED BY <2>1, <2>2
<1>4. D = Core \cup {field} \cup rule.companions \cup DOMAIN rule.extra BY DEF Companions
<1> HIDE DEF body, rule, D
<1>5. \A f \in Core : f \in D /\ value(f) = base.at[f]
  BY <1>1, <1>3, <1>4 DEF Core
<1>6. "stream" \in D => value("stream") = "true" BY <1>3, <1>4 DEF Core
<1>7. \A f \in FieldsOf(full) \cap D :
         \/ f \in Core \cup {"stream"}
         \/ f = "modalities" /\ field = "audio"
         \/ value(f) = full.at[f]
  BY <1>3, <1>4
<1> HIDE DEF value
<1> QED BY <1>2, <1>5, <1>6, <1>7 DEF body, rule, D

(* What goes with a field is what it needs.                                 *)
LEMMA CompanionsNeeded ==
    ASSUME NEW field \in ProbeFields(Full(BodyDir))
    PROVE  Companions(Full(BodyDir), field, RuleFor(Full(BodyDir), field)) = Needs(field)
<1> DEFINE full == Full(BodyDir)
           rule == RuleFor(full, field)
<1> SUFFICES rule.companions \cup DOMAIN rule.extra = Needs(field) BY DEF Companions
<1>2. CASE field \notin FieldsOf(full)
  <2>1. field = "stream_options"
    BY <1>2 DEF ProbeFields, SyntheticProbeFields, SyntheticProbes
  <2>2. rule = Rule("include_usage", {}, [stream |-> "true"])
    BY <1>2, <2>1 DEF RuleFor, SyntheticProbes
  <2> HIDE DEF rule
  <2>3. rule.companions = {} /\ rule.extra = [stream |-> "true"] BY <2>2 DEF Rule
  <2> QED BY <1>2, <2>1, <2>3 DEF Needs
<1>3. CASE field \in FieldsOf(full) /\ field \in DOMAIN ProbeRules
  <2>1. rule = ProbeRules[field] BY <1>3 DEF RuleFor
  <2>2. field \in {"tool_choice", "parallel_tool_calls", "stream", "audio"}
    BY <1>3 DEF ProbeRules
  <2> HIDE DEF rule
  <2>3. /\ ProbeRules["tool_choice"] = Rule("", {"tools"}, NoFields)
        /\ ProbeRules["parallel_tool_calls"] = Rule("", {"tools"}, NoFields)
        /\ ProbeRules["stream"] = Rule("true", {}, NoFields)
        /\ ProbeRules["audio"] = Rule("", {}, [modalities |-> "text,audio"])
    BY DEF ProbeRules
  <2>4. CASE field \in {"tool_choice", "parallel_tool_calls"}
    <3>1. rule = Rule("", {"tools"}, NoFields) BY <2>1, <2>3, <2>4
    <3>2. rule.companions = {"tools"} /\ rule.extra = NoFields BY <3>1 DEF Rule
    <3>3. Needs(field) = {"tools"} BY <2>4 DEF Needs
    <3>4. DOMAIN rule.extra = {} BY <3>2 DEF NoFields
    <3> QED BY <3>2, <3>3, <3>4
  <2>5. CASE field = "stream"
    <3>1. rule = Rule("true", {}, NoFields) BY <2>1, <2>3, <2>5
    <3>2. rule.companions = {} /\ rule.extra = NoFields BY <3>1 DEF Rule
    <3>3. Needs(field) = {} BY <2>5 DEF Needs
    <3>4. DOMAIN rule.extra = {} BY <3>2 DEF NoFields
    <3> QED BY <3>2, <3>3, <3>4
  <2>6. CASE field = "audio"
    <3>1. rule = Rule("", {}, [modalities |-> "text,audio"]) BY <2>1, <2>3, <2>6
    <3>2. rule.companions = {} /\ rule.extra = [modalities |-> "text,audio"]
      BY <3>1 DEF Rule
    <3>3. Needs(field) = {"modalities"} BY <2>6 DEF Needs
    <3>4. DOMAIN rule.extra = {"modalities"} BY <3>2
    <3> QED BY <3>2, <3>3, <3>4
  <2> QED BY <2>2, <2>4, <2>5, <2>6
<1>4. CASE field \in FieldsOf(full) /\ field \notin DOMAIN ProbeRules
  <2>1. rule = Rule("", {}, NoFields) BY <1>4 DEF RuleFor
  <2> HIDE DEF rule
  <2>2. rule.companions = {} /\ rule.extra = NoFields BY <2>1 DEF Rule
  <2>3. Needs(field) = {}
    <3>1. field \notin {"tool_choice", "parallel_tool_calls", "audio"}
      BY <1>4 DEF ProbeRules
    <3> QED BY <1>4, <3>1 DEF Needs
  <2>4. DOMAIN rule.extra = {} BY <2>2 DEF NoFields
  <2> QED BY <2>2, <2>3, <2>4
<1> QED BY <1>2, <1>3, <1>4

-----------------------------------------------------------------------------
(* Theorems                                                                 *)

(* The invariant of both sides: the rules have what the credentials need    *)
(* from Configure on (runRecordCommand), and an audit in progress has a     *)
(* report on, or has still to read, every pack it owes one.                 *)
THEOREM Invariance == Spec => []IInv
<1> QED BY InitIInv, NextIInv, PTL DEF Spec

(* Whatever the packs, flags, profile and style of authentication, each     *)
(* request buildRequest makes carries the credential where it belongs, the  *)
(* copy has that place blanked by name, and the values are registered.      *)
THEOREM CredentialsCovered == Spec => []KeyCovered
<1>1. IInv => KeyCovered
  <2> SUFFICES ASSUME IInv, NEW i \in DOMAIN sent
      PROVE LET r == sent[i].request
            IN /\ Carriers \subseteq sent[i].blanked
               /\ Style = "query" => r.params[inv.param] = Key
               /\ Style # "query" => \A name \in Carriers : r.headers[name] = AuthHeader[name]
               /\ {Key} \ {""} \subseteq rules.secrets /\ "" \notin rules.secrets
               /\ Style = "aws-sigv4" => AwsSecrets \subseteq rules.secrets
    BY DEF KeyCovered
  <2>1. Covered(sent[i]) BY DEF IInv, RequestInv
  <2>2. sent # <<>> BY EmptySeq
  <2>3. Registered BY <2>2 DEF IInv, RequestInv
  <2> QED BY <2>1, <2>3 DEF Covered, Registered
<1> QED BY <1>1, Invariance, PTL

(* Whatever the specification says, a report is right about it: the walk of *)
(* the schema (collectProps) finds what is declared, cycles or not, unless  *)
(* it lies deeper than the cap, and what no body carries is not covered.    *)
THEOREM ReportsExact == Spec => []ReportExact
<1>1. IInv => ReportExact
  <2> SUFFICES ASSUME IInv, NEW d \in DOMAIN reports
      PROVE LET ref == ManifestOf(packs[d]).spec
                doc == Web[SpecURL(ref)]
                report == reports[d]
                listed == report.covered \cup report.missing
                declared == IF ref.kind = "discovery" THEN doc.schemas[ref.at]
                            ELSE Declared(doc.nodes, doc.paths[ref.at])
                whole == ref.kind = "discovery" \/
                    Near(doc.nodes, doc.paths[ref.at]) = Everywhere(doc.nodes, doc.paths[ref.at])
                byDesign == IF ManifestOf(packs[d]).model_field = "" THEN {"model"} ELSE {}
            IN /\ listed \subseteq declared \ byDesign
               /\ whole => listed = declared \ byDesign
               /\ \A field \in report.covered : Provides(packs[d], field)
               /\ \A field \in report.missing : ~Provides(packs[d], field)
               /\ \A field \in report.extra : Provides(packs[d], field) /\ field \notin listed
    BY DEF ReportExact
  <2> DEFINE ref == ManifestOf(packs[d]).spec
             doc == Web[SpecURL(ref)]
             byDesign == IF ManifestOf(packs[d]).model_field = "" THEN {"model"} ELSE {}
             spec == Audited(packs[d], SpecFields(ref))
  <2>1. reports[d] = Compare(PackFields(packs[d]), spec) /\ SpecFields(ref) # {}
    BY DEF IInv, AuditInv, Reported, ReportOn
  <2>2. reports[d].covered \cup reports[d].missing = spec
    BY <2>1 DEF Compare
  <2>3. spec = SpecFields(ref) \ byDesign BY DEF Audited
  <2>4. /\ \A field \in reports[d].covered : Provides(packs[d], field)
        /\ \A field \in reports[d].missing : ~Provides(packs[d], field)
        /\ \A field \in reports[d].extra :
              Provides(packs[d], field) /\ field \notin reports[d].covered \cup reports[d].missing
    <3>1. \A field : field \in PackFields(packs[d]) <=> Provides(packs[d], field)
      BY DEF PackFields, Provides
    <3> QED BY <2>1, <3>1 DEF Compare
  <2>5. CASE ref.kind = "discovery"
    <3>1. SpecFields(ref) = doc.schemas[ref.at]
      BY <2>1, <2>5 DEF SpecFields, DiscoveryFields
    <3> QED BY <2>2, <2>3, <2>4, <2>5, <3>1
  <2>6. CASE ref.kind # "discovery"
    <3>1. /\ SpecURL(ref) \in DOMAIN Web /\ doc.kind = "openapi" /\ ref.at \in DOMAIN doc.paths
          /\ SpecFields(ref) = CollectProps(doc.nodes, doc.paths[ref.at])
      BY <2>1, <2>6 DEF SpecFields, OpenapiRequestFields
    <3> DEFINE nodes == doc.nodes
               root == doc.paths[ref.at]
    <3>2. IsFiniteSet(DOMAIN nodes) /\ root \in DOMAIN nodes BY <3>1, WebAssumption
    <3> HIDE DEF nodes, root, ref, doc, spec, byDesign
    <3>3. SpecFields(ref) = UNION {OwnProps(nodes, n) : n \in Near(nodes, root)}
      BY <3>1, <3>2, Collected DEF nodes, root
    <3>4. Near(nodes, root) \subseteq Everywhere(nodes, root) BY <3>2, NearIsSomewhere
    <3>5. SpecFields(ref) \subseteq Declared(nodes, root)
          /\ (Near(nodes, root) = Everywhere(nodes, root) =>
                 SpecFields(ref) = Declared(nodes, root))
      BY <3>3, <3>4 DEF Declared
    <3>6. spec \subseteq Declared(nodes, root) \ byDesign
          /\ (Near(nodes, root) = Everywhere(nodes, root) =>
                 spec = Declared(nodes, root) \ byDesign)
      BY <2>3, <3>5
    <3> QED BY <2>2, <2>4, <2>6, <3>6 DEF nodes, root, ref, doc, spec, byDesign
  <2> QED BY <2>5, <2>6
<1> QED BY <1>1, Invariance, PTL

(* However many packs are audited, in whichever order they are found and    *)
(* whichever fetch fails, the exit code under --strict is that of all the   *)
(* reports, and no pack that was due one is left out (runAuditCommand).     *)
THEOREM ExitCode == Spec => []StrictTellsTruth
<1>1. IInv => StrictTellsTruth
  BY DEF IInv, AuditInv, AllIn, Due, StrictTellsTruth
<1> QED BY <1>1, Invariance, PTL

(* Whatever is audited and recorded, and in whichever order: rules keep     *)
(* their parts, a job keeps a bucket there is, a response is one the        *)
(* request may get, and reports are of packs that load.                     *)
THEOREM TypeCorrect == Spec => []TypeOK
<1>1. IInv => TypeOK
  <2> SUFFICES ASSUME IInv PROVE TypeOK OBVIOUS
  <2>1. inv.mode \in {"none", "single", "batch", "probe"}
    BY UsesAssumption DEF IInv, PlaceInv, InUse
  <2>2. \A i \in DOMAIN jobs : jobs[i].bucket \in {"stream", "nostream", "fields", ""}
    <3> SUFFICES ASSUME NEW i \in DOMAIN jobs
                 PROVE  jobs[i].bucket \in {"stream", "nostream", "fields", ""} OBVIOUS
    <3> DEFINE J == JobsOf
               a == Len(jobs)
               n == Len(J)
    <3>1. jobs # <<>> /\ jobs \in Seq(Range(jobs)) /\ sent \in Seq(Range(sent))
      BY DEF IInv, PlaceInv
    <3>2. InUse /\ Counted /\ inv # NoInvocation BY <3>1 DEF IInv, PlaceInv, Begun
    <3>3. J \in Seq(Range(J)) /\ \A j \in Range(J) : Made(j) BY <3>2, JobsListed
    <3>4. a \in Nat /\ i \in 1 .. a /\ n \in Nat /\ DOMAIN J = 1 .. n /\ Len(sent) \in Nat
      BY <3>1, <3>3, LenProperties
    <3>5. jobs[i] = J[n - a + i] /\ a + Len(sent) <= n BY <3>2, <3>4 DEF Counted
    <3> HIDE DEF J, a, n
    <3>6. n - a + i \in DOMAIN J BY <3>4, <3>5
    <3>7. Made(jobs[i]) BY <3>3, <3>5, <3>6 DEF Range
    <3> DEFINE j == jobs[i]
    <3> HIDE DEF j
    <3>8. \A wish : Bucket(wish) \in {"stream", "nostream"} BY DEF Bucket
    <3>9. \/ \E wish : j.bucket = Bucket(wish)
          \/ j.bucket = "" \/ j.bucket = "fields"
      BY <3>7, MadeParts, Zenon DEF Made, j
    <3>10. j.bucket \in {"stream", "nostream", "fields", ""} BY <3>8, <3>9, Zenon
    <3> QED BY <3>10 DEF j
  <2>3. \A i \in DOMAIN sent : sent[i].resp \in Responses(sent[i].request)
    BY SentMade DEF IInv, FromJob
  <2>4. RequestTypeOK BY <2>1, <2>2, <2>3 DEF RequestTypeOK, IInv, RequestInv, PlaceInv
  <2>5. AuditTypeOK
    <3>1. {audit.strict, audit.resolve} \subseteq BOOLEAN
      BY UsesAssumption DEF IInv, AuditInv
    <3>2. ToSet(todo) \subseteq DOMAIN packs
      BY ElementOfSeq, LenProperties DEF IInv, AuditInv, ToSet
    <3> QED BY <3>1, <3>2 DEF AuditTypeOK, IInv, AuditInv, Reported
  <2> QED BY <2>4, <2>5 DEF TypeOK
<1> QED BY <1>1, Invariance, PTL

(* Over any pack whose manifest is true: no request of a batch or of probes *)
(* has the model the pack was committed with (WithModel, BuildProbes).      *)
THEOREM VendorsModel == Spec => []VendorsModelSent
<1>1. IInv => VendorsModelSent
  <2> SUFFICES ASSUME IInv, NEW i \in DOMAIN sent, inv.mode \in {"batch", "probe"},
                      inv.auth # "aws-sigv4"
      PROVE LET body == sent[i].request.body
                field == ManifestOf(BodyDir).model_field
            IN IF "model" \in FieldsOf(body) THEN body.at["model"] = Model
               ELSE inv.named \/ (field \in FieldsOf(body) /\ body.at[field] = Model)
    BY DEF VendorsModelSent
  <2> DEFINE x == sent[i]
  <2>1. InUse /\ Begins /\ FromJob(x) /\ Made(x.job) BY SentMade DEF IInv
  <2>2. x.request.body = x.job.body BY <2>1, BodySent
  <2> HIDE DEF x
  <2>3. CASE inv.mode = "batch"
    <3>1. PICK name \in DOMAIN BodyDir.bodies : BatchJob(x.job, name) BY <2>1, <2>3 DEF Made
    <3>2. x.job.body = BatchBody(BodyDir, name) BY <3>1, MadeParts
    <3> QED BY <2>1, <2>2, <2>3, <3>2, BatchBodyHas DEF x
  <2>4. CASE inv.mode = "probe" /\ BaselineJob(x.job)
    <3>1. x.job.body = ProbeBase(BodyDir) BY <2>4, MadeParts
    <3> QED BY <2>1, <2>2, <2>4, <3>1, BaseHas DEF x, Core
  <2>5. CASE inv.mode = "probe" /\ \E field \in ProbeFields(Full(BodyDir)) :
                                      FieldJob(x.job, field)
    <3>1. PICK field \in ProbeFields(Full(BodyDir)) : FieldJob(x.job, field) BY <2>5
    <3>2. x.job.body = ProbeBody(ProbeBase(BodyDir), Full(BodyDir), field)
      BY <3>1, MadeParts
    <3>3. /\ ProbesBuild(ProbeBase(BodyDir), Full(BodyDir))
          /\ ProbeBase(BodyDir).at["model"] = Model
      BY <2>1, <2>5, BaseHas
    <3>4. "model" \in FieldsOf(x.job.body) /\ x.job.body.at["model"] = Model
      BY <3>1, <3>2, <3>3, ProbeHas DEF Core
    <3> QED BY <2>2, <3>4 DEF x
  <2> QED BY <2>1, <2>3, <2>4, <2>5 DEF Made
<1> QED BY <1>1, Invariance, PTL


(* Over any such pack, with any flags: stream/ and nostream/ tell whether   *)
(* streaming was asked for, and a file of a field probe is of a request     *)
(* with that field, its companions and no more (bucketStream, BuildProbes). *)
THEOREM PlaceTells == Spec => []PlaceTellsRequest
<1>1. IInv => PlaceTellsRequest
  <2> SUFFICES ASSUME IInv, NEW i \in DOMAIN sent, sent[i].kept
      PROVE /\ sent[i].job.kind \in {"scenario", "single"} => BucketTells(sent[i])
            /\ sent[i].job.kind = "probe" /\ inv.auth # "aws-sigv4" => FieldTells(sent[i])
    BY DEF PlaceTellsRequest
  <2> DEFINE x == sent[i]
  <2>1. InUse /\ Begins /\ FromJob(x) /\ Made(x.job) BY SentMade DEF IInv
  <2> HIDE DEF x
  <2>2. ASSUME inv.auth = "aws-sigv4", inv.bucket # "auto", NEW wish,
               x.job.bucket = Bucket(wish)
        PROVE  x.job.bucket = "stream" <=> x.request.url = "invoke-with-response-stream"
    <3>1. x.job.bucket = "stream" <=> AwsStream
      BY <2>2 DEF Bucket, BucketStream, AwsStream
    <3>2. x.request.url = IF AwsStream THEN "invoke-with-response-stream" ELSE "invoke"
      BY <2>1, <2>2 DEF FromJob, BuildRequest, Style
    <3> QED BY <3>1, <3>2
  <2>3. ASSUME inv.bucket = "auto", NEW wish \in BOOLEAN, x.job.bucket = Bucket(wish)
        PROVE  x.job.bucket = "stream" <=> wish
    BY <2>3 DEF Bucket, BucketStream
  <2>4. ASSUME x.job.kind \in {"scenario", "single"} PROVE BucketTells(x)
    <3>1. CASE SingleJob(x.job) /\ inv.mode = "single"
      <4>1. /\ x.job.bucket = Bucket(IsTrue(inv.body, "stream"))
            /\ x.job.body = inv.body
        BY <3>1, MadeParts
      <4>2. IsTrue(inv.body, "stream") \in BOOLEAN BY DEF IsTrue
      <4> QED BY <2>1, <2>2, <2>3, <3>1, <4>1, <4>2, BodySent DEF BucketTells
    <3>2. CASE inv.mode = "batch" /\ \E name \in DOMAIN BodyDir.bodies :
                                        BatchJob(x.job, name)
      <4>1. PICK name \in DOMAIN BodyDir.bodies : BatchJob(x.job, name) BY <3>2
      <4>2. /\ x.job.bucket = Bucket(ScenarioStream(BodyDir, name))
            /\ x.job.body = BatchBody(BodyDir, name)
        BY <4>1, MadeParts
      <4>3. ScenarioStream(BodyDir, name) \in BOOLEAN BY DEF ScenarioStream, IsTrue
      <4>4. inv.bucket = "auto" =>
               (IsTrue(x.job.body, ManifestOf(BodyDir).stream_field)
                   <=> ScenarioStream(BodyDir, name))
        BY <2>1, <3>2, <4>2, BatchBodyHas
      <4> QED BY <2>1, <2>2, <2>3, <3>2, <4>2, <4>3, <4>4, BodySent DEF BucketTells
    <3> QED BY <2>1, <2>4, <3>1, <3>2, MadeParts, Zenon DEF Made
  <2>5. ASSUME x.job.kind = "probe", inv.auth # "aws-sigv4" PROVE FieldTells(x)
    <3>1. inv.mode = "probe" /\ \E field \in ProbeFields(Full(BodyDir)) :
                                   FieldJob(x.job, field)
      <4>1. x.job.kind \notin {"single", "scenario", "baseline"} BY <2>5
      <4> QED BY <2>1, <4>1, MadeParts DEF Made
    <3>2. PICK field \in ProbeFields(Full(BodyDir)) : FieldJob(x.job, field) BY <3>1
    <3> DEFINE base == ProbeBase(BodyDir)
               full == Full(BodyDir)
               body == x.request.body
    <3>3. x.job.of = field /\ body = ProbeBody(base, full, field)
      BY <2>1, <2>5, <3>2, MadeParts, BodySent
    <3>4. /\ ProbesBuild(base, full)
          /\ base.at["messages"] = BodyIn(BodyDir, "chat_basic").at["messages"]
      BY <2>1, <3>1, BaseHas
    <3>0. field \in ProbeFields(full) OBVIOUS
    <3> HIDE DEF base, full, body
    <3>5. /\ FieldsOf(body) = Core \cup {field} \cup Companions(full, field, RuleFor(full, field))
          /\ body.at["messages"] = base.at["messages"]
          /\ "stream" \in FieldsOf(body) => body.at["stream"] = "true"
          /\ \A f \in FieldsOf(full) \cap FieldsOf(body) :
                \/ f \in Core \cup {"stream"}
                \/ f = "modalities" /\ field = "audio"
                \/ body.at[f] = full.at[f]
      BY <3>0, <3>3, <3>4, ProbeHas DEF Core
    <3>6. Companions(full, field, RuleFor(full, field)) = Needs(field)
      BY CompanionsNeeded DEF full
    <3> QED BY <3>3, <3>4, <3>5, <3>6 DEF FieldTells, Core, base, full, body
  <2> QED BY <2>4, <2>5 DEF x
<1> QED BY <1>1, Invariance, PTL

(* Of any pack that is audited and recorded in full: each field an audit    *)
(* calls covered is in some request, and none it calls missing is, but for  *)
(* the model and, off protocol openai, the synthetic probes (Compare,       *)
(* BuildProbes).                                                            *)
THEOREM CoveredSent == Spec => []CoveredIsSent
<1>1. IInv => CoveredIsSent
  <2> SUFFICES ASSUME IInv, EverySent, inv.dir \in DOMAIN reports, inv.auth # "aws-sigv4"
      PROVE LET report == reports[inv.dir]
            IN /\ inv.mode = "batch" => report.covered \ SyntheticProbeFields \subseteq Exercised
               /\ inv.mode = "probe" =>
                     report.covered \cap (SyntheticProbeFields \cup FieldsOf(Full(BodyDir)))
                         \subseteq Exercised
               /\ report.missing \cap Exercised \subseteq
                     {"model", ManifestOf(BodyDir).model_field} \cup
                     IF ManifestOf(BodyDir).protocol = "openai" THEN {}
                     ELSE SyntheticProbeFields
    BY DEF CoveredIsSent
  <2> DEFINE report == reports[inv.dir]
             bodies == UNION {FieldsOf(BodyDir.bodies[n]) : n \in DOMAIN BodyDir.bodies}
             counted == IF ManifestOf(BodyDir).protocol = "openai"
                        THEN SyntheticProbeFields ELSE {}
  <2>1. /\ status = "done" /\ jobs = <<>> /\ Begins /\ InUse /\ inv # NoInvocation
        /\ inv.mode \in {"batch", "probe"} /\ Counted /\ sent \in Seq(Range(sent))
    BY DEF IInv, PlaceInv, EverySent, Begun
  <2>2. report.covered \subseteq bodies \cup counted
        /\ report.missing \cap (bodies \cup counted) = {}
    <3>1. report = ReportOn(BodyDir) BY DEF IInv, AuditInv, BodyDir
    <3>2. PackFields(BodyDir) = bodies \cup counted BY DEF PackFields
    <3> HIDE DEF report, bodies, counted
    <3>3. PICK spec : report = Compare(bodies \cup counted, spec)
      BY <3>1, <3>2 DEF ReportOn
    <3> QED BY <3>3 DEF Compare
  <2>3. \A j \in Range(JobsOf) : \E i \in DOMAIN sent : sent[i].job = j
    <3>1. Len(sent) = Len(JobsOf)
      BY <2>1, BatchListed, ProbesListed DEF EverySent
    <3>2. JobsOf \in Seq(Range(JobsOf)) BY <2>1, JobsListed
    <3>3. Len(jobs) = 0 /\ Len(JobsOf) \in Nat BY <2>1, <3>2, LenProperties
    <3>4. \A k \in 1 .. Len(sent) : sent[k].job = JobsOf[k]
      BY <2>1, <3>1, <3>3 DEF Counted
    <3>5. DOMAIN sent = DOMAIN JobsOf BY <2>1, <3>1, <3>2, LenProperties
    <3>6. DOMAIN sent = 1 .. Len(sent) BY <2>1, LenProperties
    <3> HIDE DEF Counted
    <3> QED BY <3>4, <3>5, <3>6 DEF Range
  <2>4. ASSUME NEW i \in DOMAIN sent
        PROVE  sent[i].request.body = sent[i].job.body /\ Made(sent[i].job)
    BY SentMade, BodySent DEF IInv
  <2> HIDE DEF report
  <2>5. CASE inv.mode = "batch"
    <3>1. ASSUME NEW name \in DOMAIN BodyDir.bodies
          PROVE  FieldsOf(BodyDir.bodies[name]) \subseteq Exercised
      <4>1. PICK j \in Range(JobsOf) : BatchJob(j, name) BY <2>1, <2>5, BatchListed
      <4>2. PICK i \in DOMAIN sent : sent[i].job = j BY <2>3
      <4>3. sent[i].job.kind = "scenario" /\ sent[i].request.body = BatchBody(BodyDir, name)
        BY <2>4, <4>1, <4>2, MadeParts
      <4>4. FieldsOf(BodyDir.bodies[name]) \subseteq FieldsOf(sent[i].request.body)
        BY <2>1, <2>5, <4>3, BatchBodyHas
      <4> QED BY <4>3, <4>4 DEF Exercised
    <3>2. report.covered \ SyntheticProbeFields \subseteq Exercised BY <2>2, <3>1
    <3>3. Exercised \subseteq bodies \cup {ManifestOf(BodyDir).model_field}
      <4> SUFFICES ASSUME NEW i \in DOMAIN sent
          PROVE (IF sent[i].job.kind = "probe" THEN {sent[i].job.of}
                 ELSE FieldsOf(sent[i].request.body))
                   \subseteq bodies \cup {ManifestOf(BodyDir).model_field}
        BY DEF Exercised
      <4>1. PICK name \in DOMAIN BodyDir.bodies : BatchJob(sent[i].job, name)
        BY <2>4, <2>5 DEF Made
      <4>2. sent[i].job.kind = "scenario" /\ sent[i].request.body = BatchBody(BodyDir, name)
        BY <2>4, <4>1, MadeParts
      <4>3. FieldsOf(sent[i].request.body) \subseteq
               FieldsOf(BodyDir.bodies[name]) \cup {ManifestOf(BodyDir).model_field}
        BY <2>1, <2>5, <4>2, BatchBodyHas
      <4> QED BY <4>2, <4>3
    <3> HIDE DEF bodies, counted
    <3> QED BY <2>2, <2>5, <3>2, <3>3 DEF report
  <2>6. CASE inv.mode = "probe"
    <3> DEFINE base == ProbeBase(BodyDir)
               full == Full(BodyDir)
    <3>1. /\ Core \subseteq FieldsOf(base)
          /\ FieldsOf(base) \subseteq bodies \cup {"model"}
      <4>1. FieldsOf(BodyIn(BodyDir, "chat_basic")) \subseteq bodies
        BY DEF BodyIn, FieldsOf, Absent
      <4> HIDE DEF bodies
      <4> QED BY <2>1, <2>6, <4>1, BaseHas
    <3>2. FieldsOf(full) \subseteq bodies BY DEF Full, BodyIn, FieldsOf, Absent
    <3>3. ProbeFields(full) \subseteq Exercised
      <4> SUFFICES ASSUME NEW field \in ProbeFields(full) PROVE field \in Exercised
        OBVIOUS
      <4>1. PICK j \in Range(JobsOf) : FieldJob(j, field) BY <2>1, <2>6, ProbesListed
      <4>2. PICK i \in DOMAIN sent : sent[i].job = j BY <2>3
      <4>3. sent[i].job.kind = "probe" /\ sent[i].job.of = field
        BY <4>1, <4>2, MadeParts
      <4> QED BY <4>3 DEF Exercised
    <3>4. Core \subseteq Exercised
      <4>1. PICK j \in Range(JobsOf) : BaselineJob(j) BY <2>1, <2>6, ProbesListed
      <4>2. PICK i \in DOMAIN sent : sent[i].job = j BY <2>3
      <4>3. j.kind = "baseline" /\ j.body = base BY <4>1, MadeParts
      <4>4. sent[i].job.kind = "baseline" /\ sent[i].request.body = base
        BY <2>4, <4>2, <4>3
      <4> QED BY <3>1, <4>4 DEF Exercised
    <3>5. SyntheticProbeFields \cup FieldsOf(full) \subseteq ProbeFields(full) \cup Core
      BY DEF ProbeFields
    <3>6. Exercised \subseteq ProbeFields(full) \cup bodies \cup {"model"}
      <4> SUFFICES ASSUME NEW i \in DOMAIN sent
          PROVE (IF sent[i].job.kind = "probe" THEN {sent[i].job.of}
                 ELSE FieldsOf(sent[i].request.body))
                   \subseteq ProbeFields(full) \cup bodies \cup {"model"}
        BY DEF Exercised
      <4>1. CASE BaselineJob(sent[i].job)
        <5>1. sent[i].job.kind = "baseline" /\ sent[i].job.body = base BY <4>1, MadeParts
        <5> HIDE DEF base, full, bodies
        <5> QED BY <2>4, <3>1, <5>1
      <4>2. CASE \E field \in ProbeFields(full) : FieldJob(sent[i].job, field)
        <5>1. PICK field \in ProbeFields(full) : FieldJob(sent[i].job, field) BY <4>2
        <5>2. sent[i].job.kind = "probe" /\ sent[i].job.of = field BY <5>1, MadeParts
        <5> HIDE DEF full, bodies
        <5> QED BY <5>2
      <4> QED BY <2>4, <2>6, <4>1, <4>2 DEF Made
    <3>7. ProbeFields(full) \subseteq FieldsOf(full) \cup SyntheticProbeFields
      BY DEF ProbeFields
    <3>8. counted = IF ManifestOf(BodyDir).protocol = "openai"
                    THEN SyntheticProbeFields ELSE {} OBVIOUS
    <3> HIDE DEF bodies, counted, base
    <3> QED BY <2>2, <2>6, <3>2, <3>3, <3>4, <3>5, <3>6, <3>7, <3>8 DEF report
  <2> QED BY <2>1, <2>5, <2>6
<1> QED BY <1>1, Invariance, PTL

=============================================================================
