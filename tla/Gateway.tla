------------------------------ MODULE Gateway ------------------------------
(***************************************************************************)
(* A request on its way through gateway-mt: the router picks a handler, the *)
(* AccessKey middleware resolves the credentials (AuthClient), uploads and *)
(* downloads pass the Limiter, the wrapping handlers put the user's id in  *)
(* front and talk to the node service about bucket names, and the          *)
(* multi-tenant layer opens the project of the access grant.               *)
(***************************************************************************)
EXTENDS AuthClient, S3Routes

CONSTANTS
  Calls,     \* bound of the model: sets of requests that may meet each other
  Alone,     \* and those requests that are sent alone
  User, Bucket, Object,
  UserOf,    \* UserOf[k]: what the DWS service answers for an access key
  LimitKey, HeadOf, NoHead,  \* HeadOf[k]: the macaroon head of k's grant
  Allowed

VARIABLES
  req,      \* req[r]: a request
  stored,   \* the objects: <<bucket of the project, path>>
  uploads,  \* the multipart uploads that are open, by place
  taken,    \* the bucket names that the node service has
  limits, slot, leaked,
  broken    \* calls of other services that failed, and panics, so far

L == INSTANCE Limiter

ASSUME GatewayAssumption ==
  /\ L!LimiterAssumption
  /\ HeadOf \in [AccessKey -> LimitKey] /\ NoHead \in LimitKey
  /\ UserOf \in [AccessKey -> User] /\ None \notin User
  /\ \A a \in (UNION Calls) \cup Alone : a.bucket \in Bucket /\ a.object \in Object

storage == <<stored, uploads, taken>>
limiterVars == <<limits, slot, leaked>>
vars == <<authVars, limiterVars, req, storage, broken>>

Stages == {"idle", "lookup", "limiter", "handler", "head", "core", "post",
           "unclaim", "leaving", "done"}

\* A request that nobody has sent yet.
NoReq == [stage |-> "idle", call |-> None, handler |-> None, user |-> None,
          place |-> None, said |-> None, after |-> {}]

Places == (User \cup Bucket) \X Seq(Bucket \cup Object)

Init ==
  /\ AuthInit /\ L!LimiterInit
  /\ req = [r \in Request |-> NoReq]
  /\ stored = {} /\ uploads = {} /\ taken = {} /\ broken = 0

In(r, stage) == req[r].stage = stage
Go(r, stage) == req' = [req EXCEPT ![r].stage = stage]

\* The status of a request whose connection breaks.
NoAnswer == 0

\* The answer: what is written first is what the client sees.
Said(r, status) == IF req[r].said = None THEN status ELSE req[r].said
Reply(r, status, stage) ==
  req' = [req EXCEPT ![r] = [@ EXCEPT !.said = Said(r, status), !.stage = stage]]

Faulty == broken < MaxFaults /\ broken' = broken + 1
Fine == UNCHANGED broken
-----------------------------------------------------------------------------
(* GetAccessKeyID: the first kind of signature that a request has is the   *)
(* one that counts; each is [key, defects].                                *)

\* The checks of each parser in their order, and the error that each is to the
\* client (errToAPIErrCode).
ParseV4Credential == <<
  <<"credential", "CredMalformed">>,
  <<"credential date", "MalformedCredentialDate">>>>

\* A header without Credential is not an error: the missing credential is used.
ParseV4FromHeader ==
  <<<<"no fields", "MissingFields">>, <<"date", "MissingDateHeader">>,
    <<"fields", "MissingFields">>>>
  \o ParseV4Credential \o <<<<"no credential", "panic">>>>

ParseV4FromQuery ==
  <<<<"algorithm", "InvalidQuerySignatureAlgo">>>> \o ParseV4Credential
  \o <<<<"date", "InvalidCredentials">>>>

ParseV2FromHeader == <<<<"authorization", "MissingFieldsV2">>>>

ParseV2FromQuery ==
  <<<<"no key", "InvalidQueryParams">>, <<"no signature", "InvalidQueryParams">>>>

ParseV4FromFormValues == ParseV4Credential
  \o <<<<"date", "MalformedPresignedDate">>>>

\* The fields of either version will do.
ParseFromForm ==
  <<<<"multipart", "MalformedPOSTRequest">>, <<"fields", "MissingFields">>>>
  \o ParseV4FromFormValues

Schemes == <<
  <<"v4", ParseV4FromHeader>>, <<"presigned v4", ParseV4FromQuery>>,
  <<"v2", ParseV2FromHeader>>, <<"presigned v2", ParseV2FromQuery>>,
  <<"form", ParseFromForm>>>>

Parse(checks, c) ==
  LET i == SelectInSeq(checks, LAMBDA check : check[1] \in c.defects)
  IN  IF i = 0 THEN c.key ELSE checks[i][2]

GetAccessKeyID(creds) ==
  LET i == SelectInSeq(Schemes, LAMBDA s : s[1] \in DOMAIN creds)
  IN  IF i = 0 THEN None ELSE Parse(Schemes[i][2], creds[Schemes[i][1]])
-----------------------------------------------------------------------------
(* The router and the AccessKey middleware, which comes before it but only *)
(* looks at the headers.                                                   *)

IsLimited(handler) == handler \in Limited

Unrouted == {"NotFound", "MethodNotAllowed"}

\* The middleware answers errors of the credentials itself; a key is looked up, and
\* who has none goes on without.
Arrive(r) ==
  /\ In(r, "idle")
  /\ \E a \in (UNION Calls) \cup Alone :
       LET k == GetAccessKeyID(a.creds)
           Sent(stage, status) ==
             req' = [req EXCEPT ![r] = [NoReq EXCEPT
               !.stage = stage, !.said = status, !.call = a,
               !.handler = HandlerOf(a),
               !.after = {s \in Request : In(s, "done")}]]
       IN  /\ \A s \in Request : ~In(s, "idle") =>
                \E C \in Calls : {a, req[s].call} \subseteq C
           /\ CASE HandlerOf(a) \in Unrouted ->
                     /\ Sent("done", IF HandlerOf(a) = "NotFound" THEN 404 ELSE 405)
                     /\ UNCHANGED authVars
                [] HandlerOf(a) \notin Unrouted /\ k \in AccessKey ->
                     Sent("lookup", None) /\ StartLookup(r, k)
                [] HandlerOf(a) \notin Unrouted /\ k = None ->
                     Sent("lookup", None) /\ UNCHANGED authVars
                [] OTHER ->
                     /\ Sent("done", IF k = "panic" THEN NoAnswer ELSE 400)
                     /\ UNCHANGED authVars
  /\ UNCHANGED <<limiterVars, storage, broken>>

Resolving(r) ==
  /\ In(r, "lookup")
  /\ \/ ResolveStep(r) \/ Cancel(r)
     \/ \E answer \in Answer(lookup[r].key) : Ask(r, answer)
  /\ UNCHANGED <<limiterVars, req, storage, broken>>

\* The credentials are in the context of the request, errors of the lookup with
\* them, and it goes on.
Authenticated(r) == In(r, "lookup") /\ (At(r, "done") \/ At(r, "idle"))

\* The auth service has given the access grant of the request's key.
Granted(r) == At(r, "done") /\ lookup[r].got = "grant"
-----------------------------------------------------------------------------
(* The limiter around the handlers of uploads and downloads.               *)

\* getRequestMacaroonHead; all who have none share a key.
LimitKeyOf(r) == IF Granted(r) THEN HeadOf[lookup[r].key] ELSE NoHead

Count(r) ==
  /\ Authenticated(r) /\ IsLimited(req[r].handler)
  /\ L!Increment(r, LimitKeyOf(r)) /\ Go(r, "limiter")
  /\ UNCHANGED <<authVars, storage, broken>>

Admit(r) ==
  /\ In(r, "limiter") /\ L!Admit(r) /\ Go(r, "handler")
  /\ UNCHANGED <<authVars, storage, broken>>

TurnAway(r) ==
  /\ In(r, "limiter") /\ L!Refuse(r) /\ Reply(r, 429, "leaving")
  /\ UNCHANGED <<authVars, storage, broken>>

Leaves(r) ==
  /\ In(r, "leaving") /\ L!Decrement(r) /\ Go(r, "done")
  /\ UNCHANGED <<authVars, storage, broken>>

\* CriticalErrorHandler answers logger.ErrCritical and passes on other panics;
\* neither of them comes back through the limiter.
Panic(r) ==
  /\ req[r].stage \in {"handler", "core"} /\ Faulty
  /\ \E s \in {500, NoAnswer} : Reply(r, s, "done")
  /\ IF IsLimited(req[r].handler) THEN L!Panic(r) ELSE UNCHANGED limiterVars
  /\ UNCHANGED <<authVars, storage>>
-----------------------------------------------------------------------------
(* The wrapping handlers.                                                  *)

\* The handler has returned.
Answered(r, status) ==
  Reply(r, status, IF IsLimited(req[r].handler) THEN "leaving" ELSE "done")

\* A variant: the handlers keep the id of whoever asked last.
GetUserID_Kept(r) ==
  LET h == req[r].handler
      c == req[r].call
      kept == {req[s].user : s \in Request} \ {None}
      u == IF kept = {} THEN UserOf[lookup[r].key] ELSE CHOOSE v \in kept : TRUE
  IN  \/ /\ Granted(r)
         /\ req' = [req EXCEPT ![r] = [@ EXCEPT
              !.user = u, !.place = Place(h, u, c.bucket, c.object),
              !.stage = IF h = "PutBucket" THEN "head" ELSE "core"]]
         /\ Fine
      \/ ~Granted(r) /\ Answered(r, 403) /\ Fine
      \/ Granted(r) /\ Faulty /\ Answered(r, 403)

\* getUserID: the signature needs the secret key that came with the grant, and
\* the DWS service has to know the access key.
GetUserID(r) ==
  LET h == req[r].handler
      c == req[r].call
      u == UserOf[lookup[r].key]
  IN  \/ /\ Granted(r)
         /\ req' = [req EXCEPT ![r] = [@ EXCEPT
              !.user = u, !.place = Place(h, u, c.bucket, c.object),
              !.stage = IF h = "PutBucket" THEN "head" ELSE "core"]]
         /\ Fine
      \/ ~Granted(r) /\ Answered(r, 403) /\ Fine
      \/ Granted(r) /\ Faulty /\ Answered(r, 403)

Handle(r) ==
  LET h == req[r].handler
      c == req[r].call
  IN  /\ In(r, "handler") \/ (Authenticated(r) /\ ~IsLimited(h))
      /\ CASE NeedsUser(h) -> GetUserID(r)
           [] h = "HeadBucket" -> Go(r, "head") /\ Fine
           [] h = "GetBucketCors" -> Answered(r, 200) /\ Fine
           [] h \in {"PutBucketCors", "DeleteBucketCors"} ->
                Answered(r, 501) /\ Fine
           [] OTHER -> /\ req' = [req EXCEPT ![r] = [@ EXCEPT !.stage = "core",
                            !.place = Place(h, None, c.bucket, c.object)]]
                       /\ Fine
      /\ UNCHANGED <<authVars, limiterVars, storage>>

\* HEAD at the node service: 409 means that the name is taken.
HeadBucket(r) ==
  LET isTaken == req[r].call.bucket \in taken
      put == req[r].handler = "PutBucket"
  IN  /\ In(r, "head")
      /\ \/ ~isTaken /\ put /\ Go(r, "core") /\ Fine
         \/ ~isTaken /\ ~put /\ Answered(r, 404) /\ Fine
         \/ isTaken /\ Answered(r, IF put THEN 409 ELSE 200) /\ Fine
         \/ Faulty /\ Answered(r, 500)
      /\ UNCHANGED <<authVars, limiterVars, storage>>

\* POST at the node service claims the name, which may be taken by now.  The client
\* has its answer already, whatever comes of it.
PutBucketClaim(r) ==
  LET b == req[r].call.bucket
  IN  /\ In(r, "post")
      /\ \/ b \notin taken /\ taken' = taken \cup {b} /\ Go(r, "done")
            /\ Fine
         \/ b \in taken /\ Answered(r, 409) /\ Fine /\ UNCHANGED taken
         \/ Faulty /\ Answered(r, 500) /\ UNCHANGED taken
      /\ UNCHANGED <<authVars, limiterVars, stored, uploads>>

\* DELETE at the node service gives the name back, whoever has it.
DeleteBucketClaim(r) ==
  /\ In(r, "unclaim")
  /\ \/ taken' = taken \ {req[r].call.bucket} /\ Go(r, "done") /\ Fine
     \/ Faulty /\ Answered(r, 500) /\ UNCHANGED taken
  /\ UNCHANGED <<authVars, limiterVars, stored, uploads>>
-----------------------------------------------------------------------------
(* The multi-tenant layer: one method of it per call of MinIO's handlers.  *)

BucketMethods ==
  {"MakeBucketWithLocation", "GetBucketInfo", "ListBuckets",
   "ListBucketsWithAttribution", "DeleteBucket", "ListObjects", "ListObjectsV2"}
ObjectMethods ==
  {"GetObjectNInfo", "GetObjectInfo", "PutObject", "CopyObject", "DeleteObject",
   "DeleteObjects"}
MultipartMethods ==
  {"ListMultipartUploads", "NewMultipartUpload", "PutObjectPart",
   "GetMultipartInfo", "ListObjectParts", "AbortMultipartUpload",
   "CompleteMultipartUpload"}
TagMethods == {"PutObjectTags", "GetObjectTags", "DeleteObjectTags"}

\* The method that the handler ends up in; the buckets of the users are objects.
MethodOf(handler) ==
  CASE handler \in {"PutObject", "PutBucket", "PostPolicyBucket"} -> "PutObject"
    [] handler \in {"DeleteObject", "DeleteBucket"} -> "DeleteObject"
    [] handler = "DeleteMultipleObjects" -> "DeleteObjects"
    [] handler = "HeadObject" -> "GetObjectInfo"
    [] handler \in {"GetObject", "SelectObjectContent"} -> "GetObjectNInfo"
    [] handler = "CopyObjectPart" -> "PutObjectPart"
    [] handler = "ListObjectsV1" -> "ListObjects"
    [] handler \in {"ListObjectsV2", "ListObjectsV2M"} -> "ListObjectsV2"
    [] handler = "GetObjectTagging" -> "GetObjectTags"
    [] handler = "PutObjectTagging" -> "PutObjectTags"
    [] handler = "DeleteObjectTagging" -> "DeleteObjectTags"
    [] handler \in MultipartMethods \cup {"CopyObject", "ListBuckets",
                     "ListBucketsWithAttribution"} -> handler
    [] OTHER -> "GetBucketInfo"

\* What the method does to the objects and the uploads, and its answer.
Result(objects, open, status) ==
  [objects |-> objects, open |-> open, status |-> status]

Effect(r) ==
  LET m == MethodOf(req[r].handler)
      p == req[r].place
      c == req[r].call
      source == SourcePlace(req[r].handler, req[r].user, c.source, c.object)
      found == p \in stored
      begun == p \in uploads
      Unchanged(status) == Result(stored, uploads, status)
  IN  CASE m = "PutObject" -> Result(stored \cup {p}, uploads, 200)
        [] m = "CopyObject" /\ source \in stored ->
             Result(stored \cup {p}, uploads, 200)
        [] m = "CopyObject" /\ source \notin stored -> Unchanged(404)
        [] m = "DeleteObject" -> Result(stored \ {p}, uploads, 200)
        [] m = "DeleteObjects" ->
             \* the objects that the body names get no bucket put in front
             Result(stored \ {<<p[1], <<c.object>>>>}, uploads, 200)
        [] m \in {"GetObjectNInfo", "GetObjectInfo"} \cup TagMethods ->
             Unchanged(IF found THEN 200 ELSE 404)
        [] m = "NewMultipartUpload" -> Result(stored, uploads \cup {p}, 200)
        [] m \in {"PutObjectPart", "ListObjectParts", "GetMultipartInfo"} ->
             Unchanged(IF begun THEN 200 ELSE 404)
        [] m = "AbortMultipartUpload" ->
             Result(stored, uploads \ {p}, IF begun THEN 200 ELSE 404)
        [] m = "CompleteMultipartUpload" /\ begun ->
             Result(stored \cup {p}, uploads \ {p}, 200)
        [] m = "CompleteMultipartUpload" /\ ~begun -> Unchanged(404)
        [] OTHER -> Unchanged(200)

\* openProject: without a grant there is no project.  Who is not allowed to ask
\* learns nothing about the bucket.
NoProject(r) ==
  IF MethodOf(req[r].handler) = "GetBucketInfo" THEN 501 ELSE 401

\* The project is opened, used and closed; the call may fail before or after its
\* effect.  DeleteBucket goes on only if the object was deleted, PutBucket always:
\* it looks at a response writer that it has not given to PutObjectHandler.
Core(r) ==
  LET e == Effect(r)
      After(status) ==
        CASE req[r].handler = "PutBucket" -> "post"
          [] req[r].handler = "DeleteBucket" /\ status < 300 -> "unclaim"
          [] OTHER -> IF IsLimited(req[r].handler) THEN "leaving" ELSE "done"
      Use(status) == Reply(r, status, After(status))
  IN  /\ In(r, "core")
      /\ \/ /\ ~Granted(r) /\ Use(NoProject(r))
            /\ Fine /\ UNCHANGED <<stored, uploads>>
         \/ /\ Granted(r) /\ Use(e.status)
            /\ stored' = e.objects /\ uploads' = e.open /\ Fine
         \/ /\ Granted(r) /\ Faulty /\ Use(500)
            /\ \/ UNCHANGED <<stored, uploads>>
               \/ stored' = e.objects /\ uploads' = e.open
      /\ UNCHANGED <<authVars, limiterVars, taken>>

RequestStep(r) ==
  \/ Resolving(r) \/ Count(r) \/ Admit(r) \/ TurnAway(r) \/ Leaves(r)
  \/ Handle(r) \/ HeadBucket(r) \/ Core(r)
  \/ PutBucketClaim(r) \/ DeleteBucketClaim(r)

Environment ==
  /\ Tick({}) \/ \E k \in AccessKey : Revoke(k)
  /\ UNCHANGED <<limiterVars, req, storage, broken>>

Next ==
  \/ Environment
  \/ \E r \in Request : Arrive(r) \/ RequestStep(r) \/ Panic(r)

Spec == Init /\ [][Next]_vars
-----------------------------------------------------------------------------
\* The types of what the requests carry and of the storage.
GatewayTypeOK ==
  /\ AuthTypeOK /\ L!LimiterTypeOK
  /\ \A r \in Request : req[r].stage \in Stages /\ req[r].user \in User \cup {None}
  /\ stored \in SUBSET Places /\ uploads \in SUBSET Places
  /\ taken \in SUBSET Bucket

\* The requests for k that the limiter counts, by how far they are.
Within == {"limiter", "handler", "core", "leaving"}
UnderLimit(k, stages) ==
  {r \in Request : /\ req[r].stage \in stages /\ IsLimited(req[r].handler)
                   /\ LimitKeyOf(r) = k}

\* However the critical sections of the limiter, the lookups and the panics interleave:
\* never more than Allowed handlers of uploads and downloads are at work for the grants
\* of one macaroon head, or for all who have none.
HandlersAreLimited ==
  \A k \in LimitKey : Cardinality(UnderLimit(k, {"handler", "core"})) <= Allowed

\* Nobody is told to slow down for nothing: when a request is answered 429, Allowed
\* others of its key are between their count and its end, or have panicked (those are
\* counted for good).
TurnedAwayWhenCrowded ==
  [][\A r \in Request :
       req[r].said # 429 /\ req'[r].said = 429 =>
         LET k == LimitKeyOf(r)
         IN  Cardinality(UnderLimit(k, Within) \ {r}) + leaked[k] >= Allowed]_vars

\* What the requests of one user do to one object or upload fits together, whichever
\* of the user's keys signs them: what a request finds, when it arrives after another
\* one has been told that it wrote it and nobody has removed it, is not reported as
\* missing.
Writes == {"PutObject", "CopyObject", "CompleteMultipartUpload"}
Reads  == {"GetObject", "HeadObject"}
Parts  == {"PutObjectPart", "ListObjectParts", "CompleteMultipartUpload",
           "AbortMultipartUpload"}
Removes == {"DeleteObject", "AbortMultipartUpload", "CompleteMultipartUpload"}

SameUser(r, s) ==
  /\ {lookup[r].key, lookup[s].key} \subseteq AccessKey
  /\ UserOf[lookup[r].key] = UserOf[lookup[s].key]

SameObject(r, s) ==
  /\ req[r].call.bucket = req[s].call.bucket
  /\ req[r].call.object = req[s].call.object
  /\ SameUser(r, s)

FindsWhatWasStored ==
  \A r, w \in Request :
    /\ In(r, "done") /\ w \in req[r].after
    /\ req[w].said = 200 /\ SameObject(r, w)
    /\ \/ req[w].handler \in Writes /\ req[r].handler \in Reads
       \/ req[w].handler = "NewMultipartUpload" /\ req[r].handler \in Parts
    /\ \A d \in Request \ {r, w} :
         req[d].handler \in Removes => ~SameObject(d, r)
    => req[r].said # 404

\* Who comes through the gateway changes only what is theirs, while their key is good:
\* an object, a bucket or an upload appears or goes only by a request that has a grant,
\* in the bucket of the user whose key signed it (in the one that it names, by the
\* handlers that put no user in front); and not by one that began more than Expiration
\* after the key was revoked, whatever is in the cache and whoever shares the answer.
Differ(before, after) == (before \ after) \cup (after \ before)

MayChange(r, bucket) ==
  LET k == lookup[r].key
  IN  /\ In(r, "core") /\ Granted(r)
      /\ bucket = IF NeedsUser(req[r].handler) THEN UserOf[k] ELSE req[r].call.bucket
      /\ revoked[k] # None => lookup[r].since <= revoked[k] + Expiration

OnlyOwnersChange ==
  [][\A p \in Differ(stored, stored') \cup Differ(uploads, uploads') :
       \E r \in Request : MayChange(r, p[1])]_vars

\* The order of the routes: a request that names a sub-resource which some route
\* of its kind and method is for does not end in the handler of the bucket or the
\* object itself, where a PUT of tags, say, would be stored as the object.  Copies and
\* forms are excepted: their own routes come before those of some sub-resources.
SubresourceIsServed ==
  \A r \in Request : ~In(r, "idle") /\ req[r].call.headers = {} =>
    LET q == req[r].call
        OfKind(t) == q.target = "object" <=> t.targets = {"object"}
    IN  \A i \in DOMAIN Routes :
          Routes[i].query # {} /\ OfKind(Routes[i]) /\ Matches(Routes[i], q)
            => \E j \in DOMAIN Routes : Routes[j].handler = req[r].handler
                                      /\ Routes[j].query # {}

\* "The bucket namespace is shared by all users of the system": when nothing is
\* under way, no two users have a bucket of the same name.
BucketNamesAreUnique ==
  (\A r \in Request : req[r].stage \in {"idle", "done"}) =>
    \A u, v \in User, b \in Bucket :
      <<u, <<b>>>> \in stored /\ <<v, <<b>>>> \in stored => u = v
=============================================================================
