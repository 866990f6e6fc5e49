--------------------------- MODULE GatewayProofs ---------------------------
(***************************************************************************)
(* Every behaviour of the gateway is one of the limiter and one of the     *)
(* auth client: the requests keep to their protocols, whatever handler     *)
(* they end in and whatever becomes of them.  So what is proved of the two *)
(* holds in the gateway.                                                   *)
(*                                                                         *)
(* Of its own the gateway keeps this: what a request was told that it      *)
(* wrote is in the storage or somebody is done with removing it, and what  *)
(* a request was told is missing had been removed by somebody else.  It    *)
(* rests on where each handler looks (Place) and on what each method of    *)
(* the multi-tenant layer does (Effect).  And the order of the routes is   *)
(* such that none that is for whatever is left comes before one that names *)
(* a sub-resource.                                                         *)
(***************************************************************************)
EXTENDS Gateway, AuthClientProofs, FiniteSetTheorems, SequenceTheorems,
        WellFoundedInduction

LP == INSTANCE LimiterProofs

\* Initially nobody is looked up or counted.
LEMMA GatewayInits == Init => AuthInit /\ L!LimiterInit
BY DEF Init

\* A step of a request is a step of its lookup, or leaves the lookups alone.
LEMMA LookupStep == [Next]_vars => [AuthNext]_authVars
<1> SUFFICES ASSUME [Next]_vars PROVE AuthNext \/ UNCHANGED authVars
  OBVIOUS
<1>1. CASE Environment
  <2>1. {} \in SUBSET Served
    OBVIOUS
  <2> QED
    BY <1>1, <2>1 DEF Environment, AuthNext
<1>2. ASSUME NEW r \in Request, Arrive(r)
      PROVE  AuthNext \/ UNCHANGED authVars
  <2>1. (\E k \in AccessKey : StartLookup(r, k)) \/ UNCHANGED authVars
    BY <1>2 DEF Arrive
  <2> QED
    BY <2>1 DEF AuthNext
<1>3. ASSUME NEW r \in Request, Resolving(r)
      PROVE  AuthNext
  BY <1>3 DEF Resolving, AuthNext
<1>4. ASSUME NEW r \in Request,
             \/ Count(r) \/ Admit(r) \/ TurnAway(r) \/ Leaves(r) \/ Panic(r)
             \/ Handle(r) \/ HeadBucket(r) \/ Core(r)
             \/ PutBucketClaim(r) \/ DeleteBucketClaim(r)
      PROVE  UNCHANGED authVars
  BY <1>4 DEF Count, Admit, TurnAway, Leaves, Panic, Handle, HeadBucket, Core,
              PutBucketClaim, DeleteBucketClaim
<1>5. CASE UNCHANGED vars
  BY <1>5 DEF vars
<1> QED
  BY <1>1, <1>2, <1>3, <1>4, <1>5 DEF Next, RequestStep

\* A request counts itself under a key of the limiter: a grant was given for an
\* access key.
LEMMA CountsUnderKey ==
  ASSUME Types, NEW r \in Request
  PROVE  LimitKeyOf(r) \in LimitKey
BY GatewayAssumption DEF LimitKeyOf, Granted, Types, At

\* A step of a request is a step of it in the limiter, or leaves the limiter alone.
LEMMA CountStep ==
  ASSUME Types, [Next]_vars
  PROVE  L!LimiterNext \/ UNCHANGED limiterVars
<1>1. CASE Environment
  BY <1>1 DEF Environment
<1>2. ASSUME NEW r \in Request,
             \/ Arrive(r) \/ Resolving(r)
             \/ Handle(r) \/ HeadBucket(r) \/ Core(r)
             \/ PutBucketClaim(r) \/ DeleteBucketClaim(r)
      PROVE  UNCHANGED limiterVars
  BY <1>2 DEF Arrive, Resolving, Handle, HeadBucket, Core, PutBucketClaim,
              DeleteBucketClaim, limiterVars
<1>3. ASSUME NEW r \in Request, Count(r)
      PROVE  L!LimiterNext
  BY <1>3, CountsUnderKey DEF Count, L!LimiterNext
<1>4. ASSUME NEW r \in Request, Admit(r) \/ TurnAway(r) \/ Leaves(r)
      PROVE  L!LimiterNext
  BY <1>4 DEF Admit, TurnAway, Leaves, L!LimiterNext
<1>5. ASSUME NEW r \in Request, Panic(r)
      PROVE  L!LimiterNext \/ UNCHANGED limiterVars
  BY <1>5 DEF Panic, L!LimiterNext
<1>6. CASE UNCHANGED vars
  BY <1>6 DEF vars
<1> QED
  BY <1>1, <1>2, <1>3, <1>4, <1>5, <1>6 DEF Next, RequestStep

-----------------------------------------------------------------------------
\* The gateway keeps to the protocol of the auth client and its cache.
LEMMA GatewayKeepsAuthClient == Spec => AuthSpec
BY GatewayInits, LookupStep, PTL DEF Spec, AuthSpec

LEMMA GatewayKeepsTypes == Spec => []Types
<1>1. AuthInv => Types
  BY DEF AuthInv
<1> QED
  BY <1>1, AuthIsKept, GatewayKeepsAuthClient, PTL

\* The gateway keeps to the protocol of the limiter.
LEMMA GatewayKeepsLimiter == Spec => LP!LimiterSpec
<1>1. Types /\ [Next]_vars => [L!LimiterNext]_(L!limiterVars)
  BY CountStep DEF limiterVars, L!limiterVars
<1>2. L!LimiterInit => LP!LimiterInit
  BY DEF L!LimiterInit, LP!LimiterInit
<1>3. [L!LimiterNext]_(L!limiterVars) => [LP!LimiterNext]_(LP!limiterVars)
  BY DEF L!LimiterNext, LP!LimiterNext, L!limiterVars, LP!limiterVars,
         L!Increment, LP!Increment, L!Admit, LP!Admit, L!Refuse, LP!Refuse,
         L!Decrement, LP!Decrement, L!Panic, LP!Panic, L!In, LP!In,
         L!MoveTo, LP!MoveTo, L!Leave, LP!Leave
<1> QED
  BY <1>1, <1>2, <1>3, GatewayInits, GatewayKeepsTypes, PTL DEF Spec, LP!LimiterSpec

\* What is proved of the limiter.
SlotsInv == L!LimiterTypeOK /\ L!SlotsAccounted /\ L!AtMostAllowed

LEMMA GatewaySlots == Spec => []SlotsInv
<1>1. LP!LimiterAssumption
  BY GatewayAssumption
     DEF LP!LimiterAssumption, L!LimiterAssumption, LP!Slot, L!Slot,
         LP!IsFiniteSet, L!IsFiniteSet
<1>2. LP!LimiterSpec => []LP!LimiterTypeOK
  BY <1>1, LP!LimiterTypes
<1>3. LP!LimiterSpec => []LP!SlotsAccounted
  BY <1>1, LP!CountsAreExact
<1>4. LP!LimiterSpec => []LP!AtMostAllowed
  BY <1>1, LP!LimitHolds
<1>5. LP!LimiterTypeOK /\ LP!SlotsAccounted /\ LP!AtMostAllowed => SlotsInv
  BY DEF SlotsInv, LP!LimiterTypeOK, L!LimiterTypeOK, LP!Slot, L!Slot,
         LP!SlotsAccounted, L!SlotsAccounted, LP!AtMostAllowed, L!AtMostAllowed,
         LP!Counted, L!Counted, LP!Inside, L!Inside, LP!Cardinality, L!Cardinality
<1> QED
  BY <1>2, <1>3, <1>4, <1>5, GatewayKeepsLimiter, PTL

\* Only requests whose own client is gone are told so: what is proved of the auth
\* client holds in the gateway.
THEOREM GatewayCancelsAreOwn == Spec => []CancelIsOwn
BY GatewayKeepsAuthClient, CancelsAreOwn, PTL
-----------------------------------------------------------------------------
(* What a request has done to the objects and uploads.                     *)

\* The sets that the fields of a request are from.
Sent == (UNION Calls) \cup Alone
SentOrNone == Sent \cup {None}
Handlers == {HandlerOf(a) : a \in Sent} \cup {None}
UserOrNone == User \cup {None}
Spots == Places \cup {None}
NatOrNone == Nat \cup {None}
RequestSets == SUBSET Request

Req == [stage : Stages, call : SentOrNone, handler : Handlers, user : UserOrNone,
        place : Spots, said : NatOrNone, after : RequestSets]

\* The stages in which a request has not been answered, and those in which it has.
Fresh == {"idle", "lookup", "limiter", "handler", "head", "core"}
Late == {"post", "unclaim", "leaving", "done"}

IsPlaced(q) ==
  /\ q.place = Place(q.handler, q.user, q.call.bucket, q.call.object)
  /\ NeedsUser(q.handler) => q.user \in User

IsUnderWay(q) ==
  /\ q.stage # "idle" => q.call \in Sent /\ q.handler = HandlerOf(q.call)
  /\ q.stage \in Fresh => q.said = None
  /\ q.stage \in Late => q.said \in Nat
  /\ q.stage = "head" => q.handler \in {"HeadBucket", "PutBucket"}
  /\ q.stage \in {"core", "post", "unclaim"} => IsPlaced(q)
  /\ q.stage = "head" /\ q.handler = "PutBucket" => IsPlaced(q)

\* Somebody is done with removing what is at a place.
HasRemoved(d, p, handlers) ==
  /\ req[d].stage \in Late /\ req[d].handler \in handlers
  /\ IsPlaced(req[d]) /\ req[d].place = p

Deletes == {"DeleteObject"}
Ends == {"AbortMultipartUpload", "CompleteMultipartUpload"}

\* What a request was told that it wrote is there, or it has been removed.
Stores(w) ==
  LET q == req[w]
  IN  /\ q.said = 200 /\ q.handler \in Writes =>
           /\ IsPlaced(q)
           /\ q.place \in stored \/ \E d \in Request : HasRemoved(d, q.place, Deletes)
      /\ q.said = 200 /\ q.handler = "NewMultipartUpload" =>
           /\ IsPlaced(q)
           /\ q.place \in uploads \/ \E d \in Request : HasRemoved(d, q.place, Ends)

\* What a request was told is missing has been removed by another one, if it was there
\* when the request came.
Misses(r) ==
  LET q == req[r]
  IN  q.said = 404 /\ q.handler \in Reads \cup Parts =>
        /\ IsPlaced(q)
        /\ \A w \in q.after : req[w].said = 200 /\ req[w].place = q.place =>
             /\ req[w].handler \in Writes /\ q.handler \in Reads =>
                  \E d \in Request \ {r} : HasRemoved(d, q.place, Deletes)
             /\ req[w].handler = "NewMultipartUpload" /\ q.handler \in Parts =>
                  \E d \in Request \ {r} : HasRemoved(d, q.place, Ends)

StorageInv ==
  /\ req \in [Request -> Req]
  /\ stored \in SUBSET Places /\ uploads \in SUBSET Places /\ taken \in SUBSET Bucket
  /\ \A r \in Request : IsUnderWay(req[r]) /\ Stores(r) /\ Misses(r)
  /\ \A r \in Request : \A w \in req[r].after : In(w, "done")
-----------------------------------------------------------------------------
\* Where a wrapped handler looks is a place.
LEMMA PlaceIsTyped ==
  ASSUME NEW h, NEW u, NEW b \in Bucket, NEW o \in Object, NeedsUser(h) => u \in User
  PROVE  Place(h, u, b, o) \in Places
<1>1. <<b, o>> \in Seq(Bucket \cup Object) /\ <<b>> \in Seq(Bucket \cup Object)
      /\ <<o>> \in Seq(Bucket \cup Object) /\ << >> \in Seq(Bucket \cup Object)
  OBVIOUS
<1>2. CASE h \in ObjectPrefixed
  BY <1>1, <1>2 DEF Place, Places, NeedsUser
<1>3. CASE h \notin ObjectPrefixed /\ h \in BucketPrefixed
  BY <1>1, <1>3 DEF Place, Places, NeedsUser
<1>4. CASE h \notin ObjectPrefixed \cup BucketPrefixed /\ h \in UserPrefixed
  BY <1>1, <1>4 DEF Place, Places, NeedsUser
<1>5. CASE h \notin ObjectPrefixed \cup BucketPrefixed \cup UserPrefixed
  BY <1>1, <1>5 DEF Place, Places
<1> QED
  BY <1>2, <1>3, <1>4, <1>5

\* What the user of an object sees, no matter what is at other places.
ObjectPlaces == {<<u, <<b, o>>>> : u \in User, b \in Bucket, o \in Object}

\* The handlers that objects and uploads are written, found and removed by.
Minding == Writes \cup Reads \cup Parts \cup Deletes \cup Ends \cup {"NewMultipartUpload"}

\* The handlers that mind objects look at the object of the user.
LEMMA MindersArePrefixed ==
  ASSUME NEW h \in Minding, NEW u, NEW b, NEW o
  PROVE  /\ h \in ObjectPrefixed /\ NeedsUser(h)
         /\ Place(h, u, b, o) = <<u, <<b, o>>>>
<1>1. h \in ObjectPrefixed
  BY DEF Minding, Writes, Reads, Parts, Deletes, Ends, ObjectPrefixed
<1>2. h \notin BucketPrefixed /\ h \notin UserPrefixed
  BY <1>1 DEF ObjectPrefixed, BucketPrefixed, UserPrefixed
<1>3. NeedsUser(h)
  BY <1>1 DEF NeedsUser
<1> QED
  BY <1>1, <1>2, <1>3 DEF Place

\* Other handlers look elsewhere.
LEMMA OtherPlaces ==
  ASSUME NEW u, NEW x
  PROVE  <<u, <<x>>>> \notin ObjectPlaces
<1> SUFFICES ASSUME NEW v \in User, NEW b \in Bucket, NEW o \in Object,
                    <<u, <<x>>>> = <<v, <<b, o>>>>
             PROVE  FALSE
  BY DEF ObjectPlaces
<1>1. <<x>> = <<b, o>>
  OBVIOUS
<1>2. Len(<<x>>) = 1 /\ Len(<<b, o>>) = 2
  OBVIOUS
<1> QED
  BY <1>1, <1>2

\* The methods that the handlers end up in.
LEMMA MethodsAre ==
  ASSUME NEW h
  PROVE  /\ h = "PutObject" => MethodOf(h) = "PutObject"
         /\ h \in {"CopyObject", "NewMultipartUpload", "PutObjectPart", "ListObjectParts",
                   "AbortMultipartUpload", "CompleteMultipartUpload"} => MethodOf(h) = h
         /\ h = "HeadObject" => MethodOf(h) = "GetObjectInfo"
         /\ h = "GetObject" => MethodOf(h) = "GetObjectNInfo"
         /\ MethodOf(h) = "DeleteObject" => h \in {"DeleteObject", "DeleteBucket"}
         /\ MethodOf(h) = "DeleteObjects" => h = "DeleteMultipleObjects"
         /\ MethodOf(h) \in Ends => h = MethodOf(h)
BY DEF MethodOf, MultipartMethods, Ends

\* The effect of a method, by the method.
LEMMA EffectByMethod ==
  ASSUME NEW r \in Request
  PROVE  LET m == MethodOf(req[r].handler)
             p == req[r].place
             e == Effect(r)
         IN  /\ e.status \in {200, 404}
             /\ e.objects \subseteq stored \cup {p} /\ e.open \subseteq uploads \cup {p}
             /\ \A x \in stored \ e.objects :
                  \/ m = "DeleteObject" /\ x = p
                  \/ m = "DeleteObjects" /\ x = <<p[1], <<req[r].call.object>>>>
             /\ \A x \in uploads \ e.open : m \in Ends /\ x = p
             /\ m \in {"PutObject", "CopyObject", "CompleteMultipartUpload"}
                /\ e.status = 200 => p \in e.objects
             /\ m = "NewMultipartUpload" => p \in e.open
             /\ m \in {"GetObjectNInfo", "GetObjectInfo"} /\ e.status = 404 => p \notin stored
             /\ m \in Ends \cup {"PutObjectPart", "ListObjectParts"} /\ e.status = 404 =>
                  p \notin uploads
<1> DEFINE m == MethodOf(req[r].handler)
           p == req[r].place
           source == SourcePlace(req[r].handler, req[r].user, req[r].call.source,
                                 req[r].call.object)
<1>1. CASE m = "PutObject"
  BY <1>1 DEF Effect, Result, Ends
<1>2. CASE m = "CopyObject" /\ source \in stored
  BY <1>2 DEF Effect, Result, Ends
<1>3. CASE m = "CopyObject" /\ source \notin stored
  BY <1>3 DEF Effect, Result, Ends
<1>4. CASE m = "DeleteObject"
  BY <1>4 DEF Effect, Result, Ends
<1>11. CASE m = "DeleteObjects"
  BY <1>11 DEF Effect, Result, Ends
<1>5. CASE m \in {"GetObjectNInfo", "GetObjectInfo"} \cup TagMethods
  <2> DEFINE status == IF p \in stored THEN 200 ELSE 404
  <2>1. /\ m \notin {"PutObject", "CopyObject", "DeleteObject", "DeleteObjects",
                     "NewMultipartUpload", "PutObjectPart", "ListObjectParts",
                     "CompleteMultipartUpload"} \cup Ends
        /\ m # "GetMultipartInfo"
    BY <1>5 DEF Ends, TagMethods
  <2>2. Effect(r) = Result(stored, uploads, status)
    BY <1>5, <2>1 DEF Effect, Ends
  <2>3. /\ Effect(r).objects = stored /\ Effect(r).open = uploads
        /\ Effect(r).status = status
    BY <2>2 DEF Result
  <2>4. status \in {200, 404} /\ (status = 404 => p \notin stored)
    OBVIOUS
  <2> HIDE DEF m, p, status
  <2>5. Effect(r).status = 404 => p \notin stored
    BY <2>3, <2>4
  <2> QED
    BY <2>1, <2>3, <2>4, <2>5 DEF m, p
<1>6. CASE m = "NewMultipartUpload"
  BY <1>6 DEF Effect, Result, Ends, TagMethods
<1>7. CASE m \in {"PutObjectPart", "ListObjectParts", "GetMultipartInfo"}
  BY <1>7 DEF Effect, Result, Ends, TagMethods
<1>8. CASE m = "AbortMultipartUpload"
  BY <1>8 DEF Effect, Result, Ends, TagMethods
<1>9. CASE m = "CompleteMultipartUpload"
  BY <1>9 DEF Effect, Result, Ends, TagMethods
<1>10. CASE m \notin {"PutObject", "CopyObject", "DeleteObject", "DeleteObjects",
                      "GetObjectNInfo", "GetObjectInfo", "NewMultipartUpload",
                      "PutObjectPart", "ListObjectParts", "GetMultipartInfo",
                      "AbortMultipartUpload", "CompleteMultipartUpload"} \cup TagMethods
  BY <1>10 DEF Effect, Result, Ends, TagMethods
<1> QED
  BY <1>1, <1>2, <1>3, <1>4, <1>5, <1>6, <1>7, <1>8, <1>9, <1>10, <1>11
-----------------------------------------------------------------------------
\* Who needs no user looks at the same place whoever asks.
LEMMA PlaceWithoutUser ==
  ASSUME NEW h, NEW u, NEW v, NEW b, NEW o, ~NeedsUser(h)
  PROVE  Place(h, u, b, o) = Place(h, v, b, o)
<1>1. h \notin ObjectPrefixed /\ h \notin BucketPrefixed /\ h \notin UserPrefixed
  BY DEF NeedsUser
<1> QED
  BY <1>1 DEF Place

\* The requests that are sent name buckets and objects.
LEMMA SentNames == ASSUME NEW c \in Sent PROVE c.bucket \in Bucket /\ c.object \in Object
BY GatewayAssumption DEF Sent

\* A request that minds objects is at an object's place, its user's.
LEMMA MindersPlaces ==
  ASSUME NEW q, q.handler \in Minding, IsPlaced(q), q.call \in Sent
  PROVE  q.user \in User /\ q.place = <<q.user, <<q.call.bucket, q.call.object>>>>
         /\ q.place \in ObjectPlaces
<1>1. q.user \in User /\ q.place = <<q.user, <<q.call.bucket, q.call.object>>>>
  BY MindersArePrefixed DEF IsPlaced
<1> QED
  BY <1>1, SentNames DEF ObjectPlaces

\* A deletion of a bucket is not at an object's place.
LEMMA BucketsPlaces ==
  ASSUME NEW q, q.handler = "DeleteBucket", IsPlaced(q)
  PROVE  q.place \notin ObjectPlaces
<1>1. q.handler \in BucketPrefixed /\ q.handler \notin ObjectPrefixed
      /\ q.handler \notin UserPrefixed
  BY DEF BucketPrefixed, ObjectPrefixed, UserPrefixed
<1>2. q.place = <<q.user, <<q.call.bucket>>>>
  BY <1>1 DEF IsPlaced, Place
<1> QED
  BY <1>2, OtherPlaces

\* The effect of a handler on the objects and the uploads.
LEMMA EffectIs ==
  ASSUME NEW r \in Request, IsPlaced(req[r]), req[r].place \in Places,
         stored \in SUBSET Places, uploads \in SUBSET Places
  PROVE  LET h == req[r].handler
             p == req[r].place
             e == Effect(r)
         IN  /\ e.status \in {200, 404}
             /\ e.objects \in SUBSET Places /\ e.open \in SUBSET Places
             /\ \A x \in ObjectPlaces : x \in stored /\ x \notin e.objects =>
                  h = "DeleteObject" /\ x = p
             /\ \A x \in uploads : x \notin e.open => h \in Ends /\ x = p
             /\ h \in Writes /\ e.status = 200 => p \in e.objects
             /\ h = "NewMultipartUpload" => p \in e.open
             /\ h \in Reads /\ e.status = 404 => p \notin stored
             /\ h \in Parts /\ e.status = 404 => p \notin uploads
<1> DEFINE h == req[r].handler
           m == MethodOf(h)
           p == req[r].place
           e == Effect(r)
<1> HIDE DEF e, m
<1>1. /\ e.status \in {200, 404}
      /\ e.objects \subseteq stored \cup {p} /\ e.open \subseteq uploads \cup {p}
      /\ \A x \in stored \ e.objects :
           \/ m = "DeleteObject" /\ x = p
           \/ m = "DeleteObjects" /\ x = <<p[1], <<req[r].call.object>>>>
      /\ \A x \in uploads \ e.open : m \in Ends /\ x = p
      /\ m \in {"PutObject", "CopyObject", "CompleteMultipartUpload"}
         /\ e.status = 200 => p \in e.objects
      /\ m = "NewMultipartUpload" => p \in e.open
      /\ m \in {"GetObjectNInfo", "GetObjectInfo"} /\ e.status = 404 => p \notin stored
      /\ m \in Ends \cup {"PutObjectPart", "ListObjectParts"} /\ e.status = 404 =>
           p \notin uploads
  BY EffectByMethod DEF e, m
<1>2. /\ h = "PutObject" => m = "PutObject"
      /\ h \in {"CopyObject", "NewMultipartUpload", "PutObjectPart", "ListObjectParts",
                "AbortMultipartUpload", "CompleteMultipartUpload"} => m = h
      /\ h = "HeadObject" => m = "GetObjectInfo"
      /\ h = "GetObject" => m = "GetObjectNInfo"
      /\ m = "DeleteObject" => h \in {"DeleteObject", "DeleteBucket"}
      /\ m = "DeleteObjects" => h = "DeleteMultipleObjects"
      /\ m \in Ends => h = m
  BY MethodsAre DEF m
<1>3. ASSUME NEW x \in ObjectPlaces, x \in stored, x \notin e.objects
      PROVE  h = "DeleteObject" /\ x = p
  <2>1. x # <<p[1], <<req[r].call.object>>>>
    BY <1>3, OtherPlaces
  <2>2. m = "DeleteObject" /\ x = p
    BY <1>1, <1>3, <2>1
  <2>3. h # "DeleteBucket"
    BY <1>3, <2>2, BucketsPlaces
  <2> QED
    BY <1>2, <2>2, <2>3
<1>4. h \in Writes /\ e.status = 200 => p \in e.objects
  BY <1>1, <1>2 DEF Writes
<1>5. h \in Reads /\ e.status = 404 => p \notin stored
  BY <1>1, <1>2 DEF Reads
<1>6. h \in Parts /\ e.status = 404 => p \notin uploads
  BY <1>1, <1>2 DEF Parts, Ends
<1>7. \A x \in uploads : x \notin e.open => h \in Ends /\ x = p
  BY <1>1, <1>2
<1>8. h = "NewMultipartUpload" => p \in e.open
  BY <1>1, <1>2
<1>9. e.objects \in SUBSET Places /\ e.open \in SUBSET Places
  BY <1>1
<1> QED
  BY <1>1, <1>3, <1>4, <1>5, <1>6, <1>7, <1>8, <1>9 DEF e

\* What is under way has been sent, and who is answered is not at the beginning.
LEMMA AnsweredIsLate ==
  ASSUME StorageInv, NEW r \in Request, req[r].said \in Nat
  PROVE  req[r].stage \in Late /\ req[r].call \in Sent
<1>1. req[r].said # None
  BY AuthClientAssumption
<1>2. req[r] \in Req /\ IsUnderWay(req[r])
  BY DEF StorageInv
<1>3. req[r].stage \in Stages /\ req[r].stage \notin Fresh
  BY <1>1, <1>2 DEF Req, IsUnderWay
<1> QED
  BY <1>2, <1>3 DEF Stages, Fresh, Late, IsUnderWay
-----------------------------------------------------------------------------
(* One request goes on.                                                    *)

\* Whoever has been answered stays as it is but for the stage.
KeepsAnswer(q, x) ==
  q.stage \in Late => /\ x.stage \in Late /\ x.call = q.call /\ x.handler = q.handler
                      /\ x.user = q.user /\ x.place = q.place /\ x.said = q.said
                      /\ x.after = q.after

\* Only r changes, and not what it was answered.
LEMMA AnswersStay ==
  ASSUME StorageInv, NEW r \in Request, NEW x, KeepsAnswer(req[r], x),
         req' = [req EXCEPT ![r] = x]
  PROVE  /\ \A d \in Request \ {r} : req'[d] = req[d]
         /\ req'[r] = x
         /\ \A d \in Request : req[d].stage \in Late =>
              /\ req'[d].stage \in Late /\ req'[d].handler = req[d].handler
              /\ req'[d].place = req[d].place /\ req'[d].said = req[d].said
              /\ req'[d].after = req[d].after
              /\ IsPlaced(req[d]) => IsPlaced(req'[d])
<1>1. req'[r] = x /\ \A d \in Request \ {r} : req'[d] = req[d]
  BY DEF StorageInv
<1>2. req[r].stage \in Late /\ IsPlaced(req[r]) => IsPlaced(x)
  BY DEF KeepsAnswer, IsPlaced
<1>3. ASSUME NEW d \in Request, req[d].stage \in Late
      PROVE  /\ req'[d].stage \in Late /\ req'[d].handler = req[d].handler
             /\ req'[d].place = req[d].place /\ req'[d].said = req[d].said
             /\ req'[d].after = req[d].after
             /\ IsPlaced(req[d]) => IsPlaced(req'[d])
  BY <1>1, <1>2, <1>3 DEF KeepsAnswer
<1> QED
  BY <1>1, <1>3

\* Who is not in a request's past and is not answered with a finding changes nothing
\* that is known of the storage.
LEMMA QuietStep ==
  ASSUME StorageInv, NEW r \in Request, NEW x \in Req, IsUnderWay(x),
         KeepsAnswer(req[r], x), req' = [req EXCEPT ![r] = x],
         req[r].stage # "done", \A w \in x.after : In(w, "done"),
         req[r].stage \in Fresh /\ x.said \in {200, 404} => x.handler \notin Minding,
         UNCHANGED <<stored, uploads>>, taken' \in SUBSET Bucket
  PROVE  StorageInv'
<1>0. /\ \A d \in Request \ {r} : req'[d] = req[d]
      /\ req'[r] = x
      /\ \A d \in Request : req[d].stage \in Late =>
           /\ req'[d].stage \in Late /\ req'[d].handler = req[d].handler
           /\ req'[d].place = req[d].place /\ req'[d].said = req[d].said
           /\ req'[d].after = req[d].after
           /\ IsPlaced(req[d]) => IsPlaced(req'[d])
  BY AnswersStay
<1> USE <1>0
<1>1. /\ req' \in [Request -> Req]
      /\ (stored \in SUBSET Places)' /\ (uploads \in SUBSET Places)'
      /\ (taken \in SUBSET Bucket)'
  BY DEF StorageInv
<1>2. ASSUME NEW s \in Request PROVE IsUnderWay(req'[s])
  BY DEF StorageInv
<1>3. ASSUME NEW s \in Request PROVE \A w \in req'[s].after : In(w, "done")'
  <2>1. \A w \in req'[s].after : w \in Request /\ w # r /\ In(w, "done")
    <3>1. \A w \in req'[s].after : In(w, "done")
      BY DEF StorageInv
    <3>2. req'[s].after \in SUBSET Request
      BY <1>1 DEF Req, RequestSets
    <3> QED
      BY <3>1, <3>2 DEF In
  <2> QED
    BY <2>1 DEF In
<1>4. req[r].stage \in Fresh \/ req[r].stage \in Late
  <2>1. req[r].stage \in Stages
    BY DEF StorageInv, Req
  <2> QED
    BY <2>1 DEF Stages, Fresh, Late
<1>5. ASSUME NEW w \in Request PROVE Stores(w)'
  <2> DEFINE q == req[w]
             y == req'[w]
  <2>1. CASE w # r \/ req[r].stage \in Late
    <3>1. y.said = q.said /\ y.handler = q.handler /\ y.place = q.place
          /\ (IsPlaced(q) => IsPlaced(y))
      BY <2>1
    <3>2. Stores(w)
      BY DEF StorageInv
    <3> HIDE DEF q, y
    <3>3. \A d \in Request : \A H : HasRemoved(d, q.place, H) =>
            /\ req'[d].stage \in Late /\ req'[d].handler \in H
            /\ IsPlaced(req'[d]) /\ req'[d].place = q.place
      BY DEF HasRemoved
    <3>4. y.said = 200 /\ y.handler \in Writes =>
           /\ IsPlaced(y)
           /\ \/ y.place \in stored'
              \/ \E d \in Request : /\ req'[d].stage \in Late /\ req'[d].handler \in Deletes
                                    /\ IsPlaced(req'[d]) /\ req'[d].place = y.place
      BY <3>1, <3>2, <3>3 DEF Stores, q
    <3>5. y.said = 200 /\ y.handler = "NewMultipartUpload" =>
           /\ IsPlaced(y)
           /\ \/ y.place \in uploads'
              \/ \E d \in Request : /\ req'[d].stage \in Late /\ req'[d].handler \in Ends
                                    /\ IsPlaced(req'[d]) /\ req'[d].place = y.place
      BY <3>1, <3>2, <3>3 DEF Stores, q
    <3> QED
      BY <3>4, <3>5 DEF Stores, HasRemoved, y
  <2>2. CASE w = r /\ req[r].stage \in Fresh
    <3>2. y = x
      BY <2>2
    <3>1. y.said = 200 => y.handler \notin Minding
      <4> HIDE DEF y
      <4> QED
        BY <2>2, <3>2
    <3> QED
      BY <3>1 DEF Stores, Minding
  <2> QED
    BY <1>4, <2>1, <2>2
<1>6. ASSUME NEW s \in Request PROVE Misses(s)'
  <2> DEFINE q == req[s]
             y == req'[s]
  <2>1. CASE s # r \/ req[r].stage \in Late
    <3>1. y.said = q.said /\ y.handler = q.handler /\ y.place = q.place
          /\ y.after = q.after /\ (IsPlaced(q) => IsPlaced(y))
      BY <2>1
    <3>2. Misses(s)
      BY DEF StorageInv
    <3>3. \A w \in q.after : req'[w] = req[w]
      <4>1. q.after \in SUBSET Request /\ \A w \in q.after : In(w, "done")
        BY DEF StorageInv, Req, RequestSets
      <4> QED
        BY <4>1 DEF In
    <3> HIDE DEF q, y
    <3>4. \A d \in Request : \A H : HasRemoved(d, q.place, H) =>
            /\ req'[d].stage \in Late /\ req'[d].handler \in H
            /\ IsPlaced(req'[d]) /\ req'[d].place = q.place
      BY DEF HasRemoved
    <3>5. y.said = 404 /\ y.handler \in Reads \cup Parts =>
        /\ IsPlaced(y)
        /\ \A w \in y.after : req'[w].said = 200 /\ req'[w].place = y.place =>
             /\ req'[w].handler \in Writes /\ y.handler \in Reads =>
                  \E d \in Request \ {s} :
                    /\ req'[d].stage \in Late /\ req'[d].handler \in Deletes
                    /\ IsPlaced(req'[d]) /\ req'[d].place = y.place
             /\ req'[w].handler = "NewMultipartUpload" /\ y.handler \in Parts =>
                  \E d \in Request \ {s} :
                    /\ req'[d].stage \in Late /\ req'[d].handler \in Ends
                    /\ IsPlaced(req'[d]) /\ req'[d].place = y.place
      BY <3>1, <3>2, <3>3, <3>4 DEF Misses, q
    <3> QED
      BY <3>5 DEF Misses, HasRemoved, y
  <2>2. CASE s = r /\ req[r].stage \in Fresh
    <3>2. y = x
      BY <2>2
    <3>1. y.said = 404 => y.handler \notin Minding
      <4> HIDE DEF y
      <4> QED
        BY <2>2, <3>2
    <3> QED
      BY <3>1 DEF Misses, Minding
  <2> QED
    BY <1>4, <2>1, <2>2
<1> QED
  BY <1>1, <1>2, <1>3, <1>5, <1>6 DEF StorageInv
-----------------------------------------------------------------------------
\* The request after the call on the multi-tenant layer: answered, and where it was.
With(q, status, stage) == [q EXCEPT !.said = status, !.stage = stage]

\* A request that calls the multi-tenant layer is in its place and has no answer, and
\* keeps to its form when it gets one.
LEMMA CoreAnswers ==
  ASSUME StorageInv, NEW r \in Request, In(r, "core"), NEW st \in Nat, NEW sg \in Late
  PROVE  LET q == req[r]
             x == With(q, st, sg)
         IN  /\ x \in Req /\ IsUnderWay(x) /\ KeepsAnswer(q, x) /\ IsPlaced(x)
             /\ x.call = q.call /\ x.handler = q.handler /\ x.user = q.user
             /\ x.place = q.place /\ x.after = q.after /\ x.said = st /\ x.stage = sg
             /\ q.call \in Sent /\ q.place \in Places /\ q.said = None
             /\ q.stage = "core" /\ q.stage \in Fresh
             /\ IsPlaced(q) /\ \A w \in q.after : In(w, "done")
<1> DEFINE q == req[r]
           x == With(q, st, sg)
<1>1. q \in Req /\ IsUnderWay(q) /\ (\A w \in q.after : In(w, "done"))
  BY DEF StorageInv
<1>2. q.stage = "core" /\ q.stage \in Fresh /\ q.stage \notin Late /\ q.stage # "idle"
  BY DEF In, Fresh, Late
<1> HIDE DEF q
<1>3. q.call \in Sent /\ q.handler = HandlerOf(q.call) /\ q.said = None /\ IsPlaced(q)
  BY <1>1, <1>2 DEF IsUnderWay
<1>4. q.place \in Places
  BY <1>3, SentNames, PlaceIsTyped DEF IsPlaced
<1>5. st \in NatOrNone /\ sg \in Stages /\ sg \notin Fresh /\ sg \notin {"head", "core", "idle"}
  BY DEF NatOrNone, Late, Fresh, Stages
<1>6. x \in Req /\ x.call = q.call /\ x.handler = q.handler /\ x.user = q.user
      /\ x.place = q.place /\ x.after = q.after /\ x.said = st /\ x.stage = sg
  BY <1>1, <1>5 DEF Req, With
<1> HIDE DEF x
<1>7. IsPlaced(x)
  BY <1>3, <1>6 DEF IsPlaced
<1>8. IsUnderWay(x)
  BY <1>3, <1>5, <1>6, <1>7 DEF IsUnderWay
<1>9. KeepsAnswer(q, x)
  BY <1>2 DEF KeepsAnswer
<1> QED
  BY <1>1, <1>2, <1>3, <1>4, <1>6, <1>7, <1>8, <1>9 DEF x, q

\* What a call on the multi-tenant layer may come to: no effect and an error, or the
\* effect and its answer, or the effect and an error.
HasEffect(r, st) ==
  /\ st \in {Effect(r).status, 500}
  /\ stored' = Effect(r).objects /\ uploads' = Effect(r).open

LEMMA CoreCases ==
  ASSUME StorageInv, NEW r \in Request, Core(r)
  PROVE  \E st \in Nat, sg \in Late :
           /\ req' = [req EXCEPT ![r] = With(req[r], st, sg)]
           /\ \/ st \notin {200, 404} /\ UNCHANGED <<stored, uploads>>
              \/ HasEffect(r, st)
<1> DEFINE e == Effect(r)
           After(status) ==
             CASE req[r].handler = "PutBucket" -> "post"
               [] req[r].handler = "DeleteBucket" /\ status < 300 -> "unclaim"
               [] OTHER -> IF IsLimited(req[r].handler) THEN "leaving" ELSE "done"
<1>1. In(r, "core")
  BY DEF Core
<1>2. req[r].said = None /\ IsPlaced(req[r]) /\ req[r].place \in Places
  BY <1>1, CoreAnswers DEF Late
<1>3. e.status \in Nat
  BY <1>2, EffectIs DEF StorageInv
<1> HIDE DEF e
<1>4. ASSUME NEW s \in Nat PROVE After(s) \in Late
  BY DEF Late
<1> HIDE DEF After
<1>5. ASSUME NEW s \in Nat, Reply(r, s, After(s))
      PROVE  req' = [req EXCEPT ![r] = With(req[r], s, After(s))]
  BY <1>2, <1>5 DEF Reply, Said, With
<1>6. NoProject(r) \in Nat /\ NoProject(r) \notin {200, 404}
  BY DEF NoProject
<1>7. CASE Reply(r, NoProject(r), After(NoProject(r))) /\ UNCHANGED <<stored, uploads>>
  BY <1>4, <1>5, <1>6, <1>7
<1>8. CASE Reply(r, e.status, After(e.status)) /\ stored' = e.objects /\ uploads' = e.open
  BY <1>3, <1>4, <1>5, <1>8 DEF e, HasEffect
<1>9. CASE Reply(r, 500, After(500)) /\ UNCHANGED <<stored, uploads>>
  <2>1. 500 \in Nat /\ 500 \notin {200, 404}
    OBVIOUS
  <2> QED
    BY <1>4, <1>5, <1>9, <2>1
<1>10. CASE Reply(r, 500, After(500)) /\ stored' = e.objects /\ uploads' = e.open
  <2>1. 500 \in Nat
    OBVIOUS
  <2> QED
    BY <1>4, <1>5, <1>10, <2>1 DEF e, HasEffect
<1> QED
  BY <1>7, <1>8, <1>9, <1>10 DEF Core, e, After
-----------------------------------------------------------------------------
\* The call has its effect: what it removes, it was sent for.
LEMMA EffectStep ==
  ASSUME StorageInv, NEW r \in Request, In(r, "core"), NEW st \in Nat, NEW sg \in Late,
         req' = [req EXCEPT ![r] = With(req[r], st, sg)],
         HasEffect(r, st),
         taken' \in SUBSET Bucket
  PROVE  StorageInv'
<1> DEFINE e == Effect(r)
           x == With(req[r], st, sg)
           p == req[r].place
           h == req[r].handler
<1>1. /\ x \in Req /\ IsUnderWay(x) /\ KeepsAnswer(req[r], x) /\ IsPlaced(x)
      /\ x.call = req[r].call /\ x.handler = h /\ x.user = req[r].user
      /\ x.place = p /\ x.after = req[r].after /\ x.said = st /\ x.stage = sg
      /\ req[r].call \in Sent /\ p \in Places /\ req[r].said = None
      /\ req[r].stage = "core" /\ req[r].stage \in Fresh
      /\ IsPlaced(req[r]) /\ \A w \in req[r].after : In(w, "done")
  BY CoreAnswers
<1>2. /\ e.status \in {200, 404}
      /\ e.objects \in SUBSET Places /\ e.open \in SUBSET Places
      /\ \A y \in ObjectPlaces : y \in stored /\ y \notin e.objects =>
           h = "DeleteObject" /\ y = p
      /\ \A y \in uploads : y \notin e.open => h \in Ends /\ y = p
      /\ h \in Writes /\ e.status = 200 => p \in e.objects
      /\ h = "NewMultipartUpload" => p \in e.open
      /\ h \in Reads /\ e.status = 404 => p \notin stored
      /\ h \in Parts /\ e.status = 404 => p \notin uploads
  BY <1>1, EffectIs DEF StorageInv
<1>3. /\ req'[r] = x
      /\ \A d \in Request \ {r} : req'[d] = req[d]
      /\ \A d \in Request : req[d].stage \in Late =>
           /\ req'[d].stage \in Late /\ req'[d].handler = req[d].handler
           /\ req'[d].place = req[d].place /\ req'[d].said = req[d].said
           /\ req'[d].after = req[d].after
           /\ IsPlaced(req[d]) => IsPlaced(req'[d])
  BY <1>1, AnswersStay
<1>4. stored' = e.objects /\ uploads' = e.open /\ st \in {e.status, 500}
  BY DEF HasEffect
<1>5. req' \in [Request -> Req]
  BY <1>1 DEF StorageInv
<1>6. \A d \in Request : \A y, H : HasRemoved(d, y, H) =>
        /\ d # r /\ req'[d].stage \in Late /\ req'[d].handler \in H
        /\ IsPlaced(req'[d]) /\ req'[d].place = y
  <2>1. req[r].stage \notin Late
    BY <1>1 DEF Late
  <2> QED
    BY <1>3, <2>1 DEF HasRemoved
<1> HIDE DEF e, x, p, h
<1>7. /\ (stored \in SUBSET Places)' /\ (uploads \in SUBSET Places)'
      /\ (taken \in SUBSET Bucket)'
  BY <1>2, <1>4
<1>8. ASSUME NEW s \in Request PROVE IsUnderWay(req'[s])
  BY <1>1, <1>3 DEF StorageInv
<1>9. \A s \in Request : \A w \in req[s].after : w \in Request /\ w # r /\ req'[w] = req[w]
                                                /\ In(w, "done")
  <2>1. \A s \in Request : req[s].after \in SUBSET Request
    BY DEF StorageInv, Req, RequestSets
  <2>2. \A s \in Request : \A w \in req[s].after : In(w, "done")
    BY DEF StorageInv
  <2> QED
    BY <1>1, <1>3, <2>1, <2>2 DEF In
<1>10. \A s \in Request : req'[s].after = req[s].after
  BY <1>1, <1>3
<1>11. ASSUME NEW s \in Request PROVE \A w \in req'[s].after : In(w, "done")'
  BY <1>9, <1>10 DEF In
<1>12. ASSUME NEW w \in Request PROVE Stores(w)'
  <2>1. CASE w # r
    <3> DEFINE q == req[w]
    <3>1. req'[w] = q
      BY <1>3, <2>1
    <3>2. Stores(w)
      BY DEF StorageInv
    <3>3. q.said = 200 => q.call \in Sent
      BY AnsweredIsLate
    <3> HIDE DEF q
    <3>4. ASSUME q.said = 200, q.handler \in Writes
          PROVE  /\ IsPlaced(q)
                 /\ \/ q.place \in stored'
                    \/ \E d \in Request : /\ req'[d].stage \in Late /\ req'[d].handler \in Deletes
                                          /\ IsPlaced(req'[d]) /\ req'[d].place = q.place
      <4>1. /\ IsPlaced(q)
            /\ q.place \in stored \/ \E d \in Request : HasRemoved(d, q.place, Deletes)
        BY <3>2, <3>4 DEF Stores, q
      <4>2. q.place \in ObjectPlaces
        BY <3>3, <3>4, <4>1, MindersPlaces DEF Minding
      <4>3. CASE q.place \in stored /\ q.place \notin e.objects
        BY <1>1, <1>2, <1>3, <4>1, <4>2, <4>3 DEF Deletes
      <4> QED
        BY <1>4, <1>6, <4>1, <4>3
    <3>5. ASSUME q.said = 200, q.handler = "NewMultipartUpload"
          PROVE  /\ IsPlaced(q)
                 /\ \/ q.place \in uploads'
                    \/ \E d \in Request : /\ req'[d].stage \in Late /\ req'[d].handler \in Ends
                                          /\ IsPlaced(req'[d]) /\ req'[d].place = q.place
      <4>1. /\ IsPlaced(q)
            /\ q.place \in uploads \/ \E d \in Request : HasRemoved(d, q.place, Ends)
        BY <3>2, <3>5 DEF Stores, q
      <4>3. CASE q.place \in uploads /\ q.place \notin e.open
        BY <1>1, <1>2, <1>3, <4>1, <4>3
      <4> QED
        BY <1>4, <1>6, <4>1, <4>3
    <3> QED
      BY <3>1, <3>4, <3>5 DEF Stores, HasRemoved
  <2>2. CASE w = r
    <3>1. x.said = 200 => e.status = 200
      BY <1>1, <1>4
    <3>2. x.said = 200 /\ x.handler \in Writes => IsPlaced(x) /\ x.place \in stored'
      BY <1>1, <1>2, <1>4, <3>1
    <3>3. x.said = 200 /\ x.handler = "NewMultipartUpload" =>
            IsPlaced(x) /\ x.place \in uploads'
      BY <1>1, <1>2, <1>4, <3>1
    <3> QED
      BY <1>3, <2>2, <3>2, <3>3 DEF Stores
  <2> QED
    BY <2>1, <2>2
<1>13. ASSUME NEW s \in Request PROVE Misses(s)'
  <2>1. CASE s # r
    <3> DEFINE q == req[s]
    <3>1. req'[s] = q
      BY <1>3, <2>1
    <3>2. Misses(s)
      BY DEF StorageInv
    <3>3. \A w \in q.after : req'[w] = req[w]
      BY <1>9
    <3> HIDE DEF q
    <3>4. q.said = 404 /\ q.handler \in Reads \cup Parts =>
        /\ IsPlaced(q)
        /\ \A w \in q.after : req'[w].said = 200 /\ req'[w].place = q.place =>
             /\ req'[w].handler \in Writes /\ q.handler \in Reads =>
                  \E d \in Request \ {s} :
                    /\ req'[d].stage \in Late /\ req'[d].handler \in Deletes
                    /\ IsPlaced(req'[d]) /\ req'[d].place = q.place
             /\ req'[w].handler = "NewMultipartUpload" /\ q.handler \in Parts =>
                  \E d \in Request \ {s} :
                    /\ req'[d].stage \in Late /\ req'[d].handler \in Ends
                    /\ IsPlaced(req'[d]) /\ req'[d].place = q.place
      BY <1>6, <3>2, <3>3 DEF Misses, q
    <3> QED
      BY <3>1, <3>4 DEF Misses, HasRemoved
  <2>2. CASE s = r
    <3> SUFFICES ASSUME x.said = 404, x.handler \in Reads \cup Parts
                 PROVE  /\ IsPlaced(x)
                        /\ \A w \in x.after : req'[w].said = 200 /\ req'[w].place = x.place =>
                             /\ req'[w].handler \in Writes /\ x.handler \in Reads =>
                                  \E d \in Request \ {r} :
                                    /\ req'[d].stage \in Late /\ req'[d].handler \in Deletes
                                    /\ IsPlaced(req'[d]) /\ req'[d].place = x.place
                             /\ req'[w].handler = "NewMultipartUpload" /\ x.handler \in Parts =>
                                  \E d \in Request \ {r} :
                                    /\ req'[d].stage \in Late /\ req'[d].handler \in Ends
                                    /\ IsPlaced(req'[d]) /\ req'[d].place = x.place
      BY <1>3, <2>2 DEF Misses, HasRemoved
    <3>1. e.status = 404
      BY <1>1, <1>4
    <3>2. ASSUME NEW w \in req[r].after, req[w].said = 200, req[w].place = p
          PROVE  /\ req[w].handler \in Writes /\ h \in Reads =>
                      \E d \in Request : HasRemoved(d, p, Deletes)
                 /\ req[w].handler = "NewMultipartUpload" /\ h \in Parts =>
                      \E d \in Request : HasRemoved(d, p, Ends)
      <4>1. Stores(w)
        BY <1>9 DEF StorageInv
      <4>2. req[w].handler \in Writes /\ h \in Reads =>
              \E d \in Request : HasRemoved(d, p, Deletes)
        BY <1>2, <3>1, <3>2, <4>1 DEF Stores
      <4>3. req[w].handler = "NewMultipartUpload" /\ h \in Parts =>
              \E d \in Request : HasRemoved(d, p, Ends)
        BY <1>2, <3>1, <3>2, <4>1 DEF Stores
      <4> QED
        BY <4>2, <4>3
    <3> QED
      BY <1>1, <1>3, <1>6, <1>9, <3>2 
  <2> QED
    BY <2>1, <2>2
<1> QED
  BY <1>5, <1>7, <1>8, <1>11, <1>12, <1>13 DEF StorageInv
-----------------------------------------------------------------------------
\* A request that arrives: on its way to the lookup, or turned away.
Arrived(a, stage, status) ==
  [NoReq EXCEPT !.stage = stage, !.said = status, !.call = a, !.handler = HandlerOf(a),
                !.after = {s \in Request : In(s, "done")}]

\* The ways in which a request may arrive.
LEMMA ArriveCases ==
  ASSUME NEW r \in Request, Arrive(r)
  PROVE  \E a \in Sent, st \in NatOrNone, sg \in {"lookup", "done"} :
           /\ req' = [req EXCEPT ![r] = Arrived(a, sg, st)]
           /\ sg = "lookup" => st = None
           /\ sg = "done" => st \in Nat
           /\ st = 404 => HandlerOf(a) = "NotFound"
           /\ st \notin {200, 429}
<1> DEFINE Becomes(a, sg, st) == req' = [req EXCEPT ![r] = Arrived(a, sg, st)]
<1>1. PICK a \in Sent :
        \/ Becomes(a, "done", 404) /\ HandlerOf(a) = "NotFound"
        \/ Becomes(a, "done", 405)
        \/ Becomes(a, "lookup", None)
        \/ Becomes(a, "done", NoAnswer)
        \/ Becomes(a, "done", 400)
  <2> DEFINE k(a) == GetAccessKeyID(a.creds)
  <2>1. PICK a \in Sent :
          CASE HandlerOf(a) \in Unrouted ->
                 /\ Becomes(a, "done", IF HandlerOf(a) = "NotFound" THEN 404 ELSE 405)
                 /\ UNCHANGED authVars
            [] HandlerOf(a) \notin Unrouted /\ k(a) \in AccessKey ->
                 Becomes(a, "lookup", None) /\ StartLookup(r, k(a))
            [] HandlerOf(a) \notin Unrouted /\ k(a) = None ->
                 Becomes(a, "lookup", None) /\ UNCHANGED authVars
            [] OTHER ->
                 /\ Becomes(a, "done", IF k(a) = "panic" THEN NoAnswer ELSE 400)
                 /\ UNCHANGED authVars
    BY ZenonT(60) DEF Arrive, Sent, Arrived
  <2> HIDE DEF Becomes, k
  <2>2. None \notin AccessKey
    BY AuthClientAssumption
  <2>3. CASE HandlerOf(a) \in Unrouted
    BY <2>1, <2>3
  <2>4. CASE HandlerOf(a) \notin Unrouted /\ k(a) \in AccessKey
    BY <2>1, <2>2, <2>4
  <2>5. CASE HandlerOf(a) \notin Unrouted /\ k(a) = None
    BY <2>1, <2>2, <2>5
  <2>6. CASE HandlerOf(a) \notin Unrouted /\ k(a) # None /\ k(a) \notin AccessKey
    BY <2>1, <2>6
  <2> QED
    BY <2>3, <2>4, <2>5, <2>6
<1> HIDE DEF Becomes
<1>2. None \notin Nat /\ None \notin {200, 404, 429} /\ None \in NatOrNone
  BY AuthClientAssumption DEF NatOrNone
<1>3. 404 \in NatOrNone /\ 405 \in NatOrNone /\ 400 \in NatOrNone /\ NoAnswer \in NatOrNone
      /\ NoAnswer = 0
  BY DEF NatOrNone, NoAnswer
<1>4. \E st \in NatOrNone, sg \in {"lookup", "done"} :
        /\ Becomes(a, sg, st)
        /\ sg = "lookup" => st = None
        /\ sg = "done" => st \in Nat
        /\ st = 404 => HandlerOf(a) = "NotFound"
        /\ st \notin {200, 429}
  <2>1. CASE Becomes(a, "done", 404) /\ HandlerOf(a) = "NotFound"
    BY <1>3, <2>1
  <2>2. CASE Becomes(a, "done", 405)
    BY <1>3, <2>2
  <2>3. CASE Becomes(a, "lookup", None)
    BY <1>2, <2>3
  <2>4. CASE Becomes(a, "done", NoAnswer)
    BY <1>3, <2>4
  <2>5. CASE Becomes(a, "done", 400)
    BY <1>3, <2>5
  <2> QED
    BY <1>1, <2>1, <2>2, <2>3, <2>4, <2>5
<1> QED
  BY <1>4 DEF Becomes

\* An arriving request has no answer that anybody could build on; its past is done.
LEMMA ArriveStep ==
  ASSUME StorageInv, NEW r \in Request, Arrive(r)
  PROVE  StorageInv'
<1>1. PICK a \in Sent, st \in NatOrNone, sg \in {"lookup", "done"} :
        /\ req' = [req EXCEPT ![r] = Arrived(a, sg, st)]
        /\ sg = "lookup" => st = None
        /\ sg = "done" => st \in Nat
        /\ st = 404 => HandlerOf(a) = "NotFound"
        /\ st # 200
  BY ArriveCases
<1> DEFINE h == HandlerOf(a)
           x == Arrived(a, sg, st)
<1>2. h \in Handlers /\ a \in SentOrNone /\ sg \in Stages /\ None \in UserOrNone
      /\ None \in Spots /\ {s \in Request : In(s, "done")} \in RequestSets
  BY DEF Handlers, SentOrNone, Stages, UserOrNone, Spots, RequestSets
<1> HIDE DEF h
<1>3. x \in Req /\ x.call = a /\ x.handler = h /\ x.stage = sg /\ x.said = st
      /\ x.after = {s \in Request : In(s, "done")}
  BY <1>2 DEF NoReq, Req, Arrived, h
<1>4. req' = [req EXCEPT ![r] = x]
  BY <1>1 DEF h
<1> HIDE DEF x
<1>5. sg # "idle" /\ sg \notin {"core", "post", "unclaim", "head"}
      /\ (sg \in Fresh => sg = "lookup") /\ (sg \in Late => sg = "done")
  BY DEF Fresh, Late
<1>6. IsUnderWay(x)
  BY <1>1, <1>3, <1>5 DEF IsUnderWay, h
<1>7. In(r, "idle") /\ UNCHANGED <<stored, uploads, taken>>
  BY DEF Arrive, storage
<1>8. req[r].stage = "idle" /\ req[r].stage \notin Late
  BY <1>7 DEF In, Late
<1>9. KeepsAnswer(req[r], x)
  BY <1>8 DEF KeepsAnswer
<1>10. x.said \in {200, 404} => x.handler \notin Minding
  BY <1>1, <1>3 DEF h, Minding, Writes, Reads, Parts, Deletes, Ends
<1>11. taken' \in SUBSET Bucket
  BY <1>7 DEF StorageInv
<1>12. req[r].stage # "done" /\ \A w \in x.after : In(w, "done")
  BY <1>3, <1>8
<1>13. UNCHANGED <<stored, uploads>>
  BY <1>7
<1>14. x \in Req
  BY <1>3
<1>15. req[r].stage \in Fresh /\ x.said \in {200, 404} => x.handler \notin Minding
  BY <1>10
<1> QED
  BY ONLY StorageInv, r \in Request, <1>4, <1>6, <1>9, <1>11, <1>12, <1>13, <1>14, <1>15,
     QuietStep
-----------------------------------------------------------------------------
\* A request is answered, unless it has been, and is at the end of its handler.
LEMMA AnswerStep ==
  ASSUME StorageInv, NEW r \in Request, req[r].stage \notin {"idle", "done"},
         NEW status \in Nat, NEW sg \in {"leaving", "done"}, Reply(r, status, sg),
         req[r].stage \in Fresh /\ status \in {200, 404} => req[r].handler \notin Minding,
         UNCHANGED <<stored, uploads>>, taken' \in SUBSET Bucket
  PROVE  StorageInv'
<1> DEFINE q == req[r]
           st == Said(r, status)
           x == [q EXCEPT !.said = st, !.stage = sg]
<1>1. q \in Req /\ IsUnderWay(q) /\ (\A w \in q.after : In(w, "done"))
  BY DEF StorageInv
<1>2. req' = [req EXCEPT ![r] = x]
  BY DEF Reply
<1>3. st = IF q.said = None THEN status ELSE q.said
  BY DEF Said
<1>0. q.stage \notin {"idle", "done"}
      /\ (q.stage \in Fresh /\ status \in {200, 404} => q.handler \notin Minding)
  OBVIOUS
<1> HIDE DEF q, st
<1>4. q.stage \in Fresh \/ q.stage \in Late
  BY <1>1 DEF Req, Stages, Fresh, Late
<1>5. /\ q.stage \in Fresh => st = status
      /\ q.stage \in Late => st = q.said /\ q.said \in Nat
  BY <1>1, <1>3, AuthClientAssumption DEF IsUnderWay
<1>6. st \in Nat /\ st \in NatOrNone /\ sg \in Stages /\ sg \in Late /\ sg \notin Fresh
      /\ sg \notin {"idle", "head", "core", "post", "unclaim"}
  BY <1>4, <1>5 DEF NatOrNone, Stages, Late, Fresh
<1>7. x \in Req /\ x.call = q.call /\ x.handler = q.handler /\ x.user = q.user
      /\ x.place = q.place /\ x.after = q.after /\ x.said = st /\ x.stage = sg
  BY <1>1, <1>6 DEF Req
<1> HIDE DEF x
<1>8. IsUnderWay(x)
  BY <1>0, <1>1, <1>6, <1>7 DEF IsUnderWay
<1>9. KeepsAnswer(q, x)
  BY <1>5, <1>6, <1>7 DEF KeepsAnswer
<1>10. q.stage \in Fresh /\ x.said \in {200, 404} => x.handler \notin Minding
  BY <1>0, <1>5, <1>7
<1>11. q.stage # "done" /\ \A w \in x.after : In(w, "done")
  BY <1>0, <1>1, <1>7
<1> QED
  BY <1>2, <1>7, <1>8, <1>9, <1>10, <1>11, QuietStep DEF q

\* A request goes on without an answer.
LEMMA GoStep ==
  ASSUME StorageInv, NEW r \in Request, NEW sg,
         req[r].stage \in Fresh \ {"idle"}, sg \in Fresh \ {"idle"}, Go(r, sg),
         sg = "head" => req[r].handler = "HeadBucket",
         sg = "core" => IsPlaced(req[r]),
         UNCHANGED <<stored, uploads, taken>>
  PROVE  StorageInv'
<1> DEFINE q == req[r]
           x == [q EXCEPT !.stage = sg]
<1>1. q \in Req /\ IsUnderWay(q) /\ (\A w \in q.after : In(w, "done"))
  BY DEF StorageInv
<1>2. req' = [req EXCEPT ![r] = x]
  BY DEF Go
<1>0. q.stage \in Fresh \ {"idle"} /\ (sg = "head" => q.handler = "HeadBucket")
      /\ (sg = "core" => IsPlaced(q))
  OBVIOUS
<1> HIDE DEF q
<1>6. sg \in Stages /\ sg \notin Late /\ sg # "idle" /\ sg \notin {"post", "unclaim"}
      /\ q.stage \notin Late /\ q.stage # "done" /\ q.stage # "idle"
  BY <1>0 DEF Stages, Late, Fresh
<1>7. x \in Req /\ x.call = q.call /\ x.handler = q.handler /\ x.user = q.user
      /\ x.place = q.place /\ x.after = q.after /\ x.said = q.said /\ x.stage = sg
  BY <1>1, <1>6 DEF Req
<1> HIDE DEF x
<1>3. q.said = None /\ None \notin {200, 404}
  BY <1>0, <1>1, AuthClientAssumption DEF IsUnderWay
<1>8. IsUnderWay(x)
  <2>1. IsPlaced(q) => IsPlaced(x)
    BY <1>7 DEF IsPlaced
  <2> QED
    BY <1>0, <1>1, <1>3, <1>6, <1>7, <2>1 DEF IsUnderWay
<1>9. KeepsAnswer(q, x)
  BY <1>6 DEF KeepsAnswer
<1>10. x.said \notin {200, 404}
  BY <1>3, <1>7
<1>11. \A w \in x.after : In(w, "done")
  BY <1>1, <1>7
<1>12. taken' \in SUBSET Bucket
  BY DEF StorageInv
<1> QED
  BY <1>2, <1>6, <1>7, <1>8, <1>9, <1>10, <1>11, <1>12, QuietStep DEF q

\* A request whose answer is on its way is done.
LEMMA EndStep ==
  ASSUME StorageInv, NEW r \in Request, req[r].stage \in Late \ {"done"}, Go(r, "done"),
         UNCHANGED <<stored, uploads>>, taken' \in SUBSET Bucket
  PROVE  StorageInv'
<1> DEFINE q == req[r]
           x == [q EXCEPT !.stage = "done"]
<1>1. q \in Req /\ IsUnderWay(q) /\ (\A w \in q.after : In(w, "done"))
  BY DEF StorageInv
<1>2. req' = [req EXCEPT ![r] = x]
  BY DEF Go
<1>3. q.stage \in Late \ {"done"}
  OBVIOUS
<1> HIDE DEF q
<1>4. "done" \in Stages /\ "done" \in Late /\ "done" \notin Fresh
      /\ q.stage \notin Fresh /\ q.stage # "done" /\ q.stage # "idle"
  BY <1>3 DEF Stages, Late, Fresh
<1>5. x \in Req /\ x.call = q.call /\ x.handler = q.handler /\ x.user = q.user
      /\ x.place = q.place /\ x.after = q.after /\ x.said = q.said /\ x.stage = "done"
  BY <1>1, <1>4 DEF Req
<1> HIDE DEF x
<1>6. IsUnderWay(x)
  BY <1>1, <1>3, <1>4, <1>5 DEF IsUnderWay
<1>7. KeepsAnswer(q, x)
  BY <1>4, <1>5 DEF KeepsAnswer
<1>8. \A w \in x.after : In(w, "done")
  BY <1>1, <1>5
<1> QED
  BY <1>2, <1>4, <1>5, <1>6, <1>7, <1>8, QuietStep DEF q
-----------------------------------------------------------------------------
\* A request is put in its place.
LEMMA PlaceStep ==
  ASSUME StorageInv, NEW r \in Request, req[r].stage \in {"lookup", "handler"},
         NEW u \in UserOrNone, NeedsUser(req[r].handler) => u \in User,
         NEW sg \in {"head", "core"}, sg = "head" => req[r].handler = "PutBucket",
         req' = [req EXCEPT ![r] = [@ EXCEPT !.user = u, !.stage = sg,
           !.place = Place(req[r].handler, u, req[r].call.bucket, req[r].call.object)]],
         UNCHANGED <<stored, uploads, taken>>
  PROVE  StorageInv'
<1> DEFINE q == req[r]
           p == Place(q.handler, u, q.call.bucket, q.call.object)
           x == [q EXCEPT !.user = u, !.stage = sg, !.place = p]
<1>1. q \in Req /\ IsUnderWay(q) /\ (\A w \in q.after : In(w, "done"))
  BY DEF StorageInv
<1>2. req' = [req EXCEPT ![r] = x]
  OBVIOUS
<1>3. q.stage \in {"lookup", "handler"} /\ (sg = "head" => q.handler = "PutBucket")
      /\ (NeedsUser(q.handler) => u \in User)
  OBVIOUS
<1> HIDE DEF q
<1>4. q.stage \in Fresh \ {"idle", "done"} /\ q.stage \notin Late /\ sg \in Stages
      /\ sg \notin Late
  BY <1>3 DEF Fresh, Late, Stages
<1>5. q.call \in Sent /\ q.handler = HandlerOf(q.call) /\ q.said = None
      /\ None \notin {200, 404}
  BY <1>1, <1>4, AuthClientAssumption DEF IsUnderWay
<1>6. p \in Spots
  BY <1>3, <1>5, SentNames, PlaceIsTyped DEF Spots
<1> HIDE DEF p
<1>7. x \in Req /\ x.call = q.call /\ x.handler = q.handler /\ x.user = u
      /\ x.place = p /\ x.after = q.after /\ x.said = q.said /\ x.stage = sg
  BY <1>1, <1>4, <1>6 DEF Req
<1> HIDE DEF x
<1>8. IsPlaced(x)
  BY <1>3, <1>7 DEF IsPlaced, p
<1>9. IsUnderWay(x)
  BY <1>3, <1>4, <1>5, <1>7, <1>8 DEF IsUnderWay
<1>10. KeepsAnswer(q, x)
  BY <1>4 DEF KeepsAnswer
<1>11. x.said \notin {200, 404}
  BY <1>5, <1>7
<1>12. q.stage # "done" /\ \A w \in x.after : In(w, "done")
  BY <1>1, <1>4, <1>7
<1>13. taken' \in SUBSET Bucket
  BY DEF StorageInv
<1>14. KeepsAnswer(req[r], x) /\ req[r].stage # "done"
  BY <1>10, <1>12 DEF q
<1>15. UNCHANGED <<stored, uploads>>
  OBVIOUS
<1>16. req[r].stage \in Fresh /\ x.said \in {200, 404} => x.handler \notin Minding
  BY <1>11
<1>17. x \in Req /\ \A w \in x.after : In(w, "done")
  BY <1>7, <1>12
<1> QED
  BY ONLY StorageInv, r \in Request, <1>2, <1>9, <1>13, <1>14, <1>15, <1>16, <1>17, QuietStep

\* The wrapping handlers answer themselves or put the request in its place.
LEMMA HandleStep ==
  ASSUME StorageInv, Types, NEW r \in Request, Handle(r)
  PROVE  StorageInv'
<1> DEFINE h == req[r].handler
           c == req[r].call
<1>1. req[r].stage \in {"lookup", "handler"} /\ UNCHANGED <<stored, uploads, taken>>
  BY DEF Handle, In, Authenticated, storage
<1>2. req[r].stage \in Fresh \ {"idle"} /\ req[r].stage \notin {"idle", "done"}
      /\ req[r] \in Req /\ taken' \in SUBSET Bucket
  BY <1>1 DEF Fresh, StorageInv
<1>3. ASSUME NEW status \in Nat, Answered(r, status),
             status \in {200, 404} => h \notin Minding
      PROVE  StorageInv'
  <2>1. PICK sg \in {"leaving", "done"} : Reply(r, status, sg)
    BY <1>3 DEF Answered
  <2> QED
    BY <1>1, <1>2, <1>3, <2>1, AnswerStep
<1>4. CASE NeedsUser(h) /\ GetUserID(r)
  <2> DEFINE u == UserOf[lookup[r].key]
             sg == IF h = "PutBucket" THEN "head" ELSE "core"
  <2>1. CASE Answered(r, 403)
    BY <1>3, <2>1
  <2>2. CASE Granted(r)
             /\ req' = [req EXCEPT ![r] = [@ EXCEPT
                  !.user = u, !.place = Place(h, u, c.bucket, c.object),
                  !.stage = sg]]
    <3>1. lookup[r].key \in AccessKey
      BY <2>2 DEF Granted, At, Types
    <3>2. u \in User /\ u \in UserOrNone
      BY <3>1, GatewayAssumption DEF UserOrNone
    <3> HIDE DEF u
    <3>3. sg \in {"head", "core"} /\ (sg = "head" => h = "PutBucket")
      OBVIOUS
    <3> HIDE DEF sg
    <3>4. [req[r] EXCEPT !.user = u, !.place = Place(h, u, c.bucket, c.object),
                         !.stage = sg]
          = [req[r] EXCEPT !.user = u, !.stage = sg,
                           !.place = Place(h, u, c.bucket, c.object)]
      BY <1>2 DEF Req
    <3>5. req' = [req EXCEPT ![r] = [@ EXCEPT !.user = u, !.stage = sg,
                      !.place = Place(h, u, c.bucket, c.object)]]
      BY <2>2, <3>4
    <3> QED
      BY <1>1, <3>2, <3>3, <3>5, PlaceStep
  <2> QED
    BY <1>4, <2>1, <2>2 DEF GetUserID
<1>5. CASE ~NeedsUser(h) /\ h = "HeadBucket" /\ Go(r, "head")
  <2>1. "head" \in Fresh \ {"idle"}
    BY DEF Fresh
  <2> QED
    BY <1>1, <1>2, <1>5, <2>1, GoStep
<1>6. CASE h = "GetBucketCors" /\ Answered(r, 200)
  <2>1. h \notin Minding
    BY <1>6 DEF Minding, Writes, Reads, Parts, Deletes, Ends
  <2> QED
    BY <1>3, <1>6, <2>1
<1>7. CASE Answered(r, 501)
  BY <1>3, <1>7
<1>8. CASE ~NeedsUser(h)
           /\ req' = [req EXCEPT ![r] = [@ EXCEPT !.stage = "core",
                        !.place = Place(h, None, c.bucket, c.object)]]
  <2> DEFINE u == req[r].user
  <2>1. Place(h, None, c.bucket, c.object) = Place(h, u, c.bucket, c.object)
    BY <1>8, PlaceWithoutUser
  <2>2. [req[r] EXCEPT !.stage = "core", !.place = Place(h, u, c.bucket, c.object)]
        = [req[r] EXCEPT !.user = u, !.stage = "core",
                         !.place = Place(h, u, c.bucket, c.object)]
    BY <1>2 DEF Req
  <2>3. u \in UserOrNone
    BY <1>2 DEF Req
  <2> HIDE DEF u
  <2>4. req' = [req EXCEPT ![r] = [@ EXCEPT !.user = u, !.stage = "core",
                      !.place = Place(h, u, c.bucket, c.object)]]
    BY <1>8, <2>1, <2>2
  <2> QED
    BY <1>1, <1>8, <2>3, <2>4, PlaceStep
<1>9. /\ NeedsUser(h) => h \in ObjectPrefixed \cup BucketPrefixed \cup UserPrefixed
      /\ h \in {"HeadBucket", "GetBucketCors", "PutBucketCors", "DeleteBucketCors"} =>
           ~NeedsUser(h)
  BY DEF NeedsUser, ObjectPrefixed, BucketPrefixed, UserPrefixed
<1>10. CASE NeedsUser(h)
  BY <1>4, <1>9, <1>10 DEF Handle
<1>11. CASE h = "HeadBucket"
  BY <1>5, <1>9, <1>11 DEF Handle
<1>12. CASE h = "GetBucketCors"
  BY <1>6, <1>9, <1>12 DEF Handle
<1>13. CASE h \in {"PutBucketCors", "DeleteBucketCors"}
  BY <1>7, <1>9, <1>13 DEF Handle
<1>14. CASE /\ ~NeedsUser(h)
            /\ h \notin {"HeadBucket", "GetBucketCors", "PutBucketCors", "DeleteBucketCors"}
  BY <1>8, <1>14 DEF Handle
<1> QED
  BY <1>10, <1>11, <1>12, <1>13, <1>14
-----------------------------------------------------------------------------
\* The node service is asked for the name of the bucket.
LEMMA HeadStep ==
  ASSUME StorageInv, NEW r \in Request, HeadBucket(r)
  PROVE  StorageInv'
<1>1. req[r].stage = "head" /\ UNCHANGED <<stored, uploads, taken>>
  BY DEF HeadBucket, In, storage
<1>2. req[r].stage \in Fresh \ {"idle"} /\ req[r].stage \notin {"idle", "done"}
      /\ taken' \in SUBSET Bucket /\ IsUnderWay(req[r])
  BY <1>1 DEF Fresh, StorageInv
<1>3. req[r].handler \in {"HeadBucket", "PutBucket"} /\ req[r].handler \notin Minding
      /\ (req[r].handler = "PutBucket" => IsPlaced(req[r]))
  BY <1>1, <1>2 DEF IsUnderWay, Minding, Writes, Reads, Parts, Deletes, Ends
<1>4. ASSUME NEW status \in Nat, Answered(r, status)
      PROVE  StorageInv'
  <2>1. PICK sg \in {"leaving", "done"} : Reply(r, status, sg)
    BY <1>4 DEF Answered
  <2> QED
    BY <1>1, <1>2, <1>3, <2>1, AnswerStep
<1>5. CASE req[r].handler = "PutBucket" /\ Go(r, "core")
  <2>1. "core" \in Fresh \ {"idle"}
    BY DEF Fresh
  <2> QED
    BY <1>1, <1>2, <1>3, <1>5, <2>1, GoStep
<1>6. (req[r].handler = "PutBucket" /\ Go(r, "core"))
      \/ Answered(r, 404) \/ Answered(r, 409) \/ Answered(r, 200) \/ Answered(r, 500)
  BY DEF HeadBucket
<1> QED
  BY <1>4, <1>5, <1>6

\* The name is claimed or given back when the client has its answer.
LEMMA ClaimStep ==
  ASSUME StorageInv, NEW r \in Request, PutBucketClaim(r) \/ DeleteBucketClaim(r)
  PROVE  StorageInv'
<1>1. req[r].stage \in {"post", "unclaim"} /\ UNCHANGED <<stored, uploads>>
  BY DEF PutBucketClaim, DeleteBucketClaim, In
<1>2. req[r].stage \in Late \ {"done"} /\ req[r].stage \notin Fresh
      /\ req[r].stage \notin {"idle", "done"}
  BY <1>1 DEF Late, Fresh
<1>3. req[r].call.bucket \in Bucket
  <2>1. IsUnderWay(req[r])
    BY DEF StorageInv
  <2> QED
    BY <1>2, <2>1, SentNames DEF IsUnderWay
<1>4. taken' \in SUBSET Bucket
  BY <1>3 DEF PutBucketClaim, DeleteBucketClaim, StorageInv
<1>5. ASSUME NEW status \in Nat, Answered(r, status)
      PROVE  StorageInv'
  <2>1. PICK sg \in {"leaving", "done"} : Reply(r, status, sg)
    BY <1>5 DEF Answered
  <2> QED
    BY <1>1, <1>2, <1>4, <2>1, AnswerStep
<1>6. CASE Go(r, "done")
  BY <1>1, <1>2, <1>4, <1>6, EndStep
<1>7. Go(r, "done") \/ Answered(r, 409) \/ Answered(r, 500)
  BY DEF PutBucketClaim, DeleteBucketClaim
<1> QED
  BY <1>5, <1>6, <1>7

\* A request waits, is let in, turned away or leaves.
LEMMA LimiterStep ==
  ASSUME StorageInv, NEW r \in Request,
         Count(r) \/ Admit(r) \/ TurnAway(r) \/ Leaves(r)
  PROVE  StorageInv'
<1>1. UNCHANGED <<stored, uploads, taken>> /\ taken' \in SUBSET Bucket
  BY DEF Count, Admit, TurnAway, Leaves, storage, StorageInv
<1>2. CASE Count(r)
  <2>1. req[r].stage = "lookup" /\ Go(r, "limiter")
    BY <1>2 DEF Count, Authenticated, In
  <2>2. req[r].stage \in Fresh \ {"idle"} /\ "limiter" \in Fresh \ {"idle"}
    BY <2>1 DEF Fresh
  <2> QED
    BY <1>1, <2>1, <2>2, GoStep
<1>3. CASE Admit(r)
  <2>1. req[r].stage = "limiter" /\ Go(r, "handler")
    BY <1>3 DEF Admit, In
  <2>2. req[r].stage \in Fresh \ {"idle"} /\ "handler" \in Fresh \ {"idle"}
    BY <2>1 DEF Fresh
  <2> QED
    BY <1>1, <2>1, <2>2, GoStep
<1>4. CASE TurnAway(r)
  <2>1. req[r].stage = "limiter" /\ Reply(r, 429, "leaving")
    BY <1>4 DEF TurnAway, In
  <2> QED
    BY <1>1, <2>1, AnswerStep
<1>5. CASE Leaves(r)
  <2>1. req[r].stage = "leaving" /\ Go(r, "done")
    BY <1>5 DEF Leaves, In
  <2>2. req[r].stage \in Late \ {"done"}
    BY <2>1 DEF Late
  <2> QED
    BY <1>1, <2>1, <2>2, EndStep
<1> QED
  BY <1>2, <1>3, <1>4, <1>5

\* The call on the multi-tenant layer, with or without its effect.
LEMMA CoreStep ==
  ASSUME StorageInv, NEW r \in Request, Core(r)
  PROVE  StorageInv'
<1>1. PICK st \in Nat, sg \in Late :
        /\ req' = [req EXCEPT ![r] = With(req[r], st, sg)]
        /\ \/ st \notin {200, 404} /\ UNCHANGED <<stored, uploads>>
           \/ HasEffect(r, st)
  BY CoreCases
<1>2. In(r, "core") /\ taken' \in SUBSET Bucket
  BY DEF Core, StorageInv
<1>3. CASE st \notin {200, 404} /\ UNCHANGED <<stored, uploads>>
  <2> DEFINE x == With(req[r], st, sg)
  <2>1. /\ x \in Req /\ IsUnderWay(x) /\ KeepsAnswer(req[r], x)
        /\ x.after = req[r].after /\ x.said = st /\ req[r].stage = "core"
        /\ \A w \in req[r].after : In(w, "done")
    BY <1>2, CoreAnswers
  <2> HIDE DEF x
  <2>2. req' = [req EXCEPT ![r] = x]
    BY <1>1 DEF x
  <2> QED
    BY <1>2, <1>3, <2>1, <2>2, QuietStep
<1>4. CASE HasEffect(r, st)
  BY <1>1, <1>2, <1>4, EffectStep
<1> QED
  BY <1>1, <1>3, <1>4

\* A handler panics.
LEMMA PanicStep ==
  ASSUME StorageInv, NEW r \in Request, Panic(r)
  PROVE  StorageInv'
<1>1. PICK s \in {500, NoAnswer} : Reply(r, s, "done")
  BY DEF Panic
<1>2. req[r].stage \in {"handler", "core"} /\ UNCHANGED <<stored, uploads, taken>>
      /\ taken' \in SUBSET Bucket
  BY DEF Panic, storage, StorageInv
<1>3. s \in Nat /\ s \notin {200, 404}
  BY DEF NoAnswer
<1> QED
  BY <1>1, <1>2, <1>3, AnswerStep

\* Every step keeps the requests and the storage together.
LEMMA StorageStep ==
  ASSUME StorageInv, Types, [Next]_vars
  PROVE  StorageInv'
<1>1. CASE UNCHANGED <<req, stored, uploads, taken>>
  BY <1>1 DEF StorageInv, Stores, Misses, HasRemoved, In
<1>2. CASE Environment
  BY <1>1, <1>2 DEF Environment, storage
<1>3. ASSUME NEW r \in Request, Resolving(r) PROVE StorageInv'
  BY <1>1, <1>3 DEF Resolving, storage
<1>4. CASE UNCHANGED vars
  BY <1>1, <1>4 DEF vars, storage
<1> QED
  BY <1>2, <1>3, <1>4, ArriveStep, HandleStep, HeadStep, ClaimStep, LimiterStep, CoreStep,
     PanicStep DEF Next, RequestStep

\* Nobody has written anything at the beginning.
LEMMA StorageInit == ASSUME Init PROVE StorageInv
<1>1. NoReq \in Req /\ NoReq.stage = "idle" /\ NoReq.said = None /\ NoReq.after = {}
  BY DEF NoReq, Req, Stages, SentOrNone, Handlers, UserOrNone, Spots, NatOrNone, RequestSets
<1>2. None \notin {200, 404}
  BY AuthClientAssumption
<1>3. IsUnderWay(NoReq)
  BY <1>1 DEF IsUnderWay, Late
<1>4. req = [r \in Request |-> NoReq] /\ stored = {} /\ uploads = {} /\ taken = {}
  BY DEF Init
<1>5. ASSUME NEW r \in Request
      PROVE  IsUnderWay(req[r]) /\ Stores(r) /\ Misses(r) /\ req[r].after = {}
  <2>1. req[r] = NoReq
    BY <1>4
  <2> QED
    BY <1>1, <1>2, <1>3, <2>1 DEF Stores, Misses
<1> QED
  BY <1>1, <1>4, <1>5 DEF StorageInv
-----------------------------------------------------------------------------
\* What the gateway knows of a request fits what is stored.
THEOREM StorageIsKept == Spec => []StorageInv
<1>2. Init => StorageInv
  BY StorageInit
<1>3. StorageInv /\ Types /\ [Next]_vars => StorageInv'
  BY StorageStep
<1> QED
  BY <1>2, <1>3, GatewayKeepsTypes, PTL DEF Spec

-----------------------------------------------------------------------------
\* The user of a request is the one whose key has signed it.
SignerInv ==
  \A r \in Request : req[r].user # None =>
    lookup[r].key \in AccessKey /\ req[r].user = UserOf[lookup[r].key]

\* A call of the auth client is about one key from its beginning on.
LEMMA KeysStay ==
  ASSUME Types, NEW r \in Request,
         \/ ResolveStep(r) \/ Cancel(r)
         \/ \E answer \in Answer(lookup[r].key) : Ask(r, answer)
  PROVE  \A s \in Request : lookup'[s].key = lookup[s].key
<1>1. lookup \in [Request -> Lookup]
  BY DEF Types, AuthTypeOK
<1> SUFFICES ASSUME NEW s \in Request PROVE lookup'[s].key = lookup[s].key
  OBVIOUS
<1>2. lookup[s] \in Lookup /\ lookup[r] \in Lookup
  BY <1>1
<1>3. ASSUME NEW result, NEW cached, Finish(r, result, cached)
      PROVE  lookup'[s].key = lookup[s].key
  BY <1>1, <1>2, <1>3 DEF Finish, Lookup
<1>4. CASE Hit(r)
  BY <1>1, <1>2, <1>4 DEF Hit, Lookup
<1>5. CASE Miss(r) \/ Resume(r)
  BY <1>1, <1>2, <1>5 DEF Miss, Resume, Lookup
<1>a. ASSUME lookup'[r].key = lookup[r].key,
             \A u \in Request \ {r} : lookup'[u] = lookup[u]
      PROVE  lookup'[s].key = lookup[s].key
  BY <1>a
<1>6. CASE Retry(r)
  <2>1. CASE r \in cancelled
    BY <1>3, <1>6, <2>1 DEF Retry, BeginWait
  <2>2. CASE r \notin cancelled
    <3> DEFINE d == NextDelay(lookup[r].delay)
    <3>1. lookup' = [lookup EXCEPT ![r] =
            [@ EXCEPT !.stage = "pause", !.got = None, !.delay = d, !.left = d]]
      BY <1>6, <2>2 DEF Retry, BeginWait
    <3> HIDE DEF d
    <3> QED
      BY <1>1, <1>2, <1>a, <3>1 DEF Lookup
  <2> QED
    BY <2>1, <2>2
<1>7. CASE GiveUp(r) \/ Settle(r) \/ Leave(r)
  BY <1>3, <1>7 DEF GiveUp, Settle, Leave
<1>8. CASE Cancel(r)
  BY <1>8 DEF Cancel
<1>9. CASE \E answer \in Answer(lookup[r].key) : Ask(r, answer)
  <2>1. PICK a \in Answers :
          lookup' = [lookup EXCEPT ![r] = [@ EXCEPT !.stage = "received", !.got = a]]
    BY <1>9 DEF Ask
  <2> QED
    BY <1>1, <1>2, <1>a, <2>1 DEF Lookup
<1> QED
  BY <1>4, <1>5, <1>6, <1>7, <1>8, <1>9 DEF ResolveStep

\* No step but GetUserID says whose a request is.
LEMMA SignerStep ==
  ASSUME StorageInv, Types, SignerInv, [Next]_vars
  PROVE  SignerInv'
<1>1. lookup \in [Request -> Lookup] /\ req \in [Request -> Req]
  BY DEF Types, AuthTypeOK, StorageInv
<1>2. ASSUME \A s \in Request : lookup'[s].key = lookup[s].key,
             \A s \in Request : req'[s].user = req[s].user
      PROVE  SignerInv'
  BY <1>2 DEF SignerInv
<1>3. ASSUME NEW r \in Request, req[r] \in Req, NEW stage, Go(r, stage)
      PROVE  \A s \in Request : req'[s].user = req[s].user
  BY <1>1, <1>3 DEF Go, Req
<1>4. ASSUME NEW r \in Request, req[r] \in Req, NEW status, NEW stage,
             Reply(r, status, stage)
      PROVE  \A s \in Request : req'[s].user = req[s].user
  BY <1>1, <1>4 DEF Reply, Req
<1>5. CASE Environment
  <2>1. req' = req
    BY <1>5 DEF Environment
  <2>2. CASE Tick({})
    <3>1. \A s \in Request : lookup[s] \in Lookup
      BY <1>1
    <3>2. \A s \in Request : lookup'[s].key = lookup[s].key
      BY <2>2, <3>1 DEF Tick, Lookup
    <3> QED
      BY <1>2, <2>1, <3>2
  <2>3. CASE \E k \in AccessKey : Revoke(k)
    BY <1>2, <2>1, <2>3 DEF Revoke
  <2> QED
    BY <1>5, <2>2, <2>3 DEF Environment
<1>6. ASSUME NEW r \in Request, Arrive(r) PROVE SignerInv'
  <2>1. req'[r].user = None
    <3>1. PICK a \in Sent, st \in NatOrNone, sg \in {"lookup", "done"} :
            req' = [req EXCEPT ![r] = Arrived(a, sg, st)]
      BY <1>6, ArriveCases
    <3> QED
      BY <1>1, <3>1 DEF Arrived, NoReq
  <2>2. \A s \in Request \ {r} : req'[s] = req[s]
    BY <1>1, <1>6 DEF Arrive
  <2>3. (\E k \in AccessKey : StartLookup(r, k)) \/ UNCHANGED authVars
    BY <1>6 DEF Arrive
  <2>4. \A s \in Request \ {r} : lookup'[s] = lookup[s]
    BY <1>1, <2>3 DEF StartLookup, authVars
  <2> QED
    BY <2>1, <2>2, <2>4 DEF SignerInv
<1>7. ASSUME NEW r \in Request, Resolving(r) PROVE SignerInv'
  <2>1. req' = req
    BY <1>7 DEF Resolving
  <2> QED
    BY <1>2, <1>7, <2>1, KeysStay DEF Resolving
<1>8. ASSUME NEW r \in Request,
             \/ Count(r) \/ Admit(r) \/ TurnAway(r) \/ Leaves(r) \/ Panic(r)
             \/ HeadBucket(r) \/ Core(r) \/ PutBucketClaim(r) \/ DeleteBucketClaim(r)
      PROVE  SignerInv'
  <2>1. lookup' = lookup
    BY <1>8 DEF Count, Admit, TurnAway, Leaves, Panic, HeadBucket, Core, PutBucketClaim,
                DeleteBucketClaim, authVars
  <2>2. (\E stage : Go(r, stage)) \/ (\E status, stage : Reply(r, status, stage))
    BY <1>8 DEF Count, Admit, TurnAway, Leaves, Panic, HeadBucket, Core, PutBucketClaim,
                DeleteBucketClaim, Answered
  <2> QED
    BY <1>1, <1>2, <1>3, <1>4, <2>1, <2>2
<1>9. ASSUME NEW r \in Request, Handle(r) PROVE SignerInv'
  <2> DEFINE h == req[r].handler
             c == req[r].call
  <2>1. lookup' = lookup
    BY <1>9 DEF Handle, authVars
  <2>2. CASE (\E stage : Go(r, stage)) \/ (\E status : Answered(r, status))
    BY <1>1, <1>2, <1>3, <1>4, <2>1, <2>2 DEF Answered
  <2>3. CASE req' = [req EXCEPT ![r] = [@ EXCEPT !.stage = "core",
                       !.place = Place(h, None, c.bucket, c.object)]]
    <3>1. \A s \in Request : req'[s].user = req[s].user
      BY <1>1, <2>3 DEF Req
    <3> QED
      BY <1>2, <2>1, <3>1
  <2>4. CASE GetUserID(r)
    <3>1. CASE Answered(r, 403)
      BY <2>2, <3>1
    <3>2. CASE ~Answered(r, 403)
      <4> DEFINE u == UserOf[lookup[r].key]
      <4>1. Granted(r) /\ req' = [req EXCEPT ![r] = [@ EXCEPT
              !.user = u, !.place = Place(h, u, c.bucket, c.object),
              !.stage = IF h = "PutBucket" THEN "head" ELSE "core"]]
        BY <2>4, <3>2 DEF GetUserID
      <4>2. lookup[r].key \in AccessKey
        BY <4>1 DEF Granted, At, Types
      <4>3. req'[r].user = UserOf[lookup[r].key]
        BY <1>1, <4>1 DEF Req
      <4>4. \A s \in Request \ {r} : req'[s] = req[s]
        BY <1>1, <4>1
      <4> QED
        BY <2>1, <4>2, <4>3, <4>4 DEF SignerInv
    <3> QED
      BY <3>1, <3>2
  <2> QED
    BY <1>9, <2>2, <2>3, <2>4 DEF Handle
<1>10. CASE UNCHANGED vars
  BY <1>2, <1>10 DEF vars, authVars
<1> QED
  BY <1>5, <1>6, <1>7, <1>8, <1>9, <1>10 DEF Next, RequestStep

\* Every request is at work for the owner of its key.
LEMMA SignersAreUsers == Spec => []SignerInv
<1>1. Init => SignerInv
  BY DEF Init, NoReq, SignerInv
<1>3. StorageInv /\ Types /\ SignerInv /\ [Next]_vars => SignerInv'
  BY SignerStep
<1> QED
  BY <1>1, <1>3, StorageIsKept, GatewayKeepsTypes, PTL DEF Spec

\* What a request finds, when it arrives after another one has been told that it wrote
\* it and nobody has removed it, is not reported as missing.
THEOREM StoredIsFound == Spec => []FindsWhatWasStored
<1>1. StorageInv /\ SignerInv => FindsWhatWasStored
  <2> SUFFICES ASSUME StorageInv, SignerInv, NEW r \in Request, NEW w \in Request,
                      In(r, "done"), w \in req[r].after, req[w].said = 200,
                      SameObject(r, w),
                      \/ req[w].handler \in Writes /\ req[r].handler \in Reads
                      \/ req[w].handler = "NewMultipartUpload" /\ req[r].handler \in Parts,
                      \A d \in Request \ {r, w} :
                        req[d].handler \in Removes => ~SameObject(d, r),
                      req[r].said = 404
               PROVE  FALSE
    BY DEF FindsWhatWasStored
  <2>1. /\ Stores(w) /\ Misses(r)
        /\ req[r].handler \in Minding /\ req[w].handler \in Minding
        /\ req[r].handler \in Reads \cup Parts
    BY DEF StorageInv, Minding
  <2>2. IsPlaced(req[r]) /\ IsPlaced(req[w])
    BY <2>1 DEF Misses, Stores
  <2>3. req[r].call \in Sent /\ req[w].call \in Sent
    BY AnsweredIsLate
  <2>4. /\ req[r].place = <<req[r].user, <<req[r].call.bucket, req[r].call.object>>>>
        /\ req[w].place = <<req[w].user, <<req[w].call.bucket, req[w].call.object>>>>
    BY <2>1, <2>2, <2>3, MindersPlaces
  <2>o. ASSUME NEW d \in Request, req[d].handler \in Minding, IsPlaced(req[d])
        PROVE  lookup[d].key \in AccessKey /\ req[d].user = UserOf[lookup[d].key]
    <3>1. req[d].user \in User
      BY <2>o, MindersArePrefixed DEF IsPlaced
    <3> QED
      BY <3>1, GatewayAssumption DEF SignerInv
  <2>5. req[w].place = req[r].place
    BY <2>1, <2>2, <2>4, <2>o DEF SameObject, SameUser
  <2>6. ASSUME NEW d \in Request \ {r}, NEW H, H \subseteq Removes,
               HasRemoved(d, req[r].place, H)
        PROVE  d = w
    <3>1. req[d].handler \in Minding /\ IsPlaced(req[d]) /\ req[d].place = req[r].place
          /\ req[d].stage \in Late
      BY <2>6 DEF HasRemoved, Removes, Minding, Deletes, Ends
    <3>2. req[d].call \in Sent
      <4>1. IsUnderWay(req[d])
        BY DEF StorageInv
      <4> QED
        BY <3>1, <4>1 DEF IsUnderWay, Late
    <3>3. req[d].place = <<req[d].user, <<req[d].call.bucket, req[d].call.object>>>>
      BY <3>1, <3>2, MindersPlaces
    <3>4. SameObject(d, r)
      BY <2>1, <2>2, <2>4, <2>o, <3>1, <3>3 DEF SameObject, SameUser
    <3> QED
      BY <2>6, <3>4 DEF HasRemoved
  <2>7. CASE req[w].handler \in Writes /\ req[r].handler \in Reads
    <3>1. PICK d \in Request \ {r} : HasRemoved(d, req[r].place, Deletes)
      BY <2>1, <2>5, <2>7 DEF Misses
    <3>2. d = w
      BY <2>6, <3>1 DEF Deletes, Removes
    <3> QED
      BY <2>7, <3>1, <3>2 DEF HasRemoved, Deletes, Writes
  <2>8. CASE req[w].handler = "NewMultipartUpload" /\ req[r].handler \in Parts
    <3>1. PICK d \in Request \ {r} : HasRemoved(d, req[r].place, Ends)
      BY <2>1, <2>5, <2>8 DEF Misses
    <3>2. d = w
      BY <2>6, <3>1 DEF Ends, Removes
    <3> QED
      BY <2>8, <3>1, <3>2 DEF HasRemoved, Ends
  <2> QED
    BY <2>7, <2>8
<1> QED
  BY <1>1, StorageIsKept, SignersAreUsers, PTL

-----------------------------------------------------------------------------
\* The bucket that a handler looks into is the user's, or the one that is named.
LEMMA PlacesBucket ==
  ASSUME NEW h, NEW u, NEW b, NEW o
  PROVE  Place(h, u, b, o)[1] = IF NeedsUser(h) THEN u ELSE b
<1>1. CASE NeedsUser(h)
  <2>1. \E path : Place(h, u, b, o) = <<u, path>>
    BY <1>1 DEF NeedsUser, Place
  <2> QED
    BY <1>1, <2>1
<1>2. CASE ~NeedsUser(h)
  <2>1. Place(h, u, b, o) = <<b, <<o>>>>
    BY <1>2 DEF NeedsUser, Place
  <2> QED
    BY <1>2, <2>1
<1> QED
  BY <1>1, <1>2

\* Nothing but the call on the multi-tenant layer changes objects and uploads.
LEMMA OnlyCoreChanges ==
  ASSUME [Next]_vars
  PROVE  (\E r \in Request : Core(r)) \/ UNCHANGED <<stored, uploads>>
<1>1. ASSUME NEW r \in Request, RequestStep(r), ~Core(r)
      PROVE  UNCHANGED <<stored, uploads>>
  BY <1>1 DEF RequestStep, Resolving, Count, Admit, TurnAway, Leaves, Handle, HeadBucket,
              PutBucketClaim, DeleteBucketClaim, storage
<1>2. ASSUME NEW r \in Request, Arrive(r) \/ Panic(r)
      PROVE  UNCHANGED <<stored, uploads>>
  BY <1>2 DEF Arrive, Panic, storage
<1>3. CASE Environment
  BY <1>3 DEF Environment, storage
<1>4. CASE UNCHANGED vars
  BY <1>4 DEF vars, storage
<1> QED
  BY <1>1, <1>2, <1>3, <1>4 DEF Next

\* What it changes is in the bucket of the request's place.
LEMMA CoreChanges ==
  ASSUME NEW r \in Request, Core(r),
         NEW p \in Differ(stored, stored') \cup Differ(uploads, uploads')
  PROVE  In(r, "core") /\ Granted(r) /\ p[1] = req[r].place[1]
<1> DEFINE q == req[r].place
           e == Effect(r)
           o == req[r].call.object
<1> HIDE DEF e, q, o
<1>1. /\ e.objects \subseteq stored \cup {q} /\ e.open \subseteq uploads \cup {q}
      /\ \A x \in stored \ e.objects : x = q \/ x = <<q[1], <<o>>>>
      /\ \A x \in uploads \ e.open : x = q
  BY EffectByMethod DEF e, q, o
<1>2. In(r, "core")
  BY DEF Core
<1>3. \/ UNCHANGED <<stored, uploads>>
      \/ Granted(r) /\ stored' = e.objects /\ uploads' = e.open
  BY DEF Core, e
<1>4. Granted(r) /\ stored' = e.objects /\ uploads' = e.open
  BY <1>3 DEF Differ
<1>5. p = q \/ p = <<q[1], <<o>>>>
  BY <1>1, <1>4 DEF Differ
<1>6. p[1] = q[1]
  BY <1>5
<1> QED
  BY <1>2, <1>4, <1>6 DEF q

\* Who changes anything works for the owner of a key that was good: a request at the
\* core has its place by its signer (SignerInv), and its grant by the auth client.
LEMMA OwnersStep ==
  ASSUME StorageInv, SignerInv, Types, RevokedIsRefused, [Next]_vars,
         NEW p \in Differ(stored, stored') \cup Differ(uploads, uploads')
  PROVE  \E r \in Request : MayChange(r, p[1])
<1>1. PICK r \in Request : Core(r)
  BY OnlyCoreChanges DEF Differ
<1>2. In(r, "core") /\ Granted(r) /\ p[1] = req[r].place[1]
  BY <1>1, CoreChanges
<1> DEFINE q == req[r]
           k == lookup[r].key
<1>3. IsPlaced(q) /\ None \notin User
  BY <1>2, GatewayAssumption DEF StorageInv, IsUnderWay, In
<1>4. q.user # None => q.user = UserOf[k]
  BY DEF SignerInv
<1>5. /\ revoked[k] # None => revoked[k] + Expiration >= lookup[r].since
      /\ k \in AccessKey
  BY <1>2 DEF RevokedIsRefused, Granted, Types, At
<1>6. /\ lookup[r].since \in Nat /\ Expiration \in Nat
      /\ revoked[k] # None => revoked[k] \in Nat
  BY <1>5, AuthClientAssumption DEF Types, AuthTypeOK, Lookup
<1>7. revoked[k] # None => lookup[r].since <= revoked[k] + Expiration
  BY <1>5, <1>6
<1> HIDE DEF q, k
<1>8. NeedsUser(q.handler) => q.user = UserOf[k]
  BY <1>3, <1>4 DEF IsPlaced
<1>9. q.place[1] = IF NeedsUser(q.handler) THEN q.user ELSE q.call.bucket
  BY <1>3, PlacesBucket DEF IsPlaced
<1>10. p[1] = IF NeedsUser(q.handler) THEN UserOf[k] ELSE q.call.bucket
  BY <1>2, <1>8, <1>9 DEF q
<1>11. MayChange(r, p[1])
  BY <1>2, <1>7, <1>10 DEF MayChange, q, k
<1> QED
  BY <1>11

\* Objects, buckets and uploads are changed by none but their owners, and not with keys
\* that were revoked before.
THEOREM OwnersChangeTheirs == Spec => OnlyOwnersChange
<1>2. StorageInv /\ SignerInv /\ Types /\ RevokedIsRefused /\ [Next]_vars =>
        [\A p \in Differ(stored, stored') \cup Differ(uploads, uploads') :
           \E r \in Request : MayChange(r, p[1])]_vars
  BY OwnersStep
<1> QED
  BY <1>2, StorageIsKept, SignersAreUsers, GatewayKeepsAuthClient, GatewayKeepsTypes,
     RevokedKeysAreRefused, PTL DEF Spec, OnlyOwnersChange

\* The variables keep their types.
THEOREM GatewayTypes == Spec => []GatewayTypeOK
<1>1. StorageInv /\ AuthTypeOK /\ SlotsInv => GatewayTypeOK
  BY DEF StorageInv, SlotsInv, GatewayTypeOK, Req, UserOrNone
<1> QED
  BY <1>1, GatewaySlots, GatewayKeepsAuthClient, AuthTypes, StorageIsKept, PTL
-----------------------------------------------------------------------------
(* The limiter in the gateway.                                             *)

\* A request whose lookup is over, or that has none.
Rested(r) == At(r, "done") \/ At(r, "idle")

\* Who is counted is on its way through the limiter, under the key of its grant, and
\* has a place while its handler is at work.
SlotInv ==
  \A r \in Request :
    /\ slot[r] # None <=> req[r].stage \in Within /\ IsLimited(req[r].handler)
    /\ slot[r] # None => slot[r].key = LimitKeyOf(r) /\ Rested(r)
    /\ slot[r] # None /\ req[r].stage \in {"handler", "core"} => slot[r].phase = "inside"
    /\ req[r].stage \in {"limiter", "handler"} => IsLimited(req[r].handler)
    /\ req[r].stage \in {"head", "post", "unclaim"} => ~IsLimited(req[r].handler)

\* A lookup that is over stays as it is, whatever the others do.
LEMMA RestedStay ==
  ASSUME Types, [Next]_vars, NEW r \in Request, Rested(r), ~In(r, "idle"), ~In(r, "lookup")
  PROVE  lookup'[r].stage = lookup[r].stage /\ lookup'[r].got = lookup[r].got
         /\ lookup'[r].key = lookup[r].key
<1>1. lookup \in [Request -> Lookup] /\ lookup[r] \in Lookup
  BY DEF Types, AuthTypeOK
<1>2. ~At(r, "wait")
  BY DEF Rested, At
<1>3. ASSUME NEW s \in Request, s # r, NEW result, NEW cached, Finish(s, result, cached)
      PROVE  lookup'[r] = lookup[r]
  BY <1>2, <1>3 DEF Finish
<1>4. ASSUME NEW s \in Request, s # r,
             \/ ResolveStep(s) \/ Cancel(s)
             \/ \E answer \in Answer(lookup[s].key) : Ask(s, answer)
      PROVE  lookup'[r] = lookup[r]
  <2>1. CASE Hit(s)
    BY <1>1, <1>4, <2>1 DEF Hit
  <2>2. CASE Miss(s) \/ Resume(s)
    BY <1>1, <1>4, <2>2 DEF Miss, Resume
  <2>3. CASE Retry(s)
    BY <1>1, <1>3, <1>4, <2>3 DEF Retry, BeginWait
  <2>4. CASE GiveUp(s) \/ Settle(s) \/ Leave(s)
    BY <1>3, <1>4, <2>4 DEF GiveUp, Settle, Leave
  <2>5. CASE Cancel(s)
    BY <2>5 DEF Cancel
  <2>6. CASE \E answer \in Answer(lookup[s].key) : Ask(s, answer)
    BY <1>1, <1>4, <2>6 DEF Ask
  <2> QED
    BY <1>4, <2>1, <2>2, <2>3, <2>4, <2>5, <2>6 DEF ResolveStep
<1>5. CASE Environment
  <2>1. CASE Tick({})
    BY <1>1, <2>1 DEF Tick, Lookup
  <2>2. CASE \E k \in AccessKey : Revoke(k)
    BY <2>2 DEF Revoke
  <2> QED
    BY <1>5, <2>1, <2>2 DEF Environment
<1>6. ASSUME NEW s \in Request, Arrive(s) PROVE lookup'[r] = lookup[r]
  <2>1. s # r
    BY <1>6 DEF Arrive
  <2>2. (\E k \in AccessKey : StartLookup(s, k)) \/ UNCHANGED authVars
    BY <1>6 DEF Arrive
  <2> QED
    BY <1>1, <2>1, <2>2 DEF StartLookup, authVars
<1>7. ASSUME NEW s \in Request, Resolving(s) PROVE lookup'[r] = lookup[r]
  BY <1>4, <1>7 DEF Resolving
<1>8. ASSUME NEW s \in Request,
             \/ Count(s) \/ Admit(s) \/ TurnAway(s) \/ Leaves(s) \/ Panic(s)
             \/ Handle(s) \/ HeadBucket(s) \/ Core(s)
             \/ PutBucketClaim(s) \/ DeleteBucketClaim(s)
      PROVE  lookup' = lookup
  BY <1>8 DEF Count, Admit, TurnAway, Leaves, Panic, Handle, HeadBucket, Core,
              PutBucketClaim, DeleteBucketClaim, authVars
<1>9. CASE UNCHANGED vars
  BY <1>9 DEF vars, authVars
<1> QED
  BY <1>5, <1>6, <1>7, <1>8, <1>9 DEF Next, RequestStep

\* What r's own handlers do to it: it keeps its handler, stays inside the limiter if it
\* was, and is not told to slow down.
Onward(r, x) ==
  LET q == req[r]
  IN  /\ x.handler = q.handler
      /\ IsLimited(q.handler) => /\ q.stage \in {"handler", "core"}
                                 /\ x.stage \in {"core", "leaving"}
      /\ x.stage \notin {"limiter", "handler"}
      /\ x.stage \in {"head", "post", "unclaim"} => ~IsLimited(q.handler)
      /\ x.said = 429 => q.said = 429

LEMMA HandlersGoOnward ==
  ASSUME StorageInv, SlotInv, NEW r \in Request,
         \/ Handle(r) \/ HeadBucket(r) \/ Core(r) \/ PutBucketClaim(r) \/ DeleteBucketClaim(r)
  PROVE  (\A s \in Request \ {r} : req'[s] = req[s]) /\ Onward(r, req'[r])
<1> DEFINE q == req[r]
           h == q.handler
           c == q.call
<1>1. req \in [Request -> Req] /\ q \in Req /\ IsUnderWay(q)
  BY DEF StorageInv
<1>2. ~IsLimited("HeadBucket") /\ ~IsLimited("PutBucket") /\ ~IsLimited("DeleteBucket")
  BY DEF IsLimited, Limited
<1>3. None # 429
  BY AuthClientAssumption
\* The three ways in which it goes on.
<1>4. ASSUME NEW stage, Go(r, stage),
             ~IsLimited(h), stage \in {"head", "core", "done"}
      PROVE  (\A s \in Request \ {r} : req'[s] = req[s]) /\ Onward(r, req'[r])
  <2>1. req'[r] = [q EXCEPT !.stage = stage]
    BY <1>1, <1>4 DEF Go
  <2>2. \A s \in Request \ {r} : req'[s] = req[s]
    BY <1>1, <1>4 DEF Go
  <2> QED
    BY <1>1, <1>4, <2>1, <2>2 DEF Onward, Req
<1>5. ASSUME NEW status, NEW stage, Reply(r, status, stage), status # 429,
             IsLimited(h) => q.stage \in {"handler", "core"} /\ stage = "leaving",
             stage \in {"leaving", "done", "post", "unclaim"},
             stage \in {"post", "unclaim"} => ~IsLimited(h)
      PROVE  (\A s \in Request \ {r} : req'[s] = req[s]) /\ Onward(r, req'[r])
  <2>1. req'[r] = [q EXCEPT !.said = Said(r, status), !.stage = stage]
    BY <1>1, <1>5 DEF Reply
  <2>2. \A s \in Request \ {r} : req'[s] = req[s]
    BY <1>1, <1>5 DEF Reply
  <2>3. Said(r, status) = 429 => q.said = 429
    BY <1>5 DEF Said
  <2>4. /\ req'[r].handler = h /\ req'[r].stage = stage /\ req'[r].said = Said(r, status)
    BY <1>1, <2>1 DEF Req
  <2> QED
    BY <1>5, <2>2, <2>3, <2>4 DEF Onward
<1>6. ASSUME NEW u, NEW p, NEW stage \in {"head", "core"},
             IsLimited(h) => q.stage = "handler" /\ stage = "core",
             req' = [req EXCEPT ![r] = [@ EXCEPT !.user = u, !.place = p, !.stage = stage]]
      PROVE  (\A s \in Request \ {r} : req'[s] = req[s]) /\ Onward(r, req'[r])
  <2>1. req'[r] = [q EXCEPT !.user = u, !.place = p, !.stage = stage]
    BY <1>1, <1>6
  <2>2. \A s \in Request \ {r} : req'[s] = req[s]
    BY <1>1, <1>6
  <2>3. /\ req'[r].handler = h /\ req'[r].stage = stage /\ req'[r].said = q.said
    BY <1>1, <2>1 DEF Req
  <2> QED
    BY <1>6, <2>2, <2>3 DEF Onward
\* The handlers.
<1>7. ASSUME Handle(r)
      PROVE  (\A s \in Request \ {r} : req'[s] = req[s]) /\ Onward(r, req'[r])
  <2>1. IsLimited(h) => q.stage = "handler"
    BY <1>7 DEF Handle, In
  <2>2. ASSUME NEW status \in {200, 403, 501}, Answered(r, status)
        PROVE  (\A s \in Request \ {r} : req'[s] = req[s]) /\ Onward(r, req'[r])
    <3>1. Reply(r, status, IF IsLimited(h) THEN "leaving" ELSE "done")
      BY <2>2 DEF Answered
    <3>2. status # 429
      BY <2>2
    <3>3. CASE IsLimited(h)
      BY <1>5, <2>1, <3>1, <3>2, <3>3
    <3>4. CASE ~IsLimited(h)
      BY <1>5, <3>1, <3>2, <3>4
    <3> QED
      BY <3>3, <3>4
  <2>3. CASE GetUserID(r)
    <3> DEFINE u == UserOf[lookup[r].key]
               stage == IF h = "PutBucket" THEN "head" ELSE "core"
               p == Place(h, u, c.bucket, c.object)
    <3>1. CASE Answered(r, 403)
      BY <2>2, <3>1
    <3>2. CASE req' = [req EXCEPT ![r] = [@ EXCEPT !.user = u, !.place = p,
                                                  !.stage = stage]]
      <4>1. stage \in {"head", "core"} /\ (IsLimited(h) => stage = "core")
        BY <1>2
      <4> HIDE DEF u, p, stage
      <4> QED
        BY <1>6, <2>1, <3>2, <4>1
    <3> QED
      BY <2>3, <3>1, <3>2 DEF GetUserID
  <2>4. CASE Go(r, "head") /\ h = "HeadBucket"
    BY <1>2, <1>4, <2>4
  <2>5. CASE Answered(r, 200) \/ Answered(r, 501)
    BY <2>2, <2>5
  <2>6. CASE req' = [req EXCEPT ![r] = [@ EXCEPT !.stage = "core",
                       !.place = Place(h, None, c.bucket, c.object)]]
    <3> DEFINE p == Place(h, None, c.bucket, c.object)
    <3>1. req'[r] = [q EXCEPT !.stage = "core", !.place = p]
      BY <1>1, <2>6
    <3>2. \A s \in Request \ {r} : req'[s] = req[s]
      BY <1>1, <2>6
    <3>3. /\ req'[r].handler = h /\ req'[r].stage = "core" /\ req'[r].said = q.said
      BY <1>1, <3>1 DEF Req
    <3> QED
      BY <2>1, <3>2, <3>3 DEF Onward
  <2> QED
    BY <1>7, <2>3, <2>4, <2>5, <2>6 DEF Handle
<1>8. ASSUME HeadBucket(r)
      PROVE  (\A s \in Request \ {r} : req'[s] = req[s]) /\ Onward(r, req'[r])
  <2>1. In(r, "head") /\ ~IsLimited(h)
    BY <1>8 DEF HeadBucket, SlotInv, In
  <2>2. \/ Go(r, "core")
        \/ Answered(r, 404) \/ Answered(r, 409) \/ Answered(r, 200) \/ Answered(r, 500)
    BY <1>8 DEF HeadBucket
  <2>3. ASSUME NEW status \in {404, 409, 200, 500}, Reply(r, status, "done")
        PROVE  (\A s \in Request \ {r} : req'[s] = req[s]) /\ Onward(r, req'[r])
    BY <1>5, <2>1, <2>3
  <2> QED
    BY <1>4, <2>1, <2>2, <2>3 DEF Answered
<1>9. ASSUME PutBucketClaim(r) \/ DeleteBucketClaim(r)
      PROVE  (\A s \in Request \ {r} : req'[s] = req[s]) /\ Onward(r, req'[r])
  <2>1. (In(r, "post") \/ In(r, "unclaim")) /\ ~IsLimited(h)
    BY <1>9 DEF PutBucketClaim, DeleteBucketClaim, SlotInv, In
  <2>2. Go(r, "done") \/ Answered(r, 409) \/ Answered(r, 500)
    BY <1>9 DEF PutBucketClaim, DeleteBucketClaim
  <2>3. ASSUME NEW status \in {409, 500}, Reply(r, status, "done")
        PROVE  (\A s \in Request \ {r} : req'[s] = req[s]) /\ Onward(r, req'[r])
    BY <1>5, <2>1, <2>3
  <2> QED
    BY <1>4, <2>1, <2>2, <2>3 DEF Answered
<1>10. ASSUME Core(r)
       PROVE  (\A s \in Request \ {r} : req'[s] = req[s]) /\ Onward(r, req'[r])
  <2> DEFINE e == Effect(r)
             After(status) ==
               CASE h = "PutBucket" -> "post"
                 [] h = "DeleteBucket" /\ status < 300 -> "unclaim"
                 [] OTHER -> IF IsLimited(h) THEN "leaving" ELSE "done"
  <2>1. In(r, "core") /\ q.stage = "core"
    BY <1>10 DEF Core, In
  <2>2. e.status \in {200, 404}
    BY EffectByMethod
  <2>3. NoProject(r) \in {501, 401}
    BY DEF NoProject
  <2> HIDE DEF e
  <2>4. ASSUME NEW status \in {200, 404, 500, 501, 401}
        PROVE  /\ After(status) \in {"leaving", "done", "post", "unclaim"}
               /\ IsLimited(h) => After(status) = "leaving"
    BY <1>2
  <2> HIDE DEF After
  <2>5. PICK status \in {200, 404, 500, 501, 401} : Reply(r, status, After(status))
    BY <1>10, <2>2, <2>3 DEF Core, e, After
  <2>6. status # 429
    OBVIOUS
  <2>7. CASE IsLimited(h)
    BY <1>5, <2>1, <2>4, <2>5, <2>6, <2>7
  <2>8. CASE ~IsLimited(h)
    BY <1>5, <2>4, <2>5, <2>6, <2>8
  <2> QED
    BY <2>7, <2>8
<1> QED
  BY <1>7, <1>8, <1>9, <1>10

\* One request moves in the gateway and in the limiter alike.
LEMMA SlotStep ==
  ASSUME StorageInv, SlotsInv, SlotInv, Types, [Next]_vars
  PROVE  SlotInv'
<1>t. /\ req \in [Request -> Req] /\ slot \in [Request -> L!Slot \cup {None}]
      /\ None \notin L!Slot
  BY GatewayAssumption DEF StorageInv, SlotsInv, L!LimiterTypeOK, L!LimiterAssumption
\* Who was counted keeps its key.
<1>k. ASSUME NEW r \in Request, slot[r] # None
      PROVE  LimitKeyOf(r)' = slot[r].key /\ Rested(r)'
  <2>1. Rested(r) /\ slot[r].key = LimitKeyOf(r) /\ req[r].stage \in Within
    BY <1>k DEF SlotInv
  <2>2. ~In(r, "idle") /\ ~In(r, "lookup")
    BY <2>1 DEF In, Within
  <2>3. lookup'[r].stage = lookup[r].stage /\ lookup'[r].got = lookup[r].got
        /\ lookup'[r].key = lookup[r].key
    BY <2>1, <2>2, RestedStay
  <2> QED
    BY <2>1, <2>3 DEF Rested, At, LimitKeyOf, Granted
\* Who does not move is as it was.
<1>q. ASSUME NEW r \in Request, req'[r] = req[r], slot'[r] = slot[r]
      PROVE  /\ slot'[r] # None <=> req'[r].stage \in Within /\ IsLimited(req'[r].handler)
             /\ slot'[r] # None => slot'[r].key = LimitKeyOf(r)' /\ Rested(r)'
             /\ slot'[r] # None /\ req'[r].stage \in {"handler", "core"} =>
                  slot'[r].phase = "inside"
             /\ req'[r].stage \in {"limiter", "handler"} => IsLimited(req'[r].handler)
             /\ req'[r].stage \in {"head", "post", "unclaim"} => ~IsLimited(req'[r].handler)
  BY <1>k, <1>q DEF SlotInv
<1>m. ASSUME NEW r \in Request, \A s \in Request \ {r} : req'[s] = req[s] /\ slot'[s] = slot[s],
             slot'[r] # None <=> req'[r].stage \in Within /\ IsLimited(req'[r].handler),
             slot'[r] # None => slot'[r].key = LimitKeyOf(r)' /\ Rested(r)',
             slot'[r] # None /\ req'[r].stage \in {"handler", "core"} =>
               slot'[r].phase = "inside",
             req'[r].stage \in {"limiter", "handler"} => IsLimited(req'[r].handler),
             req'[r].stage \in {"head", "post", "unclaim"} => ~IsLimited(req'[r].handler)
      PROVE  SlotInv'
  BY <1>m, <1>q DEF SlotInv
<1>1. CASE UNCHANGED <<req, slot>>
  BY <1>1, <1>q DEF SlotInv
<1>2. CASE Environment \/ UNCHANGED vars
  BY <1>1, <1>2 DEF Environment, vars, limiterVars
<1>3. ASSUME NEW r \in Request, Resolving(r) PROVE SlotInv'
  BY <1>1, <1>3 DEF Resolving, limiterVars
<1>4. ASSUME NEW r \in Request, Arrive(r) PROVE SlotInv'
  <2>1. PICK a \in Sent, st \in NatOrNone, sg \in {"lookup", "done"} :
          req' = [req EXCEPT ![r] = Arrived(a, sg, st)]
    BY <1>4, ArriveCases
  <2>2. req'[r].stage = sg /\ \A s \in Request \ {r} : req'[s] = req[s]
    BY <1>t, <2>1 DEF Arrived, NoReq
  <2>3. req[r].stage = "idle" /\ slot' = slot
    BY <1>4 DEF Arrive, In, limiterVars
  <2>4. slot'[r] = None
    BY <2>3 DEF SlotInv, Within
  <2> QED
    BY <1>m, <2>2, <2>3, <2>4 DEF Within
<1>5. ASSUME NEW r \in Request, Count(r) PROVE SlotInv'
  <2>1. /\ req'[r] = [req[r] EXCEPT !.stage = "limiter"]
        /\ \A s \in Request \ {r} : req'[s] = req[s]
    BY <1>t, <1>5 DEF Count, Go
  <2>2. req'[r].stage = "limiter" /\ req'[r].handler = req[r].handler
    BY <1>t, <2>1 DEF Req
  <2>3. /\ slot'[r] = [phase |-> "counted", key |-> LimitKeyOf(r)]
        /\ \A s \in Request \ {r} : slot'[s] = slot[s]
    BY <1>t, <1>5 DEF Count, L!Increment
  <2>4. slot'[r] # None /\ slot'[r].key = LimitKeyOf(r)
    <3>1. LimitKeyOf(r) \in LimitKey
      BY CountsUnderKey
    <3> QED
      BY <1>t, <2>3, <3>1 DEF L!Slot
  <2>5. IsLimited(req[r].handler) /\ Rested(r) /\ lookup' = lookup
    BY <1>5 DEF Count, Authenticated, Rested, authVars
  <2>6. Rested(r)' /\ LimitKeyOf(r)' = LimitKeyOf(r)
    BY <2>5 DEF Rested, At, LimitKeyOf, Granted
  <2> QED
    BY <1>m, <2>1, <2>2, <2>3, <2>4, <2>5, <2>6 DEF Within
<1>6. ASSUME NEW r \in Request, Admit(r) PROVE SlotInv'
  <2>1. slot[r] \in L!Slot /\ req[r].stage = "limiter" /\ slot[r] # None
    BY <1>t, <1>6 DEF Admit, L!Admit, L!In, In
  <2>2. slot'[r] = [slot[r] EXCEPT !.phase = "inside"]
        /\ \A s \in Request \ {r} : slot'[s] = slot[s]
    BY <1>t, <1>6 DEF Admit, L!Admit, L!MoveTo
  <2>3. slot'[r] \in L!Slot /\ slot'[r].key = slot[r].key /\ slot'[r].phase = "inside"
    BY <2>1, <2>2 DEF L!Slot
  <2>4. req'[r] = [req[r] EXCEPT !.stage = "handler"]
        /\ \A s \in Request \ {r} : req'[s] = req[s]
    BY <1>t, <1>6 DEF Admit, Go
  <2>5. req'[r].stage = "handler" /\ req'[r].handler = req[r].handler
    BY <1>t, <2>4 DEF Req
  <2>6. IsLimited(req[r].handler)
    BY <2>1 DEF SlotInv
  <2> QED
    BY <1>k, <1>m, <1>t, <2>1, <2>2, <2>3, <2>4, <2>5, <2>6 DEF Within
<1>7. ASSUME NEW r \in Request, TurnAway(r) PROVE SlotInv'
  <2>1. slot[r] \in L!Slot /\ req[r].stage = "limiter" /\ slot[r] # None
    BY <1>t, <1>7 DEF TurnAway, L!Refuse, L!In, In
  <2>2. slot'[r] = [slot[r] EXCEPT !.phase = "refused"]
        /\ \A s \in Request \ {r} : slot'[s] = slot[s]
    BY <1>t, <1>7 DEF TurnAway, L!Refuse, L!MoveTo
  <2>3. slot'[r] \in L!Slot /\ slot'[r].key = slot[r].key
    BY <2>1, <2>2 DEF L!Slot
  <2>4. req'[r] = [req[r] EXCEPT !.said = Said(r, 429), !.stage = "leaving"]
    BY <1>t, <1>7 DEF TurnAway, Reply
  <2>5. req'[r].stage = "leaving" /\ req'[r].handler = req[r].handler
    BY <1>t, <2>4 DEF Req
  <2>6. IsLimited(req[r].handler)
    BY <2>1 DEF SlotInv
  <2>7. slot'[r] # None /\ LimitKeyOf(r)' = slot'[r].key /\ Rested(r)'
    BY <1>k, <1>t, <2>1, <2>3
  <2>8. \A s \in Request \ {r} : req'[s] = req[s] /\ slot'[s] = slot[s]
    BY <1>t, <1>7, <2>2 DEF TurnAway, Reply
  <2> QED
    BY <1>m, <2>5, <2>6, <2>7, <2>8 DEF Within
<1>8. ASSUME NEW r \in Request, Leaves(r) PROVE SlotInv'
  <2>1. slot'[r] = None /\ \A s \in Request \ {r} : slot'[s] = slot[s]
    BY <1>t, <1>8 DEF Leaves, L!Decrement, L!Leave
  <2>2. req'[r].stage = "done" /\ \A s \in Request \ {r} : req'[s] = req[s]
    BY <1>t, <1>8 DEF Leaves, Go, Req
  <2> QED
    BY <1>m, <2>1, <2>2 DEF Within
<1>9. ASSUME NEW r \in Request, Panic(r) PROVE SlotInv'
  <2>1. PICK status \in {500, NoAnswer} : Reply(r, status, "done")
    BY <1>9 DEF Panic
  <2>2. req'[r].stage = "done" /\ \A s \in Request \ {r} : req'[s] = req[s]
    BY <1>t, <2>1 DEF Reply, Req
  <2>3. slot'[r] = None /\ \A s \in Request \ {r} : slot'[s] = slot[s]
    <3>1. CASE IsLimited(req[r].handler)
      BY <1>t, <1>9, <3>1 DEF Panic, L!Panic, L!Leave
    <3>2. CASE ~IsLimited(req[r].handler)
      <4>1. slot[r] = None
        BY <3>2 DEF SlotInv
      <4> QED
        BY <1>9, <3>2, <4>1 DEF Panic, limiterVars
    <3> QED
      BY <3>1, <3>2
  <2> QED
    BY <1>m, <2>2, <2>3 DEF Within
<1>10. ASSUME NEW r \in Request,
              \/ Handle(r) \/ HeadBucket(r) \/ Core(r)
              \/ PutBucketClaim(r) \/ DeleteBucketClaim(r)
       PROVE  SlotInv'
  <2>1. (\A s \in Request \ {r} : req'[s] = req[s]) /\ Onward(r, req'[r])
    BY <1>10, HandlersGoOnward
  <2>2. slot' = slot
    BY <1>10 DEF Handle, HeadBucket, Core, PutBucketClaim, DeleteBucketClaim, limiterVars
  <2>3. CASE IsLimited(req[r].handler)
    <3>1. /\ req'[r].handler = req[r].handler /\ req[r].stage \in {"handler", "core"}
          /\ req'[r].stage \in {"core", "leaving"}
      BY <2>1, <2>3 DEF Onward
    <3>2. slot[r] # None /\ slot[r].phase = "inside"
      BY <2>3, <3>1 DEF SlotInv, Within
    <3> QED
      BY <1>k, <1>m, <2>1, <2>2, <2>3, <3>1, <3>2 DEF Within
  <2>4. CASE ~IsLimited(req[r].handler)
    <3>1. req'[r].handler = req[r].handler /\ req'[r].stage \notin {"limiter", "handler"}
      BY <2>1 DEF Onward
    <3>2. slot[r] = None
      BY <2>4 DEF SlotInv
    <3> QED
      BY <1>m, <2>1, <2>2, <2>4, <3>1, <3>2 DEF Within
  <2> QED
    BY <2>3, <2>4
<1> QED
  BY <1>2, <1>3, <1>4, <1>5, <1>6, <1>7, <1>8, <1>9, <1>10 DEF Next, RequestStep

LEMMA GatewaySlotsFit == Spec => []SlotInv
<1>1. Init => SlotInv
  BY DEF Init, NoReq, SlotInv, L!LimiterInit, Within
<1>2. StorageInv /\ SlotsInv /\ SlotInv /\ Types /\ [Next]_vars => SlotInv'
  BY SlotStep
<1> QED
  BY <1>1, <1>2, StorageIsKept, GatewaySlots, GatewayKeepsTypes, PTL DEF Spec

\* What the gateway sees of the limiter is what the limiter counts.
LEMMA LimitedAreCounted ==
  ASSUME SlotInv, NEW k \in LimitKey
  PROVE  /\ UnderLimit(k, Within) = L!Counted(k)
         /\ UnderLimit(k, {"handler", "core"}) \subseteq L!Inside(k)
<1>1. UnderLimit(k, Within) = L!Counted(k)
  BY DEF SlotInv, UnderLimit, L!Counted
<1>2. UnderLimit(k, {"handler", "core"}) \subseteq L!Inside(k)
  BY DEF SlotInv, UnderLimit, L!Counted, L!Inside, Within
<1> QED
  BY <1>1, <1>2

\* No more than Allowed handlers of uploads and downloads are at work for one key.
THEOREM HandlersStayLimited == Spec => []HandlersAreLimited
<1>1. SlotInv /\ SlotsInv => HandlersAreLimited
  <2> SUFFICES ASSUME SlotInv, SlotsInv, NEW k \in LimitKey
               PROVE  Cardinality(UnderLimit(k, {"handler", "core"})) <= Allowed
    BY DEF HandlersAreLimited
  <2>1. IsFiniteSet(L!Inside(k))
    <3>1. IsFiniteSet(Request) /\ L!Inside(k) \subseteq Request
      BY GatewayAssumption
         DEF L!LimiterAssumption, L!Inside, L!Counted, L!IsFiniteSet, IsFiniteSet
    <3> QED
      BY <3>1, FS_Subset
  <2>2. Cardinality(L!Inside(k)) <= Allowed
    BY DEF SlotsInv, L!AtMostAllowed, L!Cardinality, Cardinality, L!IsFiniteSet, IsFiniteSet
  <2>3. /\ IsFiniteSet(UnderLimit(k, {"handler", "core"}))
        /\ Cardinality(UnderLimit(k, {"handler", "core"})) <= Cardinality(L!Inside(k))
    BY <2>1, LimitedAreCounted, FS_Subset
  <2>4. /\ Cardinality(UnderLimit(k, {"handler", "core"})) \in Nat
        /\ Cardinality(L!Inside(k)) \in Nat /\ Allowed \in Nat
    BY <2>1, <2>3, FS_CardinalityType, GatewayAssumption DEF L!LimiterAssumption
  <2> QED
    BY <2>2, <2>3, <2>4
<1> QED
  BY <1>1, GatewaySlots, GatewaySlotsFit, PTL

\* Nobody but the limiter answers 429.
LEMMA OnlyLimiterTurnsAway ==
  ASSUME StorageInv, SlotInv, [Next]_vars, NEW r \in Request, req[r].said # 429,
         req'[r].said = 429
  PROVE  TurnAway(r)
<1>t. req \in [Request -> Req] /\ None # 429
  BY AuthClientAssumption DEF StorageInv
<1>1. ASSUME NEW s \in Request, NEW stage, Go(s, stage) PROVE FALSE
  BY <1>t, <1>1 DEF Go, Req
<1>2. ASSUME NEW s \in Request, NEW stage, NEW status, Reply(s, status, stage), status # 429
      PROVE  FALSE
  <2>1. r # s => req'[r] = req[r]
    BY <1>t, <1>2 DEF Reply
  <2>2. r = s => req'[r].said = Said(s, status)
    BY <1>t, <1>2 DEF Reply, Req
  <2> QED
    BY <1>2, <2>1, <2>2 DEF Said
<1>3. CASE req' = req
  BY <1>3
<1>4. ASSUME NEW s \in Request, Arrive(s) PROVE FALSE
  <2>1. PICK a \in Sent, st \in NatOrNone, sg \in {"lookup", "done"} :
          /\ req' = [req EXCEPT ![s] = Arrived(a, sg, st)] /\ st # 429
    BY <1>4, ArriveCases
  <2>2. Arrived(a, sg, st).said = st
    BY DEF Arrived, NoReq
  <2> QED
    BY <1>t, <2>1, <2>2
<1>5. ASSUME NEW s \in Request, Resolving(s) PROVE FALSE
  BY <1>3, <1>5 DEF Resolving
<1>6. ASSUME NEW s \in Request, Count(s) \/ Admit(s) \/ Leaves(s) PROVE FALSE
  BY <1>1, <1>6 DEF Count, Admit, Leaves
<1>7. ASSUME NEW s \in Request, Panic(s) PROVE FALSE
  BY <1>2, <1>7 DEF Panic, NoAnswer
<1>8. ASSUME NEW s \in Request,
             \/ Handle(s) \/ HeadBucket(s) \/ Core(s)
             \/ PutBucketClaim(s) \/ DeleteBucketClaim(s)
      PROVE  FALSE
  <2>1. (\A d \in Request \ {s} : req'[d] = req[d]) /\ Onward(s, req'[s])
    BY <1>8, HandlersGoOnward
  <2> QED
    BY <2>1 DEF Onward
<1>9. ASSUME NEW s \in Request, TurnAway(s) PROVE s = r
  BY <1>t, <1>9 DEF TurnAway, Reply
<1>10. CASE Environment \/ UNCHANGED vars
  BY <1>3, <1>10 DEF Environment, vars
<1> QED
  BY <1>4, <1>5, <1>6, <1>7, <1>8, <1>9, <1>10 DEF Next, RequestStep

\* Who is turned away was in a crowd.
THEOREM TurnedAwayInCrowds == Spec => TurnedAwayWhenCrowded
<1>1. ASSUME StorageInv, SlotsInv, SlotInv, Types, [Next]_vars, NEW r \in Request,
             req[r].said # 429, req'[r].said = 429
      PROVE  LET k == LimitKeyOf(r)
             IN  Cardinality(UnderLimit(k, Within) \ {r}) + leaked[k] >= Allowed
  <2> DEFINE k == LimitKeyOf(r)
  <2>1. TurnAway(r)
    BY <1>1, OnlyLimiterTurnsAway
  <2>2. slot[r] # None /\ limits[slot[r].key] > Allowed
    BY <2>1 DEF TurnAway, L!Refuse, L!In
  <2>3. slot[r].key = k
    BY <1>1, <2>2 DEF SlotInv
  <2>4. k \in LimitKey
    BY <1>1, CountsUnderKey
  <2> HIDE DEF k
  <2>5. UnderLimit(k, Within) = L!Counted(k)
    BY <1>1, <2>4, LimitedAreCounted
  <2>6. limits[k] = Cardinality(L!Counted(k)) + leaked[k]
    BY <1>1, <2>4 DEF SlotsInv, L!SlotsAccounted, L!Cardinality, Cardinality, L!IsFiniteSet,
                      IsFiniteSet
  <2>7. r \in L!Counted(k)
    BY <2>2, <2>3 DEF L!Counted
  <2>8. IsFiniteSet(L!Counted(k))
    <3>1. IsFiniteSet(Request) /\ L!Counted(k) \subseteq Request
      BY GatewayAssumption DEF L!LimiterAssumption, L!Counted, L!IsFiniteSet, IsFiniteSet
    <3> QED
      BY <3>1, FS_Subset
  <2>9. Cardinality(L!Counted(k) \ {r}) = Cardinality(L!Counted(k)) - 1
    BY <2>7, <2>8, FS_RemoveElement
  <2>10. /\ Cardinality(L!Counted(k)) \in Nat /\ leaked[k] \in Nat /\ Allowed \in Nat
    BY <1>1, <2>4, <2>8, FS_CardinalityType, GatewayAssumption
       DEF L!LimiterAssumption, SlotsInv, L!LimiterTypeOK
  <2>11. Cardinality(UnderLimit(k, Within) \ {r}) + leaked[k] >= Allowed
    BY <2>2, <2>3, <2>5, <2>6, <2>9, <2>10
  <2> QED
    BY <2>11 DEF k
<1> DEFINE Crowded ==
      \A r \in Request :
        req[r].said # 429 /\ req'[r].said = 429 =>
          LET k == LimitKeyOf(r)
          IN  Cardinality(UnderLimit(k, Within) \ {r}) + leaked[k] >= Allowed
<1>2. StorageInv /\ SlotsInv /\ SlotInv /\ Types /\ [Next]_vars => [Crowded]_vars
  BY <1>1
<1> QED
  BY <1>2, StorageIsKept, GatewaySlots, GatewaySlotsFit, GatewayKeepsTypes, PTL
     DEF Spec, TurnedAwayWhenCrowded
-----------------------------------------------------------------------------
(* The routes, part by part.  A route without query and headers is for     *)
(* what the ones before it leave.                                          *)

IsBare(t) == t.query = {} /\ t.headers = {}

\* The routes as a set.
Registered ==
  {ObjectRoutes[i] : i \in 1..21} \cup {BucketReads[i] : i \in 1..22}
  \cup {BucketLists[i] : i \in 1..5} \cup {BucketWrites[i] : i \in 1..18}
  \cup {RootRoutes[i] : i \in 1..3}

\* A function on the first numbers is a sequence.
LEMMA FunctionIsSequence ==
  ASSUME NEW S, NEW n \in Nat, NEW f \in [1..n -> S]
  PROVE  f \in Seq(S)
BY SeqDef

\* The routes of objects.
LEMMA ObjectRoutesAre ==
  /\ ObjectRoutes \in Seq(Registered) /\ Len(ObjectRoutes) = 21
  /\ \A i \in 1..21 :
       LET t == ObjectRoutes[i]
       IN  /\ t.targets = {"object"}
           /\ IsBare(t) => <<i, t.method>> \in {<<1, "HEAD">>, <<16, "GET">>,
                                                 <<20, "PUT">>, <<21, "DELETE">>}
           /\ t.query # {} => \/ t.method = "GET" /\ i < 16
                              \/ t.method = "PUT" /\ i < 20
                              \/ t.method = "DELETE" /\ i < 21
                              \/ t.method = "POST"
<1>1. Len(ObjectRoutes) = 21
  BY DEF ObjectRoutes
<1>2. ASSUME NEW i \in 1..21
      PROVE  LET t == ObjectRoutes[i]
             IN  /\ t.targets = {"object"}
                 /\ IsBare(t) => <<i, t.method>> \in {<<1, "HEAD">>, <<16, "GET">>,
                                                       <<20, "PUT">>, <<21, "DELETE">>}
                 /\ t.query # {} => \/ t.method = "GET" /\ i < 16
                                    \/ t.method = "PUT" /\ i < 20
                                    \/ t.method = "DELETE" /\ i < 21
                                    \/ t.method = "POST"
  BY DEF ObjectRoutes, Obj, Route, Part, IsBare
<1>3. ObjectRoutes \in Seq(Registered)
  <2>1. \A i \in 1..21 : ObjectRoutes[i] \in Registered
    BY DEF Registered
  <2>2. ObjectRoutes \in [1..21 -> Registered]
    BY <2>1 DEF ObjectRoutes
  <2> QED
    BY <2>2, FunctionIsSequence
<1> QED
  BY <1>1, <1>2, <1>3

\* A route of a bucket that names a part of the query.
LEMMA NamesPart ==
  ASSUME NEW m, NEW q, NEW h
  PROVE  LET t == Bkt(m, {q}, h) IN t.targets = {"bucket", "object"} /\ ~IsBare(t)
BY DEF Bkt, Route, IsBare

\* The first routes of buckets, which name a sub-resource each.
LEMMA BucketReadsAre ==
  /\ BucketReads \in Seq(Registered) /\ Len(BucketReads) = 22
  /\ \A i \in 1..22 :
       BucketReads[i].targets = {"bucket", "object"} /\ ~IsBare(BucketReads[i])
<1>1. Len(BucketReads) = 22
  BY DEF BucketReads
<1>2. ASSUME NEW i \in 1..22
      PROVE  BucketReads[i].targets = {"bucket", "object"} /\ ~IsBare(BucketReads[i])
  <2> DEFINE Named(j) ==
               BucketReads[j].targets = {"bucket", "object"} /\ ~IsBare(BucketReads[j])
  <2>1. Named(1) /\ Named(2) /\ Named(3) /\ Named(4) /\ Named(5)
    BY NamesPart DEF BucketReads
  <2>2. Named(6) /\ Named(7) /\ Named(8) /\ Named(9) /\ Named(10)
    BY NamesPart DEF BucketReads
  <2>3. Named(11) /\ Named(12) /\ Named(13) /\ Named(14)
    BY NamesPart DEF BucketReads
  <2>4. Named(15) /\ Named(16) /\ Named(17) /\ Named(18)
    BY NamesPart DEF BucketReads
  <2>5. Named(19) /\ Named(20) /\ Named(21) /\ Named(22)
    BY NamesPart DEF BucketReads
  <2> HIDE DEF Named
  <2>6. Named(i)
    BY <2>1, <2>2, <2>3, <2>4, <2>5
  <2> QED
    BY <2>6 DEF Named
<1>3. BucketReads \in Seq(Registered)
  <2>1. \A i \in 1..22 : BucketReads[i] \in Registered
    BY DEF Registered
  <2>2. BucketReads \in [1..22 -> Registered]
    BY <2>1 DEF BucketReads
  <2> QED
    BY <2>2, FunctionIsSequence
<1> QED
  BY <1>1, <1>2, <1>3

\* The listings, the one without a query last.
LEMMA BucketListsAre ==
  /\ BucketLists \in Seq(Registered) /\ Len(BucketLists) = 5
  /\ \A i \in 1..5 :
       LET t == BucketLists[i]
       IN  /\ t.targets = {"bucket", "object"} /\ t.method = "GET"
           /\ (IsBare(t) => i = 5) /\ (t.query # {} => i < 5)
<1>1. Len(BucketLists) = 5
  BY DEF BucketLists
<1>2. ASSUME NEW i \in 1..5
      PROVE  LET t == BucketLists[i]
             IN  /\ t.targets = {"bucket", "object"} /\ t.method = "GET"
                 /\ (IsBare(t) => i = 5) /\ (t.query # {} => i < 5)
  BY DEF BucketLists, Bkt, Route, IsBare
<1>3. BucketLists \in Seq(Registered)
  <2>1. \A i \in 1..5 : BucketLists[i] \in Registered
    BY DEF Registered
  <2>2. BucketLists \in [1..5 -> Registered]
    BY <2>1 DEF BucketLists
  <2> QED
    BY <2>2, FunctionIsSequence
<1> QED
  BY <1>1, <1>2, <1>3

\* The other routes of buckets, and one of an object that comes after them.
LEMMA BucketWritesAre ==
  /\ BucketWrites \in Seq(Registered) /\ Len(BucketWrites) = 18
  /\ \A i \in 1..18 :
       LET t == BucketWrites[i]
       IN  /\ t.targets = {"bucket", "object"} \/ (t.targets = {"object"} /\ t.method = "POST")
           /\ IsBare(t) => <<i, t.method>> \in {<<9, "PUT">>, <<10, "HEAD">>, <<17, "DELETE">>}
           /\ t.query # {} => \/ t.method = "PUT" /\ i < 9
                              \/ t.method = "DELETE" /\ i < 17
                              \/ t.method = "POST"
<1>1. Len(BucketWrites) = 18
  BY DEF BucketWrites
<1>2. ASSUME NEW i \in 1..18
      PROVE  LET t == BucketWrites[i]
             IN  /\ \/ t.targets = {"bucket", "object"}
                    \/ t.targets = {"object"} /\ t.method = "POST"
                 /\ IsBare(t) => <<i, t.method>> \in
                                   {<<9, "PUT">>, <<10, "HEAD">>, <<17, "DELETE">>}
                 /\ t.query # {} => \/ t.method = "PUT" /\ i < 9
                                    \/ t.method = "DELETE" /\ i < 17
                                    \/ t.method = "POST"
  BY DEF BucketWrites, Bkt, Obj, Route, IsBare
<1>3. BucketWrites \in Seq(Registered)
  <2>1. \A i \in 1..18 : BucketWrites[i] \in Registered
    BY DEF Registered
  <2>2. BucketWrites \in [1..18 -> Registered]
    BY <2>1 DEF BucketWrites
  <2> QED
    BY <2>2, FunctionIsSequence
<1> QED
  BY <1>1, <1>2, <1>3

\* The routes of the service itself.
LEMMA RootRoutesAre ==
  /\ RootRoutes \in Seq(Registered) /\ Len(RootRoutes) = 3
  /\ \A i \in 1..3 :
       LET t == RootRoutes[i]
       IN  t.targets = {"root"} /\ (IsBare(t) => i = 3) /\ (t.query # {} => i < 3)
<1>1. Len(RootRoutes) = 3
  BY DEF RootRoutes
<1>2. ASSUME NEW i \in 1..3
      PROVE  LET t == RootRoutes[i]
             IN  t.targets = {"root"} /\ (IsBare(t) => i = 3) /\ (t.query # {} => i < 3)
  BY DEF RootRoutes, Route, IsBare
<1>3. RootRoutes \in Seq(Registered)
  <2>1. \A i \in 1..3 : RootRoutes[i] \in Registered
    BY DEF Registered
  <2>2. RootRoutes \in [1..3 -> Registered]
    BY <2>1 DEF RootRoutes
  <2> QED
    BY <2>2, FunctionIsSequence
<1> QED
  BY <1>1, <1>2, <1>3

\* An index into five sequences that are joined.
IsJoined(st, s, m, t, n) == \A i \in 1..n : st[i] = IF i <= m THEN s[i] ELSE t[i - m]

LEMMA FiveParts ==
  ASSUME NEW a, NEW b, NEW c, NEW d, NEW e, NEW ab, NEW abc, NEW abcd, NEW all,
         IsJoined(ab, a, 21, b, 43), IsJoined(abc, ab, 43, c, 48),
         IsJoined(abcd, abc, 48, d, 66), IsJoined(all, abcd, 66, e, 69),
         NEW i \in 1..69
  PROVE  \/ i \in 1..21 /\ all[i] = a[i]
         \/ i - 21 \in 1..22 /\ all[i] = b[i - 21]
         \/ i - 43 \in 1..5 /\ all[i] = c[i - 43]
         \/ i - 48 \in 1..18 /\ all[i] = d[i - 48]
         \/ i - 66 \in 1..3 /\ all[i] = e[i - 66]
<1>1. i <= 66 => all[i] = abcd[i]
  BY DEF IsJoined
<1>2. i > 66 => all[i] = e[i - 66]
  BY DEF IsJoined
<1>3. i <= 66 => abcd[i] = IF i <= 48 THEN abc[i] ELSE d[i - 48]
  BY DEF IsJoined
<1>4. i <= 48 => abc[i] = IF i <= 43 THEN ab[i] ELSE c[i - 43]
  BY DEF IsJoined
<1>5. i <= 43 => ab[i] = IF i <= 21 THEN a[i] ELSE b[i - 21]
  BY DEF IsJoined
<1> QED
  BY <1>1, <1>2, <1>3, <1>4, <1>5

\* Which part a route is from.
LEMMA RoutesAre ==
  /\ Len(Routes) = 69
  /\ \A i \in 1..69 :
       \/ i \in 1..21 /\ Routes[i] = ObjectRoutes[i]
       \/ i - 21 \in 1..22 /\ Routes[i] = BucketReads[i - 21]
       \/ i - 43 \in 1..5 /\ Routes[i] = BucketLists[i - 43]
       \/ i - 48 \in 1..18 /\ Routes[i] = BucketWrites[i - 48]
       \/ i - 66 \in 1..3 /\ Routes[i] = RootRoutes[i - 66]
<1> DEFINE AB == ObjectRoutes \o BucketReads
           ABC == AB \o BucketLists
           ABCD == ABC \o BucketWrites
           all == ABCD \o RootRoutes
           S == Registered
<1> HIDE DEF AB, ABC, ABCD, all, S
<1>1. /\ ObjectRoutes \in Seq(S) /\ Len(ObjectRoutes) = 21
      /\ BucketReads \in Seq(S) /\ Len(BucketReads) = 22
      /\ BucketLists \in Seq(S) /\ Len(BucketLists) = 5
      /\ BucketWrites \in Seq(S) /\ Len(BucketWrites) = 18
      /\ RootRoutes \in Seq(S) /\ Len(RootRoutes) = 3
  BY ObjectRoutesAre, BucketReadsAre, BucketListsAre, BucketWritesAre, RootRoutesAre DEF S
<1>2. /\ AB \in Seq(S) /\ Len(AB) = 43
      /\ \A i \in 1..43 : AB[i] = IF i <= 21 THEN ObjectRoutes[i] ELSE BucketReads[i - 21]
  <2>1. /\ AB \in Seq(S) /\ Len(AB) = Len(ObjectRoutes) + Len(BucketReads)
        /\ \A i \in 1..Len(ObjectRoutes) + Len(BucketReads) :
             AB[i] = IF i <= Len(ObjectRoutes) THEN ObjectRoutes[i]
                     ELSE BucketReads[i - Len(ObjectRoutes)]
    <3>1. ObjectRoutes \in Seq(S) /\ BucketReads \in Seq(S)
      BY <1>1
    <3> QED
      BY <3>1, ConcatProperties DEF AB
  <2> QED
    BY <1>1, <2>1
<1>3. /\ ABC \in Seq(S) /\ Len(ABC) = 48
      /\ \A i \in 1..48 : ABC[i] = IF i <= 43 THEN AB[i] ELSE BucketLists[i - 43]
  <2>1. /\ ABC \in Seq(S) /\ Len(ABC) = Len(AB) + Len(BucketLists)
        /\ \A i \in 1..Len(AB) + Len(BucketLists) :
             ABC[i] = IF i <= Len(AB) THEN AB[i] ELSE BucketLists[i - Len(AB)]
    <3>1. AB \in Seq(S) /\ BucketLists \in Seq(S)
      BY <1>1, <1>2
    <3> QED
      BY <3>1, ConcatProperties DEF ABC
  <2> QED
    BY <1>1, <1>2, <2>1
<1>4. /\ ABCD \in Seq(S) /\ Len(ABCD) = 66
      /\ \A i \in 1..66 : ABCD[i] = IF i <= 48 THEN ABC[i] ELSE BucketWrites[i - 48]
  <2>1. /\ ABCD \in Seq(S) /\ Len(ABCD) = Len(ABC) + Len(BucketWrites)
        /\ \A i \in 1..Len(ABC) + Len(BucketWrites) :
             ABCD[i] = IF i <= Len(ABC) THEN ABC[i] ELSE BucketWrites[i - Len(ABC)]
    <3>1. ABC \in Seq(S) /\ BucketWrites \in Seq(S)
      BY <1>1, <1>3
    <3> QED
      BY <3>1, ConcatProperties DEF ABCD
  <2> QED
    BY <1>1, <1>3, <2>1
<1>5. Routes = all
  BY DEF Routes, all, ABCD, ABC, AB
<1>6. /\ all \in Seq(S) /\ Len(all) = 69
      /\ \A i \in 1..69 : all[i] = IF i <= 66 THEN ABCD[i] ELSE RootRoutes[i - 66]
  <2>1. /\ all \in Seq(S) /\ Len(all) = Len(ABCD) + Len(RootRoutes)
        /\ \A i \in 1..Len(ABCD) + Len(RootRoutes) :
             all[i] = IF i <= Len(ABCD) THEN ABCD[i] ELSE RootRoutes[i - Len(ABCD)]
    <3>1. ABCD \in Seq(S) /\ RootRoutes \in Seq(S)
      BY <1>1, <1>4
    <3> QED
      BY <3>1, ConcatProperties DEF all
  <2> QED
    BY <1>1, <1>4, <2>1
<1> HIDE DEF all
<1>7. ASSUME NEW i \in 1..69
      PROVE  \/ i \in 1..21 /\ all[i] = ObjectRoutes[i]
             \/ i - 21 \in 1..22 /\ all[i] = BucketReads[i - 21]
             \/ i - 43 \in 1..5 /\ all[i] = BucketLists[i - 43]
             \/ i - 48 \in 1..18 /\ all[i] = BucketWrites[i - 48]
             \/ i - 66 \in 1..3 /\ all[i] = RootRoutes[i - 66]
  <2>1. IsJoined(AB, ObjectRoutes, 21, BucketReads, 43)
    BY <1>2 DEF IsJoined
  <2>2. IsJoined(ABC, AB, 43, BucketLists, 48)
    BY <1>3 DEF IsJoined
  <2>3. IsJoined(ABCD, ABC, 48, BucketWrites, 66)
    BY <1>4 DEF IsJoined
  <2>4. IsJoined(all, ABCD, 66, RootRoutes, 69)
    BY <1>6 DEF IsJoined
  <2> QED
    BY <2>1, <2>2, <2>3, <2>4, FiveParts
<1> QED
  BY <1>5, <1>6, <1>7

\* The routes that are for whatever is left, and those that name a sub-resource.
LEMMA BareRoutesAre ==
  ASSUME NEW i \in 1..69, IsBare(Routes[i])
  PROVE  LET t == Routes[i]
         IN  \/ /\ t.targets = {"object"}
                /\ <<i, t.method>> \in {<<1, "HEAD">>, <<16, "GET">>, <<20, "PUT">>,
                                        <<21, "DELETE">>}
             \/ /\ t.targets = {"bucket", "object"}
                /\ <<i, t.method>> \in {<<48, "GET">>, <<57, "PUT">>, <<58, "HEAD">>,
                                        <<65, "DELETE">>}
             \/ t.targets = {"root"} /\ i = 69
<1>1. CASE i \in 1..21 /\ Routes[i] = ObjectRoutes[i]
  <2> DEFINE t == ObjectRoutes[i]
  <2>1. /\ t.targets = {"object"}
        /\ IsBare(t) => <<i, t.method>> \in {<<1, "HEAD">>, <<16, "GET">>, <<20, "PUT">>,
                                               <<21, "DELETE">>}
    BY <1>1, ObjectRoutesAre
  <2>2. Routes[i] = t /\ IsBare(t)
    BY <1>1
  <2> HIDE DEF t
  <2> QED
    BY <2>1, <2>2
<1>2. CASE i - 21 \in 1..22 /\ Routes[i] = BucketReads[i - 21]
  BY <1>2, BucketReadsAre
<1>3. CASE i - 43 \in 1..5 /\ Routes[i] = BucketLists[i - 43]
  BY <1>3, BucketListsAre
<1>4. CASE i - 48 \in 1..18 /\ Routes[i] = BucketWrites[i - 48]
  <2> DEFINE t == BucketWrites[i - 48]
             j == i - 48
  <2>1. /\ \/ t.targets = {"bucket", "object"}
           \/ t.targets = {"object"} /\ t.method = "POST"
        /\ IsBare(t) => <<j, t.method>> \in {<<9, "PUT">>, <<10, "HEAD">>, <<17, "DELETE">>}
    BY <1>4, BucketWritesAre
  <2>2. Routes[i] = t /\ IsBare(t) /\ i = j + 48
    BY <1>4
  <2> HIDE DEF t, j
  <2>3. /\ j = 9 => i = 57
        /\ j = 10 => i = 58
        /\ j = 17 => i = 65
    BY <2>2
  <2>4. t.targets = {"object"} /\ t.method = "POST" =>
          <<j, t.method>> \notin {<<9, "PUT">>, <<10, "HEAD">>, <<17, "DELETE">>}
    OBVIOUS
  <2>5. /\ t.targets = {"bucket", "object"}
        /\ <<i, t.method>> \in {<<57, "PUT">>, <<58, "HEAD">>, <<65, "DELETE">>}
    BY <2>1, <2>2, <2>3, <2>4
  <2> QED
    BY <2>2, <2>5
<1>5. CASE i - 66 \in 1..3 /\ Routes[i] = RootRoutes[i - 66]
  BY <1>5, RootRoutesAre
<1>6. \/ i \in 1..21 /\ Routes[i] = ObjectRoutes[i]
      \/ i - 21 \in 1..22 /\ Routes[i] = BucketReads[i - 21]
      \/ i - 43 \in 1..5 /\ Routes[i] = BucketLists[i - 43]
      \/ i - 48 \in 1..18 /\ Routes[i] = BucketWrites[i - 48]
      \/ i - 66 \in 1..3 /\ Routes[i] = RootRoutes[i - 66]
  BY RoutesAre
<1> QED
  BY ONLY <1>1, <1>2, <1>3, <1>4, <1>5, <1>6

\* Where the routes that name a sub-resource are.
LEMMA SubresourceRoutesAre ==
  ASSUME NEW i \in 1..69, Routes[i].query # {}
  PROVE  LET t == Routes[i]
         IN  \/ /\ t.targets = {"object"}
                /\ \/ t.method = "GET" /\ i < 16
                   \/ t.method = "PUT" /\ i < 20
                   \/ t.method = "DELETE" /\ i < 21
                   \/ t.method = "POST"
             \/ /\ t.targets = {"bucket", "object"}
                /\ \/ i < 48
                   \/ t.method = "PUT" /\ i < 57
                   \/ t.method = "DELETE" /\ i < 65
                   \/ t.method = "POST"
             \/ t.targets = {"root"} /\ i < 69
<1>1. CASE i \in 1..21 /\ Routes[i] = ObjectRoutes[i]
  <2> DEFINE t == ObjectRoutes[i]
  <2>1. /\ t.targets = {"object"}
        /\ t.query # {} => \/ t.method = "GET" /\ i < 16
                           \/ t.method = "PUT" /\ i < 20
                           \/ t.method = "DELETE" /\ i < 21
                           \/ t.method = "POST"
    BY <1>1, ObjectRoutesAre
  <2>2. Routes[i] = t /\ t.query # {}
    BY <1>1
  <2> HIDE DEF t
  <2> QED
    BY <2>1, <2>2
<1>2. CASE i - 21 \in 1..22 /\ Routes[i] = BucketReads[i - 21]
  <2>1. Routes[i].targets = {"bucket", "object"}
    BY <1>2, BucketReadsAre
  <2>2. i < 48
    BY <1>2
  <2> QED
    BY <2>1, <2>2
<1>3. CASE i - 43 \in 1..5 /\ Routes[i] = BucketLists[i - 43]
  BY <1>3, BucketListsAre
<1>4. CASE i - 48 \in 1..18 /\ Routes[i] = BucketWrites[i - 48]
  <2> DEFINE t == BucketWrites[i - 48]
  <2>1. t.query # {} /\ i - 48 \in 1..18 /\ Routes[i] = t
    BY <1>4
  <2>2. /\ t.targets = {"bucket", "object"} \/ (t.targets = {"object"} /\ t.method = "POST")
        /\ \/ t.method = "PUT" /\ i - 48 < 9
           \/ t.method = "DELETE" /\ i - 48 < 17
           \/ t.method = "POST"
    BY <2>1, BucketWritesAre
  <2>3. (i - 48 < 9 => i < 57) /\ (i - 48 < 17 => i < 65)
    OBVIOUS
  <2> HIDE DEF t
  <2> QED
    BY <2>1, <2>2, <2>3
<1>5. CASE i - 66 \in 1..3 /\ Routes[i] = RootRoutes[i - 66]
  BY <1>5, RootRoutesAre
<1> QED
  BY <1>1, <1>2, <1>3, <1>4, <1>5, RoutesAre

\* No route that is for whatever is left comes before one that names a sub-resource of
\* the same kind.
LEMMA BareAreLast ==
  ASSUME NEW k \in 1..69, NEW i \in 1..69, k <= i, IsBare(Routes[k]),
         Routes[i].query # {}, Routes[k].method = Routes[i].method,
         NEW x, x \in Routes[k].targets, x \in Routes[i].targets,
         x = "object" <=> Routes[i].targets = {"object"}
  PROVE  FALSE
<1> DEFINE t == Routes[i]
           b == Routes[k]
<1>1. \/ /\ t.targets = {"object"}
         /\ \/ t.method = "GET" /\ i < 16
            \/ t.method = "PUT" /\ i < 20
            \/ t.method = "DELETE" /\ i < 21
            \/ t.method = "POST"
      \/ /\ t.targets = {"bucket", "object"}
         /\ \/ i < 48
            \/ t.method = "PUT" /\ i < 57
            \/ t.method = "DELETE" /\ i < 65
            \/ t.method = "POST"
      \/ t.targets = {"root"} /\ i < 69
  BY SubresourceRoutesAre
<1>2. \/ /\ b.targets = {"object"}
         /\ <<k, b.method>> \in {<<1, "HEAD">>, <<16, "GET">>, <<20, "PUT">>,
                                 <<21, "DELETE">>}
      \/ /\ b.targets = {"bucket", "object"}
         /\ <<k, b.method>> \in {<<48, "GET">>, <<57, "PUT">>, <<58, "HEAD">>,
                                 <<65, "DELETE">>}
      \/ b.targets = {"root"} /\ k = 69
  BY BareRoutesAre
<1>3. /\ k \in Int /\ i \in Int /\ k <= i /\ b.method = t.method
      /\ x \in b.targets /\ x \in t.targets /\ (x = "object" <=> t.targets = {"object"})
  OBVIOUS
<1> HIDE DEF t, b
<1> QED
  BY <1>1, <1>2, <1>3

\* A set of numbers has a least one.
LEMMA HasLeast ==
  ASSUME NEW T \in SUBSET Nat, T # {}
  PROVE  \E x \in T : \A y \in T : x <= y
<1> DEFINE R == {ss \in Nat \X Nat : ss[1] < ss[2]}
<1>1. IsWellFoundedOn(R, Nat)
  BY NatLessThanWellFounded DEF OpToRel
<1> HIDE DEF R
<1>2. PICK x \in T : \A y \in T : ~(<<y, x>> \in R)
  BY <1>1, WFMin
<1>3. ASSUME NEW y \in T PROVE x <= y
  <2>1. ~(y < x)
    BY <1>2 DEF R
  <2> QED
    BY <2>1
<1> QED
  BY <1>3

\* HandlerOf is the handler of the first route that matches, if one does.
LEMMA FirstIs ==
  ASSUME NEW q, \E i \in 1..Len(Routes) : Matches(Routes[i], q), Len(Routes) \in Nat
  PROVE  \E k \in 1..Len(Routes) :
           /\ HandlerOf(q) = Routes[k].handler /\ Matches(Routes[k], q)
           /\ \A i \in 1..Len(Routes) : Matches(Routes[i], q) => k <= i
<1> DEFINE T == {i \in 1..Len(Routes) : Matches(Routes[i], q)}
           k == CHOOSE x \in T : \A y \in T : x =< y
<1>1. T \in SUBSET Nat /\ T # {}
  OBVIOUS
<1>2. k \in T /\ \A y \in T : k <= y
  <2> HIDE DEF T
  <2> QED
    BY <1>1, HasLeast
<1>3. SelectInSeq(Routes, LAMBDA route : Matches(route, q)) = k
  BY <1>1 DEF SelectInSeq, Min
<1> HIDE DEF k
<1>4. k > 0 /\ k \in 1..Len(Routes)
  BY <1>2
<1>5. HandlerOf(q) = Routes[k].handler
  BY <1>3, <1>4 DEF HandlerOf
<1> QED
  BY <1>2, <1>4, <1>5

\* The route that serves a request for a sub-resource names one.
LEMMA SubresourceRoute ==
  ASSUME NEW q, q.headers = {}, NEW i \in DOMAIN Routes, Routes[i].query # {},
         q.target = "object" <=> Routes[i].targets = {"object"}, Matches(Routes[i], q)
  PROVE  \E j \in DOMAIN Routes : Routes[j].handler = HandlerOf(q) /\ Routes[j].query # {}
<1>1. Len(Routes) = 69 /\ DOMAIN Routes = 1..69
  BY RoutesAre
<1>2. PICK k \in 1..69 :
        /\ HandlerOf(q) = Routes[k].handler /\ Matches(Routes[k], q) /\ k <= i
  <2>1. i \in 1..Len(Routes) /\ Len(Routes) \in Nat
    BY <1>1
  <2>2. PICK k \in 1..Len(Routes) :
          /\ HandlerOf(q) = Routes[k].handler /\ Matches(Routes[k], q)
          /\ \A j \in 1..Len(Routes) : Matches(Routes[j], q) => k <= j
    BY <2>1, FirstIs
  <2> QED
    BY <1>1, <2>1, <2>2
<1>3. SUFFICES ASSUME Routes[k].query = {} PROVE FALSE
  BY <1>1, <1>2
<1>4. IsBare(Routes[k])
  BY <1>2, <1>3 DEF Matches, IsBare
<1>5. /\ Routes[k].method = Routes[i].method
      /\ q.target \in Routes[k].targets /\ q.target \in Routes[i].targets
  BY <1>2 DEF Matches
<1> QED
  BY <1>1, <1>2, <1>4, <1>5, BareAreLast

-----------------------------------------------------------------------------
\* A request that names a sub-resource which some route of its kind and method is for
\* does not end in the handler of the bucket or the object itself.
THEOREM SubresourcesAreServed == Spec => []SubresourceIsServed
<1>1. StorageInv => SubresourceIsServed
  <2> SUFFICES ASSUME StorageInv, NEW r \in Request, ~In(r, "idle"),
                      req[r].call.headers = {}, NEW i \in DOMAIN Routes,
                      Routes[i].query # {},
                      req[r].call.target = "object" <=> Routes[i].targets = {"object"},
                      Matches(Routes[i], req[r].call)
               PROVE  \E j \in DOMAIN Routes : Routes[j].handler = req[r].handler
                                             /\ Routes[j].query # {}
    BY DEF SubresourceIsServed
  <2>1. req[r].handler = HandlerOf(req[r].call)
    BY DEF StorageInv, IsUnderWay, In
  <2> QED
    BY <2>1, SubresourceRoute
<1> QED
  BY <1>1, StorageIsKept, PTL
=============================================================================
