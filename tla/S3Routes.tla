------------------------------ MODULE S3Routes ------------------------------
(***************************************************************************)
(* The routes that RegisterAPIRouter (pkg/minio) registers, in their       *)
(* order, and what the wrapping handlers make of the bucket and the object *)
(* of a request: "everything of a user lives in one bucket named after the *)
(* user's id, under the name of the bucket that the request is about".     *)
(*                                                                         *)
(* A request is [method, target, query, headers]: target is "root",        *)
(* "bucket" or "object", query and headers are the sets of those           *)
(* parameters and headers that a route looks at.  A bucket in the host     *)
(* name and one in the path go through the same routes.                    *)
(***************************************************************************)
EXTENDS Naturals, Sequences, SequencesExt

Route(method, targets, query, headers, handler) ==
  [method |-> method, targets |-> targets, query |-> query,
   headers |-> headers, handler |-> handler]

\* Path("/{object:.+}"); a route of a bucket has no Path and takes any.
Obj(method, query, headers, handler) ==
  Route(method, {"object"}, query, headers, handler)
Bkt(method, query, handler) ==
  Route(method, {"bucket", "object"}, query, {}, handler)

Part == {"partNumber", "uploadId"}

ObjectRoutes == <<
  Obj("HEAD", {}, {}, "HeadObject"),
  Obj("PUT", Part, {"copy-source"}, "CopyObjectPart"),
  Obj("PUT", Part, {}, "PutObjectPart"),
  Obj("GET", {"uploadId"}, {}, "ListObjectParts"),
  Obj("POST", {"uploadId"}, {}, "CompleteMultipartUpload"),
  Obj("POST", {"uploads"}, {}, "NewMultipartUpload"),
  Obj("DELETE", {"uploadId"}, {}, "AbortMultipartUpload"),
  Obj("GET", {"acl"}, {}, "GetObjectACL"),
  Obj("PUT", {"acl"}, {}, "PutObjectACL"),
  Obj("GET", {"tagging"}, {}, "GetObjectTagging"),
  Obj("PUT", {"tagging"}, {}, "PutObjectTagging"),
  Obj("DELETE", {"tagging"}, {}, "DeleteObjectTagging"),
  Obj("POST", {"select", "select-type=2"}, {}, "SelectObjectContent"),
  Obj("GET", {"retention"}, {}, "GetObjectRetention"),
  Obj("GET", {"legal-hold"}, {}, "GetObjectLegalHold"),
  Obj("GET", {}, {}, "GetObject"),
  Obj("PUT", {}, {"copy-source"}, "CopyObject"),
  Obj("PUT", {"retention"}, {}, "PutObjectRetention"),
  Obj("PUT", {"legal-hold"}, {}, "PutObjectLegalHold"),
  Obj("PUT", {}, {}, "PutObject"),
  Obj("DELETE", {}, {}, "DeleteObject")>>

\* The sub-resources of a bucket that one method reads, writes or deletes.
BucketReads == <<
  Bkt("GET", {"location"}, "GetBucketLocation"),
  Bkt("GET", {"policy"}, "GetBucketPolicy"),
  Bkt("GET", {"lifecycle"}, "GetBucketLifecycle"),
  Bkt("GET", {"encryption"}, "GetBucketEncryption"),
  Bkt("GET", {"object-lock"}, "GetBucketObjectLockConfig"),
  Bkt("GET", {"replication"}, "GetBucketReplicationConfig"),
  Bkt("GET", {"versioning"}, "GetBucketVersioning"),
  Bkt("GET", {"notification"}, "GetBucketNotification"),
  Bkt("GET", {"events"}, "ListenNotification"),
  Bkt("GET", {"acl"}, "GetBucketACL"), Bkt("PUT", {"acl"}, "PutBucketACL"),
  Bkt("GET", {"cors"}, "GetBucketCors"), Bkt("PUT", {"cors"}, "PutBucketCors"),
  Bkt("DELETE", {"cors"}, "DeleteBucketCors"),
  Bkt("GET", {"website"}, "GetBucketWebsite"),
  Bkt("GET", {"accelerate"}, "GetBucketAccelerate"),
  Bkt("GET", {"requestPayment"}, "GetBucketRequestPayment"),
  Bkt("GET", {"logging"}, "GetBucketLogging"),
  Bkt("GET", {"lifecycle"}, "GetBucketLifecycle"),
  Bkt("GET", {"tagging"}, "GetBucketTagging"),
  Bkt("DELETE", {"website"}, "DeleteBucketWebsite"),
  Bkt("DELETE", {"tagging"}, "DeleteBucketTagging")>>

BucketLists == <<
  Bkt("GET", {"uploads"}, "ListMultipartUploads"),
  Bkt("GET", {"list-type=2", "metadata=true"}, "ListObjectsV2M"),
  Bkt("GET", {"list-type=2"}, "ListObjectsV2"),
  Bkt("GET", {"versions"}, "ListObjectVersions"),
  Bkt("GET", {}, "ListObjectsV1")>>

BucketWrites == <<
  Bkt("PUT", {"lifecycle"}, "PutBucketLifecycle"),
  Bkt("PUT", {"replication"}, "PutBucketReplicationConfig"),
  Bkt("PUT", {"encryption"}, "PutBucketEncryption"),
  Bkt("PUT", {"policy"}, "PutBucketPolicy"),
  Bkt("PUT", {"object-lock"}, "PutBucketObjectLockConfig"),
  Bkt("PUT", {"tagging"}, "PutBucketTagging"),
  Bkt("PUT", {"versioning"}, "PutBucketVersioning"),
  Bkt("PUT", {"notification"}, "PutBucketNotification"),
  Bkt("PUT", {}, "PutBucket"),
  Bkt("HEAD", {}, "HeadBucket"),
  Route("POST", {"bucket", "object"}, {}, {"form"}, "PostPolicyBucket"),
  Bkt("POST", {"delete"}, "DeleteMultipleObjects"),
  Bkt("DELETE", {"policy"}, "DeleteBucketPolicy"),
  Bkt("DELETE", {"replication"}, "DeleteBucketReplicationConfig"),
  Bkt("DELETE", {"lifecycle"}, "DeleteBucketLifecycle"),
  Bkt("DELETE", {"encryption"}, "DeleteBucketEncryption"),
  Bkt("DELETE", {}, "DeleteBucket"),
  Obj("POST", {"restore"}, {}, "PostRestoreObject")>>

RootRoutes == <<
  Route("GET", {"root"}, {"events"}, {}, "ListenNotification"),
  Route("GET", {"root"}, {"attribution"}, {}, "ListBucketsWithAttribution"),
  Route("GET", {"root"}, {}, {}, "ListBuckets")>>

\* A variant: the routes without a sub-resource come first.
Routes_CatchAllFirst ==
  LET all == ObjectRoutes \o BucketReads \o BucketLists \o BucketWrites
             \o RootRoutes
      CatchAll(t) == t.query = {}
  IN  SelectSeq(all, CatchAll) \o all

Routes ==
  ObjectRoutes \o BucketReads \o BucketLists \o BucketWrites \o RootRoutes

Matches(route, q) ==
  /\ route.method = q.method
  /\ q.target \in route.targets
  /\ route.query \subseteq q.query
  /\ route.headers \subseteq q.headers

\* The first route that matches serves the request.
HandlerOf(q) ==
  LET i == SelectInSeq(Routes, LAMBDA route : Matches(route, q))
  IN  IF i > 0 THEN Routes[i].handler
      ELSE IF \E j \in DOMAIN Routes :
                Routes[j].method # q.method
                /\ Matches([Routes[j] EXCEPT !.method = q.method], q)
           THEN "MethodNotAllowed" ELSE "NotFound"

\* The handlers that are wrapped in the limiter.
Limited == {"PutObjectPart", "GetObject", "PutObject", "PostPolicyBucket"}
-----------------------------------------------------------------------------
(* The wrapping handlers: which of them put the user's id in front.        *)

\* A variant: the parts of an upload go where the client said.
ObjectPrefixed_NotParts ==
  {"HeadObject", "ListObjectParts", "CompleteMultipartUpload",
   "NewMultipartUpload", "AbortMultipartUpload", "GetObject", "CopyObject",
   "PutObject", "DeleteObject"}

ObjectPrefixed ==
  {"HeadObject", "PutObjectPart", "ListObjectParts", "CompleteMultipartUpload",
   "NewMultipartUpload", "AbortMultipartUpload", "GetObject", "CopyObject",
   "PutObject", "DeleteObject"}
BucketPrefixed ==
  {"ListMultipartUploads", "ListObjectsV1", "ListObjectsV2",
   "DeleteMultipleObjects", "PutBucket", "DeleteBucket"}
UserPrefixed == {"ListBuckets"}

\* Answered by the wrapper itself, without a call on the gateway layer.
AnswersItself == {"GetBucketCors", "PutBucketCors", "DeleteBucketCors",
                  "HeadBucket", "MethodNotAllowed", "NotFound"}

NeedsUser(handler) ==
  handler \in ObjectPrefixed \cup BucketPrefixed \cup UserPrefixed

\* The bucket and the path that the wrapped handler of MinIO sees.
Place(handler, user, bucket, object) ==
  CASE handler \in ObjectPrefixed -> <<user, <<bucket, object>>>>
    [] handler \in BucketPrefixed -> <<user, <<bucket>>>>
    [] handler \in UserPrefixed   -> <<user, << >>>>
    [] OTHER                      -> <<bucket, <<object>>>>

\* The source of a copy: CopyObject puts the user's bucket before it,
\* CopyObjectPart does not.
SourcePlace(handler, user, bucket, object) ==
  IF handler = "CopyObject" THEN <<user, <<bucket, object>>>>
  ELSE <<bucket, <<object>>>>
=============================================================================
