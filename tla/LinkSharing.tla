---------------------------- MODULE LinkSharing ----------------------------
(***************************************************************************)
(* Requests at the link sharing service and at the domains it hosts: which *)
(* handler takes them, whose access they use, and the calls to the         *)
(* satellite, one after the other, by which an object, a page about it or  *)
(* the listing of a prefix is found, while the owner of the bucket changes *)
(* what is in it.  A request may also be the question of the TLS server    *)
(* whether it should get a certificate for a domain.                       *)
(*                                                                         *)
(* A key is the sequence of its segments; "p/" is <<"p", "">> and the      *)
(* empty key <<"">>.                                                       *)
(***************************************************************************)
EXTENDS TxtCache, Integers, SequencesExt

CONSTANTS
  Scenes,    \* bounds of the model, by scene: what may be asked, whether requests meet, what
             \* is in the bucket at first, and how often it changes and calls fail
  Key, Size, \* keys and sizes of objects
  Prefix,    \* Prefix[root]: the segments of the prefix that a root has
  Malformed, \* a range in a Range header
  PaidTier   \* the hosts whose projects are of the paid tier

\* What requests are answered; content may be cut off while it is sent.
Answers == {"cors", "405", "redirect", "page", "400", "403", "error", "refused",
            "certificate", "listing", "404", "404 page", "content", "cut off", "416",
            "archive", "415", "map"}

\* A Range header is a list of ranges: -last, first- and first-last.
ByteRange ==
  {h \in [first : Nat \cup {None}, last : Nat \cup {None}] :
     IF h.first = None THEN h.last # None ELSE h.last = None \/ h.last >= h.first}

RangeHeader == Seq(ByteRange \cup {Malformed})

\* Certificates and pages are asked for at the hosts of the cache; no object has the
\* empty key; and None, Failed and Malformed are none of the values beside them.
ASSUME LinkAssumption ==
  /\ \A s \in DOMAIN Scenes :
       /\ \A a \in Scenes[s].asks :
            a.host \in Host /\ (a.range = None \/ a.range \in RangeHeader)
       /\ Scenes[s].contents \subseteq [Key -> Size \cup {None}]
  /\ Size \subseteq Nat /\ <<"">> \notin Key
  /\ None \notin Answers \cup Nat \cup {Failed}
  /\ None \notin [key : Key, size : Size] \cup [start : Int, length : Int]
                   \cup [offset : Int, length : Int]
  /\ None \notin {<<found>> : found \in Size \cup {None, Failed}}
  /\ Failed \notin Size

VARIABLES
  scene,     \* the bounds of this behaviour
  req,       \* req[r]: the request
  stored,    \* stored[k]: the size of the object, or None
  writes,    \* changes of the bucket so far
  broken     \* calls of other services, but for the cache's, that failed

vars == <<txtVars, scene, req, stored, writes, broken>>

\* part is the place of the next range of a list that is sent.  The rest is history:
\* content holds the sizes of the versions of which content has been sent, and at, after
\* and kept are when it came, which requests were over by then with their updates, and
\* the objects that have been there all the time.
NoReq == [stage |-> "idle", ask |-> None, key |-> << >>, index |-> None,
          object |-> None, opened |-> None, part |-> 1, content |-> {}, said |-> None,
          at |-> 0, after |-> {}, kept |-> {}]

Init ==
  /\ TxtInit
  /\ req = [r \in Fetch |-> NoReq]
  /\ scene \in DOMAIN Scenes /\ stored \in Scenes[scene].contents /\ writes = 0 /\ broken = 0

In(r, stage) == req[r].stage = stage
Go(r, stage) == req' = [req EXCEPT ![r].stage = stage]
Say(r, said) == req' = [req EXCEPT ![r].stage = "done", ![r].said = said]

Stored == {k \in Key : stored[k] # None}

\* The keys that begin with one that ends in a slash, and its index.html.
Under(p, keys) == {k \in keys : Len(k) >= Len(p) /\ SubSeq(k, 1, Len(p) - 1) = Front(p)}
Index(p) == Append(Front(p), "index.html")
Slashed(k) == Append(k, "")
-----------------------------------------------------------------------------
(* Flags and ranges.                                                       *)

\* queryFlagLookup: "on" stands for all values but those that mean no.
QueryFlagLookup(value, default) == IF value = None THEN default ELSE value = "on"

Download(a) == QueryFlagLookup(a.download, FALSE)
Wrap(a) == QueryFlagLookup(a.wrap, ~QueryFlagLookup(a.view, a.page # "s"))

\* The content of the object is asked for, and not a page about it.
WantsContent(a) == (Download(a) \/ ~Wrap(a)) /\ ~a.map

\* predictRange looks at the first range of the header, and not at those that follow.
Predictable(header) == header # None => header # << >> /\ header[1] # Malformed

PredictRange(h) ==
  IF h.first = None THEN [offset |-> -h.last, length |-> -1]
  ELSE [offset |-> h.first,
        length |-> IF h.last = None THEN -1 ELSE h.last - h.first + 1]

\* A variant: the end is taken for the length.
OptionsToRange_ToEnd(size, o) ==
  IF o = None THEN [start |-> 0, length |-> size]
  ELSE [start |-> IF o.offset < 0 THEN size + o.offset ELSE o.offset,
        length |-> size]

OptionsToRange(size, o) ==
  LET r == CASE o = None -> [start |-> 0, length |-> size]
             [] o # None /\ o.offset < 0 ->
                  [start |-> size + o.offset, length |-> size - o.offset]
             [] o # None /\ o.offset >= 0 /\ o.length < 0 ->
                  [start |-> o.offset, length |-> size - o.offset]
             [] OTHER -> [start |-> o.offset, length |-> o.length]
  IN  IF r.start < size /\ r.start + r.length > size
      THEN [r EXCEPT !.length = size - r.start] ELSE r

\* What httpranger makes of a range when it knows the size: None is what cannot be
\* satisfied.
ParseRange(h, size) ==
  CASE h.first = None ->
         LET n == Smaller(h.last, size) IN [start |-> size - n, length |-> n]
    [] h.first # None /\ h.first >= size -> None
    [] OTHER ->
         LET last == IF h.last = None THEN size - 1 ELSE Smaller(h.last, size - 1)
         IN  [start |-> h.first, length |-> last - h.first + 1]

Whole(size) == [start |-> 0, length |-> size]

\* The header is used if there is one, and no If-Range that names another version.
IsPartial(a) == a.range # None /\ a.ifRange /\ a.range # << >>

\* The places of the ranges that can be satisfied.
Parts(a, size) == {i \in DOMAIN a.range : ParseRange(a.range[i], size) # None}

IsMalformed(a) == \E i \in DOMAIN a.range : a.range[i] = Malformed

\* The ranges are more than the object.
IsLong(a, size) ==
  MapThenSumSet(LAMBDA i : ParseRange(a.range[i], size).length, Parts(a, size)) > size
-----------------------------------------------------------------------------
(* ServeHTTP, and whose access a request uses.                             *)

\* serveHTTP and handleStandard, until the access is parsed.
Route(a) ==
  CASE a.page = "certificate" -> "certificate"
    [] a.page # "certificate" /\ a.method = "OPTIONS" -> "cors"
    [] a.page # "certificate" /\ a.method \notin {"OPTIONS", "HEAD", "GET"} -> "405"
    [] a.page = "hosted" /\ a.method \in {"HEAD", "GET"} -> "hosted"
    [] a.page \in {"http", "landing", "unwrapped"} /\ a.method \in {"HEAD", "GET"} ->
         "redirect"
    [] a.page \in {"static", "health"} /\ a.method \in {"HEAD", "GET"} -> "page"
    [] a.page = "no bucket" /\ a.method \in {"HEAD", "GET"} -> "400"
    [] OTHER -> "access"

Arrive(r) ==
  \E a \in Scenes[scene].asks :
    /\ In(r, "idle") /\ (Scenes[scene].meet \/ \A s \in Fetch : In(s, "idle"))
    /\ LET route == Route(a)
           Sent(stage, said) ==
             req' = [req EXCEPT ![r] = [NoReq EXCEPT !.stage = stage, !.said = said,
                       !.ask = a, !.key = a.path, !.at = now, !.kept = Stored,
                       !.after = {s \in Fetch : In(s, "done") /\ Updating(s, "idle")}]]
       IN  CASE route \in {"hosted", "certificate"} ->
                  Sent("host", None) /\ FetchAccessForHost(r, a.host, route = "hosted")
             [] route = "access" -> Sent("access", None) /\ UNCHANGED txtVars
             [] OTHER -> Sent("done", route) /\ UNCHANGED txtVars
    /\ UNCHANGED <<scene, stored, writes, broken>>

Faulty == broken < Scenes[scene].faults /\ broken' = broken + 1
Fine == UNCHANGED broken

\* parseAccess: a key that is not public wants a signature.  Then the project is opened.
ParseAccess(r) ==
  LET a == req[r].ask
  IN  /\ In(r, "access")
      /\ \/ /\ a.access \in {"grant", "public"} \/ (a.access = "private" /\ a.signed)
            /\ Go(r, "present") /\ Fine
         \/ a.access = "private" /\ ~a.signed /\ Say(r, "403") /\ Fine
         \/ a.access = "invalid" /\ Say(r, "400") /\ Fine
         \/ Faulty /\ Say(r, "error")
      /\ UNCHANGED <<txtVars, scene, stored, writes>>

\* The update of the record that r waits for, or the goroutine it has started.
Update(r) == UpdateStep(r) /\ UNCHANGED <<scene, req, stored, writes, broken>>

\* determineBucketAndObjectKey, and "index.html" for the root of the domain.
HostedKey(root, path) ==
  LET key == Prefix[root] \o path
  IN  IF path = <<"">> THEN Index(key) ELSE key

\* handleHostingService has the record of the host.
Hosted(r) ==
  /\ In(r, "host") /\ req[r].ask.page = "hosted" /\ got[r] # None
  /\ \/ got[r] = Failed /\ Say(r, "error") /\ Fine
     \/ /\ got[r] # Failed /\ Fine
        /\ req' = [req EXCEPT ![r].stage = "present",
                              ![r].key = HostedKey(got[r].root, req[r].ask.path)]
     \/ got[r] # Failed /\ Faulty /\ Say(r, "error")
  /\ UNCHANGED <<txtVars, scene, stored, writes>>

\* The decision function: the record says TLS, the host is on the allowlist or its
\* tier is the paid one, which is asked for and remembered, and the CNAME points here.
Certificate(r) ==
  LET a == req[r].ask
      ok == got[r].tls /\ (a.allowed \/ (a.host \in PaidTier /\ a.cname))
  IN  /\ In(r, "host") /\ a.page = "certificate" /\ got[r] # None
      /\ \/ got[r] = Failed /\ Say(r, "refused") /\ Fine
         \/ got[r] # Failed /\ Say(r, IF ok THEN "certificate" ELSE "refused") /\ Fine
         \/ got[r] # Failed /\ Faulty /\ Say(r, "refused")
      /\ UNCHANGED <<txtVars, scene, stored, writes>>
-----------------------------------------------------------------------------
(* present.                                                                *)

Present(r) == UNCHANGED <<txtVars, scene, stored, writes>>

Show(r, k, size) ==
  req' = [req EXCEPT ![r].stage = "show", ![r].object = [key |-> k, size |-> size]]

\* A variant: the page of hosted domains for everyone.
NotFound_Page(r) == Go(r, "404")

\* In a hosted domain there may be a page for what is not found.
NotFound(r) == IF req[r].ask.page = "hosted" THEN Go(r, "404") ELSE Say(r, "404")

IsEmpty(k) == k = <<"">>
EndsInSlash(k) == ~IsEmpty(k) /\ Last(k) = ""

\* StatObject: one call of the satellite, which may fail.
Stat(r, k, notFound) ==
  \/ k \in Stored /\ Show(r, k, stored[k]) /\ Fine
  \/ k \notin Stored /\ notFound /\ Fine
  \/ Faulty /\ Say(r, "error")

\* A key with a trailing slash: meanwhile a goroutine looks for index.html.
StatIndex(r) ==
  LET k == Index(req[r].key)
  IN  /\ req[r].stage \in {"present", "join"} /\ EndsInSlash(req[r].key)
      /\ req[r].index = None
      /\ \/ req' = [req EXCEPT ![r].index = <<IF k \in Stored THEN stored[k] ELSE None>>]
            /\ Fine
         \/ req' = [req EXCEPT ![r].index = <<Failed>>] /\ Faulty
      /\ Present(r)

StatSlash(r) ==
  /\ In(r, "present") /\ EndsInSlash(req[r].key)
  /\ Stat(r, req[r].key, Go(r, "join"))
  /\ Present(r)

\* A variant: the goroutine is not waited for.
JoinIndex_NotWaited(r) ==
  /\ In(r, "join") /\ Go(r, "list") /\ Fine
  /\ Present(r)

JoinIndex(r) ==
  LET found == req[r].index[1]
  IN  /\ In(r, "join") /\ req[r].index # None
      /\ CASE req[r].index = <<Failed>> -> Say(r, "error")
           [] req[r].index = <<None>> -> Go(r, "list")
           [] OTHER -> Show(r, Index(req[r].key), found)
      /\ Fine /\ Present(r)

\* A plain key.  The download of its content begins at once, if only that is wanted.
Predicts(a) == WantsContent(a) /\ a.archive = None /\ Predictable(a.range)

Options(a) == IF a.range = None THEN None ELSE PredictRange(a.range[1])

\* Errors other than of permission and of bandwidth are left to StatObject to find.
DownloadFirst(r) ==
  LET k == req[r].key
      o == Options(req[r].ask)
      beyond == o # None /\ o.offset >= stored[k]
  IN  /\ In(r, "present") /\ ~IsEmpty(k) /\ ~EndsInSlash(k) /\ Predicts(req[r].ask)
      /\ \/ /\ k \in Stored /\ Fine
            /\ req' = [req EXCEPT ![r].stage = "show",
                 ![r].object = [key |-> k, size |-> stored[k]],
                 ![r].opened = OptionsToRange(stored[k], o)]
         \/ k \in Stored /\ beyond /\ Go(r, "stat") /\ Fine
         \/ k \notin Stored /\ Go(r, "prefix") /\ Fine
         \/ Faulty /\ (Go(r, "stat") \/ Say(r, "403"))
      /\ Present(r)

StatPlain(r) ==
  LET k == req[r].key
  IN  /\ \/ In(r, "stat")
         \/ In(r, "present") /\ ~IsEmpty(k) /\ ~EndsInSlash(k) /\ ~Predicts(req[r].ask)
      /\ Stat(r, k, Go(r, "prefix"))
      /\ Present(r)

\* isPrefix: index.html under it shows that the key is one, or else a listing, which
\* may not be permitted.
IsPrefixOfObjects(r) ==
  LET k == Slashed(req[r].key)
  IN  /\ \/ /\ In(r, "prefix") /\ Fine
            /\ IF Index(k) \in Stored THEN Say(r, "redirect") ELSE Go(r, "prefix list")
         \/ /\ In(r, "prefix list") /\ Fine
            /\ IF req[r].ask.lists /\ Under(k, Stored) # {}
               THEN Say(r, "redirect") ELSE NotFound(r)
         \/ req[r].stage \in {"prefix", "prefix list"} /\ Faulty /\ Say(r, "error")
      /\ Present(r)

\* No object has the empty key.
StatRoot(r) ==
  LET k == req[r].key
  IN  /\ In(r, "present") /\ IsEmpty(k)
      /\ Stat(r, Index(k), IF req[r].ask.slash THEN Go(r, "list") ELSE Say(r, "redirect"))
      /\ Present(r)

ServePrefix(r) ==
  /\ In(r, "list")
  /\ \/ /\ req[r].ask.lists /\ Fine
        /\ IF Under(req[r].key, Stored) # {} THEN Say(r, "listing") ELSE NotFound(r)
     \/ ~req[r].ask.lists /\ Say(r, "403") /\ Fine
     \/ Faulty /\ Say(r, "error")
  /\ Present(r)

\* The page for what is not found; without it, the usual one.
NotFoundPage(r) ==
  /\ In(r, "404")
  /\ \/ /\ Say(r, IF Prefix[got[r].root] \o <<"404.html">> \in Stored
                  THEN "404 page" ELSE "404")
        /\ Fine
     \/ Faulty /\ Say(r, "error")
  /\ Present(r)
-----------------------------------------------------------------------------
(* showObject.                                                             *)

Send(r, content) ==
  req' = [req EXCEPT ![r].stage = "done", ![r].said = "content", ![r].content = content]

\* The ObjectRanger: the download that is open is used when it is of the range that is
\* wanted; or else the object is downloaded now.
SendRange(r, range) ==
  LET o == req[r].object
  IN  \/ req[r].opened = range /\ Send(r, {o.size}) /\ Fine
      \/ /\ req[r].opened # range
         /\ \/ o.key \in Stored /\ Send(r, {stored[o.key]}) /\ Fine
            \/ o.key \notin Stored /\ NotFound(r) /\ Fine
            \/ Faulty /\ Say(r, "error")

\* ServeContent: the whole object, the only range of the header that it has, or several
\* of them, which are sent one after the other unless they are more than the object.
\* HEAD sends none.
ServeContent(r) ==
  LET a == req[r].ask
      size == req[r].object.size
      Serve(step) == IF a.method = "HEAD" THEN Send(r, {}) /\ Fine ELSE step
  IN  \/ ~IsPartial(a) /\ Serve(SendRange(r, Whole(size)))
      \/ /\ IsPartial(a) /\ Fine
         /\ ~IsMalformed(a) => Parts(a, size) = {}
         /\ Say(r, "416")
      \/ /\ IsPartial(a) /\ ~IsMalformed(a)
         /\ \/ \E i \in Parts(a, size) :
                 Parts(a, size) = {i} /\ Serve(SendRange(r, ParseRange(a.range[i], size)))
            \/ /\ \E i, j \in Parts(a, size) : i # j
               /\ Serve(IF IsLong(a, size) THEN SendRange(r, Whole(size))
                        ELSE Go(r, "parts") /\ Fine)

\* The next range of several.  The download that is open can be read once, and the
\* status has been sent when a range turns out to be missing.
SendPart(r) ==
  LET q == req[r]
      i == q.part
      Ranged(n) == ParseRange(q.ask.range[n], q.object.size)
      used == \E n \in 1..(i - 1) : Ranged(n) = q.opened
      Sent(versions) == req' = [req EXCEPT ![r].part = i + 1, ![r].content = @ \cup versions]
  IN  /\ In(r, "parts")
      /\ IF i > Len(q.ask.range) THEN Say(r, "content") /\ Fine
         ELSE \/ Ranged(i) = None /\ Sent({}) /\ Fine
              \/ /\ Ranged(i) # None /\ q.opened = Ranged(i) /\ Fine
                 /\ IF used THEN Say(r, "cut off") ELSE Sent({q.object.size})
              \/ /\ Ranged(i) # None /\ q.opened # Ranged(i)
                 /\ \/ q.object.key \in Stored /\ Sent({stored[q.object.key]}) /\ Fine
                    \/ q.object.key \notin Stored /\ Say(r, "cut off") /\ Fine
                    \/ Faulty /\ Say(r, "cut off")
      /\ Present(r)

\* A file of an archive, in full; the archive may be none.
ServeArchive(r) ==
  \/ req[r].ask.range # None /\ Say(r, "416") /\ Fine
  \/ req[r].ask.range = None /\ Say(r, "archive") /\ Fine
  \/ req[r].ask.range = None /\ Faulty /\ Say(r, "415")

\* The files of an archive; or where the object is, as a map or on a page.
ServePage(r) ==
  \/ /\ Fine
     /\ Say(r, CASE req[r].ask.archive = "/" /\ ~req[r].ask.map -> "listing"
                 [] req[r].ask.map /\ req[r].ask.archive # "/" -> "map"
                 [] req[r].ask.map /\ req[r].ask.archive = "/" -> "listing"
                 [] OTHER -> "page")
  \/ Faulty /\ Say(r, "error")

ShowObject(r) ==
  /\ In(r, "show")
  /\ CASE WantsContent(req[r].ask) /\ req[r].ask.archive = None -> ServeContent(r)
       [] WantsContent(req[r].ask) /\ req[r].ask.archive # None -> ServeArchive(r)
       [] OTHER -> ServePage(r)
  /\ Present(r)

PresentStep(r) ==
  \/ StatIndex(r) \/ StatSlash(r) \/ JoinIndex(r) \/ DownloadFirst(r) \/ StatPlain(r)
  \/ IsPrefixOfObjects(r) \/ StatRoot(r) \/ ServePrefix(r) \/ NotFoundPage(r) \/ ShowObject(r)
  \/ SendPart(r)

\* The server cancels the context of a request that has been answered, which is the
\* context of its goroutine.
Answered(r) ==
  /\ In(r, "done") /\ ~Updating(r, "idle")
  /\ ContextEnds(r) /\ UNCHANGED <<scene, req, stored, writes, broken>>

\* Others write and remove objects.
Write(k) ==
  /\ writes < Scenes[scene].writes /\ writes' = writes + 1
  /\ \E size \in (Size \cup {None}) \ {stored[k]} :
       /\ stored' = [stored EXCEPT ![k] = size]
       /\ req' = IF size # None THEN req
                 ELSE [r \in Fetch |-> [req[r] EXCEPT !.kept = @ \ {k}]]
  /\ UNCHANGED <<txtVars, scene, broken>>

Environment ==
  /\ Scenes[scene].meet /\ (Tick \/ \E h \in Host : ChangeDNS(h))
  /\ UNCHANGED <<scene, req, stored, writes, broken>>

Next ==
  \/ Environment
  \/ \E k \in Key : Write(k)
  \/ \E r \in Fetch :
       \/ Arrive(r) \/ ParseAccess(r) \/ Hosted(r) \/ Certificate(r) \/ Update(r)
       \/ PresentStep(r) \/ Answered(r)

Spec == Init /\ [][Next]_vars
-----------------------------------------------------------------------------
\* The type of every variable; who is being served has an object to show or a host.
LinkTypeOK ==
  /\ TxtTypeOK
  /\ stored \in [Key -> Size \cup {None}] /\ {writes, broken} \subseteq Nat
  /\ \A r \in Fetch :
       /\ In(r, "done") <=> req[r].said \in Answers
       /\ In(r, "show") \/ In(r, "parts") =>
            req[r].object.key \in Key /\ req[r].object.size \in Size
       /\ In(r, "404") => got[r] \in Record
       /\ In(r, "idle") => Updating(r, "idle")

Presented(r) == In(r, "done") /\ Route(req[r].ask) \in {"access", "hosted"}

\* An object that is there from the beginning of a request to its end is not reported
\* as missing, and the request for it is not sent elsewhere; nor is a key reported as
\* missing that has been a prefix of objects all the time, where they can be listed, or
\* listed when it has an index.html; but an object that was found and is gone when it
\* is opened is missing, whatever else is there.
ExistingIsFound ==
  \A r \in Fetch : Presented(r) =>
    LET k == req[r].key
        asPrefix == IF IsEmpty(k) \/ EndsInSlash(k) THEN k ELSE Slashed(k)
    IN  /\ req[r].said \in {"404", "404 page", "redirect"} => k \notin req[r].kept
        /\ req[r].said \in {"404", "404 page"} /\ req[r].object = None =>
             /\ Index(asPrefix) \notin req[r].kept
             /\ req[r].ask.lists => Under(asPrefix, req[r].kept) = {}
        /\ req[r].said = "listing" /\ req[r].object = None =>
             Index(asPrefix) \notin req[r].kept

\* The object, or one range of it, is asked for: not several ranges, not what another
\* version had by If-Range, and not a suffix that is longer than the object.
AsksForOne(a, size) ==
  a.range # None =>
    /\ a.ifRange /\ Len(a.range) = 1
    /\ a.range[1].first # None \/ a.range[1].last \in 1..size

\* Who asks for the object or for one range of it, and whose download was opened first,
\* is sent the version that the headers speak of, even if the object is overwritten
\* meanwhile: optionsToRange and httpranger agree on the range, so that it is not opened
\* again.  (Several ranges, and a whole object because of If-Range, are downloads of
\* their own: they may be of other versions.)
ServesOneVersion ==
  \A r \in Fetch :
    LET o == req[r].object
    IN  /\ In(r, "done") /\ req[r].said = "content" /\ req[r].ask.method = "GET"
        /\ req[r].opened # None /\ AsksForOne(req[r].ask, o.size)
        => req[r].content = {o.size}

\* What is said of optionsToRange: what it makes of a header of one range, of a byte at
\* least, is what httpranger produces, so later calls to Ranger do not end in a cache
\* miss.
NoCacheMiss ==
  \A r \in Fetch :
    LET a == req[r].ask
        range == IF a.range = None THEN Whole(req[r].object.size)
                 ELSE ParseRange(a.range[1], req[r].object.size)
    IN  /\ In(r, "show") /\ req[r].opened # None
        /\ a.range # None => Len(a.range) = 1 /\ range # None /\ range.length > 0
        => req[r].opened = range

\* A page load after the TTL flushes the cache: who comes after the update that it has
\* started is over does not get the record of the host any more that had expired.
FlushedByLoad ==
  \A r, s \in Fetch :
    /\ s \in req[r].after /\ req[s].ask.host = req[r].ask.host
    /\ got[s] \notin {None, Failed} /\ got[s].expires < req[s].at
    => got[r] # got[s]
=============================================================================
