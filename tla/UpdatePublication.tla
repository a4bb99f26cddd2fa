--------------------------- MODULE UpdatePublication ---------------------------
(***************************************************************************)
(* How an update gets published, and how "the latest update" is found.     *)
(*                                                                         *)
(* Scope: one app, one branch, one runtime version.  Every bucket path and *)
(* every cache key carries the three of them, so two scopes never meet.    *)
(* Platforms do meet: updates of all platforms share the list of folders.  *)
(*                                                                         *)
(* Actors: publishing CLIs (Client), the goroutines that serve the POST    *)
(* handlers (Handler), /manifest and /assets requests (Reader), and the    *)
(* prewarm goroutines that MarkUpdateAsChecked spawns (Handler x Platform).*)
(* One step of an actor is one access to the bucket or to the cache that   *)
(* another actor can see the effect of; between two steps anything can run.*)
(*                                                                         *)
(* A definition X_Y, right above X, is X with a bug in it: the properties  *)
(* at the end of the module tell it from X.  Nothing else uses it.         *)
(***************************************************************************)
EXTENDS Integers, FiniteSets

CONSTANTS
  Client,     \* runs of `eoas publish`, one platform each
  Handler,    \* requests to the mark / rollback / republish handlers
  Reader,     \* concurrent device requests that ask for the latest update
  Platform,   \* {"ios", "android"}
  Content,    \* exported bundles: what metadata.json describes
  Asset,      \* the bundle and asset files of an export
  MaxId,      \* bound on the millisecond timestamps used as update ids
  ListLimit,  \* how many folders one listing returns: S3Bucket.GetUpdates reads
              \* one page of at most 1000, the other buckets list them all
  Env,        \* what the environment may do, see EnvKinds
  None        \* an absent file or cache entry

\* "retry"      a client loses the connection and fetchWithRetries posts again
\* "same_ms"    two requests read the same millisecond from the clock
\* "early_mark" a client marks an update before all its files are uploaded
\* "crash"      the server process dies and is started again
\* "io_error"   a call to the bucket fails
EnvKinds == {"retry", "same_ms", "early_mark", "crash", "io_error"}

Warmer == Handler \X Platform
Proc == Handler \cup Reader \cup Warmer

ASSUME ConstantsAssumption ==
  /\ MaxId \in Nat
  /\ ListLimit \in Nat \ {0}
  /\ Env \subseteq EnvKinds
  /\ None \notin Platform \cup Content \cup Handler \cup {"mark", "rollback", "republish"}
  /\ "metadata.json" \notin Asset
  /\ Handler \cap Reader = {}
  /\ (Handler \cup Reader) \cap Warmer = {}

VARIABLES
  clock,          \* the next millisecond of the server's clock
  bucket,         \* update folders by update id
  lastUpdate,     \* cache: the lastUpdate:... key of each platform
  metadataCache,  \* cache: the metadata:... key of each update, never expires
  cpc, want, mine, sent, serving,                       \* clients
  pc, op, upd, source, key,                             \* server goroutines
  plat, unread, cands, latest, floor                    \* and their lookups

bucketVars == <<clock, bucket>>
cacheVars == <<lastUpdate, metadataCache>>
clientVars == <<cpc, want, mine, sent, serving>>
lookupVars == <<plat, unread, cands, latest, floor>>
vars == <<bucketVars, cacheVars, clientVars, pc, op, upd, source, key, lookupVars>>

\* Update ids are positive; 0 stands for "no update" (a nil *types.Update).
Id == 1..MaxId
NoUpdate == 0

\* update-metadata.json (its platform, and whether it holds the update UUID),
\* metadata.json, the assets, and the two marker files.
Folder == [stored   : Platform \cup {None},
           uuid     : BOOLEAN,
           meta     : Content \cup {None},
           assets   : SUBSET Asset,
           rollback : BOOLEAN,
           check    : BOOLEAN]

EmptyFolder == [stored |-> None, uuid |-> FALSE, meta |-> None,
                assets |-> {}, rollback |-> FALSE, check |-> FALSE]

\* A folder once createUpdateMetadata has been written into it for platform p,
\* and once the files of folder g have been copied over its own.
Described(f, p) == [f EXCEPT !.stored = p, !.uuid = FALSE]
Overlaid_FilesOnly(f, g) == [f EXCEPT !.meta = IF g.meta # None THEN g.meta ELSE @]
Overlaid_WithCheck(f, g) == [f EXCEPT !.meta = IF g.meta # None THEN g.meta ELSE @,
                                      !.assets = @ \cup g.assets, !.check = g.check]
Overlaid(f, g) == [f EXCEPT !.meta = IF g.meta # None THEN g.meta ELSE @,
                            !.assets = @ \cup g.assets,
                            !.rollback = @ \/ g.rollback]

Upload == Asset \cup {"metadata.json"}

Answers == {"ok", "identical", "invalid", "failed", "crashed"}
Lookup == {"get", "list", "filter", "scan", "fill", "found"}
Working == {"verify", "discardInvalid", "discardDuplicate", "copy", "describe",
            "flag", "firstUUID", "retrieve", "uuid", "check", "invalidate"}

--------------------------------------------------------------------------------
(* The bucket as the handlers read it. *)

\* GetMetadata: the cached copy if there is one, the file otherwise.
MetadataOf(u) == IF metadataCache[u] # None THEN metadataCache[u] ELSE bucket[u].meta

\* metadataCache once GetMetadata has been called on the updates of us.  A
\* missing file yields an empty metadata that is not cached.
Remember(us) ==
  metadataCache' = [u \in Id |-> IF u \in us THEN MetadataOf(u) ELSE metadataCache[u]]

IsUpdateValid_Described(u) == bucket[u].stored # None
IsUpdateValid(u) == bucket[u].check

\* Bucket.GetUpdates: the folders there are, in ascending order and cut off after
\* the first ListLimit.
Existing == {u \in Id : bucket[u] # EmptyFolder}
GetUpdates == {u \in Existing : Cardinality({v \in Existing : v < u}) < ListLimit}

\* filterPlatformUpdates reads update-metadata.json of the listed updates in that
\* order, and keeps those that name platform p.
NextToRead(us) == {u \in us : \A v \in us : u <= v}
IsFor_AnyPlatform(u, p) == bucket[u].stored # None
IsFor(u, p) == bucket[u].stored = p

Newest(us) == CHOOSE u \in us : \A v \in us : v <= u

\* sortUpdates is newest first: what the scan looks at next.
NextToScan_OldestFirst(us) == CHOOSE u \in us : \A v \in us : u <= v
NextToScan(us) == Newest(us)

\* What devices should be offered, for the properties.
Published(p) == {u \in Id : bucket[u].stored = p /\ bucket[u].check}
LatestPublished(p) == IF Published(p) = {} THEN NoUpdate ELSE Newest(Published(p))

--------------------------------------------------------------------------------
Init ==
  /\ clock = 1
  /\ bucket = [u \in Id |-> EmptyFolder]
  /\ lastUpdate = [p \in Platform |-> NoUpdate]
  /\ metadataCache = [u \in Id |-> None]
  /\ cpc = [c \in Client |-> "idle"]
  /\ want \in [Client -> [platform : Platform, content : Content]]
  /\ mine = [c \in Client |-> NoUpdate]
  /\ sent = [c \in Client |-> {}]
  /\ serving = [c \in Client |-> None]
  /\ pc = [q \in Proc |-> "idle"]
  /\ op = [h \in Handler |-> None]
  /\ upd = [h \in Handler |-> NoUpdate]
  /\ source = [h \in Handler |-> NoUpdate]
  /\ key = [h \in Handler |-> None]
  /\ plat = [q \in Proc |-> None]
  /\ unread = [q \in Proc |-> {}]
  /\ cands = [q \in Proc |-> {}]
  /\ latest = [q \in Proc |-> NoUpdate]
  /\ floor = [q \in Proc |-> NoUpdate]

\* fetchWithRetries posts a request again when the connection breaks, whatever the
\* server has made of it.
MayRetry == "retry" \in Env

\* GenerateUpdateTimestamp: u is the current millisecond.  The clock moves on
\* before the next request reads it, unless the environment is "same_ms".
Timestamp_Coarse(u) == u = clock /\ u \in Id /\ clock' \in {clock, clock + 1}
Timestamp(u) ==
  /\ u = clock
  /\ u \in Id
  /\ clock' \in IF "same_ms" \in Env THEN {clock, clock + 1} ELSE {clock + 1}

--------------------------------------------------------------------------------
(* The publishing client, and the two requests it makes before marking. *)

\* RequestUploadUrlHandler up to the upload URLs.  A client that lost the
\* response asks again and forgets the first update id.
RequestUploadUrl(c) ==
  /\ \/ cpc[c] = "idle"
     \/ MayRetry /\ cpc[c] = "uploading" /\ sent[c] = {}
  /\ \E u \in Id : Timestamp(u) /\ mine' = [mine EXCEPT ![c] = u]
  /\ cpc' = [cpc EXCEPT ![c] = "requesting"]
  /\ UNCHANGED <<bucket, cacheVars, want, sent, serving, pc, op, upd, source, key, lookupVars>>

\* The rest of RequestUploadUrlHandler: update-metadata.json is written and the
\* client gets its answer.
StoreUploadMetadata(c) ==
  /\ cpc[c] = "requesting"
  /\ bucket' = [bucket EXCEPT ![mine[c]] = Described(@, want[c].platform)]
  /\ cpc' = [cpc EXCEPT ![c] = "uploading"]
  /\ UNCHANGED <<clock, cacheVars, want, mine, sent, serving, pc, op, upd, source, key, lookupVars>>

\* One PUT, to the local upload handler or to a presigned URL.
UploadFile_KeepsManifest(c, f) ==
  /\ cpc[c] = "uploading"
  /\ f \notin sent[c]
  /\ sent' = [sent EXCEPT ![c] = @ \cup {f}]
  /\ bucket' = [bucket EXCEPT ![mine[c]].assets = @ \cup {f}]
  /\ UNCHANGED <<clock, cacheVars, cpc, want, mine, serving, pc, op, upd, source, key, lookupVars>>
UploadFile(c, f) ==
  /\ cpc[c] = "uploading"
  /\ f \notin sent[c]
  /\ sent' = [sent EXCEPT ![c] = @ \cup {f}]
  /\ \/ /\ f = "metadata.json"
        /\ bucket' = [bucket EXCEPT ![mine[c]].meta = want[c].content]
     \/ /\ f \in Asset
        /\ bucket' = [bucket EXCEPT ![mine[c]].assets = @ \cup {f}]
  /\ UNCHANGED <<clock, cacheVars, cpc, want, mine, serving, pc, op, upd, source, key, lookupVars>>

\* The client posts markUpdateAsUploaded and handler h takes the request: the
\* first time once its uploads are done, again when the connection broke while
\* an earlier request was being served (or after it was).
PostMark(c, h) ==
  /\ \/ cpc[c] = "uploading" /\ (sent[c] = Upload \/ "early_mark" \in Env)
     \/ cpc[c] = "waiting" /\ MayRetry
  /\ pc[h] = "idle"
  /\ cpc' = [cpc EXCEPT ![c] = "waiting"]
  /\ serving' = [serving EXCEPT ![c] = h]
  /\ pc' = [pc EXCEPT ![h] = "verify"]
  /\ op' = [op EXCEPT ![h] = "mark"]
  /\ upd' = [upd EXCEPT ![h] = mine[c]]
  /\ plat' = [plat EXCEPT ![h] = want[c].platform]
  /\ UNCHANGED <<bucketVars, cacheVars, want, mine, sent, source, key, unread, cands, latest, floor>>

ReceiveAnswer(c) ==
  /\ cpc[c] = "waiting"
  /\ pc[serving[c]] \in Answers
  /\ cpc' = [cpc EXCEPT ![c] = pc[serving[c]]]
  /\ UNCHANGED <<bucketVars, cacheVars, want, mine, sent, serving, pc, op, upd, source, key, lookupVars>>

--------------------------------------------------------------------------------
(* GetLatestUpdateBundlePathForRuntimeVersion, run by any goroutine q. *)

LookupUnchanged == UNCHANGED <<bucketVars, metadataCache, clientVars, op, upd, source, key, plat>>

GetCached(q) ==
  /\ pc[q] = "get"
  /\ \/ /\ lastUpdate[plat[q]] # NoUpdate
        /\ latest' = [latest EXCEPT ![q] = lastUpdate[plat[q]]]
        /\ pc' = [pc EXCEPT ![q] = "found"]
     \/ /\ lastUpdate[plat[q]] = NoUpdate
        /\ pc' = [pc EXCEPT ![q] = "list"]
        /\ UNCHANGED latest
  /\ UNCHANGED <<lastUpdate, unread, cands, floor>>
  /\ LookupUnchanged

\* GetAllUpdatesForRuntimeVersion: one listing, then a read for each folder listed.
\* floor only records, for the properties, what the latest published update was
\* when the folders were listed.
AfterListing(q) == pc' = [pc EXCEPT ![q] = IF unread'[q] = {} THEN "scan" ELSE "filter"]

ListUpdates(q) ==
  /\ pc[q] = "list"
  /\ unread' = [unread EXCEPT ![q] = GetUpdates]
  /\ cands' = [cands EXCEPT ![q] = {}]
  /\ floor' = [floor EXCEPT ![q] = LatestPublished(plat[q])]
  /\ AfterListing(q)
  /\ UNCHANGED <<lastUpdate, latest>>
  /\ LookupUnchanged

FilterUpdate(q) ==
  /\ pc[q] = "filter"
  /\ \E u \in NextToRead(unread[q]) :
       /\ unread' = [unread EXCEPT ![q] = @ \ {u}]
       /\ cands' = [cands EXCEPT ![q] = IF IsFor(u, plat[q]) THEN @ \cup {u} ELSE @]
  /\ AfterListing(q)
  /\ UNCHANGED <<lastUpdate, latest, floor>>
  /\ LookupUnchanged

\* One turn of the loop over the listed updates, newest first.  The code goes
\* on after the first valid one, but only ever uses that one.
ScanUpdate(q) ==
  /\ pc[q] = "scan"
  /\ \/ /\ cands[q] = {}
        /\ latest' = [latest EXCEPT ![q] = NoUpdate]
        /\ pc' = [pc EXCEPT ![q] = "found"]
        /\ UNCHANGED cands
     \/ /\ cands[q] # {}
        /\ LET u == NextToScan(cands[q]) IN
             \/ /\ IsUpdateValid(u)
                /\ latest' = [latest EXCEPT ![q] = u]
                /\ pc' = [pc EXCEPT ![q] = "fill"]
                /\ cands' = [cands EXCEPT ![q] = {}]
             \/ /\ ~ IsUpdateValid(u)
                /\ cands' = [cands EXCEPT ![q] = @ \ {u}]
                /\ UNCHANGED <<latest, pc>>
  /\ UNCHANGED <<lastUpdate, unread, floor>>
  /\ LookupUnchanged

\* cache.Set with a TTL of 1800 seconds.  floor has served its purpose.
FillCache(q) ==
  /\ pc[q] = "fill"
  /\ lastUpdate' = [lastUpdate EXCEPT ![plat[q]] = latest[q]]
  /\ pc' = [pc EXCEPT ![q] = "found"]
  /\ floor' = [floor EXCEPT ![q] = NoUpdate]
  /\ UNCHANGED <<unread, cands, latest>>
  /\ LookupUnchanged

LookupStep(q) ==
  GetCached(q) \/ ListUpdates(q) \/ FilterUpdate(q) \/ ScanUpdate(q) \/ FillCache(q)

\* The TTL of a lastUpdate entry runs out.
ExpireLastUpdate_IfGone(p) ==
  /\ lastUpdate[p] # NoUpdate /\ ~ IsUpdateValid(lastUpdate[p])
  /\ lastUpdate' = [lastUpdate EXCEPT ![p] = NoUpdate]
  /\ UNCHANGED <<bucketVars, metadataCache, clientVars, pc, op, upd, source, key, lookupVars>>
ExpireLastUpdate(p) ==
  /\ lastUpdate[p] # NoUpdate
  /\ lastUpdate' = [lastUpdate EXCEPT ![p] = NoUpdate]
  /\ UNCHANGED <<bucketVars, metadataCache, clientVars, pc, op, upd, source, key, lookupVars>>

\* A device request: ManifestHandler, or the getAssetMetadata of a download.
StartRead(r, p) ==
  /\ pc[r] = "idle"
  /\ pc' = [pc EXCEPT ![r] = "get"]
  /\ plat' = [plat EXCEPT ![r] = p]
  /\ UNCHANGED <<bucketVars, cacheVars, clientVars, op, upd, source, key, unread, cands, latest, floor>>

\* The reader, or the prewarm goroutine, goes on with the update it found.
FinishRead(q) ==
  /\ q \in Reader \cup Warmer
  /\ pc[q] = "found"
  /\ pc' = [pc EXCEPT ![q] = "idle"]
  /\ IF latest[q] = NoUpdate \/ (q \in Reader /\ bucket[latest[q]].rollback)
       THEN UNCHANGED metadataCache ELSE Remember({latest[q]})
  /\ plat' = [plat EXCEPT ![q] = None]
  /\ latest' = [latest EXCEPT ![q] = NoUpdate]
  /\ floor' = [floor EXCEPT ![q] = NoUpdate]
  /\ UNCHANGED <<bucketVars, lastUpdate, clientVars, op, upd, source, key, unread, cands>>

--------------------------------------------------------------------------------
(* MarkUpdateAsUploadedHandler. *)

HandlerUnchanged == UNCHANGED <<clientVars, op, source, lookupVars>>

Goto(h, label) == pc' = [pc EXCEPT ![h] = label]

\* VerifyUploadedUpdate.  GetFile answers nil without an error for a file that
\* does not exist, so only a missing or empty metadata.json makes it fail.
VerifyUploadedUpdate(h) ==
  /\ pc[h] = "verify"
  /\ Remember({upd[h]})
  /\ \/ MetadataOf(upd[h]) = None /\ Goto(h, "discardInvalid")
     \/ MetadataOf(upd[h]) # None /\ Goto(h, "get")
  /\ UNCHANGED <<bucketVars, lastUpdate, upd, key>>
  /\ HandlerUnchanged

\* With the latest update at hand: nothing to compare with, a rollback, or the
\* fingerprints of the two metadata.json.  The latest one is not used again.
CompareWithLatest(h) ==
  /\ pc[h] = "found"
  /\ LET l == latest[h] IN
       \/ /\ l = NoUpdate
          /\ Goto(h, "retrieve")
          /\ UNCHANGED metadataCache
       \/ /\ l # NoUpdate
          /\ bucket[l].rollback
          /\ Goto(h, "retrieve")
          /\ UNCHANGED metadataCache
       \/ /\ l # NoUpdate
          /\ ~ bucket[l].rollback
          /\ Goto(h, IF MetadataOf(upd[h]) = MetadataOf(l) THEN "discardDuplicate" ELSE "retrieve")
          /\ Remember({upd[h], l})
  /\ UNCHANGED <<bucketVars, lastUpdate, upd, key>>
  /\ latest' = [latest EXCEPT ![h] = NoUpdate]
  /\ floor' = [floor EXCEPT ![h] = NoUpdate]
  /\ UNCHANGED <<clientVars, op, source, plat, unread, cands>>

\* DeleteUpdateFolder, then 400 or 406.  No cache entry is touched.
DiscardUpdate(h) ==
  /\ pc[h] \in {"discardInvalid", "discardDuplicate"}
  /\ bucket' = [bucket EXCEPT ![upd[h]] = EmptyFolder]
  /\ Goto(h, IF pc[h] = "discardInvalid" THEN "invalid" ELSE "identical")
  /\ UNCHANGED <<clock, cacheVars, upd, key>>
  /\ HandlerUnchanged

--------------------------------------------------------------------------------
(* CreateRollback and RepublishUpdate, up to MarkUpdateAsChecked. *)

StartRollback(h, p) ==
  /\ pc[h] = "idle"
  /\ \E u \in Id : Timestamp(u) /\ upd' = [upd EXCEPT ![h] = u]
  /\ op' = [op EXCEPT ![h] = "rollback"]
  /\ plat' = [plat EXCEPT ![h] = p]
  /\ Goto(h, "describe")
  /\ UNCHANGED <<bucket, cacheVars, clientVars, source, key, unread, cands, latest, floor>>

\* The guards of RepublishHandler in the order of the code: a normal update,
\* described, valid, of the requested platform.  GetUpdateType drops the error of
\* its read and takes any update for a normal one.  (The lookups that ask for the
\* type go on the same way: a rollback has no metadata to compare or to cache.)
StartRepublish(h, p, u) ==
  /\ pc[h] = "idle"
  /\ ~ bucket[u].rollback \/ "io_error" \in Env
  /\ bucket[u].stored # None
  /\ IsUpdateValid(u)
  /\ bucket[u].stored = p
  /\ source' = [source EXCEPT ![h] = u]
  /\ \E v \in Id : Timestamp(v) /\ upd' = [upd EXCEPT ![h] = v]
  /\ op' = [op EXCEPT ![h] = "republish"]
  /\ plat' = [plat EXCEPT ![h] = p]
  /\ Goto(h, "copy")
  /\ UNCHANGED <<bucket, cacheVars, clientVars, key, unread, cands, latest, floor>>

\* CreateUpdateFrom copies everything but update-metadata.json and .check.  When
\* the source is gone the local bucket fails; an object store copies nothing.
CopyUpdate(h) ==
  /\ pc[h] = "copy"
  /\ LET src == bucket[source[h]] IN
       \/ /\ bucket' = [bucket EXCEPT ![upd[h]] = Overlaid(@, src)]
          /\ Goto(h, "describe")
       \/ /\ src = EmptyFolder
          /\ Goto(h, "failed")
          /\ UNCHANGED bucket
  /\ UNCHANGED <<clock, cacheVars, upd, key>>
  /\ HandlerUnchanged

DescribeUpdate(h) ==
  /\ pc[h] = "describe"
  /\ bucket' = [bucket EXCEPT ![upd[h]] = Described(@, plat[h])]
  /\ Goto(h, IF op[h] = "rollback" THEN "flag" ELSE "firstUUID")
  /\ UNCHANGED <<clock, cacheVars, upd, key>>
  /\ HandlerUnchanged

FlagRollback(h) ==
  /\ pc[h] = "flag"
  /\ bucket' = [bucket EXCEPT ![upd[h]].rollback = TRUE]
  /\ Goto(h, "firstUUID")
  /\ UNCHANGED <<clock, cacheVars, upd, key>>
  /\ HandlerUnchanged

--------------------------------------------------------------------------------
(* MarkUpdateAsChecked, the common end of the three handlers. *)

\* StoreUpdateUUIDInMetadata.  Without update-metadata.json it dereferences a
\* nil file and the request ends in a recovered panic.  A rollback has no
\* metadata.json, and the UUID of an empty hash is the empty string.
StoreUpdateUUID(h) ==
  /\ pc[h] \in {"firstUUID", "uuid"}
  /\ \/ /\ bucket[upd[h]].stored = None
        /\ Goto(h, "failed")
        /\ UNCHANGED <<bucket, metadataCache>>
     \/ /\ bucket[upd[h]].stored # None
        /\ bucket' = [bucket EXCEPT ![upd[h]].uuid = (MetadataOf(upd[h]) # None)]
        /\ Remember({upd[h]})
        /\ Goto(h, IF pc[h] = "firstUUID" THEN "retrieve" ELSE "check")
  /\ UNCHANGED <<clock, lastUpdate, upd, key>>
  /\ HandlerUnchanged

\* The first read: without stored metadata the function returns a nil error,
\* which the handlers report as success.
RetrieveStoredMetadata(h) ==
  /\ pc[h] = "retrieve"
  /\ \/ /\ bucket[upd[h]].stored = None
        /\ Goto(h, "ok")
        /\ UNCHANGED key
     \/ /\ bucket[upd[h]].stored # None
        /\ Goto(h, "uuid")
        /\ key' = [key EXCEPT ![h] = bucket[upd[h]].stored]
  /\ UNCHANGED <<bucketVars, cacheVars, upd>>
  /\ HandlerUnchanged

WriteCheck(h) ==
  /\ pc[h] = "check"
  /\ bucket' = [bucket EXCEPT ![upd[h]].check = TRUE]
  /\ Goto(h, "invalidate")
  /\ UNCHANGED <<clock, cacheVars, upd, key>>
  /\ HandlerUnchanged

\* cache.Delete of the lastUpdate key, then a prewarm goroutine per platform.
InvalidateAndPreWarm(h) ==
  /\ pc[h] = "invalidate"
  /\ lastUpdate' = [lastUpdate EXCEPT ![key[h]] = NoUpdate]
  /\ pc' = [q \in Proc |-> IF q = h THEN "ok"
                           ELSE IF q \in {h} \X Platform THEN "get" ELSE pc[q]]
  /\ plat' = [q \in Proc |-> IF q \in {h} \X Platform THEN q[2] ELSE plat[q]]
  /\ UNCHANGED <<bucketVars, metadataCache, clientVars, op, upd, source, key, unread, cands, latest, floor>>

HandlerStep(h) ==
  \/ VerifyUploadedUpdate(h) \/ CompareWithLatest(h) \/ DiscardUpdate(h)
  \/ CopyUpdate(h) \/ DescribeUpdate(h) \/ FlagRollback(h)
  \/ RetrieveStoredMetadata(h) \/ StoreUpdateUUID(h) \/ WriteCheck(h)
  \/ InvalidateAndPreWarm(h)

--------------------------------------------------------------------------------
(* Calls to the bucket that fail, and what the code makes of it. *)

\* filterPlatformUpdates and IsUpdateValid drop the error and leave the update out.
\* A lookup that cannot list the updates fails, or finds none in a LocalBucket;
\* the mark handler goes on as if there were none.  MarkUpdateAsChecked drops the
\* error of the .check write.
BucketError_CopyIgnored(q) ==
  /\ "io_error" \in Env
  /\ pc[q] = "copy" /\ Goto(q, "describe")
  /\ UNCHANGED <<bucketVars, cacheVars, clientVars, op, upd, source, key, lookupVars>>
FailedCall(q) ==
  \/ pc[q] = "list" /\ Goto(q, IF q \in Handler THEN "retrieve" ELSE "idle")
  \/ pc[q] = "verify" /\ Goto(q, "discardInvalid")
  \/ pc[q] = "check" /\ Goto(q, "invalidate")
  \/ /\ \/ pc[q] \in {"discardInvalid", "discardDuplicate", "copy", "describe", "flag",
                       "firstUUID", "retrieve", "uuid"}
        \/ pc[q] = "found" /\ q \in Handler /\ latest[q] # NoUpdate
     /\ Goto(q, "failed")
BucketError(q) ==
  /\ "io_error" \in Env
  /\ \/ /\ pc[q] = "filter"
        /\ unread' = [unread EXCEPT ![q] = @ \ NextToRead(@)]
        /\ AfterListing(q)
        /\ UNCHANGED cands
     \/ /\ pc[q] = "scan" /\ cands[q] # {}
        /\ cands' = [cands EXCEPT ![q] = @ \ {NextToScan(@)}]
        /\ UNCHANGED <<pc, unread>>
     \/ FailedCall(q) /\ UNCHANGED <<unread, cands>>
  /\ UNCHANGED <<bucketVars, cacheVars, clientVars, op, upd, source, key, plat, latest, floor>>

\* The request for upload URLs, or an upload, fails: the client exits.
ClientError(c) ==
  /\ "io_error" \in Env
  /\ cpc[c] \in {"requesting", "uploading"}
  /\ cpc' = [cpc EXCEPT ![c] = "failed"]
  /\ UNCHANGED <<bucketVars, cacheVars, want, mine, sent, serving, pc, op, upd, source, key,
                 lookupVars>>

--------------------------------------------------------------------------------
\* The server process dies with everything it was doing.  A LocalCache dies with
\* it, a Redis cache does not.  The bucket keeps what was written.
Crash ==
  /\ "crash" \in Env
  /\ \E h \in Handler : pc[h] \in Working \cup Lookup
  /\ pc' = [q \in Proc |-> IF q \notin Handler THEN "idle"
                           ELSE IF pc[q] \in Working \cup Lookup THEN "crashed" ELSE pc[q]]
  /\ \/ /\ lastUpdate' = [p \in Platform |-> NoUpdate]
        /\ metadataCache' = [u \in Id |-> None]
     \/ UNCHANGED cacheVars
  /\ cpc' = [c \in Client |-> IF cpc[c] # "requesting" THEN cpc[c]
                             ELSE IF MayRetry THEN "idle" ELSE "failed"]
  /\ unread' = [q \in Proc |-> {}]
  /\ cands' = [q \in Proc |-> {}]
  /\ latest' = [q \in Proc |-> NoUpdate]
  /\ floor' = [q \in Proc |-> NoUpdate]
  /\ UNCHANGED <<bucketVars, want, mine, sent, serving, op, upd, source, key, plat>>

Next ==
  \/ \E c \in Client :
       \/ RequestUploadUrl(c) \/ StoreUploadMetadata(c) \/ ReceiveAnswer(c)
       \/ \E f \in Upload : UploadFile(c, f)
       \/ \E h \in Handler : PostMark(c, h)
       \/ ClientError(c)
  \/ \E q \in Proc : LookupStep(q) \/ FinishRead(q) \/ BucketError(q)
  \/ \E r \in Reader, p \in Platform : StartRead(r, p)
  \/ \E p \in Platform : ExpireLastUpdate(p)
  \/ \E h \in Handler :
       \/ HandlerStep(h)
       \/ \E p \in Platform : StartRollback(h, p)
       \/ \E p \in Platform, u \in Id : StartRepublish(h, p, u)
  \/ Crash

Spec == Init /\ [][Next]_vars

\* Goroutines are scheduled and TTLs run out; nobody has to publish or to read.
Fairness ==
  /\ \A h \in Handler : WF_vars(HandlerStep(h))
  /\ \A q \in Proc : WF_vars(LookupStep(q) \/ FinishRead(q))
  /\ \A p \in Platform : WF_vars(ExpireLastUpdate(p))

FairSpec == Spec /\ Fairness

--------------------------------------------------------------------------------
(* Properties. *)

TypeOK ==
  /\ clock \in 1..(MaxId + 1)
  /\ bucket \in [Id -> Folder]
  /\ lastUpdate \in [Platform -> Id \cup {NoUpdate}]
  /\ metadataCache \in [Id -> Content \cup {None}]
  /\ cpc \in [Client -> {"idle", "requesting", "uploading", "waiting"} \cup Answers]
  /\ want \in [Client -> [platform : Platform, content : Content]]
  /\ mine \in [Client -> Id \cup {NoUpdate}]
  /\ sent \in [Client -> SUBSET Upload]
  /\ serving \in [Client -> Handler \cup {None}]
  /\ pc \in [Proc -> {"idle"} \cup Working \cup Lookup \cup Answers]
  /\ op \in [Handler -> {"mark", "rollback", "republish", None}]
  /\ upd \in [Handler -> Id \cup {NoUpdate}]
  /\ source \in [Handler -> Id \cup {NoUpdate}]
  /\ key \in [Handler -> Platform \cup {None}]
  /\ plat \in [Proc -> Platform \cup {None}]
  /\ unread \in [Proc -> SUBSET Id]
  /\ cands \in [Proc -> SUBSET Id]
  /\ latest \in [Proc -> Id \cup {NoUpdate}]
  /\ floor \in [Proc -> Id \cup {NoUpdate}]

\* What a folder must hold before devices may be sent to it.
Complete(u) ==
  /\ bucket[u].stored # None
  /\ \/ bucket[u].rollback
     \/ bucket[u].meta # None /\ bucket[u].assets = Asset /\ bucket[u].uuid

\* .check is "the update is complete and pickable": a published folder has its
\* description, and is a rollback or has bundle, assets and update UUID, however
\* requests, republished copies and crashes interleave (MarkUpdateAsChecked).
PublishedIsComplete == \A u \in Id : bucket[u].check => Complete(u)

\* A client that is told 200 has its own bundle published, for its platform.
AckedIsPublished ==
  \A c \in Client : cpc[c] = "ok" =>
    LET f == bucket[mine[c]] IN
      /\ f.check /\ ~ f.rollback
      /\ f.stored = want[c].platform
      /\ f.meta = want[c].content

\* A client that is told 406, "you have already uploaded this update", has its
\* bundle published for its platform, if not under the update id it used.
IdenticalIsPublished ==
  \A c \in Client : cpc[c] = "identical" =>
    \E u \in Published(want[c].platform) : bucket[u].meta = want[c].content

\* Whatever a lookup answers, and whatever it leaves in the cache for later
\* ones, is a published update of the platform that was asked for.
AnswersArePublished ==
  /\ \A q \in Proc : pc[q] \in {"fill", "found"} /\ latest[q] # NoUpdate =>
       latest[q] \in Published(plat[q])
  /\ \A p \in Platform : lastUpdate[p] # NoUpdate => lastUpdate[p] \in Published(p)

\* A lookup that had to scan the bucket, one file at a time and while updates
\* come and go, answers no older update than the latest one when it listed them.
\* It needs listings that return every folder, and calls that do not fail.
ScanIsFresh == \A q \in Proc : pc[q] = "fill" => latest[q] >= floor[q]

\* A published update is never changed or withdrawn again: devices, the dashboard
\* and republish rely on it, as all caches but lastUpdate never expire.
PublishedIsImmutable ==
  [][\A u \in Id : bucket[u].check => bucket'[u] = bucket[u]]_vars

\* Whatever races filled the cache with, it ends up agreeing with the bucket once
\* publishing stops: the 1800 second TTL ends every poisoned entry.
EventuallyFresh ==
  <>[](\A p \in Platform : lastUpdate[p] \in {NoUpdate, LatestPublished(p)})

\* Once the rollback handler has answered, and unless something newer has been
\* published, the latest update is the rollback and no cached predecessor.
RollbackIsLatest ==
  \A h \in Handler :
    op[h] = "rollback" /\ pc[h] = "ok" /\ upd[h] = LatestPublished(plat[h]) =>
      lastUpdate[plat[h]] \in {NoUpdate, upd[h]}

\* The promise of publishing: folders, markers and caches implement a log of
\* releases that grows one whole release at a time.
ReleaseOf(u) ==
  [id |-> u, platform |-> bucket[u].stored,
   payload |-> IF bucket[u].rollback THEN None ELSE bucket[u].meta]

Promise == INSTANCE ReleaseLog WITH
  log    <- {ReleaseOf(u) : u \in {v \in Id : bucket[v].check}},
  acked  <- [c \in Client |-> IF cpc[c] = "ok" THEN ReleaseOf(mine[c]) ELSE None],
  answer <- [r \in Reader |-> IF pc[r] = "found" /\ latest[r] # NoUpdate
                               THEN ReleaseOf(latest[r]) ELSE None]

ImplementsReleaseLog == Promise!Spec

================================================================================
