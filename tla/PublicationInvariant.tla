-------------------------- MODULE PublicationInvariant -------------------------
(***************************************************************************)
(* The inductive invariant of UpdatePublication when no two requests share *)
(* a millisecond, no client posts a mark twice, and none marks an update   *)
(* before it has been uploaded.  Crashes and bucket errors are allowed.    *)
(***************************************************************************)
EXTENDS UpdatePublication

Orderly == Env \subseteq {"crash", "io_error"}

\* Without bucket errors .check is there once MarkUpdateAsChecked is past it.
Reliable == "io_error" \notin Env

\* The bucket's listing returns every folder: a LocalBucket or a GCSBucket, or an
\* S3Bucket with at most 1000 updates of the runtime version.
ListsAll == MaxId <= ListLimit

\* What TypeOK needs to be inductive, in every environment: whoever is at work
\* knows its platform and its update id, and a copy its source.
Addressed ==
  /\ \A c \in Client : cpc[c] # "idle" => mine[c] \in Id
  /\ \A h \in Handler : pc[h] # "idle" => upd[h] \in Id
  /\ \A q \in Proc : pc[q] # "idle" => plat[q] \in Platform
  /\ \A h \in Handler : pc[h] = "copy" => source[h] \in Id

(* Who may write into which folder: every update id has one owner. *)

OwnId(c) ==
  /\ mine[c] < clock
  /\ cpc[c] # "idle" => mine[c] # NoUpdate
  /\ cpc[c] \in {"idle", "requesting", "uploading"} => serving[c] = None
  /\ cpc[c] = "waiting" => serving[c] # None
  /\ cpc[c] \in {"idle", "requesting"} => sent[c] = {}
  /\ \A d \in Client : mine[c] # NoUpdate /\ mine[c] = mine[d] => c = d

OwnWork(h) ==
  /\ upd[h] < clock
  /\ pc[h] = "idle" <=> op[h] = None
  /\ op[h] = None => upd[h] = NoUpdate
  /\ op[h] # None => upd[h] # NoUpdate /\ plat[h] \in Platform
  /\ \A g \in Handler : upd[h] # NoUpdate /\ upd[h] = upd[g] => h = g
  /\ op[h] \in {"rollback", "republish"} => \A c \in Client : mine[c] # upd[h]
  /\ op[h] = "mark" => \E c \in Client : serving[c] = h

Served(c) ==
  serving[c] # None =>
    /\ serving[c] \in Handler
    /\ op[serving[c]] = "mark"
    /\ upd[serving[c]] = mine[c]
    /\ plat[serving[c]] = want[c].platform
    /\ cpc[c] \in Answers => cpc[c] = pc[serving[c]]

Ownership ==
  /\ \A c \in Client : OwnId(c) /\ Served(c)
  /\ \A h \in Handler : OwnWork(h)

(* What each folder holds, by the stage its owner has reached. *)

NothingAhead ==
  \A u \in Id : u >= clock => bucket[u] = EmptyFolder /\ metadataCache[u] = None

\* The export of client c, all of it, under update id u.
Exported(c, u) ==
  /\ bucket[u].stored = want[c].platform
  /\ bucket[u].meta = want[c].content
  /\ bucket[u].assets = Asset
  /\ ~ bucket[u].rollback

SameIsPublished(c) ==
  \E u \in Published(want[c].platform) : bucket[u].meta = want[c].content

ClientStage(c) ==
  /\ cpc[c] = "requesting" => /\ bucket[mine[c]] = EmptyFolder
                              /\ metadataCache[mine[c]] = None
  /\ cpc[c] = "uploading" =>
       LET f == bucket[mine[c]] IN
         /\ f.stored = want[c].platform
         /\ f.meta = IF "metadata.json" \in sent[c] THEN want[c].content ELSE None
         /\ f.assets = sent[c] \ {"metadata.json"}
         /\ ~ f.rollback /\ ~ f.check
         /\ metadataCache[mine[c]] = None
  /\ cpc[c] = "ok" /\ Reliable => Exported(c, mine[c]) /\ bucket[mine[c]].check
  /\ cpc[c] = "identical" => SameIsPublished(c)

MarkStage(c) ==
  serving[c] # None =>
    LET at == pc[serving[c]]
        u == mine[c] IN
      /\ at \in {"verify", "discardInvalid", "discardDuplicate", "retrieve", "uuid", "check",
                 "invalidate"} \cup Lookup \cup Answers
      /\ at = "discardInvalid" => ~ bucket[u].check
      /\ at \in {"verify", "discardDuplicate", "retrieve", "uuid", "check"} \cup Lookup =>
           Exported(c, u) /\ ~ bucket[u].check
      /\ at = "check" => bucket[u].uuid
      /\ at \in {"invalidate", "ok"} /\ Reliable => Exported(c, u) /\ bucket[u].check
      /\ at \in {"discardDuplicate", "identical"} => SameIsPublished(c)

RollbackStage(h) ==
  op[h] = "rollback" =>
    LET f == bucket[upd[h]] IN
      /\ pc[h] \in {"describe", "flag", "firstUUID", "retrieve", "uuid", "check",
                    "invalidate", "ok", "failed", "crashed"}
      /\ pc[h] \in {"describe", "flag", "firstUUID", "retrieve", "uuid", "check"} => ~ f.check
      /\ pc[h] = "describe" => f = EmptyFolder
      /\ pc[h] \in {"flag", "firstUUID", "retrieve", "uuid", "check", "invalidate"} =>
           f.stored = plat[h]
      /\ pc[h] \in {"firstUUID", "retrieve", "uuid", "check"} => f.rollback

RepublishStage(h) ==
  op[h] = "republish" =>
    LET f == bucket[upd[h]] IN
      /\ pc[h] \in {"copy", "describe", "firstUUID", "retrieve", "uuid", "check",
                    "invalidate", "ok", "failed", "crashed"}
      /\ pc[h] = "copy" => /\ f = EmptyFolder
                           /\ metadataCache[upd[h]] = None
                           /\ source[h] \in Id
                           /\ bucket[source[h]].check
      /\ pc[h] \in {"describe", "firstUUID", "retrieve", "uuid", "check"} =>
           (f.rollback \/ (f.meta # None /\ f.assets = Asset)) /\ ~ f.check
      /\ pc[h] = "describe" => f.stored = None
      /\ pc[h] \in {"firstUUID", "retrieve", "uuid", "check", "invalidate"} =>
           f.stored = plat[h]
      /\ pc[h] = "check" => f.rollback \/ f.uuid

KeyIsPlatform(h) == pc[h] \in {"uuid", "check", "invalidate"} => key[h] \in Platform

Stages ==
  /\ \A c \in Client : ClientStage(c) /\ MarkStage(c)
  /\ \A h \in Handler : RollbackStage(h) /\ RepublishStage(h) /\ KeyIsPlatform(h)

\* The metadata cache agrees with the files that are still there.
CachedMetadata ==
  \A u \in Id :
    metadataCache[u] # None /\ bucket[u].meta # None => metadataCache[u] = bucket[u].meta

(* What lookups know. *)

\* The folder of u is not about to be described: it names its platform, or has
\* lost the name for good.
Settled(u) ==
  /\ u < clock
  /\ \A c \in Client : cpc[c] = "requesting" => mine[c] # u
  /\ \A h \in Handler : pc[h] \in {"copy", "describe"} => upd[h] # u

LookupStage(q) ==
  /\ pc[q] \in Lookup => plat[q] \in Platform
  /\ pc[q] = "scan" => unread[q] = {}
  /\ pc[q] = "filter" => unread[q] # {}
  /\ pc[q] \in {"filter", "scan"} =>
       /\ \A u \in cands[q] : Settled(u) /\ bucket[u].stored \in {plat[q], None}
       /\ floor[q] # NoUpdate /\ Reliable /\ ListsAll =>
            floor[q] \in (unread[q] \cup cands[q]) \cap Published(plat[q])
  /\ pc[q] = "fill" => latest[q] # NoUpdate

Lookups == \A q \in Proc : LookupStage(q)

Warmers ==
  /\ \A h \in Handler, p \in Platform : pc[<<h, p>>] # "idle" => pc[h] = "ok"
  /\ \A q \in Reader \cup Warmer : pc[q] \in {"idle"} \cup Lookup

(* TypeOK is kept apart: it is proved first and for every environment. *)
Inv ==
  /\ Ownership /\ NothingAhead /\ Stages /\ CachedMetadata
  /\ Lookups /\ Warmers
  /\ PublishedIsComplete /\ AnswersArePublished
  /\ Reliable /\ ListsAll => ScanIsFresh

================================================================================
