------------------------ MODULE PublicationSafetyProofs ------------------------
(***************************************************************************)
(* Inv is inductive, hence what it says of published updates, of lookups   *)
(* and of the answers to clients holds of every orderly behaviour.         *)
(***************************************************************************)
EXTENDS UpdatePublicationProofs

\* A published folder is left alone by the step.
Kept == \A u \in Id : bucket[u].check => bucket'[u] = bucket[u]

\* A folder whose owner is past writing metadata.json: it may be cached.
Known(u) ==
  /\ u < clock
  /\ \A c \in Client : cpc[c] \in {"requesting", "uploading"} => mine[c] # u
  /\ \A h \in Handler : pc[h] = "copy" => upd[h] # u

\* The step changes the metadata cache only by what GetMetadata would answer.
Remembered ==
  \A u \in Id : \/ metadataCache'[u] = metadataCache[u]
                \/ Known(u) /\ metadataCache'[u] = MetadataOf(u)

\* The step changes no folder but the one of handler h, which it may only
\* describe when its time has come.
OwnFolderOnly(h) ==
  /\ \A u \in Id : u # upd[h] \/ bucket[u].check => bucket'[u] = bucket[u]
  /\ \/ pc[h] = "describe"
     \/ bucket'[upd[h]].stored \in {bucket[upd[h]].stored, None}

\* What the invariant says of handler h and of the folder it works on.
OwnStage(h) ==
  /\ \A c \in Client : serving[c] = h => MarkStage(c)
  /\ RollbackStage(h) /\ RepublishStage(h) /\ KeyIsPlatform(h)

--------------------------------------------------------------------------------
(* Consequences of the invariant. *)

LEMMA Owner ==
  ASSUME TypeOK, Inv, NEW h \in Handler, pc[h] # "idle"
  PROVE  /\ upd[h] \in Id /\ upd[h] < clock /\ op[h] \in {"mark", "rollback", "republish"}
         /\ plat[h] \in Platform
         /\ \A g \in Handler : upd[g] = upd[h] => g = h
         /\ \A c \in Client : mine[c] = upd[h] => serving[c] = h /\ op[h] = "mark"
         /\ op[h] = "mark" => \E c \in Client : serving[c] = h /\ mine[c] = upd[h]
         /\ \A c \in Client : serving[c] = h =>
              op[h] = "mark" /\ mine[c] = upd[h] /\ plat[h] = want[c].platform
<1> USE DEF Inv, Ownership
<1>1. upd[h] \in Id /\ upd[h] < clock /\ op[h] \in {"mark", "rollback", "republish"}
      /\ plat[h] \in Platform
  BY DEF TypeOK, OwnWork, Id, NoUpdate
<1>2. \A g \in Handler : upd[g] = upd[h] => g = h
  BY <1>1 DEF OwnWork, Id, NoUpdate
<1>3. \A c \in Client : serving[c] = h =>
         op[h] = "mark" /\ mine[c] = upd[h] /\ plat[h] = want[c].platform
  BY ConstantsAssumption DEF Served
<1>4. ASSUME NEW c \in Client, mine[c] = upd[h] PROVE serving[c] = h /\ op[h] = "mark"
  <2>1. op[h] = "mark"
    BY <1>1, <1>4 DEF OwnWork
  <2>2. PICK d \in Client : serving[d] = h
    BY <2>1 DEF OwnWork
  <2>3. d = c
    BY <1>1, <1>3, <1>4, <2>2 DEF OwnId, Id, NoUpdate
  <2> QED
    BY <2>1, <2>2, <2>3
<1> QED
  BY <1>1, <1>2, <1>3, <1>4 DEF OwnWork

\* What GetMetadata is asked about is known: published updates, and those of
\* handlers that are past copying.
LEMMA KnownUpdates ==
  ASSUME TypeOK, Inv
  PROVE  /\ \A u \in Id : bucket[u].check => Known(u)
         /\ \A h \in Handler : pc[h] \notin {"idle", "copy"} => Known(upd[h])
<1> USE DEF Inv, Stages
<1>1. ASSUME NEW u \in Id, bucket[u].check PROVE Known(u)
  <2>1. bucket[u] # EmptyFolder
    BY <1>1 DEF EmptyFolder
  <2>2. u < clock
    BY <2>1 DEF NothingAhead, TypeOK, Id
  <2>3. \A c \in Client : cpc[c] \in {"requesting", "uploading"} => mine[c] # u
    BY <1>1, <2>1 DEF ClientStage
  <2>4. ASSUME NEW h \in Handler, pc[h] = "copy" PROVE upd[h] # u
    <3>1. CASE op[h] = "mark"
      <4>1. PICK c \in Client : serving[c] = h
        BY <3>1, <2>4, Owner
      <4>2. MarkStage(c)
        OBVIOUS
      <4> QED
        BY <2>4, <4>1, <4>2, ConstantsAssumption DEF MarkStage, Lookup, Answers
    <3>2. CASE op[h] = "rollback"
      BY <2>4, <3>2 DEF RollbackStage
    <3>3. CASE op[h] = "republish"
      BY <2>1, <2>4, <3>3 DEF RepublishStage
    <3> QED
      BY <2>4, <3>1, <3>2, <3>3, Owner
  <2> QED
    BY <2>2, <2>3, <2>4 DEF Known
<1>2. ASSUME NEW h \in Handler, pc[h] \notin {"idle", "copy"} PROVE Known(upd[h])
  <2>1. upd[h] < clock
    BY <1>2, Owner
  <2>2. ASSUME NEW c \in Client, cpc[c] \in {"requesting", "uploading"}, mine[c] = upd[h]
        PROVE  FALSE
    <3>1. serving[c] = h
      BY <1>2, <2>2, Owner
    <3>2. serving[c] = None
      BY <2>2 DEF Ownership, OwnId
    <3> QED
      BY <3>1, <3>2, ConstantsAssumption
  <2>3. ASSUME NEW g \in Handler, pc[g] = "copy" PROVE upd[g] # upd[h]
    BY <1>2, <2>3, Owner
  <2> QED
    BY <2>1, <2>2, <2>3 DEF Known
<1> QED
  BY <1>1, <1>2

\* No handler writes into a published folder.
LEMMA Unpublished ==
  ASSUME TypeOK, Inv, NEW h \in Handler,
         pc[h] \in {"discardInvalid", "discardDuplicate", "copy", "describe", "flag",
                   "firstUUID", "uuid", "check"}
  PROVE  ~ bucket[upd[h]].check
<1> USE DEF Inv, Stages
<1>1. CASE op[h] = "mark"
  <2>1. PICK c \in Client : serving[c] = h /\ mine[c] = upd[h]
    BY <1>1, Owner
  <2>2. MarkStage(c)
    OBVIOUS
  <2> QED
    BY <2>1, <2>2, ConstantsAssumption DEF MarkStage, Lookup, Answers
<1>2. CASE op[h] = "rollback"
  BY <1>2 DEF RollbackStage
<1>3. CASE op[h] = "republish"
  BY <1>3 DEF RepublishStage, EmptyFolder
<1> QED
  BY <1>1, <1>2, <1>3, Owner

LEMMA PublishedStaysPublished ==
  ASSUME TypeOK, Kept
  PROVE  /\ \A p : Published(p) \subseteq Published(p)'
         /\ \A p : \A u \in Published(p) : bucket'[u] = bucket[u]
BY DEF Published, Kept

--------------------------------------------------------------------------------
(* What a step of one handler leaves true of everybody else. *)

LEMMA HandlerFrame ==
  ASSUME TypeOK, TypeOK', Inv, NEW h \in Handler, NEW l \in Working \cup Answers \cup {"get"},
         pc[h] \in Working \cup {"found"}, pc' = [pc EXCEPT ![h] = l],
         l # "copy", l = "describe" => pc[h] = "copy",
         UNCHANGED <<clock, lastUpdate, clientVars, op, upd, source, plat, unread, cands>>,
         \A q \in Proc \ {h} : latest'[q] = latest[q] /\ floor'[q] = floor[q],
         \A g \in Handler \ {h} : key'[g] = key[g],
         Remembered, OwnFolderOnly(h)
  PROVE  /\ Ownership' /\ NothingAhead' /\ Lookups' /\ Warmers' /\ AnswersArePublished'
         /\ Reliable /\ ListsAll => ScanIsFresh'
         /\ \A c \in Client : ClientStage(c)' /\ (serving[c] # h => MarkStage(c)')
         /\ \A g \in Handler \ {h} : RollbackStage(g)' /\ RepublishStage(g)' /\ KeyIsPlatform(g)'
<1> USE DEF Inv
<1>1. Handler \subseteq Proc /\ Reader \subseteq Proc /\ Warmer \subseteq Proc
  BY DEF Proc
<1>2. Kept
  BY DEF Kept, OwnFolderOnly
<1>3. UNCHANGED <<clock, lastUpdate, cpc, want, mine, sent, serving, op, upd, source, plat,
                  unread, cands>>
  BY DEF clientVars
<1>4. /\ \A q \in Proc \ {h} : pc'[q] = pc[q]
      /\ pc'[h] = l
      /\ pc[h] \notin Answers \cup {"idle", "filter", "scan", "fill"} /\ l \notin {"idle", "filter", "scan", "fill", "found"}
  BY <1>1 DEF TypeOK, Working, Answers
<1>5. Ownership'
  <2>1. \A c \in Client : OwnId(c)'
    BY <1>3 DEF Ownership, OwnId
  <2>2. ASSUME NEW c \in Client PROVE Served(c)'
    BY <1>1, <1>3, <1>4 DEF Ownership, Served
  <2>3. ASSUME NEW g \in Handler PROVE OwnWork(g)'
    BY <1>1, <1>3, <1>4 DEF Ownership, OwnWork
  <2> QED
    BY <2>1, <2>2, <2>3 DEF Ownership
<1>6. NothingAhead'
  <2>1. ASSUME NEW u \in Id, u >= clock PROVE u # upd[h] /\ ~ Known(u)
    BY <1>4, <2>1, Owner DEF Known, Id, TypeOK
  <2> QED
    BY <1>3, <2>1 DEF NothingAhead, OwnFolderOnly, Remembered
<1>7. ASSUME NEW c \in Client PROVE ClientStage(c)'
  <2>1. CASE cpc[c] \in {"requesting", "uploading"}
    <3>1. mine[c] # upd[h] /\ mine[c] \in Id /\ ~ Known(mine[c])
      <4>1. mine[c] \in Id
        BY <2>1 DEF Ownership, OwnId, TypeOK, NoUpdate
      <4>2. serving[c] = None
        BY <2>1 DEF Ownership, OwnId
      <4> QED
        BY <1>4, <2>1, <4>1, <4>2, Owner, ConstantsAssumption DEF Known
    <3>2. bucket'[mine[c]] = bucket[mine[c]] /\ metadataCache'[mine[c]] = metadataCache[mine[c]]
      BY <3>1 DEF OwnFolderOnly, Remembered
    <3> QED
      BY <1>3, <2>1, <3>2 DEF Stages, ClientStage
  <2>2. CASE cpc[c] = "ok"
    <3>1. Reliable => bucket'[mine[c]] = bucket[mine[c]]
      BY <1>2, <2>2 DEF Stages, ClientStage, Kept, Ownership, OwnId, TypeOK, NoUpdate
    <3> QED
      BY <1>3, <2>2, <3>1 DEF Stages, ClientStage, Exported
  <2>3. CASE cpc[c] = "identical"
    BY <1>2, <1>3, <2>3, PublishedStaysPublished DEF Stages, ClientStage, SameIsPublished
  <2> QED
    BY <1>3, <2>1, <2>2, <2>3 DEF ClientStage
<1>8. ASSUME NEW c \in Client, serving[c] # h PROVE MarkStage(c)'
  <2>1. SUFFICES ASSUME serving[c] # None PROVE MarkStage(c)'
    BY <1>3 DEF MarkStage
  <2>2. serving[c] \in Handler /\ mine[c] # upd[h] /\ mine[c] = upd[serving[c]]
    BY <1>4, <1>8, <2>1, Owner DEF Ownership, Served
  <2>3. bucket'[mine[c]] = bucket[mine[c]] /\ pc'[serving[c]] = pc[serving[c]]
    <3>1. mine[c] \in Id
      BY <2>1, <2>2, ConstantsAssumption DEF Ownership, Served, OwnWork, TypeOK
    <3>2. serving[c] \in Proc \ {h}
      BY <1>1, <1>8, <2>2
    <3> QED
      BY <1>4, <2>2, <3>1, <3>2 DEF OwnFolderOnly
  <2>4. SameIsPublished(c) => SameIsPublished(c)'
    BY <1>2, <1>3, PublishedStaysPublished DEF SameIsPublished
  <2> QED
    BY <1>3, <2>3, <2>4 DEF Stages, MarkStage, Exported
<1>9. ASSUME NEW g \in Handler, g # h PROVE RollbackStage(g)' /\ RepublishStage(g)' /\ KeyIsPlatform(g)'
  <2>1. pc'[g] = pc[g] /\ key'[g] = key[g]
    <3>1. g \in Proc \ {h}
      BY <1>1, <1>9
    <3> QED
      BY <1>4, <1>9, <3>1
  <2>2. op[g] # None => upd[g] \in Id /\ bucket'[upd[g]] = bucket[upd[g]]
    <3>1. op[g] # None => upd[g] \in Id /\ upd[g] # upd[h]
      BY <1>4, <1>9, Owner DEF Ownership, OwnWork, TypeOK
    <3> QED
      BY <3>1 DEF OwnFolderOnly
  <2>3. RollbackStage(g)'
    BY <1>3, <2>1, <2>2, ConstantsAssumption DEF Stages, RollbackStage
  <2>4. RepublishStage(g)'
    <3>1. SUFFICES ASSUME op[g] = "republish" PROVE RepublishStage(g)'
      BY <1>3 DEF RepublishStage
    <3>2. bucket'[upd[g]] = bucket[upd[g]] /\ upd[g] \in Id
      BY <2>2, <3>1, ConstantsAssumption
    <3>3. CASE pc[g] = "copy"
      <4>1. metadataCache'[upd[g]] = metadataCache[upd[g]]
        BY <3>2, <3>3 DEF Remembered, Known
      <4>2. bucket'[source[g]] = bucket[source[g]]
        BY <1>2, <3>1, <3>3 DEF Stages, RepublishStage, Kept
      <4> QED
        BY <1>3, <2>1, <3>1, <3>2, <3>3, <4>1, <4>2 DEF Stages, RepublishStage
    <3> QED
      BY <1>3, <2>1, <3>1, <3>2, <3>3 DEF Stages, RepublishStage
  <2>5. KeyIsPlatform(g)'
    BY <2>1 DEF Stages, KeyIsPlatform
  <2> QED
    BY <2>3, <2>4, <2>5
<1>10. ASSUME NEW q \in Proc PROVE LookupStage(q)'
  <2>1. pc'[q] \in Lookup => plat[q] \in Platform
    BY <1>4, Owner DEF Lookups, LookupStage
  <2>2. pc'[q] = "fill" => latest'[q] # NoUpdate
    BY <1>4 DEF Lookups, LookupStage
  <2>3. ASSUME pc'[q] \in {"filter", "scan"}, NEW u \in cands[q]
        PROVE  Settled(u)' /\ bucket'[u].stored \in {plat[q], None}
    <3>1. pc'[q] = pc[q] /\ u \in Id /\ Settled(u) /\ bucket[u].stored \in {plat[q], None}
      BY <1>4, <2>3 DEF Lookups, LookupStage, TypeOK
    <3>2. Settled(u)'
      BY <1>1, <1>3, <1>4, <3>1 DEF Settled
    <3>3. u = upd[h] => pc[h] # "describe"
      BY <3>1 DEF Settled
    <3>4. bucket'[u].stored \in {plat[q], None}
      BY <3>1, <3>3 DEF OwnFolderOnly
    <3> QED
      BY <3>2, <3>4
  <2>4. ASSUME pc'[q] \in {"filter", "scan"}, floor'[q] # NoUpdate, Reliable, ListsAll
        PROVE  floor'[q] \in (unread[q] \cup cands[q]) \cap Published(plat[q])'
    <3>1. pc'[q] = pc[q] /\ floor'[q] = floor[q]
      BY <1>4, <2>4
    <3>2. floor[q] \in (unread[q] \cup cands[q]) \cap Published(plat[q])
      BY <2>4, <3>1 DEF Lookups, LookupStage
    <3> QED
      BY <1>2, <1>3, <3>1, <3>2, PublishedStaysPublished
  <2>5. /\ pc'[q] = "scan" => unread[q] = {}
        /\ pc'[q] = "filter" => unread[q] # {}
    BY <1>4 DEF Lookups, LookupStage
  <2> QED
    BY <1>3, <2>1, <2>2, <2>3, <2>4, <2>5 DEF LookupStage, Reliable, ListsAll
<1>11. Warmers'
  <2>1. h \notin Reader \cup Warmer /\ \A g \in Handler, p \in Platform : <<g, p>> \in Warmer
    BY ConstantsAssumption DEF Warmer
  <2>2. \A g \in Handler, p \in Platform : pc'[<<g, p>>] # "idle" => pc'[g] = "ok"
    BY <1>1, <1>4, <2>1 DEF Warmers, Answers
  <2>3. \A q \in Reader \cup Warmer : pc'[q] \in {"idle"} \cup Lookup
    BY <1>1, <1>4, <2>1 DEF Warmers
  <2> QED
    BY <2>2, <2>3 DEF Warmers
<1>12. AnswersArePublished'
  BY <1>2, <1>3, <1>4, PublishedStaysPublished DEF AnswersArePublished
<1>13. Reliable /\ ListsAll => ScanIsFresh'
  BY <1>3, <1>4 DEF ScanIsFresh
<1> QED
  BY <1>5, <1>6, <1>7, <1>8, <1>9, <1>10, <1>11, <1>12, <1>13 DEF Lookups

--------------------------------------------------------------------------------
(* What a step of a lookup leaves true. *)

LEMMA LookupFrame ==
  ASSUME TypeOK, TypeOK', Inv, NEW q \in Proc,
         UNCHANGED <<bucketVars, clientVars, op, upd, source, key>>,
         \A h \in Handler : plat'[h] = plat[h],
         \A r \in Proc \ {q} : pc'[r] = pc[r],
         q \in Handler => pc[q] \in Lookup /\ pc'[q] \in Lookup \cup {"retrieve"},
         q \notin Handler => pc'[q] \in {"idle"} \cup Lookup,
         q \in Warmer => pc[q] # "idle",
         Remembered
  PROVE  /\ Ownership' /\ NothingAhead' /\ Stages' /\ CachedMetadata' /\ Warmers'
         /\ PublishedIsComplete'
<1> USE DEF Inv
<1>1. Handler \subseteq Proc /\ Reader \subseteq Proc /\ Warmer \subseteq Proc
  BY DEF Proc
<1>2. UNCHANGED <<clock, bucket, cpc, want, mine, sent, serving, op, upd, source, key>>
  BY DEF bucketVars, clientVars
<1>3. ASSUME NEW h \in Handler
      PROVE  \/ pc'[h] = pc[h]
             \/ pc[h] \in Lookup /\ pc'[h] \in Lookup \cup {"retrieve"}
  <2>1. CASE h = q
    BY <2>1
  <2>2. CASE h # q
    BY <1>1, <2>2
  <2> QED
    BY <2>1, <2>2
<1>4. /\ \A h \in Handler : (pc'[h] = "idle" <=> pc[h] = "idle") /\ (pc'[h] = "ok" <=> pc[h] = "ok")
      /\ \A h \in Handler : pc[h] \in Answers => pc'[h] = pc[h]
  BY <1>3 DEF Lookup, Answers
<1>5. ASSUME NEW h \in Handler, pc[h] \in Lookup PROVE op[h] = "mark"
  <2>1. op[h] \in {"mark", "rollback", "republish"}
    BY <1>5, Owner DEF Lookup
  <2>2. op[h] # "rollback" /\ op[h] # "republish"
    BY <1>5 DEF Lookup, Stages, RollbackStage, RepublishStage
  <2> QED
    BY <2>1, <2>2
<1>6. Ownership'
  <2>1. \A c \in Client : OwnId(c)'
    BY <1>2 DEF Ownership, OwnId
  <2>2. \A c \in Client : Served(c)'
    BY <1>2, <1>4 DEF Ownership, Served
  <2>3. \A h \in Handler : OwnWork(h)'
    BY <1>2, <1>4 DEF Ownership, OwnWork
  <2> QED
    BY <2>1, <2>2, <2>3 DEF Ownership
<1>7. NothingAhead'
  BY <1>2 DEF NothingAhead, Remembered, Known, TypeOK, Id
<1>8. ASSUME NEW c \in Client PROVE ClientStage(c)'
  <2>1. cpc[c] \in {"requesting", "uploading"} => metadataCache'[mine[c]] = metadataCache[mine[c]]
    BY DEF Ownership, OwnId, Remembered, Known, TypeOK
  <2> QED
    BY <1>2, <2>1 DEF Stages, ClientStage, Exported, SameIsPublished, Published
<1>9. ASSUME NEW c \in Client PROVE MarkStage(c)'
  <2>1. SUFFICES ASSUME serving[c] # None PROVE MarkStage(c)'
    BY <1>2 DEF MarkStage
  <2>2. serving[c] \in Handler
    BY <2>1 DEF Ownership, Served
  <2>3. CASE pc'[serving[c]] = pc[serving[c]]
    BY <1>2, <2>3 DEF Stages, MarkStage, Exported, SameIsPublished, Published
  <2>4. CASE pc[serving[c]] \in Lookup /\ pc'[serving[c]] \in Lookup \cup {"retrieve"}
    BY <1>2, <2>1, <2>4 DEF Stages, MarkStage, Exported, Lookup
  <2> QED
    BY <1>3, <2>2, <2>3, <2>4
<1>10. ASSUME NEW h \in Handler PROVE RollbackStage(h)' /\ RepublishStage(h)' /\ KeyIsPlatform(h)'
  <2>1. CASE pc'[h] = pc[h]
    <3>1. pc[h] = "copy" => metadataCache'[upd[h]] = metadataCache[upd[h]]
      BY Owner DEF Remembered, Known
    <3> QED
      BY <1>2, <2>1, <3>1 DEF Stages, RollbackStage, RepublishStage, KeyIsPlatform
  <2>2. CASE pc[h] \in Lookup /\ pc'[h] \in Lookup \cup {"retrieve"}
    BY <1>2, <1>5, <2>2 DEF Stages, RollbackStage, RepublishStage, KeyIsPlatform, Lookup
  <2> QED
    BY <1>3, <2>1, <2>2
<1>11. CachedMetadata'
  BY <1>2 DEF CachedMetadata, Remembered, MetadataOf
<1>12. Warmers'
  <2>1. \A h \in Handler, p \in Platform : <<h, p>> \in Warmer
    BY DEF Warmer
  <2>2. \A r \in Warmer : pc'[r] # "idle" => pc[r] # "idle"
    BY <1>1
  <2>3. \A r \in Reader \cup Warmer : r \notin Handler
    BY ConstantsAssumption
  <2> QED
    BY <1>1, <1>4, <2>1, <2>2, <2>3 DEF Warmers
<1>13. PublishedIsComplete'
  BY <1>2 DEF PublishedIsComplete, Complete
<1> QED
  BY <1>6, <1>7, <1>8, <1>9, <1>10, <1>11, <1>12, <1>13 DEF Stages

\* A step of handler h keeps the invariant if it keeps to its own folder and
\* leaves it as its next stage needs it.
LEMMA HandlerStepKeepsInv ==
  ASSUME TypeOK, TypeOK', Inv, NEW h \in Handler, NEW l \in Working \cup Answers \cup {"get"},
         pc[h] \in Working \cup {"found"}, pc' = [pc EXCEPT ![h] = l],
         l # "copy", l = "describe" => pc[h] = "copy",
         UNCHANGED <<clock, lastUpdate, clientVars, op, upd, source, plat, unread, cands>>,
         \A q \in Proc \ {h} : latest'[q] = latest[q] /\ floor'[q] = floor[q],
         \A g \in Handler \ {h} : key'[g] = key[g],
         Remembered, OwnFolderOnly(h),
         OwnStage(h)',
         bucket'[upd[h]].meta \in {bucket[upd[h]].meta, None} \/ metadataCache'[upd[h]] = None,
         bucket'[upd[h]].check => Complete(upd[h])'
  PROVE  Inv'
<1>1. /\ Ownership' /\ NothingAhead' /\ Lookups' /\ Warmers' /\ AnswersArePublished'
      /\ Reliable /\ ListsAll => ScanIsFresh'
      /\ \A c \in Client : ClientStage(c)' /\ (serving[c] # h => MarkStage(c)')
      /\ \A g \in Handler \ {h} : RollbackStage(g)' /\ RepublishStage(g)' /\ KeyIsPlatform(g)'
  BY HandlerFrame
<1>2. upd[h] \in Id
  BY Owner DEF Working
<1>3. Stages'
  <2>1. serving' = serving
    BY DEF clientVars
  <2> QED
    BY <1>1, <2>1 DEF Stages, OwnStage
<1>4. CachedMetadata'
  <2>1. ASSUME NEW u \in Id, u # upd[h], metadataCache'[u] # None, bucket'[u].meta # None
        PROVE  metadataCache'[u] = bucket'[u].meta
    BY <2>1 DEF Inv, CachedMetadata, Remembered, MetadataOf, OwnFolderOnly
  <2>2. ASSUME metadataCache'[upd[h]] # None, bucket'[upd[h]].meta # None
        PROVE  metadataCache'[upd[h]] = bucket'[upd[h]].meta
    BY <1>2, <2>2 DEF Inv, CachedMetadata, Remembered, MetadataOf
  <2> QED
    BY <2>1, <2>2 DEF CachedMetadata
<1>5. PublishedIsComplete'
  <2>1. ASSUME NEW u \in Id, u # upd[h], bucket'[u].check PROVE Complete(u)'
    BY <2>1 DEF Inv, PublishedIsComplete, Complete, OwnFolderOnly
  <2> QED
    BY <2>1 DEF PublishedIsComplete
<1> QED
  BY <1>1, <1>3, <1>4, <1>5 DEF Inv, Reliable

\* The same for a step that leaves the lookup variables alone.
LEMMA HandlerKeepsInv ==
  ASSUME TypeOK, TypeOK', Inv, NEW h \in Handler, NEW l \in Working \cup Answers \cup {"get"},
         pc[h] \in Working \cup {"found"}, pc' = [pc EXCEPT ![h] = l],
         l # "copy", l = "describe" => pc[h] = "copy",
         UNCHANGED <<clock, lastUpdate, clientVars, op, upd, source, lookupVars>>,
         \A g \in Handler \ {h} : key'[g] = key[g],
         Remembered, OwnFolderOnly(h),
         OwnStage(h)',
         bucket'[upd[h]].meta \in {bucket[upd[h]].meta, None} \/ metadataCache'[upd[h]] = None,
         bucket'[upd[h]].check => Complete(upd[h])'
  PROVE  Inv'
<1>1. UNCHANGED <<plat, unread, cands>> /\ latest' = latest /\ floor' = floor
  BY DEF lookupVars
<1> QED
  BY <1>1, HandlerStepKeepsInv

--------------------------------------------------------------------------------
(* The steps of the handlers. *)

\* The client that a handler at work on a mark serves, and its export.
LEMMA Marking ==
  ASSUME TypeOK, Inv, NEW h \in Handler, pc[h] # "idle", op[h] = "mark"
  PROVE  \E c \in Client : /\ serving[c] = h /\ mine[c] = upd[h] /\ MarkStage(c)
                           /\ plat[h] = want[c].platform /\ h # None
                           /\ \A d \in Client : serving[d] = h => d = c
BY Owner, ConstantsAssumption DEF Inv, Stages, Ownership, OwnId, Id, NoUpdate

LEMMA RollbackOrRepublish ==
  ASSUME TypeOK, Inv, NEW h \in Handler, op[h] \in {"rollback", "republish"}
  PROVE  /\ pc[h] \notin {"verify", "discardInvalid", "discardDuplicate"} \cup Lookup
         /\ \A c \in Client : serving[c] # h
<1> USE DEF Inv, Stages
<1>1. pc[h] # "idle"
  BY ConstantsAssumption DEF Ownership, OwnWork
<1>2. \A c \in Client : serving[c] # h
  BY <1>1, Owner
<1>3. pc[h] \notin {"verify", "discardInvalid", "discardDuplicate"} \cup Lookup
  BY DEF RollbackStage, RepublishStage, Lookup
<1> QED
  BY <1>2, <1>3

LEMMA VerifyUploadedUpdateInv ==
  ASSUME Orderly, TypeOK, TypeOK', Inv, NEW h \in Handler, VerifyUploadedUpdate(h)
  PROVE  Inv'
<1> USE DEF VerifyUploadedUpdate, Goto, HandlerUnchanged, bucketVars
<1>1. PICK l \in {"discardInvalid", "get"} : pc' = [pc EXCEPT ![h] = l]
  OBVIOUS
<1>2. UNCHANGED <<clock, bucket, lastUpdate, clientVars, op, upd, source, key, lookupVars>>
  OBVIOUS
<1>3. upd[h] \in Id /\ h \in Proc
  BY Owner DEF Proc
<1>4. Remembered
  BY KnownUpdates DEF Remembered, Remember
<1>5. OwnFolderOnly(h)
  BY <1>2 DEF OwnFolderOnly
<1>6. op[h] = "mark"
  BY Owner, RollbackOrRepublish
<1>7. PICK c \in Client : /\ serving[c] = h /\ mine[c] = upd[h] /\ MarkStage(c) /\ h # None
                         /\ \A d \in Client : serving[d] = h => d = c
  BY <1>6, Marking
<1>8. Exported(c, mine[c]) /\ ~ bucket[upd[h]].check
  BY <1>7 DEF MarkStage
<1>9. OwnStage(h)'
  <2>1. MarkStage(c)'
    BY <1>1, <1>2, <1>3, <1>7, <1>8 DEF MarkStage, Exported, TypeOK, Lookup, clientVars
  <2>2. RollbackStage(h)' /\ RepublishStage(h)'
    BY <1>2, <1>6 DEF RollbackStage, RepublishStage
  <2>3. KeyIsPlatform(h)'
    BY <1>1, <1>3 DEF KeyIsPlatform, TypeOK
  <2> QED
    BY <1>2, <1>7, <2>1, <2>2, <2>3 DEF OwnStage, clientVars
<1> QED
  BY <1>1, <1>2, <1>4, <1>5, <1>8, <1>9, HandlerKeepsInv DEF Working

LEMMA CompareWithLatestInv ==
  ASSUME Orderly, TypeOK, TypeOK', Inv, NEW h \in Handler, CompareWithLatest(h)
  PROVE  Inv'
<1> USE DEF CompareWithLatest, Goto, bucketVars
<1>1. PICK l \in {"discardDuplicate", "retrieve"} : pc' = [pc EXCEPT ![h] = l]
  OBVIOUS
<1>2. /\ UNCHANGED <<clock, bucket, lastUpdate, clientVars, op, upd, source, key, plat, unread, cands>>
      /\ \A q \in Proc \ {h} : latest'[q] = latest[q] /\ floor'[q] = floor[q]
  BY DEF TypeOK
<1>3. upd[h] \in Id /\ h \in Proc
  BY Owner DEF Proc
<1>4. latest[h] = NoUpdate \/ latest[h] \in Published(plat[h])
  BY <1>3 DEF Inv, AnswersArePublished
<1>5. Remembered
  <2>1. Known(upd[h]) /\ (latest[h] # NoUpdate => Known(latest[h]))
    BY <1>4, KnownUpdates DEF Published
  <2> QED
    BY <2>1 DEF Remembered, Remember
<1>6. OwnFolderOnly(h)
  BY <1>2 DEF OwnFolderOnly
<1>7. op[h] = "mark"
  BY Owner, RollbackOrRepublish DEF Lookup
<1>8. PICK c \in Client : /\ serving[c] = h /\ mine[c] = upd[h] /\ MarkStage(c) /\ h # None
                         /\ plat[h] = want[c].platform
                         /\ \A d \in Client : serving[d] = h => d = c
  BY <1>7, Marking
<1>9. Exported(c, mine[c]) /\ ~ bucket[upd[h]].check
  BY <1>8 DEF MarkStage, Lookup
<1>10. l = "discardDuplicate" => SameIsPublished(c)
  <2>1. SUFFICES ASSUME latest[h] # NoUpdate, ~ bucket[latest[h]].rollback,
                        MetadataOf(upd[h]) = MetadataOf(latest[h])
                 PROVE  SameIsPublished(c)
    BY <1>1, <1>3 DEF TypeOK
  <2>2. latest[h] \in Id /\ bucket[latest[h]].meta # None
    BY <1>4, <2>1 DEF Published, Inv, PublishedIsComplete, Complete
  <2>3. MetadataOf(latest[h]) = bucket[latest[h]].meta
    BY <2>2 DEF MetadataOf, Inv, CachedMetadata
  <2>4. MetadataOf(upd[h]) = want[c].content
    BY <1>3, <1>8, <1>9, ConstantsAssumption
    DEF MetadataOf, Inv, CachedMetadata, Exported, TypeOK
  <2> QED
    BY <1>4, <1>8, <2>1, <2>3, <2>4 DEF SameIsPublished
<1>11. OwnStage(h)'
  <2>1. MarkStage(c)'
    <3>1. SameIsPublished(c) => SameIsPublished(c)'
      BY <1>2 DEF SameIsPublished, Published, clientVars
    <3>2. Exported(c, mine[c])' /\ ~ bucket'[mine'[c]].check
      BY <1>2, <1>8, <1>9 DEF Exported, clientVars
    <3>3. serving'[c] = h /\ pc'[h] = l
      BY <1>1, <1>2, <1>3, <1>8 DEF TypeOK, clientVars
    <3> QED
      BY <1>10, <3>1, <3>2, <3>3 DEF MarkStage, Lookup
  <2>2. RollbackStage(h)' /\ RepublishStage(h)'
    BY <1>2, <1>7 DEF RollbackStage, RepublishStage
  <2>3. KeyIsPlatform(h)'
    BY <1>1, <1>3 DEF KeyIsPlatform, TypeOK
  <2> QED
    BY <1>2, <1>8, <2>1, <2>2, <2>3 DEF OwnStage, clientVars
<1> QED
  BY <1>1, <1>2, <1>5, <1>6, <1>9, <1>11, HandlerStepKeepsInv DEF Working

LEMMA DiscardUpdateInv ==
  ASSUME Orderly, TypeOK, TypeOK', Inv, NEW h \in Handler, DiscardUpdate(h)
  PROVE  Inv'
<1> USE DEF DiscardUpdate, Goto, HandlerUnchanged, cacheVars
<1>1. PICK l \in {"invalid", "identical"} : pc' = [pc EXCEPT ![h] = l]
  OBVIOUS
<1>2. UNCHANGED <<clock, lastUpdate, metadataCache, clientVars, op, upd, source, key, lookupVars>>
  OBVIOUS
<1>3. upd[h] \in Id /\ h \in Proc
  BY Owner DEF Proc
<1>4. bucket' = [bucket EXCEPT ![upd[h]] = EmptyFolder] /\ ~ bucket[upd[h]].check
  BY Unpublished
<1>5. Remembered
  BY <1>2 DEF Remembered
<1>6. OwnFolderOnly(h) /\ bucket'[upd[h]] = EmptyFolder
  BY <1>3, <1>4 DEF OwnFolderOnly, EmptyFolder, TypeOK
<1>7. op[h] = "mark"
  BY Owner, RollbackOrRepublish
<1>8. PICK c \in Client : /\ serving[c] = h /\ mine[c] = upd[h] /\ MarkStage(c) /\ h # None
                         /\ \A d \in Client : serving[d] = h => d = c
  BY <1>7, Marking
<1>9. OwnStage(h)'
  <2>1. MarkStage(c)'
    <3>1. l = "identical" => SameIsPublished(c)
      BY <1>1, <1>3, <1>8 DEF MarkStage, TypeOK
    <3>2. SameIsPublished(c) => SameIsPublished(c)'
      BY <1>2, <1>6, PublishedStaysPublished DEF SameIsPublished, clientVars, OwnFolderOnly, Kept
    <3>3. serving'[c] = h /\ pc'[h] = l
      BY <1>1, <1>2, <1>3, <1>8 DEF TypeOK, clientVars
    <3> QED
      BY <3>1, <3>2, <3>3 DEF MarkStage, Lookup, Answers
  <2>2. RollbackStage(h)' /\ RepublishStage(h)'
    BY <1>2, <1>7 DEF RollbackStage, RepublishStage
  <2>3. KeyIsPlatform(h)'
    BY <1>1, <1>3 DEF KeyIsPlatform, TypeOK
  <2> QED
    BY <1>2, <1>8, <2>1, <2>2, <2>3 DEF OwnStage, clientVars
<1>10. ~ bucket'[upd[h]].check /\ bucket'[upd[h]].meta = None
  BY <1>6 DEF EmptyFolder
<1>11. pc[h] \in Working /\ l \in Answers /\ l # "copy" /\ l # "describe"
  BY DEF Working, Answers
<1> QED
  BY <1>1, <1>2, <1>5, <1>6, <1>9, <1>10, <1>11, HandlerKeepsInv

LEMMA CopyUpdateInv ==
  ASSUME Orderly, TypeOK, TypeOK', Inv, NEW h \in Handler, CopyUpdate(h)
  PROVE  Inv'
<1> USE DEF CopyUpdate, Goto, HandlerUnchanged, cacheVars
<1>1. PICK l \in {"describe", "failed"} : pc' = [pc EXCEPT ![h] = l]
  OBVIOUS
<1>2. UNCHANGED <<clock, lastUpdate, metadataCache, clientVars, op, upd, source, key, lookupVars>>
  OBVIOUS
<1>3. upd[h] \in Id /\ h \in Proc
  BY Owner DEF Proc
<1>4. op[h] = "republish"
  <2>1. op[h] # "rollback"
    BY DEF Inv, Stages, RollbackStage
  <2>2. op[h] # "mark"
    BY Marking, ConstantsAssumption DEF MarkStage, Lookup, Answers
  <2> QED
    BY <2>1, <2>2, Owner
<1>5. /\ bucket[upd[h]] = EmptyFolder /\ metadataCache[upd[h]] = None
      /\ source[h] \in Id /\ bucket[source[h]].check
  BY <1>4 DEF Inv, Stages, RepublishStage
<1>6. LET f == bucket[source[h]] IN f.rollback \/ (f.meta # None /\ f.assets = Asset)
  BY <1>5 DEF Inv, PublishedIsComplete, Complete
<1>7. /\ l = "describe"
      /\ bucket' = [bucket EXCEPT ![upd[h]] = Overlaid(bucket[upd[h]], bucket[source[h]])]
  BY <1>1, <1>3, <1>5 DEF EmptyFolder, TypeOK
<1>8. LET f == bucket'[upd[h]] IN
        /\ f.stored = None /\ ~ f.check
        /\ f.rollback \/ (f.meta # None /\ f.assets = Asset)
  <2>1. bucket'[upd[h]] = Overlaid(EmptyFolder, bucket[source[h]])
    BY <1>3, <1>5, <1>7 DEF TypeOK
  <2>2. bucket[source[h]].assets \in SUBSET Asset
    BY <1>5, FolderFields DEF TypeOK
  <2>3. LET f == bucket'[upd[h]]
            g == bucket[source[h]] IN
          /\ f.stored = None /\ f.check = FALSE
          /\ f.meta = IF g.meta # None THEN g.meta ELSE None
          /\ f.assets = g.assets
          /\ f.rollback = (FALSE \/ g.rollback)
    BY <2>1, <2>2 DEF Overlaid, EmptyFolder
  <2> QED
    BY <1>6, <2>3
<1>9. Remembered /\ metadataCache'[upd[h]] = None
  BY <1>2, <1>5 DEF Remembered
<1>10. OwnFolderOnly(h)
  BY <1>5, <1>7, <1>8 DEF OwnFolderOnly, EmptyFolder, TypeOK
<1>11. OwnStage(h)'
  <2>1. pc'[h] = "describe"
    BY <1>1, <1>3, <1>7 DEF TypeOK
  <2>2. RepublishStage(h)'
    BY <1>2, <1>4, <1>8, <2>1 DEF RepublishStage
  <2> QED
    BY <1>2, <1>4, <2>1, <2>2, RollbackOrRepublish DEF OwnStage, RollbackStage, KeyIsPlatform, clientVars
<1> QED
  BY <1>1, <1>2, <1>7, <1>8, <1>9, <1>10, <1>11, HandlerKeepsInv DEF Working

LEMMA DescribeUpdateInv ==
  ASSUME Orderly, TypeOK, TypeOK', Inv, NEW h \in Handler, DescribeUpdate(h)
  PROVE  Inv'
<1> USE DEF DescribeUpdate, Goto, HandlerUnchanged, cacheVars
<1>1. PICK l \in {"flag", "firstUUID"} :
         pc' = [pc EXCEPT ![h] = l] /\ (l = "flag" <=> op[h] = "rollback")
  OBVIOUS
<1>2. UNCHANGED <<clock, lastUpdate, metadataCache, clientVars, op, upd, source, key, lookupVars>>
  OBVIOUS
<1>3. upd[h] \in Id /\ h \in Proc /\ plat[h] \in Platform
  BY Owner DEF Proc
<1>4. op[h] \in {"rollback", "republish"}
  BY Owner, Marking, ConstantsAssumption DEF MarkStage, Lookup, Answers
<1>5. bucket'[upd[h]] = Described(bucket[upd[h]], plat[h])
  BY <1>3 DEF TypeOK
<1>6. LET f == bucket[upd[h]]
          g == bucket'[upd[h]] IN
        /\ g.stored = plat[h] /\ g.meta = f.meta /\ g.assets = f.assets
        /\ g.rollback = f.rollback /\ g.check = f.check
  <2>1. bucket[upd[h]] \in Folder
    BY <1>3 DEF TypeOK
  <2>2. ASSUME NEW f \in Folder, NEW p
        PROVE  LET g == Described(f, p) IN
                 /\ g.stored = p /\ g.meta = f.meta /\ g.assets = f.assets
                 /\ g.rollback = f.rollback /\ g.check = f.check
    BY DEF Described, Folder
  <2> QED
    BY <1>5, <2>1, <2>2
<1>7. ~ bucket[upd[h]].check
  BY Unpublished
<1>8. Remembered
  BY <1>2 DEF Remembered
<1>9. OwnFolderOnly(h)
  BY <1>7 DEF OwnFolderOnly, TypeOK
<1>10. OwnStage(h)'
  <2>1. pc'[h] = l /\ plat' = plat /\ op' = op /\ upd' = upd /\ serving' = serving
    BY <1>1, <1>2, <1>3 DEF TypeOK, lookupVars, clientVars
  <2>2. RollbackStage(h)'
    BY <1>1, <1>6, <1>7, <2>1 DEF RollbackStage
  <2>3. RepublishStage(h)'
    <3>1. SUFFICES ASSUME op[h] = "republish" PROVE RepublishStage(h)'
      BY <2>1 DEF RepublishStage
    <3>2. l = "firstUUID"
      BY <1>1, <3>1
    <3> QED
      BY <1>6, <1>7, <2>1, <3>1, <3>2 DEF RepublishStage, Inv, Stages
  <2>4. KeyIsPlatform(h)'
    BY <1>1, <2>1 DEF KeyIsPlatform
  <2> QED
    BY <1>4, <2>1, <2>2, <2>3, <2>4, RollbackOrRepublish DEF OwnStage
<1>11. pc[h] \in Working /\ l \in Working /\ l # "copy" /\ l # "describe"
  BY DEF Working
<1>12. ~ bucket'[upd[h]].check /\ bucket'[upd[h]].meta = bucket[upd[h]].meta
  BY <1>6, <1>7
<1> QED
  BY <1>1, <1>2, <1>8, <1>9, <1>10, <1>11, <1>12, HandlerKeepsInv

LEMMA FlagRollbackInv ==
  ASSUME Orderly, TypeOK, TypeOK', Inv, NEW h \in Handler, FlagRollback(h)
  PROVE  Inv'
<1> USE DEF FlagRollback, Goto, HandlerUnchanged, cacheVars
<1>1. pc' = [pc EXCEPT ![h] = "firstUUID"]
  OBVIOUS
<1>2. UNCHANGED <<clock, lastUpdate, metadataCache, clientVars, op, upd, source, key, lookupVars>>
  OBVIOUS
<1>3. upd[h] \in Id /\ h \in Proc
  BY Owner DEF Proc
<1>4. op[h] = "rollback"
  <2>1. op[h] # "mark"
    BY Marking, ConstantsAssumption DEF MarkStage, Lookup, Answers
  <2>2. op[h] # "republish"
    BY DEF Inv, Stages, RepublishStage
  <2> QED
    BY <2>1, <2>2, Owner
<1>5. LET f == bucket[upd[h]]
          g == bucket'[upd[h]] IN
        g.stored = f.stored /\ g.meta = f.meta /\ g.rollback /\ g.check = f.check
  BY <1>3 DEF TypeOK, Folder
<1>6. ~ bucket[upd[h]].check
  BY Unpublished
<1>7. Remembered
  BY <1>2 DEF Remembered
<1>8. OwnFolderOnly(h)
  BY <1>5, <1>6 DEF OwnFolderOnly, TypeOK
<1>9. OwnStage(h)'
  <2>1. pc'[h] = "firstUUID" /\ plat' = plat /\ op' = op /\ upd' = upd /\ serving' = serving
    BY <1>1, <1>2, <1>3 DEF TypeOK, lookupVars, clientVars
  <2>2. RollbackStage(h)'
    BY <1>4, <1>5, <1>6, <2>1 DEF RollbackStage, Inv, Stages
  <2> QED
    BY <1>4, <2>1, <2>2, RollbackOrRepublish DEF OwnStage, RepublishStage, KeyIsPlatform
<1>10. pc[h] \in Working /\ "firstUUID" \in Working
  BY DEF Working
<1>11. ~ bucket'[upd[h]].check /\ bucket'[upd[h]].meta = bucket[upd[h]].meta
  BY <1>5, <1>6
<1> QED
  BY <1>1, <1>2, <1>7, <1>8, <1>9, <1>10, <1>11, HandlerKeepsInv

LEMMA RetrieveStoredMetadataInv ==
  ASSUME Orderly, TypeOK, TypeOK', Inv, NEW h \in Handler, RetrieveStoredMetadata(h)
  PROVE  Inv'
<1> USE DEF RetrieveStoredMetadata, Goto, HandlerUnchanged, bucketVars, cacheVars
<1>1. UNCHANGED <<clock, bucket, lastUpdate, metadataCache, clientVars, op, upd, source, lookupVars>>
  OBVIOUS
<1>2. upd[h] \in Id /\ h \in Proc /\ plat[h] \in Platform
  BY Owner DEF Proc
<1>3. bucket[upd[h]].stored = plat[h] /\ ~ bucket[upd[h]].check
  <2>1. CASE op[h] = "mark"
    <3>1. PICK c \in Client : /\ serving[c] = h /\ mine[c] = upd[h] /\ MarkStage(c) /\ h # None
                             /\ plat[h] = want[c].platform
      BY <2>1, Marking
    <3> QED
      BY <3>1 DEF MarkStage, Exported
  <2>2. CASE op[h] \in {"rollback", "republish"}
    BY <2>2 DEF Inv, Stages, RollbackStage, RepublishStage
  <2> QED
    BY <2>1, <2>2, Owner
<1>4. pc' = [pc EXCEPT ![h] = "uuid"] /\ key' = [key EXCEPT ![h] = plat[h]]
  BY <1>2, <1>3, ConstantsAssumption
<1>5. pc'[h] = "uuid" /\ key'[h] \in Platform
  BY <1>2, <1>4 DEF TypeOK
<1>6. Remembered /\ OwnFolderOnly(h)
  BY <1>1 DEF Remembered, OwnFolderOnly
<1>7. OwnStage(h)'
  <2>1. plat' = plat /\ op' = op /\ upd' = upd /\ serving' = serving /\ want' = want /\ mine' = mine
    BY <1>1 DEF lookupVars, clientVars
  <2>2. ASSUME NEW c \in Client, serving[c] = h PROVE MarkStage(c)'
    <3>1. MarkStage(c) /\ h # None
      BY ConstantsAssumption DEF Inv, Stages
    <3> QED
      BY <1>1, <1>5, <2>1, <2>2, <3>1 DEF MarkStage, Exported, Lookup
  <2>3. RollbackStage(h)'
    BY <1>1, <1>5, <2>1 DEF RollbackStage, Inv, Stages
  <2>4. RepublishStage(h)'
    BY <1>1, <1>5, <2>1 DEF RepublishStage, Inv, Stages
  <2> QED
    BY <1>5, <2>1, <2>2, <2>3, <2>4 DEF OwnStage, KeyIsPlatform
<1>8. pc[h] \in Working /\ "uuid" \in Working
  BY DEF Working
<1>9. \A g \in Handler \ {h} : key'[g] = key[g]
  BY <1>4 DEF TypeOK
<1> QED
  BY <1>1, <1>3, <1>4, <1>6, <1>7, <1>8, <1>9, HandlerKeepsInv

LEMMA StoreUpdateUUIDInv ==
  ASSUME Orderly, TypeOK, TypeOK', Inv, NEW h \in Handler, StoreUpdateUUID(h)
  PROVE  Inv'
<1> USE DEF StoreUpdateUUID, Goto, HandlerUnchanged
<1>1. UNCHANGED <<clock, lastUpdate, clientVars, op, upd, source, key, lookupVars>>
  OBVIOUS
<1>2. upd[h] \in Id /\ h \in Proc /\ plat[h] \in Platform
  BY Owner DEF Proc
<1>3. bucket[upd[h]].stored = plat[h] /\ ~ bucket[upd[h]].check
  <2>1. CASE op[h] = "mark"
    <3>1. PICK c \in Client : /\ serving[c] = h /\ mine[c] = upd[h] /\ MarkStage(c) /\ h # None
                             /\ plat[h] = want[c].platform
      BY <2>1, Marking
    <3> QED
      BY <3>1 DEF MarkStage, Exported, Lookup, Answers
  <2>2. CASE op[h] \in {"rollback", "republish"}
    BY <2>2 DEF Inv, Stages, RollbackStage, RepublishStage
  <2> QED
    BY <2>1, <2>2, Owner
<1> DEFINE known == MetadataOf(upd[h]) # None
<1>4. /\ bucket' = [bucket EXCEPT ![upd[h]].uuid = known]
      /\ Remember({upd[h]})
      /\ pc' = [pc EXCEPT ![h] = IF pc[h] = "firstUUID" THEN "retrieve" ELSE "check"]
  BY <1>2, <1>3, ConstantsAssumption
<1>5. known <=> MetadataOf(upd[h]) # None
  OBVIOUS
<1> HIDE DEF known
<1>6. PICK l \in {"retrieve", "check"} :
         pc' = [pc EXCEPT ![h] = l] /\ (l = "retrieve" => pc[h] = "firstUUID")
                                   /\ (l = "check" => pc[h] = "uuid")
  BY <1>4
<1>7. LET f == bucket[upd[h]]
          g == bucket'[upd[h]] IN
        /\ g.stored = f.stored /\ g.meta = f.meta /\ g.assets = f.assets
        /\ g.rollback = f.rollback /\ g.check = f.check /\ g.uuid = known
  <2>1. bucket[upd[h]] \in Folder /\ bucket'[upd[h]] = [bucket[upd[h]] EXCEPT !.uuid = known]
    BY <1>2, <1>4 DEF TypeOK
  <2> QED
    BY <2>1 DEF Folder
<1>8. bucket[upd[h]].meta # None => known
  BY <1>5 DEF MetadataOf
<1>9. Remembered
  BY <1>4, KnownUpdates DEF Remembered, Remember
<1>10. OwnFolderOnly(h)
  BY <1>3, <1>4, <1>7 DEF OwnFolderOnly, TypeOK
<1>11. OwnStage(h)'
  <2>1. /\ pc'[h] = l /\ plat' = plat /\ op' = op /\ upd' = upd /\ key' = key
        /\ serving' = serving /\ want' = want /\ mine' = mine
    BY <1>1, <1>2, <1>6 DEF TypeOK, lookupVars, clientVars
  <2>2. ASSUME NEW c \in Client, serving[c] = h PROVE MarkStage(c)'
    <3>1. MarkStage(c) /\ h # None /\ mine[c] = upd[h] /\ want[c].content # None
      <4>1. h # None /\ pc[h] # "idle" /\ op[h] = "mark"
        BY <2>2, ConstantsAssumption DEF Inv, Ownership, Served
      <4>2. MarkStage(c) /\ mine[c] = upd[h]
        BY <2>2, <4>1 DEF Inv, Stages, Ownership, Served
      <4>3. want[c].content \in Content
        BY DEF TypeOK
      <4> QED
        BY <4>1, <4>2, <4>3, ConstantsAssumption
    <3>2. pc[h] = "uuid" /\ l = "check"
      BY <1>6, <2>2, <3>1 DEF MarkStage, Lookup, Answers
    <3>3. Exported(c, mine[c]) /\ known
      BY <1>8, <2>2, <3>1, <3>2 DEF MarkStage, Exported
    <3>4. Exported(c, mine[c])' /\ bucket'[mine[c]].uuid /\ ~ bucket'[mine[c]].check
      BY <1>3, <1>7, <2>1, <3>1, <3>3 DEF Exported
    <3> QED
      BY <2>1, <2>2, <3>2, <3>4 DEF MarkStage, Lookup, Answers
  <2>3. RollbackStage(h)'
    BY <1>6, <1>7, <2>1 DEF RollbackStage, Inv, Stages
  <2>4. RepublishStage(h)'
    <3>1. SUFFICES ASSUME op[h] = "republish" PROVE RepublishStage(h)'
      BY <2>1 DEF RepublishStage
    <3>2. RepublishStage(h)
      BY DEF Inv, Stages
    <3> QED
      BY <1>6, <1>7, <1>8, <2>1, <3>1, <3>2 DEF RepublishStage
  <2>5. KeyIsPlatform(h)'
    BY <1>6, <2>1 DEF KeyIsPlatform, Inv, Stages
  <2> QED
    BY <2>1, <2>2, <2>3, <2>4, <2>5 DEF OwnStage
<1>12. pc[h] \in Working /\ l \in Working /\ l # "copy" /\ l # "describe"
  BY DEF Working
<1>13. ~ bucket'[upd[h]].check /\ bucket'[upd[h]].meta = bucket[upd[h]].meta
  BY <1>3, <1>7
<1> QED
  BY <1>1, <1>6, <1>9, <1>10, <1>11, <1>12, <1>13, HandlerKeepsInv

LEMMA WriteCheckInv ==
  ASSUME Orderly, TypeOK, TypeOK', Inv, NEW h \in Handler, WriteCheck(h)
  PROVE  Inv'
<1> USE DEF WriteCheck, Goto, HandlerUnchanged, cacheVars
<1>1. UNCHANGED <<clock, lastUpdate, metadataCache, clientVars, op, upd, source, key, lookupVars>>
  OBVIOUS
<1>2. upd[h] \in Id /\ h \in Proc /\ plat[h] \in Platform
  BY Owner DEF Proc
<1>3. pc' = [pc EXCEPT ![h] = "invalidate"]
  OBVIOUS
<1>4. LET f == bucket[upd[h]]
          g == bucket'[upd[h]] IN
        /\ g.stored = f.stored /\ g.meta = f.meta /\ g.assets = f.assets
        /\ g.rollback = f.rollback /\ g.check /\ g.uuid = f.uuid
  BY <1>2 DEF TypeOK, Folder
<1>5. ~ bucket[upd[h]].check
  BY Unpublished
<1>6. Complete(upd[h])
  <2>1. CASE op[h] = "mark"
    <3>1. PICK c \in Client : /\ serving[c] = h /\ mine[c] = upd[h] /\ MarkStage(c) /\ h # None
                             /\ plat[h] = want[c].platform
      BY <2>1, Marking
    <3>2. Exported(c, upd[h]) /\ bucket[upd[h]].uuid
      BY <3>1 DEF MarkStage, Lookup, Answers
    <3> QED
      BY <1>2, <3>1, <3>2, ConstantsAssumption DEF Exported, Complete, TypeOK
  <2>2. CASE op[h] \in {"rollback", "republish"}
    BY <1>2, <2>2, ConstantsAssumption DEF Inv, Stages, RollbackStage, RepublishStage, Complete
  <2> QED
    BY <2>1, <2>2, Owner
<1>7. Complete(upd[h])'
  BY <1>1, <1>4, <1>6 DEF Complete
<1>8. Remembered
  BY <1>1 DEF Remembered
<1>9. OwnFolderOnly(h)
  BY <1>4, <1>5 DEF OwnFolderOnly, TypeOK
<1>10. OwnStage(h)'
  <2>1. /\ pc'[h] = "invalidate" /\ plat' = plat /\ op' = op /\ upd' = upd /\ key' = key
        /\ serving' = serving /\ want' = want /\ mine' = mine
    BY <1>1, <1>2, <1>3 DEF TypeOK, lookupVars, clientVars
  <2>2. ASSUME NEW c \in Client, serving[c] = h PROVE MarkStage(c)'
    <3>1. MarkStage(c) /\ h # None /\ mine[c] = upd[h]
      BY <2>2, Owner, ConstantsAssumption DEF Inv, Stages
    <3>2. Exported(c, mine[c])
      BY <2>2, <3>1 DEF MarkStage, Lookup, Answers
    <3>3. Exported(c, mine[c])' /\ bucket'[mine[c]].check
      BY <1>4, <2>1, <3>1, <3>2 DEF Exported
    <3> QED
      BY <2>1, <2>2, <3>3 DEF MarkStage, Lookup, Answers
  <2>3. RollbackStage(h)'
    BY <1>4, <2>1 DEF RollbackStage, Inv, Stages
  <2>4. RepublishStage(h)'
    BY <1>4, <2>1 DEF RepublishStage, Inv, Stages
  <2>5. KeyIsPlatform(h)'
    BY <2>1 DEF KeyIsPlatform, Inv, Stages
  <2> QED
    BY <2>1, <2>2, <2>3, <2>4, <2>5 DEF OwnStage
<1>11. pc[h] \in Working /\ "invalidate" \in Working
  BY DEF Working
<1> QED
  BY <1>1, <1>3, <1>4, <1>7, <1>8, <1>9, <1>10, <1>11, HandlerKeepsInv

--------------------------------------------------------------------------------
(* The steps of lookups. *)

\* A step of the lookup of goroutine q keeps the invariant if it keeps to the
\* variables of q, and what it finds and caches is published.
LEMMA LookupKeepsInv ==
  ASSUME TypeOK, TypeOK', Inv, NEW q \in Proc,
         UNCHANGED <<bucketVars, clientVars, op, upd, source, key>>,
         \A h \in Handler : plat'[h] = plat[h],
         \A r \in Proc \ {q} : /\ pc'[r] = pc[r] /\ plat'[r] = plat[r]
                              /\ unread'[r] = unread[r] /\ cands'[r] = cands[r]
                              /\ latest'[r] = latest[r] /\ floor'[r] = floor[r],
         q \in Handler => pc[q] \in Lookup /\ pc'[q] \in Lookup \cup {"retrieve"},
         q \notin Handler => pc'[q] \in {"idle"} \cup Lookup,
         q \in Warmer => pc[q] # "idle",
         Remembered,
         LookupStage(q)',
         pc'[q] \in {"fill", "found"} /\ latest'[q] # NoUpdate => latest'[q] \in Published(plat'[q]),
         \A p \in Platform : lastUpdate'[p] \in {lastUpdate[p], NoUpdate} \cup Published(p),
         Reliable /\ ListsAll /\ pc'[q] = "fill" => latest'[q] >= floor'[q]
  PROVE  Inv'
<1>1. /\ Ownership' /\ NothingAhead' /\ Stages' /\ CachedMetadata' /\ Warmers'
      /\ PublishedIsComplete'
  BY LookupFrame
<1>2. UNCHANGED <<clock, bucket, cpc, mine, upd>>
  BY DEF bucketVars, clientVars
<1>3. \A u : Settled(u) => Settled(u)'
  <2>1. ASSUME NEW h \in Handler, pc'[h] \in {"copy", "describe"} PROVE pc[h] \in {"copy", "describe"}
    <3>1. CASE h = q
      BY <2>1, <3>1 DEF Lookup
    <3>2. CASE h # q
      BY <2>1, <3>2 DEF Proc
    <3> QED
      BY <3>1, <3>2
  <2> QED
    BY <1>2, <2>1 DEF Settled
<1>4. ASSUME NEW r \in Proc, r # q PROVE LookupStage(r)'
  BY <1>2, <1>3, <1>4 DEF Inv, Lookups, LookupStage, Published, Reliable, ListsAll
<1>5. AnswersArePublished'
  <2>1. \A p : Published(p)' = Published(p)
    BY <1>2 DEF Published
  <2>2. ASSUME NEW r \in Proc, pc'[r] \in {"fill", "found"}, latest'[r] # NoUpdate
        PROVE  latest'[r] \in Published(plat'[r])
    BY <2>2 DEF Inv, AnswersArePublished
  <2>3. ASSUME NEW p \in Platform, lastUpdate'[p] # NoUpdate PROVE lastUpdate'[p] \in Published(p)
    BY <2>3 DEF Inv, AnswersArePublished
  <2> QED
    BY <1>2, <2>2, <2>3 DEF AnswersArePublished, Published
<1>6. Reliable /\ ListsAll => ScanIsFresh'
  BY DEF Inv, ScanIsFresh
<1> QED
  BY <1>1, <1>4, <1>5, <1>6 DEF Inv, Lookups, Reliable

\* What the lookup takes for granted when it answers the first valid update.
LEMMA ScannedIsPublished ==
  ASSUME TypeOK, Inv, NEW q \in Proc, pc[q] = "scan", NEW u \in cands[q], bucket[u].check
  PROVE  u \in Published(plat[q])
<1>1. u \in Id /\ bucket[u].stored \in {plat[q], None}
  BY DEF TypeOK, Inv, Lookups, LookupStage
<1>2. bucket[u].stored # None
  BY <1>1 DEF Inv, PublishedIsComplete, Complete
<1> QED
  BY <1>1, <1>2 DEF Published

\* A bucket that lists every folder leaves out none of the ids up to MaxId.
LEMMA CompleteListing ==
  ASSUME ListsAll, NEW u \in Existing
  PROVE  u \in GetUpdates
<1> DEFINE Older == {v \in Existing : v < u}
<1>1. u \in Id /\ u \in Int /\ Older \subseteq 1..(u - 1)
  BY DEF Existing, Id
<1>2. IsFiniteSet(1..(u - 1)) /\ Cardinality(1..(u - 1)) = u - 1
  BY <1>1, FS_Interval DEF Id
<1>3. Cardinality(Older) <= u - 1 /\ Cardinality(Older) \in Nat
  BY <1>1, <1>2, FS_Subset, FS_CardinalityType
<1>4. u <= MaxId /\ MaxId <= ListLimit /\ MaxId \in Nat /\ ListLimit \in Nat
  BY <1>1, ConstantsAssumption DEF ListsAll, Id
<1> HIDE DEF Older
<1>5. Cardinality(Older) < ListLimit
  BY <1>1, <1>3, <1>4
<1> QED
  BY <1>5 DEF GetUpdates, Older

\* A folder that has its description will not be described again.
LEMMA DescribedIsSettled ==
  ASSUME TypeOK, Inv, NEW u \in Id, bucket[u].stored # None
  PROVE  Settled(u)
<1>1. bucket[u] # EmptyFolder
  BY DEF EmptyFolder
<1>2. u < clock
  BY <1>1 DEF Inv, NothingAhead, TypeOK, Id
<1>3. \A c \in Client : cpc[c] = "requesting" => mine[c] # u
  BY <1>1 DEF Inv, Stages, ClientStage
<1>4. ASSUME NEW h \in Handler, pc[h] \in {"copy", "describe"}, upd[h] = u PROVE FALSE
  <2>1. op[h] \in {"rollback", "republish"}
    BY <1>4, Owner, Marking, ConstantsAssumption DEF MarkStage, Lookup, Answers
  <2> QED
    BY <1>1, <1>4, <2>1 DEF Inv, Stages, RollbackStage, RepublishStage
<1> QED
  BY <1>2, <1>3, <1>4 DEF Settled

LEMMA LookupStepInv ==
  ASSUME Orderly, TypeOK, TypeOK', Inv, NEW q \in Proc, LookupStep(q)
  PROVE  Inv'
<1> USE DEF LookupUnchanged
<1>1. UNCHANGED <<bucketVars, clientVars, op, upd, source, key>> /\ plat' = plat
      /\ metadataCache' = metadataCache /\ bucket' = bucket /\ clock' = clock
      /\ mine' = mine /\ cpc' = cpc
  BY DEF LookupStep, GetCached, ListUpdates, FilterUpdate, ScanUpdate, FillCache, bucketVars,
         clientVars
<1>2. Remembered
  BY <1>1 DEF Remembered
<1>3. pc[q] \in Lookup /\ pc'[q] \in Lookup /\ plat[q] \in Platform
      /\ \A r \in Proc \ {q} : pc'[r] = pc[r]
  <2>1. plat[q] \in Platform
    BY DEF LookupStep, GetCached, ListUpdates, FilterUpdate, ScanUpdate, FillCache, Lookup, Inv,
           Lookups, LookupStage
  <2> QED
    BY <2>1 DEF LookupStep, GetCached, ListUpdates, FilterUpdate, AfterListing, ScanUpdate,
                FillCache, Lookup, TypeOK
<1>4. "idle" \notin Lookup /\ "retrieve" \notin Lookup
  BY DEF Lookup
<1>5. CASE GetCached(q)
  <2> USE <1>5 DEF GetCached
  <2>1. UNCHANGED <<lastUpdate, unread, cands, floor>>
    OBVIOUS
  <2>2. \A r \in Proc \ {q} : latest'[r] = latest[r]
    BY DEF TypeOK
  <2>3. pc'[q] = "list" \/ (pc'[q] = "found" /\ latest'[q] = lastUpdate[plat[q]])
    BY DEF TypeOK
  <2>4. LookupStage(q)'
    BY <1>1, <1>3, <2>3 DEF LookupStage
  <2>5. pc'[q] \in {"fill", "found"} /\ latest'[q] # NoUpdate => latest'[q] \in Published(plat'[q])
    BY <1>1, <1>3, <2>3 DEF Inv, AnswersArePublished
  <2> QED
    BY <1>1, <1>2, <1>3, <1>4, <2>1, <2>2, <2>3, <2>4, <2>5, LookupKeepsInv
<1>6. CASE ListUpdates(q)
  <2> USE <1>6 DEF ListUpdates
  <2>1. UNCHANGED <<lastUpdate, latest>>
    OBVIOUS
  <2>2. \A r \in Proc \ {q} : /\ unread'[r] = unread[r] /\ cands'[r] = cands[r]
                              /\ floor'[r] = floor[r]
    BY DEF TypeOK
  <2>3. /\ unread'[q] = GetUpdates /\ cands'[q] = {} /\ floor'[q] = LatestPublished(plat[q])
        /\ pc'[q] = IF GetUpdates = {} THEN "scan" ELSE "filter"
    BY DEF AfterListing, TypeOK
  <2>4. ASSUME LatestPublished(plat[q]) # NoUpdate, ListsAll
        PROVE  LatestPublished(plat[q]) \in GetUpdates \cap Published(plat[q])
    <3>1. LatestPublished(plat[q]) \in Published(plat[q])
      BY <2>4, NewestIsMaximum DEF LatestPublished, Published
    <3>2. Published(plat[q]) \subseteq Existing
      BY DEF Published, Existing, EmptyFolder
    <3> QED
      BY <2>4, <3>1, <3>2, CompleteListing
  <2>5. LookupStage(q)'
    BY <1>1, <1>3, <2>3, <2>4 DEF LookupStage, Published, ListsAll
  <2> QED
    BY <1>1, <1>2, <1>3, <1>4, <2>1, <2>2, <2>3, <2>5, LookupKeepsInv
<1>7. CASE FilterUpdate(q)
  <2> USE <1>7 DEF FilterUpdate
  <2>1. UNCHANGED <<lastUpdate, latest, floor>> /\ pc[q] = "filter"
    OBVIOUS
  <2>2. \A r \in Proc \ {q} : unread'[r] = unread[r] /\ cands'[r] = cands[r]
    BY DEF TypeOK
  <2>3. PICK u \in unread[q] :
          /\ unread'[q] = unread[q] \ {u}
          /\ cands'[q] = IF IsFor(u, plat[q]) THEN cands[q] \cup {u} ELSE cands[q]
          /\ pc'[q] = IF unread'[q] = {} THEN "scan" ELSE "filter"
    BY DEF AfterListing, NextToRead, TypeOK
  <2>4. ASSUME IsFor(u, plat[q]) PROVE Settled(u)' /\ bucket'[u].stored = plat[q]
    <3>1. u \in Id /\ bucket[u].stored # None
      BY <1>3, <2>3, <2>4, ConstantsAssumption DEF IsFor, TypeOK
    <3>2. Settled(u)
      BY <3>1, DescribedIsSettled
    <3>3. \A h \in Handler : pc'[h] \in {"copy", "describe"} => pc[h] \in {"copy", "describe"}
      BY <1>3, <2>3 DEF Proc
    <3> QED
      BY <1>1, <2>4, <3>2, <3>3 DEF Settled, IsFor
  <2>5. ASSUME NEW v \in cands[q] PROVE Settled(v)' /\ bucket'[v].stored \in {plat[q], None}
    <3>1. Settled(v) /\ bucket[v].stored \in {plat[q], None}
      BY <2>1 DEF Inv, Lookups, LookupStage
    <3>2. \A h \in Handler : pc'[h] \in {"copy", "describe"} => pc[h] \in {"copy", "describe"}
      BY <1>3, <2>3 DEF Proc
    <3> QED
      BY <1>1, <3>1, <3>2 DEF Settled
  <2>6. ASSUME floor[q] # NoUpdate, Reliable, ListsAll
        PROVE  floor[q] \in (unread'[q] \cup cands'[q]) \cap Published(plat[q])
    <3>1. floor[q] \in (unread[q] \cup cands[q]) \cap Published(plat[q])
      BY <2>1, <2>6 DEF Inv, Lookups, LookupStage
    <3> QED
      BY <2>3, <3>1 DEF Published, IsFor
  <2>7. LookupStage(q)'
    BY <1>1, <1>3, <2>1, <2>3, <2>4, <2>5, <2>6 DEF LookupStage, Published, Reliable, ListsAll
  <2> QED
    BY <1>1, <1>2, <1>3, <1>4, <2>1, <2>2, <2>3, <2>7, LookupKeepsInv
<1>8. CASE ScanUpdate(q)
  <2> USE <1>8 DEF ScanUpdate
  <2>1. UNCHANGED <<lastUpdate, unread, floor>> /\ pc[q] = "scan"
    OBVIOUS
  <2>2. \A r \in Proc \ {q} : cands'[r] = cands[r] /\ latest'[r] = latest[r]
    BY DEF TypeOK
  <2>3. CASE cands[q] = {}
    <3>1. pc'[q] = "found" /\ latest'[q] = NoUpdate
      BY <2>3 DEF TypeOK
    <3>2. LookupStage(q)'
      BY <1>1, <1>3, <3>1 DEF LookupStage
    <3> QED
      BY <1>1, <1>2, <1>3, <1>4, <2>1, <2>2, <3>1, <3>2, LookupKeepsInv
  <2>4. CASE cands[q] # {}
    <3> DEFINE u == NextToScan(cands[q])
    <3>1. u \in cands[q] /\ cands[q] \in SUBSET Id /\ \A v \in cands[q] : v <= u
      BY <2>4, NewestIsMaximum DEF NextToScan, TypeOK
    <3>2. CASE bucket[u].check
      <4>1. pc'[q] = "fill" /\ latest'[q] = u
        BY <2>4, <3>2 DEF TypeOK, IsUpdateValid
      <4>2. u \in Published(plat[q])
        BY <3>1, <3>2, ScannedIsPublished
      <4>3. u # NoUpdate /\ u \in Id
        BY <3>1 DEF Id, NoUpdate
      <4> HIDE DEF u
      <4>4. LookupStage(q)'
        BY <1>1, <1>3, <4>1, <4>3 DEF LookupStage
      <4>5. Reliable /\ ListsAll => u >= floor[q]
        <5>1. CASE floor[q] = NoUpdate
          BY <4>3, <5>1 DEF NoUpdate, Id
        <5>2. ASSUME floor[q] # NoUpdate, Reliable, ListsAll PROVE floor[q] \in cands[q]
          BY <2>1, <5>2 DEF Inv, Lookups, LookupStage
        <5>3. ASSUME floor[q] \in cands[q] PROVE u >= floor[q]
          <6>1. floor[q] \in Int /\ u \in Int /\ floor[q] <= u
            BY <3>1, <4>3, <5>3 DEF Id
          <6> QED
            BY <6>1
        <5> QED
          BY <5>1, <5>2, <5>3
      <4> QED
        BY <1>1, <1>2, <1>3, <1>4, <2>1, <2>2, <4>1, <4>2, <4>4, <4>5, LookupKeepsInv
    <3>3. CASE ~ bucket[u].check
      <4>1. pc' = pc /\ latest' = latest /\ cands'[q] = cands[q] \ {u}
        BY <2>4, <3>3 DEF TypeOK, IsUpdateValid
      <4> HIDE DEF u
      <4>2. \A v : Settled(v) => Settled(v)'
        BY <1>1, <4>1 DEF Settled
      <4>3. LookupStage(q)'
        BY <1>1, <1>3, <2>1, <3>3, <4>1, <4>2
        DEF LookupStage, Inv, Lookups, Reliable, ListsAll, Published
      <4> QED
        BY <1>1, <1>2, <1>3, <1>4, <2>1, <2>2, <4>1, <4>3, LookupKeepsInv
    <3> QED
      BY <3>2, <3>3
  <2> QED
    BY <2>3, <2>4
<1>9. CASE FillCache(q)
  <2> USE <1>9 DEF FillCache
  <2>1. /\ UNCHANGED <<unread, cands, latest>>
        /\ \A r \in Proc \ {q} : floor'[r] = floor[r]
    BY DEF TypeOK
  <2>2. pc[q] = "fill" /\ pc'[q] = "found"
    BY DEF TypeOK
  <2>3. latest[q] \in Published(plat[q])
    BY <2>2 DEF Inv, AnswersArePublished, Lookups, LookupStage
  <2>4. LookupStage(q)'
    BY <1>1, <1>3, <2>2 DEF LookupStage
  <2>5. \A p \in Platform : lastUpdate'[p] \in {lastUpdate[p], NoUpdate} \cup Published(p)
    BY <1>3, <2>3 DEF TypeOK
  <2> QED
    BY <1>1, <1>2, <1>3, <1>4, <2>1, <2>2, <2>3, <2>4, <2>5, LookupKeepsInv
<1> QED
  BY <1>5, <1>6, <1>7, <1>8, <1>9 DEF LookupStep

LEMMA FinishReadInv ==
  ASSUME Orderly, TypeOK, TypeOK', Inv, NEW q \in Proc, FinishRead(q)
  PROVE  Inv'
<1> USE DEF FinishRead
<1>1. UNCHANGED <<bucketVars, lastUpdate, clientVars, op, upd, source, key, unread, cands>>
      /\ q \notin Handler /\ pc[q] = "found"
  BY ConstantsAssumption
<1>2. pc'[q] = "idle" /\ \A r \in Proc \ {q} : /\ pc'[r] = pc[r] /\ plat'[r] = plat[r]
                                              /\ latest'[r] = latest[r] /\ floor'[r] = floor[r]
  BY DEF TypeOK
<1>3. Remembered
  <2>1. latest[q] # NoUpdate => Known(latest[q])
    BY <1>1, KnownUpdates DEF Inv, AnswersArePublished, Published
  <2> QED
    BY <2>1 DEF Remembered, Remember
<1>4. LookupStage(q)'
  BY <1>2 DEF LookupStage, Lookup
<1>5. \A h \in Handler : plat'[h] = plat[h]
  BY <1>1, <1>2 DEF Proc
<1> QED
  BY <1>1, <1>2, <1>3, <1>4, <1>5, LookupKeepsInv

LEMMA StartReadInv ==
  ASSUME Orderly, TypeOK, TypeOK', Inv, NEW q \in Reader, NEW p \in Platform, StartRead(q, p)
  PROVE  Inv'
<1> USE DEF StartRead
<1>1. UNCHANGED <<bucketVars, lastUpdate, metadataCache, clientVars, op, upd, source, key,
                  unread, cands, latest, floor>>
  BY DEF cacheVars
<1>2. q \in Proc /\ q \notin Handler /\ q \notin Warmer
  BY ConstantsAssumption DEF Proc
<1>3. pc'[q] = "get" /\ plat'[q] = p /\ \A r \in Proc \ {q} : pc'[r] = pc[r] /\ plat'[r] = plat[r]
  BY <1>2 DEF TypeOK
<1>4. Remembered
  BY <1>1 DEF Remembered
<1>5. LookupStage(q)'
  BY <1>3 DEF LookupStage
<1>6. pc'[q] \in Lookup
  BY <1>3 DEF Lookup
<1>7. \A h \in Handler : plat'[h] = plat[h]
  BY <1>2, <1>3 DEF Proc
<1> QED
  BY <1>1, <1>2, <1>3, <1>4, <1>5, <1>6, <1>7, LookupKeepsInv

LEMMA ExpireLastUpdateInv ==
  ASSUME Orderly, TypeOK, TypeOK', Inv, NEW p \in Platform, ExpireLastUpdate(p)
  PROVE  Inv'
<1> USE DEF ExpireLastUpdate
<1>1. UNCHANGED <<clock, bucket, metadataCache, cpc, want, mine, sent, serving, pc, op, upd, source,
                  key, plat, unread, cands, latest, floor>>
  BY DEF bucketVars, clientVars, lookupVars
<1>2. AnswersArePublished'
  BY <1>1 DEF Inv, AnswersArePublished, Published, TypeOK
<1>3. Ownership' /\ NothingAhead' /\ CachedMetadata' /\ Warmers' /\ PublishedIsComplete'
  BY <1>1 DEF Inv, Ownership, OwnId, Served, OwnWork, NothingAhead, CachedMetadata, Warmers,
              PublishedIsComplete, Complete
<1>4. Stages'
  BY <1>1 DEF Inv, Stages, ClientStage, MarkStage, RollbackStage, RepublishStage, KeyIsPlatform,
              Exported, SameIsPublished, Published
<1>5. Lookups' /\ (Reliable /\ ListsAll => ScanIsFresh')
  BY <1>1 DEF Inv, Lookups, LookupStage, Settled, Published, Reliable, ListsAll, ScanIsFresh
<1> QED
  BY <1>2, <1>3, <1>4, <1>5 DEF Inv, Reliable

\* The lookup's share of what bucket errors do.
LEMMA BucketErrorInv ==
  ASSUME Orderly, TypeOK, TypeOK', Inv, NEW q \in Proc, BucketError(q)
  PROVE  Inv'
<1> USE DEF BucketError, FailedCall, Goto
<1>1. UNCHANGED <<clock, bucket, lastUpdate, metadataCache, clientVars, op, upd, source, key, plat,
                  latest, floor>>
      /\ UNCHANGED bucketVars
      /\ UNCHANGED <<cpc, mine>>
  BY DEF bucketVars, cacheVars, clientVars
<1>2. ~ Reliable
  BY DEF Reliable
<1>3. Remembered
  BY <1>1 DEF Remembered
<1>4. pc[q] \in Lookup => plat[q] \in Platform
  BY DEF Inv, Lookups, LookupStage
<1>5. CASE pc[q] \in {"filter", "scan"}
  <2>1. /\ unread'[q] \subseteq unread[q] /\ cands'[q] \subseteq cands[q]
        /\ \A r \in Proc \ {q} : /\ unread'[r] = unread[r] /\ cands'[r] = cands[r]
                                 /\ pc'[r] = pc[r]
    BY <1>5 DEF AfterListing, TypeOK
  <2>2. /\ pc'[q] \in {"filter", "scan"}
        /\ pc'[q] = "scan" => unread'[q] = {}
        /\ pc'[q] = "filter" => unread'[q] # {}
    <3>1. pc[q] = "scan" => unread[q] = {}
      BY DEF Inv, Lookups, LookupStage
    <3> QED
      BY <1>5, <3>1 DEF AfterListing, TypeOK
  <2>3. \A v : Settled(v) => Settled(v)'
    <3>1. \A h \in Handler : pc'[h] \in {"copy", "describe"} => pc[h] \in {"copy", "describe"}
      BY <2>1, <2>2 DEF Proc
    <3> QED
      BY <1>1, <3>1 DEF Settled
  <2>4. pc[q] \in Lookup /\ pc'[q] \in Lookup
    BY <1>5, <2>2 DEF Lookup
  <2>5. LookupStage(q)'
    BY <1>1, <1>2, <1>4, <1>5, <2>1, <2>2, <2>3, <2>4 DEF Inv, Lookups, LookupStage, Reliable
  <2> QED
    BY <1>1, <1>3, <1>5, <2>1, <2>2, <2>4, <2>5, LookupKeepsInv DEF Lookup
<1>6. CASE pc[q] = "list"
  <2>1. /\ UNCHANGED <<unread, cands>> /\ pc[q] \in Lookup
        /\ pc' = [pc EXCEPT ![q] = IF q \in Handler THEN "retrieve" ELSE "idle"]
    BY <1>6 DEF Lookup
  <2>2. /\ q \in Handler => pc'[q] = "retrieve"
        /\ q \notin Handler => pc'[q] = "idle"
        /\ \A r \in Proc \ {q} : pc'[r] = pc[r]
    BY <2>1 DEF TypeOK
  <2>3. LookupStage(q)' /\ pc'[q] \notin {"fill", "found"}
    BY <2>2 DEF LookupStage, Lookup
  <2> QED
    BY <1>1, <1>3, <1>6, <2>1, <2>2, <2>3, LookupKeepsInv
<1>7. CASE pc[q] \notin {"filter", "scan", "list"}
  <2>1. PICK l \in {"discardInvalid", "invalidate", "failed"} :
           /\ pc' = [pc EXCEPT ![q] = l] /\ UNCHANGED <<unread, cands>>
           /\ l = "discardInvalid" => pc[q] = "verify"
           /\ l = "invalidate" => pc[q] = "check"
           /\ pc[q] \in Working \cup {"found"}
           /\ pc[q] = "found" => q \in Handler
    BY <1>7 DEF Working
  <2>2. q \in Handler
    BY <2>1 DEF Inv, Warmers, Lookup, Working, Proc
  <2>3. OwnFolderOnly(q)
    BY <1>1 DEF OwnFolderOnly
  <2>4. UNCHANGED lookupVars
    BY <1>1, <2>1 DEF lookupVars
  <2>5. OwnStage(q)'
    <3>1. /\ pc'[q] = l /\ serving' = serving /\ want' = want /\ mine' = mine
          /\ op' = op /\ upd' = upd /\ plat' = plat /\ key' = key /\ bucket' = bucket
      BY <1>1, <2>1 DEF TypeOK, clientVars
    <3>2. ASSUME NEW c \in Client, serving[c] = q PROVE MarkStage(c)'
      <4>1. MarkStage(c) /\ q # None
        BY <2>2, ConstantsAssumption DEF Inv, Stages
      <4> QED
        BY <1>2, <2>1, <3>1, <3>2, <4>1 DEF MarkStage, Exported, Lookup, Answers, Reliable
    <3>3. RollbackStage(q)'
      BY <2>1, <2>2, <3>1 DEF RollbackStage, Inv, Stages
    <3>4. RepublishStage(q)'
      BY <2>1, <2>2, <3>1 DEF RepublishStage, Inv, Stages
    <3>5. KeyIsPlatform(q)'
      BY <2>1, <2>2, <3>1 DEF KeyIsPlatform, Inv, Stages
    <3> QED
      BY <3>1, <3>2, <3>3, <3>4, <3>5 DEF OwnStage
  <2>6. l \in Working \cup Answers /\ l # "copy" /\ l # "describe"
    BY DEF Working, Answers
  <2>7. bucket'[upd[q]].check => Complete(upd[q])'
    <3>1. upd[q] \in Id
      BY <2>1, <2>2, Owner DEF Working
    <3> QED
      BY <1>1, <3>1 DEF Inv, PublishedIsComplete, Complete
  <2> QED
    BY <1>1, <1>3, <2>1, <2>2, <2>3, <2>4, <2>5, <2>6, <2>7, HandlerKeepsInv
<1> QED
  BY <1>5, <1>6, <1>7

--------------------------------------------------------------------------------
(* The steps of clients. *)

LEMMA RequestUploadUrlInv ==
  ASSUME Orderly, TypeOK, TypeOK', Inv, NEW c \in Client, RequestUploadUrl(c)
  PROVE  Inv'
<1> USE DEF Inv
<1>1. /\ cpc[c] = "idle" /\ clock \in Id /\ clock' = clock + 1
      /\ mine' = [mine EXCEPT ![c] = clock] /\ cpc' = [cpc EXCEPT ![c] = "requesting"]
      /\ serving[c] = None
  BY DEF RequestUploadUrl, Orderly, MayRetry, Timestamp, Ownership, OwnId
<1>2. UNCHANGED <<bucket, lastUpdate, metadataCache, want, sent, serving, pc, op, upd, source, key,
                  plat, unread, cands, latest, floor>>
  BY DEF RequestUploadUrl, cacheVars, lookupVars
<1>3. /\ mine'[c] = clock /\ cpc'[c] = "requesting"
      /\ \A d \in Client \ {c} : mine'[d] = mine[d] /\ cpc'[d] = cpc[d]
  BY <1>1 DEF TypeOK
<1>4. /\ \A d \in Client : mine[d] < clock /\ mine[d] \in Int
      /\ \A h \in Handler : upd[h] < clock /\ upd[h] \in Int
      /\ clock \in Int
  BY DEF Ownership, OwnId, OwnWork, TypeOK, Id, NoUpdate
<1>5. Ownership'
  <2>1. ASSUME NEW d \in Client PROVE OwnId(d)'
    BY <1>1, <1>2, <1>3, <1>4 DEF Ownership, OwnId, NoUpdate, Id
  <2>2. ASSUME NEW d \in Client PROVE Served(d)'
    <3>1. CASE d = c
      BY <1>1, <1>2, <3>1 DEF Served
    <3>2. CASE d # c
      BY <1>2, <1>3, <3>2 DEF Ownership, Served
    <3> QED
      BY <3>1, <3>2
  <2>3. ASSUME NEW h \in Handler PROVE OwnWork(h)'
    BY <1>1, <1>2, <1>3, <1>4 DEF Ownership, OwnWork
  <2> QED
    BY <2>1, <2>2, <2>3 DEF Ownership
<1>6. NothingAhead'
  BY <1>1, <1>2, <1>4 DEF NothingAhead, Id
<1>7. Stages'
  <2>1. ClientStage(c)'
    BY <1>1, <1>2, <1>3, <1>4 DEF ClientStage, NothingAhead
  <2>2. ASSUME NEW d \in Client, d # c PROVE ClientStage(d)' /\ MarkStage(d)'
    BY <1>2, <1>3, <2>2 DEF Stages, ClientStage, MarkStage, Exported, SameIsPublished, Published,
                            Reliable
  <2>3. MarkStage(c)'
    BY <1>1, <1>2 DEF MarkStage
  <2>4. ASSUME NEW h \in Handler PROVE RollbackStage(h)' /\ RepublishStage(h)' /\ KeyIsPlatform(h)'
    BY <1>2 DEF Stages, RollbackStage, RepublishStage, KeyIsPlatform
  <2> QED
    BY <2>1, <2>2, <2>3, <2>4 DEF Stages
<1>8. CachedMetadata' /\ Warmers' /\ PublishedIsComplete' /\ AnswersArePublished'
      /\ (Reliable /\ ListsAll => ScanIsFresh')
  BY <1>2 DEF CachedMetadata, Warmers, PublishedIsComplete, Complete, AnswersArePublished,
              Published, ScanIsFresh
<1>9. Lookups'
  <2>1. ASSUME NEW u \in Id, Settled(u) PROVE Settled(u)'
    BY <1>1, <1>2, <1>3, <1>4, <2>1 DEF Settled, Id
  <2> QED
    BY <1>2, <2>1 DEF Lookups, LookupStage, Published, Reliable, ListsAll, TypeOK
<1> QED
  BY <1>5, <1>6, <1>7, <1>8, <1>9 DEF Reliable

\* A client that writes into its folder before it marks it.
LEMMA ClientWrites ==
  ASSUME TypeOK, TypeOK', Inv, NEW c \in Client,
         cpc[c] \in {"requesting", "uploading"}, cpc' = [cpc EXCEPT ![c] = "uploading"],
         UNCHANGED <<clock, lastUpdate, metadataCache, want, mine, serving, pc, op, upd, source, key,
                     plat, unread, cands, latest, floor>>,
         \A d \in Client \ {c} : sent'[d] = sent[d],
         \A u \in Id : u # mine[c] => bucket'[u] = bucket[u],
         cpc[c] = "requesting" \/ bucket'[mine[c]].stored = bucket[mine[c]].stored,
         ClientStage(c)'
  PROVE  Inv'
<1> USE DEF Inv
<1>1. /\ cpc'[c] = "uploading" /\ serving[c] = None /\ mine[c] \in Id /\ mine[c] < clock
      /\ \A d \in Client \ {c} : cpc'[d] = cpc[d]
      /\ metadataCache[mine[c]] = None /\ ~ bucket[mine[c]].check /\ ~ bucket'[mine[c]].check
      /\ \A d \in Client \ {c} : mine[d] # mine[c]
  <2>1. mine[c] \in Id /\ mine[c] < clock /\ serving[c] = None
        /\ \A d \in Client \ {c} : mine[d] # mine[c]
    BY DEF Ownership, OwnId, TypeOK
  <2>2. metadataCache[mine[c]] = None /\ ~ bucket[mine[c]].check
    BY DEF Stages, ClientStage, EmptyFolder
  <2>3. cpc'[c] = "uploading" /\ \A d \in Client \ {c} : cpc'[d] = cpc[d]
    BY DEF TypeOK
  <2>4. ~ bucket'[mine[c]].check
    BY <2>3 DEF ClientStage
  <2> QED
    BY <2>1, <2>2, <2>3, <2>4
<1>2. \A h \in Handler : pc[h] # "idle" => upd[h] # mine[c]
  BY <1>1, Owner, ConstantsAssumption
<1>3. Kept
  BY <1>1 DEF Kept
<1>4. Ownership'
  <2>1. ASSUME NEW d \in Client PROVE OwnId(d)' /\ Served(d)'
    BY <1>1 DEF Ownership, OwnId, Served, Answers
  <2>2. ASSUME NEW h \in Handler PROVE OwnWork(h)'
    BY DEF Ownership, OwnWork
  <2> QED
    BY <2>1, <2>2 DEF Ownership
<1>5. NothingAhead'
  BY <1>1 DEF NothingAhead, TypeOK, Id
<1>6. Stages'
  <2>1. ASSUME NEW d \in Client, d # c PROVE ClientStage(d)'
    <3>1. bucket'[mine[d]] = bucket[mine[d]] \/ cpc[d] \notin {"requesting", "uploading", "ok"}
      BY <1>1, <2>1 DEF Ownership, OwnId, TypeOK
    <3>2. SameIsPublished(d) => SameIsPublished(d)'
      BY <1>3, PublishedStaysPublished DEF SameIsPublished
    <3> QED
      BY <1>1, <2>1, <3>1, <3>2 DEF Stages, ClientStage, Exported, Reliable
  <2>2. ASSUME NEW d \in Client, serving[d] # None PROVE MarkStage(d)'
    <3>1. bucket'[mine[d]] = bucket[mine[d]]
      <4>1. op[serving[d]] = "mark" /\ upd[serving[d]] = mine[d] /\ serving[d] \in Handler /\ d # c
        BY <1>1, <2>2 DEF Ownership, Served
      <4>2. mine[d] \in Id
        BY <4>1, ConstantsAssumption DEF Ownership, OwnWork, TypeOK
      <4> QED
        BY <1>1, <4>1, <4>2
    <3>2. SameIsPublished(d) => SameIsPublished(d)'
      BY <1>3, PublishedStaysPublished DEF SameIsPublished
    <3> QED
      BY <3>1, <3>2 DEF Stages, MarkStage, Exported, Reliable
  <2>3. ASSUME NEW d \in Client PROVE MarkStage(d)'
    BY <2>2, <2>3 DEF MarkStage
  <2>4. ASSUME NEW h \in Handler PROVE RollbackStage(h)' /\ RepublishStage(h)' /\ KeyIsPlatform(h)'
    <3>1. op[h] # None => bucket'[upd[h]] = bucket[upd[h]]
      BY <1>2 DEF Ownership, OwnWork, TypeOK
    <3>2. op[h] = "republish" /\ pc[h] = "copy" => bucket'[source[h]] = bucket[source[h]]
      BY <1>3 DEF Stages, RepublishStage, Kept
    <3> QED
      BY <3>1, <3>2, ConstantsAssumption DEF Stages, RollbackStage, RepublishStage, KeyIsPlatform
  <2> QED
    BY <2>1, <2>3, <2>4 DEF Stages
<1>7. CachedMetadata'
  BY <1>1 DEF CachedMetadata
<1>8. PublishedIsComplete'
  BY <1>1 DEF PublishedIsComplete, Complete
<1>9. AnswersArePublished'
  BY <1>3, PublishedStaysPublished DEF AnswersArePublished
<1>10. ASSUME NEW q \in Proc PROVE LookupStage(q)'
  <2>1. ASSUME pc[q] \in {"filter", "scan"}, NEW u \in cands[q]
        PROVE  Settled(u)' /\ bucket'[u].stored \in {plat[q], None}
    <3>1. u \in Id /\ Settled(u) /\ bucket[u].stored \in {plat[q], None}
      BY <2>1 DEF Lookups, LookupStage, TypeOK
    <3>2. bucket'[u].stored = bucket[u].stored
      BY <3>1 DEF Settled
    <3>3. Settled(u)'
      BY <1>1, <3>1 DEF Settled
    <3> QED
      BY <3>1, <3>2, <3>3
  <2> QED
    BY <1>3, <2>1, PublishedStaysPublished
    DEF Lookups, LookupStage, Kept, TypeOK, Reliable, ListsAll
<1>11. Warmers' /\ (Reliable /\ ListsAll => ScanIsFresh')
  BY DEF Warmers, ScanIsFresh
<1> QED
  BY <1>4, <1>5, <1>6, <1>7, <1>8, <1>9, <1>10, <1>11 DEF Lookups, Reliable

LEMMA StoreUploadMetadataInv ==
  ASSUME Orderly, TypeOK, TypeOK', Inv, NEW c \in Client, StoreUploadMetadata(c)
  PROVE  Inv'
<1> USE DEF StoreUploadMetadata
<1>1. UNCHANGED <<clock, lastUpdate, metadataCache, want, mine, sent, serving, pc, op, upd, source, key,
                  plat, unread, cands, latest, floor>>
  BY DEF cacheVars, lookupVars
<1>2. /\ mine[c] \in Id /\ bucket[mine[c]] = EmptyFolder /\ metadataCache[mine[c]] = None
      /\ sent[c] = {}
  BY DEF Inv, Ownership, OwnId, Stages, ClientStage, TypeOK
<1>3. bucket'[mine[c]] = Described(EmptyFolder, want[c].platform)
      /\ \A u \in Id : u # mine[c] => bucket'[u] = bucket[u]
  BY <1>2 DEF TypeOK
<1>4. cpc'[c] = "uploading"
  BY DEF TypeOK
<1>5. ClientStage(c)'
  <2>1. ASSUME NEW p
        PROVE  LET g == Described(EmptyFolder, p) IN
                 g.stored = p /\ g.meta = None /\ g.assets = {} /\ ~ g.rollback /\ ~ g.check
    BY DEF Described, EmptyFolder
  <2> QED
    BY <1>1, <1>2, <1>3, <1>4, <2>1 DEF ClientStage
<1> QED
  BY <1>1, <1>3, <1>5, ClientWrites

LEMMA UploadFileInv ==
  ASSUME Orderly, TypeOK, TypeOK', Inv, NEW c \in Client, NEW f \in Upload, UploadFile(c, f)
  PROVE  Inv'
<1> USE DEF UploadFile
<1>1. UNCHANGED <<clock, lastUpdate, metadataCache, want, mine, serving, pc, op, upd, source, key,
                  plat, unread, cands, latest, floor>>
      /\ UNCHANGED cpc
  BY DEF cacheVars, lookupVars
<1>2. mine[c] \in Id /\ bucket[mine[c]] \in Folder
  BY DEF Inv, Ownership, OwnId, TypeOK
<1>3. sent'[c] = sent[c] \cup {f} /\ \A d \in Client \ {c} : sent'[d] = sent[d]
  BY DEF TypeOK
<1>4. \A u \in Id : u # mine[c] => bucket'[u] = bucket[u]
  BY <1>2 DEF TypeOK
<1> DEFINE g == bucket'[mine[c]]
           h == bucket[mine[c]]
<1>5. /\ h.stored = want[c].platform /\ ~ h.rollback /\ ~ h.check /\ metadataCache[mine[c]] = None
      /\ h.meta = IF "metadata.json" \in sent[c] THEN want[c].content ELSE None
      /\ h.assets = sent[c] \ {"metadata.json"}
  BY DEF Inv, Stages, ClientStage
<1>6. g.stored = h.stored /\ g.rollback = h.rollback /\ g.check = h.check
  BY <1>2 DEF TypeOK, Folder
<1>7. g.meta = IF "metadata.json" \in sent'[c] THEN want[c].content ELSE None
  <2>1. CASE f = "metadata.json"
    <3>1. bucket' = [bucket EXCEPT ![mine[c]].meta = want[c].content]
      BY <2>1, ConstantsAssumption
    <3>2. g = [h EXCEPT !.meta = want[c].content]
      BY <1>2, <3>1 DEF TypeOK
    <3> QED
      BY <1>2, <1>3, <2>1, <3>2 DEF Folder
  <2>2. CASE f \in Asset
    <3>1. bucket' = [bucket EXCEPT ![mine[c]].assets = @ \cup {f}]
      BY <2>2, ConstantsAssumption
    <3>2. g = [h EXCEPT !.assets = @ \cup {f}]
      BY <1>2, <3>1 DEF TypeOK
    <3> QED
      BY <1>2, <1>3, <1>5, <2>2, <3>2, ConstantsAssumption DEF Folder
  <2> QED
    BY <2>1, <2>2 DEF Upload
<1>8. g.assets = sent'[c] \ {"metadata.json"}
  <2>1. CASE f = "metadata.json"
    <3>1. bucket' = [bucket EXCEPT ![mine[c]].meta = want[c].content]
      BY <2>1, ConstantsAssumption
    <3>2. g = [h EXCEPT !.meta = want[c].content]
      BY <1>2, <3>1 DEF TypeOK
    <3>3. g.assets = h.assets
      BY <1>2, <3>2 DEF Folder
    <3> QED
      BY <1>3, <1>5, <2>1, <3>3
  <2>2. CASE f \in Asset
    <3>1. bucket' = [bucket EXCEPT ![mine[c]].assets = @ \cup {f}]
      BY <2>2, ConstantsAssumption
    <3>2. g = [h EXCEPT !.assets = @ \cup {f}]
      BY <1>2, <3>1 DEF TypeOK
    <3>3. g.assets = h.assets \cup {f}
      BY <1>2, <3>2 DEF Folder
    <3> QED
      BY <1>3, <1>5, <2>2, <3>3, ConstantsAssumption
  <2> QED
    BY <2>1, <2>2 DEF Upload
<1> HIDE DEF g, h
<1>9. ClientStage(c)'
  BY <1>1, <1>5, <1>6, <1>7, <1>8 DEF ClientStage, g
<1>10. cpc' = [cpc EXCEPT ![c] = "uploading"]
  BY <1>1 DEF TypeOK
<1> QED
  BY <1>1, <1>3, <1>4, <1>6, <1>9, <1>10, ClientWrites DEF g, h

\* A client that only takes note of an answer or of an error.
LEMMA ClientConcludes ==
  ASSUME TypeOK, TypeOK', Inv, NEW c \in Client, NEW a \in Answers,
         cpc' = [cpc EXCEPT ![c] = a], cpc[c] # "idle",
         UNCHANGED <<bucketVars, cacheVars, want, mine, sent, serving, pc, op, upd, source, key,
                     lookupVars>>,
         serving[c] # None => a = pc[serving[c]],
         serving[c] = None => a = "failed"
  PROVE  Inv'
<1>1. UNCHANGED <<clock, bucket, lastUpdate, metadataCache, want, mine, sent, serving, pc, op, upd,
                  source, key, plat, unread, cands, latest, floor>>
  BY DEF bucketVars, cacheVars, lookupVars
<1>2. cpc'[c] = a /\ (\A d \in Client \ {c} : cpc'[d] = cpc[d])
      /\ a \notin {"idle", "requesting", "uploading", "waiting"}
  BY DEF TypeOK, Answers
<1>3. Ownership'
  <2>1. ASSUME NEW d \in Client PROVE OwnId(d)' /\ Served(d)'
    BY <1>1, <1>2 DEF Inv, Ownership, OwnId, Served
  <2>2. ASSUME NEW h \in Handler PROVE OwnWork(h)'
    BY <1>1 DEF Inv, Ownership, OwnWork
  <2> QED
    BY <2>1, <2>2 DEF Ownership
<1>4. Stages'
  <2>1. ClientStage(c)'
    <3>1. CASE serving[c] = None
      BY <1>2, <3>1 DEF ClientStage
    <3>2. CASE serving[c] # None
      <4>1. a = pc[serving[c]] /\ MarkStage(c)
        BY <3>2 DEF Inv, Stages
      <4> QED
        BY <1>1, <1>2, <3>2, <4>1
        DEF ClientStage, MarkStage, Exported, SameIsPublished, Published, Reliable
    <3> QED
      BY <3>1, <3>2
  <2>2. ASSUME NEW d \in Client, d # c PROVE ClientStage(d)'
    BY <1>1, <1>2, <2>2
    DEF Inv, Stages, ClientStage, Exported, SameIsPublished, Published, Reliable
  <2>3. ASSUME NEW d \in Client PROVE MarkStage(d)'
    BY <1>1 DEF Inv, Stages, MarkStage, Exported, SameIsPublished, Published, Reliable
  <2>4. ASSUME NEW h \in Handler PROVE RollbackStage(h)' /\ RepublishStage(h)' /\ KeyIsPlatform(h)'
    BY <1>1 DEF Inv, Stages, RollbackStage, RepublishStage, KeyIsPlatform
  <2> QED
    BY <2>1, <2>2, <2>3, <2>4 DEF Stages
<1>5. NothingAhead' /\ CachedMetadata' /\ Warmers' /\ PublishedIsComplete' /\ AnswersArePublished'
      /\ (Reliable /\ ListsAll => ScanIsFresh')
  BY <1>1 DEF Inv, NothingAhead, CachedMetadata, Warmers, PublishedIsComplete, Complete,
              AnswersArePublished, Published, ScanIsFresh
<1>6. Lookups'
  <2>1. \A u : Settled(u) => Settled(u)'
    BY <1>1, <1>2 DEF Settled
  <2> QED
    BY <1>1, <2>1 DEF Inv, Lookups, LookupStage, Published, Reliable, ListsAll
<1> QED
  BY <1>3, <1>4, <1>5, <1>6 DEF Inv, Reliable

LEMMA ReceiveAnswerInv ==
  ASSUME Orderly, TypeOK, TypeOK', Inv, NEW c \in Client, ReceiveAnswer(c)
  PROVE  Inv'
<1> USE DEF ReceiveAnswer
<1>1. serving[c] # None
  BY DEF Inv, Ownership, OwnId
<1>2. PICK a \in Answers : a = pc[serving[c]]
  OBVIOUS
<1> QED
  BY <1>1, <1>2, ClientConcludes

LEMMA ClientErrorInv ==
  ASSUME Orderly, TypeOK, TypeOK', Inv, NEW c \in Client, ClientError(c)
  PROVE  Inv'
<1> USE DEF ClientError
<1>1. serving[c] = None /\ "failed" \in Answers
  BY DEF Inv, Ownership, OwnId, Answers
<1> QED
  BY <1>1, ClientConcludes

--------------------------------------------------------------------------------
(* How handlers start, and how publishing ends. *)

LEMMA PostMarkInv ==
  ASSUME Orderly, TypeOK, TypeOK', Inv, NEW c \in Client, NEW h \in Handler, PostMark(c, h)
  PROVE  Inv'
<1> USE DEF Inv
<1>1. /\ cpc[c] = "uploading" /\ sent[c] = Upload /\ pc[h] = "idle"
      /\ cpc' = [cpc EXCEPT ![c] = "waiting"] /\ serving' = [serving EXCEPT ![c] = h]
      /\ pc' = [pc EXCEPT ![h] = "verify"] /\ op' = [op EXCEPT ![h] = "mark"]
      /\ upd' = [upd EXCEPT ![h] = mine[c]] /\ plat' = [plat EXCEPT ![h] = want[c].platform]
  BY DEF PostMark, Orderly, MayRetry
<1>2. UNCHANGED <<clock, bucket, lastUpdate, metadataCache, want, mine, sent, source, key,
                  unread, cands, latest, floor>>
  BY DEF PostMark, bucketVars, cacheVars
<1>3. /\ h \in Proc /\ Handler \subseteq Proc
      /\ pc'[h] = "verify" /\ op'[h] = "mark" /\ upd'[h] = mine[c] /\ plat'[h] = want[c].platform
      /\ cpc'[c] = "waiting" /\ serving'[c] = h /\ want[c].platform \in Platform
      /\ \A d \in Client \ {c} : cpc'[d] = cpc[d] /\ serving'[d] = serving[d]
      /\ \A q \in Proc \ {h} : pc'[q] = pc[q] /\ plat'[q] = plat[q]
      /\ \A g \in Handler \ {h} : op'[g] = op[g] /\ upd'[g] = upd[g]
  BY <1>1 DEF TypeOK, Proc
<1>4. /\ mine[c] \in Id /\ mine[c] < clock /\ serving[c] = None /\ op[h] = None
      /\ h # None /\ "mark" # None
  BY <1>1, ConstantsAssumption DEF Ownership, OwnId, OwnWork, TypeOK
<1>5. \A g \in Handler \ {h} : upd[g] # mine[c]
  <2>1. SUFFICES ASSUME NEW g \in Handler, upd[g] = mine[c] PROVE FALSE
    OBVIOUS
  <2>2. pc[g] # "idle"
    BY <1>4, <2>1 DEF Ownership, OwnWork, Id, NoUpdate
  <2> QED
    BY <1>4, <2>1, <2>2, Owner, ConstantsAssumption
<1>6. \A d \in Client \ {c} : serving[d] # h
  BY <1>4 DEF Ownership, Served
<1>7. Ownership'
  <2>1. ASSUME NEW d \in Client PROVE OwnId(d)'
    <3>1. OwnId(d)
      BY DEF Ownership
    <3>2. CASE d = c
      BY <1>1, <1>2, <1>3, <1>4, <3>1, <3>2 DEF OwnId
    <3>3. CASE d # c
      <4>1. cpc'[d] = cpc[d] /\ serving'[d] = serving[d]
        BY <1>3, <3>3
      <4> QED
        BY <1>2, <3>1, <4>1 DEF OwnId
    <3> QED
      BY <3>2, <3>3
  <2>2. ASSUME NEW d \in Client PROVE Served(d)'
    <3>1. CASE d = c
      <4>1. "waiting" \notin Answers
        BY DEF Answers
      <4> QED
        BY <1>2, <1>3, <1>4, <3>1, <4>1 DEF Served
    <3>2. CASE d # c
      <4>1. Served(d) /\ serving[d] # h
        BY <1>6, <3>2 DEF Ownership
      <4> QED
        BY <1>2, <1>3, <3>2, <4>1 DEF Served
    <3> QED
      BY <3>1, <3>2
  <2>3. ASSUME NEW g \in Handler PROVE OwnWork(g)'
    <3>1. CASE g = h
      BY <1>2, <1>3, <1>4, <1>5, <3>1 DEF OwnWork, NoUpdate, Id
    <3>2. CASE g # h
      <4>1. OwnWork(g) /\ g \in Proc \ {h}
        BY <1>3, <3>2 DEF Ownership
      <4>2. pc'[g] = pc[g] /\ plat'[g] = plat[g] /\ op'[g] = op[g] /\ upd'[g] = upd[g]
        BY <1>3, <3>2, <4>1
      <4>3. op[g] = "mark" => \E d \in Client : serving'[d] = g
        BY <1>3, <1>4, <4>1, ConstantsAssumption DEF OwnWork
      <4>4. \A k \in Handler : upd[g] # NoUpdate /\ upd[g] = upd'[k] => g = k
        BY <1>3, <1>5, <3>2, <4>1 DEF OwnWork
      <4> QED
        BY <1>2, <4>1, <4>2, <4>3, <4>4 DEF OwnWork
    <3> QED
      BY <3>1, <3>2
  <2> QED
    BY <2>1, <2>2, <2>3 DEF Ownership
<1>8. Stages'
  <2>1. ASSUME NEW d \in Client PROVE ClientStage(d)'
    <3>1. ClientStage(d)
      BY DEF Stages
    <3>2. CASE d = c
      BY <1>3, <3>2 DEF ClientStage
    <3>3. CASE d # c
      BY <1>2, <1>3, <3>1, <3>3
      DEF ClientStage, Exported, SameIsPublished, Published, Reliable
    <3> QED
      BY <3>2, <3>3
  <2>2. MarkStage(c)'
    <3>1. Exported(c, mine[c]) /\ ~ bucket[mine[c]].check
      <4>1. "metadata.json" \in Upload /\ Upload \ {"metadata.json"} = Asset
        BY ConstantsAssumption DEF Upload
      <4>2. ClientStage(c)
        BY DEF Stages
      <4> QED
        BY <1>1, <4>1, <4>2 DEF ClientStage, Exported
    <3> QED
      BY <1>2, <1>3, <3>1 DEF MarkStage, Exported, Lookup, Answers
  <2>3. ASSUME NEW d \in Client, d # c PROVE MarkStage(d)'
    <3>1. MarkStage(d) /\ serving'[d] = serving[d] /\ serving[d] # h
      BY <1>3, <1>6, <2>3 DEF Stages
    <3>2. serving[d] # None => pc'[serving[d]] = pc[serving[d]]
      BY <1>3, <3>1 DEF Ownership, Served
    <3> QED
      BY <1>2, <3>1, <3>2 DEF MarkStage, Exported, SameIsPublished, Published, Reliable
  <2>4. ASSUME NEW g \in Handler PROVE RollbackStage(g)' /\ RepublishStage(g)' /\ KeyIsPlatform(g)'
    <3>1. RollbackStage(g) /\ RepublishStage(g) /\ KeyIsPlatform(g)
      BY DEF Stages
    <3>2. CASE g = h
      BY <1>3, <3>2 DEF RollbackStage, RepublishStage, KeyIsPlatform
    <3>3. CASE g # h
      <4>1. pc'[g] = pc[g] /\ plat'[g] = plat[g] /\ op'[g] = op[g] /\ upd'[g] = upd[g]
        BY <1>3, <3>3
      <4> QED
        BY <1>2, <3>1, <4>1 DEF RollbackStage, RepublishStage, KeyIsPlatform
    <3> QED
      BY <3>2, <3>3
  <2> QED
    BY <2>1, <2>2, <2>3, <2>4 DEF Stages
<1>9. NothingAhead' /\ CachedMetadata' /\ PublishedIsComplete'
  BY <1>2 DEF NothingAhead, CachedMetadata, PublishedIsComplete, Complete
<1>10. \A q \in Proc : pc'[q] \in Lookup => pc'[q] = pc[q] /\ plat'[q] = plat[q]
  BY <1>3 DEF Lookup
<1>11. Lookups'
  <2>1. ASSUME NEW u, Settled(u) PROVE Settled(u)'
    <3>1. \A d \in Client : cpc'[d] = "requesting" => cpc[d] = "requesting"
      BY <1>3
    <3>2. \A g \in Handler : pc'[g] \in {"copy", "describe"} =>
             pc[g] \in {"copy", "describe"} /\ upd'[g] = upd[g]
      BY <1>3
    <3> QED
      BY <1>2, <2>1, <3>1, <3>2 DEF Settled
  <2>2. ASSUME NEW q \in Proc PROVE LookupStage(q)'
    <3>1. LookupStage(q)
      BY DEF Lookups
    <3>2. pc'[q] \in Lookup => pc'[q] = pc[q] /\ plat'[q] = plat[q]
      BY <1>10
    <3>3. /\ unread' = unread /\ cands' = cands /\ latest' = latest /\ floor' = floor
          /\ bucket' = bucket
      BY <1>2
    <3> QED
      BY <2>1, <3>1, <3>2, <3>3 DEF LookupStage, Lookup, Published, Reliable, ListsAll
  <2> QED
    BY <2>2 DEF Lookups
<1>12. Warmers'
  <2>1. /\ \A q \in Reader \cup Warmer : q \in Proc \ {h}
        /\ \A g \in Handler, p \in Platform : <<g, p>> \in Warmer
    BY ConstantsAssumption DEF Proc, Warmer
  <2>2. \A q \in Reader \cup Warmer : pc'[q] = pc[q]
    BY <1>3, <2>1
  <2>3. ASSUME NEW g \in Handler, NEW p \in Platform, pc[<<g, p>>] # "idle" PROVE pc'[g] = "ok"
    BY <1>1, <1>3, <2>3 DEF Warmers
  <2> QED
    BY <2>1, <2>2, <2>3 DEF Warmers
<1>13. AnswersArePublished' /\ (Reliable /\ ListsAll => ScanIsFresh')
  BY <1>2, <1>10 DEF AnswersArePublished, ScanIsFresh, Published, Lookup
<1> QED
  BY <1>7, <1>8, <1>9, <1>11, <1>12, <1>13 DEF Reliable

\* A rollback or a republish gets its fresh update id.
LEMMA WorkStarts ==
  ASSUME TypeOK, TypeOK', Inv, NEW h \in Handler, NEW p \in Platform,
         NEW o \in {"rollback", "republish"}, NEW l \in {"describe", "copy"},
         pc[h] = "idle", clock \in Id, clock' = clock + 1,
         upd' = [upd EXCEPT ![h] = clock], op' = [op EXCEPT ![h] = o],
         plat' = [plat EXCEPT ![h] = p], pc' = [pc EXCEPT ![h] = l],
         \A g \in Handler \ {h} : source'[g] = source[g],
         UNCHANGED <<bucket, lastUpdate, metadataCache, cpc, want, mine, sent, serving, key,
                     unread, cands, latest, floor>>,
         RollbackStage(h)', RepublishStage(h)'
  PROVE  Inv'
<1> USE DEF Inv
<1>1. /\ h \in Proc /\ Handler \subseteq Proc
      /\ pc'[h] = l /\ op'[h] = o /\ upd'[h] = clock /\ plat'[h] = p
      /\ \A q \in Proc \ {h} : pc'[q] = pc[q] /\ plat'[q] = plat[q]
      /\ \A g \in Handler \ {h} : op'[g] = op[g] /\ upd'[g] = upd[g]
  BY DEF TypeOK, Proc
<1>2. /\ \A d \in Client : mine[d] < clock /\ mine[d] \in Int
      /\ \A g \in Handler : upd[g] < clock /\ upd[g] \in Int
      /\ clock \in Int /\ clock # NoUpdate /\ op[h] = None /\ o # None
      /\ h # None
  BY ConstantsAssumption DEF Ownership, OwnId, OwnWork, TypeOK, Id, NoUpdate
<1>3. \A d \in Client : serving[d] # h
  BY <1>2, ConstantsAssumption DEF Ownership, Served
<1>4. Ownership'
  <2>1. ASSUME NEW d \in Client PROVE OwnId(d)'
    BY <1>2 DEF Ownership, OwnId
  <2>2. ASSUME NEW d \in Client PROVE Served(d)'
    <3>1. Served(d) /\ serving[d] # h
      BY <1>3 DEF Ownership
    <3> QED
      BY <1>1, <3>1 DEF Served
  <2>3. OwnWork(h)'
    BY <1>1, <1>2 DEF OwnWork
  <2>4. ASSUME NEW g \in Handler, g # h PROVE OwnWork(g)'
    <3>1. OwnWork(g) /\ g \in Proc \ {h}
      BY <1>1, <2>4 DEF Ownership
    <3>2. pc'[g] = pc[g] /\ plat'[g] = plat[g] /\ op'[g] = op[g] /\ upd'[g] = upd[g]
      BY <1>1, <2>4, <3>1
    <3>3. \A k \in Handler : upd[g] # NoUpdate /\ upd[g] = upd'[k] => g = k
      BY <1>1, <1>2, <3>1 DEF OwnWork
    <3>4. upd[g] < clock + 1
      BY <1>2
    <3> QED
      BY <3>1, <3>2, <3>3, <3>4 DEF OwnWork
  <2> QED
    BY <2>1, <2>2, <2>3, <2>4 DEF Ownership
<1>5. NothingAhead'
  <2>1. \A u \in Id : u >= clock + 1 => u >= clock
    BY <1>2 DEF Id
  <2> QED
    BY <2>1 DEF NothingAhead
<1>6. Stages'
  <2>1. ASSUME NEW d \in Client PROVE ClientStage(d)'
    BY DEF Stages, ClientStage, Exported, SameIsPublished, Published, Reliable
  <2>2. ASSUME NEW d \in Client PROVE MarkStage(d)'
    <3>1. MarkStage(d) /\ serving[d] # h
      BY <1>3 DEF Stages
    <3>2. serving[d] # None => pc'[serving[d]] = pc[serving[d]]
      BY <1>1, <3>1 DEF Ownership, Served
    <3> QED
      BY <3>1, <3>2 DEF MarkStage, Exported, SameIsPublished, Published, Reliable
  <2>3. ASSUME NEW g \in Handler, g # h PROVE RollbackStage(g)' /\ RepublishStage(g)' /\ KeyIsPlatform(g)'
    <3>1. pc'[g] = pc[g] /\ plat'[g] = plat[g] /\ op'[g] = op[g] /\ upd'[g] = upd[g]
      BY <1>1, <2>3
    <3> QED
      BY <2>3, <3>1 DEF Stages, RollbackStage, RepublishStage, KeyIsPlatform
  <2>4. KeyIsPlatform(h)'
    BY <1>1 DEF KeyIsPlatform
  <2> QED
    BY <2>1, <2>2, <2>3, <2>4 DEF Stages
<1>7. CachedMetadata' /\ PublishedIsComplete'
  BY DEF CachedMetadata, PublishedIsComplete, Complete
<1>8. \A q \in Proc : pc'[q] \in Lookup => pc'[q] = pc[q] /\ plat'[q] = plat[q]
  BY <1>1 DEF Lookup
<1>9. Lookups'
  <2>1. ASSUME NEW u \in Id, Settled(u) PROVE Settled(u)'
    <3>1. u < clock + 1 /\ u # clock
      BY <1>2, <2>1 DEF Settled, Id
    <3>2. \A g \in Handler : pc'[g] \in {"copy", "describe"} => upd'[g] # u
      BY <1>1, <2>1, <3>1 DEF Settled
    <3> QED
      BY <2>1, <3>1, <3>2 DEF Settled
  <2> QED
    BY <1>8, <2>1 DEF Lookups, LookupStage, Lookup, Published, Reliable, ListsAll, TypeOK
<1>10. Warmers'
  <2>1. /\ \A q \in Reader \cup Warmer : q \in Proc \ {h}
        /\ \A g \in Handler, r \in Platform : <<g, r>> \in Warmer
    BY ConstantsAssumption DEF Proc, Warmer
  <2>2. \A q \in Reader \cup Warmer : pc'[q] = pc[q]
    BY <1>1, <2>1
  <2>3. ASSUME NEW g \in Handler, NEW r \in Platform, pc[<<g, r>>] # "idle" PROVE pc'[g] = "ok"
    BY <1>1, <2>3 DEF Warmers
  <2> QED
    BY <2>1, <2>2, <2>3 DEF Warmers
<1>11. AnswersArePublished' /\ (Reliable /\ ListsAll => ScanIsFresh')
  BY <1>8 DEF AnswersArePublished, ScanIsFresh, Published, Lookup
<1> QED
  BY <1>4, <1>5, <1>6, <1>7, <1>9, <1>10, <1>11 DEF Reliable

LEMMA StartRollbackInv ==
  ASSUME Orderly, TypeOK, TypeOK', Inv, NEW h \in Handler, NEW p \in Platform, StartRollback(h, p)
  PROVE  Inv'
<1> USE DEF StartRollback, Goto
<1>1. clock \in Id /\ clock' = clock + 1 /\ upd' = [upd EXCEPT ![h] = clock]
  BY DEF Timestamp, Orderly
<1>2. UNCHANGED <<bucket, lastUpdate, metadataCache, cpc, want, mine, sent, serving, source, key,
                  unread, cands, latest, floor>>
  BY DEF cacheVars, clientVars
<1>3. h \in Proc /\ upd'[h] = clock /\ pc'[h] = "describe" /\ op'[h] = "rollback"
  BY <1>1 DEF TypeOK, Proc
<1>4. bucket[clock] = EmptyFolder
  BY <1>1 DEF Inv, NothingAhead, Id
<1>5. RollbackStage(h)' /\ RepublishStage(h)'
  BY <1>2, <1>3, <1>4 DEF RollbackStage, RepublishStage, EmptyFolder
<1> QED
  BY <1>1, <1>2, <1>5, WorkStarts

LEMMA StartRepublishInv ==
  ASSUME Orderly, TypeOK, TypeOK', Inv, NEW h \in Handler, NEW p \in Platform, NEW u \in Id,
         StartRepublish(h, p, u)
  PROVE  Inv'
<1> USE DEF StartRepublish, Goto
<1>1. clock \in Id /\ clock' = clock + 1 /\ upd' = [upd EXCEPT ![h] = clock]
  BY DEF Timestamp, Orderly
<1>2. UNCHANGED <<bucket, lastUpdate, metadataCache, cpc, want, mine, sent, serving, key,
                  unread, cands, latest, floor>>
  BY DEF cacheVars, clientVars
<1>3. h \in Proc /\ upd'[h] = clock /\ pc'[h] = "copy" /\ op'[h] = "republish" /\ source'[h] = u
      /\ \A g \in Handler \ {h} : source'[g] = source[g]
  BY <1>1 DEF TypeOK, Proc
<1>4. bucket[clock] = EmptyFolder /\ metadataCache[clock] = None
  BY <1>1 DEF Inv, NothingAhead, Id
<1>5. bucket[u].check
  BY DEF IsUpdateValid
<1>6. RollbackStage(h)' /\ RepublishStage(h)'
  BY <1>2, <1>3, <1>4, <1>5 DEF RollbackStage, RepublishStage
<1> QED
  BY <1>1, <1>2, <1>3, <1>6, WorkStarts

LEMMA InvalidateAndPreWarmInv ==
  ASSUME Orderly, TypeOK, TypeOK', Inv, NEW h \in Handler, InvalidateAndPreWarm(h)
  PROVE  Inv'
<1> USE DEF Inv
<1> DEFINE prewarm == {h} \X Platform
<1>1. /\ \A q \in prewarm : q \in Warmer /\ q[2] \in Platform /\ q \notin Handler
      /\ \A g \in Handler, p \in Platform : <<g, p>> \in Warmer /\ (<<g, p>> \in prewarm => g = h)
      /\ h \in Proc /\ Handler \subseteq Proc /\ Reader \subseteq Proc /\ Warmer \subseteq Proc
      /\ h \notin prewarm /\ h \notin Reader \cup Warmer
  BY ConstantsAssumption DEF Warmer, Proc
<1>2. /\ pc[h] = "invalidate" /\ key[h] \in Platform
      /\ pc' = [q \in Proc |-> IF q = h THEN "ok" ELSE IF q \in prewarm THEN "get" ELSE pc[q]]
      /\ plat' = [q \in Proc |-> IF q \in prewarm THEN q[2] ELSE plat[q]]
  BY DEF InvalidateAndPreWarm, Stages, KeyIsPlatform
<1>3. UNCHANGED <<clock, bucket, metadataCache, cpc, want, mine, sent, serving, op, upd, source, key,
                  unread, cands, latest, floor>>
      /\ lastUpdate' = [lastUpdate EXCEPT ![key[h]] = NoUpdate]
  BY DEF InvalidateAndPreWarm, bucketVars, clientVars
<1> HIDE DEF prewarm
<1>4. /\ pc'[h] = "ok" /\ plat'[h] = plat[h]
      /\ \A g \in Handler \ {h} : pc'[g] = pc[g] /\ plat'[g] = plat[g]
      /\ \A q \in Proc \ {h} : \/ pc'[q] = "get" /\ plat'[q] \in Platform /\ q \in Warmer
                               \/ pc'[q] = pc[q] /\ plat'[q] = plat[q] /\ q \notin prewarm
  BY <1>1, <1>2
<1>5. Ownership'
  <2>1. ASSUME NEW d \in Client PROVE OwnId(d)'
    BY <1>3 DEF Ownership, OwnId
  <2>2. ASSUME NEW d \in Client PROVE Served(d)'
    <3>1. Served(d)
      BY DEF Ownership
    <3>2. serving[d] = h => cpc[d] \notin Answers
      BY <1>2, <3>1, ConstantsAssumption DEF Served, Answers
    <3> QED
      BY <1>3, <1>4, <3>1, <3>2 DEF Served
  <2>3. ASSUME NEW g \in Handler PROVE OwnWork(g)'
    BY <1>2, <1>3, <1>4 DEF Ownership, OwnWork
  <2> QED
    BY <2>1, <2>2, <2>3 DEF Ownership
<1>6. NothingAhead' /\ CachedMetadata' /\ PublishedIsComplete'
  BY <1>3 DEF NothingAhead, CachedMetadata, PublishedIsComplete, Complete
<1>7. Stages'
  <2>1. ASSUME NEW d \in Client PROVE ClientStage(d)'
    BY <1>3 DEF Stages, ClientStage, Exported, SameIsPublished, Published, Reliable
  <2>2. ASSUME NEW d \in Client PROVE MarkStage(d)'
    <3>1. MarkStage(d)
      BY DEF Stages
    <3>2. CASE serving[d] = h
      BY <1>2, <1>3, <1>4, <3>1, <3>2 DEF MarkStage, Exported, Lookup, Answers, Reliable
    <3>3. CASE serving[d] # h
      <4>1. serving[d] # None => pc'[serving[d]] = pc[serving[d]]
        BY <1>4, <3>3 DEF Ownership, Served
      <4> QED
        BY <1>3, <3>1, <4>1 DEF MarkStage, Exported, SameIsPublished, Published, Reliable
    <3> QED
      BY <3>2, <3>3
  <2>3. ASSUME NEW g \in Handler PROVE RollbackStage(g)' /\ RepublishStage(g)' /\ KeyIsPlatform(g)'
    <3>1. RollbackStage(g) /\ RepublishStage(g) /\ KeyIsPlatform(g)
      BY DEF Stages
    <3>2. CASE g = h
      BY <1>3, <1>4, <3>1, <3>2 DEF RollbackStage, RepublishStage, KeyIsPlatform
    <3>3. CASE g # h
      <4>1. pc'[g] = pc[g] /\ plat'[g] = plat[g]
        BY <1>4, <3>3
      <4> QED
        BY <1>3, <3>1, <4>1 DEF RollbackStage, RepublishStage, KeyIsPlatform
    <3> QED
      BY <3>2, <3>3
  <2> QED
    BY <2>1, <2>2, <2>3 DEF Stages
<1>8. ASSUME NEW q \in Proc PROVE LookupStage(q)'
  <2>1. \A u : Settled(u) => Settled(u)'
    BY <1>3, <1>4 DEF Settled
  <2>2. CASE pc'[q] \in {"ok", "get"}
    BY <1>4, <2>2, Owner, <1>2 DEF LookupStage, Lookup, Lookups
  <2>3. CASE pc'[q] = pc[q] /\ plat'[q] = plat[q]
    BY <1>3, <2>1, <2>3 DEF Lookups, LookupStage, Published, Reliable, ListsAll
  <2> QED
    BY <1>4, <2>2, <2>3
<1>9. Warmers'
  <2>1. ASSUME NEW g \in Handler, NEW p \in Platform, pc'[<<g, p>>] # "idle" PROVE pc'[g] = "ok"
    <3>1. CASE <<g, p>> \in prewarm
      BY <1>1, <1>4, <3>1
    <3>2. CASE <<g, p>> \notin prewarm
      <4>1. pc'[<<g, p>>] = pc[<<g, p>>]
        BY <1>1, <1>2, <3>2
      <4> QED
        BY <1>2, <1>4, <2>1, <4>1 DEF Warmers
    <3> QED
      BY <3>1, <3>2
  <2>2. ASSUME NEW q \in Reader \cup Warmer PROVE pc'[q] \in {"idle"} \cup Lookup
    BY <1>1, <1>4 DEF Warmers, Lookup
  <2> QED
    BY <2>1, <2>2 DEF Warmers
<1>10. AnswersArePublished'
  <2>1. ASSUME NEW q \in Proc, pc'[q] \in {"fill", "found"}
        PROVE  pc'[q] = pc[q] /\ plat'[q] = plat[q]
    BY <1>4, <2>1
  <2>2. ASSUME NEW p \in Platform PROVE lastUpdate'[p] \in {lastUpdate[p], NoUpdate}
    BY <1>2, <1>3 DEF TypeOK
  <2> QED
    BY <1>3, <2>1, <2>2 DEF AnswersArePublished, Published
<1>11. Reliable /\ ListsAll => ScanIsFresh'
  BY <1>3, <1>4 DEF ScanIsFresh
<1> QED
  BY <1>5, <1>6, <1>7, <1>8, <1>9, <1>10, <1>11 DEF Lookups, Reliable

LEMMA CrashInv ==
  ASSUME Orderly, TypeOK, TypeOK', Inv, Crash
  PROVE  Inv'
<1> USE DEF Inv
<1>1. /\ UNCHANGED <<clock, bucket, want, mine, sent, serving, op, upd, source, key, plat>>
      /\ \/ /\ lastUpdate' = [p \in Platform |-> NoUpdate]
            /\ metadataCache' = [u \in Id |-> None]
         \/ UNCHANGED <<lastUpdate, metadataCache>>
  BY DEF Crash, bucketVars, cacheVars, lookupVars
<1>2. \A c \in Client : cpc'[c] = IF cpc[c] = "requesting" THEN "failed" ELSE cpc[c]
  BY DEF Crash, Orderly, MayRetry
<1>3. /\ \A h \in Handler : pc'[h] = IF pc[h] \in Working \cup Lookup THEN "crashed" ELSE pc[h]
      /\ \A q \in Reader \cup Warmer : pc'[q] = "idle"
      /\ \A q \in Proc : pc'[q] \notin Lookup
  <2>1. "idle" \notin Lookup /\ "crashed" \notin Lookup
    BY DEF Lookup
  <2> QED
    BY <2>1, ConstantsAssumption DEF Crash, Proc
<1>4. ASSUME NEW h \in Handler
      PROVE  \/ pc'[h] = pc[h] /\ pc[h] \notin Working \cup Lookup
             \/ pc'[h] = "crashed" /\ pc[h] \in Working \cup Lookup
  <2>1. CASE pc[h] \in Working \cup Lookup
    BY <1>3, <2>1
  <2>2. CASE pc[h] \notin Working \cup Lookup
    BY <1>3, <2>2
  <2> QED
    BY <2>1, <2>2
<1>5. Ownership'
  <2>1. ASSUME NEW d \in Client PROVE OwnId(d)'
    BY <1>1, <1>2 DEF Ownership, OwnId
  <2>2. ASSUME NEW d \in Client PROVE Served(d)'
    <3>1. Served(d) /\ (serving[d] # None => cpc'[d] = cpc[d])
      BY <1>2 DEF Ownership, OwnId
    <3>2. ASSUME NEW h \in Handler, pc[h] \in Answers PROVE pc'[h] = pc[h]
      BY <1>4, <3>2 DEF Answers, Working, Lookup
    <3> QED
      BY <1>1, <3>1, <3>2 DEF Served
  <2>3. ASSUME NEW h \in Handler PROVE OwnWork(h)'
    <3>1. pc'[h] = "idle" <=> pc[h] = "idle"
      BY <1>4 DEF Working, Lookup
    <3> QED
      BY <1>1, <3>1 DEF Ownership, OwnWork
  <2> QED
    BY <2>1, <2>2, <2>3 DEF Ownership
<1>6. NothingAhead' /\ CachedMetadata' /\ PublishedIsComplete'
  BY <1>1 DEF NothingAhead, CachedMetadata, PublishedIsComplete, Complete
<1>7. Stages'
  <2>1. ASSUME NEW d \in Client PROVE ClientStage(d)'
    <3>1. cpc[d] = "uploading" => metadataCache'[mine[d]] = None
      BY <1>1 DEF Stages, ClientStage, Ownership, OwnId, TypeOK
    <3> QED
      BY <1>1, <1>2, <3>1 DEF Stages, ClientStage, Exported, SameIsPublished, Published, Reliable
  <2>2. ASSUME NEW d \in Client PROVE MarkStage(d)'
    <3>1. SUFFICES ASSUME serving[d] # None PROVE MarkStage(d)'
      BY <1>1 DEF MarkStage
    <3>2. serving[d] \in Handler /\ MarkStage(d)
      BY <3>1 DEF Ownership, Served, Stages
    <3>3. CASE pc'[serving[d]] = pc[serving[d]]
      BY <1>1, <3>2, <3>3 DEF MarkStage, Exported, SameIsPublished, Published, Reliable
    <3>4. CASE pc'[serving[d]] = "crashed"
      BY <1>1, <3>4 DEF MarkStage, Lookup, Answers
    <3> QED
      BY <1>4, <3>2, <3>3, <3>4
  <2>3. ASSUME NEW h \in Handler PROVE RollbackStage(h)' /\ RepublishStage(h)' /\ KeyIsPlatform(h)'
    <3>1. CASE pc'[h] = pc[h] /\ pc[h] \notin Working \cup Lookup
      BY <1>1, <3>1 DEF Stages, RollbackStage, RepublishStage, KeyIsPlatform, Working
    <3>2. CASE pc'[h] = "crashed"
      BY <1>1, <3>2 DEF RollbackStage, RepublishStage, KeyIsPlatform
    <3> QED
      BY <1>4, <3>1, <3>2
  <2> QED
    BY <2>1, <2>2, <2>3 DEF Stages
<1>8. Lookups' /\ (Reliable /\ ListsAll => ScanIsFresh')
  BY <1>3 DEF Lookups, LookupStage, ScanIsFresh, Lookup
<1>9. Warmers'
  <2>1. \A h \in Handler, p \in Platform : <<h, p>> \in Warmer
    BY DEF Warmer
  <2> QED
    BY <1>3, <2>1 DEF Warmers
<1>10. AnswersArePublished'
  <2>1. \A q \in Proc : pc'[q] \notin {"fill", "found"}
    BY <1>3 DEF Lookup
  <2> QED
    BY <1>1, <2>1 DEF AnswersArePublished, Published
<1> QED
  BY <1>5, <1>6, <1>7, <1>8, <1>9, <1>10 DEF Reliable

--------------------------------------------------------------------------------
(* The invariant. *)

LEMMA InitInv == Init => Inv
<1> SUFFICES ASSUME Init PROVE Inv
  OBVIOUS
<1> USE ConstantsAssumption DEF Init, NoUpdate
<1>0. /\ Handler \subseteq Proc /\ Reader \subseteq Proc /\ Warmer \subseteq Proc
      /\ \A h \in Handler, p \in Platform : <<h, p>> \in Warmer
  BY DEF Proc, Warmer
<1>1. Ownership
  BY <1>0 DEF Ownership, OwnId, Served, OwnWork
<1>2. NothingAhead /\ CachedMetadata
  BY DEF NothingAhead, CachedMetadata
<1>3. Stages
  <2>1. \A c \in Client : ClientStage(c) /\ MarkStage(c)
    BY DEF ClientStage, MarkStage
  <2>2. \A h \in Handler : RollbackStage(h) /\ RepublishStage(h) /\ KeyIsPlatform(h)
    BY <1>0 DEF RollbackStage, RepublishStage, KeyIsPlatform
  <2> QED
    BY <2>1, <2>2 DEF Stages
<1>4. Lookups /\ Warmers /\ ScanIsFresh
  BY <1>0 DEF Lookups, LookupStage, Lookup, Warmers, ScanIsFresh
<1>5. PublishedIsComplete /\ AnswersArePublished
  BY DEF PublishedIsComplete, EmptyFolder, AnswersArePublished
<1> QED
  BY <1>1, <1>2, <1>3, <1>4, <1>5 DEF Inv

LEMMA NextInv == Orderly /\ TypeOK /\ TypeOK' /\ Inv /\ [Next]_vars => Inv'
<1> SUFFICES ASSUME Orderly, TypeOK, TypeOK', Inv, [Next]_vars PROVE Inv'
  OBVIOUS
<1>1. ASSUME NEW h \in Handler, HandlerStep(h) PROVE Inv'
  BY <1>1, VerifyUploadedUpdateInv, CompareWithLatestInv, DiscardUpdateInv, CopyUpdateInv,
     DescribeUpdateInv, FlagRollbackInv, RetrieveStoredMetadataInv, StoreUpdateUUIDInv,
     WriteCheckInv, InvalidateAndPreWarmInv DEF HandlerStep
<1>2. CASE UNCHANGED vars
  <2>1. UNCHANGED <<clock, bucket, lastUpdate, metadataCache, cpc, want, mine, sent, serving, pc, op,
                    upd, source, key, plat, unread, cands, latest, floor>>
    BY <1>2 DEF vars, bucketVars, cacheVars, clientVars, lookupVars
  <2>2. Ownership' /\ NothingAhead' /\ CachedMetadata' /\ Warmers' /\ PublishedIsComplete'
    BY <2>1 DEF Inv, Ownership, OwnId, Served, OwnWork, NothingAhead, CachedMetadata, Warmers,
                PublishedIsComplete, Complete
  <2>3. Stages'
    BY <2>1 DEF Inv, Stages, ClientStage, MarkStage, RollbackStage, RepublishStage, KeyIsPlatform,
                Exported, SameIsPublished, Published
  <2>4. Lookups' /\ AnswersArePublished' /\ (Reliable /\ ListsAll => ScanIsFresh')
    BY <2>1 DEF Inv, Lookups, LookupStage, Settled, AnswersArePublished, Published, ScanIsFresh
  <2> QED
    BY <2>2, <2>3, <2>4 DEF Inv
<1> QED
  BY <1>1, <1>2, RequestUploadUrlInv, StoreUploadMetadataInv, UploadFileInv, PostMarkInv,
     ReceiveAnswerInv, ClientErrorInv, LookupStepInv, FinishReadInv, BucketErrorInv, StartReadInv,
     ExpireLastUpdateInv, StartRollbackInv, StartRepublishInv, CrashInv DEF Next

(***************************************************************************)
(* With ids that are not shared, marks that are sent once and only for     *)
(* finished uploads, whatever crashes and whichever bucket calls fail, the *)
(* invariant holds: each update id has one owner, whose folder holds what  *)
(* its stage says.  The theorems below spell out what follows from it.     *)
(***************************************************************************)
THEOREM InvariantHolds == ASSUME Orderly PROVE Spec => []Inv
<1>1. Init => TypeOK /\ Addressed /\ Inv
  BY InitTypeOK, InitInv
<1>2. TypeOK /\ Addressed /\ Inv /\ [Next]_vars => TypeOK' /\ Addressed' /\ Inv'
  BY NextTypeOK, NextInv
<1> QED
  BY <1>1, <1>2, PTL DEF Spec

\* A folder with a .check has its description and is a rollback or holds bundle,
\* assets and update UUID: the handlers write .check last, after whatever they
\* copied, described or flagged.
THEOREM PublishedAreComplete == ASSUME Orderly PROVE Spec => []PublishedIsComplete
<1>1. Inv => PublishedIsComplete
  BY DEF Inv
<1> QED
  BY <1>1, InvariantHolds, PTL

\* Whatever lookups answer and cache is a published update of their platform,
\* although they read one file at a time and cache without a lock.
THEOREM AnswersArePublishedUpdates == ASSUME Orderly PROVE Spec => []AnswersArePublished
<1>1. Inv => AnswersArePublished
  BY DEF Inv
<1> QED
  BY <1>1, InvariantHolds, PTL

\* "You have already uploaded this update" is only said when it is published.
THEOREM IdenticalArePublished == ASSUME Orderly PROVE Spec => []IdenticalIsPublished
<1>1. Inv => IdenticalIsPublished
  BY DEF Inv, Stages, ClientStage, SameIsPublished, IdenticalIsPublished
<1> QED
  BY <1>1, InvariantHolds, PTL

\* When no bucket call fails, a client that is told 200 has its bundle published.
THEOREM AckedArePublished == ASSUME Orderly, Reliable PROVE Spec => []AckedIsPublished
<1>1. Inv => AckedIsPublished
  BY DEF Inv, Stages, ClientStage, Exported, AckedIsPublished
<1> QED
  BY <1>1, InvariantHolds, PTL

\* When no bucket call fails, a lookup that scans the bucket answers no older
\* update than the latest one when it listed the folders, provided that the bucket
\* lists them all: an S3Bucket does for up to 1000 updates.
THEOREM ScansAreFresh == ASSUME Orderly, Reliable, ListsAll PROVE Spec => []ScanIsFresh
<1>1. Inv => ScanIsFresh
  BY DEF Inv
<1> QED
  BY <1>1, InvariantHolds, PTL

================================================================================
