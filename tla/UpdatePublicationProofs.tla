------------------------ MODULE UpdatePublicationProofs ------------------------
EXTENDS PublicationInvariant, FiniteSetTheorems, TLAPS

(***************************************************************************)
(* Newest is what sortUpdates puts first: a non-empty set of update ids has *)
(* a member that no other exceeds.  Among the sets of ids above a member,  *)
(* one is minimal for inclusion, and it belongs to the greatest member.    *)
(***************************************************************************)
LEMMA NewestIsMaximum ==
  ASSUME NEW us \in SUBSET Id, us # {}
  PROVE  /\ Newest(us) \in us
         /\ \A v \in us : v <= Newest(us)
<1> DEFINE Above(u) == {v \in us : v > u}
           Family == {Above(u) : u \in us}
<1>1. IsFiniteSet(us)
  <2>1. IsFiniteSet(Id)
    BY FS_Interval, ConstantsAssumption DEF Id
  <2> QED
    BY <2>1, FS_Subset
<1>2. Family \subseteq FiniteSubsetsOf(us)
  <2>1. SUFFICES ASSUME NEW u \in us
                 PROVE  Above(u) \in FiniteSubsetsOf(us)
    OBVIOUS
  <2>2. Above(u) \subseteq us
    OBVIOUS
  <2> QED
    BY <1>1, <2>2, FS_Subset DEF FiniteSubsetsOf
<1>3. PICK x \in Family : \A y \in Family : <<y, x>> \notin StrictSubsetOrdering(us)
  <2>1. Family # {}
    OBVIOUS
  <2>2. IsWellFoundedOn(StrictSubsetOrdering(us), FiniteSubsetsOf(us))
    BY FS_StrictSubsetOrderingWellFounded
  <2> HIDE DEF Family
  <2> QED
    BY <1>2, <2>1, <2>2, WFMin
<1>4. PICK m \in us : x = Above(m)
  BY <1>3
<1>5. \A v \in us : v <= m
  <2>1. SUFFICES ASSUME NEW v \in us, ~ (v <= m)
                 PROVE  FALSE
    OBVIOUS
  <2>2. v \in Int /\ m \in Int /\ (\A w \in us : w \in Int)
    BY DEF Id
  <2>3. v > m
    BY <2>1, <2>2
  <2>4. Above(v) \subseteq Above(m) /\ v \in Above(m) /\ v \notin Above(v)
    <3>1. v \in Above(m)
      BY <2>3
    <3>2. v \notin Above(v)
      BY <2>2
    <3>3. \A w \in us : w > v => w > m
      BY <2>2, <2>3
    <3> QED
      BY <3>1, <3>2, <3>3
  <2>5. <<Above(v), Above(m)>> \in StrictSubsetOrdering(us)
    BY <2>4 DEF StrictSubsetOrdering
  <2> QED
    BY <1>3, <1>4, <2>5
<1> QED
  BY <1>5 DEF Newest

LEMMA LatestPublishedType ==
  ASSUME NEW p
  PROVE  LatestPublished(p) \in Id \cup {NoUpdate}
<1>1. Published(p) \in SUBSET Id
  BY DEF Published
<1>2. CASE Published(p) = {}
  BY <1>2 DEF LatestPublished
<1>3. CASE Published(p) # {}
  BY <1>1, <1>3, NewestIsMaximum DEF LatestPublished
<1> QED
  BY <1>2, <1>3

--------------------------------------------------------------------------------
(* Type correctness. *)

LEMMA FolderFields ==
  \A f \in Folder :
    /\ f.stored \in Platform \cup {None} /\ f.meta \in Content \cup {None}
    /\ f.assets \in SUBSET Asset /\ f.rollback \in BOOLEAN /\ f.check \in BOOLEAN
    /\ \A i \in BOOLEAN : [f EXCEPT !.uuid = i] \in Folder
    /\ \A m \in Content \cup {None} : [f EXCEPT !.meta = m] \in Folder
    /\ \A as \in SUBSET Asset : [f EXCEPT !.assets = as] \in Folder
    /\ \A p \in Platform \cup {None} : Described(f, p) \in Folder
    /\ \A g \in Folder : Overlaid(f, g) \in Folder
<1> TAKE f \in Folder
<1>1. f.stored \in Platform \cup {None} /\ f.meta \in Content \cup {None}
      /\ f.assets \in SUBSET Asset /\ f.rollback \in BOOLEAN /\ f.check \in BOOLEAN
  BY DEF Folder
<1>2. /\ \A i \in BOOLEAN : [f EXCEPT !.uuid = i] \in Folder
      /\ \A m \in Content \cup {None} : [f EXCEPT !.meta = m] \in Folder
      /\ \A as \in SUBSET Asset : [f EXCEPT !.assets = as] \in Folder
  BY DEF Folder
<1>3. \A p \in Platform \cup {None} : Described(f, p) \in Folder
  BY DEF Folder, Described
<1>4. ASSUME NEW g \in Folder PROVE Overlaid(f, g) \in Folder
  <2> DEFINE m == IF g.meta # None THEN g.meta ELSE f.meta
             as == f.assets \cup g.assets
             r == f.rollback \/ g.rollback
  <2>1. m \in Content \cup {None} /\ as \in SUBSET Asset
    BY DEF Folder
  <2>2. r \in BOOLEAN
    OBVIOUS
  <2>3. Overlaid(f, g) = [f EXCEPT !.meta = m, !.assets = as, !.rollback = r]
    BY DEF Overlaid
  <2> HIDE DEF m, as, r
  <2> QED
    BY <2>1, <2>2, <2>3 DEF Folder
<1> QED
  BY <1>1, <1>2, <1>3, <1>4

LEMMA InitTypeOK == Init => TypeOK /\ Addressed
<1> SUFFICES ASSUME Init PROVE TypeOK /\ Addressed
  OBVIOUS
<1> USE ConstantsAssumption DEF Init, Id, NoUpdate
<1>1. EmptyFolder \in Folder
  BY DEF EmptyFolder, Folder
<1>2. clock \in 1..(MaxId + 1)
  OBVIOUS
<1>3. TypeOK
  BY <1>1, <1>2 DEF TypeOK, Working, Answers, Lookup
<1>4. Addressed
  BY DEF Addressed, Proc
<1> QED
  BY <1>3, <1>4

LEMMA NextTypeOK == TypeOK /\ Addressed /\ [Next]_vars => TypeOK' /\ Addressed'
<1> SUFFICES ASSUME TypeOK, Addressed, [Next]_vars PROVE TypeOK' /\ Addressed'
  OBVIOUS
<1> USE DEF TypeOK, Addressed
<1>0. Handler \subseteq Proc /\ Reader \subseteq Proc /\ Warmer \subseteq Proc
  BY DEF Proc
<1>1. ASSUME NEW c \in Client, RequestUploadUrl(c) PROVE TypeOK' /\ Addressed'
  BY <1>1, ConstantsAssumption DEF RequestUploadUrl, Timestamp, Id, cacheVars, lookupVars
<1>2. ASSUME NEW c \in Client, StoreUploadMetadata(c) PROVE TypeOK' /\ Addressed'
  BY <1>2, FolderFields DEF StoreUploadMetadata, cacheVars, lookupVars
<1>3. ASSUME NEW c \in Client, NEW f \in Upload, UploadFile(c, f) PROVE TypeOK' /\ Addressed'
  <2>1. bucket' \in [Id -> Folder]
    <3>1. CASE f = "metadata.json"
      <4>1. bucket' = [bucket EXCEPT ![mine[c]].meta = want[c].content]
        BY <1>3, <3>1, ConstantsAssumption DEF UploadFile
      <4>2. [bucket[mine[c]] EXCEPT !.meta = want[c].content] \in Folder
        BY <1>3, FolderFields DEF UploadFile
      <4> QED
        BY <4>1, <4>2
    <3>2. CASE f \in Asset
      <4>1. bucket' = [bucket EXCEPT ![mine[c]].assets = @ \cup {f}]
        BY <1>3, <3>2, ConstantsAssumption DEF UploadFile
      <4>2. bucket[mine[c]].assets \cup {f} \in SUBSET Asset
        BY <1>3, <3>2, FolderFields DEF UploadFile
      <4>3. [bucket[mine[c]] EXCEPT !.assets = bucket[mine[c]].assets \cup {f}] \in Folder
        BY <1>3, <4>2, FolderFields DEF UploadFile
      <4> QED
        BY <4>1, <4>3
    <3> QED
      BY <3>1, <3>2 DEF Upload
  <2>2. sent' \in [Client -> SUBSET Upload]
    BY <1>3 DEF UploadFile
  <2> QED
    BY <1>3, <2>1, <2>2 DEF UploadFile, cacheVars, lookupVars
<1>4. ASSUME NEW c \in Client, NEW h \in Handler, PostMark(c, h) PROVE TypeOK' /\ Addressed'
  <2>1. pc' = [pc EXCEPT ![h] = "verify"]
    BY <1>4 DEF PostMark
  <2>2. plat' = [plat EXCEPT ![h] = want[c].platform] /\ want[c].platform \in Platform
    BY <1>4 DEF PostMark
  <2>3. TypeOK'
    BY <1>0, <1>4, <2>1, <2>2 DEF PostMark, Working, bucketVars, cacheVars
  <2>4. Addressed'
    BY <1>0, <1>4, <2>1, <2>2 DEF PostMark
  <2> QED
    BY <2>3, <2>4
<1>5. ASSUME NEW c \in Client, ReceiveAnswer(c) PROVE TypeOK' /\ Addressed'
  BY <1>5 DEF ReceiveAnswer, bucketVars, cacheVars, lookupVars
<1>6. ASSUME NEW q \in Proc, LookupStep(q) PROVE TypeOK' /\ Addressed'
  <2> USE DEF LookupUnchanged, bucketVars, clientVars, Lookup
  <2>1. CASE GetCached(q)
    <3>1. plat[q] \in Platform
      BY <2>1 DEF GetCached
    <3>2. latest' \in [Proc -> Id \cup {NoUpdate}]
      BY <2>1, <3>1 DEF GetCached
    <3>3. pc' \in [Proc -> {"idle"} \cup Working \cup Lookup \cup Answers]
      BY <2>1 DEF GetCached
    <3>4. \A r \in Proc : pc'[r] # "idle" => pc[r] # "idle"
      BY <2>1 DEF GetCached
    <3>5. \A r \in Proc : pc'[r] = "copy" => pc[r] = "copy"
      BY <2>1 DEF GetCached
    <3> QED
      BY <1>0, <2>1, <3>2, <3>3, <3>4, <3>5 DEF GetCached
  <2>2. CASE ListUpdates(q)
    BY <2>2, LatestPublishedType DEF ListUpdates, AfterListing, GetUpdates, Existing
  <2>3. CASE ScanUpdate(q)
    <3>1. cands[q] # {} => NextToScan(cands[q]) \in Id
      BY NewestIsMaximum DEF NextToScan
    <3>2. latest' \in [Proc -> Id \cup {NoUpdate}]
      BY <2>3, <3>1 DEF ScanUpdate
    <3>3. cands' \in [Proc -> SUBSET Id]
      BY <2>3 DEF ScanUpdate
    <3>4. pc' \in [Proc -> {"idle"} \cup Working \cup Lookup \cup Answers]
      BY <2>3 DEF ScanUpdate
    <3>5. \A r \in Proc : pc'[r] # "idle" => pc[r] # "idle"
      BY <2>3 DEF ScanUpdate
    <3>6. \A r \in Proc : pc'[r] = "copy" => pc[r] = "copy"
      BY <2>3 DEF ScanUpdate
    <3> QED
      BY <1>0, <2>3, <3>2, <3>3, <3>4, <3>5, <3>6 DEF ScanUpdate
  <2>4. CASE FillCache(q)
    BY <2>4 DEF FillCache
  <2>5. CASE FilterUpdate(q)
    <3>1. unread' \in [Proc -> SUBSET Id] /\ cands' \in [Proc -> SUBSET Id]
      BY <2>5 DEF FilterUpdate, NextToRead
    <3> QED
      BY <1>0, <2>5, <3>1 DEF FilterUpdate, AfterListing
  <2> QED
    BY <1>6, <2>1, <2>2, <2>3, <2>4, <2>5 DEF LookupStep
<1>7. ASSUME NEW q \in Proc, FinishRead(q) PROVE TypeOK' /\ Addressed'
  <2>1. metadataCache' \in [Id -> Content \cup {None}]
    BY <1>7 DEF FinishRead, Remember, MetadataOf, Folder
  <2> QED
    BY <1>7, <2>1, ConstantsAssumption DEF FinishRead, bucketVars, clientVars, NoUpdate, Proc
<1>8. ASSUME NEW q \in Proc, BucketError(q) PROVE TypeOK' /\ Addressed'
  <2> USE DEF BucketError, FailedCall, AfterListing, Goto
  <2>1. pc' \in [Proc -> {"idle"} \cup Working \cup Lookup \cup Answers]
    BY <1>8 DEF Working, Answers, Lookup
  <2>2. cands' \in [Proc -> SUBSET Id] /\ unread' \in [Proc -> SUBSET Id]
    BY <1>8
  <2>3. \A r \in Proc : pc'[r] # "idle" => pc[r] # "idle"
    BY <1>8
  <2>4. \A r \in Proc : pc'[r] = "copy" => pc[r] = "copy"
    BY <1>8
  <2> QED
    BY <1>0, <1>8, <2>1, <2>2, <2>3, <2>4 DEF bucketVars, cacheVars, clientVars
<1>9. ASSUME NEW r \in Reader, NEW p \in Platform, StartRead(r, p) PROVE TypeOK' /\ Addressed'
  BY <1>0, <1>9, ConstantsAssumption DEF StartRead, bucketVars, cacheVars, clientVars, Lookup
<1>10. ASSUME NEW p \in Platform, ExpireLastUpdate(p) PROVE TypeOK' /\ Addressed'
  BY <1>10 DEF ExpireLastUpdate, bucketVars, clientVars, lookupVars
<1>11. ASSUME NEW h \in Handler, HandlerStep(h) PROVE TypeOK' /\ Addressed'
  <2> USE DEF HandlerUnchanged, Goto, bucketVars, cacheVars, clientVars, lookupVars
  <2>1. CASE VerifyUploadedUpdate(h)
    BY <1>0, <2>1 DEF VerifyUploadedUpdate, Remember, MetadataOf, Folder, Working, Lookup
  <2>2. CASE CompareWithLatest(h)
    <3>1. pc' \in [Proc -> {"idle"} \cup Working \cup Lookup \cup Answers]
      BY <1>0, <2>2 DEF CompareWithLatest, Working
    <3>2. metadataCache' \in [Id -> Content \cup {None}]
      <4>1. metadataCache' = metadataCache \/ \E us : Remember(us)
        BY <2>2 DEF CompareWithLatest
      <4> QED
        BY <4>1 DEF Remember, MetadataOf, Folder
    <3>5. latest' \in [Proc -> Id \cup {NoUpdate}] /\ floor' \in [Proc -> Id \cup {NoUpdate}]
      BY <2>2 DEF CompareWithLatest
    <3>3. \A r \in Proc : pc'[r] # "idle" => pc[r] # "idle"
      BY <1>0, <2>2 DEF CompareWithLatest
    <3>4. \A r \in Proc : pc'[r] = "copy" => pc[r] = "copy"
      BY <1>0, <2>2 DEF CompareWithLatest
    <3> QED
      BY <1>0, <2>2, <3>1, <3>2, <3>3, <3>4, <3>5 DEF CompareWithLatest
  <2>3. CASE DiscardUpdate(h)
    BY <1>0, <2>3 DEF DiscardUpdate, EmptyFolder, Folder, Answers
  <2>4. CASE CopyUpdate(h)
    <3>1. bucket' \in [Id -> Folder]
      <4>1. bucket[source[h]] \in Folder /\ bucket[upd[h]] \in Folder
        BY <1>0, <2>4 DEF CopyUpdate
      <4>2. Overlaid(bucket[upd[h]], bucket[source[h]]) \in Folder
        BY <4>1, FolderFields
      <4> QED
        BY <2>4, <4>2 DEF CopyUpdate
    <3>2. pc' \in [Proc -> {"idle"} \cup Working \cup Lookup \cup Answers]
      BY <1>0, <2>4 DEF CopyUpdate, Working, Answers
    <3>3. \A r \in Proc : pc'[r] # "idle" => pc[r] # "idle"
      BY <1>0, <2>4 DEF CopyUpdate
    <3>4. \A r \in Proc : pc'[r] = "copy" => pc[r] = "copy"
      BY <1>0, <2>4 DEF CopyUpdate
    <3> QED
      BY <1>0, <2>4, <3>1, <3>2, <3>3, <3>4 DEF CopyUpdate
  <2>5. CASE DescribeUpdate(h)
    BY <1>0, <2>5, FolderFields DEF DescribeUpdate, Working
  <2>6. CASE FlagRollback(h)
    BY <1>0, <2>6 DEF FlagRollback, Folder, Working
  <2>7. CASE RetrieveStoredMetadata(h)
    <3>1. key' \in [Handler -> Platform \cup {None}]
      <4>1. bucket[upd[h]].stored \in Platform \cup {None}
        BY <1>0, <2>7, FolderFields DEF RetrieveStoredMetadata
      <4> QED
        BY <2>7, <4>1 DEF RetrieveStoredMetadata
    <3>2. pc' \in [Proc -> {"idle"} \cup Working \cup Lookup \cup Answers]
      BY <1>0, <2>7 DEF RetrieveStoredMetadata, Working, Answers
    <3>3. \A r \in Proc : pc'[r] # "idle" => pc[r] # "idle"
      BY <1>0, <2>7 DEF RetrieveStoredMetadata
    <3>4. \A r \in Proc : pc'[r] = "copy" => pc[r] = "copy"
      BY <1>0, <2>7 DEF RetrieveStoredMetadata
    <3> QED
      BY <1>0, <2>7, <3>1, <3>2, <3>3, <3>4 DEF RetrieveStoredMetadata
  <2>8. CASE StoreUpdateUUID(h)
    <3>1. bucket' \in [Id -> Folder]
      <4> DEFINE new == [bucket[upd[h]] EXCEPT !.uuid = (MetadataOf(upd[h]) # None)]
      <4>1. bucket' = [bucket EXCEPT ![upd[h]] = new] \/ bucket' = bucket
        BY <2>8 DEF StoreUpdateUUID
      <4>2. ASSUME upd[h] \in Id PROVE new \in Folder
        <5>1. (MetadataOf(upd[h]) # None) \in BOOLEAN /\ bucket[upd[h]] \in Folder
          BY <4>2
        <5> QED
          BY <5>1, FolderFields
      <4> HIDE DEF new
      <4> QED
        BY <4>1, <4>2
    <3>2. metadataCache' \in [Id -> Content \cup {None}]
      BY <2>8 DEF StoreUpdateUUID, Remember, MetadataOf, Folder
    <3>3. pc' \in [Proc -> {"idle"} \cup Working \cup Lookup \cup Answers]
      BY <1>0, <2>8 DEF StoreUpdateUUID, Working, Answers
    <3>4. \A r \in Proc : pc'[r] # "idle" => pc[r] # "idle"
      BY <1>0, <2>8 DEF StoreUpdateUUID
    <3>5. \A r \in Proc : pc'[r] = "copy" => pc[r] = "copy"
      BY <1>0, <2>8 DEF StoreUpdateUUID
    <3> QED
      BY <1>0, <2>8, <3>1, <3>2, <3>3, <3>4, <3>5 DEF StoreUpdateUUID
  <2>9. CASE WriteCheck(h)
    BY <1>0, <2>9 DEF WriteCheck, Folder, Working
  <2>10. CASE InvalidateAndPreWarm(h)
    <3> DEFINE prewarm == {h} \X Platform
    <3>1. /\ \A q \in prewarm : q \in Warmer /\ q[2] \in Platform
          /\ \A g \in Handler : g \notin prewarm
      BY ConstantsAssumption DEF Warmer
    <3>2. /\ pc' = [q \in Proc |-> IF q = h THEN "ok" ELSE IF q \in prewarm THEN "get" ELSE pc[q]]
          /\ plat' = [q \in Proc |-> IF q \in prewarm THEN q[2] ELSE plat[q]]
      BY <2>10 DEF InvalidateAndPreWarm
    <3> HIDE DEF prewarm
    <3>3. pc' \in [Proc -> {"idle"} \cup Working \cup Lookup \cup Answers]
      BY <3>2 DEF Lookup, Answers
    <3>4. plat' \in [Proc -> Platform \cup {None}]
      BY <3>1, <3>2
    <3>5. \A q \in Proc : pc'[q] # "idle" => plat'[q] \in Platform
      BY <1>0, <2>10, <3>1, <3>2 DEF InvalidateAndPreWarm
    <3>6. \A g \in Handler : (pc'[g] # "idle" => pc[g] # "idle") /\ (pc'[g] = "copy" => pc[g] = "copy")
      BY <1>0, <2>10, <3>1, <3>2 DEF InvalidateAndPreWarm
    <3> QED
      BY <2>10, <3>3, <3>4, <3>5, <3>6 DEF InvalidateAndPreWarm
  <2> QED
    BY <1>11, <2>1, <2>2, <2>3, <2>4, <2>5, <2>6, <2>7, <2>8, <2>9, <2>10 DEF HandlerStep
<1>12. ASSUME NEW h \in Handler, NEW p \in Platform, StartRollback(h, p)
       PROVE  TypeOK' /\ Addressed'
  BY <1>0, <1>12, ConstantsAssumption
  DEF StartRollback, Timestamp, Id, Goto, cacheVars, clientVars, Working
<1>13. ASSUME NEW h \in Handler, NEW p \in Platform, NEW u \in Id, StartRepublish(h, p, u)
       PROVE  TypeOK' /\ Addressed'
  BY <1>0, <1>13, ConstantsAssumption
  DEF StartRepublish, Timestamp, Id, Goto, cacheVars, clientVars, Working
<1>14. ASSUME NEW c \in Client, ClientError(c) PROVE TypeOK' /\ Addressed'
  BY <1>14 DEF ClientError, bucketVars, cacheVars, lookupVars, Answers
<1>15. CASE Crash
  BY <1>0, <1>15 DEF Crash, bucketVars, cacheVars, lookupVars, Answers, Working, Lookup
<1>16. CASE UNCHANGED vars
  BY <1>16 DEF vars, bucketVars, cacheVars, clientVars, lookupVars
<1> HIDE DEF TypeOK, Addressed
<1> QED
  BY <1>1, <1>2, <1>3, <1>4, <1>5, <1>6, <1>7, <1>8, <1>9, <1>10, <1>11, <1>12, <1>13,
     <1>14, <1>15, <1>16 DEF Next

(***************************************************************************)
(* In every environment, and for any number of clients, handlers, readers, *)
(* platforms and updates, the variables keep their types: no handler works *)
(* on a platform or an update id it was never given.                       *)
(***************************************************************************)
THEOREM TypeCorrect == Spec => []TypeOK
<1>1. Init => TypeOK /\ Addressed
  BY InitTypeOK
<1>2. TypeOK /\ Addressed /\ [Next]_vars => TypeOK' /\ Addressed'
  BY NextTypeOK
<1> QED
  BY <1>1, <1>2, PTL DEF Spec

================================================================================
