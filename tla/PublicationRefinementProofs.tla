---------------------- MODULE PublicationRefinementProofs ----------------------
(***************************************************************************)
(* Published updates are final, and the log of releases is implemented:    *)
(* consequences of the invariant for steps.                                *)
(***************************************************************************)
EXTENDS PublicationSafetyProofs

\* No folder is published by the step.
NoneChecked == \A u \in Id : bucket'[u].check => bucket[u].check

--------------------------------------------------------------------------------
(* Published updates are final. *)

\* A write into the folder of update u, which is not published.
LEMMA WriteKeeps ==
  ASSUME TypeOK, NEW u \in Id, ~ bucket[u].check, NEW f, bucket' = [bucket EXCEPT ![u] = f]
  PROVE  Kept /\ (~ f.check => NoneChecked)
BY DEF Kept, NoneChecked, TypeOK

LEMMA ClientStepKeeps ==
  ASSUME TypeOK, Inv, NEW c \in Client,
         StoreUploadMetadata(c) \/ \E f \in Upload : UploadFile(c, f)
  PROVE  Kept /\ NoneChecked
<1>1. mine[c] \in Id /\ ~ bucket[mine[c]].check
  BY DEF StoreUploadMetadata, UploadFile, Inv, Ownership, OwnId, Stages, ClientStage, EmptyFolder,
         TypeOK
<1>2. bucket[mine[c]] \in Folder
  BY <1>1 DEF TypeOK
<1>3. CASE StoreUploadMetadata(c)
  <2> DEFINE f == Described(bucket[mine[c]], want[c].platform)
  <2>1. bucket' = [bucket EXCEPT ![mine[c]] = f]
    BY <1>3 DEF StoreUploadMetadata
  <2>2. ~ f.check
    BY <1>1, <1>2 DEF Described, Folder
  <2> HIDE DEF f
  <2> QED
    BY <1>1, <2>1, <2>2, WriteKeeps
<1>4. ASSUME NEW f \in Upload, UploadFile(c, f) PROVE Kept /\ NoneChecked
  <2> DEFINE withMeta == [bucket[mine[c]] EXCEPT !.meta = want[c].content]
             withAsset == [bucket[mine[c]] EXCEPT !.assets = @ \cup {f}]
  <2>1. \/ bucket' = [bucket EXCEPT ![mine[c]] = withMeta]
        \/ bucket' = [bucket EXCEPT ![mine[c]] = withAsset]
    BY <1>4 DEF UploadFile
  <2>2. ~ withMeta.check /\ ~ withAsset.check
    BY <1>1, <1>2 DEF Folder
  <2> HIDE DEF withMeta, withAsset
  <2> QED
    BY <1>1, <2>1, <2>2, WriteKeeps
<1> QED
  BY <1>3, <1>4

LEMMA HandlerStepKeeps ==
  ASSUME TypeOK, Inv, NEW h \in Handler, HandlerStep(h)
  PROVE  Kept /\ (WriteCheck(h) \/ NoneChecked)
<1>1. /\ bucket' # bucket => pc[h] \in {"discardInvalid", "discardDuplicate", "copy", "describe",
                                        "flag", "firstUUID", "uuid", "check"}
      /\ pc[h] # "idle"
  BY DEF HandlerStep, VerifyUploadedUpdate, CompareWithLatest, DiscardUpdate, CopyUpdate,
         DescribeUpdate, FlagRollback, RetrieveStoredMetadata, StoreUpdateUUID, WriteCheck,
         InvalidateAndPreWarm, bucketVars
<1>2. CASE bucket' = bucket
  BY <1>2 DEF Kept, NoneChecked
<1>3. CASE bucket' # bucket
  <2> DEFINE old == bucket[upd[h]]
  <2>1. upd[h] \in Id /\ old \in Folder /\ ~ old.check
    BY <1>1, <1>3, Owner, Unpublished DEF TypeOK
  <2>2. CASE DiscardUpdate(h)
    <3>1. ~ EmptyFolder.check
      BY DEF EmptyFolder
    <3> QED
      BY <2>1, <2>2, <3>1, WriteKeeps DEF DiscardUpdate
  <2>3. CASE CopyUpdate(h)
    <3>1. bucket' = [bucket EXCEPT ![upd[h]] = Overlaid(old, bucket[source[h]])]
      BY <1>3, <2>3 DEF CopyUpdate
    <3>2. \A f \in Folder : \A g : Overlaid(f, g).check = f.check
      BY DEF Overlaid, Folder
    <3> QED
      BY <2>1, <3>1, <3>2, WriteKeeps
  <2>4. CASE DescribeUpdate(h)
    <3>1. \A f \in Folder : \A p : Described(f, p).check = f.check
      BY DEF Described, Folder
    <3> QED
      BY <2>1, <2>4, <3>1, WriteKeeps DEF DescribeUpdate
  <2>5. CASE FlagRollback(h)
    <3> DEFINE new == [old EXCEPT !.rollback = TRUE]
    <3>1. bucket' = [bucket EXCEPT ![upd[h]] = new]
      BY <2>5 DEF FlagRollback
    <3>2. ~ new.check
      BY <2>1 DEF Folder
    <3> HIDE DEF new
    <3> QED
      BY <2>1, <3>1, <3>2, WriteKeeps
  <2>6. CASE StoreUpdateUUID(h)
    <3> DEFINE new == [old EXCEPT !.uuid = (MetadataOf(upd[h]) # None)]
    <3>1. bucket' = [bucket EXCEPT ![upd[h]] = new]
      BY <1>3, <2>6 DEF StoreUpdateUUID
    <3>2. ~ new.check
      BY <2>1 DEF Folder
    <3> HIDE DEF new
    <3> QED
      BY <2>1, <3>1, <3>2, WriteKeeps
  <2>7. CASE WriteCheck(h)
    <3> DEFINE new == [old EXCEPT !.check = TRUE]
    <3>1. bucket' = [bucket EXCEPT ![upd[h]] = new]
      BY <2>7 DEF WriteCheck
    <3> HIDE DEF new
    <3> QED
      BY <2>1, <2>7, <3>1, WriteKeeps
  <2> QED
    BY <1>3, <2>2, <2>3, <2>4, <2>5, <2>6, <2>7
    DEF HandlerStep, VerifyUploadedUpdate, CompareWithLatest, RetrieveStoredMetadata,
        InvalidateAndPreWarm, bucketVars
<1> QED
  BY <1>2, <1>3

LEMMA NextKeeps ==
  ASSUME TypeOK, Inv, [Next]_vars
  PROVE  Kept /\ (NoneChecked \/ \E h \in Handler : WriteCheck(h))
<1>1. CASE bucket' = bucket
  BY <1>1 DEF Kept, NoneChecked
<1>2. CASE bucket' # bucket
  <2>1. \/ \E c \in Client : StoreUploadMetadata(c) \/ \E f \in Upload : UploadFile(c, f)
        \/ \E h \in Handler : HandlerStep(h)
    BY <1>2 DEF Next, vars, bucketVars, RequestUploadUrl, PostMark, ReceiveAnswer, ClientError,
                LookupStep, GetCached, ListUpdates, FilterUpdate, ScanUpdate, FillCache,
                LookupUnchanged, FinishRead, BucketError, StartRead, ExpireLastUpdate, StartRollback,
                StartRepublish, Crash
  <2> QED
    BY <2>1, ClientStepKeeps, HandlerStepKeeps
<1> QED
  BY <1>1, <1>2

\* Once .check is there nothing touches the folder again: every handler writes
\* only into the folder of its own update id, and never after .check.
THEOREM PublishedAreFinal == ASSUME Orderly PROVE Spec => PublishedIsImmutable
<1>1. TypeOK /\ Inv /\ [Next]_vars => [\A u \in Id : bucket[u].check => bucket'[u] = bucket[u]]_vars
  BY NextKeeps DEF Kept
<1> QED
  BY <1>1, TypeCorrect, InvariantHolds, PTL DEF Spec, PublishedIsImmutable

--------------------------------------------------------------------------------
(* The log of releases. *)

\* The refinement mapping of Promise, by name.
Log == {ReleaseOf(u) : u \in {v \in Id : bucket[v].check}}
Acked == [c \in Client |-> IF cpc[c] = "ok" THEN ReleaseOf(mine[c]) ELSE None]
Answered == [r \in Reader |-> IF pc[r] = "found" /\ latest[r] # NoUpdate
                                THEN ReleaseOf(latest[r]) ELSE None]

\* Every published folder is a release, under an id of its own.
LEMMA ReleaseType ==
  ASSUME TypeOK, Inv, NEW u \in Id, bucket[u].check
  PROVE  ReleaseOf(u) \in Promise!Release /\ ReleaseOf(u).id = u /\ ReleaseOf(u) \in Log
<1>1. bucket[u].stored \in Platform /\ bucket[u].meta \in Content \cup {None}
  BY FolderFields DEF Inv, PublishedIsComplete, Complete, TypeOK
<1> DEFINE payload == IF bucket[u].rollback THEN None ELSE bucket[u].meta
<1>2. payload \in Content \cup {None}
  BY <1>1
<1>3. ReleaseOf(u) = [id |-> u, platform |-> bucket[u].stored, payload |-> payload]
  BY DEF ReleaseOf
<1> HIDE DEF payload
<1>4. ReleaseOf(u) \in Promise!Release /\ ReleaseOf(u).id = u
  BY <1>1, <1>2, <1>3 DEF Promise!Release
<1> QED
  BY <1>4 DEF Log

\* Releases stay what they were: the log only changes by what is checked, and
\* the answers to clients and readers only when these move.
LEMMA ReleasesStay ==
  ASSUME TypeOK, Inv, Kept
  PROVE  /\ \A u \in Id : bucket[u].check => ReleaseOf(u)' = ReleaseOf(u)
         /\ NoneChecked => Log' = Log
<1>1. ASSUME NEW u \in Id, bucket[u].check PROVE bucket'[u].check /\ ReleaseOf(u)' = ReleaseOf(u)
  BY <1>1 DEF Kept, ReleaseOf
<1>2. ASSUME NoneChecked PROVE Log' = Log
  <2>1. \A u \in Id : bucket'[u].check <=> bucket[u].check
    BY <1>1, <1>2 DEF NoneChecked
  <2>2. Log \subseteq Log'
    BY <1>1 DEF Log
  <2>3. Log' \subseteq Log
    BY <1>1, <2>1 DEF Log
  <2> QED
    BY <2>2, <2>3
<1> QED
  BY <1>1, <1>2

\* A client, or a reader, that is told nothing by the step.
ClientQuiet(c) ==
  \/ cpc'[c] = cpc[c] /\ mine'[c] = mine[c]
  \/ cpc[c] # "ok" /\ cpc'[c] # "ok"

ReaderQuiet(r) ==
  \/ pc'[r] = pc[r] /\ latest'[r] = latest[r]
  \/ pc[r] # "found" /\ pc'[r] # "found"
  \/ pc[r] # "found" /\ latest'[r] = NoUpdate

LEMMA AckedStays ==
  ASSUME TypeOK, Inv, Reliable, Kept, NEW c \in Client, ClientQuiet(c)
  PROVE  Acked'[c] = Acked[c]
<1>1. cpc[c] = "ok" => mine[c] \in Id /\ bucket[mine[c]].check
  BY DEF Inv, Ownership, OwnId, Stages, ClientStage, TypeOK
<1> QED
  BY <1>1, ReleasesStay DEF Acked, ReleaseOf, ClientQuiet

LEMMA AnsweredStays ==
  ASSUME TypeOK, Inv, Kept, NEW r \in Reader, pc'[r] = pc[r], latest'[r] = latest[r]
  PROVE  Answered'[r] = Answered[r]
<1>1. r \in Proc
  BY DEF Proc
<1>2. pc[r] = "found" /\ latest[r] # NoUpdate => latest[r] \in Id /\ bucket[latest[r]].check
  BY <1>1 DEF Inv, AnswersArePublished, Published
<1> QED
  BY <1>2, ReleasesStay DEF Answered, ReleaseOf

\* One step of the log, in terms of the mapping.
LogStep ==
  \/ UNCHANGED <<Log, Acked, Answered>>
  \/ \E e \in Promise!Release : /\ \A f \in Log : f.id # e.id
                               /\ Log' = Log \cup {e} /\ UNCHANGED <<Acked, Answered>>
  \/ \E c \in Client, e \in Log : /\ Acked[c] = None /\ Acked' = [Acked EXCEPT ![c] = e]
                                 /\ UNCHANGED <<Log, Answered>>
  \/ \E r \in Reader, e \in Log : /\ Answered[r] = None /\ Answered' = [Answered EXCEPT ![r] = e]
                                 /\ UNCHANGED <<Log, Acked>>
  \/ \E rs \in SUBSET Reader :
       /\ Answered' = [r \in Reader |-> IF r \in rs THEN None ELSE Answered[r]]
       /\ UNCHANGED <<Log, Acked>>

LEMMA LogStepRefines == LogStep => [Promise!Next]_<<Log, Acked, Answered>>
BY DEF LogStep, Promise!Next, Promise!Publish, Promise!Acknowledge, Promise!Answer,
       Promise!Forget, Log, Acked, Answered

\* A step that publishes nothing, acknowledges nobody and answers no reader.
LEMMA QuietStep ==
  ASSUME TypeOK, Inv, Reliable, Kept, NoneChecked,
         \A c \in Client : ClientQuiet(c),
         \A r \in Reader : ReaderQuiet(r)
  PROVE  LogStep
<1>1. Log' = Log
  BY ReleasesStay
<1>2. Acked' = Acked
  <2>1. \A c \in Client : Acked'[c] = Acked[c]
    BY AckedStays DEF ClientQuiet
  <2> QED
    BY <2>1 DEF Acked
<1>3. Answered' = Answered
  <2>1. \A r \in Reader : Answered'[r] = Answered[r]
    BY AnsweredStays DEF Answered, ReaderQuiet
  <2> QED
    BY <2>1 DEF Answered
<1> QED
  BY <1>1, <1>2, <1>3 DEF LogStep

\* A step that only moves reader q, or nobody, between lookups.
LEMMA ReaderAnswered ==
  ASSUME TypeOK, Inv, Reliable, Kept, NoneChecked, NEW q \in Reader,
         UNCHANGED <<cpc, mine>>,
         pc[q] # "found", pc'[q] = "found",
         latest'[q] # NoUpdate => latest'[q] \in Id /\ bucket[latest'[q]].check,
         \A r \in Reader \ {q} : pc'[r] = pc[r] /\ latest'[r] = latest[r]
  PROVE  LogStep
<1>1. CASE latest'[q] = NoUpdate
  <2>1. \A c \in Client : ClientQuiet(c)
    BY DEF ClientQuiet
  <2>2. \A r \in Reader : ReaderQuiet(r)
    BY <1>1 DEF ReaderQuiet
  <2> QED
    BY <2>1, <2>2, QuietStep
<1>2. CASE latest'[q] # NoUpdate
  <2> DEFINE e == ReleaseOf(latest'[q])
  <2>1. e \in Log
    BY <1>2 DEF Log
  <2>2. Log' = Log
    BY ReleasesStay
  <2>3. Acked' = Acked
    <3>1. \A c \in Client : Acked'[c] = Acked[c]
      BY AckedStays DEF ClientQuiet
    <3> QED
      BY <3>1 DEF Acked
  <2>4. Answered[q] = None
    BY DEF Answered
  <2>5. Answered'[q] = e
    <3>1. Answered'[q] = ReleaseOf(latest[q])'
      BY <1>2 DEF Answered
    <3>2. bucket'[latest'[q]] = bucket[latest'[q]]
      BY <1>2 DEF Kept
    <3> QED
      BY <3>1, <3>2 DEF ReleaseOf
  <2>6. \A r \in Reader \ {q} : Answered'[r] = Answered[r]
    BY AnsweredStays
  <2>7. Answered' = [Answered EXCEPT ![q] = e]
    BY <2>5, <2>6 DEF Answered
  <2> HIDE DEF e
  <2> QED
    BY <2>1, <2>2, <2>3, <2>4, <2>7 DEF LogStep
<1> QED
  BY <1>1, <1>2

\* Readers that lose what they were answered with.
LEMMA ReadersForget ==
  ASSUME TypeOK, Inv, Reliable, Kept, NoneChecked, NEW rs \in SUBSET Reader,
         \A c \in Client : ClientQuiet(c),
         \A r \in rs : pc'[r] # "found",
         \A r \in Reader \ rs : pc'[r] = pc[r] /\ latest'[r] = latest[r]
  PROVE  LogStep
<1>1. Log' = Log
  BY ReleasesStay
<1>2. Acked' = Acked
  <2>1. \A c \in Client : Acked'[c] = Acked[c]
    BY AckedStays DEF ClientQuiet
  <2> QED
    BY <2>1 DEF Acked
<1>3. Answered' = [r \in Reader |-> IF r \in rs THEN None ELSE Answered[r]]
  <2>1. \A r \in Reader \ rs : Answered'[r] = Answered[r]
    BY AnsweredStays
  <2>2. \A r \in rs : Answered'[r] = None
    BY DEF Answered
  <2> QED
    BY <2>1, <2>2 DEF Answered
<1> QED
  BY <1>1, <1>2, <1>3 DEF LogStep

LEMMA WriteCheckPublishes ==
  ASSUME Orderly, Reliable, TypeOK, TypeOK', Inv, Inv', NEW h \in Handler, WriteCheck(h), Kept
  PROVE  LogStep
<1>1. upd[h] \in Id /\ ~ bucket[upd[h]].check /\ pc[h] # "idle"
  BY Owner, Unpublished DEF WriteCheck
<1>2. /\ bucket'[upd[h]].check
      /\ \A u \in Id : u # upd[h] => bucket'[u] = bucket[u]
      /\ UNCHANGED <<cpc, mine, latest>>
      /\ \A r \in Reader : pc'[r] = pc[r]
  <2>1. bucket[upd[h]] \in Folder
    BY <1>1 DEF TypeOK
  <2>2. \A r \in Reader : r # h
    BY ConstantsAssumption
  <2> QED
    BY <1>1, <2>1, <2>2 DEF WriteCheck, Goto, HandlerUnchanged, clientVars, lookupVars, TypeOK, Folder, Proc
<1> DEFINE e == ReleaseOf(upd[h])'
<1>3. e \in Promise!Release /\ e.id = upd[h]
  <2>1. upd' = upd
    BY DEF WriteCheck
  <2>2. \A u \in Id : bucket'[u].check => (ReleaseOf(u)' \in Promise!Release /\ ReleaseOf(u)'.id = u)
    <3>1. ASSUME NEW u \in Id, bucket'[u].check
          PROVE  /\ bucket'[u].stored \in Platform
                 /\ (IF bucket'[u].rollback THEN None ELSE bucket'[u].meta) \in Content \cup {None}
      BY <3>1, FolderFields DEF Inv, PublishedIsComplete, Complete, TypeOK
    <3> QED
      BY <3>1 DEF ReleaseOf, Promise!Release
  <2> QED
    BY <1>1, <1>2, <2>1, <2>2
<1>4. \A f \in Log : f.id # e.id
  BY <1>1, <1>3, ReleaseType DEF Log
<1>5. Log' = Log \cup {e}
  <2>1. \A u \in Id : u # upd[h] => (ReleaseOf(u)' = ReleaseOf(u) /\ (bucket'[u].check <=> bucket[u].check))
    BY <1>2 DEF ReleaseOf
  <2>2. upd' = upd
    BY DEF WriteCheck
  <2> QED
    BY <1>1, <1>2, <2>1, <2>2 DEF Log, ReleaseOf
<1>6. Acked' = Acked
  <2>1. \A c \in Client : Acked'[c] = Acked[c]
    BY <1>2, AckedStays DEF ClientQuiet
  <2> QED
    BY <2>1 DEF Acked
<1>7. Answered' = Answered
  <2>1. \A r \in Reader : Answered'[r] = Answered[r]
    BY <1>2, AnsweredStays
  <2> QED
    BY <2>1 DEF Answered
<1> HIDE DEF e
<1> QED
  BY <1>3, <1>4, <1>5, <1>6, <1>7 DEF LogStep

LEMMA ReceiveAnswerLogged ==
  ASSUME Reliable, TypeOK, TypeOK', Inv, Inv', Kept, NoneChecked, NEW c \in Client, ReceiveAnswer(c)
  PROVE  LogStep
<1>1. /\ cpc[c] = "waiting" /\ cpc' = [cpc EXCEPT ![c] = pc[serving[c]]]
      /\ UNCHANGED <<bucket, mine, pc, latest>>
  BY DEF ReceiveAnswer, bucketVars, lookupVars
<1>2. \A r \in Reader : ReaderQuiet(r)
  BY <1>1 DEF ReaderQuiet
<1>3. \A d \in Client \ {c} : cpc'[d] = cpc[d] /\ mine'[d] = mine[d]
  BY <1>1 DEF TypeOK
<1>4. CASE cpc'[c] # "ok"
  <2>1. \A d \in Client : ClientQuiet(d)
    BY <1>1, <1>3, <1>4 DEF ClientQuiet
  <2> QED
    BY <1>2, <2>1, QuietStep
<1>5. CASE cpc'[c] = "ok"
  <2>1. Reliable' /\ mine[c] \in Id
    BY <1>1 DEF Inv, Ownership, OwnId, TypeOK, Reliable
  <2>2. bucket[mine[c]].check
    BY <1>1, <1>5, <2>1 DEF Inv, Stages, ClientStage
  <2> DEFINE e == ReleaseOf(mine[c])
  <2>3. e \in Log
    BY <2>1, <2>2 DEF Log
  <2>4. Log' = Log
    BY ReleasesStay
  <2>5. Acked[c] = None
    BY <1>1 DEF Acked
  <2>6. Acked'[c] = e
    BY <1>1, <1>5 DEF Acked, ReleaseOf
  <2>7. \A d \in Client \ {c} : Acked'[d] = Acked[d]
    BY <1>3, AckedStays DEF ClientQuiet
  <2>8. Acked' = [Acked EXCEPT ![c] = e]
    BY <2>6, <2>7 DEF Acked
  <2>9. Answered' = Answered
    <3>1. \A r \in Reader : Answered'[r] = Answered[r]
      BY <1>1, AnsweredStays
    <3> QED
      BY <3>1 DEF Answered
  <2> HIDE DEF e
  <2> QED
    BY <2>3, <2>4, <2>5, <2>8, <2>9 DEF LogStep
<1> QED
  BY <1>4, <1>5

\* Everything else a client does, it does before it is answered.
LEMMA ClientLogged ==
  ASSUME Orderly, Reliable, TypeOK, Inv, Kept, NoneChecked, NEW c \in Client,
         \/ RequestUploadUrl(c) \/ StoreUploadMetadata(c) \/ ClientError(c)
         \/ \E f \in Upload : UploadFile(c, f)
         \/ \E h \in Handler : PostMark(c, h)
  PROVE  LogStep
<1>1. cpc[c] # "ok" /\ cpc'[c] # "ok" /\ \A d \in Client \ {c} : cpc'[d] = cpc[d] /\ mine'[d] = mine[d]
  BY DEF RequestUploadUrl, StoreUploadMetadata, ClientError, UploadFile, PostMark, MayRetry,
         TypeOK
<1>2. latest' = latest /\ \A r \in Reader : pc'[r] = pc[r]
  <2>1. \A r \in Reader : r \notin Handler
    BY ConstantsAssumption
  <2> QED
    BY <2>1 DEF RequestUploadUrl, StoreUploadMetadata, ClientError, UploadFile, PostMark,
                lookupVars, TypeOK, Proc
<1>3. \A d \in Client : ClientQuiet(d)
  BY <1>1 DEF ClientQuiet
<1>4. \A r \in Reader : ReaderQuiet(r)
  BY <1>2 DEF ReaderQuiet
<1> QED
  BY <1>3, <1>4, QuietStep

\* A reader is answered when it finds an entry in the cache, or has filled it.
LEMMA LookupLogged ==
  ASSUME Reliable, TypeOK, Inv, Kept, NoneChecked, NEW q \in Proc, LookupStep(q)
  PROVE  LogStep
<1>1. /\ UNCHANGED <<cpc, mine>> /\ q \in Proc /\ pc[q] # "found"
      /\ \A r \in Proc \ {q} : pc'[r] = pc[r] /\ latest'[r] = latest[r]
  BY DEF LookupStep, GetCached, ListUpdates, FilterUpdate, AfterListing, ScanUpdate, FillCache,
         LookupUnchanged, clientVars, TypeOK
<1>2. \A c \in Client : ClientQuiet(c)
  BY <1>1 DEF ClientQuiet
<1>3. Reader \subseteq Proc
  BY DEF Proc
<1>4. CASE q \notin Reader \/ pc'[q] # "found" \/ latest'[q] = NoUpdate
  <2>1. \A r \in Reader : ReaderQuiet(r)
    BY <1>1, <1>3, <1>4 DEF ReaderQuiet
  <2> QED
    BY <1>2, <2>1, QuietStep
<1>5. CASE q \in Reader /\ pc'[q] = "found" /\ latest'[q] # NoUpdate
  <2>1. latest'[q] \in Id /\ bucket[latest'[q]].check
    <3>1. CASE GetCached(q)
      <4>1. latest'[q] = lastUpdate[plat[q]] /\ plat[q] \in Platform
        BY <1>1, <1>5, <3>1 DEF GetCached, TypeOK, Inv, Lookups, LookupStage, Lookup
      <4> QED
        BY <1>5, <4>1 DEF Inv, AnswersArePublished, Published
    <3>2. CASE FillCache(q)
      BY <1>1, <1>5, <3>2 DEF FillCache, TypeOK, Inv, AnswersArePublished, Published
    <3>3. ~ ListUpdates(q) /\ ~ FilterUpdate(q)
      BY <1>1, <1>5 DEF ListUpdates, FilterUpdate, AfterListing, TypeOK
    <3>4. ~ ScanUpdate(q)
      BY <1>1, <1>5 DEF ScanUpdate, TypeOK
    <3> QED
      BY <3>1, <3>2, <3>3, <3>4 DEF LookupStep
  <2>2. \A r \in Reader \ {q} : pc'[r] = pc[r] /\ latest'[r] = latest[r]
    BY <1>1, <1>3
  <2> QED
    BY <1>1, <1>5, <2>1, <2>2, ReaderAnswered
<1> QED
  BY <1>4, <1>5

LEMMA FinishReadLogged ==
  ASSUME Reliable, TypeOK, Inv, Kept, NoneChecked, NEW q \in Proc, FinishRead(q)
  PROVE  LogStep
<1>1. /\ UNCHANGED <<cpc, mine>> /\ pc'[q] = "idle"
      /\ \A r \in Proc \ {q} : pc'[r] = pc[r] /\ latest'[r] = latest[r]
  BY DEF FinishRead, clientVars, TypeOK
<1>2. \A c \in Client : ClientQuiet(c)
  BY <1>1 DEF ClientQuiet
<1> DEFINE rs == Reader \cap {q}
<1>3. \A r \in Reader \ rs : pc'[r] = pc[r] /\ latest'[r] = latest[r]
  BY <1>1 DEF Proc
<1>4. \A r \in rs : pc'[r] # "found"
  BY <1>1
<1>5. rs \in SUBSET Reader
  OBVIOUS
<1> HIDE DEF rs
<1> QED
  BY <1>2, <1>3, <1>4, <1>5, ReadersForget

\* Handlers, and a bucket that fails them, answer no reader.
LEMMA HandlerLogged ==
  ASSUME Reliable, TypeOK, Inv, Kept, NoneChecked, NEW h \in Handler,
         \/ HandlerStep(h)
         \/ \E p \in Platform : StartRollback(h, p)
         \/ \E p \in Platform, u \in Id : StartRepublish(h, p, u)
  PROVE  LogStep
<1>1. \A r \in Reader : r \in Proc /\ r # h /\ r \notin {h} \X Platform
  BY ConstantsAssumption DEF Proc, Warmer
<1>2. UNCHANGED <<cpc, mine>> /\ \A r \in Reader : latest'[r] = latest[r]
  <2>1. CASE CompareWithLatest(h)
    BY <1>1, <2>1 DEF CompareWithLatest, clientVars, TypeOK
  <2>2. CASE ~ CompareWithLatest(h)
    BY <2>2
    DEF HandlerStep, VerifyUploadedUpdate, DiscardUpdate, CopyUpdate, DescribeUpdate,
        FlagRollback, RetrieveStoredMetadata, StoreUpdateUUID, WriteCheck,
        InvalidateAndPreWarm, StartRollback, StartRepublish, HandlerUnchanged, clientVars,
        lookupVars
  <2> QED
    BY <2>1, <2>2
<1>3. \A r \in Reader : pc'[r] = pc[r]
  <2>1. CASE InvalidateAndPreWarm(h)
    BY <1>1, <2>1 DEF InvalidateAndPreWarm
  <2>2. CASE ~ InvalidateAndPreWarm(h)
    <3>1. \E label : pc' = [pc EXCEPT ![h] = label]
      BY <2>2
      DEF HandlerStep, VerifyUploadedUpdate, CompareWithLatest, DiscardUpdate, CopyUpdate,
          DescribeUpdate, FlagRollback, RetrieveStoredMetadata, StoreUpdateUUID, WriteCheck,
          StartRollback, StartRepublish, Goto
    <3> QED
      BY <1>1, <3>1 DEF TypeOK
  <2> QED
    BY <2>1, <2>2
<1>4. \A c \in Client : ClientQuiet(c)
  BY <1>2 DEF ClientQuiet
<1>5. \A r \in Reader : ReaderQuiet(r)
  BY <1>2, <1>3 DEF ReaderQuiet
<1> QED
  BY <1>4, <1>5, QuietStep

LEMMA CrashLogged ==
  ASSUME Reliable, TypeOK, Inv, Kept, NoneChecked, Crash
  PROVE  LogStep
<1>1. \A c \in Client : ClientQuiet(c)
  <2>1. \A c \in Client : \/ cpc'[c] = cpc[c] /\ mine'[c] = mine[c]
                          \/ cpc[c] = "requesting" /\ cpc'[c] \in {"idle", "failed"}
    BY DEF Crash
  <2> QED
    BY <2>1 DEF ClientQuiet
<1>2. \A r \in Reader : pc'[r] # "found"
  BY ConstantsAssumption DEF Crash, Proc
<1> QED
  BY <1>1, <1>2, ReadersForget

LEMMA NextLogged ==
  ASSUME Orderly, Reliable, TypeOK, TypeOK', Inv, Inv', [Next]_vars
  PROVE  LogStep
<1>1. Kept /\ (NoneChecked \/ \E h \in Handler : WriteCheck(h))
  BY NextKeeps
<1>2. CASE \E h \in Handler : WriteCheck(h)
  BY <1>1, <1>2, WriteCheckPublishes
<1>3. CASE NoneChecked
  <2>1. CASE \E c \in Client : ReceiveAnswer(c)
    BY <1>1, <1>3, <2>1, ReceiveAnswerLogged
  <2>2. CASE \E c \in Client : \/ RequestUploadUrl(c) \/ StoreUploadMetadata(c) \/ ClientError(c)
                               \/ \E f \in Upload : UploadFile(c, f)
                               \/ \E h \in Handler : PostMark(c, h)
    BY <1>1, <1>3, <2>2, ClientLogged
  <2>3. CASE \E q \in Proc : LookupStep(q)
    BY <1>1, <1>3, <2>3, LookupLogged
  <2>4. CASE \E q \in Proc : FinishRead(q)
    BY <1>1, <1>3, <2>4, FinishReadLogged
  <2>5. CASE \E h \in Handler : \/ HandlerStep(h)
                                \/ \E p \in Platform : StartRollback(h, p)
                                \/ \E p \in Platform, u \in Id : StartRepublish(h, p, u)
    BY <1>1, <1>3, <2>5, HandlerLogged
  <2>6. CASE Crash
    BY <1>1, <1>3, <2>6, CrashLogged
  <2>7. ASSUME UNCHANGED <<cpc, mine, latest>>,
               \A r \in Reader : pc'[r] = pc[r] \/ (pc[r] # "found" /\ pc'[r] # "found")
        PROVE  LogStep
    <3>1. \A c \in Client : ClientQuiet(c)
      BY <2>7 DEF ClientQuiet
    <3>2. \A r \in Reader : ReaderQuiet(r)
      BY <2>7 DEF ReaderQuiet
    <3> QED
      BY <1>1, <1>3, <3>1, <3>2, QuietStep
  <2>8. CASE \E q \in Proc : BucketError(q)
    BY <2>8 DEF BucketError, Reliable
  <2>9. CASE \E r \in Reader, p \in Platform : StartRead(r, p)
    <3>1. \A r \in Reader : pc'[r] = pc[r] \/ (pc[r] # "found" /\ pc'[r] # "found")
      BY <2>9 DEF StartRead, TypeOK, Proc
    <3>2. UNCHANGED <<cpc, mine, latest>>
      BY <2>9 DEF StartRead, clientVars
    <3> QED
      BY <2>7, <3>1, <3>2
  <2>10. CASE UNCHANGED vars \/ \E p \in Platform : ExpireLastUpdate(p)
    BY <2>7, <2>10 DEF ExpireLastUpdate, vars, clientVars, lookupVars
  <2> QED
    BY <2>1, <2>2, <2>3, <2>4, <2>5, <2>6, <2>8, <2>9, <2>10 DEF Next
<1> QED
  BY <1>1, <1>2, <1>3

LEMMA InitLogged == Init => Promise!Init
<1> SUFFICES ASSUME Init PROVE Promise!Init
  OBVIOUS
<1>1. {ReleaseOf(u) : u \in {v \in Id : bucket[v].check}} = {}
  BY DEF Init, EmptyFolder
<1>2. \A c \in Client : cpc[c] # "ok"
  BY DEF Init
<1>3. \A r \in Reader : pc[r] # "found"
  BY DEF Init, Proc
<1> QED
  BY <1>1, <1>2, <1>3 DEF Promise!Init

\* Folders, marker files, caches, handlers and crashes amount to a log that
\* grows one whole release at a time: nothing in it is replaced, publishers are
\* acknowledged and devices are answered with releases of the log only.
THEOREM LogImplemented == ASSUME Orderly, Reliable PROVE Spec => ImplementsReleaseLog
<1>1. TypeOK /\ TypeOK' /\ Inv /\ Inv' /\ [Next]_vars => [Promise!Next]_<<Log, Acked, Answered>>
  BY NextLogged, LogStepRefines
<1>2. TypeOK /\ TypeOK' /\ Inv /\ Inv' /\ [Next]_vars
        => [Promise!Next]_<<{ReleaseOf(u) : u \in {v \in Id : bucket[v].check}},
                            [c \in Client |-> IF cpc[c] = "ok" THEN ReleaseOf(mine[c]) ELSE None],
                            [r \in Reader |-> IF pc[r] = "found" /\ latest[r] # NoUpdate
                                                THEN ReleaseOf(latest[r]) ELSE None]>>
  BY <1>1 DEF Log, Acked, Answered
<1> QED
  BY <1>2, InitLogged, TypeCorrect, InvariantHolds, PTL
  DEF Spec, ImplementsReleaseLog, Promise!Spec

================================================================================
