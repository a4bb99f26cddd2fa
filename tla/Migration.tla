-------------------------------- MODULE Migration ------------------------------
(***************************************************************************)
(* Migrations at boot: the lock, the ledger and the move of v1 data below  *)
(* the application id.                                                     *)
(*                                                                         *)
(* Every server process runs RunMigrationsWithLock before it listens.  The *)
(* lock is a cache key: processes share it through Redis, or each has its  *)
(* own when the cache is in process.  The ledger (.migrationhistory) and   *)
(* the data are in the bucket.  One step is one call to cache or bucket.   *)
(* An error that is reported is log.Fatalf: to the bucket it looks like a  *)
(* crash, and is covered by Crash.  The code drops some errors of reads:   *)
(* those of the directories that look like v1 branches, and of the ledger. *)
(*                                                                         *)
(* A definition X_Y, right above X, is X with a bug in it: the properties  *)
(* at the end of the module tell it from X.  Nothing else uses it.         *)
(***************************************************************************)
EXTENDS Integers, Sequences

CONSTANTS
  Server,       \* processes that are started and restarted
  Stores,       \* the kinds of bucket: "local", "s3", "gcs"
  SharedCache,  \* Redis, as against a cache of its own for each process
  LastEntry,    \* number of directories at the root of the bucket, without {appId}
  LastFile,     \* number of files that a directory can hold
  V1Shape,      \* what a directory may hold when v2 is first started
  Skip,         \* the operator has opted out of the move, or serves several apps
  Dropped,      \* the reads that fail without an error: "branch", "ledger"
  MaxCrashes,   \* bound on crashes
  MaxMisreads   \* bound on reads that fail without an error

VARIABLES
  store,      \* the kind of bucket, never changes
  v1,         \* what the directories held at first, never changes
  root,       \* files at {branch}/..., by directory
  app,        \* files at {appId}/{branch}/..., by directory
  published,  \* directories below {appId} that a v2 publish has created
  ledger,     \* the lines of .migrationhistory
  locked,     \* the locks that are held
  crashes,
  misreads,
  pc,         \* server: where it is
  at,         \* server: index of the migration it looks at
  applied,    \* server: appliedSet
  todo,       \* server: directories confirmed as v1 branches
  listed,     \* server: objects it has listed and not moved yet
  history     \* server: the ledger as ApplyMigration has read it

bucketVars == <<store, v1, root, app, published, ledger>>
serverVars == <<at, applied, todo, listed, history>>
bounded == <<crashes, misreads>>
vars == <<bucketVars, locked, bounded, pc, serverVars>>

\* A v1 branch with one update stands for a directory, and directory 0 is the one
\* that is named like the application id.  Directories and files are numbered in the
\* order of a listing: ".check" comes before every other file of an update,
\* "update-metadata.json" after.
Directory == 0..LastEntry
Entry == 1..LastEntry
File == 1..LastFile
Check == 1
Description == LastFile
Marker == {Check, Description}
Object == Entry \X File

\* All(): the registered migrations, oldest first.
PersistUUID == "20250417_persist_uuid"
ScopeUnderAppId == "20260422_v2_scope_data_under_appid"
Migrations == <<PersistUUID, ScopeUnderAppId>>
Migration == {PersistUUID, ScopeUnderAppId}

Lock(s) == IF SharedCache THEN "redis" ELSE s
Locks == {Lock(s) : s \in Server}

\* looksLikeV1Branch, v1BranchTripleFromMarker.
LooksLikeV1(files) == files \cap Marker # {}

\* What lies where the data is to go has the shape of a v1 branch.
Collides == LooksLikeV1(v1[0])

ASSUME MigrationAssumption ==
  /\ Stores \subseteq {"local", "s3", "gcs"}
  /\ SharedCache \in BOOLEAN /\ Skip \in BOOLEAN
  /\ Dropped \subseteq {"branch", "ledger"}
  /\ LastEntry \in Nat /\ MaxCrashes \in Nat /\ MaxMisreads \in Nat
  /\ LastFile \in Nat /\ LastFile > 1
  /\ V1Shape \subseteq SUBSET File

Working == {"lock", "history", "next", "confirm", "list", "rename", "copy", "delete",
            "check", "reread", "write"}

Recorded(lines) == {lines[i] : i \in DOMAIN lines}

\* What is left of a line whose reading broke off.
Torn == "torn"
Line == Migration \cup {Torn}

--------------------------------------------------------------------------------
Init ==
  /\ store \in Stores
  /\ v1 \in [Directory -> V1Shape]
  /\ root = [e \in Entry |-> v1[e]]
  /\ app = [e \in Entry |-> {}]
  /\ published = {}
  /\ ledger \in {<<>>, <<PersistUUID>>}
  /\ locked = {}
  /\ crashes = 0
  /\ misreads = 0
  /\ pc = [s \in Server |-> "down"]
  /\ at = [s \in Server |-> 1]
  /\ applied = [s \in Server |-> {}]
  /\ todo = [s \in Server |-> {}]
  /\ listed = [s \in Server |-> {}]
  /\ history = [s \in Server |-> <<>>]

Goto(s, label) == pc' = [pc EXCEPT ![s] = label]

\* A process that ends: whatever it knew is gone, a lock in its own cache too.
Ends(s) ==
  /\ Goto(s, "down")
  /\ at' = [at EXCEPT ![s] = 1]
  /\ applied' = [applied EXCEPT ![s] = {}]
  /\ todo' = [todo EXCEPT ![s] = {}]
  /\ listed' = [listed EXCEPT ![s] = {}]
  /\ history' = [history EXCEPT ![s] = <<>>]
  /\ locked' = IF SharedCache THEN locked ELSE locked \ {Lock(s)}

Boot(s) ==
  /\ pc[s] = "down"
  /\ Goto(s, "lock")
  /\ UNCHANGED <<bucketVars, locked, bounded, serverVars>>

\* log.Fatalf.
Fatal(s) == Ends(s) /\ UNCHANGED <<bucketVars, bounded>>

Crash(s) ==
  /\ pc[s] # "down"
  /\ crashes < MaxCrashes
  /\ crashes' = crashes + 1
  /\ Ends(s)
  /\ UNCHANGED <<bucketVars, misreads>>

--------------------------------------------------------------------------------
(* RunMigrationsWithLock. *)

\* TryLock("migration-lock", 120).  Who does not get it skips the migrations.
TryLock(s) ==
  /\ pc[s] = "lock"
  /\ \/ /\ Lock(s) \notin locked
        /\ locked' = locked \cup {Lock(s)}
        /\ Goto(s, "history")
     \/ /\ Lock(s) \in locked
        /\ Goto(s, "serving")
        /\ UNCHANGED locked
  /\ UNCHANGED <<bucketVars, bounded, serverVars>>

\* Nobody unlocks.  The TTL of 120 seconds runs out, whether the migrations have
\* ended by then or not.
ExpireLock(k) ==
  /\ k \in locked
  /\ locked' = locked \ {k}
  /\ UNCHANGED <<bucketVars, bounded, pc, serverVars>>

--------------------------------------------------------------------------------
(* RunMigrations. *)

\* A read that fails without the code taking notice.
Misreads(what) ==
  /\ what \in Dropped
  /\ misreads < MaxMisreads
  /\ misreads' = misreads + 1

\* What comes of a ledger that cannot be read.  Local: nothing, as if there was no
\* file; S3: the lines before the error; GCS reports every error.
Remnants ==
  IF store = "local" THEN {<<>>}
  ELSE IF store = "s3" THEN {SubSeq(ledger, 1, n) : n \in 0..(Len(ledger) - 1)} ELSE {}

\* RetrieveMigrationHistory of the bucket answers with these lines.
LedgerRead(lines) ==
  \/ lines = ledger /\ UNCHANGED misreads
  \/ lines \in Remnants /\ Misreads("ledger")

RetrieveMigrationHistory(s) ==
  /\ pc[s] = "history"
  /\ \E lines \in {ledger} \cup Remnants :
       LedgerRead(lines) /\ applied' = [applied EXCEPT ![s] = Recorded(lines)]
  /\ Goto(s, "next")
  /\ UNCHANGED <<bucketVars, locked, crashes, at, todo, listed, history>>

\* Up of the older migration does nothing any more, that of the newer one moves data
\* unless the operator has opted out.
MovesData(m) == m = ScopeUnderAppId /\ ~ Skip

\* The head of the loop: the next migration that is not applied, to be run and then
\* recorded.
NextMigration_SkipsUp(s) ==
  /\ pc[s] = "next"
  /\ \/ /\ at[s] > Len(Migrations)
        /\ Goto(s, "serving")
     \/ /\ at[s] <= Len(Migrations)
        /\ Goto(s, "check")
  /\ UNCHANGED <<bucketVars, locked, bounded, serverVars>>
NextMigration(s) ==
  /\ pc[s] = "next"
  /\ \/ /\ at[s] > Len(Migrations)
        /\ Goto(s, "serving")
        /\ UNCHANGED at
     \/ /\ at[s] <= Len(Migrations)
        /\ Migrations[at[s]] \in applied[s]
        /\ at' = [at EXCEPT ![s] = @ + 1]
        /\ UNCHANGED pc
     \/ /\ at[s] <= Len(Migrations)
        /\ Migrations[at[s]] \notin applied[s]
        /\ Goto(s, IF MovesData(Migrations[at[s]]) THEN "confirm" ELSE "check")
        /\ UNCHANGED at
  /\ UNCHANGED <<bucketVars, locked, bounded, applied, todo, listed, history>>

\* ApplyMigration looks the migration up in the ledger, as another server may
\* have recorded it meanwhile.
CheckLedger_SkipsTwo(s) ==
  /\ pc[s] = "check"
  /\ \E lines \in {ledger} \cup Remnants :
       /\ LedgerRead(lines)
       /\ \/ /\ Migrations[at[s]] \in Recorded(lines)
             /\ Goto(s, "next")
             /\ at' = [at EXCEPT ![s] = @ + 2]
             /\ UNCHANGED history
          \/ /\ Migrations[at[s]] \notin Recorded(lines)
             /\ history' = [history EXCEPT ![s] = lines]
             /\ Goto(s, IF store = "s3" THEN "reread" ELSE "write")
             /\ UNCHANGED at
  /\ UNCHANGED <<bucketVars, locked, crashes, applied, todo, listed>>
CheckLedger(s) ==
  /\ pc[s] = "check"
  /\ \E lines \in {ledger} \cup Remnants :
       /\ LedgerRead(lines)
       /\ \/ /\ Migrations[at[s]] \in Recorded(lines)
             /\ Goto(s, "next")
             /\ at' = [at EXCEPT ![s] = @ + 1]
             /\ UNCHANGED history
          \/ /\ Migrations[at[s]] \notin Recorded(lines)
             /\ history' = [history EXCEPT ![s] = lines]
             /\ Goto(s, IF store = "s3" THEN "reread" ELSE "write")
             /\ UNCHANGED at
  /\ UNCHANGED <<bucketVars, locked, crashes, applied, todo, listed>>

\* S3 fetches the file a second time, to append to what it holds then.  A read that
\* fails leaves nothing of it, some lines, or some lines and part of the next.
RereadLedger(s) ==
  /\ pc[s] = "reread"
  /\ \/ /\ history' = [history EXCEPT ![s] = ledger]
        /\ UNCHANGED misreads
     \/ /\ \E lines \in Remnants, torn \in {<<>>, <<Torn>>} :
             history' = [history EXCEPT ![s] = lines \o torn]
        /\ Misreads("ledger")
  /\ Goto(s, "write")
  /\ UNCHANGED <<bucketVars, locked, crashes, at, applied, todo, listed>>

\* A local file is opened with O_APPEND; an object is put as a whole, and what
\* others have recorded since it was read is lost.  A torn line and the name put
\* after it make a line that no reader knows, and that is left out here.
NewLedger(s) ==
  IF store = "local" THEN Append(ledger, Migrations[at[s]])
  ELSE IF Torn \in Recorded(history[s]) THEN SubSeq(history[s], 1, Len(history[s]) - 1)
  ELSE Append(history[s], Migrations[at[s]])

WriteLedger(s) ==
  /\ pc[s] = "write"
  /\ ledger' = NewLedger(s)
  /\ Goto(s, "next")
  /\ at' = [at EXCEPT ![s] = @ + 1]
  /\ history' = [history EXCEPT ![s] = <<>>]
  /\ UNCHANGED <<store, v1, root, app, published, locked, bounded, applied, todo, listed>>

--------------------------------------------------------------------------------
(* MoveRootEntriesUnder. *)

V1Branches == {e \in Entry : LooksLikeV1(root[e])}

PlanMove(s, confirmed) ==
  /\ todo' = [todo EXCEPT ![s] = confirmed]
  /\ Goto(s, IF confirmed = {} THEN "check" ELSE IF store = "local" THEN "rename" ELSE "list")
  /\ UNCHANGED <<bucketVars, locked, crashes, at, applied, listed, history>>

\* The check for a collision, then the directories that look like v1 branches.  In the
\* local store what cannot be read does not look like one.
Confirm_AnyDirectory(s) ==
  /\ pc[s] = "confirm"
  /\ ~ Collides /\ PlanMove(s, {e \in Entry : root[e] # {}}) /\ UNCHANGED misreads
Confirm_NoCollisionCheck(s) ==
  /\ pc[s] = "confirm"
  /\ PlanMove(s, V1Branches) /\ UNCHANGED misreads
Confirm(s) ==
  /\ pc[s] = "confirm"
  /\ \/ ~ Collides /\ PlanMove(s, V1Branches) /\ UNCHANGED misreads
     \/ /\ store = "local" /\ Misreads("branch")
        /\ \E confirmed \in SUBSET V1Branches : PlanMove(s, confirmed)

RefuseCollision(s) == pc[s] = "confirm" /\ Collides /\ Fatal(s)

\* Local: the directories one after the other, each by a rename that fails when
\* there is no such directory any more or a directory of that name below the
\* application id.
RenameDirectory_ReturnsEarly(s) ==
  /\ pc[s] = "rename"
  /\ \E e \in todo[s] :
       /\ \A d \in todo[s] : e <= d
       /\ root[e] # {} /\ app[e] = {} /\ e \notin published
       /\ root' = [root EXCEPT ![e] = {}]
       /\ app' = [app EXCEPT ![e] = root[e]]
       /\ todo' = [todo EXCEPT ![s] = @ \ {e}]
       /\ Goto(s, "check")
  /\ UNCHANGED <<store, v1, published, ledger, locked, bounded, at, applied, listed, history>>
RenameDirectory(s) ==
  /\ pc[s] = "rename"
  /\ \E e \in todo[s] :
       /\ \A d \in todo[s] : e <= d
       /\ root[e] # {} /\ app[e] = {} /\ e \notin published
       /\ root' = [root EXCEPT ![e] = {}]
       /\ app' = [app EXCEPT ![e] = root[e]]
       /\ todo' = [todo EXCEPT ![s] = @ \ {e}]
       /\ Goto(s, IF todo[s] = {e} THEN "check" ELSE "rename")
  /\ UNCHANGED <<store, v1, published, ledger, locked, bounded, at, applied, listed, history>>

RenameFails(s) ==
  /\ pc[s] = "rename"
  /\ \E e \in todo[s] :
       /\ \A d \in todo[s] : e <= d
       /\ root[e] = {} \/ app[e] # {} \/ e \in published
  /\ Fatal(s)

\* S3, GCS: the second listing, of everything in the confirmed directories.
ListObjects_MarkersOnly(s) ==
  /\ pc[s] = "list"
  /\ LET found == {o \in Object : o[1] \in todo[s] /\ o[2] \in root[o[1]] \cap Marker} IN
       /\ listed' = [listed EXCEPT ![s] = found]
       /\ Goto(s, IF found = {} THEN "check" ELSE "copy")
  /\ UNCHANGED <<bucketVars, locked, bounded, at, applied, todo, history>>
ListObjects(s) ==
  /\ pc[s] = "list"
  /\ LET found == {o \in Object : o[1] \in todo[s] /\ o[2] \in root[o[1]]} IN
       /\ listed' = [listed EXCEPT ![s] = found]
       /\ Goto(s, IF found = {} THEN "check" ELSE "copy")
  /\ UNCHANGED <<bucketVars, locked, bounded, at, applied, todo, history>>

\* o is the next object of server s, in the order of the listing.
IsNext(s, o) == \A p \in listed[s] : o[1] < p[1] \/ (o[1] = p[1] /\ o[2] <= p[2])

CopyObject_OneKey(s) ==
  /\ pc[s] = "copy"
  /\ \E o \in listed[s] :
       /\ IsNext(s, o)
       /\ o[2] \in root[o[1]]
       /\ app' = [app EXCEPT ![o[1]] = {o[2]}]
  /\ Goto(s, "delete")
  /\ UNCHANGED <<store, v1, root, published, ledger, locked, bounded, serverVars>>
CopyObject(s) ==
  /\ pc[s] = "copy"
  /\ \E o \in listed[s] :
       /\ IsNext(s, o)
       /\ o[2] \in root[o[1]]
       /\ app' = [app EXCEPT ![o[1]] = @ \cup {o[2]}]
  /\ Goto(s, "delete")
  /\ UNCHANGED <<store, v1, root, published, ledger, locked, bounded, serverVars>>

\* Another server has moved the object.
CopyFails(s) ==
  /\ pc[s] = "copy"
  /\ \E o \in listed[s] : IsNext(s, o) /\ o[2] \notin root[o[1]]
  /\ Fatal(s)

\* GCS reports an object that is not there, S3 does not.
DeleteObject_ReturnsEarly(s) ==
  /\ pc[s] = "delete"
  /\ \E o \in listed[s] :
       /\ IsNext(s, o)
       /\ o[2] \in root[o[1]] \/ store = "s3"
       /\ root' = [root EXCEPT ![o[1]] = @ \ {o[2]}]
       /\ listed' = [listed EXCEPT ![s] = @ \ {o}]
       /\ Goto(s, "check")
  /\ UNCHANGED <<store, v1, app, published, ledger, locked, bounded, at, applied, todo, history>>
DeleteObject(s) ==
  /\ pc[s] = "delete"
  /\ \E o \in listed[s] :
       /\ IsNext(s, o)
       /\ o[2] \in root[o[1]] \/ store = "s3"
       /\ root' = [root EXCEPT ![o[1]] = @ \ {o[2]}]
       /\ listed' = [listed EXCEPT ![s] = @ \ {o}]
       /\ Goto(s, IF listed[s] = {o} THEN "check" ELSE "copy")
  /\ UNCHANGED <<store, v1, app, published, ledger, locked, bounded, at, applied, todo, history>>

DeleteFails(s) ==
  /\ pc[s] = "delete"
  /\ store = "gcs"
  /\ \E o \in listed[s] : IsNext(s, o) /\ o[2] \notin root[o[1]]
  /\ Fatal(s)

--------------------------------------------------------------------------------
\* A server that listens takes the first v2 publish to the branch of directory e.
Publish(s, e) ==
  /\ pc[s] = "serving"
  /\ e \notin published
  /\ published' = published \cup {e}
  /\ UNCHANGED <<store, v1, root, app, ledger, locked, bounded, pc, serverVars>>

Migrate(s) ==
  \/ TryLock(s) \/ RetrieveMigrationHistory(s) \/ NextMigration(s)
  \/ CheckLedger(s) \/ RereadLedger(s) \/ WriteLedger(s)
  \/ Confirm(s) \/ RefuseCollision(s)
  \/ RenameDirectory(s) \/ RenameFails(s)
  \/ ListObjects(s) \/ CopyObject(s) \/ CopyFails(s) \/ DeleteObject(s) \/ DeleteFails(s)

Next ==
  \/ \E s \in Server : Boot(s) \/ Migrate(s) \/ Crash(s)
  \/ \E k \in Locks : ExpireLock(k)
  \/ \E s \in Server, e \in Entry : Publish(s, e)

Spec == Init /\ [][Next]_vars

\* Processes run and are restarted, and the lock expires; nobody has to publish.
Fairness ==
  /\ \A s \in Server : WF_vars(Boot(s)) /\ WF_vars(Migrate(s))
  /\ \A k \in Locks : WF_vars(ExpireLock(k))

FairSpec == Spec /\ Fairness

--------------------------------------------------------------------------------
(* Properties. *)

TypeOK ==
  /\ store \in Stores
  /\ v1 \in [Directory -> SUBSET File]
  /\ root \in [Entry -> SUBSET File]
  /\ app \in [Entry -> SUBSET File]
  /\ published \subseteq Entry
  /\ ledger \in Seq(Line)
  /\ locked \subseteq Locks
  /\ crashes \in 0..MaxCrashes
  /\ misreads \in 0..MaxMisreads
  /\ pc \in [Server -> {"down", "serving"} \cup Working]
  /\ at \in [Server -> 1..(Len(Migrations) + 1)]
  /\ applied \in [Server -> SUBSET Line]
  /\ todo \in [Server -> SUBSET Entry]
  /\ listed \in [Server -> SUBSET Object]
  /\ history \in [Server -> Seq(Line)]

\* However many servers move the same directories at once, and wherever they die,
\* every file of v1 is at its old or at its new place ("interruptions leave the
\* bucket in a consistent (maybe duplicated) state").
NothingLost == \A e \in Entry : root[e] \cup app[e] = v1[e]

\* Only v1 branches are moved, and none when the name of one collides with the
\* application id or the operator has opted out.  The collision is only seen where
\* the branches can be read.
ForeignUntouched ==
  \A e \in Entry : Skip \/ Collides \/ ~ LooksLikeV1(v1[e]) =>
    root[e] = v1[e] /\ app[e] = {}

Sealed == ScopeUnderAppId \in Recorded(ledger)

\* Once the move is in the ledger no server will do it again, so nothing may be
\* left to move, whatever other servers are in the middle of.  Every update is
\* described, as those of a publish are, and every branch can be read: one that cannot
\* be is left behind for good.
RecordedIsMoved ==
  Sealed /\ ~ Skip =>
    \A e \in Entry : LooksLikeV1(v1[e]) => root[e] = {}

\* "re-running the migration only processes what's still at the root": what a server is
\* to rename it can, if it is still there.  It cannot, at this boot and every later one,
\* when a server that skipped the migration has taken a publish to the same branch.
RestCanBeMoved ==
  \A s \in Server : pc[s] = "rename" =>
    \A e \in todo[s] : root[e] # {} => app[e] = {} /\ e \notin published

\* "runs exactly once": with the move in the ledger no server, not even one that
\* had lost the lock to its TTL, changes the data of v1 any more.
MovesOnlyOnce ==
  [][Sealed => root' = root /\ app' = app]_<<ledger, root, app>>

\* A move that was interrupted is completed at a later boot, unless what it found
\* there makes every boot fail.
EventuallyMigrated ==
  <>[](Collides \/ \A e \in Entry : LooksLikeV1(v1[e]) => root[e] = {})

\* The promise of the move: servers, locks, listings and renames amount to objects that
\* go forward one step at a time, and a record of it once all of them have.
Objects(place) == {o \in Object : o[2] \in place[o[1]]}
Movable == IF Skip THEN {} ELSE {o \in Objects(v1) : LooksLikeV1(v1[o[1]])}

Promise == INSTANCE DataMove WITH
  movable  <- Movable,
  old      <- Objects(root),
  new      <- Objects(app),
  recorded <- Sealed

ImplementsDataMove == Promise!Spec

================================================================================
