----------------------------- MODULE MigrationProofs ---------------------------
(***************************************************************************)
(* The invariant of the migrations, for any number of servers, directories *)
(* and files, any store and any cache.                                     *)
(***************************************************************************)
EXTENDS MigrationInvariant, TLAPS

--------------------------------------------------------------------------------
(* Types. *)

LEMMA TwoMigrations ==
  /\ Len(Migrations) = 2
  /\ Migrations[1] = PersistUUID /\ Migrations[2] = ScopeUnderAppId
  /\ PersistUUID # ScopeUnderAppId
  /\ \A i \in 1..2 : Migrations[i] \in Migration
<1>1. Len(Migrations) = 2
  BY DEF Migrations
<1>2. Migrations[1] = PersistUUID /\ Migrations[2] = ScopeUnderAppId
  BY DEF Migrations
<1>3. PersistUUID # ScopeUnderAppId
  BY DEF PersistUUID, ScopeUnderAppId
<1>4. ASSUME NEW i \in 1..2 PROVE Migrations[i] \in Migration
  <2>1. CASE i = 1
    BY <1>2, <2>1 DEF Migration
  <2>2. CASE i = 2
    BY <1>2, <2>2 DEF Migration
  <2> QED
    BY <2>1, <2>2
<1> QED
  BY <1>1, <1>2, <1>3, <1>4

\* Whoever records a migration knows which one.
RecordsOne == \A s \in Server : pc[s] \in Recording \cup Moving => at[s] <= Len(Migrations)

LEMMA InitTypes == Init => TypeOK /\ RecordsOne
<1> SUFFICES ASSUME Init PROVE TypeOK /\ RecordsOne
  OBVIOUS
<1>1. /\ v1 \in [Directory -> SUBSET File]
      /\ root \in [Entry -> SUBSET File] /\ app \in [Entry -> SUBSET File]
  BY MigrationAssumption DEF Init, Entry, Directory
<1>2. <<>> \in Seq(Line) /\ <<PersistUUID>> \in Seq(Line)
  BY DEF Migration, Line
<1>3. ledger \in Seq(Line) /\ history \in [Server -> Seq(Line)]
  BY <1>2 DEF Init
<1>4. at \in [Server -> 1..(Len(Migrations) + 1)]
  BY TwoMigrations DEF Init
<1> QED
  BY <1>1, <1>3, <1>4, MigrationAssumption DEF Init, TypeOK, RecordsOne, Recording, Moving

LEMMA EndsTypes ==
  ASSUME TypeOK, RecordsOne, NEW s \in Server, Ends(s), UNCHANGED bucketVars,
         crashes' \in 0..MaxCrashes, misreads' \in 0..MaxMisreads
  PROVE  TypeOK' /\ RecordsOne'
BY TwoMigrations DEF TypeOK, RecordsOne, Ends, Goto, bucketVars, Recording, Moving

LEMMA MisreadCounted ==
  ASSUME TypeOK, NEW what, Misreads(what)
  PROVE  misreads' \in 0..MaxMisreads
BY MigrationAssumption DEF TypeOK, Misreads

\* What is read of a ledger is in the ledger.
LEMMA ReadOfLedger ==
  ASSUME TypeOK, NEW lines \in {ledger} \cup Remnants
  PROVE  /\ lines \in Seq(Line) /\ Len(lines) <= Len(ledger)
         /\ Recorded(lines) \subseteq Recorded(ledger) /\ Recorded(ledger) \subseteq Line
<1>1. ledger \in Seq(Line) /\ Len(ledger) \in Nat
  BY DEF TypeOK
<1>2. Recorded(ledger) \subseteq Line
  BY <1>1 DEF Recorded
<1>3. CASE lines = ledger
  BY <1>1, <1>2, <1>3
<1>4. CASE lines = <<>>
  BY <1>1, <1>2, <1>4 DEF Recorded
<1>5. ASSUME NEW n \in 0..(Len(ledger) - 1), lines = SubSeq(ledger, 1, n)
      PROVE  /\ lines \in Seq(Line) /\ Len(lines) <= Len(ledger)
             /\ Recorded(lines) \subseteq Recorded(ledger)
  <2>1. /\ lines \in Seq(Line) /\ Len(lines) = n
        /\ \A i \in 1..n : lines[i] = ledger[i]
    BY <1>1, <1>5
  <2> QED
    BY <1>1, <2>1 DEF Recorded
<1> QED
  BY <1>2, <1>3, <1>4, <1>5 DEF Remnants

LEMMA LedgerReadCounted ==
  ASSUME TypeOK, NEW lines, LedgerRead(lines)
  PROVE  misreads' \in 0..MaxMisreads
BY MisreadCounted DEF LedgerRead, TypeOK

\* What S3 appends to.
LEMMA RereadOfLedger ==
  ASSUME TypeOK, NEW s \in Server, RereadLedger(s)
  PROVE  /\ history' \in [Server -> Seq(Line)]
         /\ misreads' \in 0..MaxMisreads
         /\ \A q \in Server \ {s} : history'[q] = history[q]
         /\ Recorded(history'[s]) \subseteq Recorded(ledger) \cup {Torn}
<1>1. CASE history' = [history EXCEPT ![s] = ledger] /\ UNCHANGED misreads
  BY <1>1 DEF TypeOK
<1>2. ASSUME NEW lines \in Remnants, NEW torn \in {<<>>, <<Torn>>},
             history' = [history EXCEPT ![s] = lines \o torn], Misreads("ledger")
      PROVE  /\ history' \in [Server -> Seq(Line)]
             /\ misreads' \in 0..MaxMisreads
             /\ \A q \in Server \ {s} : history'[q] = history[q]
             /\ Recorded(history'[s]) \subseteq Recorded(ledger) \cup {Torn}
  <2>1. lines \in Seq(Line) /\ Recorded(lines) \subseteq Recorded(ledger)
    BY ReadOfLedger
  <2>2. torn \in Seq(Line) /\ Recorded(torn) \subseteq {Torn}
    <3>1. CASE torn = <<>>
      BY <3>1 DEF Recorded
    <3>2. CASE torn = <<Torn>>
      <4>1. Torn \in Line /\ DOMAIN torn = {1} /\ torn[1] = Torn
        BY <3>2 DEF Line
      <4> QED
        BY <3>2, <4>1 DEF Recorded
    <3> QED
      BY <3>1, <3>2
  <2>3. lines \o torn \in Seq(Line)
    BY <2>1, <2>2
  <2>4. Recorded(lines \o torn) \subseteq Recorded(lines) \cup Recorded(torn)
    BY <2>1, <2>2 DEF Recorded
  <2> QED
    BY <1>2, <2>1, <2>2, <2>3, <2>4, MisreadCounted DEF TypeOK
<1> QED
  BY <1>1, <1>2 DEF RereadLedger

LEMMA RecordedAppend ==
  ASSUME NEW lines \in Seq(Line), NEW m \in Line
  PROVE  Recorded(Append(lines, m)) = Recorded(lines) \cup {m}
<1>1. Len(lines) \in Nat /\ DOMAIN lines = 1..Len(lines)
  OBVIOUS
<1>2. /\ DOMAIN Append(lines, m) = 1..(Len(lines) + 1)
      /\ \A i \in 1..Len(lines) : Append(lines, m)[i] = lines[i]
      /\ Append(lines, m)[Len(lines) + 1] = m
  BY <1>1
<1>3. \A i : i \in 1..(Len(lines) + 1) <=> i \in 1..Len(lines) \/ i = Len(lines) + 1
  BY <1>1
<1> QED
  BY <1>1, <1>2, <1>3 DEF Recorded

\* The ledger that is written has what it had or the server has read, and the migration.
LEMMA WriteOfLedger ==
  ASSUME TypeOK, NEW s \in Server, at[s] \in 1..2
  PROVE  /\ NewLedger(s) \in Seq(Line)
         /\ Recorded(NewLedger(s))
              \subseteq Recorded(ledger) \cup Recorded(history[s]) \cup {Migrations[at[s]]}
<1>1. Migrations[at[s]] \in Line
  BY TwoMigrations DEF Line
<1>2. ledger \in Seq(Line) /\ history[s] \in Seq(Line)
  BY DEF TypeOK
<1>3. CASE NewLedger(s) = Append(ledger, Migrations[at[s]])
  BY <1>1, <1>2, <1>3, RecordedAppend
<1>4. CASE NewLedger(s) = Append(history[s], Migrations[at[s]])
  BY <1>1, <1>2, <1>4, RecordedAppend
<1>5. CASE NewLedger(s) = SubSeq(history[s], 1, Len(history[s]) - 1)
  <2> DEFINE n == Len(history[s]) - 1
  <2>1. n + 1 \in Nat /\ DOMAIN history[s] = 1..(n + 1)
    BY <1>2
  <2>2. CASE n + 1 = 0
    <3>1. NewLedger(s) = <<>>
      BY <1>2, <1>5, <2>2
    <3> QED
      BY <3>1 DEF Recorded
  <2>3. CASE n \in Nat
    <3>1. /\ NewLedger(s) \in Seq(Line) /\ DOMAIN NewLedger(s) = 1..n
          /\ \A i \in 1..n : NewLedger(s)[i] = history[s][i]
      BY <1>2, <1>5, <2>3
    <3> QED
      BY <2>1, <3>1 DEF Recorded
  <2> QED
    BY <2>1, <2>2, <2>3
<1> QED
  BY <1>3, <1>4, <1>5 DEF NewLedger

LEMMA MigrateTypes ==
  ASSUME TypeOK, RecordsOne, NEW s \in Server, Migrate(s)
  PROVE  TypeOK' /\ RecordsOne'
<1> USE DEF Goto, Working, Recording, Moving, bucketVars, serverVars, bounded
<1>1. CASE TryLock(s)
  BY <1>1 DEF TryLock, TypeOK, RecordsOne, Locks
<1>2. CASE RetrieveMigrationHistory(s)
  <2>1. PICK lines \in {ledger} \cup Remnants :
          LedgerRead(lines) /\ applied' = [applied EXCEPT ![s] = Recorded(lines)]
    BY <1>2 DEF RetrieveMigrationHistory
  <2>2. Recorded(lines) \subseteq Line
    BY ReadOfLedger
  <2>3. misreads' \in 0..MaxMisreads
    BY <2>1, LedgerReadCounted
  <2> QED
    BY <1>2, <2>1, <2>2, <2>3 DEF RetrieveMigrationHistory, TypeOK, RecordsOne
<1>3. CASE NextMigration(s)
  <2>1. /\ at[s] \in 1..3
        /\ \/ at' = at /\ at[s] <= 2 /\ \E label \in Working : pc' = [pc EXCEPT ![s] = label]
           \/ at' = [at EXCEPT ![s] = @ + 1] /\ at[s] <= 2 /\ pc' = pc
           \/ at' = at /\ pc' = [pc EXCEPT ![s] = "serving"]
    BY <1>3, TwoMigrations DEF NextMigration, MovesData, TypeOK
  <2>2. at' \in [Server -> 1..(Len(Migrations) + 1)]
    <3>1. 1..(Len(Migrations) + 1) = 1..3
      BY TwoMigrations
    <3>2. at \in [Server -> 1..3]
      BY <3>1 DEF TypeOK
    <3>3. at' \in [Server -> 1..3]
      BY <2>1, <3>2
    <3> QED
      BY <3>1, <3>3
  <2>3. pc' \in [Server -> {"down", "serving"} \cup Working]
    BY <2>1 DEF TypeOK
  <2>4. pc[s] = "next"
    BY <1>3 DEF NextMigration, MovesData
  <2>5. RecordsOne'
    BY <2>1, <2>4, TwoMigrations DEF TypeOK, RecordsOne
  <2> QED
    BY <1>3, <2>2, <2>3, <2>5 DEF NextMigration, MovesData, TypeOK
<1>4. CASE CheckLedger(s)
  <2>1. /\ at[s] \in 1..2
        /\ \/ at' = at /\ \E label \in {"reread", "write"} : pc' = [pc EXCEPT ![s] = label]
           \/ at' = [at EXCEPT ![s] = @ + 1] /\ pc' = [pc EXCEPT ![s] = "next"]
    BY <1>4, TwoMigrations DEF CheckLedger, TypeOK, RecordsOne
  <2>2. at' \in [Server -> 1..(Len(Migrations) + 1)]
    <3>1. 1..(Len(Migrations) + 1) = 1..3
      BY TwoMigrations
    <3>2. at \in [Server -> 1..3]
      BY <3>1 DEF TypeOK
    <3>3. at' \in [Server -> 1..3]
      BY <2>1, <3>2
    <3> QED
      BY <3>1, <3>3
  <2>3. pc' \in [Server -> {"down", "serving"} \cup Working]
    BY <2>1 DEF TypeOK
  <2>4. history' \in [Server -> Seq(Line)] /\ misreads' \in 0..MaxMisreads
    <3>1. PICK lines \in {ledger} \cup Remnants :
            LedgerRead(lines) /\ (history' = history \/ history' = [history EXCEPT ![s] = lines])
      BY <1>4 DEF CheckLedger
    <3>2. lines \in Seq(Line)
      BY ReadOfLedger
    <3> QED
      BY <3>1, <3>2, LedgerReadCounted DEF TypeOK
  <2>5. RecordsOne'
    <3>1. \A q \in Server \ {s} : pc'[q] = pc[q] /\ at'[q] = at[q]
      BY <2>1 DEF TypeOK
    <3>2. at'[s] <= 2 \/ pc'[s] = "next"
      BY <2>1 DEF TypeOK
    <3> QED
      BY <3>1, <3>2, TwoMigrations DEF RecordsOne
  <2> QED
    BY <1>4, <2>2, <2>3, <2>4, <2>5 DEF CheckLedger, TypeOK
<1>5. CASE RereadLedger(s)
  BY <1>5, RereadOfLedger, TwoMigrations DEF RereadLedger, TypeOK, RecordsOne
<1>6. CASE WriteLedger(s)
  <2>1. at[s] \in 1..2
    BY <1>6, TwoMigrations DEF WriteLedger, TypeOK, RecordsOne
  <2>3. ledger' \in Seq(Line)
    BY <1>6, <2>1, WriteOfLedger DEF WriteLedger
  <2>4. <<>> \in Seq(Line)
    OBVIOUS
  <2> QED
    BY <1>6, <2>1, <2>3, <2>4, TwoMigrations DEF WriteLedger, TypeOK, RecordsOne
<1>7. CASE Confirm(s)
  <2>1. PICK confirmed \in SUBSET V1Branches : PlanMove(s, confirmed)
    BY <1>7 DEF Confirm
  <2>2. misreads' \in 0..MaxMisreads
    BY <1>7, MisreadCounted DEF Confirm, TypeOK
  <2>3. confirmed \subseteq Entry
    BY DEF V1Branches
  <2> QED
    BY <1>7, <2>1, <2>2, <2>3, TwoMigrations DEF Confirm, PlanMove, TypeOK, RecordsOne
<1>8. CASE RefuseCollision(s) \/ RenameFails(s) \/ CopyFails(s) \/ DeleteFails(s)
  <2>1. /\ Ends(s) /\ UNCHANGED bucketVars
        /\ crashes' \in 0..MaxCrashes /\ misreads' \in 0..MaxMisreads
    BY <1>8 DEF RefuseCollision, RenameFails, CopyFails, DeleteFails, Fatal, TypeOK, bounded
  <2> QED
    BY <2>1, EndsTypes
<1>9. CASE RenameDirectory(s)
  BY <1>9, TwoMigrations DEF RenameDirectory, TypeOK, RecordsOne
<1>10. CASE ListObjects(s)
  BY <1>10, TwoMigrations DEF ListObjects, TypeOK, RecordsOne
<1>11. CASE CopyObject(s)
  <2> PICK o \in listed[s] : app' = [app EXCEPT ![o[1]] = @ \cup {o[2]}]
    BY <1>11 DEF CopyObject
  <2>1. o[1] \in Entry /\ o[2] \in File
    BY DEF TypeOK, Object
  <2>2. app' \in [Entry -> SUBSET File]
    BY <2>1 DEF TypeOK
  <2> QED
    BY <1>11, <2>2, TwoMigrations DEF CopyObject, TypeOK, RecordsOne
<1>12. CASE DeleteObject(s)
  <2> PICK o \in listed[s] : /\ root' = [root EXCEPT ![o[1]] = @ \ {o[2]}]
                            /\ listed' = [listed EXCEPT ![s] = @ \ {o}]
                            /\ Goto(s, IF listed[s] = {o} THEN "check" ELSE "copy")
    BY <1>12 DEF DeleteObject
  <2>1. root' \in [Entry -> SUBSET File] /\ listed' \in [Server -> SUBSET Object]
    BY DEF TypeOK, Object
  <2> QED
    BY <1>12, <2>1, TwoMigrations DEF DeleteObject, TypeOK, RecordsOne
<1> QED
  BY <1>1, <1>2, <1>3, <1>4, <1>5, <1>6, <1>7, <1>8, <1>9, <1>10, <1>11, <1>12 DEF Migrate

LEMMA NextTypes ==
  ASSUME TypeOK, RecordsOne, [Next]_vars
  PROVE  TypeOK' /\ RecordsOne'
<1>1. CASE \E s \in Server : Migrate(s)
  BY <1>1, MigrateTypes
<1>2. CASE \E s \in Server : Crash(s)
  <2> PICK s \in Server : Crash(s)
    BY <1>2
  <2>1. crashes' \in 0..MaxCrashes /\ misreads' \in 0..MaxMisreads
    BY MigrationAssumption DEF Crash, TypeOK
  <2> QED
    BY <2>1, EndsTypes DEF Crash
<1>3. CASE \E s \in Server : Boot(s)
  BY <1>3 DEF Boot, Goto, TypeOK, RecordsOne, Working, Recording, Moving, bucketVars, serverVars, bounded
<1>4. CASE \E k \in Locks : ExpireLock(k)
  BY <1>4 DEF ExpireLock, TypeOK, RecordsOne, bucketVars, serverVars, bounded
<1>5. CASE \E s \in Server, e \in Entry : Publish(s, e)
  BY <1>5 DEF Publish, TypeOK, RecordsOne, serverVars, bounded
<1>6. CASE UNCHANGED vars
  BY <1>6 DEF vars, TypeOK, RecordsOne, bucketVars, serverVars, bounded
<1> QED
  BY <1>1, <1>2, <1>3, <1>4, <1>5, <1>6 DEF Next

\* The variables keep their types: a server that records or moves is at one of
\* the registered migrations.
THEOREM MigrationTypeCorrect == Spec => []TypeOK
<1>1. Spec => [](TypeOK /\ RecordsOne)
  BY InitTypes, NextTypes, PTL DEF Spec
<1> QED
  BY <1>1, PTL

--------------------------------------------------------------------------------
(* Nothing is lost. *)

SameServer(q) ==
  /\ pc'[q] = pc[q] /\ at'[q] = at[q] /\ applied'[q] = applied[q]
  /\ todo'[q] = todo[q] /\ listed'[q] = listed[q] /\ history'[q] = history[q]

\* A step of server s is its own business, and the history of v1 nobody's.
LEMMA ServerFrame ==
  ASSUME TypeOK, NEW s \in Server, Migrate(s) \/ Crash(s) \/ Boot(s)
  PROVE  v1' = v1 /\ store' = store /\ \A q \in Server \ {s} : SameServer(q)
<1> USE DEF Goto, bucketVars, serverVars, SameServer, TypeOK
<1>1. CASE Crash(s) \/ RefuseCollision(s) \/ RenameFails(s) \/ CopyFails(s) \/ DeleteFails(s)
  BY <1>1 DEF Crash, RefuseCollision, RenameFails, CopyFails, DeleteFails, Fatal, Ends
<1>2. CASE Boot(s) \/ TryLock(s) \/ RetrieveMigrationHistory(s) \/ NextMigration(s)
  BY <1>2 DEF Boot, TryLock, RetrieveMigrationHistory, NextMigration, MovesData
<1>3. CASE CheckLedger(s) \/ RereadLedger(s) \/ WriteLedger(s)
  BY <1>3 DEF CheckLedger, RereadLedger, WriteLedger
<1>4. CASE Confirm(s) \/ ListObjects(s) \/ RenameDirectory(s)
  BY <1>4 DEF Confirm, PlanMove, ListObjects, RenameDirectory
<1>5. CASE CopyObject(s) \/ DeleteObject(s)
  BY <1>5 DEF CopyObject, DeleteObject
<1> QED
  BY <1>1, <1>2, <1>3, <1>4, <1>5 DEF Migrate

\* An object on a list is one of a directory.
LEMMA ListedObject ==
  ASSUME TypeOK, NEW s \in Server, NEW o \in listed[s]
  PROVE  o \in Object /\ o[1] \in Entry /\ o[2] \in File
BY DEF TypeOK, Object

\* Only one object is next.
LEMMA NextIsUnique ==
  ASSUME TypeOK, NEW s \in Server, NEW o \in listed[s], NEW p \in listed[s],
         IsNext(s, o), IsNext(s, p)
  PROVE  o = p
<1>1. /\ o \in Object /\ o[1] \in Nat /\ o[2] \in Nat
      /\ p \in Object /\ p[1] \in Nat /\ p[2] \in Nat
  BY ListedObject DEF Object, Entry, File
<1>2. o[1] = p[1] /\ o[2] = p[2]
  BY <1>1 DEF IsNext
<1> QED
  BY <1>1, <1>2 DEF Object

LEMMA CollisionStays == ASSUME v1' = v1 PROVE Collides' <=> Collides
BY DEF Collides

LEMMA OthersConserved ==
  ASSUME TypeOK, Conserved, NEW q \in Server, SameServer(q), v1' = v1, store' = store,
         \A e \in Entry : app[e] \subseteq app'[e]
  PROVE  Placed(q)' /\ Copied(q)'
<1>1. Placed(q) /\ Copied(q)
  BY DEF Conserved
<1>2. Placed(q)'
  BY <1>1, CollisionStays DEF Placed, SameServer
<1>3. ASSUME pc'[q] = "delete", NEW o \in listed'[q], IsNext(q, o)'
      PROVE  o[2] \in app'[o[1]]
  <2>1. o \in listed[q] /\ IsNext(q, o) /\ pc[q] = "delete"
    BY <1>3 DEF IsNext, SameServer
  <2>2. o[1] \in Entry /\ o[2] \in app[o[1]]
    BY <2>1, <1>1, ListedObject DEF Copied
  <2> QED
    BY <2>2
<1> QED
  BY <1>2, <1>3 DEF Copied

\* A step that leaves the data alone.
LEMMA QuietConserved ==
  ASSUME TypeOK, Conserved, UNCHANGED <<store, v1, root, app>>,
         \A q \in Server : SameServer(q) \/ (Placed(q)' /\ pc'[q] # "delete")
  PROVE  Conserved'
<1>1. NothingLost' /\ OthersUntouched'
  BY CollisionStays DEF Conserved, NothingLost, OthersUntouched
<1>2. ASSUME NEW q \in Server PROVE Placed(q)' /\ Copied(q)'
  BY OthersConserved DEF Copied
<1> QED
  BY <1>1, <1>2 DEF Conserved

LEMMA EndsPlaced ==
  ASSUME TypeOK, NEW s \in Server, Ends(s)
  PROVE  Placed(s)' /\ pc'[s] # "delete"
BY DEF Ends, Goto, TypeOK, Placed, Moving, Recording

\* Steps of a server that are no moves.
LEMMA PlansConserved ==
  ASSUME TypeOK, TypeOK', RecordsOne', Conserved, NEW s \in Server, Migrate(s),
         ~ RenameDirectory(s), ~ CopyObject(s), ~ DeleteObject(s)
  PROVE  Conserved'
<1> USE DEF Goto, bucketVars, serverVars
<1>1. UNCHANGED <<store, v1, root, app>>
  BY DEF Migrate, TryLock, RetrieveMigrationHistory, NextMigration, MovesData, CheckLedger, RereadLedger,
         WriteLedger, Confirm, PlanMove, RefuseCollision, RenameFails, ListObjects, CopyFails,
         DeleteFails, Fatal
<1>2. Placed(s)
  BY DEF Conserved
<1>3. s \in DOMAIN pc /\ s \in DOMAIN at /\ s \in DOMAIN todo /\ s \in DOMAIN listed
  BY DEF TypeOK
<1>4. Placed(s)' /\ pc'[s] # "delete"
  <2>1. CASE RefuseCollision(s) \/ RenameFails(s) \/ CopyFails(s) \/ DeleteFails(s)
    BY <2>1, EndsPlaced DEF RefuseCollision, RenameFails, CopyFails, DeleteFails, Fatal
  <2>2. CASE TryLock(s) \/ RetrieveMigrationHistory(s)
    BY <1>2, <1>3, <2>2 DEF TryLock, RetrieveMigrationHistory, Placed, Moving, Recording
  <2>3. CASE NextMigration(s)
    <3>1. at[s] \in 1..3
      BY TwoMigrations DEF TypeOK
    <3>2. /\ todo' = todo /\ listed' = listed /\ v1' = v1 /\ store' = store
          /\ \/ pc'[s] = "serving" \/ pc'[s] = "next"
             \/ pc'[s] = "check" /\ at'[s] <= 2
             \/ pc'[s] = "confirm" /\ at'[s] = 2 /\ ~ Skip
      BY <1>3, <2>3, <3>1, TwoMigrations DEF NextMigration, MovesData
    <3> QED
      BY <1>2, <3>2, TwoMigrations DEF Placed, Moving, Recording, AtScope
  <2>4. CASE CheckLedger(s) \/ RereadLedger(s) \/ WriteLedger(s)
    <3>1. /\ todo' = todo /\ listed' = listed /\ v1' = v1 /\ store' = store
          /\ pc'[s] \in {"next", "reread", "write"}
      BY <1>3, <2>4 DEF CheckLedger, RereadLedger, WriteLedger
    <3>2. pc'[s] \in Recording => at'[s] <= Len(Migrations)
      BY DEF RecordsOne
    <3> QED
      BY <1>2, <3>1, <3>2 DEF Placed, Moving, Recording
  <2>5. CASE Confirm(s)
    <3>1. /\ ~ (Collides /\ BranchesRead) /\ listed' = listed /\ v1' = v1 /\ store' = store /\ at' = at /\ at[s] = AtScope /\ ~ Skip
          /\ todo'[s] \subseteq V1Branches
          /\ \/ pc'[s] = "check"
             \/ pc'[s] = "rename" /\ store = "local"
             \/ pc'[s] = "list" /\ store # "local"
      BY <1>2, <1>3, <2>5 DEF Confirm, PlanMove, Misreads, BranchesRead, Placed, Moving
    <3>2. \A e \in Entry : LooksLikeV1(root[e]) => LooksLikeV1(v1[e])
      BY DEF Conserved, NothingLost, LooksLikeV1
    <3> QED
      BY <1>2, <3>1, <3>2, TwoMigrations, CollisionStays DEF Placed, Moving, Recording, AtScope, V1Branches
  <2>6. CASE ListObjects(s)
    <3>1. /\ v1' = v1 /\ store' = store /\ at' = at /\ at[s] = AtScope /\ ~ Skip /\ ~ (Collides /\ BranchesRead) /\ store # "local"
          /\ todo' = todo
          /\ \A o \in listed'[s] : o[1] \in todo[s]
          /\ pc'[s] \in {"check", "copy"}
      BY <1>2, <1>3, <2>6 DEF ListObjects, Placed, Moving
    <3> QED
      BY <1>2, <3>1, TwoMigrations, CollisionStays DEF Placed, Moving, Recording, AtScope
  <2> QED
    BY <2>1, <2>2, <2>3, <2>4, <2>5, <2>6 DEF Migrate
<1>5. \A q \in Server \ {s} : SameServer(q)
  BY ServerFrame
<1> QED
  BY <1>1, <1>4, <1>5, QuietConserved

LEMMA RenameConserved ==
  ASSUME TypeOK, TypeOK', Conserved, NEW s \in Server, RenameDirectory(s)
  PROVE  Conserved'
<1>1. pc[s] = "rename" /\ Placed(s) /\ ~ Skip /\ ~ (Collides /\ BranchesRead) /\ at[s] = AtScope
  BY DEF RenameDirectory, Conserved, Placed, Moving
<1> PICK e \in todo[s] : /\ root[e] # {} /\ app[e] = {}
                        /\ root' = [root EXCEPT ![e] = {}]
                        /\ app' = [app EXCEPT ![e] = root[e]]
                        /\ todo' = [todo EXCEPT ![s] = @ \ {e}]
                        /\ Goto(s, IF todo[s] = {e} THEN "check" ELSE "rename")
  BY DEF RenameDirectory
<1>2. e \in Entry /\ LooksLikeV1(v1[e])
  BY <1>1 DEF TypeOK, Placed
<1>3. v1' = v1 /\ store' = store /\ \A q \in Server \ {s} : SameServer(q)
  BY ServerFrame DEF Migrate
<1>4. /\ root'[e] = {} /\ app'[e] = root[e]
      /\ \A d \in Entry \ {e} : root'[d] = root[d] /\ app'[d] = app[d]
  BY <1>2 DEF TypeOK
<1>5. NothingLost'
  BY <1>2, <1>3, <1>4 DEF Conserved, NothingLost
<1>6. OthersUntouched'
  BY <1>1, <1>2, <1>3, <1>4, CollisionStays DEF Conserved, OthersUntouched
<1>7. /\ at' = at /\ listed' = listed /\ todo'[s] = todo[s] \ {e}
      /\ \/ pc'[s] = "check" \/ (pc'[s] = "rename" /\ store = "local")
  BY <1>1 DEF RenameDirectory, Goto, TypeOK, Placed
<1>8. Placed(s)' /\ Copied(s)'
  BY <1>1, <1>3, <1>7, TwoMigrations, CollisionStays DEF Placed, Copied, Moving, Recording, AtScope
<1>9. \A q \in Server \ {s} : Placed(q)' /\ Copied(q)'
  BY <1>3, <1>4, OthersConserved
<1> QED
  BY <1>5, <1>6, <1>8, <1>9 DEF Conserved

LEMMA CopyConserved ==
  ASSUME TypeOK, TypeOK', Conserved, NEW s \in Server, CopyObject(s)
  PROVE  Conserved'
<1>1. /\ pc[s] = "copy" /\ Placed(s) /\ ~ Skip /\ ~ (Collides /\ BranchesRead) /\ at[s] = AtScope
      /\ store # "local"
  BY DEF CopyObject, Conserved, Placed, Moving
<1> PICK o \in listed[s] : /\ IsNext(s, o) /\ o[2] \in root[o[1]]
                          /\ app' = [app EXCEPT ![o[1]] = @ \cup {o[2]}]
  BY DEF CopyObject
<1>2. o[1] \in Entry /\ LooksLikeV1(v1[o[1]])
  BY <1>1, ListedObject DEF Placed
<1>3. v1' = v1 /\ store' = store /\ root' = root /\ \A q \in Server \ {s} : SameServer(q)
  BY ServerFrame DEF Migrate, CopyObject
<1>4. /\ app'[o[1]] = app[o[1]] \cup {o[2]}
      /\ \A d \in Entry \ {o[1]} : app'[d] = app[d]
  BY <1>2 DEF TypeOK
<1>5. NothingLost'
  BY <1>2, <1>3, <1>4 DEF Conserved, NothingLost
<1>6. OthersUntouched'
  BY <1>1, <1>2, <1>3, <1>4, CollisionStays DEF Conserved, OthersUntouched
<1>7. at' = at /\ listed' = listed /\ todo' = todo /\ pc'[s] = "delete"
  BY DEF CopyObject, Goto, TypeOK, serverVars
<1>8. Placed(s)'
  BY <1>1, <1>3, <1>7, CollisionStays DEF Placed, Moving, Recording, AtScope
<1>9. Copied(s)'
  <2>1. ASSUME NEW p \in listed[s], IsNext(s, p) PROVE p[2] \in app'[p[1]]
    BY <2>1, <1>4, NextIsUnique
  <2> QED
    BY <2>1, <1>7 DEF Copied, IsNext
<1>10. \A q \in Server \ {s} : Placed(q)' /\ Copied(q)'
  BY <1>3, <1>4, OthersConserved
<1> QED
  BY <1>5, <1>6, <1>8, <1>9, <1>10 DEF Conserved

LEMMA DeleteConserved ==
  ASSUME TypeOK, TypeOK', Conserved, NEW s \in Server, DeleteObject(s)
  PROVE  Conserved'
<1>1. /\ pc[s] = "delete" /\ Placed(s) /\ Copied(s) /\ ~ Skip /\ ~ (Collides /\ BranchesRead) /\ at[s] = AtScope
      /\ store # "local"
  BY DEF DeleteObject, Conserved, Placed, Moving
<1> PICK o \in listed[s] : /\ IsNext(s, o)
                          /\ root' = [root EXCEPT ![o[1]] = @ \ {o[2]}]
                          /\ listed' = [listed EXCEPT ![s] = @ \ {o}]
                          /\ Goto(s, IF listed[s] = {o} THEN "check" ELSE "copy")
  BY DEF DeleteObject
<1>2. o[1] \in Entry /\ LooksLikeV1(v1[o[1]]) /\ o[2] \in app[o[1]]
  BY <1>1, ListedObject DEF Placed, Copied
<1>3. v1' = v1 /\ store' = store /\ app' = app /\ \A q \in Server \ {s} : SameServer(q)
  BY ServerFrame DEF Migrate, DeleteObject
<1>4. /\ root'[o[1]] = root[o[1]] \ {o[2]}
      /\ \A d \in Entry \ {o[1]} : root'[d] = root[d]
  BY <1>2 DEF TypeOK
<1>5. NothingLost'
  BY <1>2, <1>3, <1>4 DEF Conserved, NothingLost
<1>6. OthersUntouched'
  BY <1>1, <1>2, <1>3, <1>4, CollisionStays DEF Conserved, OthersUntouched
<1>7. at' = at /\ listed'[s] = listed[s] \ {o} /\ todo' = todo /\ pc'[s] \in {"check", "copy"}
  BY DEF DeleteObject, Goto, TypeOK
<1>8. Placed(s)' /\ Copied(s)'
  BY <1>1, <1>3, <1>7, TwoMigrations, CollisionStays DEF Placed, Copied, Moving, Recording, AtScope
<1>9. \A q \in Server \ {s} : Placed(q)' /\ Copied(q)'
  BY <1>3, OthersConserved
<1> QED
  BY <1>5, <1>6, <1>8, <1>9 DEF Conserved

LEMMA NextConserved ==
  ASSUME TypeOK, TypeOK', RecordsOne', Conserved, [Next]_vars
  PROVE  Conserved'
<1>1. CASE \E s \in Server : Migrate(s)
  BY <1>1, PlansConserved, RenameConserved, CopyConserved, DeleteConserved
<1>2. ASSUME NEW s \in Server, Crash(s) PROVE Conserved'
  <2>1. UNCHANGED <<store, v1, root, app>> /\ Placed(s)' /\ pc'[s] # "delete"
    BY <1>2, EndsPlaced DEF Crash, bucketVars
  <2> QED
    BY <1>2, <2>1, ServerFrame, QuietConserved
<1>3. ASSUME NEW s \in Server, Boot(s) PROVE Conserved'
  <2>1. UNCHANGED <<store, v1, root, app>> /\ Placed(s)' /\ pc'[s] # "delete"
    BY <1>3 DEF Boot, Goto, bucketVars, serverVars, TypeOK, Conserved, Placed, Moving, Recording
  <2> QED
    BY <1>3, <2>1, ServerFrame, QuietConserved
<1>4. CASE \/ \E k \in Locks : ExpireLock(k)
           \/ \E s \in Server, e \in Entry : Publish(s, e)
           \/ UNCHANGED vars
  <2>1. UNCHANGED <<store, v1, root, app>> /\ \A q \in Server : SameServer(q)
    BY <1>4 DEF ExpireLock, Publish, vars, bucketVars, serverVars, SameServer
  <2> QED
    BY <2>1, QuietConserved
<1> QED
  BY <1>1, <1>2, <1>3, <1>4 DEF Next

LEMMA InitConserved == Init => Conserved
BY DEF Init, Conserved, NothingLost, OthersUntouched, Placed, Copied, Moving, Recording

LEMMA AlwaysConserved == Spec => [](TypeOK /\ RecordsOne /\ Conserved)
BY InitTypes, NextTypes, InitConserved, NextConserved, PTL DEF Spec

\* Every file of v1 stays at its old or its new place, for any number of servers
\* that move the same directories at once and die anywhere.
THEOREM NothingIsLost == Spec => []NothingLost
BY AlwaysConserved, PTL DEF Conserved

\* Directories that are no v1 branches are left alone, as is everything when a
\* branch collides with the application id or the move is skipped.  The local store
\* must be able to read the branches: a collision that it cannot read it does not see.
THEOREM ForeignAreUntouched == ASSUME BranchesRead PROVE Spec => []ForeignUntouched
<1>1. Conserved => ForeignUntouched
  BY DEF Conserved, OthersUntouched, ForeignUntouched
<1> QED
  BY <1>1, AlwaysConserved, PTL

--------------------------------------------------------------------------------
(* What is recorded is moved. *)

\* Nothing comes back to the root.
LEMMA MovedStays ==
  ASSUME Moved, v1' = v1, store' = store, \A e \in Entry : root'[e] \subseteq root[e]
  PROVE  Moved'
BY DEF Moved

LEMMA OthersCover ==
  ASSUME TypeOK, Completed, NEW q \in Server, SameServer(q), v1' = v1, store' = store,
         \A e \in Entry : root'[e] \subseteq root[e]
  PROVE  Covers(q)'
<1>1. Covers(q) /\ (Moved => Moved')
  BY MovedStays DEF Completed
<1>2. pc'[q] \in {"rename", "list"} =>
        \A e \in Entry : LooksLikeV1(v1[e]) /\ root'[e] # {} => e \in todo'[q]
  BY <1>1 DEF Covers, SameServer
<1>3. pc'[q] \in {"copy", "delete"} =>
        \A e \in Entry : LooksLikeV1(v1[e]) => \A f \in root'[e] : <<e, f>> \in listed'[q]
  BY <1>1 DEF Covers, SameServer
<1> QED
  BY <1>1, <1>2, <1>3 DEF Covers, SameServer

\* A step that leaves data and ledger alone.
LEMMA QuietCompleted ==
  ASSUME TypeOK, Completed, UNCHANGED <<store, v1, root>>, Sealed' => Sealed \/ Skip \/ Moved,
         \A q \in Server : SameServer(q) \/ Covers(q)'
  PROVE  Completed'
<1>1. Moved' <=> Moved
  BY DEF Moved
<1>2. Sealed' => Skip \/ Moved'
  BY <1>1 DEF Completed
<1>3. \A e \in Entry : Recognised(e)'
  BY DEF Completed, Recognised
<1>4. \A q \in Server : Covers(q)'
  BY OthersCover
<1> QED
  BY <1>2, <1>3, <1>4 DEF Completed

LEMMA EndsCovers ==
  ASSUME TypeOK, NEW s \in Server, Ends(s)
  PROVE  Covers(s)'
BY DEF Ends, Goto, TypeOK, Covers, Recording, Recorded, AtScope

\* Recording: from the ledger to appliedSet, and back.
LEMMA RecordsCovers ==
  ASSUME TypeOK, RecordsOne, Completed, NEW s \in Server,
         \/ RetrieveMigrationHistory(s) \/ NextMigration(s)
         \/ CheckLedger(s) \/ RereadLedger(s) \/ WriteLedger(s)
  PROVE  Covers(s)' /\ (Sealed' => Sealed \/ Skip \/ Moved)
<1> USE DEF Goto, bucketVars, serverVars
<1>1. Covers(s) /\ (Sealed => Skip \/ Moved)
  BY DEF Completed
<1>2. UNCHANGED <<store, v1, root>> /\ (Moved' <=> Moved)
  BY DEF RetrieveMigrationHistory, NextMigration, MovesData, CheckLedger, RereadLedger, WriteLedger, Moved
<1>3. at[s] \in 1..3
  BY TwoMigrations DEF TypeOK
<1>4. CASE RetrieveMigrationHistory(s)
  <2>1. /\ at' = at /\ history' = history /\ ledger' = ledger
        /\ pc'[s] = "next" /\ applied'[s] \subseteq Recorded(ledger)
    BY <1>4, ReadOfLedger DEF RetrieveMigrationHistory, TypeOK
  <2>2. at[s] > AtScope => Skip \/ Moved
    BY <1>1 DEF Covers
  <2> QED
    BY <1>1, <1>2, <2>1, <2>2 DEF Covers, Sealed, Recording
<1>5. CASE NextMigration(s)
  <2>1. /\ applied' = applied /\ history' = history /\ ledger' = ledger
        /\ \/ pc'[s] = "serving" /\ at'[s] = at[s] /\ at[s] = 3
           \/ /\ pc'[s] = "next" /\ at'[s] = at[s] + 1
              /\ at[s] = 2 => ScopeUnderAppId \in applied[s]
           \/ pc'[s] = "check" /\ at'[s] = at[s] /\ (at[s] = 1 \/ Skip)
           \/ pc'[s] = "confirm" /\ at'[s] = at[s] /\ at[s] = 2
    BY <1>3, <1>5, TwoMigrations DEF NextMigration, MovesData, TypeOK
  <2>2. at[s] > AtScope => Skip \/ Moved
    BY <1>1 DEF Covers
  <2>3. ScopeUnderAppId \in applied[s] => Skip \/ Moved
    BY <1>1 DEF Covers
  <2>4. at'[s] > AtScope \/ (at'[s] = AtScope /\ pc'[s] \in Recording) => Skip \/ Moved
    BY <1>3, <2>1, <2>2, <2>3 DEF AtScope, Recording
  <2>5. pc'[s] \notin {"rename", "list", "copy", "delete"}
    BY <2>1
  <2> QED
    BY <1>1, <1>2, <2>1, <2>4, <2>5 DEF Covers, Sealed
<1>6. CASE CheckLedger(s) \/ RereadLedger(s) \/ WriteLedger(s)
  <2>1. pc[s] \in Recording /\ at[s] \in 1..2
    BY <1>3, <1>6, TwoMigrations DEF CheckLedger, RereadLedger, WriteLedger, RecordsOne, Recording
  <2>2. at[s] = 2 => Skip \/ Moved
    BY <1>1, <2>1 DEF Covers, AtScope
  <2>3. /\ applied' = applied /\ at'[s] \in {at[s], at[s] + 1}
        /\ pc'[s] \in {"next", "reread", "write"}
        /\ pc'[s] = "next" \/ at'[s] = at[s]
    BY <1>6 DEF CheckLedger, RereadLedger, WriteLedger, TypeOK
  <2>4. at'[s] > AtScope \/ (at'[s] = AtScope /\ pc'[s] \in Recording) => Skip \/ Moved
    BY <2>1, <2>2, <2>3 DEF AtScope, Recording
  <2>5. ScopeUnderAppId \in Recorded(history[s]) => Skip \/ Moved
    BY <1>1 DEF Covers
  <2>6. ScopeUnderAppId \in Recorded(history'[s]) => Skip \/ Moved
    <3>1. CASE CheckLedger(s)
      <4>1. PICK lines \in {ledger} \cup Remnants : history'[s] \in {history[s], lines}
        BY <3>1 DEF CheckLedger, TypeOK
      <4> QED
        BY <1>1, <2>5, <4>1, ReadOfLedger DEF Sealed
    <3>2. CASE RereadLedger(s)
      BY <1>1, <3>2, RereadOfLedger DEF Sealed, Torn, ScopeUnderAppId
    <3>3. CASE WriteLedger(s)
      BY <3>3 DEF WriteLedger, TypeOK, Recorded
    <3> QED
      BY <1>6, <3>1, <3>2, <3>3
  <2>7. Sealed' => Sealed \/ Skip \/ Moved
    <3>1. CASE ledger' = ledger
      BY <3>1 DEF Sealed
    <3>2. CASE WriteLedger(s)
      <4>1. Recorded(ledger')
              \subseteq Recorded(ledger) \cup Recorded(history[s]) \cup {Migrations[at[s]]}
        BY <2>1, <3>2, WriteOfLedger DEF WriteLedger
      <4>2. at[s] = 1 => Migrations[at[s]] # ScopeUnderAppId
        BY TwoMigrations
      <4> QED
        BY <2>1, <2>2, <2>5, <4>1, <4>2 DEF Sealed
    <3> QED
      BY <1>6, <3>1, <3>2 DEF CheckLedger, RereadLedger
  <2> QED
    BY <1>1, <1>2, <2>3, <2>4, <2>6, <2>7 DEF Covers
<1> QED
  BY <1>4, <1>5, <1>6

\* Planning the move.
LEMMA PlansCovers ==
  ASSUME BranchesRead, TypeOK, Conserved, Completed, NEW s \in Server,
         TryLock(s) \/ Confirm(s) \/ ListObjects(s)
  PROVE  Covers(s)' /\ (Sealed' => Sealed)
<1> USE DEF Goto, bucketVars, serverVars
<1>1. Covers(s) /\ Placed(s) /\ \A e \in Entry : Recognised(e)
  BY DEF Completed, Conserved
<1>2. UNCHANGED <<store, v1, root, ledger, at, applied, history>> /\ (Moved' <=> Moved)
  BY DEF TryLock, Confirm, PlanMove, ListObjects, Moved
<1>3. Sealed' => Sealed
  BY <1>2 DEF Sealed
<1>4. CASE TryLock(s)
  <2>1. pc'[s] \in {"history", "serving"}
    BY <1>4 DEF TryLock, TypeOK
  <2> QED
    BY <1>1, <1>2, <1>3, <2>1 DEF Covers, Recording
<1>5. CASE Confirm(s)
  <2>1. /\ todo'[s] = V1Branches
        /\ pc'[s] \in {"check", "rename", "list"}
        /\ pc'[s] = "check" => todo'[s] = {}
        /\ at[s] = AtScope
    BY <1>1, <1>5 DEF Confirm, PlanMove, Misreads, BranchesRead, TypeOK, Placed, Moving
  <2>2. \A e \in Entry : LooksLikeV1(v1[e]) /\ root[e] # {} => LooksLikeV1(root[e])
    BY <1>1 DEF Recognised, LooksLikeV1, Marker
  <2>3. pc'[s] = "check" => Moved
    BY <2>1, <2>2 DEF Moved, V1Branches
  <2> QED
    BY <1>1, <1>2, <1>3, <2>1, <2>2, <2>3 DEF Covers, Recording, AtScope, V1Branches
<1>6. CASE ListObjects(s)
  <2>1. /\ pc[s] = "list" /\ at[s] = AtScope
        /\ listed'[s] = {o \in Object : o[1] \in todo[s] /\ o[2] \in root[o[1]]}
        /\ pc'[s] \in {"check", "copy"}
        /\ pc'[s] = "check" => listed'[s] = {}
    BY <1>1, <1>6 DEF ListObjects, TypeOK, Placed, Moving
  <2>2. \A e \in Entry : LooksLikeV1(v1[e]) => \A f \in root[e] : <<e, f>> \in listed'[s]
    <3>1. ASSUME NEW e \in Entry, LooksLikeV1(v1[e]), NEW f \in root[e]
          PROVE  <<e, f>> \in listed'[s]
      <4>1. e \in todo[s]
        BY <1>1, <2>1, <3>1 DEF Covers
      <4>2. <<e, f>> \in Object
        BY DEF TypeOK, Object
      <4> QED
        BY <2>1, <4>1, <4>2
    <3> QED
      BY <3>1
  <2>3. pc'[s] = "check" => Moved
    BY <2>1, <2>2 DEF Moved, TypeOK
  <2> QED
    BY <1>1, <1>2, <1>3, <2>1, <2>2, <2>3 DEF Covers, Recording, AtScope
<1> QED
  BY <1>4, <1>5, <1>6

\* A step that takes something from the root.
LEMMA MoveCompleted ==
  ASSUME TypeOK, Completed, NEW s \in Server, v1' = v1, store' = store, ledger' = ledger,
         \A e \in Entry : root'[e] \subseteq root[e],
         \A e \in Entry : Recognised(e)',
         \A q \in Server : SameServer(q) \/ Covers(q)'
  PROVE  Completed'
<1>1. Moved => Moved'
  BY MovedStays
<1>2. Sealed' => Skip \/ Moved'
  BY <1>1 DEF Completed, Sealed
<1> QED
  BY <1>2, OthersCover DEF Completed

LEMMA RenameCompleted ==
  ASSUME TypeOK, TypeOK', Conserved, Completed, NEW s \in Server, RenameDirectory(s)
  PROVE  Completed'
<1>1. /\ pc[s] = "rename" /\ Covers(s) /\ store = "local" /\ at[s] = AtScope
      /\ \A d \in Entry : Recognised(d)
  BY DEF RenameDirectory, Conserved, Placed, Moving, Completed
<1> PICK e \in todo[s] : /\ root' = [root EXCEPT ![e] = {}]
                        /\ todo' = [todo EXCEPT ![s] = @ \ {e}]
                        /\ Goto(s, IF todo[s] = {e} THEN "check" ELSE "rename")
  BY DEF RenameDirectory
<1>2. /\ v1' = v1 /\ store' = store /\ ledger' = ledger /\ at' = at /\ applied' = applied /\ history' = history
      /\ \A q \in Server \ {s} : SameServer(q)
  BY ServerFrame DEF Migrate, RenameDirectory
<1>3. e \in Entry /\ root'[e] = {} /\ \A d \in Entry \ {e} : root'[d] = root[d]
  BY DEF TypeOK
<1>4. /\ todo'[s] = todo[s] \ {e}
      /\ pc'[s] = IF todo[s] = {e} THEN "check" ELSE "rename"
  BY DEF Goto, TypeOK
<1>5. \A d \in Entry : LooksLikeV1(v1[d]) /\ root'[d] # {} => d \in todo'[s]
  BY <1>1, <1>3, <1>4 DEF Covers
<1>6. pc'[s] = "check" => Moved'
  BY <1>2, <1>4, <1>5 DEF Moved
<1>7. Moved => Moved'
  BY <1>2, <1>3, MovedStays
<1>8. Covers(s)'
  BY <1>1, <1>2, <1>4, <1>5, <1>6, <1>7 DEF Covers, AtScope, Recording
<1>9. \A d \in Entry : Recognised(d)'
  BY <1>1, <1>2, <1>3 DEF Recognised
<1> QED
  BY <1>2, <1>3, <1>8, <1>9, MoveCompleted

LEMMA DeleteCompleted ==
  ASSUME TypeOK, TypeOK', Conserved, Completed, NEW s \in Server, DeleteObject(s)
  PROVE  Completed'
<1>1. /\ pc[s] = "delete" /\ Covers(s) /\ store # "local" /\ at[s] = AtScope
      /\ \A d \in Entry : Recognised(d)
  BY DEF DeleteObject, Conserved, Placed, Moving, Completed
<1> PICK o \in listed[s] : /\ IsNext(s, o)
                          /\ root' = [root EXCEPT ![o[1]] = @ \ {o[2]}]
                          /\ listed' = [listed EXCEPT ![s] = @ \ {o}]
                          /\ Goto(s, IF listed[s] = {o} THEN "check" ELSE "copy")
  BY DEF DeleteObject
<1>2. /\ v1' = v1 /\ store' = store /\ ledger' = ledger /\ at' = at /\ applied' = applied /\ history' = history
      /\ \A q \in Server \ {s} : SameServer(q)
  BY ServerFrame DEF Migrate, DeleteObject
<1>3. o \in Object /\ o[1] \in Entry /\ o[2] \in File
  BY ListedObject
<1>4. /\ root'[o[1]] = root[o[1]] \ {o[2]}
      /\ \A d \in Entry \ {o[1]} : root'[d] = root[d]
  BY <1>3 DEF TypeOK
<1>5. /\ listed'[s] = listed[s] \ {o}
      /\ pc'[s] = IF listed[s] = {o} THEN "check" ELSE "copy"
  BY DEF Goto, TypeOK
<1>6. \A d \in Entry : root'[d] \subseteq root[d]
  BY <1>4
<1>7. ASSUME NEW d \in Entry, LooksLikeV1(v1[d]), NEW f \in root'[d]
      PROVE  <<d, f>> \in listed'[s]
  <2>1. <<d, f>> \in listed[s]
    BY <1>1, <1>6, <1>7 DEF Covers
  <2>2. <<d, f>> # o
    BY <1>4, <1>7
  <2> QED
    BY <1>5, <2>1, <2>2
<1>8. pc'[s] = "check" => Moved'
  <2>1. pc'[s] = "check" => listed'[s] = {}
    BY <1>5
  <2> QED
    BY <1>2, <1>7, <2>1 DEF Moved, TypeOK
<1>9. Moved => Moved'
  BY <1>2, <1>6, MovedStays
<1>10. Covers(s)'
  BY <1>1, <1>2, <1>5, <1>7, <1>8, <1>9 DEF Covers, AtScope, Recording
<1>11. ASSUME NEW d \in Entry PROVE Recognised(d)'
  <2>1. CASE d # o[1] \/ o[2] # Description
    BY <1>1, <1>2, <1>4, <2>1 DEF Recognised
  <2>2. CASE d = o[1] /\ o[2] = Description
    <3>1. ASSUME LooksLikeV1(v1[d]), NEW f \in root'[d] PROVE FALSE
      <4>1. <<d, f>> \in listed[s] /\ f # Description /\ f \in 1..LastFile
        BY <1>3, <1>4, <1>5, <1>7, <2>2, <3>1 DEF TypeOK, File
      <4>2. o[1] < d \/ (o[1] = d /\ o[2] <= f)
        BY <4>1 DEF IsNext
      <4>3. d \in Nat /\ LastFile \in Nat
        BY MigrationAssumption DEF Entry
      <4> QED
        BY <2>2, <4>1, <4>2, <4>3 DEF Description
    <3> QED
      BY <1>2, <3>1 DEF Recognised
  <2> QED
    BY <2>1, <2>2
<1> QED
  BY <1>2, <1>6, <1>10, <1>11, MoveCompleted

LEMMA CopyCompleted ==
  ASSUME TypeOK, Conserved, Completed, NEW s \in Server, CopyObject(s)
  PROVE  Completed'
<1>1. pc[s] = "copy" /\ Covers(s) /\ at[s] = AtScope
  BY DEF CopyObject, Conserved, Placed, Moving, Completed
<1>2. /\ UNCHANGED <<store, v1, root, ledger, serverVars>> /\ pc'[s] = "delete"
  BY DEF CopyObject, Goto, TypeOK
<1>3. Covers(s)'
  BY <1>1, <1>2 DEF Covers, serverVars, Recording, Moved
<1>4. Sealed' => Sealed
  BY <1>2 DEF Sealed
<1> QED
  BY <1>2, <1>3, <1>4, ServerFrame, QuietCompleted DEF Migrate

LEMMA NextCompleted ==
  ASSUME BranchesRead, TypeOK, TypeOK', RecordsOne, Conserved, Completed, [Next]_vars
  PROVE  Completed'
<1>1. ASSUME NEW s \in Server, Migrate(s) PROVE Completed'
  <2>1. CASE \/ RetrieveMigrationHistory(s) \/ NextMigration(s)
             \/ CheckLedger(s) \/ RereadLedger(s) \/ WriteLedger(s)
    <3>1. UNCHANGED <<store, v1, root>>
      BY <2>1 DEF RetrieveMigrationHistory, NextMigration, MovesData, CheckLedger, RereadLedger, WriteLedger,
                  bucketVars
    <3> QED
      BY <1>1, <2>1, <3>1, RecordsCovers, ServerFrame, QuietCompleted
  <2>2. CASE TryLock(s) \/ Confirm(s) \/ ListObjects(s)
    <3>1. UNCHANGED <<store, v1, root>>
      BY <2>2 DEF TryLock, Confirm, PlanMove, ListObjects, bucketVars
    <3> QED
      BY <1>1, <2>2, <3>1, PlansCovers, ServerFrame, QuietCompleted
  <2>3. CASE RefuseCollision(s) \/ RenameFails(s) \/ CopyFails(s) \/ DeleteFails(s)
    <3>1. Ends(s) /\ UNCHANGED <<store, v1, root, ledger>>
      BY <2>3 DEF RefuseCollision, RenameFails, CopyFails, DeleteFails, Fatal, bucketVars
    <3>2. Sealed' => Sealed
      BY <3>1 DEF Sealed
    <3> QED
      BY <1>1, <3>1, <3>2, EndsCovers, ServerFrame, QuietCompleted
  <2> QED
    BY <1>1, <2>1, <2>2, <2>3, RenameCompleted, CopyCompleted, DeleteCompleted DEF Migrate
<1>2. ASSUME NEW s \in Server, Crash(s) PROVE Completed'
  <2>1. UNCHANGED <<store, v1, root, ledger>> /\ Covers(s)'
    BY <1>2, EndsCovers DEF Crash, bucketVars
  <2>2. Sealed' => Sealed
    BY <2>1 DEF Sealed
  <2> QED
    BY <1>2, <2>1, <2>2, ServerFrame, QuietCompleted
<1>3. ASSUME NEW s \in Server, Boot(s) PROVE Completed'
  <2>1. UNCHANGED <<store, v1, root, ledger>> /\ Covers(s)'
    BY <1>3 DEF Boot, Goto, bucketVars, serverVars, TypeOK, Completed, Covers, Recording, Moved
  <2>2. Sealed' => Sealed
    BY <2>1 DEF Sealed
  <2> QED
    BY <1>3, <2>1, <2>2, ServerFrame, QuietCompleted
<1>4. CASE \/ \E k \in Locks : ExpireLock(k)
           \/ \E s \in Server, e \in Entry : Publish(s, e)
           \/ UNCHANGED vars
  <2>1. UNCHANGED <<store, v1, root, ledger>> /\ \A q \in Server : SameServer(q)
    BY <1>4 DEF ExpireLock, Publish, vars, bucketVars, serverVars, SameServer
  <2>2. Sealed' => Sealed
    BY <2>1 DEF Sealed
  <2> QED
    BY <2>1, <2>2, QuietCompleted
<1> QED
  BY <1>1, <1>2, <1>3, <1>4 DEF Next

LEMMA InitCompleted == ASSUME Describes PROVE Init => Completed
<1> SUFFICES ASSUME Init PROVE Completed
  OBVIOUS
<1>1. ~ Sealed
  <2>1. Recorded(<<>>) = {} /\ Recorded(<<PersistUUID>>) = {PersistUUID}
    BY DEF Recorded
  <2> QED
    BY <2>1, TwoMigrations DEF Init, Sealed
<1>2. \A e \in Entry : root[e] = v1[e] /\ v1[e] \in V1Shape
  BY MigrationAssumption DEF Init, Entry, Directory
<1>3. \A e \in Entry : Recognised(e)
  BY <1>2 DEF Recognised, Describes, Init
<1>4. ASSUME NEW s \in Server PROVE Covers(s)
  <2>1. pc[s] = "down" /\ at[s] = 1 /\ applied[s] = {} /\ history[s] = <<>>
    BY DEF Init
  <2>2. Recorded(<<>>) = {}
    BY DEF Recorded
  <2> QED
    BY <2>1, <2>2, TwoMigrations DEF Covers, AtScope, Recording
<1> QED
  BY <1>1, <1>3, <1>4 DEF Completed

\* The inductive invariant: with every branch read and every v1 update described
\* it says that what is recorded is moved; without, what NothingLost needs.
THEOREM MigrationInvariantHolds == Spec => []Inv
<1>1. CASE Describes /\ BranchesRead
  <2>1. TypeOK /\ RecordsOne /\ Conserved /\ TypeOK' /\ Completed /\ [Next]_vars => Completed'
    BY <1>1, NextCompleted
  <2>2. Spec => []Completed
    BY <1>1, <2>1, InitCompleted, AlwaysConserved, PTL DEF Spec
  <2>3. Conserved /\ Completed => Inv
    BY DEF Inv
  <2> QED
    BY <2>2, <2>3, AlwaysConserved, PTL
<1>2. CASE ~ (Describes /\ BranchesRead)
  <2>1. Conserved => Inv
    BY <1>2 DEF Inv
  <2> QED
    BY <2>1, AlwaysConserved, PTL
<1> QED
  BY <1>1, <1>2

\* With every v1 update described and every branch read, a ledger that has the move
\* leaves nothing to move, however many servers were moving, had lost their lock or
\* died, and whatever was read of the ledger.
THEOREM RecordedAreMoved == ASSUME Describes, BranchesRead PROVE Spec => []RecordedIsMoved
<1>1. Inv => RecordedIsMoved
  BY DEF Inv, Completed, Moved, RecordedIsMoved
<1> QED
  BY <1>1, MigrationInvariantHolds, PTL

\* With every v1 update described and every branch read, the move happens once: what
\* the servers that lost their lock, were overtaken or could not read the ledger
\* still do leaves the data alone.
THEOREM MovedOnce == ASSUME Describes, BranchesRead PROVE Spec => MovesOnlyOnce
<1>1. ASSUME TypeOK, Inv, Sealed, Next PROVE root' = root /\ app' = app
  <2>1. Skip \/ Moved
    BY <1>1 DEF Inv, Completed
  <2>2. ASSUME NEW s \in Server, pc[s] \in Moving, NEW e \in Entry, LooksLikeV1(v1[e])
        PROVE root[e] = {}
    BY <1>1, <2>1, <2>2 DEF Inv, Conserved, Placed, Moved
  <2>3. ASSUME NEW s \in Server, RenameDirectory(s) PROVE FALSE
    <3>1. PICK e \in todo[s] : root[e] # {}
      BY <2>3 DEF RenameDirectory
    <3>2. pc[s] \in Moving
      BY <2>3 DEF RenameDirectory, Moving
    <3>3. e \in Entry /\ LooksLikeV1(v1[e])
      BY <1>1 DEF TypeOK, Inv, Conserved, Placed
    <3> QED
      BY <2>2, <3>1, <3>2, <3>3
  <2>4. ASSUME NEW s \in Server, NEW o \in listed[s], pc[s] \in Moving
        PROVE o[1] \in Entry /\ root[o[1]] = {}
    <3>1. o[1] \in Entry
      BY <1>1 DEF TypeOK, Object
    <3>2. LooksLikeV1(v1[o[1]])
      BY <1>1 DEF Inv, Conserved, Placed
    <3> QED
      BY <2>2, <2>4, <3>1, <3>2
  <2>5. ASSUME NEW s \in Server, CopyObject(s) PROVE FALSE
    <3>1. PICK o \in listed[s] : o[2] \in root[o[1]]
      BY <2>5 DEF CopyObject
    <3>2. pc[s] \in Moving
      BY <2>5 DEF CopyObject, Moving
    <3> QED
      BY <2>4, <3>1, <3>2
  <2>6. ASSUME NEW s \in Server, DeleteObject(s) PROVE root' = root /\ app' = app
    <3>1. PICK o \in listed[s] : root' = [root EXCEPT ![o[1]] = @ \ {o[2]}]
      BY <2>6 DEF DeleteObject
    <3>2. pc[s] \in Moving /\ app' = app
      BY <2>6 DEF DeleteObject, Moving
    <3>3. o[1] \in Entry /\ root[o[1]] = {}
      BY <2>4, <3>2
    <3>4. root[o[1]] \ {o[2]} = root[o[1]]
      BY <3>3
    <3>5. root \in [Entry -> SUBSET File]
      BY <1>1 DEF TypeOK
    <3> QED
      BY <3>1, <3>2, <3>3, <3>4, <3>5
  <2>7. ASSUME NEW s \in Server, Migrate(s) PROVE root' = root /\ app' = app
    <3>1. CASE TryLock(s) \/ RetrieveMigrationHistory(s) \/ NextMigration(s)
      BY <3>1 DEF TryLock, RetrieveMigrationHistory, NextMigration, MovesData, bucketVars
    <3>2. CASE CheckLedger(s) \/ RereadLedger(s) \/ WriteLedger(s)
      BY <3>2 DEF CheckLedger, RereadLedger, WriteLedger, bucketVars
    <3>3. CASE Confirm(s) \/ ListObjects(s)
      BY <3>3 DEF Confirm, PlanMove, ListObjects, bucketVars
    <3>4. CASE RefuseCollision(s) \/ RenameFails(s) \/ CopyFails(s) \/ DeleteFails(s)
      BY <3>4 DEF RefuseCollision, RenameFails, CopyFails, DeleteFails, Fatal, bucketVars
    <3> QED
      BY <2>3, <2>5, <2>6, <2>7, <3>1, <3>2, <3>3, <3>4 DEF Migrate
  <2>8. ASSUME NEW s \in Server, Boot(s) \/ Crash(s) PROVE root' = root /\ app' = app
    BY <2>8 DEF Boot, Crash, bucketVars
  <2>9. ASSUME NEW k \in Locks, ExpireLock(k) PROVE root' = root /\ app' = app
    BY <2>9 DEF ExpireLock, bucketVars
  <2>10. ASSUME NEW s \in Server, NEW e \in Entry, Publish(s, e)
         PROVE root' = root /\ app' = app
    BY <2>10 DEF Publish
  <2> QED
    BY <1>1, <2>7, <2>8, <2>9, <2>10 DEF Next
<1>2. TypeOK /\ Inv /\ [Next]_vars => [Sealed => root' = root /\ app' = app]_<<ledger, root, app>>
  BY <1>1 DEF vars, bucketVars
<1> QED
  BY <1>2, MigrationTypeCorrect, MigrationInvariantHolds, PTL DEF Spec, MovesOnlyOnce

--------------------------------------------------------------------------------
(* The move implements its abstract specification. *)

Promised == <<Movable, Objects(root), Objects(app), Sealed>>

LEMMA InitPromised == ASSUME Init PROVE Promise!Init
<1>1. Objects(root) = Objects(v1) /\ Objects(app) = {}
  BY DEF Init, Objects, Object
<1>2. Movable \subseteq Objects(root)
  BY <1>1 DEF Movable
<1>3. Sealed = FALSE
  BY DEF Init, Sealed, Recorded, PersistUUID, ScopeUnderAppId
<1> QED
  BY <1>1, <1>2, <1>3 DEF Promise!Init

\* Steps that leave the objects alone may record the move, or drop the record.
LEMMA LedgerPromised ==
  ASSUME Inv', Describes, BranchesRead, UNCHANGED <<v1, root, app>>
  PROVE  [Promise!Next]_Promised
<1>1. UNCHANGED <<Movable, Objects(root), Objects(app)>>
  BY DEF Movable, Objects
<1>2. Sealed' => Objects(root) \cap Movable = {}
  <2>1. Sealed' => Skip \/ \A e \in Entry : LooksLikeV1(v1[e]) => root[e] = {}
    BY DEF Inv, Completed, Moved, Describes
  <2> QED
    BY <2>1 DEF Objects, Movable, Object
<1>3. Sealed \in BOOLEAN /\ Sealed' \in BOOLEAN
  BY DEF Sealed
<1>4. CASE Sealed'
  <2>1. Promise!Record
    BY <1>1, <1>2, <1>3, <1>4 DEF Promise!Record
  <2> QED
    BY <2>1 DEF Promise!Next
<1>5. CASE ~Sealed'
  <2>1. Promise!Forget
    BY <1>1, <1>3, <1>5 DEF Promise!Forget
  <2> QED
    BY <2>1 DEF Promise!Next
<1> QED
  BY <1>4, <1>5

\* An object that a server has listed is one to be moved.
LEMMA ListedIsMovable ==
  ASSUME TypeOK, Inv, NEW s \in Server, pc[s] \in Moving, NEW o \in listed[s]
  PROVE  o \in Object /\ (o \in Objects(root) => o \in Movable)
<1>1. o \in Object /\ o[1] \in Entry
  BY ListedObject
<1>2. ~Skip /\ LooksLikeV1(v1[o[1]]) /\ root[o[1]] \subseteq v1[o[1]]
  BY <1>1 DEF Inv, Conserved, Placed, NothingLost
<1> QED
  BY <1>1, <1>2 DEF Movable, Objects

LEMMA ObjectIsPair ==
  ASSUME NEW o \in Object, NEW p \in Object, o[1] = p[1], o[2] = p[2]
  PROVE  o = p
BY DEF Object

LEMMA CopyPromised ==
  ASSUME TypeOK, Inv, NEW s \in Server, CopyObject(s)
  PROVE  Promise!Next
<1>1. PICK o \in listed[s] : /\ o[2] \in root[o[1]]
                             /\ app' = [app EXCEPT ![o[1]] = @ \cup {o[2]}]
  BY DEF CopyObject
<1>2. pc[s] \in Moving /\ UNCHANGED <<v1, root, ledger>>
  BY DEF CopyObject, Moving
<1>3. o \in Object /\ o \in Objects(root) \cap Movable
  BY <1>1, <1>2, ListedIsMovable DEF Objects
<1>4. Objects(app)' = Objects(app) \cup {o}
  <2>1. ASSUME NEW p \in Object
        PROVE  p[2] \in app'[p[1]] <=> p[2] \in app[p[1]] \/ p = o
    <3>1. p[1] \in Entry /\ o[1] \in Entry /\ app \in [Entry -> SUBSET File]
      BY <1>3 DEF Object, TypeOK
    <3>2. CASE p[1] = o[1]
      BY <1>1, <1>3, <3>1, <3>2, ObjectIsPair
    <3>3. CASE p[1] # o[1]
      BY <1>1, <3>1, <3>3
    <3> QED
      BY <3>2, <3>3
  <2> QED
    BY <1>3, <2>1 DEF Objects
<1>5. UNCHANGED <<Movable, Objects(root), Sealed>>
  BY <1>2 DEF Movable, Objects, Sealed
<1>6. Promise!Copy({o})
  BY <1>4, <1>5 DEF Promise!Copy
<1> QED
  BY <1>3, <1>6 DEF Promise!Next

LEMMA DeletePromised ==
  ASSUME TypeOK, Inv, NEW s \in Server, DeleteObject(s)
  PROVE  [Promise!Next]_Promised
<1>1. PICK o \in listed[s] : /\ IsNext(s, o)
                             /\ root' = [root EXCEPT ![o[1]] = @ \ {o[2]}]
  BY DEF DeleteObject
<1>2. pc[s] = "delete" /\ UNCHANGED <<v1, app, ledger>>
  BY DEF DeleteObject
<1>3. o \in Object /\ o \in Objects(app)
  <2>1. o[2] \in app[o[1]]
    BY <1>1, <1>2 DEF Inv, Conserved, Copied
  <2> QED
    BY <2>1, ListedObject DEF Objects
<1>4. Objects(root)' = Objects(root) \ {o}
  <2>1. ASSUME NEW p \in Object
        PROVE  p[2] \in root'[p[1]] <=> p[2] \in root[p[1]] /\ p # o
    <3>1. p[1] \in Entry /\ o[1] \in Entry /\ root \in [Entry -> SUBSET File]
      BY <1>3 DEF Object, TypeOK
    <3>2. CASE p[1] = o[1]
      BY <1>1, <1>3, <3>1, <3>2, ObjectIsPair
    <3>3. CASE p[1] # o[1]
      BY <1>1, <3>1, <3>3
    <3> QED
      BY <3>2, <3>3
  <2> QED
    BY <2>1 DEF Objects
<1>5. UNCHANGED <<Movable, Objects(app), Sealed>>
  BY <1>2 DEF Movable, Objects, Sealed
<1>6. CASE o \in Objects(root)
  <2>1. Promise!Delete({o})
    BY <1>4, <1>5 DEF Promise!Delete
  <2> QED
    BY <1>3, <1>6, <2>1 DEF Promise!Next
<1>7. CASE o \notin Objects(root)
  BY <1>4, <1>5, <1>7 DEF Promised
<1> QED
  BY <1>6, <1>7

LEMMA RenamePromised ==
  ASSUME TypeOK, Inv, NEW s \in Server, RenameDirectory(s)
  PROVE  Promise!Next
<1>1. PICK e \in todo[s] : /\ app[e] = {}
                           /\ root' = [root EXCEPT ![e] = {}]
                           /\ app' = [app EXCEPT ![e] = root[e]]
  BY DEF RenameDirectory
<1>2. pc[s] \in Moving /\ UNCHANGED <<v1, ledger>>
  BY DEF RenameDirectory, Moving
<1>3. e \in Entry /\ ~Skip /\ LooksLikeV1(v1[e]) /\ root[e] \subseteq v1[e]
  BY <1>2 DEF TypeOK, Inv, Conserved, Placed, NothingLost
<1> DEFINE branch == {o \in Objects(root) : o[1] = e}
<1>4. branch \subseteq Objects(root) \cap Movable
  BY <1>3 DEF Objects, Movable
<1>5. /\ Objects(app)' = Objects(app) \cup branch
      /\ Objects(root)' = Objects(root) \ branch
  BY <1>1, <1>3 DEF TypeOK, Objects, Object
<1>6. UNCHANGED <<Movable, Sealed>>
  BY <1>2 DEF Movable, Objects, Sealed
<1> HIDE DEF branch
<1>7. Promise!Rename(branch)
  BY <1>5, <1>6 DEF Promise!Rename
<1> QED
  BY <1>4, <1>7 DEF Promise!Next

LEMMA NextPromised ==
  ASSUME TypeOK, Inv, Inv', Describes, BranchesRead, [Next]_vars
  PROVE  [Promise!Next]_Promised
<1>1. CASE \E s \in Server : CopyObject(s)
  BY <1>1, CopyPromised
<1>2. CASE \E s \in Server : DeleteObject(s)
  BY <1>2, DeletePromised
<1>3. CASE \E s \in Server : RenameDirectory(s)
  BY <1>3, RenamePromised
<1>4. ASSUME ~\E s \in Server : CopyObject(s) \/ DeleteObject(s) \/ RenameDirectory(s)
      PROVE  UNCHANGED <<v1, root, app>>
  <2>1. CASE UNCHANGED vars
    BY <2>1 DEF vars, bucketVars
  <2>2. ASSUME NEW s \in Server,
               \/ Boot(s) \/ Crash(s) \/ TryLock(s) \/ RetrieveMigrationHistory(s)
               \/ NextMigration(s) \/ CheckLedger(s) \/ RereadLedger(s) \/ WriteLedger(s)
               \/ Confirm(s) \/ RefuseCollision(s) \/ RenameFails(s) \/ ListObjects(s)
               \/ CopyFails(s) \/ DeleteFails(s)
        PROVE  UNCHANGED <<v1, root, app>>
    BY <2>2
       DEF Boot, Crash, TryLock, RetrieveMigrationHistory, NextMigration, MovesData,
           CheckLedger, RereadLedger, WriteLedger, Confirm, PlanMove, RefuseCollision, RenameFails,
           ListObjects, CopyFails, DeleteFails, Fatal, bucketVars
  <2>3. ASSUME NEW k \in Locks, ExpireLock(k) PROVE UNCHANGED <<v1, root, app>>
    BY <2>3 DEF ExpireLock, bucketVars
  <2>4. ASSUME NEW s \in Server, NEW e \in Entry, Publish(s, e)
        PROVE  UNCHANGED <<v1, root, app>>
    BY <2>4 DEF Publish
  <2> QED
    BY <1>4, <2>1, <2>2, <2>3, <2>4 DEF Next, Migrate
<1>5. CASE UNCHANGED <<v1, root, app>>
  BY <1>5, LedgerPromised
<1> QED
  BY <1>1, <1>2, <1>3, <1>4, <1>5

\* Servers that move the same data at once, lose the lock to its TTL or die amount to
\* objects that go from their old place to the new one and never back, and to a record
\* of the move that is only made when none is left ("interruptions leave the bucket in a
\* consistent (maybe duplicated) state").  Every v1 update is described, and every
\* branch can be read.
THEOREM MoveImplemented == ASSUME Describes, BranchesRead PROVE Spec => ImplementsDataMove
<1>1. TypeOK /\ Inv /\ Inv' /\ [Next]_vars
        => [Promise!Next]_<<Movable, Objects(root), Objects(app), Sealed>>
  BY NextPromised DEF Promised
<1>2. Init => Promise!Init
  BY InitPromised
<1> QED
  BY <1>1, <1>2, MigrationTypeCorrect, MigrationInvariantHolds, PTL
  DEF Spec, ImplementsDataMove, Promise!Spec

================================================================================
