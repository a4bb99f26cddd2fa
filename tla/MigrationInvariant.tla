--------------------------- MODULE MigrationInvariant --------------------------
(***************************************************************************)
(* The inductive invariant of Migration, in two parts: what holds whatever *)
(* the directories hold, and what also needs every branch to be read and   *)
(* every v1 update to have the file that the listing names last.           *)
(***************************************************************************)
EXTENDS Migration

\* Listings end with update-metadata.json, so a directory that still holds
\* anything still looks like v1.  A rename takes a directory as a whole.
Describes == Stores \subseteq {"local"} \/ \A files \in V1Shape : LooksLikeV1(files) => Description \in files

\* The local store reads every branch that is there.
BranchesRead == "branch" \notin Dropped

Moving == {"confirm", "rename", "list", "copy", "delete"}
Recording == {"check", "reread", "write"}
AtScope == 2

(* Whatever the directories hold. *)

\* Where server s is, and that it only handles v1 branches.
Placed(s) ==
  /\ pc[s] \in Moving => at[s] = AtScope /\ ~ Skip
  /\ pc[s] \in Moving \ {"confirm"} => ~ (Collides /\ BranchesRead)
  /\ pc[s] = "rename" => store = "local"
  /\ pc[s] \in {"list", "copy", "delete"} => store # "local"
  /\ pc[s] \in Recording => at[s] <= Len(Migrations)
  /\ \A e \in todo[s] : LooksLikeV1(v1[e])
  /\ \A o \in listed[s] : LooksLikeV1(v1[o[1]])

\* What s is about to delete is at its new place.
Copied(s) ==
  pc[s] = "delete" => \A o \in listed[s] : IsNext(s, o) => o[2] \in app[o[1]]

\* ForeignUntouched, but for a collision that was not seen.
OthersUntouched ==
  \A e \in Entry : Skip \/ (Collides /\ BranchesRead) \/ ~ LooksLikeV1(v1[e]) =>
    root[e] = v1[e] /\ app[e] = {}

Conserved ==
  /\ NothingLost /\ OthersUntouched
  /\ \A s \in Server : Placed(s) /\ Copied(s)

(* When Describes and BranchesRead. *)

Moved == \A e \in Entry : LooksLikeV1(v1[e]) => root[e] = {}

\* What is left of a v1 branch is recognised by the next run.
Recognised(e) ==
  LooksLikeV1(v1[e]) /\ root[e] # {} =>
    IF store = "local" THEN LooksLikeV1(root[e]) ELSE Description \in root[e]

\* All that is left to move is on the list of s, and nothing is left when s is done.
Covers(s) ==
  /\ pc[s] \in {"rename", "list"} =>
       \A e \in Entry : LooksLikeV1(v1[e]) /\ root[e] # {} => e \in todo[s]
  /\ pc[s] \in {"copy", "delete"} =>
       \A e \in Entry : LooksLikeV1(v1[e]) => \A f \in root[e] : <<e, f>> \in listed[s]
  /\ at[s] > AtScope \/ (at[s] = AtScope /\ pc[s] \in Recording) => Skip \/ Moved
  /\ ScopeUnderAppId \in applied[s] \cup Recorded(history[s]) => Skip \/ Moved

Completed ==
  /\ Sealed => Skip \/ Moved
  /\ \A e \in Entry : Recognised(e)
  /\ \A s \in Server : Covers(s)

Inv == Conserved /\ (Describes /\ BranchesRead => Completed)

================================================================================
