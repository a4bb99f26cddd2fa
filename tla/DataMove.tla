-------------------------------- MODULE DataMove -------------------------------
(***************************************************************************)
(* What the migration of v1 data promises, without servers, locks, lists   *)
(* or kinds of bucket: every object that is to be moved goes from its old  *)
(* place to both places, or at once to the new one, and never back, and    *)
(* the move is recorded only when nothing is left to move.                 *)
(***************************************************************************)
VARIABLES
  movable,   \* the objects that are to be moved, never changes
  old,       \* the objects at their old place
  new,       \* the objects at their new place
  recorded   \* is the move in the ledger

Init ==
  /\ movable \subseteq old
  /\ new = {}
  /\ recorded = FALSE

\* Some objects of the same branch, or a single one.
Copy(objects) ==
  /\ new' = new \cup objects
  /\ UNCHANGED <<movable, old, recorded>>

Delete(objects) ==
  /\ old' = old \ objects
  /\ UNCHANGED <<movable, new, recorded>>

Rename(objects) ==
  /\ new' = new \cup objects
  /\ old' = old \ objects
  /\ UNCHANGED <<movable, recorded>>

Record ==
  /\ old \cap movable = {}
  /\ recorded' = TRUE
  /\ UNCHANGED <<movable, old, new>>

\* A server that puts the ledger as a whole may drop the line of another one, or one
\* that it could not read; the next boot records the move again.
Forget ==
  /\ recorded' = FALSE
  /\ UNCHANGED <<movable, old, new>>

Next ==
  \/ \E objects \in SUBSET (old \cap movable) : Copy(objects) \/ Rename(objects)
  \/ \E objects \in SUBSET (old \cap new) : Delete(objects)
  \/ Record \/ Forget

Spec == Init /\ [][Next]_<<movable, old, new, recorded>>

================================================================================
