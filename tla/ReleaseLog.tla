------------------------------- MODULE ReleaseLog ------------------------------
(***************************************************************************)
(* What publishing promises, without folders, caches or handlers: a log of *)
(* releases that only ever grows.  A release enters the log in one step,   *)
(* whole; a publisher is acknowledged for a release of the log; a device   *)
(* is answered with a release of the log for the platform it asked for.    *)
(***************************************************************************)
CONSTANTS Id, Platform, Content, Client, Reader, None

VARIABLES
  log,     \* the releases
  acked,   \* what each client was acknowledged for
  answer   \* what each reader has been answered with

\* The payload of a rollback is None: devices go back to the embedded bundle.
Release == [id : Id, platform : Platform, payload : Content \cup {None}]

Init ==
  /\ log = {}
  /\ acked = [c \in Client |-> None]
  /\ answer = [r \in Reader |-> None]

\* Ids are never reused, so a release is never replaced.
Publish(e) ==
  /\ \A f \in log : f.id # e.id
  /\ log' = log \cup {e}
  /\ UNCHANGED <<acked, answer>>

Acknowledge(c, e) ==
  /\ acked[c] = None
  /\ acked' = [acked EXCEPT ![c] = e]
  /\ UNCHANGED <<log, answer>>

Answer(r, e) ==
  /\ answer[r] = None
  /\ answer' = [answer EXCEPT ![r] = e]
  /\ UNCHANGED <<log, acked>>

\* Readers are done with their answers, or lose them.
Forget(rs) ==
  /\ answer' = [r \in Reader |-> IF r \in rs THEN None ELSE answer[r]]
  /\ UNCHANGED <<log, acked>>

Next ==
  \/ \E e \in Release : Publish(e)
  \/ \E c \in Client, e \in log : Acknowledge(c, e)
  \/ \E r \in Reader, e \in log : Answer(r, e)
  \/ \E rs \in SUBSET Reader : Forget(rs)

Spec == Init /\ [][Next]_<<log, acked, answer>>

================================================================================
