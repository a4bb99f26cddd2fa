------------------------ MODULE DashboardPagesInvariant ------------------------
(***************************************************************************)
(* The inductive invariant behind what the Channels page shows and behind  *)
(* its toasts.  The first part says why the table has the change under     *)
(* "Branch updated": a fetch that the server may have answered before the  *)
(* change is cancelled by the refetch after it, which keeps to the app if  *)
(* the page was left under it, or else, if another app is selected by      *)
(* then, was already cancelled when the app was.                           *)
(***************************************************************************)
EXTENDS DashboardPages, FiniteSets

ChannelsOf(app) == cache[<<Channels, app>>]

\* An app is selected while a change is under way; and unless its page was left, the
\* channels of its app are not fetched from that app when another one is selected.
LeftIsCancelled(m) ==
  change[m].at \in {"sent", "served", "answered"} =>
    /\ selected # None
    /\ left[m] = None =>
         /\ page = "channels"
         /\ selected # change[m].app =>
              LET fetch == ChannelsOf(change[m].app).fetch
              IN fetch = None \/ fetch.of # change[m].app

\* The table is there when one of its rows is changed.
ChangedWasShown(c) ==
  c.at \in {"sent", "served", "answered"} => ChannelsOf(c.app).data # None

\* The server answers with the change once it has dropped the cached listings.
ListingsHaveIt(c) ==
  /\ c.at \in {"served", "answered", "refetching", "reported"} =>
       c.version <= mapping[c.app]
  /\ c.at \in {"answered", "refetching", "reported"} /\ c.app \notin raced =>
       c.version <= oldest[c.app]

\* An entry of the app of change c, whose version it has.
FetchIsNew(entry, c) ==
  entry.fetch # None /\ entry.fetch.of = c.app /\ entry.fetch.version # None =>
    entry.fetch.version >= c.version

TableIsNew(entry, c) ==
  entry.fetch = None /\ ~entry.failed /\ entry.data # None /\ entry.data.of = c.app =>
    entry.data.version >= c.version

RefetchedIsNew(c, under) ==
  c.at \in {"refetching", "reported"} /\ c.app \notin raced /\ under \in {None, c.app} =>
    /\ FetchIsNew(ChannelsOf(c.app), c)
    /\ page = "channels" /\ selected = c.app => TableIsNew(ChannelsOf(c.app), c)

ChangeFollows(m) ==
  /\ ChangedWasShown(change[m]) /\ ListingsHaveIt(change[m])
  /\ LeftIsCancelled(m) /\ RefetchedIsNew(change[m], left[m])

OnOnePage ==
  IF page # "updates"
  THEN place = <<>> /\ sheet = None
  ELSE \A m \in Change : change[m].at = "idle"

TableFollows ==
  /\ \A app \in App : oldest[app] <= mapping[app]
  /\ \A m \in Change : ChangeFollows(m)

ChannelsInv == OnOnePage /\ (page # "updates" => TableFollows)

\* Every change shows at most one toast.
Unreported ==
  {m \in Change : change[m].at \in {"sent", "served", "answered", "refetching"}}

Id(n) == n % IdModulus

ToastsInv ==
  /\ IsFiniteSet(Unreported)
  /\ DOMAIN used = DOMAIN NotUsed /\ used.changes \in 0..MaxChanges
  /\ \E n \in 0..MaxChanges :
       /\ n + Cardinality(Unreported) <= used.changes
       /\ count = Id(n)
       /\ timers \subseteq {Id(i) : i \in 1..n}
       /\ toast # None => toast.id \in {Id(i) : i \in 1..n}
  /\ toast # None /\ toast.open => toast.id \notin timers

Inv == ChannelsInv /\ ToastsInv

================================================================================
