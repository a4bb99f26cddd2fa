----------------------------- MODULE DashboardPages -----------------------------
(***************************************************************************)
(* What a tab of the dashboard shows: the app it has selected, the tables  *)
(* of that app, which react-query fetches and keeps; on the Channels page  *)
(* the change of a channel's branch and the toasts that tell how it went;  *)
(* on the Updates page the way down from branches to runtime versions to   *)
(* updates, and the sheet with the details of one.  The server is here     *)
(* with the listings it keeps in its own cache.  A behaviour stays on one  *)
(* of the two pages, but that the Channels page may be left for another    *)
(* one, and opened again.                                                  *)
(*                                                                         *)
(* A listing is the app it is of, what was asked of it and a version, the  *)
(* number of changes that the app's channels had seen when it was made.    *)
(* React renders before the next task of the event loop, so a step         *)
(* includes the render it causes.                                          *)
(*                                                                         *)
(* A definition X_Y, above X, is X with a bug in it: the properties at the *)
(* end of the module tell it from X.  Nothing else uses it.                *)
(***************************************************************************)
EXTENDS Naturals, Sequences

CONSTANTS
  App,
  Tree,         \* the updates of each app, as <<branch, runtime version, update>>
  Uuid,         \* the UUID listed for an update, the same one for all rollbacks
  AppList,      \* the lists of apps, without repetition, the server may be run with
  Change,       \* rows in which the branch of a channel is changed
  None,
  IdModulus,    \* Number.MAX_SAFE_INTEGER
  MaxSelections, MaxRedeploys, MaxChanges, MaxClicks,  \* bounds on what is done, and on
  MaxIncidents                                         \* errors, focus, pages that are left

VARIABLES
  served,       \* server: the list of apps
  mapping,      \* server: version of an app's channels
  oldest,       \* server: the oldest listing of an app it may answer with
  apps,         \* the list the tab knows
  selected,     \* the selected app
  apiApp,       \* the app the ApiClient puts in its URLs
  stored,       \* localStorage: the app selected last, in any tab
  page,         \* "channels" or "updates", or "elsewhere"
  place,        \* the branch and the runtime version in the URL of the Updates page
  sheet,        \* the update whose details it shows
  cache,        \* react-query: listing, error and fetch of every key
  change,       \* the state of each change
  left,         \* the app under which the page of a change under way was left
  toast,        \* the toast there is
  count,        \* of toasts, for their ids
  timers,       \* ids of toasts that will be removed
  raced,        \* apps of which the server has cached a listing made before a change
  used          \* how often the bounded actions have been taken

serverVars == <<served, mapping, oldest, raced>>
selectionVars == <<apps, selected, apiApp, stored>>
changeVars == <<change, left>>
toastVars == <<toast, count, timers>>
pageVars == <<page, place, sheet>>
vars == <<serverVars, selectionVars, pageVars, cache, changeVars, toastVars, used>>

Path == UNION {Tree[app] : app \in App}
Place == {<<>>} \cup {SubSeq(t, 1, 1) : t \in Path} \cup {SubSeq(t, 1, 2) : t \in Path}

\* The queries: the table of a place, the channels, and the details of an update.
Listing(p) == <<<<"branches", "versions", "updates">>[Len(p) + 1]>> \o p
Channels == <<"channels">>

Details_Shared(u) == <<"details", "current">>

Details(u) == <<"details", Uuid[u]>>

Key ==
  ({Listing(p) : p \in Place} \cup {Channels} \cup {Details(t[3]) : t \in Path}) \X App

AppsOf(list) == {list[i] : i \in DOMAIN list}

ASSUME PagesAssumption ==
  /\ \A list \in AppList : list \in Seq(App) /\ list # <<>>
  /\ \A app \in App : \A t \in Tree[app] : t = <<t[1], t[2], t[3]>> /\ t[3] \in DOMAIN Uuid
  /\ IdModulus \in Nat \ {0}
  /\ {MaxSelections, MaxRedeploys, MaxChanges, MaxClicks, MaxIncidents} \subseteq Nat

\* A tab shows fewer toasts than there are ids: 2^53 - 1.
ASSUME FewToasts == MaxChanges <= IdModulus

\* What a query may ask for, and what react-query keeps of it.
About == Place \cup {Append(p, t[3]) : p \in Place, t \in Path}
Data == [of : App, about : About, version : Nat]
Fetching ==
  [of : App, about : About, version : Nat \cup {None}, awaited : SUBSET Change]
Entry ==
  [data : Data \cup {None}, failed : BOOLEAN, fetch : Fetching \cup {None}]

ChangeState ==
  [at : {"idle", "failed"}] \cup [at : {"sent"}, app : App]
    \cup [at : {"served", "answered", "refetching", "reported"}, app : App, version : Nat]

Toast ==
  [id : 0..(IdModulus - 1), open : BOOLEAN, about : Change,
   text : {"Branch updated", "Error updating branch"}]

ASSUME NoneAssumption ==
  /\ None \notin App /\ None \notin Nat
  /\ None \notin Data /\ None \notin Fetching /\ None \notin Toast

Empty == [data |-> None, failed |-> FALSE, fetch |-> None]
NotUsed ==
  [selections |-> 0, redeploys |-> 0, changes |-> 0, clicks |-> 0, incidents |-> 0]

Init ==
  /\ served \in AppList
  /\ mapping = [a \in App |-> 0]
  /\ oldest = [a \in App |-> 0]
  /\ apps = <<>>
  /\ selected = None
  /\ apiApp = None
  /\ stored \in App \cup {None}
  /\ page \in {"channels", "updates"}
  /\ place = <<>>
  /\ sheet = None
  /\ cache = [k \in Key |-> Empty]
  /\ change = [m \in Change |-> [at |-> "idle"]]
  /\ left = [m \in Change |-> None]
  /\ toast = None
  /\ count = 0
  /\ timers = {}
  /\ raced = {}
  /\ used = NotUsed

--------------------------------------------------------------------------------
(* react-query *)

\* A fetch calls the query's function, which takes the app from the ApiClient.
\* With one under way it joins that, unless told to cancel and there is data; who
\* awaits a fetch that is cancelled goes on.
Fetch(entry, app, about, cancel) ==
  IF entry.fetch # None /\ (entry.data = None \/ ~cancel)
  THEN entry
  ELSE [entry EXCEPT !.fetch = [of |-> app, about |-> about, version |-> None,
                                awaited |-> {}]]

Awaited(entry, m) == [entry EXCEPT !.fetch.awaited = @ \cup {m}]

\* What the function of a query asks for.
Asked(query) == IF query[1] = "details" THEN Append(place, sheet) ELSE Tail(query)

\* The keys the page observes, for queries that are enabled when there is an app.
Table == IF page = "channels" THEN Channels ELSE Listing(place)
Mounted(app) ==
  IF app = None \/ page = "elsewhere"
  THEN {}
  ELSE ({Table} \cup (IF sheet = None THEN {} ELSE {Details(sheet)})) \X {app}

Refetched(entries, keys, app, cancel) ==
  [k \in Key |-> IF k \in keys THEN Fetch(entries[k], app, Asked(k[1]), cancel)
                              ELSE entries[k]]

\* The rows of the table that is shown.
Rows ==
  IF selected = None \/ cache[<<Table, selected>>].data = None
  THEN {}
  ELSE {t[Len(place) + 1] :
          t \in {t \in Tree[cache[<<Table, selected>>].data.of] :
                   SubSeq(t, 1, Len(place)) = place}}

--------------------------------------------------------------------------------
(* The selected app *)

\* setSelectedAppId: invalidating makes the queries on the page fetch at once, under
\* the keys of the app selected so far and from the ApiClient of the new one; then
\* the page renders, and fetches under the keys of the new app.
SetSelectedAppId(app) ==
  /\ selected' = app
  /\ apiApp' = app
  /\ stored' = app
  /\ cache' = Refetched(Refetched(cache, Mounted(selected), app, TRUE),
                        Mounted(app), app, FALSE)

ResolveSelection_Stored(list) ==
  IF list = <<>>
  THEN /\ selected' = None
       /\ apiApp' = None
       /\ UNCHANGED <<stored, cache>>
  ELSE LET initial == IF stored # None THEN stored ELSE list[1]
       IN IF initial # selected
          THEN SetSelectedAppId(initial)
          ELSE UNCHANGED <<selected, apiApp, stored, cache>>

\* The effect that follows every other list: the app of last time if it is offered,
\* else the first.
ResolveSelection(list) ==
  IF list = <<>>
  THEN /\ selected' = None
       /\ apiApp' = None
       /\ UNCHANGED <<stored, cache>>
  ELSE LET initial == IF stored \in AppsOf(list) THEN stored ELSE list[1]
       IN IF initial # selected
          THEN SetSelectedAppId(initial)
          ELSE UNCHANGED <<selected, apiApp, stored, cache>>

\* The settings arrive, at first or on a later fetch; an equal list is the same one.
LoadSettings ==
  /\ apps # served
  /\ apps' = served
  /\ ResolveSelection(served)
  /\ UNCHANGED <<serverVars, pageVars, changeVars, toastVars, used>>

\* The combobox answers with nothing when its value is chosen again.
Toggled(value, chosen) == IF chosen = value THEN None ELSE chosen

\* Nothing is ignored, so that an app stays selected.  The sidebar is out of reach
\* under an open sheet.
SelectApp(app) ==
  /\ sheet = None
  /\ app \in AppsOf(apps)
  /\ Toggled(selected, app) # None
  /\ used.selections < MaxSelections
  /\ used' = [used EXCEPT !.selections = @ + 1]
  /\ SetSelectedAppId(app)
  /\ UNCHANGED <<serverVars, apps, pageVars, changeVars, toastVars>>

\* Another tab selects an app.
SelectElsewhere(app) ==
  /\ app \in AppsOf(served) \ {stored}
  /\ used.selections < MaxSelections
  /\ used' = [used EXCEPT !.selections = @ + 1]
  /\ stored' = app
  /\ UNCHANGED <<serverVars, apps, selected, apiApp, pageVars, cache, changeVars,
                 toastVars>>

\* The window gets the focus.
Focus ==
  /\ used.incidents < MaxIncidents
  /\ used' = [used EXCEPT !.incidents = @ + 1]
  /\ cache' = Refetched(cache, Mounted(selected), apiApp, FALSE)
  /\ UNCHANGED <<serverVars, selectionVars, pageVars, changeVars, toastVars>>

\* The changes whose refetch is still to come keep the query of the app selected now.
LeaveChannels ==
  /\ used.incidents < MaxIncidents
  /\ used' = [used EXCEPT !.incidents = @ + 1]
  /\ page = "channels"
  /\ page' = "elsewhere"
  /\ left' = [m \in Change |->
                IF change[m].at \in {"sent", "served", "answered"} /\ left[m] = None
                THEN selected
                ELSE left[m]]
  /\ UNCHANGED <<serverVars, selectionVars, place, sheet, cache, change, toastVars>>

OpenChannels ==
  /\ page = "elsewhere"
  /\ page' = "channels"
  /\ cache' = IF selected = None
              THEN cache
              ELSE [cache EXCEPT ![<<Channels, selected>>] = Fetch(@, apiApp, <<>>, FALSE)]
  /\ UNCHANGED <<serverVars, selectionVars, place, sheet, changeVars, toastVars, used>>

--------------------------------------------------------------------------------
(* The server *)

Redeploy(list) ==
  /\ used.redeploys < MaxRedeploys
  /\ list # served
  /\ used' = [used EXCEPT !.redeploys = @ + 1]
  /\ served' = list
  /\ UNCHANGED <<mapping, oldest, raced, selectionVars, pageVars, cache, changeVars,
                 toastVars>>

\* AppResolverMiddleware knows the apps of the list, and the details are there only
\* for an update of the app.
Answers(fetch) ==
  /\ fetch.of \in AppsOf(served)
  /\ Len(fetch.about) = 3 => fetch.about \in Tree[fetch.of]

\* GetChannelsHandler and its like: a listing from the cache, or a new one.
Serve(k) ==
  LET fetch == cache[k].fetch
  IN /\ fetch # None
     /\ fetch.version = None
     /\ Answers(fetch)
     /\ \E version \in oldest[fetch.of]..mapping[fetch.of] :
          cache' = [cache EXCEPT ![k].fetch.version = version]
     /\ UNCHANGED <<serverVars, selectionVars, pageVars, changeVars, toastVars, used>>

\* UpdateChannelBranchMappingHandler: first the mapping ...
ServeChange(m) ==
  /\ change[m].at = "sent"
  /\ change[m].app \in AppsOf(served)
  /\ mapping' = [mapping EXCEPT ![change[m].app] = @ + 1]
  /\ change' = [change EXCEPT ![m] = [at |-> "served", app |-> change[m].app,
                                      version |-> mapping[change[m].app] + 1]]
  /\ UNCHANGED <<served, oldest, raced, selectionVars, pageVars, cache, left, toastVars,
                 used>>

\* ... then the cached listings that show it go; but a request that was making its
\* listing before the change may cache that after.
DropListings(m) ==
  LET app == change[m].app
  IN /\ change[m].at = "served"
     /\ change' = [change EXCEPT ![m].at = "answered"]
     /\ \/ oldest' = [oldest EXCEPT ![app] = mapping[app]] /\ UNCHANGED raced
        \/ raced' = raced \cup {app} /\ UNCHANGED oldest
     /\ UNCHANGED <<served, mapping, selectionVars, pageVars, cache, left, toastVars,
                    used>>

--------------------------------------------------------------------------------
(* Answers *)

Receive(k) ==
  /\ cache[k].fetch # None
  /\ cache[k].fetch.version # None
  /\ cache' = [cache EXCEPT ![k] =
       [data |-> [of |-> cache[k].fetch.of, about |-> cache[k].fetch.about,
                  version |-> cache[k].fetch.version],
        failed |-> FALSE, fetch |-> None]]
  /\ UNCHANGED <<serverVars, selectionVars, pageVars, changeVars, toastVars, used>>

\* After its retries; the data that was there stays.
ReceiveError(k) ==
  /\ cache[k].fetch # None
  /\ IF cache[k].fetch.version = None /\ ~Answers(cache[k].fetch)
     THEN UNCHANGED used
     ELSE used.incidents < MaxIncidents /\ used' = [used EXCEPT !.incidents = @ + 1]
  /\ cache' = [cache EXCEPT ![k].fetch = None, ![k].failed = TRUE]
  /\ UNCHANGED <<serverVars, selectionVars, pageVars, changeVars, toastVars>>

--------------------------------------------------------------------------------
(* Toasts *)

GenId_Same == 1

GenId_Unbounded == count + 1

GenId == (count + 1) % IdModulus

\* ADD_TOAST cuts the list to one toast.
AddToast(text, m) ==
  /\ count' = GenId
  /\ toast' = [id |-> GenId, open |-> TRUE, text |-> text, about |-> m]
  /\ UNCHANGED timers

\* DISMISS_TOAST: its time is over, or the user closes it.
DismissToast ==
  /\ toast # None
  /\ toast.open
  /\ toast' = [toast EXCEPT !.open = FALSE]
  /\ timers' = timers \cup {toast.id}
  /\ UNCHANGED <<serverVars, selectionVars, pageVars, cache, changeVars, count, used>>

RemoveToast(id) ==
  /\ timers' = timers \ {id}
  /\ toast' = IF toast # None /\ toast.id = id THEN None ELSE toast
  /\ UNCHANGED <<serverVars, selectionVars, pageVars, cache, changeVars, count, used>>

--------------------------------------------------------------------------------
(* The change of a channel's branch *)

\* The rows are those of the table that is shown.
ChangeBranch(m) ==
  /\ change[m].at \in {"idle", "reported", "failed"}
  /\ used.changes < MaxChanges
  /\ used' = [used EXCEPT !.changes = @ + 1]
  /\ page = "channels"
  /\ selected # None
  /\ cache[<<Channels, selected>>].data # None
  /\ change' = [change EXCEPT ![m] = [at |-> "sent", app |-> apiApp]]
  /\ left' = [left EXCEPT ![m] = None]
  /\ UNCHANGED <<serverVars, selectionVars, pageVars, cache, toastVars>>

\* The query that the refetch of a change is of: that of the table as it is shown by
\* then, or was when its page was left.
ChannelsOfChange(m) == <<Channels, IF left[m] # None THEN left[m] ELSE selected>>

RefetchChannels_Joins(m) ==
  cache' = IF selected = None
           THEN cache
           ELSE [cache EXCEPT ![ChannelsOfChange(m)] =
                  Awaited(Fetch(@, apiApp, <<>>, FALSE), m)]

\* From the app the ApiClient has by then; without one it throws at once.
RefetchChannels(m) ==
  cache' = IF selected = None
           THEN cache
           ELSE [cache EXCEPT ![ChannelsOfChange(m)] =
                  Awaited(Fetch(@, apiApp, <<>>, TRUE), m)]

ReceiveChange(m) ==
  /\ change[m].at = "answered"
  /\ change' = [change EXCEPT ![m].at = "refetching"]
  /\ RefetchChannels(m)
  /\ UNCHANGED <<serverVars, selectionVars, pageVars, left, toastVars, used>>

\* An answer with an error, or none, whatever the server has done.
ChangeFails(m) ==
  /\ change[m].at \in {"sent", "served", "answered"}
  /\ change' = [change EXCEPT ![m] = [at |-> "failed"]]
  /\ AddToast("Error updating branch", m)
  /\ UNCHANGED <<serverVars, selectionVars, pageVars, cache, left, used>>

\* Once the table is fetched, or that fetch has failed or was cancelled.
ReportChange(m) ==
  /\ change[m].at = "refetching"
  /\ \A k \in Key : cache[k].fetch # None => m \notin cache[k].fetch.awaited
  /\ change' = [change EXCEPT ![m].at = "reported"]
  /\ AddToast("Branch updated", m)
  /\ UNCHANGED <<serverVars, selectionVars, pageVars, cache, left, used>>

--------------------------------------------------------------------------------
(* The Updates page *)

\* A click on a branch or a runtime version: the tables below it fetch.
OpenRow(row) ==
  /\ used.clicks < MaxClicks
  /\ used' = [used EXCEPT !.clicks = @ + 1]
  /\ page = "updates"
  /\ Len(place) < 2
  /\ row \in Rows
  /\ place' = Append(place, row)
  /\ cache' = [cache EXCEPT ![<<Listing(place'), selected>>] =
                 Fetch(@, apiApp, place', FALSE)]
  /\ UNCHANGED <<serverVars, selectionVars, page, sheet, changeVars, toastVars>>

\* The browser's way back, which closes the sheet.
GoBack ==
  /\ used.clicks < MaxClicks
  /\ used' = [used EXCEPT !.clicks = @ + 1]
  /\ place # <<>>
  /\ place' = SubSeq(place, 1, Len(place) - 1)
  /\ sheet' = None
  /\ cache' = IF selected = None
              THEN cache
              ELSE [cache EXCEPT ![<<Listing(place'), selected>>] =
                      Fetch(@, apiApp, place', FALSE)]
  /\ UNCHANGED <<serverVars, selectionVars, page, changeVars, toastVars>>

\* The links of the breadcrumb load the dashboard anew.
FollowBreadcrumb(length) ==
  /\ used.clicks < MaxClicks
  /\ used' = [used EXCEPT !.clicks = @ + 1]
  /\ length < Len(place)
  /\ sheet = None
  /\ place' = SubSeq(place, 1, length)
  /\ apps' = <<>>
  /\ selected' = None
  /\ apiApp' = None
  /\ cache' = [k \in Key |-> Empty]
  /\ UNCHANGED <<serverVars, stored, page, sheet, changeVars, toastVars>>

OpenSheet(update) ==
  /\ used.clicks < MaxClicks
  /\ used' = [used EXCEPT !.clicks = @ + 1]
  /\ page = "updates"
  /\ Len(place) = 2
  /\ sheet = None
  /\ update \in Rows
  /\ sheet' = update
  /\ cache' = [cache EXCEPT ![<<Details(update), selected>>] =
                 Fetch(@, apiApp, Append(place, update), FALSE)]
  /\ UNCHANGED <<serverVars, selectionVars, page, place, changeVars, toastVars>>

\* The sheet shows the details it has, unless the last fetch of them has failed.
SheetShows ==
  LET entry == cache[<<Details(sheet), selected>>]
  IN IF entry.failed THEN None ELSE entry.data

CloseSheet ==
  /\ sheet # None
  /\ sheet' = None
  /\ UNCHANGED <<serverVars, selectionVars, page, place, cache, changeVars, toastVars, used>>

--------------------------------------------------------------------------------

Next ==
  \/ LoadSettings \/ Focus \/ LeaveChannels \/ OpenChannels \/ DismissToast
  \/ \E app \in App : SelectApp(app) \/ SelectElsewhere(app)
  \/ \E list \in AppList : Redeploy(list)
  \/ \E row \in UNION {{t[1], t[2], t[3]} : t \in Path} : OpenRow(row) \/ OpenSheet(row)
  \/ GoBack \/ CloseSheet
  \/ \E length \in 0..1 : FollowBreadcrumb(length)
  \/ \E k \in Key : Serve(k) \/ Receive(k) \/ ReceiveError(k)
  \/ \E id \in timers : RemoveToast(id)
  \/ \E m \in Change :
       \/ ChangeBranch(m) \/ ServeChange(m) \/ DropListings(m)
       \/ ReceiveChange(m) \/ ChangeFails(m) \/ ReportChange(m)

Spec == Init /\ [][Next]_vars

--------------------------------------------------------------------------------
(* Properties *)

TypeOK ==
  /\ served \in AppList /\ apps \in AppList \cup {<<>>}
  /\ {selected, apiApp, stored} \subseteq App \cup {None}
  /\ page \in {"channels", "updates", "elsewhere"}
  /\ place \in Place
  /\ sheet # None => Len(place) = 2 /\ sheet \in {t[3] : t \in Path}
  /\ mapping \in [App -> Nat]
  /\ oldest \in [App -> Nat]
  /\ raced \subseteq App
  /\ cache \in [Key -> Entry]
  /\ change \in [Change -> ChangeState]
  /\ left \in [Change -> App \cup {None}]
  /\ toast \in Toast \cup {None}
  /\ count \in 0..(IdModulus - 1) /\ timers \subseteq 0..(IdModulus - 1)

\* The selected app is one of the list the tab knows, also after that has changed
\* while another tab selected an app, and requests go to it and no other.
SelectionIsOffered ==
  /\ selected = None <=> apps = <<>>
  /\ selected # None => selected \in AppsOf(apps)
  /\ apiApp = selected

\* A query whose last fetch is over, and has not failed.
Settled(query) ==
  cache[<<query, selected>>].fetch = None /\ ~cache[<<query, selected>>].failed

\* The channels of the app that was changed are on the page.
ReportedHere(m) ==
  /\ change[m].at = "reported" /\ left[m] \in {None, change[m].app}
  /\ page = "channels" /\ selected = change[m].app

\* Under "Branch updated", and after, a table with channels of the app that was changed
\* shows the change once its fetches are over.  Nothing is said of a table that has failed
\* to load, or has another app's channels (see ShowsSelectedApp), of a server that has
\* cached a listing it made before the change, and of a change whose page was left, before
\* its answer, under another app: that app's table is fetched for it.
ShowsWhatWasSet ==
  \A m \in Change : ReportedHere(m) =>
    LET data == cache[<<Channels, selected>>].data
    IN /\ Settled(Channels) /\ data # None /\ data.of = selected
       /\ selected \notin raced
       => data.version >= change[m].version

\* The sheet shows an update with the UUID of the row that was clicked, so that very
\* update if it is no rollback, whatever was opened before and also when the app
\* changes under it.
SheetShowsItsRow ==
  sheet # None /\ selected # None /\ SheetShows # None =>
    Uuid[SheetShows.about[3]] = Uuid[sheet]

\* A toast vanishes only after it was dismissed or when the next one comes, also
\* with the timers of earlier toasts still running.
OnlyDismissedVanish == [][toast # None /\ toast' = None => ~toast.open]_vars

\* A table shows data of the selected app when its fetches are over.
ShowsSelectedApp ==
  selected # None /\ Settled(Table) =>
    LET data == cache[<<Table, selected>>].data
    IN data # None => data.of = selected

================================================================================
