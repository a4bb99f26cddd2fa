------------------------ MODULE DashboardChannelsProofs ------------------------
(***************************************************************************)
(* Theorems about the Channels page: the table shows the change under      *)
(* "Branch updated", and toasts that were not dismissed stay.              *)
(***************************************************************************)
EXTENDS DashboardPagesProofs, DashboardPagesInvariant, FiniteSetTheorems

USE DEF changeVars

LEMMA NoneIsNothing ==
  /\ None \notin App /\ None \notin Nat
  /\ \A data \in Data : data # None
  /\ \A fetch \in Fetching : fetch # None
  /\ \A shown \in Toast : shown # None
BY NoneAssumption

LEMMA ChannelsEntry ==
  ASSUME EntriesHold(cache), NEW app \in App
  PROVE  ChannelsOf(app) \in Entry /\ EntryHolds(<<Channels, app>>, ChannelsOf(app))
BY ChannelsKey DEF EntriesHold, ChannelsOf

--------------------------------------------------------------------------------
(* Fetches of the channels *)

LEMMA MountedChannels ==
  ASSUME page = "channels", sheet = None, NEW x, NEW app \in App
  PROVE  <<Channels, app>> \in Mounted(x) <=> x = app
BY NoneIsNothing DEF Mounted, Table

Started(entry, app) ==
  [entry EXCEPT !.fetch = [of |-> app, about |-> <<>>, version |-> None, awaited |-> {}]]

\* What Fetch does to an entry of the channels without and with cancelling.
Joined(entry, app) == IF entry.fetch # None THEN entry ELSE Started(entry, app)

Cancelled(entry, app) ==
  IF entry.fetch # None /\ entry.data = None THEN entry ELSE Started(entry, app)

LEMMA StartedIsNew ==
  ASSUME NEW entry \in Entry, NEW app \in App
  PROVE  LET after == Started(entry, app)
         IN /\ after \in Entry /\ after.fetch # None
            /\ after.data = entry.data /\ after.failed = entry.failed
            /\ after.fetch.of = app /\ after.fetch.version = None
<1> DEFINE new == [of |-> app, about |-> <<>>, version |-> None, awaited |-> {}]
           started == [entry EXCEPT !.fetch = new]
<1>1. new \in Fetching /\ new # None
  BY NoneIsNothing, PlaceForm, PlacesAreAsked DEF Fetching
<1>2. new.of = app /\ new.version = None
  OBVIOUS
<1> HIDE DEF new
<1>3. /\ started \in Entry /\ started.fetch = new
      /\ started.data = entry.data /\ started.failed = entry.failed
  BY <1>1 DEF Entry
<1>4. Started(entry, app) = started
  BY DEF Started, new
<1> QED
  BY <1>1, <1>2, <1>3, <1>4

Invalidated(entries, x, by) == Refetched(entries, Mounted(x), by, TRUE)

Remounted(entries, x, by) == Refetched(entries, Mounted(x), by, FALSE)

LEMMA RefetchedChannels ==
  ASSUME page = "channels", sheet = None, NEW entries, NEW x, NEW by, NEW app \in App
  PROVE  /\ Invalidated(entries, x, by)[<<Channels, app>>] =
              IF x = app THEN Cancelled(entries[<<Channels, app>>], by)
                         ELSE entries[<<Channels, app>>]
         /\ Remounted(entries, x, by)[<<Channels, app>>] =
              IF x = app THEN Joined(entries[<<Channels, app>>], by)
                         ELSE entries[<<Channels, app>>]
<1> DEFINE k == <<Channels, app>>
<1>1. k \in Key
  BY ChannelsKey
<1>2. Asked(k[1]) = <<>>
  BY ChannelsAsk DEF Asked
<1>3. k \in Mounted(x) <=> x = app
  BY MountedChannels
<1> HIDE DEF k
<1>4. Invalidated(entries, x, by)[k] =
        IF x = app THEN Cancelled(entries[k], by) ELSE entries[k]
  BY <1>1, <1>2, <1>3 DEF Invalidated, Refetched, Fetch, Cancelled, Started
<1>5. Remounted(entries, x, by)[k] =
        IF x = app THEN Joined(entries[k], by) ELSE entries[k]
  BY <1>1, <1>2, <1>3 DEF Remounted, Refetched, Fetch, Joined, Started
<1> QED
  BY <1>4, <1>5 DEF k

--------------------------------------------------------------------------------
(* Steps of the cache and the selection *)

\* What is there stays there.
DataStays(app) == ChannelsOf(app).data # None => ChannelsOf(app)'.data # None

\* A fetch from the app itself goes, was just begun, is served now, or stays as it was.
FetchStays(app) ==
  LET fetch == ChannelsOf(app).fetch
      next == ChannelsOf(app)'.fetch
  IN \/ next = None \/ next.of # app \/ next.version = None
     \/ next.version \in oldest[app]..mapping[app]
     \/ fetch # None /\ next.of = fetch.of /\ next.version = fetch.version

\* The fetch of a table that shows old data is under way, or has failed, or the data was
\* shown before, or has just been received.
TableStays(app) ==
  LET entry == ChannelsOf(app)
      next == ChannelsOf(app)'
  IN \/ next.fetch # None \/ next.failed \/ next.data = None
     \/ page = "channels" /\ selected = app /\ next = entry
     \/ /\ entry.fetch # None /\ entry.fetch.version # None
        /\ next.data.of = entry.fetch.of /\ next.data.version = entry.fetch.version

\* No step begins to fetch the channels of an app that is not selected from that app.
StaysCancelled(app) ==
  LET entry == ChannelsOf(app)
      next == ChannelsOf(app)'
  IN page = "channels" /\ app # selected' /\ entry.data # None =>
       \/ next.fetch = None \/ next.fetch.of # app
       \/ selected # app /\ entry.fetch # None /\ entry.fetch.of = app

StepsKeep(app) ==
  /\ DataStays(app) /\ FetchStays(app) /\ StaysCancelled(app)
  /\ page' = "channels" /\ selected' = app => TableStays(app)

\* The page is not left, and an app stays selected.
TabStays ==
  (page = "channels" => page' = "channels") /\ (selected # None => selected' # None)

ServerGrows ==
  /\ raced \subseteq raced'
  /\ \A app \in App :
       mapping'[app] >= mapping[app] /\ oldest'[app] >= oldest[app]
         /\ oldest'[app] <= mapping'[app]

\* A change that the step is not of.
LEMMA OthersFollow ==
  ASSUME IInv, IInv', TableFollows, ServerGrows, TabStays,
         \A app \in App : StepsKeep(app),
         NEW m \in Change, change'[m] = change[m], left'[m] = left[m]
  PROVE  ChangeFollows(m)'
<1>0. PICK c : c = change[m]
  OBVIOUS
<1> DEFINE entry == cache[<<Channels, c.app>>]
           next == cache'[<<Channels, c.app>>]
<1>1. c.at \in {"sent", "served", "answered", "refetching", "reported"} => c.app \in App
  BY <1>0, ChangeForms DEF IInv
<1>2. c.at \in {"served", "answered", "refetching", "reported"} =>
        /\ c.version \in Nat
        /\ oldest[c.app] \in Nat /\ mapping[c.app] \in Nat
        /\ oldest'[c.app] \in Nat /\ mapping'[c.app] \in Nat
  BY <1>0, <1>1, ChangeForms DEF IInv, ServerHolds
<1>3. c.app \in App =>
        /\ DataStays(c.app) /\ FetchStays(c.app) /\ StaysCancelled(c.app)
        /\ page' = "channels" /\ selected' = c.app => TableStays(c.app)
        /\ mapping'[c.app] >= mapping[c.app] /\ oldest'[c.app] >= oldest[c.app]
  BY DEF StepsKeep, ServerGrows
<1>4. /\ c.at \in {"sent", "served", "answered"} => entry.data # None
      /\ ListingsHaveIt(c)
      /\ c.at \in {"refetching", "reported"} /\ c.app \notin raced
           /\ left[m] \in {None, c.app} =>
             /\ FetchIsNew(entry, c)
             /\ page = "channels" /\ selected = c.app => TableIsNew(entry, c)
  BY <1>0 DEF TableFollows, ChangeFollows, ChangedWasShown, RefetchedIsNew, ChannelsOf
<1>5. change'[m] = c /\ raced \subseteq raced'
  BY <1>0 DEF ServerGrows
<1>6. c.at \in {"sent", "served", "answered"} => next.data # None
  BY <1>1, <1>3, <1>4 DEF DataStays, ChannelsOf
<1>7. /\ c.at \in {"served", "answered", "refetching", "reported"} =>
           c.version <= mapping'[c.app]
      /\ c.at \in {"answered", "refetching", "reported"} /\ c.app \notin raced' =>
           c.version <= oldest'[c.app]
  BY <1>1, <1>2, <1>3, <1>4, <1>5 DEF ListingsHaveIt
<1>8. ASSUME c.at \in {"refetching", "reported"}, c.app \notin raced',
             left[m] \in {None, c.app}
      PROVE  /\ FetchIsNew(next, c)
             /\ page' = "channels" /\ selected' = c.app => TableIsNew(next, c)
  <2>1. /\ FetchIsNew(entry, c)
        /\ page = "channels" /\ selected = c.app => TableIsNew(entry, c)
    BY <1>4, <1>5, <1>8
  <2>2. c.version <= oldest[c.app] /\ c.app \in App
    BY <1>1, <1>4, <1>5, <1>8 DEF ListingsHaveIt
  <2>3. FetchIsNew(next, c)
    BY <1>2, <1>3, <1>8, <2>1, <2>2 DEF FetchStays, FetchIsNew, ChannelsOf
  <2>4. ASSUME page' = "channels", selected' = c.app PROVE TableIsNew(next, c)
    BY <1>2, <1>3, <2>1, <2>2, <2>4 DEF TableStays, FetchIsNew, TableIsNew, ChannelsOf
  <2> QED
    BY <2>3, <2>4
<1>9. LeftIsCancelled(m)'
  <2>1. LeftIsCancelled(m)
    BY DEF TableFollows, ChangeFollows
  <2> QED
    BY <1>0, <1>1, <1>3, <1>4, <1>5, <2>1
       DEF LeftIsCancelled, StaysCancelled, TabStays, ChannelsOf
<1> QED
  BY <1>5, <1>6, <1>7, <1>8, <1>9
     DEF ChangeFollows, ChangedWasShown, ListingsHaveIt, RefetchedIsNew, ChannelsOf

LEMMA StepsFollow ==
  ASSUME IInv, IInv', TableFollows, ServerGrows, TabStays,
         \A app \in App : StepsKeep(app),
         \A m \in Change :
           (change'[m] = change[m] /\ left'[m] = left[m]) \/ ChangeFollows(m)'
  PROVE  TableFollows'
<1>1. \A m \in Change : ChangeFollows(m)'
  BY OthersFollow
<1>2. \A app \in App : oldest'[app] <= mapping'[app]
  BY DEF ServerGrows
<1> QED
  BY <1>1, <1>2 DEF TableFollows

LEMMA ServerStays ==
  ASSUME IInv, TableFollows, UNCHANGED <<mapping, oldest, raced>>
  PROVE  ServerGrows
<1>1. \A app \in App : mapping[app] \in Nat /\ oldest[app] \in Nat
  BY DEF IInv, ServerHolds
<1> QED
  BY <1>1 DEF ServerGrows, TableFollows

\* Steps in which only the cache and the selection change.
LEMMA CacheSteps ==
  ASSUME IInv, IInv', TableFollows, UNCHANGED <<change, left, mapping, oldest, raced>>,
         TabStays, \A app \in App : StepsKeep(app)
  PROVE  TableFollows'
BY ServerStays, StepsFollow

LEMMA SameEntryKeeps ==
  ASSUME NEW app \in App, ChannelsOf(app)' = ChannelsOf(app),
         \/ UNCHANGED <<selected, page>>
         \/ selected' # app /\ selected # app
         \/ page = "elsewhere" /\ UNCHANGED page
  PROVE  StepsKeep(app)
BY DEF StepsKeep, DataStays, FetchStays, TableStays, StaysCancelled

\* No page observes the channels elsewhere.
LEMMA NothingIsMounted ==
  ASSUME page = "elsewhere", NEW entries, NEW x, NEW by, NEW app \in App
  PROVE  /\ Invalidated(entries, x, by)[<<Channels, app>>] = entries[<<Channels, app>>]
         /\ Remounted(entries, x, by)[<<Channels, app>>] = entries[<<Channels, app>>]
<1>1. <<Channels, app>> \in Key /\ Mounted(x) = {}
  BY ChannelsKey DEF Mounted
<1> QED
  BY <1>1 DEF Invalidated, Remounted, Refetched

LEMMA SelectElsewhereKeeps ==
  ASSUME IInv, IInv', page = "elsewhere", TableFollows,
         NEW app \in App, SetSelectedAppId(app),
         UNCHANGED <<change, left, page, mapping, oldest, raced>>
  PROVE  TableFollows'
<1>1. ASSUME NEW a \in App
      PROVE  StepsKeep(a)
  <2>1. cache' = Remounted(Invalidated(cache, selected, app), app, app)
    BY DEF SetSelectedAppId, Invalidated, Remounted
  <2>2. ChannelsOf(a)' = ChannelsOf(a)
    BY <2>1, NothingIsMounted DEF ChannelsOf
  <2> QED
    BY <2>2, SameEntryKeeps
<1>2. TabStays
  BY NoneIsNothing DEF TabStays, SetSelectedAppId
<1> QED
  BY <1>1, <1>2, CacheSteps

LEMMA SelectKeeps ==
  ASSUME IInv, IInv', page = "channels", sheet = None, TableFollows,
         NEW app \in App, app # selected, SetSelectedAppId(app),
         UNCHANGED <<change, left, page, mapping, oldest, raced>>
  PROVE  TableFollows'
<1> DEFINE first == Invalidated(cache, selected, app)
<1>1. selected' = app /\ cache' = Remounted(first, app, app)
  BY DEF SetSelectedAppId, Invalidated, Remounted
<1>2. ASSUME NEW a \in App
      PROVE  first[<<Channels, a>>] =
               IF selected = a THEN Cancelled(ChannelsOf(a), app) ELSE ChannelsOf(a)
  BY RefetchedChannels DEF ChannelsOf
<1> HIDE DEF first
<1>3. ASSUME NEW a \in App
      PROVE  ChannelsOf(a)' =
               IF app = a THEN Joined(first[<<Channels, a>>], app)
                          ELSE first[<<Channels, a>>]
  BY <1>1, RefetchedChannels DEF ChannelsOf
<1>4. ASSUME NEW a \in App
      PROVE  StepsKeep(a)
  <2>0. ChannelsOf(a) \in Entry
    BY ChannelsEntry DEF IInv
  <2>1. CASE a = app
    <3>1. ChannelsOf(a)' = Joined(ChannelsOf(a), app)
      BY <1>2, <1>3, <2>1
    <3> QED
      BY <1>1, <2>0, <2>1, <3>1, StartedIsNew
         DEF StepsKeep, DataStays, FetchStays, TableStays, StaysCancelled, Joined
  <2>2. CASE a # app /\ a = selected
    <3>1. ChannelsOf(a)' = Cancelled(ChannelsOf(a), app)
      BY <1>2, <1>3, <2>2
    <3> QED
      BY <1>1, <2>0, <2>2, <3>1, StartedIsNew
         DEF StepsKeep, DataStays, FetchStays, StaysCancelled, Cancelled
  <2>3. CASE a # app /\ a # selected
    <3>1. ChannelsOf(a)' = ChannelsOf(a)
      BY <1>2, <1>3, <2>3
    <3> QED
      BY <1>1, <2>3, <3>1, SameEntryKeeps
  <2> QED
    BY <2>1, <2>2, <2>3
<1>5. TabStays
  BY <1>1, NoneIsNothing DEF TabStays
<1> QED
  BY <1>4, <1>5, CacheSteps

\* A step that fetches the channels of the selected app if they are not being fetched.
LEMMA JoinKeeps ==
  ASSUME IInv, IInv', TableFollows, TabStays,
         UNCHANGED <<selected, change, left, mapping, oldest, raced>>,
         \A a \in App :
           ChannelsOf(a)' = IF selected = a THEN Joined(ChannelsOf(a), apiApp) ELSE ChannelsOf(a)
  PROVE  TableFollows'
<1>1. ASSUME NEW a \in App
      PROVE  StepsKeep(a)
  <2>1. CASE selected = a
    <3>1. ChannelsOf(a) \in Entry /\ apiApp \in App
      BY <2>1, ChannelsEntry, SelectedIsApp, NoneIsNothing DEF IInv
    <3> QED
      BY <2>1, <3>1, StartedIsNew
         DEF StepsKeep, DataStays, FetchStays, TableStays, StaysCancelled, Joined
  <2>2. CASE selected # a
    BY <2>2, SameEntryKeeps
  <2> QED
    BY <2>1, <2>2
<1> QED
  BY <1>1, CacheSteps

LEMMA FocusKeeps ==
  ASSUME IInv, IInv', page # "updates", sheet = None, TableFollows, Focus
  PROVE  TableFollows'
<1>1. /\ UNCHANGED <<selected, page, change, left, mapping, oldest, raced>>
      /\ cache' = Remounted(cache, selected, apiApp)
  BY DEF Focus, Remounted, serverVars, selectionVars, pageVars
<1>2. TabStays
  BY <1>1 DEF TabStays
<1>3. CASE page = "channels"
  <2>1. \A a \in App :
          ChannelsOf(a)' = IF selected = a THEN Joined(ChannelsOf(a), apiApp)
                                           ELSE ChannelsOf(a)
    BY <1>1, <1>3, RefetchedChannels DEF ChannelsOf
  <2> QED
    BY <1>1, <1>2, <2>1, JoinKeeps
<1>4. CASE page = "elsewhere"
  <2>1. ASSUME NEW a \in App PROVE StepsKeep(a)
    <3>1. ChannelsOf(a)' = ChannelsOf(a)
      BY <1>1, <1>4, NothingIsMounted DEF ChannelsOf
    <3> QED
      BY <1>1, <3>1, SameEntryKeeps
  <2> QED
    BY <1>1, <1>2, <2>1, CacheSteps
<1> QED
  BY <1>3, <1>4 DEF IInv, PlaceHolds

\* A step that changes one entry, maybe another one than that of an app's channels.
LEMMA OneEntryChanges ==
  ASSUME IInv, NEW k \in Key, NEW entry, cache' = [cache EXCEPT ![k] = entry],
         NEW app \in App
  PROVE  ChannelsOf(app)' = IF k = <<Channels, app>> THEN entry ELSE ChannelsOf(app)
<1>1. <<Channels, app>> \in Key /\ DOMAIN cache = Key
  BY ChannelsKey DEF IInv, EntriesHold
<1> QED
  BY <1>1 DEF ChannelsOf

LEMMA OpenChannelsKeeps ==
  ASSUME IInv, IInv', TableFollows, OpenChannels
  PROVE  TableFollows'
<1>1. /\ UNCHANGED <<selected, change, left, mapping, oldest, raced>> /\ page' = "channels"
      /\ cache' = IF selected = None
                  THEN cache
                  ELSE [cache EXCEPT ![<<Channels, selected>>] = Joined(@, apiApp)]
  BY DEF OpenChannels, Fetch, Joined, Started, serverVars, selectionVars
<1>2. TabStays
  BY <1>1 DEF TabStays
<1>3. ASSUME NEW a \in App
      PROVE  ChannelsOf(a)' = IF selected = a THEN Joined(ChannelsOf(a), apiApp)
                                              ELSE ChannelsOf(a)
  <2>1. CASE selected = None
    BY <1>1, <2>1, NoneIsNothing DEF ChannelsOf
  <2>2. CASE selected # None
    <3> DEFINE k == <<Channels, selected>>
    <3>1. k \in Key
      BY <2>2, SelectedIsApp, ChannelsKey DEF IInv
    <3>2. cache' = [cache EXCEPT ![k] = Joined(cache[k], apiApp)]
      BY <1>1, <2>2
    <3>3. ChannelsOf(a)' = IF k = <<Channels, a>> THEN Joined(cache[k], apiApp)
                                                  ELSE ChannelsOf(a)
      BY <3>1, <3>2, OneEntryChanges
    <3> QED
      BY <3>3 DEF ChannelsOf
  <2> QED
    BY <2>1, <2>2
<1> QED
  BY <1>1, <1>2, <1>3, JoinKeeps

\* No entry changes, and the queries of the changes under way are those of the app that is
\* selected now.
LEMMA LeaveChannelsKeeps ==
  ASSUME IInv, TableFollows, LeaveChannels
  PROVE  TableFollows'
<1>1. /\ UNCHANGED <<cache, selected, change, mapping, oldest, raced>>
      /\ page' = "elsewhere"
      /\ \A m \in Change :
           left'[m] = IF change[m].at \in {"sent", "served", "answered"} /\ left[m] = None
                      THEN selected
                      ELSE left[m]
  BY DEF LeaveChannels, serverVars, selectionVars
<1>2. ASSUME NEW m \in Change
      PROVE  ChangeFollows(m)'
  <2>1. ChangeFollows(m)
    BY DEF TableFollows
  <2>2. ChangedWasShown(change[m])' /\ ListingsHaveIt(change[m])'
    BY <1>1, <2>1 DEF ChangeFollows, ChangedWasShown, ListingsHaveIt, ChannelsOf
  <2>3. LeftIsCancelled(m)'
    BY <1>1, <2>1 DEF ChangeFollows, LeftIsCancelled
  <2>4. RefetchedIsNew(change[m], left[m])'
    BY <1>1, <2>1 DEF ChangeFollows, RefetchedIsNew, FetchIsNew, ChannelsOf
  <2> QED
    BY <2>2, <2>3, <2>4 DEF ChangeFollows
<1> QED
  BY <1>1, <1>2 DEF TableFollows

LEMMA ServeKeeps ==
  ASSUME IInv, IInv', TableFollows, NEW k \in Key, Serve(k)
  PROVE  TableFollows'
<1>1. /\ UNCHANGED <<selected, page, change, left, mapping, oldest, raced>>
      /\ cache[k].fetch # None
  BY DEF Serve, serverVars, selectionVars, pageVars
<1>2. PICK version \in oldest[cache[k].fetch.of]..mapping[cache[k].fetch.of] :
        cache' = [cache EXCEPT ![k].fetch.version = version]
  BY DEF Serve
<1> DEFINE fetch == [cache[k].fetch EXCEPT !.version = version]
           entry == [cache[k] EXCEPT !.fetch = fetch]
<1>3. cache[k] \in Entry /\ cache[k].fetch \in Fetching
  BY <1>1 DEF IInv, EntriesHold, Entry
<1>4. /\ entry.data = cache[k].data /\ entry.failed = cache[k].failed
      /\ entry.fetch.of = cache[k].fetch.of /\ entry.fetch.version = version
  BY <1>3 DEF Entry, Fetching
<1>5. cache' = [cache EXCEPT ![k] = entry]
  BY <1>2
<1>6. entry.fetch # None
  <2>2. version \in Nat
    BY <1>2, <1>3 DEF IInv, ServerHolds, Fetching
  <2>3. fetch \in Fetching
    BY <1>3, <2>2 DEF Fetching
  <2>4. entry.fetch = fetch
    BY <1>3 DEF Entry
  <2> QED
    BY <2>3, <2>4, NoneIsNothing
<1> HIDE DEF entry
<1>7. ASSUME NEW a \in App
      PROVE  StepsKeep(a)
  <2>1. CASE k = <<Channels, a>>
    <3>1. ChannelsOf(a)' = entry /\ ChannelsOf(a) = cache[k]
      BY <1>5, <2>1, OneEntryChanges DEF ChannelsOf
    <3> QED
      BY <1>1, <1>2, <1>4, <1>6, <3>1
         DEF StepsKeep, DataStays, FetchStays, TableStays, StaysCancelled
  <2>2. CASE k # <<Channels, a>>
    <3>1. ChannelsOf(a)' = ChannelsOf(a)
      BY <1>5, <2>2, OneEntryChanges
    <3> QED
      BY <1>1, <3>1, SameEntryKeeps
  <2> QED
    BY <2>1, <2>2
<1>8. TabStays
  BY <1>1 DEF TabStays
<1> QED
  BY <1>1, <1>7, <1>8, CacheSteps

LEMMA ReceiveKeeps ==
  ASSUME IInv, IInv', TableFollows, NEW k \in Key, Receive(k)
  PROVE  TableFollows'
<1>1. /\ UNCHANGED <<selected, page, change, left, mapping, oldest, raced>>
      /\ cache[k].fetch # None /\ cache[k].fetch.version # None
  BY DEF Receive, serverVars, selectionVars, pageVars
<1> DEFINE data == [of |-> cache[k].fetch.of, about |-> cache[k].fetch.about,
                    version |-> cache[k].fetch.version]
           entry == [data |-> data, failed |-> FALSE, fetch |-> None]
<1>2. cache' = [cache EXCEPT ![k] = entry]
  BY DEF Receive
<1>3. data # None
  <2>1. cache[k].fetch \in Fetching
    BY <1>1 DEF IInv, EntriesHold, Entry
  <2>2. data \in Data
    BY <1>1, <2>1 DEF Fetching, Data
  <2> QED
    BY <2>2, NoneIsNothing
<1>4. /\ entry.fetch = None /\ entry.data # None
      /\ entry.data.of = cache[k].fetch.of /\ entry.data.version = cache[k].fetch.version
  BY <1>3
<1> HIDE DEF entry
<1>5. ASSUME NEW a \in App
      PROVE  StepsKeep(a)
  <2>1. CASE k = <<Channels, a>>
    <3>1. ChannelsOf(a)' = entry /\ ChannelsOf(a) = cache[k]
      BY <1>2, <2>1, OneEntryChanges DEF ChannelsOf
    <3> QED
      BY <1>1, <1>4, <3>1 DEF StepsKeep, DataStays, FetchStays, TableStays, StaysCancelled
  <2>2. CASE k # <<Channels, a>>
    <3>1. ChannelsOf(a)' = ChannelsOf(a)
      BY <1>2, <2>2, OneEntryChanges
    <3> QED
      BY <1>1, <3>1, SameEntryKeeps
  <2> QED
    BY <2>1, <2>2
<1>6. TabStays
  BY <1>1 DEF TabStays
<1> QED
  BY <1>1, <1>5, <1>6, CacheSteps

LEMMA ReceiveErrorKeeps ==
  ASSUME IInv, IInv', TableFollows, NEW k \in Key, ReceiveError(k)
  PROVE  TableFollows'
<1>1. UNCHANGED <<selected, page, change, left, mapping, oldest, raced>>
  BY DEF ReceiveError, serverVars, selectionVars, pageVars
<1> DEFINE entry == [cache[k] EXCEPT !.fetch = None, !.failed = TRUE]
<1>2. cache[k] \in Entry /\ DOMAIN cache = Key
  BY DEF IInv, EntriesHold
<1>3. entry.data = cache[k].data /\ entry.failed /\ entry.fetch = None
  BY <1>2 DEF Entry
<1>4. cache' = [cache EXCEPT ![k] = entry]
  BY <1>2 DEF ReceiveError
<1> HIDE DEF entry
<1>5. ASSUME NEW a \in App
      PROVE  StepsKeep(a)
  <2>1. CASE k = <<Channels, a>>
    <3>1. ChannelsOf(a)' = entry /\ ChannelsOf(a) = cache[k]
      BY <1>4, <2>1, OneEntryChanges DEF ChannelsOf
    <3> QED
      BY <1>3, <3>1 DEF StepsKeep, DataStays, FetchStays, TableStays, StaysCancelled
  <2>2. CASE k # <<Channels, a>>
    <3>1. ChannelsOf(a)' = ChannelsOf(a)
      BY <1>4, <2>2, OneEntryChanges
    <3> QED
      BY <1>1, <3>1, SameEntryKeeps
  <2> QED
    BY <2>1, <2>2
<1>6. TabStays
  BY <1>1 DEF TabStays
<1> QED
  BY <1>1, <1>5, <1>6, CacheSteps

--------------------------------------------------------------------------------
(* Steps of a change *)

LEMMA OneChange ==
  ASSUME IInv, NEW m \in Change, NEW c, change' = [change EXCEPT ![m] = c]
  PROVE  change'[m] = c /\ \A other \in Change : other = m \/ change'[other] = change[other]
BY DEF IInv, ChangesHold

LEMMA SameEntriesKeep ==
  ASSUME UNCHANGED <<cache, selected, page>>
  PROVE  TabStays /\ \A app \in App : StepsKeep(app)
<1>1. \A app \in App : ChannelsOf(app)' = ChannelsOf(app)
  BY DEF ChannelsOf
<1>2. TabStays
  BY DEF TabStays
<1> QED
  BY <1>1, <1>2, SameEntryKeeps

LEMMA ChangeBranchKeeps ==
  ASSUME IInv, IInv', TableFollows, NEW m \in Change, ChangeBranch(m)
  PROVE  TableFollows'
<1>1. /\ UNCHANGED <<cache, selected, page>> /\ UNCHANGED <<mapping, oldest, raced>>
      /\ page = "channels" /\ selected # None /\ cache[<<Channels, selected>>].data # None
      /\ change' = [change EXCEPT ![m] = [at |-> "sent", app |-> apiApp]]
      /\ left' = [left EXCEPT ![m] = None]
  BY DEF ChangeBranch, serverVars, selectionVars, pageVars
<1>2. apiApp = selected
  BY DEF IInv, SelectionHolds, SelectionIsOffered
<1>3. change'[m] = [at |-> "sent", app |-> selected]
      /\ \A other \in Change : other = m \/ change'[other] = change[other]
  BY <1>1, <1>2, OneChange
<1>4. left'[m] = None /\ \A other \in Change : other = m \/ left'[other] = left[other]
  BY <1>1 DEF IInv, ChangesHold
<1>5. ChangeFollows(m)'
  BY <1>1, <1>3, <1>4
     DEF ChangeFollows, ChangedWasShown, ListingsHaveIt, LeftIsCancelled, RefetchedIsNew,
         ChannelsOf
<1> QED
  BY <1>1, <1>3, <1>4, <1>5, SameEntriesKeep, ServerStays, StepsFollow

LEMMA ServeChangeKeeps ==
  ASSUME IInv, IInv', TableFollows, NEW m \in Change, ServeChange(m)
  PROVE  TableFollows'
<1>0. PICK app : app = change[m].app
  OBVIOUS
<1>1. /\ UNCHANGED <<cache, selected, page>> /\ UNCHANGED <<oldest, raced>> /\ UNCHANGED left
      /\ change[m].at = "sent"
      /\ mapping' = [mapping EXCEPT ![app] = @ + 1]
      /\ change' = [change EXCEPT ![m] = [at |-> "served", app |-> app,
                                          version |-> mapping[app] + 1]]
  BY <1>0 DEF ServeChange, selectionVars, pageVars
<1>2. app \in App
  BY <1>0, <1>1, ChangeForms DEF IInv
<1>3. mapping \in [App -> Nat] /\ oldest \in [App -> Nat]
  BY DEF IInv, ServerHolds
<1>4. change'[m] = [at |-> "served", app |-> app, version |-> mapping[app] + 1]
      /\ \A other \in Change : other = m \/ change'[other] = change[other]
  BY <1>1, OneChange
<1>5. ServerGrows
  BY <1>1, <1>2, <1>3 DEF ServerGrows, TableFollows
<1>6. ChangeFollows(m)'
  <2>1. cache'[<<Channels, app>>].data # None
    BY <1>0, <1>1 DEF TableFollows, ChangeFollows, ChangedWasShown, ChannelsOf
  <2>2. mapping[app] + 1 <= mapping'[app]
    BY <1>1, <1>2, <1>3
  <2>3. LeftIsCancelled(m)'
    BY <1>0, <1>1, <1>4 DEF TableFollows, ChangeFollows, LeftIsCancelled, ChannelsOf
  <2> QED
    BY <1>4, <2>1, <2>2, <2>3
       DEF ChangeFollows, ChangedWasShown, ListingsHaveIt, RefetchedIsNew, ChannelsOf
<1> QED
  BY <1>1, <1>4, <1>5, <1>6, SameEntriesKeep, StepsFollow

LEMMA DropListingsKeeps ==
  ASSUME IInv, IInv', TableFollows, NEW m \in Change, DropListings(m)
  PROVE  TableFollows'
<1>0. PICK app, version : app = change[m].app /\ version = change[m].version
  OBVIOUS
<1>1. /\ UNCHANGED <<cache, selected, page>> /\ UNCHANGED mapping /\ UNCHANGED left
      /\ change[m].at = "served"
      /\ change' = [change EXCEPT ![m].at = "answered"]
      /\ \/ oldest' = [oldest EXCEPT ![app] = mapping[app]] /\ UNCHANGED raced
         \/ raced' = raced \cup {app} /\ UNCHANGED oldest
  BY <1>0 DEF DropListings, selectionVars, pageVars
<1>2. app \in App /\ version \in Nat
  BY <1>0, <1>1, ChangeForms DEF IInv
<1>3. mapping \in [App -> Nat] /\ oldest \in [App -> Nat]
  BY DEF IInv, ServerHolds
<1>4. change'[m] = [at |-> "answered", app |-> app, version |-> version]
      /\ \A other \in Change : other = m \/ change'[other] = change[other]
  BY <1>0, <1>1, Advanced, OneChange DEF IInv
<1>5. ServerGrows
  BY <1>1, <1>2, <1>3 DEF ServerGrows, TableFollows
<1>6. ChangeFollows(m)'
  <2>1. cache'[<<Channels, app>>].data # None /\ version <= mapping[app]
    BY <1>0, <1>1
       DEF TableFollows, ChangeFollows, ChangedWasShown, ListingsHaveIt, ChannelsOf
  <2>2. app \notin raced' => version <= oldest'[app]
    BY <1>1, <1>2, <1>3, <2>1
  <2>3. LeftIsCancelled(m)'
    BY <1>0, <1>1, <1>4 DEF TableFollows, ChangeFollows, LeftIsCancelled, ChannelsOf
  <2> QED
    BY <1>1, <1>4, <2>1, <2>2, <2>3
       DEF ChangeFollows, ChangedWasShown, ListingsHaveIt, RefetchedIsNew, ChannelsOf
<1> QED
  BY <1>1, <1>4, <1>5, <1>6, SameEntriesKeep, StepsFollow

LEMMA ChangeFailsKeeps ==
  ASSUME IInv, IInv', TableFollows, NEW m \in Change, ChangeFails(m)
  PROVE  TableFollows'
<1>1. /\ UNCHANGED <<cache, selected, page, left>> /\ UNCHANGED <<mapping, oldest, raced>>
      /\ change' = [change EXCEPT ![m] = [at |-> "failed"]]
  BY DEF ChangeFails, serverVars, selectionVars, pageVars
<1>2. change'[m] = [at |-> "failed"]
      /\ \A other \in Change : other = m \/ change'[other] = change[other]
  BY <1>1, OneChange
<1>3. ChangeFollows(m)'
  BY <1>2 DEF ChangeFollows, ChangedWasShown, ListingsHaveIt, LeftIsCancelled, RefetchedIsNew
<1> QED
  BY <1>1, <1>2, <1>3, SameEntriesKeep, ServerStays, StepsFollow

LEMMA ReportChangeKeeps ==
  ASSUME IInv, IInv', TableFollows, NEW m \in Change, ReportChange(m)
  PROVE  TableFollows'
<1>0. PICK app, version : app = change[m].app /\ version = change[m].version
  OBVIOUS
<1>1. /\ UNCHANGED <<cache, selected, page, left>> /\ UNCHANGED <<mapping, oldest, raced>>
      /\ change[m].at = "refetching"
      /\ change' = [change EXCEPT ![m].at = "reported"]
  BY DEF ReportChange, serverVars, selectionVars, pageVars
<1>2. change'[m] = [at |-> "reported", app |-> app, version |-> version]
      /\ \A other \in Change : other = m \/ change'[other] = change[other]
  BY <1>0, <1>1, Advanced, OneChange DEF IInv
<1>3. ChangeFollows(m)'
  BY <1>0, <1>1, <1>2
     DEF TableFollows, ChangeFollows, ChangedWasShown, ListingsHaveIt, LeftIsCancelled,
         RefetchedIsNew, FetchIsNew, TableIsNew, ChannelsOf
<1> QED
  BY <1>1, <1>2, <1>3, SameEntriesKeep, ServerStays, StepsFollow

\* Waiting for a fetch changes neither what it asks for nor how far it is.
LEMMA AwaitedIsSame ==
  ASSUME NEW entry \in Entry, entry.fetch # None, NEW m \in Change
  PROVE  LET after == Awaited(entry, m)
         IN /\ after.data = entry.data /\ after.failed = entry.failed
            /\ after.fetch # None /\ after.fetch.of = entry.fetch.of
            /\ after.fetch.version = entry.fetch.version
<1> DEFINE fetch == [entry.fetch EXCEPT !.awaited = @ \cup {m}]
           after == [entry EXCEPT !.fetch = fetch]
<1>1. fetch \in Fetching /\ fetch # None
  BY NoneIsNothing DEF Entry, Fetching
<1>2. fetch.of = entry.fetch.of /\ fetch.version = entry.fetch.version
  BY DEF Entry, Fetching
<1>3. Awaited(entry, m) = after
  BY DEF Awaited
<1> HIDE DEF fetch
<1>4. after.fetch = fetch /\ after.data = entry.data /\ after.failed = entry.failed
  BY DEF Entry
<1> QED
  BY <1>1, <1>2, <1>3, <1>4

LEMMA ReceiveChangeKeeps ==
  ASSUME IInv, IInv', TableFollows, NEW m \in Change, ReceiveChange(m)
  PROVE  TableFollows'
<1>0. PICK app, version : app = change[m].app /\ version = change[m].version
  OBVIOUS
<1>1. /\ UNCHANGED <<selected, page, left>> /\ UNCHANGED <<mapping, oldest, raced>>
      /\ change[m].at = "answered"
      /\ change' = [change EXCEPT ![m].at = "refetching"]
  BY DEF ReceiveChange, serverVars, selectionVars, pageVars
<1>2. change'[m] = [at |-> "refetching", app |-> app, version |-> version]
      /\ \A other \in Change : other = m \/ change'[other] = change[other]
  BY <1>0, <1>1, Advanced, OneChange DEF IInv
<1>3. app \in App /\ ChannelsOf(app).data # None
  BY <1>0, <1>1, ChangeForms DEF IInv, TableFollows, ChangeFollows, ChangedWasShown
<1>4. selected \in App /\ apiApp = selected /\ LeftIsCancelled(m)
  <2>1. LeftIsCancelled(m)
    BY DEF TableFollows, ChangeFollows
  <2> QED
    BY <1>1, <2>1, SelectedIsApp DEF LeftIsCancelled, IInv, SelectionHolds, SelectionIsOffered
<1>5. PICK of \in App :
        /\ of = IF left[m] # None THEN left[m] ELSE selected
        /\ ChannelsOfChange(m) = <<Channels, of>>
  BY <1>4 DEF ChannelsOfChange, IInv, ChangesHold
<1>6. ASSUME NEW a \in App
      PROVE  ChannelsOf(a)' = IF of = a THEN Awaited(Cancelled(ChannelsOf(a), selected), m)
                                        ELSE ChannelsOf(a)
  <2> DEFINE k == <<Channels, of>>
  <2>1. k \in Key
    BY ChannelsKey
  <2>2. cache' = [cache EXCEPT ![k] = Awaited(Cancelled(cache[k], selected), m)]
    BY <1>4, <1>5, NoneIsNothing DEF ReceiveChange, RefetchChannels, Fetch, Cancelled, Started
  <2>3. ChannelsOf(a)' = IF k = <<Channels, a>>
                         THEN Awaited(Cancelled(cache[k], selected), m)
                         ELSE ChannelsOf(a)
    BY <2>1, <2>2, OneEntryChanges
  <2> QED
    BY <2>3 DEF ChannelsOf
<1>7. LET entry == ChannelsOf(of)
          next == ChannelsOf(of)'
      IN /\ next.data = entry.data /\ next.fetch # None
         /\ \/ /\ entry.fetch # None /\ entry.data = None
               /\ next.fetch.of = entry.fetch.of /\ next.fetch.version = entry.fetch.version
            \/ next.fetch.of = selected /\ next.fetch.version = None
  <2> DEFINE middle == Cancelled(ChannelsOf(of), selected)
  <2>1. ChannelsOf(of) \in Entry
    BY ChannelsEntry DEF IInv
  <2>2. /\ middle \in Entry /\ middle.fetch # None /\ middle.data = ChannelsOf(of).data
        /\ \/ ChannelsOf(of).data = None /\ middle = ChannelsOf(of)
           \/ middle.fetch.of = selected /\ middle.fetch.version = None
    BY <1>4, <2>1, StartedIsNew DEF Cancelled
  <2>3. ChannelsOf(of)' = Awaited(middle, m)
    BY <1>6
  <2> HIDE DEF middle
  <2> QED
    BY <2>2, <2>3, AwaitedIsSame
<1>8. \A a \in App : StepsKeep(a)
  <2> SUFFICES ASSUME NEW a \in App PROVE StepsKeep(a)
    OBVIOUS
  <2>1. CASE of = a
    BY <1>1, <1>7, <2>1 DEF StepsKeep, DataStays, FetchStays, TableStays, StaysCancelled
  <2>2. CASE of # a
    BY <1>1, <1>6, <2>2, SameEntryKeeps
  <2> QED
    BY <2>1, <2>2
<1>9. ChangeFollows(m)'
  <2>1. ASSUME left[m] \in {None, app}
        PROVE  /\ FetchIsNew(ChannelsOf(app)', change'[m])
               /\ selected = app => TableIsNew(ChannelsOf(app)', change'[m])
    <3>1. CASE of = app
      BY <1>2, <1>3, <1>7, <3>1 DEF FetchIsNew, TableIsNew
    <3>2. CASE of # app
      <4>1. left[m] = None /\ selected # app /\ ChannelsOf(app)' = ChannelsOf(app)
        BY <1>3, <1>5, <1>6, <2>1, <3>2
      <4> QED
        BY <1>0, <1>1, <1>2, <1>4, <4>1 DEF LeftIsCancelled, FetchIsNew
    <3> QED
      BY <3>1, <3>2
  <2>2. ListingsHaveIt(change[m])
    BY DEF TableFollows, ChangeFollows
  <2>3. LeftIsCancelled(m)' /\ ChangedWasShown(change[m])'
    BY <1>2 DEF LeftIsCancelled, ChangedWasShown
  <2> QED
    BY <1>0, <1>1, <1>2, <2>1, <2>2, <2>3
       DEF ChangeFollows, ListingsHaveIt, RefetchedIsNew, ChannelsOf
<1>10. TabStays
  BY <1>1 DEF TabStays
<1> QED
  BY <1>1, <1>2, <1>8, <1>9, <1>10, ServerStays, StepsFollow

--------------------------------------------------------------------------------
(* The invariant of the Channels page *)

LEMMA InitChannels == Init => ChannelsInv
<1> SUFFICES ASSUME Init PROVE ChannelsInv
  OBVIOUS
<1>1. /\ cache = [k \in Key |-> Empty] /\ change = [m \in Change |-> [at |-> "idle"]]
      /\ mapping = [a \in App |-> 0] /\ oldest = [a \in App |-> 0]
      /\ place = <<>> /\ sheet = None
  BY DEF Init
<1>2. \A m \in Change : ChangeFollows(m)
  BY <1>1
     DEF ChangeFollows, ChangedWasShown, ListingsHaveIt, LeftIsCancelled, RefetchedIsNew
<1> QED
  BY <1>1, <1>2 DEF ChannelsInv, OnOnePage, TableFollows

LEMMA StaysOnOnePage ==
  ASSUME IInv, OnOnePage, [Next]_vars
  PROVE  OnOnePage' /\ (page' = "updates" <=> page = "updates")
<1>1. CASE LoadSettings \/ Focus \/ DismissToast \/ \E id \in timers : RemoveToast(id)
  BY <1>1 DEF LoadSettings, Focus, DismissToast, RemoveToast, pageVars, OnOnePage
<1>2. CASE \E app \in App : SelectApp(app) \/ SelectElsewhere(app)
  BY <1>2 DEF SelectApp, SelectElsewhere, pageVars, OnOnePage
<1>3. CASE \E list \in AppList : Redeploy(list)
  BY <1>3 DEF Redeploy, pageVars, OnOnePage
<1>4. CASE \E row \in Segment : OpenRow(row) \/ OpenSheet(row)
  BY <1>4 DEF OpenRow, OpenSheet, OnOnePage
<1>5. CASE GoBack \/ CloseSheet
  BY <1>5 DEF GoBack, CloseSheet, OnOnePage
<1>6. CASE \E length \in 0..1 : FollowBreadcrumb(length)
  <2>1. page = "updates"
    BY <1>6 DEF FollowBreadcrumb, OnOnePage
  <2> QED
    BY <1>6, <2>1 DEF FollowBreadcrumb, OnOnePage
<1>7. CASE \E k \in Key : Serve(k) \/ Receive(k) \/ ReceiveError(k)
  BY <1>7 DEF Serve, Receive, ReceiveError, pageVars, OnOnePage
<1>8. ASSUME NEW m \in Change,
             \/ ChangeBranch(m) \/ ServeChange(m) \/ DropListings(m)
             \/ ReceiveChange(m) \/ ChangeFails(m) \/ ReportChange(m)
      PROVE  OnOnePage' /\ page' = page
  BY <1>8
     DEF ChangeBranch, ServeChange, DropListings, ReceiveChange, ChangeFails, ReportChange,
         pageVars, OnOnePage
<1>9. CASE LeaveChannels \/ OpenChannels
  BY <1>9 DEF LeaveChannels, OpenChannels, OnOnePage
<1>10. CASE UNCHANGED vars
  BY <1>10 DEF vars, pageVars, OnOnePage
<1> QED
  BY <1>1, <1>2, <1>3, <1>4, <1>5, <1>6, <1>7, <1>8, <1>9, <1>10 DEF Next, Segment

LEMMA TableStillFollows ==
  ASSUME IInv, IInv', OnOnePage, page # "updates", TableFollows, [Next]_vars
  PROVE  TableFollows'
<1>0. /\ place = <<>> /\ sheet = None
      /\ page = "channels" \/ page = "elsewhere"
  BY DEF OnOnePage, IInv, PlaceHolds
<1>1. ASSUME UNCHANGED <<cache, selected, page, change, left, mapping, oldest, raced>>
      PROVE  TableFollows'
  BY <1>1, SameEntriesKeep, CacheSteps
<1>2. CASE LoadSettings
  <2>1. PICK app \in AppsOf(served) :
          IF app # selected
          THEN SetSelectedAppId(app)
          ELSE UNCHANGED <<selected, apiApp, stored, cache>>
    BY <1>2, LoadSettingsResolves DEF IInv
  <2>2. app \in App
    BY AppsAreApps DEF IInv, ServerHolds
  <2>3. UNCHANGED <<page, change, left, mapping, oldest, raced>>
    BY <1>2 DEF LoadSettings, serverVars, pageVars
  <2> QED
    BY <1>0, <1>1, <2>1, <2>2, <2>3, SelectKeeps, SelectElsewhereKeeps
<1>3. CASE Focus
  BY <1>0, <1>3, FocusKeeps
<1>4. CASE DismissToast \/ \E id \in timers : RemoveToast(id)
  BY <1>1, <1>4 DEF DismissToast, RemoveToast, serverVars, selectionVars, pageVars
<1>5. ASSUME NEW app \in App, SelectApp(app) PROVE TableFollows'
  <2>1. app # selected
    BY <1>5 DEF SelectApp, Toggled
  <2>2. SetSelectedAppId(app) /\ UNCHANGED <<page, change, left, mapping, oldest, raced>>
    BY <1>5 DEF SelectApp, serverVars, pageVars
  <2> QED
    BY <1>0, <2>1, <2>2, SelectKeeps, SelectElsewhereKeeps
<1>6. CASE \E app \in App : SelectElsewhere(app)
  BY <1>1, <1>6 DEF SelectElsewhere, serverVars, pageVars
<1>7. CASE \E list \in AppList : Redeploy(list)
  BY <1>1, <1>7 DEF Redeploy, selectionVars, pageVars
<1>8. CASE GoBack \/ \E row \in Segment : OpenRow(row) \/ OpenSheet(row)
  BY <1>0, <1>8 DEF GoBack, OpenRow, OpenSheet
<1>9. CASE CloseSheet
  BY <1>0, <1>9 DEF CloseSheet
<1>10. CASE \E length \in 0..1 : FollowBreadcrumb(length)
  BY <1>0, <1>10 DEF FollowBreadcrumb
<1>11. CASE \E k \in Key : Serve(k) \/ Receive(k) \/ ReceiveError(k)
  BY <1>11, ServeKeeps, ReceiveKeeps, ReceiveErrorKeeps
<1>12. CASE \E m \in Change :
              \/ ChangeBranch(m) \/ ServeChange(m) \/ DropListings(m)
              \/ ReceiveChange(m) \/ ChangeFails(m) \/ ReportChange(m)
  BY <1>12, ChangeBranchKeeps, ServeChangeKeeps, DropListingsKeeps, ReceiveChangeKeeps,
     ChangeFailsKeeps, ReportChangeKeeps
<1>13. CASE LeaveChannels \/ OpenChannels
  BY <1>13, LeaveChannelsKeeps, OpenChannelsKeeps
<1>14. CASE UNCHANGED vars
  BY <1>1, <1>14 DEF vars, serverVars, selectionVars, pageVars
<1> QED
  BY <1>2, <1>3, <1>4, <1>5, <1>6, <1>7, <1>8, <1>9, <1>10, <1>11, <1>12, <1>13, <1>14
     DEF Next, Segment

LEMMA AlwaysChannelsInv == Spec => []ChannelsInv
<1>1. ASSUME IInv, IInv', ChannelsInv, [Next]_vars PROVE ChannelsInv'
  <2>1. OnOnePage' /\ (page' = "updates" <=> page = "updates")
    BY <1>1, StaysOnOnePage DEF ChannelsInv
  <2>2. ASSUME page # "updates" PROVE TableFollows'
    BY <1>1, <2>2, TableStillFollows DEF ChannelsInv
  <2> QED
    BY <2>1, <2>2 DEF ChannelsInv
<1> QED
  BY <1>1, InitChannels, AlwaysIInv, PTL DEF Spec

\* Channels/index.tsx: under "Branch updated" a table that shows channels of the app that
\* was changed shows the change once its fetches are over, whatever else was fetched,
\* changed or has failed meanwhile, and also after the page was left or other apps were
\* selected.  The premises are those of ShowsWhatWasSet: the table shows that app's
\* channels, which a selection can prevent, its last fetch has not failed, the page was
\* not left under another app before the answer to the change, and the server has not
\* cached a listing that it made before the change.
THEOREM TablesShowWhatWasSet == Spec => []ShowsWhatWasSet
<1>1. ASSUME IInv, ChannelsInv PROVE ShowsWhatWasSet
  <2> SUFFICES ASSUME NEW m \in Change, ReportedHere(m),
                      Settled(Channels), cache[<<Channels, selected>>].data # None,
                      cache[<<Channels, selected>>].data.of = selected,
                      selected \notin raced
               PROVE  cache[<<Channels, selected>>].data.version >= change[m].version
    BY DEF ShowsWhatWasSet
  <2>1. /\ page = "channels" /\ selected = change[m].app
        /\ change[m].at = "reported" /\ left[m] \in {None, change[m].app}
    BY DEF ReportedHere
  <2>2. TableIsNew(ChannelsOf(change[m].app), change[m])
    BY <1>1, <2>1 DEF ChannelsInv, TableFollows, ChangeFollows, RefetchedIsNew
  <2> QED
    BY <2>1, <2>2 DEF TableIsNew, Settled, ChannelsOf
<1> QED
  BY <1>1, AlwaysIInv, AlwaysChannelsInv, PTL

--------------------------------------------------------------------------------
(* Toasts *)

\* An id is its number, but for the last one, which is 0.
LEMMA Remainder ==
  ASSUME NEW M \in Nat \ {0}, NEW j \in 0..M
  PROVE  j % M = IF j = M THEN 0 ELSE j
OBVIOUS

\* The first n + 1 ids are all different.
LEMMA NewIdIsNew ==
  ASSUME NEW n \in Nat, n + 1 <= MaxChanges
  PROVE  /\ (Id(n) + 1) % IdModulus = Id(n + 1)
         /\ \A i \in 1..n : Id(i) # Id(n + 1)
<1>1. IdModulus \in Nat \ {0} /\ n + 1 \in 0..IdModulus
  <2>1. MaxChanges \in Nat /\ IdModulus \in Nat \ {0} /\ MaxChanges <= IdModulus
    BY PagesAssumption, FewToasts
  <2> QED
    BY <2>1
<1>2. ASSUME NEW i \in 1..(n + 1)
      PROVE  i % IdModulus = IF i = IdModulus THEN 0 ELSE i
  <2>1. i \in 0..IdModulus
    BY <1>1
  <2> QED
    BY <1>1, <2>1, Remainder
<1>3. n % IdModulus = n
  <2>1. n \in 0..IdModulus /\ n # IdModulus
    BY <1>1
  <2> QED
    BY <1>1, <2>1, Remainder
<1> QED
  BY <1>1, <1>2, <1>3 DEF Id

LEMMA InitToasts == Init => ToastsInv
<1> SUFFICES ASSUME Init PROVE ToastsInv
  OBVIOUS
<1>1. /\ change = [m \in Change |-> [at |-> "idle"]]
      /\ toast = None /\ count = 0 /\ timers = {} /\ used = NotUsed
  BY DEF Init
<1>2. Unreported = {}
  BY <1>1 DEF Unreported
<1>3. IsFiniteSet(Unreported) /\ Cardinality(Unreported) = 0
  BY <1>2, FS_EmptySet
<1>4. 0 \in 0..MaxChanges /\ Id(0) = 0
  BY PagesAssumption DEF Id
<1>5. used.changes = 0
  BY <1>1 DEF NotUsed
<1>6. /\ 0 + Cardinality(Unreported) <= used.changes /\ count = Id(0)
      /\ timers \subseteq {Id(i) : i \in 1..0} /\ toast = None
  BY <1>1, <1>3, <1>4, <1>5
<1> QED
  BY <1>1, <1>3, <1>4, <1>5, <1>6 DEF ToastsInv

\* Steps without a toast, in which no change begins.
LEMMA QuietSteps ==
  ASSUME ToastsInv, UNCHANGED toastVars, Unreported' = Unreported,
         DOMAIN used' = DOMAIN used, used'.changes = used.changes
  PROVE  ToastsInv'
BY DEF ToastsInv, toastVars

LEMMA BeginKeeps ==
  ASSUME IInv, ToastsInv, NEW m \in Change, ChangeBranch(m)
  PROVE  ToastsInv'
<1>1. /\ change[m].at \in {"idle", "reported", "failed"}
      /\ used.changes < MaxChanges /\ used' = [used EXCEPT !.changes = @ + 1]
      /\ change' = [change EXCEPT ![m] = [at |-> "sent", app |-> apiApp]]
      /\ UNCHANGED <<toast, count, timers>>
  BY DEF ChangeBranch, toastVars
<1>2. change'[m] = [at |-> "sent", app |-> apiApp]
      /\ \A other \in Change : other = m \/ change'[other] = change[other]
  BY <1>1, OneChange
<1>3. Unreported' = Unreported \cup {m} /\ m \notin Unreported
  BY <1>1, <1>2 DEF Unreported
<1>4. /\ IsFiniteSet(Unreported') /\ Cardinality(Unreported') = Cardinality(Unreported) + 1
      /\ Cardinality(Unreported) \in Nat
  BY <1>3, FS_AddElement, FS_CardinalityType DEF ToastsInv
<1>5. used'.changes = used.changes + 1 /\ DOMAIN used' = DOMAIN used
  BY <1>1 DEF ToastsInv, NotUsed
<1>6. MaxChanges \in Nat
  BY PagesAssumption
<1> QED
  BY <1>1, <1>4, <1>5, <1>6 DEF ToastsInv

LEMMA EndKeeps ==
  ASSUME IInv, ToastsInv, NEW m \in Change, m \in Unreported,
         Unreported' = Unreported \ {m}, UNCHANGED used,
         NEW text, AddToast(text, m)
  PROVE  ToastsInv'
<1>1. PICK n \in 0..MaxChanges :
        /\ n + Cardinality(Unreported) <= used.changes
        /\ count = Id(n)
        /\ timers \subseteq {Id(i) : i \in 1..n}
        /\ toast # None => toast.id \in {Id(i) : i \in 1..n}
  BY DEF ToastsInv
<1>2. /\ IsFiniteSet(Unreported') /\ Cardinality(Unreported') = Cardinality(Unreported) - 1
      /\ Cardinality(Unreported) \in Nat /\ Cardinality(Unreported') \in Nat
  BY FS_RemoveElement, FS_CardinalityType DEF ToastsInv
<1>3. MaxChanges \in Nat /\ used.changes \in 0..MaxChanges
  BY PagesAssumption DEF ToastsInv
<1>4. n + 1 \in 0..MaxChanges /\ n + 1 + Cardinality(Unreported') <= used.changes
  BY <1>1, <1>2, <1>3
<1>5. GenId = Id(n + 1) /\ \A i \in 1..n : Id(i) # Id(n + 1)
  BY <1>1, <1>3, <1>4, NewIdIsNew DEF GenId
<1>6. /\ count' = Id(n + 1) /\ timers' = timers
      /\ toast' = [id |-> Id(n + 1), open |-> TRUE, text |-> text, about |-> m]
  BY <1>5 DEF AddToast
<1>7. toast'.id = Id(n + 1)
  BY <1>6
<1>8. timers' \subseteq {Id(i) : i \in 1..(n + 1)} /\ toast'.id \in {Id(i) : i \in 1..(n + 1)}
  BY <1>1, <1>4, <1>6, <1>7
<1>9. toast'.id \notin timers'
  BY <1>1, <1>5, <1>6, <1>7
<1>10. DOMAIN used' = DOMAIN NotUsed /\ used'.changes \in 0..MaxChanges
  BY DEF ToastsInv
<1> QED
  BY <1>2, <1>4, <1>6, <1>8, <1>9, <1>10 DEF ToastsInv

LEMMA DismissKeeps ==
  ASSUME IInv, ToastsInv, DismissToast \/ \E id \in timers : RemoveToast(id)
  PROVE  ToastsInv'
<1>1. Unreported' = Unreported /\ UNCHANGED <<count, used>>
  BY DEF DismissToast, RemoveToast, Unreported
<1>2. PICK n \in 0..MaxChanges :
        /\ n + Cardinality(Unreported) <= used.changes
        /\ count = Id(n)
        /\ timers \subseteq {Id(i) : i \in 1..n}
        /\ toast # None => toast.id \in {Id(i) : i \in 1..n}
  BY DEF ToastsInv
<1>3. /\ timers' \subseteq {Id(i) : i \in 1..n}
      /\ toast' # None => toast'.id \in {Id(i) : i \in 1..n}
      /\ toast' # None /\ toast'.open => toast'.id \notin timers'
  <2>1. CASE DismissToast
    <3>1. toast # None /\ timers' = timers \cup {toast.id}
          /\ toast' = [toast EXCEPT !.open = FALSE]
      BY <2>1 DEF DismissToast
    <3>2. toast \in Toast
      BY <3>1 DEF IInv, ToastsHold
    <3>3. toast'.id = toast.id /\ ~toast'.open
      BY <3>1, <3>2 DEF Toast
    <3> QED
      BY <1>2, <3>1, <3>3
  <2>2. CASE \E id \in timers : RemoveToast(id)
    BY <1>2, <2>2 DEF RemoveToast, ToastsInv
  <2> QED
    BY <2>1, <2>2
<1> QED
  BY <1>1, <1>2, <1>3 DEF ToastsInv

LEMMA ToastsKeep ==
  ASSUME IInv, ToastsInv, [Next]_vars
  PROVE  ToastsInv'
<1>1. ASSUME UNCHANGED toastVars, UNCHANGED change,
             DOMAIN used' = DOMAIN used, used'.changes = used.changes
      PROVE  ToastsInv'
  BY <1>1, QuietSteps DEF Unreported
<1>2. ASSUME UNCHANGED toastVars, UNCHANGED change, UNCHANGED used
      PROVE  ToastsInv'
  BY <1>1, <1>2
<1>3. ASSUME NEW field \in {"selections", "redeploys", "clicks", "incidents"},
             UNCHANGED toastVars, UNCHANGED change, used' = [used EXCEPT ![field] = @ + 1]
      PROVE  ToastsInv'
  <2>1. DOMAIN used' = DOMAIN used /\ used'.changes = used.changes
    BY <1>3 DEF ToastsInv, NotUsed
  <2> QED
    BY <1>1, <1>3, <2>1
<1>4. CASE LoadSettings \/ CloseSheet \/ OpenChannels
  BY <1>2, <1>4 DEF LoadSettings, CloseSheet, OpenChannels
<1>5. CASE Focus \/ LeaveChannels
  BY <1>3, <1>5 DEF Focus, LeaveChannels
<1>6. CASE DismissToast \/ \E id \in timers : RemoveToast(id)
  BY <1>6, DismissKeeps
<1>7. CASE \E app \in App : SelectApp(app) \/ SelectElsewhere(app)
  BY <1>3, <1>7 DEF SelectApp, SelectElsewhere
<1>8. CASE \E list \in AppList : Redeploy(list)
  BY <1>3, <1>8 DEF Redeploy
<1>9. CASE GoBack \/ \E length \in 0..1 : FollowBreadcrumb(length)
  BY <1>3, <1>9 DEF GoBack, FollowBreadcrumb
<1>10. CASE \E row \in Segment : OpenRow(row) \/ OpenSheet(row)
  BY <1>3, <1>10 DEF OpenRow, OpenSheet
<1>11. CASE \E k \in Key : Serve(k) \/ Receive(k)
  BY <1>2, <1>11 DEF Serve, Receive
<1>12. CASE \E k \in Key : ReceiveError(k)
  BY <1>2, <1>3, <1>12 DEF ReceiveError
<1>13. ASSUME NEW m \in Change, ChangeBranch(m) PROVE ToastsInv'
  BY <1>13, BeginKeeps
<1>14. ASSUME NEW m \in Change, ServeChange(m) \/ DropListings(m) \/ ReceiveChange(m)
       PROVE  ToastsInv'
  <2>1. PICK c : /\ change' = [change EXCEPT ![m] = c]
                 /\ c.at \in {"sent", "served", "answered", "refetching"}
    <3>1. CASE ServeChange(m)
      <4> DEFINE c == [at |-> "served", app |-> change[m].app,
                       version |-> mapping[change[m].app] + 1]
      <4>1. change' = [change EXCEPT ![m] = c] /\ c.at = "served"
        BY <3>1 DEF ServeChange
      <4> HIDE DEF c
      <4> QED
        BY <4>1
    <3>2. CASE DropListings(m)
      <4> DEFINE c == [at |-> "answered", app |-> change[m].app,
                       version |-> change[m].version]
      <4>1. change' = [change EXCEPT ![m] = c] /\ c.at = "answered"
        BY <3>2, Advanced DEF DropListings, IInv
      <4> HIDE DEF c
      <4> QED
        BY <4>1
    <3>3. CASE ReceiveChange(m)
      <4> DEFINE c == [at |-> "refetching", app |-> change[m].app,
                       version |-> change[m].version]
      <4>1. change' = [change EXCEPT ![m] = c] /\ c.at = "refetching"
        BY <3>3, Advanced DEF ReceiveChange, IInv
      <4> HIDE DEF c
      <4> QED
        BY <4>1
    <3> QED
      BY <1>14, <3>1, <3>2, <3>3
  <2>2. change[m].at \in {"sent", "served", "answered"}
        /\ UNCHANGED toastVars /\ UNCHANGED used
    BY <1>14 DEF ServeChange, DropListings, ReceiveChange
  <2>3. change'[m] = c /\ \A other \in Change : other = m \/ change'[other] = change[other]
    BY <2>1, OneChange
  <2>4. Unreported' = Unreported
    BY <2>1, <2>2, <2>3 DEF Unreported
  <2> QED
    BY <2>2, <2>4, QuietSteps
<1>15. ASSUME NEW m \in Change, ChangeFails(m) \/ ReportChange(m) PROVE ToastsInv'
  <2>1. PICK c : change' = [change EXCEPT ![m] = c] /\ c.at \in {"failed", "reported"}
    <3>1. CASE ChangeFails(m)
      <4> DEFINE c == [at |-> "failed"]
      <4>1. change' = [change EXCEPT ![m] = c] /\ c.at = "failed"
        BY <3>1 DEF ChangeFails
      <4> HIDE DEF c
      <4> QED
        BY <4>1
    <3>2. CASE ReportChange(m)
      <4> DEFINE c == [at |-> "reported", app |-> change[m].app,
                       version |-> change[m].version]
      <4>1. change' = [change EXCEPT ![m] = c] /\ c.at = "reported"
        BY <3>2, Advanced DEF ReportChange, IInv
      <4> HIDE DEF c
      <4> QED
        BY <4>1
    <3> QED
      BY <1>15, <3>1, <3>2
  <2>2. /\ change[m].at \in {"sent", "served", "answered", "refetching"} /\ UNCHANGED used
        /\ \E text \in {"Branch updated", "Error updating branch"} : AddToast(text, m)
    BY <1>15 DEF ChangeFails, ReportChange
  <2>3. change'[m] = c /\ \A other \in Change : other = m \/ change'[other] = change[other]
    BY <2>1, OneChange
  <2>4. m \in Unreported /\ Unreported' = Unreported \ {m}
    BY <2>1, <2>2, <2>3 DEF Unreported
  <2> QED
    BY <2>2, <2>4, EndKeeps
<1>16. CASE UNCHANGED vars
  BY <1>2, <1>16 DEF vars, toastVars
<1> QED
  BY <1>4, <1>5, <1>6, <1>7, <1>8, <1>9, <1>10, <1>11, <1>12, <1>13, <1>14, <1>15, <1>16
     DEF Next, Segment

LEMMA AlwaysToastsInv == Spec => []ToastsInv
BY InitToasts, ToastsKeep, AlwaysIInv, PTL DEF Spec

\* The invariant behind both theorems: a fetch that the server may have answered before a
\* change is cancelled by the time that change is reported, and the ids of the toasts
\* shown so far are all different.
THEOREM PagesInvariant == Spec => []Inv
BY AlwaysChannelsInv, AlwaysToastsInv, PTL DEF Inv

\* use-toast.ts: a toast that nobody dismissed is not removed by the timer of an earlier
\* one, for their ids differ; the next toast may take its place.
THEOREM ToastsStay == Spec => OnlyDismissedVanish
<1>1. ASSUME IInv, ToastsInv, [Next]_vars, toast # None, toast' = None
      PROVE  ~toast.open
  <2>1. ASSUME NEW id \in timers, RemoveToast(id)
        PROVE  ~toast.open
    BY <1>1, <2>1 DEF RemoveToast, ToastsInv
  <2>2. CASE DismissToast
    <3>1. toast \in Toast /\ toast' = [toast EXCEPT !.open = FALSE]
      BY <1>1, <2>2 DEF DismissToast, IInv, ToastsHold
    <3>2. toast' \in Toast
      BY <3>1 DEF Toast
    <3> QED
      BY <1>1, <3>2, NoneIsNothing
  <2>3. ASSUME NEW m \in Change, NEW text \in {"Branch updated", "Error updating branch"},
               AddToast(text, m)
        PROVE  FALSE
    <3>1. ToastsHold'
      BY <1>1, <2>3, AddToastHolds DEF IInv
    <3>2. toast' = [id |-> GenId, open |-> TRUE, text |-> text, about |-> m]
          /\ GenId \in 0..(IdModulus - 1)
      BY <1>1, <2>3, <3>1 DEF AddToast, ToastsHold
    <3>3. toast' \in Toast
      BY <3>2 DEF Toast
    <3> QED
      BY <1>1, <3>3, NoneIsNothing
  <2>4. CASE UNCHANGED toastVars
    BY <1>1, <2>4 DEF toastVars
  <2>5. \/ UNCHANGED toastVars \/ DismissToast \/ \E id \in timers : RemoveToast(id)
        \/ \E m \in Change, text \in {"Branch updated", "Error updating branch"} :
             AddToast(text, m)
    BY <1>1
       DEF Next, vars, LoadSettings, Focus, LeaveChannels, OpenChannels, SelectApp, SelectElsewhere, Redeploy, OpenRow,
           OpenSheet, GoBack, CloseSheet, FollowBreadcrumb, Serve, Receive, ReceiveError,
           ChangeBranch, ServeChange, DropListings, ReceiveChange, ChangeFails, ReportChange
  <2> QED
    BY <2>1, <2>2, <2>3, <2>4, <2>5
<1> QED
  BY <1>1, AlwaysIInv, AlwaysToastsInv, PTL DEF Spec, OnlyDismissedVanish

================================================================================
