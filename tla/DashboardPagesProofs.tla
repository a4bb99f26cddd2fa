-------------------------- MODULE DashboardPagesProofs --------------------------
(***************************************************************************)
(* Theorems about the types of the state, the selected app and the sheet   *)
(* of an update, for any apps with any updates, any bounds and any number  *)
(* of changes.                                                             *)
(***************************************************************************)
EXTENDS DashboardPages, SequenceTheorems, TLAPS

USE DEF changeVars

\* What a place is made of.
Segment == UNION {{t[1], t[2], t[3]} : t \in Path}

ServerHolds ==
  /\ served \in AppList
  /\ mapping \in [App -> Nat] /\ oldest \in [App -> Nat]
  /\ raced \subseteq App

SelectionHolds ==
  /\ apps \in AppList \cup {<<>>}
  /\ stored \in App \cup {None}
  /\ SelectionIsOffered

PlaceHolds ==
  /\ page \in {"channels", "updates", "elsewhere"}
  /\ place \in Place
  /\ sheet # None => Len(place) = 2 /\ sheet \in {t[3] : t \in Path}

\* What is kept under the key of details has the UUID of that key.
AboutHolds(k, about) ==
  /\ about \in About
  /\ k[1][1] = "details" => Uuid[about[3]] = k[1][2]

FetchHolds(k, fetch) == fetch \in Fetching /\ AboutHolds(k, fetch.about)

EntryHolds(k, entry) ==
  /\ entry \in Entry
  /\ entry.fetch # None => AboutHolds(k, entry.fetch.about)
  /\ entry.data # None => AboutHolds(k, entry.data.about)

EntriesHold(entries) ==
  entries \in [Key -> Entry] /\ \A k \in Key : EntryHolds(k, entries[k])

ChangesHold ==
  /\ change \in [Change -> ChangeState]
  /\ left \in [Change -> App \cup {None}]

ToastsHold ==
  /\ toast \in Toast \cup {None}
  /\ count \in 0..(IdModulus - 1) /\ timers \subseteq 0..(IdModulus - 1)

IInv ==
  ServerHolds /\ SelectionHolds /\ PlaceHolds /\ EntriesHold(cache) /\ ChangesHold /\ ToastsHold

--------------------------------------------------------------------------------
(* The selection *)

LEMMA AppsAreApps ==
  ASSUME NEW list \in AppList \cup {<<>>}
  PROVE  AppsOf(list) \subseteq App /\ None \notin AppsOf(list)
BY PagesAssumption, NoneAssumption DEF AppsOf

LEMMA FirstIsOffered ==
  ASSUME NEW list \in AppList
  PROVE  list # <<>> /\ list[1] \in AppsOf(list)
<1>1. list \in Seq(App) /\ list # <<>>
  BY PagesAssumption
<1> QED
  BY <1>1 DEF AppsOf

LEMMA SelectedIsApp ==
  ASSUME SelectionHolds, selected # None
  PROVE  selected \in App /\ apiApp \in App
BY AppsAreApps DEF SelectionHolds, SelectionIsOffered

\* A server has an app, so that loading its list selects one, or has done so.
LEMMA LoadSettingsResolves ==
  ASSUME ServerHolds, LoadSettings
  PROVE  \E app \in AppsOf(served) :
           IF app # selected
           THEN SetSelectedAppId(app)
           ELSE UNCHANGED <<selected, apiApp, stored, cache>>
<1> DEFINE initial == IF stored \in AppsOf(served) THEN stored ELSE served[1]
<1>1. initial \in AppsOf(served) /\ served # <<>>
  BY FirstIsOffered DEF ServerHolds
<1>2. ResolveSelection(served)
  BY DEF LoadSettings
<1> HIDE DEF initial
<1>3. IF initial # selected
      THEN SetSelectedAppId(initial)
      ELSE UNCHANGED <<selected, apiApp, stored, cache>>
  BY <1>1, <1>2 DEF ResolveSelection, initial
<1> QED
  BY <1>1, <1>3

LEMMA LoadSettingsSelects ==
  ASSUME ServerHolds, SelectionHolds, LoadSettings
  PROVE  SelectionHolds'
<1>1. served \in AppList /\ served # <<>> /\ apps' = served
  BY FirstIsOffered DEF ServerHolds, LoadSettings
<1>2. PICK app \in AppsOf(served) :
        IF app # selected
        THEN SetSelectedAppId(app)
        ELSE UNCHANGED <<selected, apiApp, stored, cache>>
  BY LoadSettingsResolves
<1>3. app \in App /\ app # None
  BY <1>1, AppsAreApps
<1>4. selected' = app /\ apiApp' = app /\ stored' \in App \cup {None}
  BY <1>2, <1>3 DEF SetSelectedAppId, SelectionHolds, SelectionIsOffered
<1> QED
  BY <1>1, <1>2, <1>3, <1>4 DEF SelectionHolds, SelectionIsOffered

LEMMA SelectAppSelects ==
  ASSUME SelectionHolds, NEW app \in App, SelectApp(app)
  PROVE  SelectionHolds'
<1>1. app # None
  BY NoneAssumption
<1>2. apps' = apps /\ selected' = app /\ apiApp' = app /\ stored' = app /\ app \in AppsOf(apps)
  BY DEF SelectApp, SetSelectedAppId
<1>3. apps # <<>>
  BY <1>2 DEF AppsOf
<1> QED
  BY <1>1, <1>2, <1>3 DEF SelectionHolds, SelectionIsOffered

\* The steps that leave the selection alone, but for what another tab has stored.
LEMMA OthersSelect ==
  ASSUME SelectionHolds, stored' \in App \cup {None},
         \/ UNCHANGED <<apps, selected, apiApp>>
         \/ apps' = <<>> /\ selected' = None /\ apiApp' = None
  PROVE  SelectionHolds'
BY DEF SelectionHolds, SelectionIsOffered

--------------------------------------------------------------------------------
(* The place *)

LEMMA ShortSequences ==
  ASSUME NEW S, NEW s \in Seq(S)
  PROVE  /\ Len(s) = 0 => s = <<>>
         /\ Len(s) = 1 => s = <<s[1]>>
         /\ Len(s) = 2 => s = <<s[1], s[2]>>
BY LenProperties

LEMMA PathForm ==
  ASSUME NEW t \in Path
  PROVE  t = <<t[1], t[2], t[3]>> /\ {t[1], t[2], t[3]} \subseteq Segment
BY PagesAssumption DEF Path, Segment

LEMMA Prefixes ==
  ASSUME NEW t \in Path
  PROVE  /\ SubSeq(t, 1, 0) = <<>>
         /\ SubSeq(t, 1, 1) = <<t[1]>>
         /\ SubSeq(t, 1, 2) = <<t[1], t[2]>>
<1>1. t \in Seq(Segment) /\ Len(t) = 3
  BY PathForm
<1>2. SubSeq(t, 1, 0) = <<>>
  BY SubSeqEmpty
<1>3. SubSeq(t, 1, 1) \in Seq(Segment) /\ Len(SubSeq(t, 1, 1)) = 1 /\ SubSeq(t, 1, 1)[1] = t[1]
  BY PathForm, SubSeqProperties
<1>4. /\ SubSeq(t, 1, 2) \in Seq(Segment) /\ Len(SubSeq(t, 1, 2)) = 2
      /\ SubSeq(t, 1, 2)[1] = t[1] /\ SubSeq(t, 1, 2)[2] = t[2]
  BY PathForm, SubSeqProperties
<1>5. SubSeq(t, 1, 1) = <<t[1]>>
  BY <1>3, ShortSequences
<1>6. SubSeq(t, 1, 2) = <<t[1], t[2]>>
  BY <1>4, ShortSequences
<1> QED
  BY <1>2, <1>5, <1>6

LEMMA PlaceForm ==
  ASSUME NEW p
  PROVE  p \in Place <=> p = <<>> \/ \E t \in Path : p = <<t[1]>> \/ p = <<t[1], t[2]>>
BY Prefixes DEF Place

LEMMA PlaceIsSeq ==
  ASSUME NEW p \in Place
  PROVE  p \in Seq(Segment) /\ Len(p) \in 0..2
<1>1. CASE p = <<>>
  BY <1>1
<1>2. ASSUME NEW t \in Path, p = <<t[1]>> \/ p = <<t[1], t[2]>>
      PROVE  p \in Seq(Segment) /\ Len(p) \in 0..2
  BY <1>2, PathForm
<1> QED
  BY <1>1, <1>2, PlaceForm

LEMMA ShorterPlace ==
  ASSUME NEW p \in Place, NEW n \in 0..Len(p)
  PROVE  SubSeq(p, 1, n) \in Place /\ Len(SubSeq(p, 1, n)) = n
<1>0. p \in Seq(Segment) /\ Len(p) \in 0..2
  BY PlaceIsSeq
<1>1. CASE n = 0
  <2>1. SubSeq(p, 1, n) = <<>>
    BY <1>1, SubSeqEmpty
  <2>2. <<>> \in Place
    BY PlaceForm
  <2> QED
    BY <1>1, <2>1, <2>2
<1>2. CASE n = Len(p)
  <2>1. SubSeq(p, 1, n) = p
    BY <1>0, <1>2, SubSeqProperties, LenProperties
  <2> QED
    BY <1>0, <1>2, <2>1
<1>3. CASE n = 1 /\ Len(p) = 2
  <2>1. PICK t \in Path : p = <<t[1], t[2]>>
    BY <1>3, PlaceForm
  <2>2. p[1] = t[1] /\ p[1] \in Segment
    BY <2>1, PathForm
  <2>3. /\ SubSeq(p, 1, 1) \in Seq(Segment) /\ Len(SubSeq(p, 1, 1)) = 1
        /\ SubSeq(p, 1, 1)[1] = p[1]
    BY <2>2, SubSeqProperties
  <2>4. SubSeq(p, 1, 1) = <<t[1]>>
    BY <2>2, <2>3, ShortSequences
  <2> QED
    BY <1>3, <2>3, <2>4, PlaceForm
<1>4. n = 0 \/ n = Len(p) \/ (n = 1 /\ Len(p) = 2)
  <2>1. CASE Len(p) = 0
    BY <2>1
  <2>2. CASE Len(p) = 1
    BY <2>2
  <2>3. CASE Len(p) = 2
    BY <2>3
  <2> QED
    BY <1>0, <2>1, <2>2, <2>3
<1> QED
  BY <1>1, <1>2, <1>3, <1>4

LEMMA LongerPlace ==
  ASSUME NEW p \in Place, Len(p) < 2, NEW t \in Path, SubSeq(t, 1, Len(p)) = p
  PROVE  Append(p, t[Len(p) + 1]) \in Place
<1>1. CASE Len(p) = 0
  <2>1. p = <<>>
    BY <1>1, Prefixes
  <2> QED
    BY <1>1, <2>1, PlaceForm
<1>2. CASE Len(p) = 1
  <2>1. p = <<t[1]>>
    BY <1>2, Prefixes
  <2>2. t[Len(p) + 1] = t[2]
    BY <1>2
  <2>3. Append(<<t[1]>>, t[2]) = <<t[1], t[2]>>
    <3>1. <<t[1]>> \in Seq(Segment) /\ t[2] \in Segment /\ Len(<<t[1]>>) = 1
      BY PathForm
    <3>2. /\ Append(<<t[1]>>, t[2]) \in Seq(Segment) /\ Len(Append(<<t[1]>>, t[2])) = 2
          /\ Append(<<t[1]>>, t[2])[1] = t[1] /\ Append(<<t[1]>>, t[2])[2] = t[2]
      BY <3>1, AppendProperties
    <3> QED
      BY <3>2, ShortSequences
  <2> QED
    BY <2>1, <2>2, <2>3, PlaceForm
<1> QED
  BY <1>1, <1>2, PlaceIsSeq

LEMMA NoDetailsInTable ==
  ASSUME NEW p \in Place
  PROVE  Listing(p)[1] # "details"
<1>1. Len(p) \in 0..2 /\ p \in Seq(Segment)
  BY PlaceIsSeq
<1>2. <<"branches", "versions", "updates">>[Len(p) + 1] # "details"
  <2>1. CASE Len(p) = 0
    BY <2>1
  <2>2. CASE Len(p) = 1
    BY <2>2
  <2>3. CASE Len(p) = 2
    BY <2>3
  <2> QED
    BY <1>1, <2>1, <2>2, <2>3
<1> DEFINE name == <<"branches", "versions", "updates">>[Len(p) + 1]
<1>3. Listing(p)[1] = name
  <2>1. p \in Seq(Segment \cup {name}) /\ <<name>> \in Seq(Segment \cup {name})
    BY <1>1
  <2> HIDE DEF name
  <2>2. (<<name>> \o p)[1] = name
    BY <1>1, <2>1, ConcatProperties
  <2> QED
    BY <2>2 DEF Listing, name
<1> QED
  BY <1>2, <1>3

LEMMA DetailsQuery ==
  ASSUME NEW u
  PROVE  Details(u)[1] = "details" /\ Details(u)[2] = Uuid[u]
BY DEF Details

LEMMA PlacesAreAsked ==
  ASSUME NEW p \in Place
  PROVE  p \in About /\ <<>> \in About
BY DEF About, Place

LEMMA DetailsAreAsked ==
  ASSUME NEW p \in Place, Len(p) = 2, NEW u \in {t[3] : t \in Path}
  PROVE  Append(p, u) \in About /\ Append(p, u)[3] = u
<1>1. p \in Seq(Segment) /\ u \in Segment
  BY PlaceIsSeq DEF Segment
<1>2. Append(p, u)[Len(p) + 1] = u
  BY <1>1, AppendProperties
<1>3. Len(p) + 1 = 3
  OBVIOUS
<1>4. Append(p, u)[3] = u
  BY <1>2, <1>3
<1>5. Append(p, u) \in About
  BY DEF About
<1> QED
  BY <1>4, <1>5

\* A table asks for its place.
LEMMA ListingAsks ==
  ASSUME NEW p \in Place
  PROVE  Tail(Listing(p)) = p
<1> DEFINE name == <<"branches", "versions", "updates">>[Len(p) + 1]
           T == Segment \cup {name}
<1>1. p \in Seq(T) /\ <<name>> \in Seq(T) /\ Len(<<name>>) = 1
  BY PlaceIsSeq
<1> HIDE DEF name
<1> DEFINE l == <<name>> \o p
<1>2. /\ l \in Seq(T) /\ Len(l) = Len(p) + 1
      /\ \A i \in 1..Len(p) : l[i + 1] = p[i]
  BY <1>1, ConcatProperties
<1> HIDE DEF l
<1>3. l # <<>>
  BY <1>1, <1>2
<1>4. /\ Tail(l) \in Seq(T) /\ Len(Tail(l)) = Len(l) - 1
      /\ \A i \in 1..Len(Tail(l)) : Tail(l)[i] = l[i + 1]
  BY <1>2, <1>3, HeadTailProperties
<1>5. Len(Tail(l)) = Len(p) /\ \A i \in 1..Len(p) : Tail(l)[i] = p[i]
  BY <1>1, <1>2, <1>4
<1>6. Tail(l) = p
  BY <1>1, <1>4, <1>5, SeqEqual
<1> QED
  BY <1>6 DEF Listing, l, name

LEMMA ChannelsAsk == Tail(Channels) = <<>> /\ Channels[1] # "details"
BY DEF Channels

\* What the queries on the page ask for is what their keys say.
LEMMA MountedAsk ==
  ASSUME PlaceHolds, NEW x, NEW k \in Mounted(x)
  PROVE  AboutHolds(k, Asked(k[1]))
<1>1. k[1] = Table \/ (sheet # None /\ k[1] = Details(sheet))
  BY DEF Mounted
<1>2. CASE k[1] = Table
  <2>1. Table[1] # "details" /\ Tail(Table) \in About
    <3>1. CASE page = "channels"
      BY <3>1, ChannelsAsk, PlacesAreAsked DEF PlaceHolds, Table
    <3>2. CASE page # "channels"
      BY <3>2, NoDetailsInTable, ListingAsks, PlacesAreAsked DEF PlaceHolds, Table
    <3> QED
      BY <3>1, <3>2
  <2> QED
    BY <1>2, <2>1 DEF Asked, AboutHolds
<1>3. CASE sheet # None /\ k[1] = Details(sheet)
  <2>1. Append(place, sheet) \in About /\ Append(place, sheet)[3] = sheet
    BY <1>3, DetailsAreAsked DEF PlaceHolds
  <2> QED
    BY <1>3, <2>1, DetailsQuery DEF Asked, AboutHolds
<1> QED
  BY <1>1, <1>2, <1>3

LEMMA PlaceSteps ==
  ASSUME PlaceHolds, page' = page \/ page' \in {"channels", "elsewhere"},
         \/ UNCHANGED <<place, sheet>>
         \/ sheet' = None /\ UNCHANGED place
         \/ /\ sheet' = None
            /\ \E n \in 0..Len(place) : place' = SubSeq(place, 1, n)
  PROVE  PlaceHolds'
BY ShorterPlace DEF PlaceHolds

--------------------------------------------------------------------------------
(* Entries *)

LEMMA EmptyHolds == ASSUME NEW k PROVE EntryHolds(k, Empty)
BY DEF EntryHolds, Empty, Entry

LEMMA EmptyIsEntry == Empty \in Entry
BY DEF Empty, Entry

LEMMA NewFetchHolds ==
  ASSUME NEW k, NEW app \in App, NEW about, AboutHolds(k, about)
  PROVE  FetchHolds(k, [of |-> app, about |-> about, version |-> None, awaited |-> {}])
BY DEF FetchHolds, AboutHolds, Fetching

LEMMA WithFetchHolds ==
  ASSUME NEW k, NEW entry, EntryHolds(k, entry), NEW fetch, FetchHolds(k, fetch)
  PROVE  EntryHolds(k, [entry EXCEPT !.fetch = fetch])
<1>1. [entry EXCEPT !.fetch = fetch] \in Entry
  BY DEF EntryHolds, FetchHolds, Entry
<1> QED
  BY <1>1 DEF EntryHolds, FetchHolds, Entry

\* A fetch is under way after Fetch.
LEMMA FetchedHolds ==
  ASSUME NEW k, NEW entry, EntryHolds(k, entry), NEW app \in App, NEW about,
         AboutHolds(k, about), NEW cancel
  PROVE  /\ EntryHolds(k, Fetch(entry, app, about, cancel))
         /\ FetchHolds(k, Fetch(entry, app, about, cancel).fetch)
<1> DEFINE new == [of |-> app, about |-> about, version |-> None, awaited |-> {}]
           after == [entry EXCEPT !.fetch = new]
<1>1. FetchHolds(k, new)
  BY NewFetchHolds
<1> HIDE DEF new
<1>2. after.fetch = new /\ EntryHolds(k, after)
  BY <1>1, WithFetchHolds DEF EntryHolds, Entry
<1>3. CASE entry.fetch # None /\ (entry.data = None \/ ~cancel)
  <2>1. Fetch(entry, app, about, cancel) = entry
    BY <1>3 DEF Fetch
  <2>2. FetchHolds(k, entry.fetch)
    BY <1>3 DEF EntryHolds, FetchHolds, Entry
  <2> QED
    BY <2>1, <2>2
<1>4. CASE ~(entry.fetch # None /\ (entry.data = None \/ ~cancel))
  <2>1. Fetch(entry, app, about, cancel) = after
    BY <1>4 DEF Fetch, new
  <2> QED
    BY <1>1, <1>2, <2>1
<1> QED
  BY <1>3, <1>4

LEMMA RefetchedHold ==
  ASSUME PlaceHolds, NEW entries, EntriesHold(entries), NEW x, NEW app \in App, NEW cancel
  PROVE  EntriesHold(Refetched(entries, Mounted(x), app, cancel))
<1> DEFINE after == Refetched(entries, Mounted(x), app, cancel)
<1>1. ASSUME NEW k \in Key
      PROVE  EntryHolds(k, after[k])
  <2>1. EntryHolds(k, entries[k])
    BY DEF EntriesHold
  <2>2. CASE k \in Mounted(x)
    <3>1. after[k] = Fetch(entries[k], app, Asked(k[1]), cancel)
      BY <2>2 DEF Refetched
    <3> QED
      BY <2>1, <2>2, <3>1, MountedAsk, FetchedHolds
  <2>3. CASE k \notin Mounted(x)
    BY <2>1, <2>3 DEF Refetched
  <2> QED
    BY <2>2, <2>3
<1>2. after \in [Key -> Entry]
  BY <1>1 DEF Refetched, EntryHolds
<1> QED
  BY <1>1, <1>2 DEF EntriesHold

\* A step that changes one entry.
LEMMA OneEntryHolds ==
  ASSUME EntriesHold(cache), NEW k, NEW entry, EntryHolds(k, entry),
         cache' = [cache EXCEPT ![k] = entry]
  PROVE  EntriesHold(cache)'
<1>1. entry \in Entry
  BY DEF EntryHolds
<1> QED
  BY <1>1 DEF EntriesHold

LEMMA SetSelectedKeeps ==
  ASSUME PlaceHolds, EntriesHold(cache), NEW app \in App, SetSelectedAppId(app)
  PROVE  EntriesHold(cache)'
<1> DEFINE first == Refetched(cache, Mounted(selected), app, TRUE)
<1>1. EntriesHold(first)
  BY RefetchedHold
<1>2. EntriesHold(Refetched(first, Mounted(app), app, FALSE))
  BY <1>1, RefetchedHold
<1>3. cache' = Refetched(first, Mounted(app), app, FALSE)
  BY DEF SetSelectedAppId
<1> QED
  BY <1>2, <1>3 DEF EntriesHold

LEMMA LoadSettingsEntries ==
  ASSUME IInv, LoadSettings
  PROVE  EntriesHold(cache)'
<1>1. PICK app \in AppsOf(served) :
        IF app # selected
        THEN SetSelectedAppId(app)
        ELSE UNCHANGED <<selected, apiApp, stored, cache>>
  BY LoadSettingsResolves DEF IInv
<1>2. app \in App
  BY AppsAreApps DEF IInv, ServerHolds
<1>3. CASE SetSelectedAppId(app)
  BY <1>2, <1>3, SetSelectedKeeps DEF IInv
<1>4. CASE cache' = cache
  BY <1>4 DEF IInv, EntriesHold
<1> QED
  BY <1>1, <1>3, <1>4

LEMMA FocusEntries ==
  ASSUME IInv, Focus
  PROVE  EntriesHold(cache)'
<1>1. cache' = Refetched(cache, Mounted(selected), apiApp, FALSE)
  BY DEF Focus
<1>2. CASE selected = None
  <2>1. \A k \in Key : cache'[k] = cache[k]
    BY <1>1, <1>2 DEF Refetched, Mounted
  <2> QED
    BY <1>1, <2>1 DEF IInv, EntriesHold, Refetched
<1>3. CASE selected # None
  <2>1. EntriesHold(Refetched(cache, Mounted(selected), apiApp, FALSE))
    BY <1>3, SelectedIsApp, RefetchedHold DEF IInv
  <2> QED
    BY <1>1, <2>1 DEF EntriesHold
<1> QED
  BY <1>2, <1>3

LEMMA ServeEntries ==
  ASSUME IInv, NEW k \in Key, Serve(k)
  PROVE  EntriesHold(cache)'
<1>1. EntryHolds(k, cache[k]) /\ FetchHolds(k, cache[k].fetch) /\ DOMAIN cache = Key
  BY DEF IInv, EntriesHold, EntryHolds, FetchHolds, Entry, Serve
<1>2. PICK version \in oldest[cache[k].fetch.of]..mapping[cache[k].fetch.of] :
        cache' = [cache EXCEPT ![k].fetch.version = version]
  BY DEF Serve
<1> DEFINE fetch == [cache[k].fetch EXCEPT !.version = version]
<1>3. version \in Nat
  <2>1. cache[k].fetch.of \in App
    BY <1>1 DEF FetchHolds, Fetching
  <2> QED
    BY <2>1, <1>2 DEF IInv, ServerHolds
<1>4. FetchHolds(k, fetch)
  BY <1>1, <1>3 DEF FetchHolds, Fetching
<1>5. EntryHolds(k, [cache[k] EXCEPT !.fetch = fetch])
  BY <1>1, <1>4, WithFetchHolds
<1>6. cache' = [cache EXCEPT ![k] = [cache[k] EXCEPT !.fetch = fetch]]
  BY <1>2
<1> QED
  BY <1>5, <1>6, OneEntryHolds DEF IInv

LEMMA ReceiveEntries ==
  ASSUME IInv, NEW k \in Key, Receive(k)
  PROVE  EntriesHold(cache)'
<1>1. FetchHolds(k, cache[k].fetch)
  BY DEF IInv, EntriesHold, EntryHolds, FetchHolds, Entry, Receive
<1> DEFINE data == [of |-> cache[k].fetch.of, about |-> cache[k].fetch.about,
                    version |-> cache[k].fetch.version]
<1>2. data \in Data
  BY <1>1 DEF FetchHolds, Fetching, Data, Receive
<1>3. AboutHolds(k, data.about)
  BY <1>1 DEF FetchHolds
<1>4. cache' = [cache EXCEPT ![k] = [data |-> data, failed |-> FALSE, fetch |-> None]]
  BY DEF Receive
<1> HIDE DEF data
<1>5. EntryHolds(k, [data |-> data, failed |-> FALSE, fetch |-> None])
  BY <1>2, <1>3 DEF EntryHolds, Entry
<1> QED
  BY <1>4, <1>5, OneEntryHolds DEF IInv

LEMMA ReceiveErrorEntries ==
  ASSUME IInv, NEW k \in Key, ReceiveError(k)
  PROVE  EntriesHold(cache)'
<1> DEFINE entry == [cache[k] EXCEPT !.fetch = None, !.failed = TRUE]
<1>1. EntryHolds(k, cache[k]) /\ DOMAIN cache = Key
  BY DEF IInv, EntriesHold
<1>2. entry \in Entry /\ entry.fetch = None /\ entry.data = cache[k].data
  BY <1>1 DEF EntryHolds, Entry
<1>3. cache' = [cache EXCEPT ![k] = entry]
  BY <1>1 DEF ReceiveError
<1> HIDE DEF entry
<1>4. EntryHolds(k, entry)
  BY <1>1, <1>2 DEF EntryHolds
<1> QED
  BY <1>3, <1>4, OneEntryHolds DEF IInv

LEMMA AwaitedHolds ==
  ASSUME NEW k, NEW entry, EntryHolds(k, entry), FetchHolds(k, entry.fetch), NEW m \in Change
  PROVE  EntryHolds(k, Awaited(entry, m))
<1> DEFINE fetch == [entry.fetch EXCEPT !.awaited = @ \cup {m}]
<1>1. FetchHolds(k, fetch)
  BY DEF FetchHolds, Fetching
<1>2. Awaited(entry, m) = [entry EXCEPT !.fetch = fetch]
  BY DEF Awaited
<1> QED
  BY <1>1, <1>2, WithFetchHolds

LEMMA ChannelsKey ==
  ASSUME NEW app \in App
  PROVE  <<Channels, app>> \in Key /\ AboutHolds(<<Channels, app>>, <<>>)
<1>1. <<>> \in Place
  BY DEF Place
<1> QED
  BY <1>1, PlacesAreAsked, ChannelsAsk DEF Key, AboutHolds

LEMMA ReceiveChangeEntries ==
  ASSUME IInv, NEW m \in Change, ReceiveChange(m)
  PROVE  EntriesHold(cache)'
<1>1. CASE selected = None
  BY <1>1 DEF IInv, EntriesHold, ReceiveChange, RefetchChannels
<1>2. CASE selected # None
  <2> DEFINE k == ChannelsOfChange(m)
             fetched == Fetch(cache[k], apiApp, <<>>, TRUE)
             entry == Awaited(fetched, m)
  <2>1. cache' = [cache EXCEPT ![k] = entry]
    BY <1>2 DEF ReceiveChange, RefetchChannels
  <2>2. k \in Key /\ AboutHolds(k, <<>>)
    <3>1. PICK app \in App : k = <<Channels, app>>
      BY <1>2, SelectedIsApp DEF IInv, ChangesHold, ChannelsOfChange
    <3> QED
      BY <3>1, ChannelsKey
  <2>3. EntryHolds(k, fetched) /\ FetchHolds(k, fetched.fetch)
    BY <1>2, <2>2, SelectedIsApp, FetchedHolds DEF IInv, EntriesHold
  <2>4. EntryHolds(k, entry)
    BY <2>3, AwaitedHolds
  <2> QED
    BY <2>1, <2>4, OneEntryHolds DEF IInv
<1> QED
  BY <1>1, <1>2

\* A click that opens a table.
LEMMA TableEntries ==
  ASSUME IInv, selected # None, NEW p \in Place,
         cache' = [cache EXCEPT ![<<Listing(p), selected>>] =
                     Fetch(@, apiApp, p, FALSE)]
  PROVE  EntriesHold(cache)'
<1> DEFINE k == <<Listing(p), selected>>
<1>1. CASE k \in Key
  <2>1. AboutHolds(k, p)
    BY NoDetailsInTable, PlacesAreAsked DEF AboutHolds
  <2>2. EntryHolds(k, Fetch(cache[k], apiApp, p, FALSE))
    BY <1>1, <2>1, SelectedIsApp, FetchedHolds DEF IInv, EntriesHold
  <2>3. cache' = [cache EXCEPT ![k] = Fetch(cache[k], apiApp, p, FALSE)]
    OBVIOUS
  <2> QED
    BY <2>2, <2>3, OneEntryHolds DEF IInv
<1>2. CASE k \notin Key
  BY <1>2 DEF IInv, EntriesHold
<1> QED
  BY <1>1, <1>2

LEMMA OpenChannelsEntries ==
  ASSUME IInv, OpenChannels
  PROVE  EntriesHold(cache)'
<1>1. CASE selected = None
  BY <1>1 DEF IInv, EntriesHold, OpenChannels
<1>2. CASE selected # None
  <2> DEFINE k == <<Channels, selected>>
             entry == Fetch(cache[k], apiApp, <<>>, FALSE)
  <2>1. cache' = [cache EXCEPT ![k] = entry]
    BY <1>2 DEF OpenChannels
  <2>2. k \in Key /\ AboutHolds(k, <<>>)
    BY <1>2, SelectedIsApp, ChannelsKey DEF IInv
  <2>3. EntryHolds(k, entry)
    BY <1>2, <2>2, SelectedIsApp, FetchedHolds DEF IInv, EntriesHold
  <2> QED
    BY <2>1, <2>3, OneEntryHolds DEF IInv
<1> QED
  BY <1>1, <1>2

--------------------------------------------------------------------------------
(* The Updates page *)

LEMMA RowsOfPath ==
  ASSUME IInv, page = "updates", NEW u \in Rows
  PROVE  \E t \in Path : SubSeq(t, 1, Len(place)) = place /\ u = t[Len(place) + 1]
<1> DEFINE k == <<Listing(place), selected>>
<1>1. selected # None /\ cache[k].data # None
  BY DEF Rows, Table
<1>2. PICK t \in Tree[cache[k].data.of] :
        SubSeq(t, 1, Len(place)) = place /\ u = t[Len(place) + 1]
  BY <1>1 DEF Rows, Table
<1>3. k \in Key
  BY <1>1, SelectedIsApp DEF IInv, PlaceHolds, Key
<1>4. cache[k].data.of \in App
  BY <1>1, <1>3 DEF IInv, EntriesHold, EntryHolds, Entry, Data
<1> QED
  BY <1>2, <1>4 DEF Path

LEMMA OpenRowKeeps ==
  ASSUME IInv, NEW row \in Segment, OpenRow(row)
  PROVE  PlaceHolds' /\ EntriesHold(cache)'
<1>1. page = "updates" /\ row \in Rows /\ Len(place) < 2 /\ place \in Place
  BY DEF IInv, PlaceHolds, OpenRow
<1>2. PICK t \in Path : SubSeq(t, 1, Len(place)) = place /\ row = t[Len(place) + 1]
  BY <1>1, RowsOfPath
<1>3. place' \in Place /\ sheet' = None /\ page' = page
  <2>1. place' = Append(place, row) /\ UNCHANGED <<page, sheet>>
    BY DEF OpenRow
  <2> QED
    BY <1>1, <1>2, <2>1, LongerPlace DEF IInv, PlaceHolds
<1>4. EntriesHold(cache)'
  <2>1. selected # None
    BY <1>1 DEF Rows
  <2>2. cache' = [cache EXCEPT ![<<Listing(place'), selected>>] =
                    Fetch(@, apiApp, place', FALSE)]
    BY DEF OpenRow
  <2> QED
    BY <1>3, <2>1, <2>2, TableEntries
<1> QED
  BY <1>1, <1>3, <1>4 DEF IInv, PlaceHolds

LEMMA GoBackKeeps ==
  ASSUME IInv, GoBack
  PROVE  PlaceHolds' /\ EntriesHold(cache)'
<1>1. Len(place) \in 1..2
  BY PlaceIsSeq, EmptySeq DEF IInv, PlaceHolds, GoBack
<1>2. PlaceHolds'
  <2>1. Len(place) - 1 \in 0..Len(place)
    BY <1>1
  <2> QED
    BY <2>1, PlaceSteps DEF IInv, GoBack
<1>3. CASE selected = None
  <2>1. cache' = cache
    BY <1>3 DEF GoBack
  <2>2. EntriesHold(cache)
    BY DEF IInv
  <2> QED
    BY <1>2, <2>1, <2>2 DEF EntriesHold
<1>4. CASE selected # None
  <2>1. place' \in Place
    BY <1>2 DEF PlaceHolds
  <2>2. cache' = [cache EXCEPT ![<<Listing(place'), selected>>] =
                    Fetch(@, apiApp, place', FALSE)]
    BY <1>4 DEF GoBack
  <2> QED
    BY <1>2, <1>4, <2>1, <2>2, TableEntries
<1> QED
  BY <1>2, <1>3, <1>4

LEMMA OpenSheetKeeps ==
  ASSUME IInv, NEW u \in Segment, OpenSheet(u)
  PROVE  PlaceHolds' /\ EntriesHold(cache)'
<1> DEFINE k == <<Details(u), selected>>
<1>1. page = "updates" /\ Len(place) = 2 /\ u \in Rows /\ sheet' = u /\ UNCHANGED <<page, place>>
  BY DEF OpenSheet
<1>2. u \in {t[3] : t \in Path} /\ selected # None
  BY <1>1, RowsOfPath DEF Rows
<1>3. PlaceHolds'
  BY <1>1, <1>2 DEF IInv, PlaceHolds
<1>4. k \in Key
  BY <1>2, SelectedIsApp DEF IInv, Key
<1>5. AboutHolds(k, Append(place, u))
  BY <1>1, <1>2, DetailsAreAsked, DetailsQuery DEF IInv, PlaceHolds, AboutHolds
<1>6. EntryHolds(k, Fetch(cache[k], apiApp, Append(place, u), FALSE))
  BY <1>2, <1>4, <1>5, SelectedIsApp, FetchedHolds DEF IInv, EntriesHold
<1>7. cache' = [cache EXCEPT ![k] = Fetch(cache[k], apiApp, Append(place, u), FALSE)]
  BY DEF OpenSheet
<1> QED
  BY <1>3, <1>6, <1>7, OneEntryHolds DEF IInv

LEMMA FollowBreadcrumbKeeps ==
  ASSUME IInv, NEW length \in 0..1, FollowBreadcrumb(length)
  PROVE  SelectionHolds' /\ PlaceHolds' /\ EntriesHold(cache)'
<1>1. SelectionHolds'
  BY OthersSelect DEF IInv, SelectionHolds, FollowBreadcrumb
<1>2. PlaceHolds'
  <2>1. /\ length < Len(place) /\ place' = SubSeq(place, 1, length)
        /\ sheet' = None /\ page' = page
    BY DEF FollowBreadcrumb
  <2>2. length \in 0..Len(place)
    BY <2>1, PlaceIsSeq DEF IInv, PlaceHolds
  <2> QED
    BY <2>1, <2>2, PlaceSteps DEF IInv
<1>3. EntriesHold(cache)'
  BY EmptyHolds, EmptyIsEntry DEF FollowBreadcrumb, EntriesHold
<1> QED
  BY <1>1, <1>2, <1>3

--------------------------------------------------------------------------------
(* Changes and their toasts *)

LEMMA ChangeForms ==
  ASSUME ChangesHold, NEW m \in Change
  PROVE  /\ change[m].at \in {"idle", "sent", "served", "answered", "refetching",
                              "reported", "failed"}
         /\ change[m].at \notin {"idle", "failed"} => change[m].app \in App
         /\ change[m].at \in {"served", "answered", "refetching", "reported"} =>
              /\ change[m].version \in Nat
              /\ change[m] = [at |-> change[m].at, app |-> change[m].app,
                              version |-> change[m].version]
<1>1. change[m] \in ChangeState
  BY DEF ChangesHold
<1>2. CASE change[m] \in [at : {"idle", "failed"}]
  BY <1>2
<1>3. CASE change[m] \in [at : {"sent"}, app : App]
  BY <1>3
<1>4. CASE change[m] \in [at : {"served", "answered", "refetching", "reported"},
                          app : App, version : Nat]
  BY <1>4
<1> QED
  BY <1>1, <1>2, <1>3, <1>4 DEF ChangeState

\* A step that changes one change.
LEMMA OneChangeHolds ==
  ASSUME ChangesHold, NEW m \in Change, NEW c \in ChangeState,
         change' = [change EXCEPT ![m] = c], left' \in [Change -> App \cup {None}]
  PROVE  ChangesHold'
BY DEF ChangesHold

LEMMA Advanced ==
  ASSUME ChangesHold, NEW m \in Change,
         change[m].at \in {"served", "answered", "refetching", "reported"},
         NEW at \in {"served", "answered", "refetching", "reported"},
         change' = [change EXCEPT ![m].at = at], UNCHANGED left
  PROVE  /\ change' = [change EXCEPT ![m] = [at |-> at, app |-> change[m].app,
                                             version |-> change[m].version]]
         /\ ChangesHold'
<1> DEFINE c == [at |-> at, app |-> change[m].app, version |-> change[m].version]
<1>1. c \in ChangeState
  BY ChangeForms DEF ChangeState
<1>2. [change[m] EXCEPT !.at = at] = c
  <2> DEFINE before == [at |-> change[m].at, app |-> change[m].app,
                        version |-> change[m].version]
  <2>1. change[m] = before
    BY ChangeForms
  <2>2. [before EXCEPT !.at = at] = c
    OBVIOUS
  <2> HIDE DEF before, c
  <2> QED
    BY <2>1, <2>2
<1>3. change' = [change EXCEPT ![m] = c]
  BY <1>2
<1> QED
  BY <1>1, <1>3, OneChangeHolds DEF ChangesHold

LEMMA NextIdInRange ==
  ASSUME NEW n \in 0..(IdModulus - 1)
  PROVE  (n + 1) % IdModulus \in 0..(IdModulus - 1)
<1>1. IdModulus \in Nat \ {0}
  BY PagesAssumption
<1> QED
  BY <1>1

LEMMA AddToastHolds ==
  ASSUME ToastsHold, NEW text \in {"Branch updated", "Error updating branch"},
         NEW m \in Change, AddToast(text, m)
  PROVE  ToastsHold'
<1>1. GenId \in 0..(IdModulus - 1)
  BY NextIdInRange DEF ToastsHold, GenId
<1>2. [id |-> GenId, open |-> TRUE, text |-> text, about |-> m] \in Toast
  BY <1>1 DEF Toast
<1> QED
  BY <1>1, <1>2 DEF AddToast, ToastsHold

LEMMA ChangeStepsHold ==
  ASSUME IInv, NEW m \in Change,
         \/ ChangeBranch(m) \/ ServeChange(m) \/ DropListings(m)
         \/ ReceiveChange(m) \/ ChangeFails(m) \/ ReportChange(m)
  PROVE  ServerHolds' /\ ChangesHold' /\ ToastsHold'
<1> USE DEF IInv
<1>1. CASE ChangeBranch(m)
  <2>1. [at |-> "sent", app |-> apiApp] \in ChangeState
    BY <1>1, SelectedIsApp DEF ChangeBranch, ChangeState
  <2>2. left' \in [Change -> App \cup {None}]
    BY <1>1 DEF ChangeBranch, ChangesHold
  <2> QED
    BY <1>1, <2>1, <2>2, OneChangeHolds
       DEF ChangeBranch, ServerHolds, ToastsHold, serverVars, toastVars
<1>2. CASE ServeChange(m)
  <2> DEFINE app == change[m].app
  <2>1. app \in App
    BY <1>2, ChangeForms DEF ServeChange
  <2>2. mapping' \in [App -> Nat]
    BY <1>2, <2>1 DEF ServeChange, ServerHolds
  <2>3. [at |-> "served", app |-> app, version |-> mapping[app] + 1] \in ChangeState
    BY <2>1 DEF ServerHolds, ChangeState
  <2> QED
    BY <1>2, <2>2, <2>3, OneChangeHolds
       DEF ServeChange, ServerHolds, ChangesHold, ToastsHold, toastVars
<1>3. CASE DropListings(m)
  <2> DEFINE app == change[m].app
  <2>1. app \in App
    BY <1>3, ChangeForms DEF DropListings
  <2>2. ChangesHold'
    BY <1>3, Advanced DEF DropListings
  <2>3. ServerHolds'
    BY <1>3, <2>1 DEF DropListings, ServerHolds
  <2> QED
    BY <1>3, <2>2, <2>3 DEF DropListings, ToastsHold, toastVars
<1>4. CASE ReceiveChange(m)
  <2>1. ChangesHold'
    BY <1>4, Advanced DEF ReceiveChange
  <2> QED
    BY <1>4, <2>1 DEF ReceiveChange, ServerHolds, ToastsHold, serverVars, toastVars
<1>5. CASE ChangeFails(m)
  <2>1. ChangesHold'
    BY <1>5, OneChangeHolds DEF ChangeFails, ChangeState, ChangesHold
  <2>2. ToastsHold'
    BY <1>5, AddToastHolds DEF ChangeFails
  <2> QED
    BY <1>5, <2>1, <2>2 DEF ChangeFails, ServerHolds, serverVars
<1>6. CASE ReportChange(m)
  <2>1. ChangesHold'
    BY <1>6, Advanced DEF ReportChange
  <2>2. ToastsHold'
    BY <1>6, AddToastHolds DEF ReportChange
  <2> QED
    BY <1>6, <2>1, <2>2 DEF ReportChange, ServerHolds, serverVars
<1> QED
  BY <1>1, <1>2, <1>3, <1>4, <1>5, <1>6

\* The page is left under an app, or under none.
LEMMA LeaveChannelsHolds ==
  ASSUME IInv, LeaveChannels
  PROVE  ChangesHold'
<1>1. selected \in App \cup {None}
  BY SelectedIsApp DEF IInv
<1> QED
  BY <1>1 DEF IInv, ChangesHold, LeaveChannels

LEMMA ToastStepsHold ==
  ASSUME ToastsHold, DismissToast \/ \E id \in timers : RemoveToast(id)
  PROVE  ToastsHold'
<1>1. CASE DismissToast
  <2>1. toast \in Toast
    BY <1>1 DEF DismissToast, ToastsHold
  <2>2. toast.id \in 0..(IdModulus - 1) /\ [toast EXCEPT !.open = FALSE] \in Toast
    BY <2>1 DEF Toast
  <2> QED
    BY <1>1, <2>2 DEF DismissToast, ToastsHold
<1>2. CASE \E id \in timers : RemoveToast(id)
  BY <1>2 DEF RemoveToast, ToastsHold
<1> QED
  BY <1>1, <1>2

--------------------------------------------------------------------------------

LEMMA InitIInv == Init => IInv
<1> SUFFICES ASSUME Init PROVE IInv
  OBVIOUS
<1>1. PlaceHolds
  BY PlaceForm DEF Init, PlaceHolds
<1>2. EntriesHold(cache)
  BY EmptyHolds, EmptyIsEntry DEF Init, EntriesHold
<1>3. ServerHolds /\ SelectionHolds
  BY DEF Init, ServerHolds, SelectionHolds, SelectionIsOffered
<1>4. ChangesHold /\ ToastsHold
  BY PagesAssumption DEF Init, ChangesHold, ChangeState, ToastsHold
<1> QED
  BY <1>1, <1>2, <1>3, <1>4 DEF IInv

LEMMA NextKeeps == IInv /\ [Next]_vars => IInv'
<1> SUFFICES ASSUME IInv, [Next]_vars PROVE IInv'
  OBVIOUS
<1>1. ASSUME UNCHANGED <<apps, selected, apiApp, stored>> PROVE SelectionHolds'
  BY <1>1, OthersSelect DEF IInv, SelectionHolds
<1>2. ASSUME UNCHANGED <<page, place, sheet>> PROVE PlaceHolds'
  BY <1>2, PlaceSteps DEF IInv
<1>3. ASSUME UNCHANGED cache PROVE EntriesHold(cache)'
  BY <1>3 DEF IInv, EntriesHold
<1>4. ASSUME UNCHANGED serverVars, UNCHANGED changeVars, UNCHANGED toastVars
      PROVE  ServerHolds' /\ ChangesHold' /\ ToastsHold'
  BY <1>4 DEF IInv, ServerHolds, ChangesHold, ToastsHold, serverVars, toastVars
<1>5. CASE LoadSettings
  <2>1. UNCHANGED serverVars /\ UNCHANGED <<page, place, sheet, change, left>> /\ UNCHANGED toastVars
    BY <1>5 DEF LoadSettings, pageVars
  <2> QED
    BY <1>2, <1>4, <1>5, <2>1, LoadSettingsSelects, LoadSettingsEntries DEF IInv
<1>6. CASE Focus
  <2>1. /\ UNCHANGED serverVars /\ UNCHANGED toastVars
        /\ UNCHANGED <<apps, selected, apiApp, stored, page, place, sheet, change, left>>
    BY <1>6 DEF Focus, selectionVars, pageVars
  <2> QED
    BY <1>1, <1>2, <1>4, <1>6, <2>1, FocusEntries DEF IInv
<1>7. CASE DismissToast \/ \E id \in timers : RemoveToast(id)
  <2>1. UNCHANGED serverVars /\ UNCHANGED <<apps, selected, apiApp, stored, page, place,
                                            sheet, cache, change, left>>
    BY <1>7 DEF DismissToast, RemoveToast, selectionVars, pageVars
  <2>2. ServerHolds' /\ ChangesHold'
    BY <2>1 DEF IInv, ServerHolds, ChangesHold, serverVars
  <2> QED
    BY <1>1, <1>2, <1>3, <1>7, <2>1, <2>2, ToastStepsHold DEF IInv
<1>8. ASSUME NEW app \in App, SelectApp(app) PROVE IInv'
  <2>1. /\ SetSelectedAppId(app) /\ UNCHANGED <<page, place, sheet, change, left>>
        /\ UNCHANGED serverVars /\ UNCHANGED toastVars
    BY <1>8 DEF SelectApp, pageVars
  <2> QED
    BY <1>2, <1>4, <1>8, <2>1, SelectAppSelects, SetSelectedKeeps DEF IInv
<1>9. ASSUME NEW app \in App, SelectElsewhere(app) PROVE IInv'
  <2>1. /\ UNCHANGED <<apps, selected, apiApp, page, place, sheet, cache, change, left>>
        /\ stored' = app /\ UNCHANGED serverVars /\ UNCHANGED toastVars
    BY <1>9 DEF SelectElsewhere, pageVars
  <2> QED
    BY <1>2, <1>3, <1>4, <2>1, OthersSelect DEF IInv
<1>10. ASSUME NEW list \in AppList, Redeploy(list) PROVE IInv'
  <2>1. /\ UNCHANGED <<apps, selected, apiApp, stored, page, place, sheet, cache, change, left>>
        /\ served' = list /\ UNCHANGED <<mapping, oldest, raced>> /\ UNCHANGED toastVars
    BY <1>10 DEF Redeploy, selectionVars, pageVars
  <2>2. ServerHolds' /\ ChangesHold' /\ ToastsHold'
    BY <2>1 DEF IInv, ServerHolds, ChangesHold, ToastsHold, toastVars
  <2> QED
    BY <1>1, <1>2, <1>3, <2>1, <2>2 DEF IInv
<1>11. ASSUME NEW row \in Segment, OpenRow(row) \/ OpenSheet(row) PROVE IInv'
  <2>1. /\ UNCHANGED <<apps, selected, apiApp, stored, change, left>>
        /\ UNCHANGED serverVars /\ UNCHANGED toastVars
    BY <1>11 DEF OpenRow, OpenSheet, selectionVars
  <2> QED
    BY <1>1, <1>4, <1>11, <2>1, OpenRowKeeps, OpenSheetKeeps DEF IInv
<1>12. CASE GoBack
  <2>1. /\ UNCHANGED <<apps, selected, apiApp, stored, change, left>>
        /\ UNCHANGED serverVars /\ UNCHANGED toastVars
    BY <1>12 DEF GoBack, selectionVars
  <2> QED
    BY <1>1, <1>4, <1>12, <2>1, GoBackKeeps DEF IInv
<1>13. CASE CloseSheet
  <2>1. /\ UNCHANGED <<apps, selected, apiApp, stored, page, place, cache, change, left>>
        /\ UNCHANGED serverVars /\ UNCHANGED toastVars /\ sheet' = None
    BY <1>13 DEF CloseSheet, selectionVars
  <2>2. PlaceHolds'
    BY <2>1, PlaceSteps DEF IInv
  <2> QED
    BY <1>1, <1>3, <1>4, <2>1, <2>2 DEF IInv
<1>14. ASSUME NEW length \in 0..1, FollowBreadcrumb(length) PROVE IInv'
  <2>1. UNCHANGED serverVars /\ UNCHANGED changeVars /\ UNCHANGED toastVars
    BY <1>14 DEF FollowBreadcrumb
  <2> QED
    BY <1>4, <1>14, <2>1, FollowBreadcrumbKeeps DEF IInv
<1>15. ASSUME NEW k \in Key, Serve(k) \/ Receive(k) \/ ReceiveError(k) PROVE IInv'
  <2>1. /\ UNCHANGED <<apps, selected, apiApp, stored, page, place, sheet, change, left>>
        /\ UNCHANGED serverVars /\ UNCHANGED toastVars
    BY <1>15 DEF Serve, Receive, ReceiveError, selectionVars, pageVars
  <2> QED
    BY <1>1, <1>2, <1>4, <1>15, <2>1, ServeEntries, ReceiveEntries, ReceiveErrorEntries
       DEF IInv
<1>16. ASSUME NEW m \in Change,
              \/ ChangeBranch(m) \/ ServeChange(m) \/ DropListings(m)
              \/ ReceiveChange(m) \/ ChangeFails(m) \/ ReportChange(m)
       PROVE  IInv'
  <2>1. /\ UNCHANGED <<apps, selected, apiApp, stored, page, place, sheet>>
        /\ ReceiveChange(m) \/ UNCHANGED cache
    BY <1>16
       DEF ChangeBranch, ServeChange, DropListings, ReceiveChange, ChangeFails,
           ReportChange, selectionVars, pageVars
  <2> QED
    BY <1>1, <1>2, <1>3, <1>16, <2>1, ReceiveChangeEntries, ChangeStepsHold DEF IInv
<1>17. CASE LeaveChannels
  <2>1. /\ UNCHANGED <<apps, selected, apiApp, stored, place, sheet, cache>>
        /\ page' = "elsewhere" /\ UNCHANGED serverVars /\ UNCHANGED toastVars
    BY <1>17 DEF LeaveChannels, selectionVars
  <2>2. PlaceHolds'
    BY <2>1, PlaceSteps DEF IInv
  <2>3. ServerHolds' /\ ToastsHold'
    BY <2>1 DEF IInv, ServerHolds, ToastsHold, serverVars, toastVars
  <2> QED
    BY <1>1, <1>3, <1>17, <2>1, <2>2, <2>3, LeaveChannelsHolds DEF IInv
<1>18. CASE OpenChannels
  <2>1. /\ UNCHANGED <<apps, selected, apiApp, stored, place, sheet, change, left>>
        /\ page' = "channels" /\ UNCHANGED serverVars /\ UNCHANGED toastVars
    BY <1>18 DEF OpenChannels, selectionVars
  <2>2. PlaceHolds'
    BY <2>1, PlaceSteps DEF IInv
  <2> QED
    BY <1>1, <1>4, <1>18, <2>1, <2>2, OpenChannelsEntries DEF IInv
<1>19. CASE UNCHANGED vars
  <2>1. /\ UNCHANGED <<apps, selected, apiApp, stored, page, place, sheet, cache, change, left>>
        /\ UNCHANGED serverVars /\ UNCHANGED toastVars
    BY <1>19 DEF vars, selectionVars, pageVars
  <2> QED
    BY <1>1, <1>2, <1>3, <1>4, <2>1 DEF IInv
<1> QED
  BY <1>5, <1>6, <1>7, <1>8, <1>9, <1>10, <1>11, <1>12, <1>13, <1>14, <1>15, <1>16, <1>17,
     <1>18, <1>19
     DEF Next, Segment

LEMMA AlwaysIInv == Spec => []IInv
BY InitIInv, NextKeeps, PTL DEF Spec

--------------------------------------------------------------------------------

\* Type correctness: the tab, what react-query keeps and the server's listings are of the
\* types of the code, and ids of toasts stay below Number.MAX_SAFE_INTEGER.
THEOREM TypeCorrect == Spec => []TypeOK
<1>1. ASSUME IInv PROVE TypeOK
  <2>1. {selected, apiApp} \subseteq App \cup {None}
    BY <1>1, SelectedIsApp DEF IInv, SelectionHolds, SelectionIsOffered
  <2>2. cache \in [Key -> Entry]
    BY <1>1 DEF IInv, EntriesHold, EntryHolds
  <2> QED
    BY <1>1, <2>1, <2>2
       DEF IInv, ServerHolds, SelectionHolds, PlaceHolds, ChangesHold, ToastsHold, TypeOK
<1> QED
  BY <1>1, AlwaysIInv, PTL

\* The SelectedAppProvider selects an app of its list, and the ApiClient sends its
\* requests to that app, whatever other tabs select and with whatever apps the server
\* is deployed again.
THEOREM SelectionOffered == Spec => []SelectionIsOffered
<1>1. IInv => SelectionIsOffered
  BY DEF IInv, SelectionHolds
<1> QED
  BY <1>1, AlwaysIInv, PTL

\* The UpdateDetailsSheet shows an update with the UUID of the row that was clicked,
\* whatever was fetched for other rows and under other apps.
THEOREM SheetsShowTheirRows == Spec => []SheetShowsItsRow
<1>1. ASSUME IInv PROVE SheetShowsItsRow
  <2> SUFFICES ASSUME sheet # None, selected # None, SheetShows # None
               PROVE  Uuid[SheetShows.about[3]] = Uuid[sheet]
    BY DEF SheetShowsItsRow
  <2> DEFINE k == <<Details(sheet), selected>>
  <2>1. SheetShows = cache[k].data
    BY DEF SheetShows
  <2>2. k \in Key
    BY <1>1, SelectedIsApp DEF IInv, PlaceHolds, Key
  <2>3. AboutHolds(k, cache[k].data.about)
    BY <1>1, <2>1, <2>2 DEF IInv, EntriesHold, EntryHolds
  <2> QED
    BY <2>1, <2>3, DetailsQuery DEF AboutHolds
<1> QED
  BY <1>1, AlwaysIInv, PTL

================================================================================
