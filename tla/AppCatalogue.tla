----------------------------- MODULE AppCatalogue -----------------------------
(***************************************************************************)
(* The catalogue of apps that phones may run and the presets made of them:    *)
(* modules/allowed-apps.  Requests check and write in separate statements; a   *)
(* refresh looks up the icons of all apps with several workers of one process.  *)
(* What reaches the phones is module PolicyDelivery.                          *)
(***************************************************************************)
EXTENDS Naturals, FiniteSets, Sequences, SequencesExt

CONSTANTS
    App, Preset,
    Package, Folded,    \* names of packages, and each in lower case
    NoPackage,          \* of an app without a row
    Icon, NoIcon,
    Worker,             \* refreshConcurrency of them
    Client,
    MaxCalls            \* bound: requests and restarts

CatalogueAssumption ==
    /\ Folded \in [Package -> Package] /\ NoPackage \notin Package
    /\ NoIcon \notin Icon /\ Worker # {} /\ MaxCalls \in Nat
    /\ IsFiniteSet(App)

VARIABLES
    listing,    \* App -> the row
    bundle,     \* Preset -> the row with its items; a removed one keeps them
    normalized, \* the services whose platformsNormalized is set, in memory
    clerk,      \* Client -> where its request is
    served,     \* requests and restarts so far
    outrun      \* ghost: apps written after another request wrote their package

catalogueVars == <<listing, bundle, normalized, clerk, served, outrun>>

Valid == {"android", "ios"}
NormalizePlatform(p) == IF p = "ios" THEN "ios" ELSE "android"

Exists(a) == listing[a].package # NoPackage
NoApp == [package |-> NoPackage, platform |-> "android", icon |-> NoIcon]
Idle == [at |-> "idle"]

\* Rows with a platform of an earlier release, no package twice.
Init ==
    /\ listing \in [App -> {NoApp} \cup
          [package : Package, platform : {"other"}, icon : {NoIcon}]]
    /\ \A a, b \in App : Exists(a) /\ Exists(b) /\ a # b =>
          Folded[listing[a].package] # Folded[listing[b].package]
    /\ \E items \in {{}, {a \in App : Exists(a)}}, state \in {"none", "live"} :
          /\ state = "none" => items = {}
          /\ bundle = [s \in Preset |->
               [state |-> state, platform |-> "other", items |-> items]]
    /\ normalized = {} /\ served = 0 /\ outrun = {}
    /\ clerk = [c \in Client |-> Idle]

To(c, task) == clerk' = [clerk EXCEPT ![c] = task]

-----------------------------------------------------------------------------
(* Every request first makes the platforms valid, once in the life of its      *)
(* service.                                                                 *)

Arrive(c, task) ==
    /\ clerk[c].at = "idle" /\ served < MaxCalls
    /\ served' = served + 1
    /\ To(c, [at |-> "arrived", task |-> task,
              service |-> IF task \in {"bundle", "unbundle"} THEN "presets" ELSE "apps"])
    /\ UNCHANGED <<listing, bundle, normalized, outrun>>

\* The two updates of ensureValidPlatformData; that of the presets' service leaves
\* removed presets out.
ValidApps == [a \in App |->
    [listing[a] EXCEPT !.platform = IF @ \in Valid THEN @ ELSE "android"]]
ValidPresets(service) == [s \in Preset |->
    IF service = "presets" /\ bundle[s].state = "removed" THEN bundle[s]
    ELSE [bundle[s] EXCEPT !.platform = IF @ \in Valid THEN @ ELSE "android"]]

\* One of the two updates fails, or both.
EnsureFails(c) ==
    /\ clerk[c].at = "arrived" /\ clerk[c].service \notin normalized
    /\ \/ listing' = ValidApps /\ UNCHANGED bundle
       \/ bundle' = ValidPresets(clerk[c].service) /\ UNCHANGED listing
       \/ UNCHANGED <<listing, bundle>>
    /\ To(c, Idle)
    /\ UNCHANGED <<normalized, served, outrun>>

EnsureValid(c) ==
    /\ clerk[c].at = "arrived"
    /\ IF clerk[c].service \in normalized THEN UNCHANGED <<listing, bundle, normalized>>
       ELSE /\ listing' = ValidApps
            /\ bundle' = ValidPresets(clerk[c].service)
            /\ normalized' = normalized \cup {clerk[c].service}
    /\ To(c, [at |-> clerk[c].task])
    /\ UNCHANGED <<served, outrun>>

-----------------------------------------------------------------------------
(* The apps. *)

\* The other apps with the package, in whatever letters.
Taken(p, a) == {b \in App \ {a} : Exists(b) /\ Folded[listing[b].package] = Folded[p]}

\* create and update look for the package ...
CheckPackage(c, a, p) ==
    /\ \/ clerk[c].at = "create" /\ ~ Exists(a)
       \/ clerk[c].at = "update" /\ Exists(a)
    /\ IF Taken(p, a) # {} THEN To(c, Idle)
       ELSE To(c, [at |-> "write", task |-> clerk[c].at, app |-> a, package |-> p,
                   late |-> FALSE])
    /\ UNCHANGED <<listing, bundle, normalized, served, outrun>>

\* ... and write later; the database refuses the very same package only.
WritePackage(c) ==
    /\ clerk[c].at = "write"
    /\ LET q == clerk[c]
       IN  IF \/ Exists(q.app) # (q.task = "update")
              \/ \E b \in App \ {q.app} : listing[b].package = q.package
           THEN To(c, Idle) /\ UNCHANGED <<listing, outrun>>
           ELSE \E platform \in Valid :
                  /\ listing' = [listing EXCEPT ![q.app] =
                       [package |-> q.package,
                        platform |-> platform, icon |-> @.icon]]
                  /\ outrun' = IF q.late THEN outrun \cup {q.app} ELSE outrun \ {q.app}
                  /\ clerk' = [d \in Client |->
                       IF d = c THEN Idle
                       ELSE IF clerk[d].at = "write"
                               /\ Folded[clerk[d].package] = Folded[q.package]
                            THEN [clerk[d] EXCEPT !.late = TRUE] ELSE clerk[d]]
    /\ UNCHANGED <<bundle, normalized, served>>

\* update that names no package
UpdateApp(c, a) ==
    /\ clerk[c].at = "update" /\ Exists(a)
    /\ \E icon \in Icon : listing' = [listing EXCEPT ![a].icon = icon]
    /\ To(c, Idle)
    /\ UNCHANGED <<bundle, normalized, served, outrun>>

\* remove: an app that a preset has, a removed one included, is refused.
CheckUnused(c, a) ==
    /\ clerk[c].at = "remove" /\ Exists(a)
    /\ To(c, IF \E s \in Preset : a \in bundle[s].items THEN Idle
             ELSE [at |-> "delete", app |-> a])
    /\ UNCHANGED <<listing, bundle, normalized, served, outrun>>

\* An item that came meanwhile goes with its app or keeps it: the foreign key.
DeleteApp(c) ==
    /\ clerk[c].at = "delete"
    /\ LET a == clerk[c].app
       IN  \/ /\ listing' = [listing EXCEPT ![a] = NoApp]
              /\ bundle' = [s \in Preset |-> [bundle[s] EXCEPT !.items = @ \ {a}]]
              /\ outrun' = outrun \ {a}
           \/ /\ \E s \in Preset : a \in bundle[s].items
              /\ UNCHANGED <<listing, bundle, outrun>>
    /\ To(c, Idle)
    /\ UNCHANGED <<normalized, served>>

\* findByPackageName: the very package, or else one in other letters.
Found(p) ==
    LET exact == {a \in App : listing[a].package = p}
        folded == {a \in App : Exists(a) /\ Folded[listing[a].package] = Folded[p]}
    IN  IF exact # {} THEN exact ELSE folded

\* findAll with a platform compares the column, toResponseDto shows it normalized.
FindAll(platform) == {a \in App : Exists(a) /\ listing[a].platform = platform}
Shown(a) == NormalizePlatform(listing[a].platform)

-----------------------------------------------------------------------------
(* The presets. *)

\* findAppsOrThrow; a platform is inferred from the apps unless the request names one.
CheckApps(c, s, items) ==
    /\ clerk[c].at = "bundle" /\ bundle[s].state = "none"
    /\ To(c, IF \A a \in items : Exists(a)
             THEN [at |-> "connect", preset |-> s, items |-> items]
             ELSE Idle)
    /\ UNCHANGED <<listing, bundle, normalized, served, outrun>>

CreatePreset(c) ==
    /\ clerk[c].at = "connect"
    /\ LET q == clerk[c]
       IN  IF bundle[q.preset].state = "none" /\ \A a \in q.items : Exists(a)
           THEN \E platform \in Valid :
                  bundle' = [bundle EXCEPT ![q.preset] =
                    [state |-> "live", platform |-> platform, items |-> q.items]]
           ELSE UNCHANGED bundle
    /\ To(c, Idle)
    /\ UNCHANGED <<listing, normalized, served, outrun>>

RemovePreset(c, s) ==
    /\ clerk[c].at = "unbundle" /\ bundle[s].state = "live"
    /\ bundle' = [bundle EXCEPT ![s].state = "removed"]
    /\ To(c, Idle)
    /\ UNCHANGED <<listing, normalized, served, outrun>>

-----------------------------------------------------------------------------
(* The refresh of the icons. *)

Unbusy == [w \in Worker |-> [index |-> 0, icon |-> NoIcon]]

RefreshIcons(c) ==
    /\ clerk[c].at = "refresh"
    /\ To(c, [at |-> "refreshing", cursor |-> 0, hands |-> Unbusy, results |-> <<>>,
              apps |-> [i \in 1..Cardinality({a \in App : Exists(a)}) |->
                 LET all == SetToSeq({a \in App : Exists(a)})
                 IN  [id |-> all[i], icon |-> listing[all[i]].icon]]])
    /\ UNCHANGED <<listing, bundle, normalized, served, outrun>>

\* A worker takes the next app and moves the cursor before it waits.
ClaimNext(q, w) ==
    [q EXCEPT !.hands[w].index = q.cursor + 1, !.cursor = q.cursor + 1]

Claim(c, w) ==
    /\ clerk[c].at = "refreshing"
    /\ clerk[c].hands[w].index = 0 /\ clerk[c].cursor < Len(clerk[c].apps)
    /\ To(c, ClaimNext(clerk[c], w))
    /\ UNCHANGED <<listing, bundle, normalized, served, outrun>>

Report(c, w, status) ==
    LET q == clerk[c]
    IN  To(c, [q EXCEPT
           !.hands[w] = [index |-> 0, icon |-> NoIcon],
           !.results = Append(@, [id |-> q.apps[q.hands[w].index].id, status |-> status])])

\* What a store answers: an icon, a page without one, that it has no such page, or
\* nothing in time.
StoreAnswer == {"icon", "none", "gone", "failed"}

\* fetchAndroidIconUrl: apps of Samsung are looked up in its store if the first one has
\* no icon, and what went wrong first is what is reported.
FetchIcon(play, samsung, galaxy) ==
    IF play = "icon" \/ ~ samsung THEN play
    ELSE IF galaxy = "icon" \/ play = "none" THEN galaxy ELSE play

\* isStoreLookupMissingError: a page that is gone is no failure.
Answer(c, w) ==
    /\ clerk[c].at = "refreshing"
    /\ LET hand == clerk[c].hands[w]
       IN  /\ hand.index # 0 /\ hand.icon = NoIcon
           /\ \E play, galaxy \in StoreAnswer, samsung \in BOOLEAN, icon \in Icon :
                LET answer == FetchIcon(play, samsung, galaxy)
                IN  CASE answer \in {"none", "gone"} -> Report(c, w, "missing")
                      [] answer = "failed" -> Report(c, w, "failed")
                      [] OTHER ->
                           IF icon = clerk[c].apps[hand.index].icon
                           THEN Report(c, w, "unchanged")
                           ELSE To(c, [clerk[c] EXCEPT !.hands[w].icon = icon])
    /\ UNCHANGED <<listing, bundle, normalized, served, outrun>>

\* The update of the row, which may be gone.
StoreIcon(c, w) ==
    /\ clerk[c].at = "refreshing" /\ clerk[c].hands[w].icon # NoIcon
    /\ LET hand == clerk[c].hands[w]
           a == clerk[c].apps[hand.index].id
       IN  IF Exists(a)
           THEN listing' = [listing EXCEPT ![a].icon = hand.icon] /\ Report(c, w, "updated")
           ELSE Report(c, w, "failed") /\ UNCHANGED listing
    /\ UNCHANGED <<bundle, normalized, served, outrun>>

Refreshed(c) ==
    /\ clerk[c].at = "refreshing"
    /\ clerk[c].cursor >= Len(clerk[c].apps) /\ clerk[c].hands = Unbusy

AnswerRefresh(c) ==
    /\ Refreshed(c) /\ To(c, Idle)
    /\ UNCHANGED <<listing, bundle, normalized, served, outrun>>

-----------------------------------------------------------------------------
\* A request that finds nothing, and a process that starts again.
Refuse(c) ==
    /\ clerk[c].at \in {"create", "update", "remove", "bundle", "unbundle"}
    /\ To(c, Idle)
    /\ UNCHANGED <<listing, bundle, normalized, served, outrun>>

Restart ==
    /\ served < MaxCalls /\ served' = served + 1
    /\ normalized' = {} /\ clerk' = [c \in Client |-> Idle]
    /\ UNCHANGED <<listing, bundle, outrun>>

Next ==
    \/ \E c \in Client :
          \/ \E task \in {"create", "update", "remove", "bundle", "unbundle", "refresh"} :
                Arrive(c, task)
          \/ EnsureFails(c) \/ EnsureValid(c)
          \/ \E a \in App, p \in Package : CheckPackage(c, a, p)
          \/ WritePackage(c) \/ DeleteApp(c)
          \/ \E a \in App : UpdateApp(c, a) \/ CheckUnused(c, a)
          \/ \E s \in Preset, items \in SUBSET App : CheckApps(c, s, items)
          \/ \E s \in Preset : RemovePreset(c, s)
          \/ CreatePreset(c) \/ RefreshIcons(c) \/ AnswerRefresh(c) \/ Refuse(c)
          \/ \E w \in Worker : Claim(c, w) \/ Answer(c, w) \/ StoreIcon(c, w)
    \/ Restart

Spec == Init /\ [][Next]_catalogueVars

-----------------------------------------------------------------------------
\* The rows, whose items exist.
TypeOK ==
    /\ \A a \in App :
         /\ listing[a].package \in Package \cup {NoPackage}
         /\ listing[a].icon \in Icon \cup {NoIcon}
         /\ ~ Exists(a) => listing[a] = NoApp \/ listing[a].platform \in Valid
    /\ \A s \in Preset : \A a \in bundle[s].items : Exists(a)
    /\ normalized \subseteq {"apps", "presets"} /\ outrun \subseteq App

\* create, update, findByPackageName: whatever its letters, a package is that of one app,
\* unless another request wrote the package between the check and the write.
PackagesUnique ==
    \A p \in Package :
       LET all == {a \in App : Exists(a) /\ Folded[listing[a].package] = Folded[p]}
       IN  /\ Cardinality(all \ outrun) <= 1
           /\ (all = {}) = (Found(p) = {})

\* ensureValidPlatformData, findAll, toResponseDto: once a service believes that the
\* platforms are valid, the filter finds what is shown as of the platform, whichever
\* updates failed and whatever is written later.
FiltersAgree ==
    normalized # {} => \A p \in Valid :
        FindAll(p) = {a \in App : Exists(a) /\ Shown(a) = p}

\* refreshIcons: however the workers take turns and whatever the store answers, every
\* app is reported once.
ReportedOnce ==
    \A c \in Client : Refreshed(c) =>
       LET q == clerk[c]
       IN  /\ Len(q.results) = Len(q.apps)
           /\ ToSet([i \in DOMAIN q.results |-> q.results[i].id])
                = ToSet([i \in DOMAIN q.apps |-> q.apps[i].id])
================================================================================
