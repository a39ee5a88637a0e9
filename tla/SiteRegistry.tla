---------------------------- MODULE SiteRegistry ----------------------------
(***************************************************************************)
(* The API's copy of the sites in the control plane's database,            *)
(* controlplane/site_registry.go (CachedNeonSiteRegistry).  The ticker of  *)
(* Start, every GetSite that misses and every ListSites that finds the     *)
(* copy old runs refresh, which loads under no lock and stores under one:  *)
(* refreshes at the same time store in the order in which they finish.     *)
(*                                                                         *)
(* A site is the version of its settings, 0 while it is not active.        *)
(***************************************************************************)
EXTENDS Naturals

CONSTANTS
  RegistrySites,
  Readers,          \* goroutines that call GetSite and ListSites
  Ticker,           \* the goroutine of Start
  MaxEdits,         \* bound on the edits of the control plane
  MaxLoadFailures   \* bound on the loads that fail

ASSUME RegistryAssumption ==
  /\ Ticker \notin Readers
  /\ MaxEdits \in Nat
  /\ MaxLoadFailures \in Nat

VARIABLES
  controlPlane,  \* the database
  sites,         \* sites
  work,          \* what each goroutine is at: its stage, the site of a
                 \*   GetSite, and the sites it loaded
  edits,         \* edits so far
  loadFailures,  \* failed loads so far
  wasAbsent,     \* history: the site of a GetSite at work was not active at
                 \*   some time since the call began
  overtaken      \* history: another refresh stored since that call's own did

registryVars ==
  <<controlPlane, sites, work, edits, loadFailures, wasAbsent, overtaken>>

Refreshers == Readers \union {Ticker}
Snapshots == [RegistrySites -> 0 .. MaxEdits + 1]
Empty == [s \in RegistrySites |-> 0]
NoSite == "none"

Idling == [stage |-> "idle", site |-> NoSite, loaded |-> Empty]
Loading(s) == [Idling EXCEPT !.stage = "load", !.site = s]

(* NewCachedNeonSiteRegistry returns only after a refresh.                 *)
RegistryInit ==
  /\ controlPlane \in [RegistrySites -> {0, 1}]
  /\ sites = controlPlane
  /\ work = [r \in Refreshers |-> Idling]
  /\ edits = 0
  /\ loadFailures = 0
  /\ wasAbsent = [r \in Readers |-> FALSE]
  /\ overtaken = [r \in Readers |-> FALSE]
-----------------------------------------------------------------------------
(* The web control plane creates, edits and deactivates sites.             *)
Edit(s) ==
  /\ edits < MaxEdits
  /\ edits' = edits + 1
  /\ \E version \in {0, edits + 2} \ {controlPlane[s]} :
       controlPlane' = [controlPlane EXCEPT ![s] = version]
  /\ wasAbsent' = [r \in Readers |->
                     wasAbsent[r] \/ (work[r].site = s /\ controlPlane'[s] = 0)]
  /\ UNCHANGED <<sites, work, loadFailures, overtaken>>

(* The ticker fires.                                                       *)
Tick ==
  /\ work[Ticker] = Idling
  /\ work' = [work EXCEPT ![Ticker] = Loading(NoSite)]
  /\ UNCHANGED <<controlPlane, sites, edits, loadFailures, wasAbsent, overtaken>>

(* GetSite does not find the site; one that it finds changes nothing.      *)
GetSiteMisses(r, s) ==
  /\ work[r] = Idling
  /\ sites[s] = 0
  /\ work' = [work EXCEPT ![r] = Loading(s)]
  /\ wasAbsent' = [wasAbsent EXCEPT ![r] = controlPlane[s] = 0]
  /\ overtaken' = [overtaken EXCEPT ![r] = FALSE]
  /\ UNCHANGED <<controlPlane, sites, edits, loadFailures>>

(* ListSites finds the copy old.  It reads lastSync without the lock while *)
(* refresh may be writing it, so that it may think either at any time.     *)
ListSitesRefreshes(r) ==
  /\ work[r] = Idling
  /\ work' = [work EXCEPT ![r] = Loading(NoSite)]
  /\ UNCHANGED <<controlPlane, sites, edits, loadFailures, wasAbsent, overtaken>>

(* Seeded defect: a refresh joins one that is under way.                   *)
LoadJoining(r) ==
  /\ work[r].stage = "load"
  /\ LET others == {x \in Refreshers \ {r} : work[x].stage = "store"}
     IN work' = [work EXCEPT ![r].stage = "store", ![r].loaded =
          IF others = {} THEN controlPlane ELSE work[CHOOSE x \in others : TRUE].loaded]
  /\ UNCHANGED <<controlPlane, sites, edits, loadFailures, wasAbsent, overtaken>>

(* loadSitesWithPrivacy: one query, of one moment of the database, ...     *)
LoadSites(r) ==
  /\ work[r].stage = "load"
  /\ work' = [work EXCEPT ![r].stage = "store", ![r].loaded = controlPlane]
  /\ UNCHANGED <<controlPlane, sites, edits, loadFailures, wasAbsent, overtaken>>

(* ... or an error, which ends the call.                                   *)
LoadFails(r) ==
  /\ work[r].stage = "load"
  /\ loadFailures < MaxLoadFailures
  /\ loadFailures' = loadFailures + 1
  /\ work' = [work EXCEPT ![r] = Idling]
  /\ UNCHANGED <<controlPlane, sites, edits, wasAbsent, overtaken>>

(* Seeded defect: sites that are gone stay.                                *)
StoredOver(old, new) == [s \in RegistrySites |-> IF new[s] = 0 THEN old[s] ELSE new[s]]

StoredSites(old, new) == new

(* The end of refresh, under the lock.                                     *)
StoreSites(r) ==
  /\ work[r].stage = "store"
  /\ sites' = StoredSites(sites, work[r].loaded)
  /\ work' = [work EXCEPT ![r] =
       IF work[r].site = NoSite THEN Idling
       ELSE [Loading(work[r].site) EXCEPT !.stage = "lookup"]]
  /\ overtaken' = [x \in Readers |-> overtaken[x] \/ (x # r /\ work[x].stage = "lookup")]
  /\ UNCHANGED <<controlPlane, edits, loadFailures, wasAbsent>>

(* The second lookup of GetSite, whose answer is whether sites has it.     *)
LookupAgain(r) ==
  /\ work[r].stage = "lookup"
  /\ work' = [work EXCEPT ![r] = Idling]
  /\ UNCHANGED <<controlPlane, sites, edits, loadFailures, wasAbsent, overtaken>>

Refresh(r) == LoadSites(r) \/ LoadFails(r) \/ StoreSites(r)

RegistryNext ==
  \/ \E s \in RegistrySites : Edit(s)
  \/ Tick
  \/ \E r \in Readers, s \in RegistrySites : GetSiteMisses(r, s)
  \/ \E r \in Readers : ListSitesRefreshes(r) \/ LookupAgain(r)
  \/ \E r \in Refreshers : Refresh(r)

(* The ticker fires again and again, and queries and locks come back.  The *)
(* code sets the queries no deadline: that they end is an assumption about *)
(* Postgres and the network.                                               *)
RegistryFairness ==
  /\ WF_registryVars(Tick)
  /\ \A r \in Refreshers : WF_registryVars(Refresh(r))
  /\ \A r \in Readers : WF_registryVars(LookupAgain(r))

RegistrySpec == RegistryInit /\ [][RegistryNext]_registryVars /\ RegistryFairness
-----------------------------------------------------------------------------
(* A site that was active throughout a GetSite that missed is found by its *)
(* second lookup, unless another refresh stored between the call's own and *)
(* that lookup, perhaps with sites loaded before the site was active       *)
(* (site_registry.go:174).                                                 *)
FoundWhenActive ==
  \A r \in Readers :
    work[r].stage = "lookup" =>
      sites[work[r].site] # 0 \/ wasAbsent[r] \/ overtaken[r]

(* Once the control plane is no longer edited, the copy equals it for ever *)
(* after, whatever was loaded before and stored late.                      *)
EventuallyFresh == <>[](sites = controlPlane)
=============================================================================
