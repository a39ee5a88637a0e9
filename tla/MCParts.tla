------------------------------ MODULE MCParts ------------------------------
(***************************************************************************)
(* Small instances of the components that share no state, for one run of   *)
(* TLC.  The initial state picks the component that moves, and the others  *)
(* stay as they began: with no variable in common, a behaviour of all of   *)
(* them is one of each, so that nothing is lost by taking them in turn.    *)
(***************************************************************************)
EXTENDS Limiter, RealtimeCounter, ResponseCache, Identity, SiteRegistry,
        Alerts, Reports, Migrations, Replay, Privacy, Funnel

CONSTANT ShortTime  \* MaxTime for all components but the reports

VARIABLE active     \* the component that moves

(* Months of three days and of two, for the calendar of the reports.       *)
Calendar == <<0, 3, 5>>

Clocked ==
  {"limiter", "counter", "cache", "identity", "alerts", "reports", "funnel"}

Unclocked == {"registry", "migrations", "replay", "privacy"}

PartsInit ==
  /\ active \in Clocked \union Unclocked
  /\ ClockInit /\ LimiterInit /\ CounterInit /\ CacheInit /\ IdentityInit
  /\ RegistryInit /\ AlertInit /\ ReportInit /\ MigrationInit /\ ReplayInit
  /\ PrivacyInit /\ FunnelInit
  /\ active # "registry" => controlPlane = Empty
  /\ active # "migrations" => database = "neon" /\ events = "none"
  /\ active # "privacy" => absent = {}

PartsNext ==
  /\ UNCHANGED active
  /\ active \in Unclocked => UNCHANGED now
  /\ IF active = "limiter" THEN LimiterNext ELSE UNCHANGED limiterVars
  /\ IF active = "counter" THEN CounterNext ELSE UNCHANGED counterVars
  /\ IF active = "cache" THEN CacheNext ELSE UNCHANGED cacheVars
  /\ IF active = "identity" THEN IdentityNext ELSE UNCHANGED identityVars
  /\ IF active = "registry" THEN RegistryNext ELSE UNCHANGED registryVars
  /\ IF active = "alerts" THEN AlertNext ELSE UNCHANGED alertVars
  /\ IF active = "reports" THEN ReportNext ELSE UNCHANGED reportVars
  /\ IF active = "migrations" THEN MigrationNext ELSE UNCHANGED migrationVars
  /\ IF active = "replay" THEN ReplayNext ELSE UNCHANGED replayVars
  /\ IF active = "privacy" THEN PrivacyNext ELSE UNCHANGED privacyVars
  /\ IF active = "funnel" THEN FunnelNext ELSE UNCHANGED trail
  /\ active # "reports" => now' <= ShortTime

partsVars ==
  <<active, now, limiterVars, counterVars, cacheVars, identityVars,
    registryVars, alertVars, reportVars, migrationVars, replayVars, privacyVars,
    trail>>

(* The fairness of the components, each while it moves.                    *)
PartsSpec ==
  /\ PartsInit /\ [][PartsNext]_partsVars
  /\ WF_registryVars(active = "registry" /\ Tick)
  /\ \A r \in Refreshers : WF_registryVars(active = "registry" /\ Refresh(r))
  /\ \A r \in Readers : WF_registryVars(active = "registry" /\ LookupAgain(r))
  /\ WF_migrationVars(active = "migrations" /\ Migrate)
  /\ WF_replayVars(active = "replay" /\ FlushTimer)
=============================================================================
