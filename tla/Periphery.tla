----------------------------- MODULE Periphery -----------------------------
(***************************************************************************)
(* The parts around the core that share no state with one another: the     *)
(* services of the reload loop, the systemd plugin, its manager of units,  *)
(* the history of the speedtest plugin and the registry of commands.  A    *)
(* behaviour is one of one part, the others staying as they begin; so each *)
(* part is explored by itself, and only once.                              *)
(***************************************************************************)
EXTENDS ReloadBody, SystemdPlugin, UnitManager, SpeedtestHistory, CommandRegistry

VARIABLE part

peripheryVars == <<reloadVars, systemdVars, unitVars, historyVars, registryVars, part>>

Parts == {"reload", "systemd", "units", "history", "registry"}

PeripheryTypeOK ==
  /\ part \in Parts
  /\ ReloadTypeOK /\ SystemdTypeOK /\ UnitTypeOK /\ HistoryTypeOK /\ RegistryTypeOK

Init ==
  /\ part \in Parts
  /\ ReloadInit /\ SystemdInit /\ UnitInit /\ HistoryInit /\ RegistryInit

Reload == part = "reload" /\ ReloadNext
          /\ UNCHANGED <<systemdVars, unitVars, historyVars, registryVars>>
Systemd == part = "systemd" /\ SystemdNext
          /\ UNCHANGED <<reloadVars, unitVars, historyVars, registryVars>>
UnitStatus == part = "units" /\ UnitNext
          /\ UNCHANGED <<reloadVars, systemdVars, historyVars, registryVars>>
History == part = "history" /\ HistoryNext
          /\ UNCHANGED <<reloadVars, systemdVars, unitVars, registryVars>>
Registry == part = "registry" /\ RegistryNext
          /\ UNCHANGED <<reloadVars, systemdVars, unitVars, historyVars>>

Next == (Reload \/ Systemd \/ UnitStatus \/ History \/ Registry) /\ UNCHANGED part

Spec == Init /\ [][Next]_peripheryVars

FairSpec == Spec /\ ReloadFairness /\ SystemdFairness /\ UnitFairness

---------------------------------------------------------------------------
(* The schedules of the systemd plugin                                     *)

\* A name that ends in a space, and the name without it; a cron string that does
\* not parse.
CONSTANTS Bare, Spaced

Trimmed == [n \in TaskNames |-> Bare]

Schedules == [name : {Bare}, parses : BOOLEAN] \cup [name : {Spaced}, parses : {TRUE}]

---------------------------------------------------------------------------
(* The commands of the program's plugins                                   *)

Command(route, aliases) == [route |-> route, aliases |-> aliases]

PluginCommands == [
  echo |-> << Command(<<"echo">>, {}), Command(<<"echo", "ui">>, {<<"menu">>}) >>,
  system |-> <<
    Command(<<"ping">>, {<<"health">>}), Command(<<"uptime">>, {<<"up">>}),
    Command(<<"sysinfo">>, {}),
    Command(<<"sched">>, {<<"sched", "list">>, <<"tasks">>, <<"task", "list">>}),
    Command(<<"sched", "list">>, {}) >>,
  speedtest |-> <<
    Command(<<"speedtest">>, {<<"st">>}),
    Command(<<"speedtest", "stats">>, {<<"sts">>, <<"speedtest-stats">>}),
    Command(<<"speedtest", "history">>, {<<"sth">>, <<"speedtest-history">>}),
    Command(<<"speedtest", "clean">>, {<<"stc">>, <<"speedtest-clean">>}) >>,
  systemd |-> <<
    Command(<<"systemd">>, {}), Command(<<"systemd", "list">>, {}),
    Command(<<"systemd", "status">>, {<<"systemd", "st">>}),
    Command(<<"systemd", "auto">>, {<<"systemd", "autorecover">>, <<"systemd", "auto">>}),
    Command(<<"systemd", "start">>, {<<"systemd", "start">>}),
    Command(<<"systemd", "stop">>, {<<"systemd", "stop">>}),
    Command(<<"systemd", "restart">>, {<<"systemd", "restart">>}),
    Command(<<"systemd", "enable">>, {}), Command(<<"systemd", "disable">>, {}),
    Command(<<"systemd", "failed">>, {}), Command(<<"systemd", "inactive">>, {}) >> ]

\* What sanitizeTelegramCommand makes of their tokens.
CleanToken ==
  LET hyphened == "speedtest-stats" :> <<"speedtest", "stats">>
               @@ "speedtest-history" :> <<"speedtest", "history">>
               @@ "speedtest-clean" :> <<"speedtest", "clean">>
      words == UNION {ToSet(c.route) \cup UNION {ToSet(a) : a \in c.aliases} :
                        c \in UNION {ToSet(PluginCommands[p]) : p \in DOMAIN PluginCommands}}
  IN hyphened @@ [t \in words \cup {"help", "h"} |-> <<t>>]

=============================================================================
