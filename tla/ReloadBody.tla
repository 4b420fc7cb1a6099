----------------------------- MODULE ReloadBody -----------------------------
(***************************************************************************)
(* One turn of the reload loop (internal/core/app.go:243-331) through the  *)
(* two services that wait for somebody: logging first, then pprof, from    *)
(* one goroutine; so what holds up the one holds up the other, and         *)
(* everything behind them.  The scheduler and the plugins, which the loop  *)
(* comes to as well, have modules of their own.                            *)
(***************************************************************************)
EXTENDS LoggingService, PprofService

VARIABLES
  made,  \* NewApp has made the services
  turn   \* "wait", or the service that the loop is in, or "gone"

bodyVars == <<made, turn>>
reloadVars == <<logVars, pprofVars, bodyVars>>

ReloadTypeOK ==
  /\ LoggingTypeOK /\ PprofTypeOK
  /\ made \in BOOLEAN
  /\ turn \in {"wait", "logging", "pprof", "gone"}

ReloadInit ==
  /\ LoggingInit /\ PprofInit
  /\ made = FALSE /\ turn = "wait"

\* A configuration arrives; the first is the one of NewApp.
Turn ==
  /\ turn = "wait"
  /\ turn' = "logging"
  /\ \E c \in LogConfigs : ApplyLogging(c)
  /\ UNCHANGED <<pprofVars, made>>

Logging ==
  /\ turn = "logging"
  /\ LoopInLogging
  /\ UNCHANGED <<pprofVars, bodyVars>>

\* The first time the loop is still App.Start.
ToPprof ==
  /\ turn = "logging" /\ stage = "idle"
  /\ turn' = "pprof" /\ made' = TRUE
  /\ \E c \in PprofConfigs : IF made THEN Reconfigure(c) ELSE FirstStart(c)
  /\ UNCHANGED logVars

Pprof ==
  /\ turn = "pprof"
  /\ LoopInPprof
  /\ UNCHANGED <<logVars, bodyVars>>

TurnEnds ==
  /\ turn = "pprof" /\ at["loop"] = "idle"
  /\ turn' = "wait"
  /\ UNCHANGED <<logVars, pprofVars, made>>

LoopEnds ==
  /\ turn = "wait" /\ supDone
  /\ turn' = "gone"
  /\ UNCHANGED <<logVars, pprofVars, made>>

ReloadLoop == Logging \/ ToPprof \/ Pprof \/ TurnEnds \/ LoopEnds
Others == OtherInLogging /\ UNCHANGED <<pprofVars, bodyVars>>
Connections == ShutdownEnds /\ UNCHANGED <<logVars, bodyVars>>
AppStop == AppInPprof /\ UNCHANGED <<logVars, bodyVars>>

ReloadNext ==
  \/ Turn \/ ReloadLoop
  \/ Logs /\ UNCHANGED <<pprofVars, bodyVars>>
  \/ Others \/ Connections \/ AppStop
  \/ ServeFails /\ UNCHANGED <<logVars, bodyVars>>
  \/ made /\ AppStops /\ UNCHANGED <<logVars, bodyVars>>

ReloadSpec == ReloadInit /\ [][ReloadNext]_reloadVars

\* The loop goes on however often others take s.mu of the logging service, for Go
\* hands a mutex over in the end.
ReloadFairness ==
  /\ SF_reloadVars(ReloadLoop)
  /\ WF_reloadVars(Others) /\ WF_reloadVars(Connections) /\ WF_reloadVars(AppStop)

---------------------------------------------------------------------------
(* Properties                                                              *)

\* Between two turns the sinks of the log and the pprof server are those of the
\* newest configuration (app.go:250-320).
ServicesFollowConfig ==
  turn = "wait" => SinksFollowConfig /\ ServerFollowsConfig

\* A turn of the reload loop ends, whoever else logs or stops pprof, unless
\* Apply's own warning is for the Telegram handler of the same logger
\* (logging.go:99-113 with 283): then the loop hangs for good.
TurnReturns == []<>(turn \in {"wait", "gone"} \/ WarnsItself)

=============================================================================
