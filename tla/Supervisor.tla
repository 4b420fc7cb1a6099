----------------------------- MODULE Supervisor -----------------------------
(***************************************************************************)
(* The supervisor of the application's goroutines                          *)
(* (internal/core/supervisor.go, with WithCancelOnError(true) as App.Start *)
(* makes it): each goroutine returns, or fails with an error or a panic,   *)
(* and the first failure is kept and cancels the context all of them share.*)
(*                                                                         *)
(* Everybody logs, and a call of the logger can block for ever: when the   *)
(* logging service is reconfigured it may warn with its own mutex held     *)
(* (internal/services/logging/logging.go, Apply), and from then on a call  *)
(* blocks whose level reaches the Telegram handler.                        *)
(***************************************************************************)

CONSTANTS
  Goroutines,  \* names of the supervised goroutines
  None         \* no goroutine, no update

ASSUME SupervisorAssumption == None \notin Goroutines

Levels == {"debug", "info", "warn"}   \* errors go wherever warnings go

\* The levels that reach a Telegram handler: those from some level on.
Upwards == {{"warn"}, {"info", "warn"}, Levels}

VARIABLES
  ctxDone,     \* the supervisor's context is cancelled
  goro,        \* goro[g]: "new", "on", "failed" (it has set the error) or "gone"
  firstErr,    \* the goroutine whose error was kept
  blocked      \* the levels at which a call of the logger never returns

supVars == <<ctxDone, goro, firstErr, blocked>>

SupervisorTypeOK ==
  /\ ctxDone \in BOOLEAN
  /\ goro \in [Goroutines -> {"new", "on", "failed", "gone"}]
  /\ firstErr \in Goroutines \cup {None}
  /\ blocked \in {{}} \cup Upwards

SupervisorInit ==
  /\ ctxDone = FALSE
  /\ goro = [g \in Goroutines |-> "new"]
  /\ firstErr = None
  /\ blocked = {}

CanLog(level) == level \notin blocked

\* The service warns with its mutex held, and its Telegram handler locks it.
LoggerJams ==
  /\ blocked = {}
  /\ blocked' \in Upwards
  /\ UNCHANGED <<ctxDone, goro, firstErr>>

Go(g) ==
  /\ goro[g] = "new"
  /\ goro' = [goro EXCEPT ![g] = "on"]
  /\ UNCHANGED <<ctxDone, firstErr, blocked>>

\* The goroutine's function returns nil or context.Canceled, and that is logged.
Return(g) ==
  /\ goro[g] = "on" /\ CanLog("debug")
  /\ goro' = [goro EXCEPT ![g] = "gone"]
  /\ UNCHANGED <<ctxDone, firstErr, blocked>>

\* Mutant: the context is cancelled before the error is stored.
SetErr_AfterCancel(g) ==
  /\ goro[g] = "on"
  /\ goro' = [goro EXCEPT ![g] = "failed"]
  /\ ctxDone' = TRUE
  /\ UNCHANGED <<firstErr, blocked>>

\* It returns an error or panics, which is stored if it is the first.
SetErr(g) ==
  /\ goro[g] = "on"
  /\ goro' = [goro EXCEPT ![g] = "failed"]
  /\ firstErr' = IF firstErr = None THEN g ELSE firstErr
  /\ UNCHANGED <<ctxDone, blocked>>

\* The goroutine is gone once it has logged that it stops.
CancelOnError(g) ==
  /\ goro[g] = "failed"
  /\ ctxDone' = TRUE
  /\ goro' = IF CanLog("debug") THEN [goro EXCEPT ![g] = "gone"] ELSE goro
  /\ UNCHANGED <<firstErr, blocked>>

\* What Wait waits for: none of the goroutines that were started is left.
AllReturned == \A g \in Goroutines : goro[g] \in {"new", "gone"}
=============================================================================
