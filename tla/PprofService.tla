---------------------------- MODULE PprofService ----------------------------
(***************************************************************************)
(* The optional pprof server (internal/services/pprof/service.go).  The    *)
(* reload loop calls Start, once, and Reconfigure; App.Stop calls Stop     *)
(* from another goroutine, after the supervisor's context is cancelled.    *)
(* s.mu protects single sections only: Start looks at s.srv and stores it  *)
(* in two of them, with net.Listen between, and Stop leaves the shutdown   *)
(* to a goroutine that both callers may stop waiting for.                  *)
(*                                                                         *)
(* All configurations are for one address, which is the hard case: a new   *)
(* server cannot listen before the old one has let go.  What Start would   *)
(* refuse for security the validator has refused before (pprof_map.go).    *)
(* The profiling rates, set at every Reconfigure, are left out.            *)
(***************************************************************************)
EXTENDS Naturals

CONSTANTS
  PprofConfigs, \* what of a configuration a running server depends on
  Enabled,      \* those that want the server
  NoServer      \* no server

ASSUME PprofAssumption ==
  /\ Enabled \subseteq PprofConfigs /\ Enabled # PprofConfigs
  /\ NoServer \notin PprofConfigs

VARIABLES
  pcfg,      \* s.cfg
  srv,       \* s.srv: the configuration it was made from, NoServer when nil
  stopDone,  \* s.stopDone is set
  bound,     \* a listener of ours is open on the address
  shutdown,  \* the goroutine that shuts the old server down is running
  at,        \* at[t]: where thread t is in the service
  restart,   \* the Stop under way in the loop is followed by a Start
  failed,    \* net.Listen failed when Start last tried, or Serve has since
  supDone    \* the supervisor's context is cancelled

pprofVars == <<pcfg, srv, stopDone, bound, shutdown, at, restart, failed, supDone>>

Callers == {"loop", "app"}

PprofTypeOK ==
  /\ pcfg \in PprofConfigs
  /\ srv \in Enabled \cup {NoServer}
  /\ stopDone \in BOOLEAN /\ bound \in BOOLEAN /\ shutdown \in BOOLEAN
  /\ at \in [Callers -> {"idle", "look", "hold", "listen", "store", "stop", "close", "wait"}]
  /\ restart \in BOOLEAN /\ failed \in BOOLEAN /\ supDone \in BOOLEAN

\* Before New there is no configuration, which is one without a server.
PprofInit ==
  /\ pcfg = CHOOSE c \in PprofConfigs : c \notin Enabled
  /\ srv = NoServer /\ stopDone = FALSE /\ bound = FALSE /\ shutdown = FALSE
  /\ at = [t \in Callers |-> "idle"]
  /\ restart = FALSE /\ failed = FALSE /\ supDone = FALSE

Goes(t, where) == at' = [at EXCEPT ![t] = where]

---------------------------------------------------------------------------
(* Start, called by the loop                                               *)

\* First section: nothing to do when there is a server, or none is wanted; a
\* stop in progress is waited for.
StartLooks ==
  /\ at["loop"] = "look"
  /\ Goes("loop", IF srv # NoServer THEN "idle"
                  ELSE IF stopDone THEN "hold"
                  ELSE IF pcfg \in Enabled THEN "listen" ELSE "idle")
  /\ UNCHANGED <<pcfg, srv, stopDone, bound, shutdown, restart, failed, supDone>>

\* net.Listen: the address may be taken, by another program or by ourselves.
Listens ==
  /\ at["loop"] = "listen"
  /\ \/ ~bound /\ bound' = TRUE /\ failed' = FALSE /\ Goes("loop", "store")
     \/ failed' = TRUE /\ Goes("loop", "idle") /\ UNCHANGED bound
  /\ UNCHANGED <<pcfg, srv, stopDone, shutdown, restart, supDone>>

\* Second section: the server is stored, whatever has happened since, and its
\* goroutine started.
StartStores ==
  /\ at["loop"] = "store"
  /\ srv' = pcfg
  /\ Goes("loop", "idle")
  /\ UNCHANGED <<pcfg, stopDone, bound, shutdown, restart, failed, supDone>>

\* Serve returns an error, having closed the listener; s.srv stays as it is.
ServeFails ==
  /\ srv # NoServer /\ bound
  /\ bound' = FALSE /\ failed' = TRUE
  /\ UNCHANGED <<pcfg, srv, stopDone, shutdown, at, restart, supDone>>

\* Start gives up waiting for a stop when its context is done.
StartGivesUp ==
  /\ at["loop"] = "hold" /\ supDone
  /\ Goes("loop", "idle")
  /\ UNCHANGED <<pcfg, srv, stopDone, bound, shutdown, restart, failed, supDone>>

---------------------------------------------------------------------------
(* Stop, called by either thread                                           *)

\* Where t is when its Stop has returned: Reconfigure may go on with Start.
Returned(t) == IF t = "loop" /\ restart THEN "look" ELSE "idle"

StopBegins(t) ==
  /\ at[t] = "stop"
  /\ IF srv = NoServer
       THEN Goes(t, Returned(t)) /\ UNCHANGED <<srv, stopDone>>
       ELSE IF stopDone
              THEN Goes(t, "wait") /\ UNCHANGED <<srv, stopDone>>
              ELSE Goes(t, "close") /\ srv' = NoServer /\ stopDone' = TRUE
  /\ UNCHANGED <<pcfg, bound, shutdown, restart, failed, supDone>>

\* The listener is closed and the goroutine started that shuts down.
StopCloses(t) ==
  /\ at[t] = "close"
  /\ bound' = FALSE /\ shutdown' = TRUE
  /\ Goes(t, "wait")
  /\ UNCHANGED <<pcfg, srv, stopDone, restart, failed, supDone>>

\* Connections end, or the context does: stopDone is cleared and whoever waits
\* for it goes on.
ShutdownEnds ==
  /\ shutdown
  /\ shutdown' = FALSE /\ stopDone' = FALSE
  /\ at' = [t \in Callers |-> IF at[t] = "wait" THEN Returned(t)
                              ELSE IF at[t] = "hold" THEN "look" ELSE at[t]]
  /\ UNCHANGED <<pcfg, srv, bound, restart, failed, supDone>>

\* The caller's context is done: the loop's is the supervisor's, App.Stop gives
\* a second.
StopGivesUp(t) ==
  /\ at[t] = "wait"
  /\ t = "loop" => supDone
  /\ Goes(t, Returned(t))
  /\ UNCHANGED <<pcfg, srv, stopDone, bound, shutdown, restart, failed, supDone>>

---------------------------------------------------------------------------
(* Reconfigure, called by the loop, and App.Stop                           *)

\* Mutant: a change of the token or of a timeout does not restart the server.
NeedsRestart_Never(c) == FALSE

NeedsRestart(c) == pcfg # c

\* New has made the service with configuration c; App.Start calls Start when it
\* enables the server.
FirstStart(c) ==
  /\ pcfg' = c
  /\ Goes("loop", IF c \in Enabled THEN "look" ELSE "idle")
  /\ UNCHANGED <<srv, stopDone, bound, shutdown, restart, failed, supDone>>

Reconfigure(c) ==
  /\ at["loop"] = "idle"
  /\ pcfg' = c
  /\ restart' = (c \in Enabled)
  /\ Goes("loop", IF c \in Enabled
                    THEN IF srv = NoServer THEN "look"
                         ELSE IF NeedsRestart(c) THEN "stop" ELSE "idle"
                    ELSE IF srv # NoServer THEN "stop" ELSE "idle")
  /\ UNCHANGED <<srv, stopDone, bound, shutdown, failed, supDone>>

\* App.Stop has cancelled the supervisor and comes to its step for pprof.
AppStops ==
  /\ ~supDone
  /\ supDone' = TRUE
  /\ Goes("app", "stop")
  /\ UNCHANGED <<pcfg, srv, stopDone, bound, shutdown, restart, failed>>

\* What goes on by itself in the loop, and beside it.
LoopInPprof ==
  \/ StartLooks \/ Listens \/ StartStores \/ StartGivesUp
  \/ StopBegins("loop") \/ StopCloses("loop") \/ StopGivesUp("loop")

AppInPprof == StopBegins("app") \/ StopCloses("app") \/ StopGivesUp("app")

---------------------------------------------------------------------------
(* Properties                                                              *)

\* While the application runs and the loop is not in the service, the server is
\* up exactly when the newest configuration wants it, made from that
\* configuration, unless the address was taken or Serve has failed: s.srv then
\* hides it from a Reconfigure with the same configuration (Reconfigure, Start).
ServerFollowsConfig ==
  at["loop"] = "idle" /\ ~supDone /\ ~failed =>
    srv = IF pcfg \in Enabled THEN pcfg ELSE NoServer

=============================================================================
