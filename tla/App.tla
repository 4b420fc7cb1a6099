-------------------------------- MODULE App --------------------------------
(***************************************************************************)
(* The life of the program: main (cmd/bot/main.go) starts the application, *)
(* waits for a signal or for the supervisor's context, and stops it step   *)
(* by step, each step in a goroutine and with a deadline                   *)
(* (internal/core/app.go, App.Start and App.Stop).  The dispatcher and the *)
(* supervisor are those of CommandDispatch and Supervisor; the plugins and *)
(* the services come in only as steps that may take too long.  main itself *)
(* logs between the steps, and each of these calls may block for ever.     *)
(***************************************************************************)
EXTENDS CommandDispatch, FiniteSets

CONSTANT
  Stuck        \* the supervised goroutines that may never return

ASSUME AppAssumption ==
  /\ Stuck \subseteq Goroutines \ {"dispatch"}
  /\ "reload" \in Goroutines

Steps == <<"plugins", "scheduler", "pprof", "notifier", "adapter", "supervisor">>

VARIABLES
  main,        \* where main is
  sig,         \* the signal goroutine: "none", "told", "cancelled"
  reason,      \* the reason App.Stop is given
  step,        \* number of the stop step under way
  joined       \* the supervisor step saw all its goroutines return (history)

mainVars == <<main, step, reason, joined>>
vars == <<supVars, dispatchVars, mainVars, sig>>

TypeOK ==
  /\ SupervisorTypeOK /\ DispatchTypeOK
  /\ main \in {"adapter", "services", "dispatch", "loops", "select", "stopping", "stop", "exited"}
  /\ sig \in {"none", "told", "cancelled"}
  /\ reason \in {"unset", "unknown", "signal", "fatal"}
  /\ step \in 0 .. Len(Steps)
  /\ joined \in BOOLEAN

Init ==
  /\ SupervisorInit /\ DispatchInit
  /\ main = "adapter" /\ sig = "none" /\ reason = "unset" /\ step = 0 /\ joined = FALSE

Main(from, to) ==
  /\ main = from
  /\ main' = to
  /\ UNCHANGED <<reason, step, joined, sig>>

---------------------------------------------------------------------------
(* App.Start                                                               *)

StartAdapter ==
  /\ Main("adapter", "services")
  /\ AdapterStart
  /\ UNCHANGED supVars

\* The adapter does not start, or StartAll fails: main exits.
StartFails ==
  /\ Main("adapter", "exited") \/ Main("services", "exited")
  /\ UNCHANGED <<supVars, dispatchVars>>

StartServices ==
  /\ Main("services", "dispatch")
  /\ UNCHANGED <<supVars, dispatchVars>>

GoDispatch ==
  /\ Main("dispatch", "loops")
  /\ StartDispatch

\* The reload loop and the watcher, which are alike here.
GoLoop(g) ==
  /\ Main("loops", "loops")
  /\ Go(g)
  /\ UNCHANGED dispatchVars

\* The application says that it has started.
Started ==
  /\ Main("loops", "select")
  /\ \A g \in Goroutines : goro[g] # "new"
  /\ CanLog("info")
  /\ UNCHANGED <<supVars, dispatchVars>>

Start ==
  \/ StartAdapter \/ StartFails \/ StartServices \/ GoDispatch
  \/ \E g \in Goroutines : GoLoop(g)
  \/ Started

---------------------------------------------------------------------------
(* Signals and failures                                                    *)

\* The first signal: its reason is left for main, then the context, of which
\* the supervisor's is a child, is cancelled.
Signal ==
  /\ sig = "none"
  /\ sig' = "told"
  /\ UNCHANGED <<supVars, dispatchVars, mainVars>>

SignalCancels ==
  /\ sig = "told"
  /\ sig' = "cancelled"
  /\ ctxDone' = TRUE
  /\ UNCHANGED <<goro, firstErr, blocked, dispatchVars, mainVars>>

SecondSignal ==
  /\ sig = "cancelled"
  /\ main' = "exited"
  /\ UNCHANGED <<supVars, dispatchVars, step, reason, joined, sig>>

\* The reload loop applies a configuration over which the logging service hangs,
\* and with it the loop.
ReloadJams ==
  /\ goro["reload"] = "on"
  /\ LoggerJams
  /\ UNCHANGED <<dispatchVars, mainVars, sig>>

Hangs(g) == g = "reload" /\ blocked # {}

\* The watcher cannot be had, or the reload loop panics.
GoroutineFails(g) ==
  /\ g # "dispatch" /\ ~Hangs(g)
  /\ SetErr(g)
  /\ UNCHANGED <<dispatchVars, mainVars, sig>>

FailureCancels(g) ==
  /\ CancelOnError(g)
  /\ UNCHANGED <<dispatchVars, mainVars, sig>>

GoroutineReturns(g) ==
  /\ g \notin Stuck \cup {"dispatch"} /\ ctxDone /\ ~Hangs(g)
  /\ Return(g)
  /\ UNCHANGED <<dispatchVars, mainVars, sig>>

---------------------------------------------------------------------------
(* main's select, and App.Stop                                             *)

\* main sees its own context or the supervisor's; when both are done either.
Select ==
  /\ main = "select"
  /\ \/ sig = "cancelled" /\ reason' = "signal"
     \/ ctxDone /\ reason' = IF firstErr # None THEN "fatal" ELSE "unknown"
  /\ main' = "stopping"
  /\ UNCHANGED <<supVars, dispatchVars, step, joined, sig>>

\* Stop says that it stops, then cancels the supervisor's context.
StopBegins ==
  /\ main = "stopping" /\ CanLog("info")
  /\ main' = "stop" /\ step' = 1
  /\ ctxDone' = TRUE
  /\ UNCHANGED <<goro, firstErr, blocked, dispatchVars, reason, joined, sig>>

AdapterStops ==
  /\ main = "stop" /\ step >= 5 /\ out
  /\ AdapterStop
  /\ UNCHANGED <<supVars, mainVars, sig>>

\* The function of the step under way returns, which main logs by the time it
\* took.
StepReturns ==
  /\ Steps[step] = "adapter" => ~out /\ CanLog("info")
  /\ Steps[step] = "supervisor" => AllReturned
  /\ CanLog("debug") \/ CanLog("info")
  /\ joined' = (Steps[step] = "supervisor")

\* Mutant: the deadline is not looked at.
StepDeadline_Never == FALSE /\ UNCHANGED joined

\* The deadline of the step passes, with a warning; its function goes on by itself.
StepDeadline == CanLog("warn") /\ UNCHANGED joined

\* The begin of a step is logged, and so is the end of Stop.
NextStep ==
  /\ main = "stop" /\ CanLog("debug")
  /\ StepReturns \/ StepDeadline
  /\ \/ step < Len(Steps) /\ step' = step + 1 /\ UNCHANGED main
     \/ step = Len(Steps) /\ CanLog("info") /\ main' = "exited" /\ UNCHANGED step
  /\ UNCHANGED <<supVars, dispatchVars, reason, sig>>

---------------------------------------------------------------------------

Environment ==
  \/ \E u \in Updates : SendUpdate(u) /\ UNCHANGED <<mainVars, sig>>
  \/ Signal \/ SecondSignal \/ ReloadJams
  \/ \E g \in Goroutines : GoroutineFails(g)

Dispatch == LoopStep /\ UNCHANGED <<mainVars, sig>>
Work(w) == WorkerStep(w) /\ UNCHANGED <<mainVars, sig>>

\* When main returns the process ends, whatever its goroutines do.
Next ==
  /\ main # "exited"
  /\ \/ Environment
     \/ Start \/ SignalCancels
     \/ \E g \in Goroutines : FailureCancels(g) \/ GoroutineReturns(g)
     \/ Select \/ StopBegins \/ AdapterStops \/ NextStep
     \/ Dispatch \/ \E w \in Workers : Work(w)

Spec == Init /\ [][Next]_vars

\* main, the goroutines and the timers get on, and handlers that do not hang
\* return; nothing has to arrive or to fail.
FairSpec ==
  /\ Spec
  /\ WF_vars(Start) /\ WF_vars(SignalCancels)
  /\ WF_vars(Select) /\ WF_vars(StopBegins) /\ WF_vars(NextStep)
  /\ \A g \in Goroutines : WF_vars(FailureCancels(g)) /\ WF_vars(GoroutineReturns(g))
  /\ WF_vars(main # "exited" /\ Dispatch)
  /\ \A w \in Workers : WF_vars(main # "exited" /\ Work(w))

---------------------------------------------------------------------------
(* Properties                                                              *)

Count(s, u) == Cardinality({i \in DOMAIN s : s[i] = u})

\* An update that is neither settled nor yet to come is in exactly one place:
\* the channel, the loop's hands, the job queue or one worker's
\* (commands.go:313-326, 454-458, 285-294).
InOnePlace ==
  /\ TypeOK
  /\ \A u \in Updates :
       /\ Count(updates, u) = IF fate[u] = "accepted" THEN 1 ELSE 0
       /\ Count(jobs, u) = IF fate[u] = "queued" THEN 1 ELSE 0
       /\ (loop = "route" /\ cur = u) <=> fate[u] = "routing"
       /\ {w \in Workers : has[w] = u} = {} <=> fate[u] # "taken"
       /\ \A v, w \in Workers : has[v] = u /\ has[w] = u => v = w

\* When the dispatcher's goroutine has ended no handler runs and none will: if
\* the supervisor step of Stop ends before its deadline, main leaves no handler
\* in the middle of its work (commands.go:303-309, app.go:432-433).
QuietWhenJoined ==
  goro["dispatch"] = "gone" \/ joined => \A w \in Workers : worker[w] \in {"off", "gone"}

\* Without a signal main stops only because a goroutine failed, and says so
\* (main.go:79-83, supervisor.go:83-86).
FatalIsTold == main \in {"stopping", "stop"} /\ sig = "none" => reason = "fatal"

\* The channel, the loop's hands and the job queue are one line of updates, from
\* which the workers take the first: updates are taken in the order in which they
\* came into the channel, whatever is answered, refused or dropped in between
\* (telegram.go:112-123, commands.go:317-326, 285-294, 454-458).  Their handlers
\* need not begin in that order: each worker calls its own (commands.go:296).
Arrived == {u \in Updates : fate[u] # "new"}
InHand == IF loop = "route" THEN <<cur>> ELSE <<>>
Waiting == jobs \o InHand \o updates

Way == INSTANCE UpdateLine WITH
         Places <- UpdatesCap + 1 + JobsCap,
         seen <- Arrived, line <- Waiting, hands <- has
WaySpec == Way!Spec

\* An accepted update is answered, refused or handled, though handlers hang, as
\* long as fewer hang than there are workers; unless the application stops, its
\* logger hangs (middleware.go:47-52), or it is wedged: the loop has panicked and
\* waits for a handler that hangs (commands.go:303-309).
Served ==
  \A u \in Updates :
    fate[u] = "accepted" ~>
      \/ fate[u] \in Settled \/ u \in Hanging
      \/ ctxDone \/ main = "exited" \/ blocked # {}
      \/ loop = "join" /\ \E w \in Workers : has[w] \in Hanging

\* Once a signal has come main exits, though handlers and goroutines hang
\* (app.go:351, "so one component can't stall the whole stop"), if only its own
\* calls of the logger return: they have no deadline (app.go:347, 355, 388-399, 435).
MainExits == sig # "none" ~> main = "exited" \/ blocked # {}
=============================================================================
