-------------------------- MODULE CommandDispatch --------------------------
(***************************************************************************)
(* The way of an update from Telegram to a handler: the adapter puts it in *)
(* a bounded channel (internal/adapters/telegram/telegram.go), the         *)
(* dispatch loop routes it and puts a job in a bounded queue, a worker     *)
(* takes the job and calls the handler (internal/core/commands.go,         *)
(* middleware.go).                                                         *)
(*                                                                         *)
(* Where an update is routed to depends on its text, the registry and the  *)
(* owners; here that is a choice.  A worker's select does not prefer the   *)
(* cancelled context to a job, so both are open to it.  A handler's panic  *)
(* is recovered by the middleware and is a return; a handler may hang, for *)
(* its timeout only cancels a context that it need not look at.            *)
(* A handler's end is logged, and so are the ends of the workers and of    *)
(* the loop: with the logger blocked they do not come.                     *)
(***************************************************************************)
EXTENDS Supervisor, Naturals, Sequences

CONSTANTS
  Updates,     \* the updates Telegram has for the bot
  Workers,     \* the workers of the dispatcher
  UpdatesCap,  \* capacity of the updates channel (256 in the code)
  JobsCap,     \* capacity of the job queue (256 in the code)
  Hanging      \* the updates whose handlers never return

ASSUME DispatchAssumption ==
  /\ UpdatesCap \in Nat /\ JobsCap \in Nat
  /\ Hanging \subseteq Updates
  /\ None \notin Updates
  /\ "dispatch" \in Goroutines

VARIABLES
  out,         \* the adapter has an output channel
  updates,     \* the contents of the updates channel
  loop,        \* where DispatchLoop is
  cur,         \* the update it is routing
  jobs,        \* the contents of the job queue
  closed,      \* the job queue is closed
  worker,      \* worker[w]: "off", "idle", "got" a job, "busy" with it or "gone"
  has,         \* has[w]: the update whose job it has taken
  fate         \* fate[u]: what has become of u (history)

chanVars == <<out, updates>>
loopVars == <<loop, cur>>
jobVars == <<jobs, closed>>
workerVars == <<worker, has>>
dispatchVars == <<chanVars, loopVars, jobVars, workerVars, fate>>

Pending == {"accepted", "routing", "queued", "taken"}
Settled == {"dropped", "answered", "busy", "done"}

DispatchTypeOK ==
  /\ out \in BOOLEAN
  /\ updates \in Seq(Updates) /\ Len(updates) <= UpdatesCap
  /\ loop \in {"off", "wait", "route", "close", "join", "gone"}
  /\ cur \in Updates \cup {None}
  /\ jobs \in Seq(Updates) /\ Len(jobs) <= JobsCap
  /\ closed \in BOOLEAN
  /\ worker \in [Workers -> {"off", "idle", "got", "busy", "gone"}]
  /\ has \in [Workers -> Updates \cup {None}]
  /\ fate \in [Updates -> {"new"} \cup Pending \cup Settled]

DispatchInit ==
  /\ out = FALSE /\ updates = <<>>
  /\ loop = "off" /\ cur = None
  /\ jobs = <<>> /\ closed = FALSE
  /\ worker = [w \in Workers |-> "off"] /\ has = [w \in Workers |-> None]
  /\ fate = [u \in Updates |-> "new"]

Becomes(u, f) == fate' = [fate EXCEPT ![u] = f]

---------------------------------------------------------------------------
(* The adapter                                                             *)

AdapterStart ==
  /\ out' = TRUE
  /\ UNCHANGED <<updates, loopVars, jobVars, workerVars, fate>>

AdapterStop ==
  /\ out' = FALSE
  /\ UNCHANGED <<updates, loopVars, jobVars, workerVars, fate>>

\* An update arrives: without an output channel, or with the channel full, it
\* is dropped.
SendUpdate(u) ==
  /\ fate[u] = "new"
  /\ IF out /\ Len(updates) < UpdatesCap
       THEN updates' = Append(updates, u) /\ Becomes(u, "accepted")
       ELSE UNCHANGED updates /\ Becomes(u, "dropped")
  /\ UNCHANGED <<supVars, out, loopVars, jobVars, workerVars>>

---------------------------------------------------------------------------
(* DispatchLoop                                                            *)

StartDispatch ==
  /\ loop = "off"
  /\ Go("dispatch")
  /\ loop' = "wait"
  /\ worker' = [w \in Workers |-> "idle"]
  /\ UNCHANGED <<chanVars, cur, jobVars, has, fate>>

TakeUpdate ==
  /\ loop = "wait" /\ updates # <<>>
  /\ cur' = Head(updates) /\ updates' = Tail(updates)
  /\ loop' = "route"
  /\ Becomes(Head(updates), "routing")
  /\ UNCHANGED <<supVars, out, jobVars, workerVars>>

Routed(f) ==
  /\ loop = "route"
  /\ loop' = "wait" /\ cur' = None
  /\ Becomes(cur, f)

\* The loop itself deals with the update: not a command, unknown, a path
\* without handler (help), not an owner, no such callback.
Answer ==
  /\ Routed("answered")
  /\ UNCHANGED <<supVars, chanVars, jobVars, workerVars>>

\* Mutant: when the queue is full an idle worker is given the job itself.
Enqueue_Direct ==
  /\ IF Len(jobs) < JobsCap
       THEN Routed("queued") /\ jobs' = Append(jobs, cur) /\ UNCHANGED workerVars
       ELSE \E w \in Workers :
              /\ worker[w] = "idle"
              /\ worker' = [worker EXCEPT ![w] = "got"]
              /\ has' = [has EXCEPT ![w] = cur]
              /\ Routed("taken") /\ UNCHANGED jobs
  /\ UNCHANGED <<supVars, chanVars, closed>>

\* Mutant: when the queue is full the oldest job gives way, and nobody is told.
Enqueue_DropOldest ==
  /\ Routed("queued")
  /\ jobs' = Append(IF Len(jobs) < JobsCap THEN jobs ELSE Tail(jobs), cur)
  /\ UNCHANGED <<supVars, chanVars, closed, workerVars>>

\* A job for the update's handler; when the queue is full the sender is told
\* that the bot is busy.
Enqueue ==
  /\ IF Len(jobs) < JobsCap
       THEN Routed("queued") /\ jobs' = Append(jobs, cur)
       ELSE Routed("busy") /\ UNCHANGED jobs
  /\ UNCHANGED <<supVars, chanVars, closed, workerVars>>

\* Routing panics: the deferred function of DispatchLoop runs while the panic
\* unwinds.
RoutePanics ==
  /\ loop = "route"
  /\ loop' = "close"
  /\ Becomes(cur, "dropped")
  /\ UNCHANGED <<supVars, chanVars, cur, jobVars, workerVars>>

SeeDone ==
  /\ loop = "wait" /\ ctxDone
  /\ loop' = "close"
  /\ UNCHANGED <<supVars, chanVars, cur, jobVars, workerVars, fate>>

\* The loop says why it stops, unless it panics.
CloseJobs ==
  /\ loop = "close" /\ (cur = None => CanLog("info"))
  /\ closed' = TRUE
  /\ loop' = "join"
  /\ UNCHANGED <<supVars, chanVars, cur, jobs, workerVars, fate>>

\* Mutant: the workers are not waited for.
Joined_NoWait ==
  /\ loop = "join"
  /\ loop' = "gone"
  /\ IF cur = None THEN Return("dispatch") ELSE SetErr("dispatch")
  /\ UNCHANGED <<chanVars, cur, jobVars, workerVars, fate>>

\* All workers have returned, their last words logged, and the loop has logged
\* its own: it returns, or its panic reaches the supervisor (cur is still set).
Joined ==
  /\ loop = "join" /\ CanLog("debug") /\ CanLog("info")
  /\ \A w \in Workers : worker[w] = "gone"
  /\ loop' = "gone"
  /\ IF cur = None THEN Return("dispatch") ELSE SetErr("dispatch")
  /\ UNCHANGED <<chanVars, cur, jobVars, workerVars, fate>>

LoopStep ==
  \/ TakeUpdate \/ Answer \/ Enqueue \/ RoutePanics
  \/ SeeDone \/ CloseJobs \/ Joined

---------------------------------------------------------------------------
(* The workers                                                             *)

\* Also when the context is cancelled or the queue closed.
TakeJob(w) ==
  /\ worker[w] = "idle" /\ jobs # <<>>
  /\ worker' = [worker EXCEPT ![w] = "got"]
  /\ has' = [has EXCEPT ![w] = Head(jobs)]
  /\ jobs' = Tail(jobs)
  /\ Becomes(Head(jobs), "taken")
  /\ UNCHANGED <<supVars, chanVars, loopVars, closed>>

\* The call of the job, and with it of the handler: of two workers the one that
\* took its job first may come to this last.
CallJob(w) ==
  /\ worker[w] = "got"
  /\ worker' = [worker EXCEPT ![w] = "busy"]
  /\ UNCHANGED <<supVars, chanVars, loopVars, jobVars, has, fate>>

\* Mutant: an empty queue is taken for a closed one.
WorkerReturns_WhenEmpty(w) ==
  /\ worker[w] = "idle"
  /\ ctxDone \/ jobs = <<>>
  /\ worker' = [worker EXCEPT ![w] = "gone"]
  /\ UNCHANGED <<supVars, chanVars, loopVars, jobVars, has, fate>>

WorkerReturns(w) ==
  /\ worker[w] = "idle"
  /\ ctxDone \/ (closed /\ jobs = <<>>)
  /\ worker' = [worker EXCEPT ![w] = "gone"]
  /\ UNCHANGED <<supVars, chanVars, loopVars, jobVars, has, fate>>

\* What it did is logged, at a level that depends on its error and its time.
HandlerReturns(w) ==
  /\ worker[w] = "busy" /\ has[w] \notin Hanging
  /\ \E level \in Levels : CanLog(level)
  /\ worker' = [worker EXCEPT ![w] = "idle"]
  /\ has' = [has EXCEPT ![w] = None]
  /\ Becomes(has[w], "done")
  /\ UNCHANGED <<supVars, chanVars, loopVars, jobVars>>

WorkerStep(w) == TakeJob(w) \/ CallJob(w) \/ WorkerReturns(w) \/ HandlerReturns(w)
=============================================================================
