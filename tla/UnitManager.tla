---------------------------- MODULE UnitManager ----------------------------
(***************************************************************************)
(* One ServiceManager of pkg/systemdmanager (systemdmanager_linux.go): the *)
(* status of all units, asked for by a small worker pool, with the cache   *)
(* of whether a unit is enabled on boot; beside it the operations, which   *)
(* hold sm.mu for reading while systemd works, and Close.  sm.mu is a      *)
(* RWMutex: a writer waits for the readers it finds, and who comes to read *)
(* while a writer waits, waits for it.                                     *)
(*                                                                         *)
(* Time passes in steps, of which the cache keeps an answer for TTL.  What *)
(* a status says besides Enabled, and how it is shown, is left out.  A     *)
(* batch is its operations, each in a goroutine of its own; enabling a     *)
(* list of units is one after the other.                                   *)
(***************************************************************************)
EXTENDS Integers, FiniteSetsExt

CONSTANTS
  Units,      \* the managed units
  NoUnit,     \* no unit
  StatusWorkers, \* the workers of one GetAllStatusContext
  Operators,  \* the goroutines that operate on units
  TTL,        \* how long an answer is kept
  MaxEntries, \* how many answers are kept
  MaxAge      \* bound: the longest that one IsEnabled takes

ASSUME UnitAssumption ==
  /\ NoUnit \notin Units /\ IsFiniteSet(Units) /\ IsFiniteSet(StatusWorkers)
  /\ TTL \in Nat /\ MaxEntries \in Nat \ {0} /\ MaxAge \in Nat

VARIABLES
  onBoot,   \* onBoot[u]: u is enabled on boot, as systemd has it
  lapse,    \* lapse[u][v]: the time since onBoot[u] was last v (history)
  cache,    \* enabledCache: NoEntry, or what is kept and for how long still
  connOpen, \* sm.conn is not nil
  closing,  \* Close waits for its lock
  asked,    \* GetAllStatusContext is under way
  unsent,   \* the units it still has to give to the workers
  jobs,     \* the channel to them
  results,  \* the channel back
  job,      \* job[w]: the unit of worker w
  step,     \* step[w]: where w is with it
  age,      \* age[w]: the time since its IsEnabled has read the clock
  told,     \* told[w]: what systemd has told it
  operating \* the operators that hold sm.mu

systemVars == <<onBoot, lapse>>
askVars == <<asked, unsent, jobs, results>>
workerVars == <<job, step, age, told>>
unitVars == <<systemVars, cache, connOpen, closing, askVars, workerVars, operating>>

\* An answer that expired longer ago than any clock still in use is expired for
\* all of them.
LongAgo == -MaxAge - 1
NoEntry == [enabled |-> FALSE, left |-> LongAgo - 1]
Entries == [enabled : BOOLEAN, left : LongAgo .. TTL] \cup {NoEntry}

UnitTypeOK ==
  /\ onBoot \in [Units -> BOOLEAN] /\ lapse \in [Units -> [BOOLEAN -> 0 .. TTL]]
  /\ cache \in [Units -> Entries]
  /\ connOpen \in BOOLEAN /\ closing \in BOOLEAN /\ asked \in BOOLEAN
  /\ unsent \subseteq Units /\ jobs \subseteq Units /\ results \subseteq Units
  /\ job \in [StatusWorkers -> Units \cup {NoUnit}]
  /\ step \in [StatusWorkers -> {"free", "status", "cache", "ask", "store", "send"}]
  /\ age \in [StatusWorkers -> 0 .. MaxAge] /\ told \in [StatusWorkers -> BOOLEAN]
  /\ operating \subseteq Operators

UnitInit ==
  /\ onBoot = [u \in Units |-> FALSE]
  /\ lapse = [u \in Units |-> [v \in BOOLEAN |-> IF v THEN TTL ELSE 0]]
  /\ cache = [u \in Units |-> NoEntry]
  /\ connOpen = TRUE /\ closing = FALSE
  /\ asked = FALSE /\ unsent = {} /\ jobs = {} /\ results = {}
  /\ job = [w \in StatusWorkers |-> NoUnit] /\ step = [w \in StatusWorkers |-> "free"]
  /\ age = [w \in StatusWorkers |-> 0] /\ told = [w \in StatusWorkers |-> FALSE]
  /\ operating = {}

---------------------------------------------------------------------------
(* The environment: systemd, and time                                      *)

\* A unit is enabled or disabled: by an operation that holds sm.mu for reading,
\* which tells the cache nothing of it, or by somebody else.
Changes(u) ==
  /\ onBoot' = [onBoot EXCEPT ![u] = ~@]
  /\ lapse' = [lapse EXCEPT ![u][~onBoot[u]] = 0]
  /\ UNCHANGED <<cache, connOpen, closing, askVars, workerVars, operating>>

\* What an expired answer says does not matter any more.
Kept(v, left) == [enabled |-> v /\ left > 0, left |-> left]

TimePasses ==
  /\ \A w \in StatusWorkers : age[w] < MaxAge
  /\ lapse' = [u \in Units |-> [v \in BOOLEAN |->
                 IF v = onBoot[u] THEN 0 ELSE Min({lapse[u][v] + 1, TTL})]]
  /\ cache' = [u \in Units |-> IF cache[u] = NoEntry THEN NoEntry
                                ELSE Kept(cache[u].enabled, Max({cache[u].left - 1, LongAgo}))]
  /\ age' = [w \in StatusWorkers |-> IF step[w] \in {"cache", "ask", "store"} THEN age[w] + 1 ELSE 0]
  /\ UNCHANGED <<onBoot, connOpen, closing, askVars, job, step, told, operating>>

---------------------------------------------------------------------------
(* sm.mu                                                                   *)

WriterWaits == closing \/ \E w \in StatusWorkers : step[w] = "store"
MayRead == ~WriterWaits
MayWrite == operating = {}

---------------------------------------------------------------------------
(* GetAllStatusContext and its workers                                     *)

\* The channel to the workers holds two jobs for each, the one back a result
\* for each unit.
JobsCap == 2 * Cardinality(StatusWorkers)

\* Mutant: the channel back is as small as the pool.
ResultsCap_Pool == Cardinality(StatusWorkers)

ResultsCap == Cardinality(Units)

Asks ==
  /\ ~asked
  /\ asked' = TRUE /\ unsent' = Units
  /\ UNCHANGED <<systemVars, cache, connOpen, closing, jobs, results, workerVars, operating>>

Sends ==
  /\ Cardinality(jobs) < JobsCap
  /\ \E u \in unsent : unsent' = unsent \ {u} /\ jobs' = jobs \cup {u}
  /\ UNCHANGED <<systemVars, cache, connOpen, closing, asked, results, workerVars, operating>>

\* All jobs are sent, and every worker has found the channel closed and empty.
Collects ==
  /\ asked /\ unsent = {} /\ jobs = {} /\ \A w \in StatusWorkers : step[w] = "free"
  /\ asked' = FALSE /\ results' = {}
  /\ UNCHANGED <<systemVars, cache, connOpen, closing, unsent, jobs, workerVars, operating>>

Takes(w) ==
  /\ step[w] = "free"
  /\ \E u \in jobs : jobs' = jobs \ {u} /\ job' = [job EXCEPT ![w] = u]
  /\ step' = [step EXCEPT ![w] = "status"]
  /\ UNCHANGED <<systemVars, cache, connOpen, closing, asked, unsent, results, age, told, operating>>

StepAt(w, where) == step' = [step EXCEPT ![w] = where]
NoAnswerKept(w) ==
  /\ age' = [age EXCEPT ![w] = 0] /\ told' = [told EXCEPT ![w] = FALSE]

\* GetStatusFullContext: an error and a missing unit are results; else it asks
\* whether the unit is enabled.
GetStatus(w) ==
  /\ step[w] = "status" /\ MayRead
  /\ \/ StepAt(w, "send")
     \/ connOpen /\ StepAt(w, "cache")
  /\ UNCHANGED <<systemVars, cache, connOpen, closing, askVars, job, age, told, operating>>

\* IsEnabled has read the clock, and reads the connection and the cache.
LooksInCache(w) ==
  /\ step[w] = "cache" /\ MayRead
  /\ IF connOpen /\ cache[job[w]].left + age[w] <= 0
       THEN StepAt(w, "ask") /\ UNCHANGED <<age, told>>
       ELSE StepAt(w, "send") /\ NoAnswerKept(w)
  /\ UNCHANGED <<systemVars, cache, connOpen, closing, askVars, job, operating>>

\* Without sm.mu, systemd tells; a failure is not kept.
SystemdTells(w) ==
  /\ step[w] = "ask"
  /\ \/ StepAt(w, "send") /\ NoAnswerKept(w)
     \/ /\ connOpen
        /\ told' = [told EXCEPT ![w] = onBoot[job[w]]]
        /\ StepAt(w, "store") /\ UNCHANGED age
  /\ UNCHANGED <<systemVars, cache, connOpen, closing, askVars, job, operating>>

\* pruneEnabledCacheLocked, at the time that the caller has read: what has
\* expired goes, and of the rest the oldest, as long as there are too many.
Present(c) == {u \in Units : c[u] # NoEntry}
Pruned(c, since) ==
  LET kept == {u \in Present(c) : c[u].left + since >= 0}
      excess == Max({Cardinality(kept) - MaxEntries, 0})
  IN {[u \in Units |-> IF u \in kept \ gone THEN c[u] ELSE NoEntry] :
        gone \in {g \in kSubset(excess, kept) :
                    \A x \in g, y \in kept \ g : c[x].left <= c[y].left}}

\* Mutant: the answer is kept for the TTL from when it is stored.
Expires_FromNow(w) == TTL

Expires(w) == TTL - age[w]

\* With sm.mu, the answer is stored, and the cache pruned when it is too large
\* or at every 64th answer.
Stores(w) ==
  /\ step[w] = "store" /\ MayWrite
  /\ LET c == [cache EXCEPT ![job[w]] = Kept(told[w], Expires(w))] IN
       \/ cache' \in Pruned(c, age[w])
       \/ Cardinality(Present(c)) <= MaxEntries /\ cache' = c
  /\ StepAt(w, "send") /\ NoAnswerKept(w)
  /\ UNCHANGED <<systemVars, connOpen, closing, askVars, job, operating>>

Delivers(w) ==
  /\ step[w] = "send" /\ Cardinality(results) < ResultsCap
  /\ results' = results \cup {job[w]}
  /\ job' = [job EXCEPT ![w] = NoUnit] /\ StepAt(w, "free")
  /\ UNCHANGED <<systemVars, cache, connOpen, closing, asked, unsent, jobs, age, told, operating>>

StatusWorker(w) ==
  Takes(w) \/ GetStatus(w) \/ LooksInCache(w) \/ SystemdTells(w) \/ Stores(w) \/ Delivers(w)

---------------------------------------------------------------------------
(* Operations on units, by commands and by auto-recovery, and Close        *)

\* Start, Stop, RestartContext and the like hold the lock for reading until
\* systemd has answered; on a closed manager they fail at once.
OperationLocks(o) ==
  /\ connOpen /\ MayRead
  /\ operating' = operating \cup {o}
  /\ UNCHANGED <<systemVars, cache, connOpen, closing, askVars, workerVars>>

OperationEnds(o) ==
  /\ o \in operating
  /\ operating' = operating \ {o}
  /\ UNCHANGED <<systemVars, cache, connOpen, closing, askVars, workerVars>>

CloseWaits ==
  /\ connOpen /\ ~closing
  /\ closing' = TRUE
  /\ UNCHANGED <<systemVars, cache, connOpen, askVars, workerVars, operating>>

\* The cache goes with the connection; an IsEnabled under way makes a new one.
Close ==
  /\ closing /\ MayWrite
  /\ closing' = FALSE /\ connOpen' = FALSE
  /\ cache' = [u \in Units |-> NoEntry]
  /\ UNCHANGED <<systemVars, askVars, workerVars, operating>>

UnitNext ==
  \/ \E u \in Units : Changes(u)
  \/ \E o \in Operators : OperationLocks(o) \/ OperationEnds(o)
  \/ Asks \/ Sends \/ Collects
  \/ \E w \in StatusWorkers : StatusWorker(w)
  \/ CloseWaits \/ Close \/ TimePasses

UnitSpec == UnitInit /\ [][UnitNext]_unitVars

\* The status and Close go on, and systemd answers, or the context of the
\* operation is done.
UnitFairness ==
  /\ WF_unitVars(Sends) /\ WF_unitVars(Collects) /\ WF_unitVars(Close)
  /\ \A w \in StatusWorkers : WF_unitVars(StatusWorker(w))
  /\ \A o \in Operators : WF_unitVars(OperationEnds(o))

---------------------------------------------------------------------------
(* Properties                                                              *)

\* What the cache would answer now was so within the time for which it keeps
\* answers: for an answer with left still to go, within TTL - left.  systemd is
\* asked after the clock has been read and the answer stored later still, past
\* operations that hold the lock (IsEnabled, systemdmanager_linux.go:483-542).
CacheTellsRecent ==
  \A u \in Units : cache[u].left > 0 => lapse[u][cache[u].enabled] <= TTL - cache[u].left

\* A status of all units comes to its end, with operations on the same units and
\* Close beside it (GetAllStatusContext, its two channels, and sm.mu).
StatusReturns == []<>~asked

=============================================================================
