-------------------------- MODULE PeripheryProofs --------------------------
(***************************************************************************)
(* Proofs about the parts around the core, each by itself, and about the   *)
(* composition that the run checks, a behaviour of which is one of some    *)
(* part: the cache of the unit manager, the services of the reload loop,   *)
(* the schedule of the systemd plugin, the history of the speedtest        *)
(* plugin, and the registry of commands.                                   *)
(***************************************************************************)
EXTENDS Periphery, SelectionProofs, TLAPS

---------------------------------------------------------------------------
(* The unit manager: CacheTellsRecent for any number of units, workers and *)
(* operators and any bounds: what is known of an answer on its way         *)

\* What systemd has now it has had for no time.
NowIsNow == \A u \in Units : lapse[u][onBoot[u]] = 0

\* A worker that is busy has a unit.
BusyHasUnit == \A w \in StatusWorkers : step[w] # "free" => job[w] \in Units

\* An answer that is to be stored was true since the worker has read the clock.
ToldRecently ==
  \A w \in StatusWorkers : step[w] = "store" => lapse[job[w]][told[w]] <= age[w]

UnitInv == UnitTypeOK /\ NowIsNow /\ BusyHasUnit /\ ToldRecently /\ CacheTellsRecent

\* The larger of two numbers is one of them.
LEMMA MaxOfTwo ==
  ASSUME NEW a \in Int, NEW b \in Int
  PROVE  Max({a, b}) \in {a, b} /\ Max({a, b}) >= a /\ Max({a, b}) >= b
<1>1. \E x \in {a, b} : \A y \in {a, b} : x >= y
  <2>1. CASE a >= b BY <2>1
  <2>2. CASE b >= a BY <2>2
  <2>3. QED BY <2>1, <2>2
<1>2. QED BY <1>1 DEF Max

\* So is the smaller.
LEMMA MinOfTwo ==
  ASSUME NEW a \in Int, NEW b \in Int
  PROVE  Min({a, b}) \in {a, b} /\ Min({a, b}) <= a /\ Min({a, b}) <= b
<1>1. \E x \in {a, b} : \A y \in {a, b} : x <= y
  <2>1. CASE a <= b BY <2>1
  <2>2. CASE b <= a BY <2>2
  <2>3. QED BY <2>1, <2>2
<1>2. QED BY <1>1 DEF Min

\* Pruning leaves an entry as it is or takes it away.
LEMMA PrunedOnlyDrops ==
  ASSUME NEW c, NEW since, NEW d \in Pruned(c, since)
  PROVE  d = [u \in Units |-> d[u]] /\ \A u \in Units : d[u] \in {c[u], NoEntry}
<1>1. PICK gone : \E held : d = [u \in Units |-> IF u \in held \ gone THEN c[u] ELSE NoEntry]
  BY DEF Pruned
<1>2. QED BY <1>1

\* What an entry consists of.
LEMMA EntryFields ==
  ASSUME NEW e \in Entries
  PROVE  /\ e.enabled \in BOOLEAN /\ e.left \in Int /\ e.left <= TTL
         /\ e # NoEntry => e.left \in LongAgo .. TTL
<1>1. LongAgo \in Int /\ LongAgo < 0 BY UnitAssumption DEF LongAgo
<1>2. CASE e = NoEntry
  <2>1. e.enabled = FALSE /\ e.left = LongAgo - 1 BY <1>2 DEF NoEntry
  <2>2. e.left \in Int /\ e.left <= TTL BY <1>1, <2>1, UnitAssumption
  <2>3. e.enabled \in BOOLEAN BY <2>1
  <2>4. QED BY <1>2, <2>2, <2>3
<1>3. CASE e \in [enabled : BOOLEAN, left : LongAgo .. TTL]
  BY <1>1, <1>3, UnitAssumption
<1>4. QED BY <1>2, <1>3 DEF Entries

\* What is kept of an answer is an entry, as long as it is not too old.
LEMMA KeptIsEntry ==
  ASSUME NEW v \in BOOLEAN, NEW left \in LongAgo .. TTL
  PROVE  /\ Kept(v, left) \in Entries /\ Kept(v, left).left = left
         /\ left > 0 => Kept(v, left).enabled = v
BY UnitAssumption DEF Kept, Entries, LongAgo

\* Nothing is in the cache, and no worker has an answer, at first.
LEMMA InitUnitInv == UnitInit => UnitInv
<1>1. SUFFICES ASSUME UnitInit PROVE UnitInv OBVIOUS
<1>2. UnitTypeOK
  <2>1. onBoot \in [Units -> BOOLEAN] BY <1>1 DEF UnitInit
  <2>2. lapse \in [Units -> [BOOLEAN -> 0 .. TTL]] BY <1>1, UnitAssumption DEF UnitInit
  <2>3. cache \in [Units -> Entries] BY <1>1 DEF UnitInit, Entries
  <2>4. age \in [StatusWorkers -> 0 .. MaxAge] /\ told \in [StatusWorkers -> BOOLEAN]
    BY <1>1, UnitAssumption DEF UnitInit
  <2>5. QED BY <1>1, <2>1, <2>2, <2>3, <2>4 DEF UnitInit, UnitTypeOK
<1>3. NowIsNow /\ BusyHasUnit /\ ToldRecently
  BY <1>1 DEF UnitInit, NowIsNow, BusyHasUnit, ToldRecently
<1>4. CacheTellsRecent
  BY <1>1, UnitAssumption DEF UnitInit, CacheTellsRecent, NoEntry, LongAgo
<1>5. QED BY <1>2, <1>3, <1>4 DEF UnitInv

---------------------------------------------------------------------------
(* Steps of the environment                                                *)

\* A unit changes: what it was is no longer so, but was so a moment ago.
LEMMA ChangesUnitInv ==
  ASSUME UnitInv, NEW u \in Units, Changes(u)
  PROVE  UnitInv'
<1>1. onBoot \in [Units -> BOOLEAN] /\ lapse \in [Units -> [BOOLEAN -> 0 .. TTL]]
  BY DEF UnitInv, UnitTypeOK
<1>2. onBoot' \in [Units -> BOOLEAN] /\ lapse' \in [Units -> [BOOLEAN -> 0 .. TTL]]
  BY <1>1, UnitAssumption DEF Changes
<1>3. \A x \in Units, v \in BOOLEAN : lapse'[x][v] \in {0, lapse[x][v]}
  BY <1>1 DEF Changes
<1>4. UnitTypeOK'
  BY <1>2 DEF UnitInv, UnitTypeOK, Changes, askVars, workerVars
<1>5. NowIsNow'
  <2>1. SUFFICES ASSUME NEW x \in Units PROVE lapse'[x][onBoot'[x]] = 0
    BY DEF NowIsNow
  <2>2. CASE x = u
    <3>1. onBoot'[u] = ~onBoot[u] /\ lapse'[u] = [lapse[u] EXCEPT ![~onBoot[u]] = 0]
      BY <1>1 DEF Changes
    <3>2. onBoot[u] \in BOOLEAN /\ DOMAIN lapse[u] = BOOLEAN BY <1>1
    <3>3. QED BY <2>2, <3>1, <3>2
  <2>3. CASE x # u
    BY <1>1, <2>3 DEF Changes, UnitInv, NowIsNow
  <2>4. QED BY <2>2, <2>3
<1>6. BusyHasUnit' BY DEF UnitInv, BusyHasUnit, Changes, workerVars
<1>7. ToldRecently'
  <2>1. SUFFICES ASSUME NEW w \in StatusWorkers, step[w] = "store"
                 PROVE  lapse'[job[w]][told[w]] <= age[w]
    BY DEF ToldRecently, Changes, workerVars
  <2>2. job[w] \in Units /\ told[w] \in BOOLEAN /\ age[w] \in 0 .. MaxAge
        /\ lapse[job[w]][told[w]] <= age[w] /\ lapse[job[w]][told[w]] \in 0 .. TTL
    BY <1>1, <2>1 DEF UnitInv, UnitTypeOK, BusyHasUnit, ToldRecently
  <2>3. QED BY <1>3, <2>2, UnitAssumption
<1>8. CacheTellsRecent'
  <2>1. SUFFICES ASSUME NEW x \in Units, cache[x].left > 0
                 PROVE  lapse'[x][cache[x].enabled] <= TTL - cache[x].left
    BY DEF CacheTellsRecent, Changes
  <2>2. cache[x] \in Entries BY DEF UnitInv, UnitTypeOK
  <2>3. cache[x].enabled \in BOOLEAN /\ cache[x].left \in Int /\ cache[x].left <= TTL
    BY <2>2, EntryFields
  <2>4. lapse[x][cache[x].enabled] <= TTL - cache[x].left
    BY <2>1 DEF UnitInv, CacheTellsRecent
  <2>5. QED BY <1>3, <2>3, <2>4, UnitAssumption
<1>9. QED BY <1>4, <1>5, <1>6, <1>7, <1>8 DEF UnitInv

\* Time passes for what was so, for the answers on their way and for the cache alike.
LEMMA TimePassesUnitInv ==
  ASSUME UnitInv, TimePasses
  PROVE  UnitInv'
<1>1. /\ onBoot \in [Units -> BOOLEAN] /\ lapse \in [Units -> [BOOLEAN -> 0 .. TTL]]
      /\ cache \in [Units -> Entries] /\ age \in [StatusWorkers -> 0 .. MaxAge]
  BY DEF UnitInv, UnitTypeOK
<1>2. ASSUME NEW u \in Units, NEW v \in BOOLEAN
      PROVE  /\ lapse'[u][v] \in 0 .. TTL /\ lapse'[u][v] <= lapse[u][v] + 1
             /\ v = onBoot[u] => lapse'[u][v] = 0
  <2>1. lapse'[u][v] = IF v = onBoot[u] THEN 0 ELSE Min({lapse[u][v] + 1, TTL})
    BY DEF TimePasses
  <2>2. lapse[u][v] \in 0 .. TTL BY <1>1
  <2>3. CASE v = onBoot[u] BY <2>1, <2>2, <2>3, UnitAssumption
  <2>4. CASE v # onBoot[u]
    <3>1. lapse[u][v] + 1 \in Int /\ TTL \in Int BY <2>2, UnitAssumption
    <3>2. /\ lapse'[u][v] \in {lapse[u][v] + 1, TTL}
          /\ lapse'[u][v] <= lapse[u][v] + 1 /\ lapse'[u][v] <= TTL
      BY <2>1, <2>4, <3>1, MinOfTwo
    <3>3. QED BY <2>2, <2>4, <3>2, UnitAssumption
  <2>5. QED BY <2>3, <2>4
<1>3. ASSUME NEW u \in Units
      PROVE  /\ cache'[u] \in Entries
             /\ cache'[u].left > 0 => /\ cache[u].left > 0 /\ cache'[u].left = cache[u].left - 1
                                      /\ cache'[u].enabled = cache[u].enabled
  <2>1. cache[u] \in Entries BY <1>1
  <2>2. CASE cache[u] = NoEntry
    <3>1. cache'[u] = NoEntry BY <2>2 DEF TimePasses
    <3>2. ~(NoEntry.left > 0) BY UnitAssumption DEF NoEntry, LongAgo
    <3>3. QED BY <3>1, <3>2 DEF Entries
  <2>3. CASE cache[u] # NoEntry
    <3> DEFINE left == Max({cache[u].left - 1, LongAgo})
    <3>1. cache'[u] = Kept(cache[u].enabled, left) BY <2>3 DEF TimePasses
    <3>2. cache[u].left \in LongAgo .. TTL /\ cache[u].enabled \in BOOLEAN
      BY <2>1, <2>3, EntryFields
    <3>3. LongAgo \in Int /\ LongAgo < 0 BY UnitAssumption DEF LongAgo
    <3> DEFINE sooner == cache[u].left - 1
    <3>a. sooner \in Int BY <3>2, <3>3
    <3>b. left \in {sooner, LongAgo} /\ left >= sooner /\ left >= LongAgo
      BY <3>3, <3>a, MaxOfTwo
    <3>4. /\ left \in {cache[u].left - 1, LongAgo}
          /\ left \in LongAgo .. TTL
      <4> HIDE DEF left
      <4>1. QED BY <3>2, <3>3, <3>b, UnitAssumption
    <3>5. /\ cache'[u] \in Entries /\ cache'[u].left = left
          /\ left > 0 => cache'[u].enabled = cache[u].enabled
      BY <3>1, <3>2, <3>4, KeptIsEntry
    <3> HIDE DEF left
    <3>6. QED BY <3>2, <3>3, <3>4, <3>5
  <2>4. QED BY <2>2, <2>3
<1>4. ASSUME NEW w \in StatusWorkers
      PROVE  age'[w] \in 0 .. MaxAge /\ (step[w] = "store" => age'[w] = age[w] + 1)
  BY <1>1, UnitAssumption DEF TimePasses
<1>5. UnitTypeOK'
  <2>1. lapse' \in [Units -> [BOOLEAN -> 0 .. TTL]]
    <3>1. lapse' = [u \in Units |-> [v \in BOOLEAN |-> lapse'[u][v]]] BY DEF TimePasses
    <3>2. QED BY <1>2, <3>1
  <2>2. cache' \in [Units -> Entries]
    <3>1. cache' = [u \in Units |-> cache'[u]] BY DEF TimePasses
    <3>2. QED BY <1>3, <3>1
  <2>3. age' \in [StatusWorkers -> 0 .. MaxAge]
    <3>1. age' = [w \in StatusWorkers |-> age'[w]] BY DEF TimePasses
    <3>2. QED BY <1>4, <3>1
  <2>4. QED BY <2>1, <2>2, <2>3 DEF UnitInv, UnitTypeOK, TimePasses, askVars
<1>6. NowIsNow' BY <1>1, <1>2 DEF NowIsNow, TimePasses
<1>7. BusyHasUnit' BY DEF UnitInv, BusyHasUnit, TimePasses
<1>8. ToldRecently'
  <2>1. SUFFICES ASSUME NEW w \in StatusWorkers, step[w] = "store"
                 PROVE  lapse'[job[w]][told[w]] <= age'[w]
    BY DEF ToldRecently, TimePasses
  <2>2. job[w] \in Units /\ told[w] \in BOOLEAN /\ age[w] \in 0 .. MaxAge
        /\ lapse[job[w]][told[w]] <= age[w] /\ lapse[job[w]][told[w]] \in 0 .. TTL
    BY <1>1, <2>1 DEF UnitInv, UnitTypeOK, BusyHasUnit, ToldRecently
  <2>3. QED BY <1>2, <1>4, <2>1, <2>2, UnitAssumption
<1>9. CacheTellsRecent'
  <2>1. SUFFICES ASSUME NEW u \in Units, cache'[u].left > 0
                 PROVE  lapse'[u][cache'[u].enabled] <= TTL - cache'[u].left
    BY DEF CacheTellsRecent
  <2>2. /\ cache[u].left > 0 /\ cache'[u].left = cache[u].left - 1
        /\ cache'[u].enabled = cache[u].enabled
    BY <1>3, <2>1
  <2>3. cache[u].enabled \in BOOLEAN /\ cache[u].left \in Int /\ cache[u].left <= TTL
    BY <1>1, EntryFields
  <2>4. lapse[u][cache[u].enabled] <= TTL - cache[u].left /\ lapse[u][cache[u].enabled] \in 0 .. TTL
    BY <1>1, <2>2, <2>3 DEF UnitInv, CacheTellsRecent
  <2>5. QED BY <1>2, <2>2, <2>3, <2>4, UnitAssumption
<1>10. QED BY <1>5, <1>6, <1>7, <1>8, <1>9 DEF UnitInv

---------------------------------------------------------------------------
(* Steps of a status worker                                                *)

\* A worker that keeps no answer has one of no age.
LEMMA AnswerDropped ==
  ASSUME UnitInv, NEW w \in StatusWorkers, NoAnswerKept(w)
  PROVE  age' \in [StatusWorkers -> 0 .. MaxAge] /\ told' \in [StatusWorkers -> BOOLEAN]
<1>1. age \in [StatusWorkers -> 0 .. MaxAge] /\ told \in [StatusWorkers -> BOOLEAN]
  BY DEF UnitInv, UnitTypeOK
<1>2. age' \in [StatusWorkers -> 0 .. MaxAge] BY <1>1, UnitAssumption DEF NoAnswerKept
<1>3. told' \in [StatusWorkers -> BOOLEAN] BY <1>1 DEF NoAnswerKept
<1>4. QED BY <1>2, <1>3

\* A worker that looks in the cache asks systemd, or keeps no answer.
LEMMA LooksUnitInv ==
  ASSUME UnitInv, NEW w \in StatusWorkers, LooksInCache(w)
  PROVE  UnitInv'
<1>1. /\ step' \in [StatusWorkers -> {"free", "status", "cache", "ask", "store", "send"}]
      /\ age' \in [StatusWorkers -> 0 .. MaxAge] /\ told' \in [StatusWorkers -> BOOLEAN]
  <2>1. CASE StepAt(w, "ask") /\ UNCHANGED <<age, told>>
    BY <2>1 DEF UnitInv, UnitTypeOK, StepAt
  <2>2. CASE StepAt(w, "send") /\ NoAnswerKept(w)
    BY <2>2, AnswerDropped DEF UnitInv, UnitTypeOK, StepAt
  <2>3. QED BY <2>1, <2>2 DEF LooksInCache
<1>2. UnitTypeOK'
  BY <1>1 DEF UnitInv, UnitTypeOK, LooksInCache, systemVars, askVars
<1>3. NowIsNow' BY DEF UnitInv, NowIsNow, LooksInCache, systemVars
<1>4. BusyHasUnit'
  BY DEF UnitInv, UnitTypeOK, BusyHasUnit, LooksInCache, StepAt
<1>5. ToldRecently'
  BY DEF UnitInv, UnitTypeOK, ToldRecently, LooksInCache, StepAt, NoAnswerKept, systemVars
<1>6. CacheTellsRecent' BY DEF UnitInv, CacheTellsRecent, LooksInCache, systemVars
<1>7. QED BY <1>2, <1>3, <1>4, <1>5, <1>6 DEF UnitInv

\* What systemd answers is so now.
LEMMA SystemdTellsUnitInv ==
  ASSUME UnitInv, NEW w \in StatusWorkers, SystemdTells(w)
  PROVE  UnitInv'
<1>1. job[w] \in Units /\ step[w] = "ask"
  BY DEF UnitInv, BusyHasUnit, SystemdTells
<1>2. /\ step' \in [StatusWorkers -> {"free", "status", "cache", "ask", "store", "send"}]
      /\ age' \in [StatusWorkers -> 0 .. MaxAge] /\ told' \in [StatusWorkers -> BOOLEAN]
  <2>1. CASE StepAt(w, "send") /\ NoAnswerKept(w)
    BY <2>1, AnswerDropped DEF UnitInv, UnitTypeOK, StepAt
  <2>2. CASE told' = [told EXCEPT ![w] = onBoot[job[w]]] /\ StepAt(w, "store") /\ UNCHANGED age
    <3>1. onBoot[job[w]] \in BOOLEAN BY <1>1 DEF UnitInv, UnitTypeOK
    <3>2. QED BY <2>2, <3>1 DEF UnitInv, UnitTypeOK, StepAt
  <2>3. QED BY <2>1, <2>2 DEF SystemdTells
<1>3. UnitTypeOK'
  BY <1>2 DEF UnitInv, UnitTypeOK, SystemdTells, systemVars, askVars
<1>4. NowIsNow' BY DEF UnitInv, NowIsNow, SystemdTells, systemVars
<1>5. BusyHasUnit'
  BY DEF UnitInv, UnitTypeOK, BusyHasUnit, SystemdTells, StepAt
<1>6. ToldRecently'
  <2>1. CASE StepAt(w, "send") /\ NoAnswerKept(w)
    BY <2>1 DEF UnitInv, UnitTypeOK, ToldRecently, SystemdTells, StepAt, NoAnswerKept, systemVars
  <2>2. CASE /\ told' = [told EXCEPT ![w] = onBoot[job[w]]]
             /\ StepAt(w, "store") /\ UNCHANGED age
    <3>1. lapse[job[w]][onBoot[job[w]]] = 0 /\ age[w] \in 0 .. MaxAge
      BY <1>1 DEF UnitInv, UnitTypeOK, NowIsNow
    <3>2. lapse'[job'[w]][told'[w]] <= age'[w]
      BY <2>2, <3>1, UnitAssumption DEF UnitInv, UnitTypeOK, SystemdTells, systemVars
    <3>3. QED
      BY <2>2, <3>2 DEF UnitInv, UnitTypeOK, ToldRecently, SystemdTells, StepAt, systemVars
  <2>3. QED BY <2>1, <2>2 DEF SystemdTells
<1>7. CacheTellsRecent' BY DEF UnitInv, CacheTellsRecent, SystemdTells, systemVars
<1>8. QED BY <1>3, <1>4, <1>5, <1>6, <1>7 DEF UnitInv

\* A worker stores what it was told: the answer has been on its way for age[w],
\* and is kept for that much less.
LEMMA StoresUnitInv ==
  ASSUME UnitInv, NEW w \in StatusWorkers, Stores(w)
  PROVE  UnitInv'
<1> DEFINE e == Kept(told[w], Expires(w))
<1> DEFINE c == [cache EXCEPT ![job[w]] = e]
<1>1. /\ job[w] \in Units /\ told[w] \in BOOLEAN /\ age[w] \in 0 .. MaxAge
      /\ lapse[job[w]][told[w]] <= age[w] /\ cache \in [Units -> Entries]
  BY DEF UnitInv, UnitTypeOK, BusyHasUnit, ToldRecently, Stores
<1>2. Expires(w) \in LongAgo .. TTL
  BY <1>1, UnitAssumption DEF Expires, LongAgo
<1>3. e \in Entries /\ e.left = Expires(w) /\ (e.left > 0 => e.enabled = told[w])
  BY <1>1, <1>2, KeptIsEntry
<1>4. e.left > 0 => lapse[job[w]][e.enabled] <= TTL - e.left
  <2>1. lapse[job[w]][told[w]] \in 0 .. TTL
    BY <1>1 DEF UnitInv, UnitTypeOK
  <2>2. e.left = TTL - age[w] BY <1>3 DEF Expires
  <2> HIDE DEF e
  <2>3. QED BY <1>1, <1>3, <2>1, <2>2, UnitAssumption
<1>5. /\ cache' = [u \in Units |-> cache'[u]]
      /\ \A u \in Units : cache'[u] \in {cache[u], e, NoEntry} /\ (cache'[u] = e => u = job[w] \/ e = cache[u] \/ e = NoEntry)
  <2>0. \A u \in Units : c[u] = IF u = job[w] THEN e ELSE cache[u]
    <3> HIDE DEF e
    <3>1. QED BY <1>1
  <2>1. CASE cache' \in Pruned(c, age[w])
    <3> HIDE DEF c, e
    <3>1. QED BY <2>0, <2>1, PrunedOnlyDrops
  <2>2. CASE cache' = c
    <3> HIDE DEF e
    <3>1. QED BY <1>1, <2>0, <2>2
  <2>3. QED BY <2>1, <2>2 DEF Stores
<1>6. UnitTypeOK'
  <2>1. cache' \in [Units -> Entries]
    <3>1. NoEntry \in Entries BY DEF Entries
    <3> HIDE DEF e
    <3>2. QED BY <1>1, <1>3, <1>5, <3>1
  <2>2. step' \in [StatusWorkers -> {"free", "status", "cache", "ask", "store", "send"}]
    BY DEF UnitInv, UnitTypeOK, Stores, StepAt
  <2>3. age' \in [StatusWorkers -> 0 .. MaxAge] /\ told' \in [StatusWorkers -> BOOLEAN]
    BY AnswerDropped DEF Stores
  <2>4. QED BY <2>1, <2>2, <2>3 DEF UnitInv, UnitTypeOK, Stores, systemVars, askVars
<1>7. NowIsNow' BY DEF UnitInv, NowIsNow, Stores, systemVars
<1>8. BusyHasUnit' BY DEF UnitInv, UnitTypeOK, BusyHasUnit, Stores, StepAt
<1>9. ToldRecently'
  BY DEF UnitInv, UnitTypeOK, ToldRecently, Stores, StepAt, NoAnswerKept, systemVars
<1>10. CacheTellsRecent'
  <2>1. SUFFICES ASSUME NEW u \in Units, cache'[u].left > 0
                 PROVE  lapse[u][cache'[u].enabled] <= TTL - cache'[u].left
    BY DEF CacheTellsRecent, Stores, systemVars
  <2>2. ~(NoEntry.left > 0) BY UnitAssumption DEF NoEntry, LongAgo
  <2>3. CASE cache'[u] = cache[u]
    BY <2>1, <2>3 DEF UnitInv, CacheTellsRecent
  <2>4. CASE cache'[u] = e /\ u = job[w]
    <3> HIDE DEF e
    <3>1. QED BY <1>4, <2>1, <2>4
  <2>5. QED
    <3> HIDE DEF e
    <3>1. QED BY <1>5, <2>1, <2>2, <2>3, <2>4
<1>11. QED BY <1>6, <1>7, <1>8, <1>9, <1>10 DEF UnitInv

\* The other steps of a worker, which leave the answers alone.
LEMMA WorkerMovesUnitInv ==
  ASSUME UnitInv, NEW w \in StatusWorkers, Takes(w) \/ GetStatus(w) \/ Delivers(w)
  PROVE  UnitInv'
<1>1. UNCHANGED <<onBoot, lapse, cache, age, told>>
  BY DEF Takes, GetStatus, Delivers, systemVars
<1>2. \A x \in StatusWorkers : step'[x] # "free" => job'[x] \in Units
  <2>1. CASE Takes(w) BY <2>1 DEF UnitInv, UnitTypeOK, BusyHasUnit, Takes
  <2>2. CASE GetStatus(w)
    BY <2>2 DEF UnitInv, UnitTypeOK, BusyHasUnit, GetStatus, StepAt
  <2>3. CASE Delivers(w)
    BY <2>3 DEF UnitInv, UnitTypeOK, BusyHasUnit, Delivers, StepAt
  <2>4. QED BY <2>1, <2>2, <2>3
<1>3. \A x \in StatusWorkers : step'[x] = "store" => step[x] = "store" /\ job'[x] = job[x]
  <2>1. CASE Takes(w) BY <2>1 DEF UnitInv, UnitTypeOK, Takes
  <2>2. CASE GetStatus(w)
    BY <2>2 DEF UnitInv, UnitTypeOK, GetStatus, StepAt
  <2>3. CASE Delivers(w)
    BY <2>3 DEF UnitInv, UnitTypeOK, Delivers, StepAt
  <2>4. QED BY <2>1, <2>2, <2>3
<1>4. UnitTypeOK'
  <2>1. CASE Takes(w) BY <2>1 DEF UnitInv, UnitTypeOK, Takes, systemVars
  <2>2. CASE GetStatus(w)
    BY <2>2 DEF UnitInv, UnitTypeOK, GetStatus, StepAt, systemVars, askVars
  <2>3. CASE Delivers(w)
    <3>1. job[w] \in Units BY <2>3 DEF UnitInv, BusyHasUnit, Delivers
    <3>2. QED BY <2>3, <3>1 DEF UnitInv, UnitTypeOK, Delivers, StepAt, systemVars
  <2>4. QED BY <2>1, <2>2, <2>3
<1>5. NowIsNow' /\ CacheTellsRecent'
  BY <1>1 DEF UnitInv, NowIsNow, CacheTellsRecent
<1>6. BusyHasUnit' BY <1>2 DEF BusyHasUnit
<1>7. ToldRecently' BY <1>1, <1>3 DEF UnitInv, ToldRecently
<1>8. QED BY <1>4, <1>5, <1>6, <1>7 DEF UnitInv

---------------------------------------------------------------------------
(* The status, the operations and Close                                    *)

\* What sends, collects, locks or waits touches neither answers nor workers.
LEMMA AroundUnitInv ==
  ASSUME UnitInv,
         \/ Asks \/ Sends \/ Collects \/ CloseWaits
         \/ \E o \in Operators : OperationLocks(o) \/ OperationEnds(o)
         \/ UNCHANGED unitVars
  PROVE  UnitInv'
<1>1. UNCHANGED <<onBoot, lapse, cache, workerVars>>
  BY DEF Asks, Sends, Collects, CloseWaits, OperationLocks, OperationEnds, unitVars, systemVars
<1>2. UnitTypeOK'
  <2>1. CASE Asks BY <1>1, <2>1 DEF UnitInv, UnitTypeOK, Asks, workerVars
  <2>2. CASE Sends BY <1>1, <2>2 DEF UnitInv, UnitTypeOK, Sends, workerVars
  <2>3. CASE Collects BY <1>1, <2>3 DEF UnitInv, UnitTypeOK, Collects, workerVars
  <2>4. CASE CloseWaits
    BY <1>1, <2>4 DEF UnitInv, UnitTypeOK, CloseWaits, workerVars, askVars
  <2>5. CASE \E o \in Operators : OperationLocks(o) \/ OperationEnds(o)
    BY <1>1, <2>5
    DEF UnitInv, UnitTypeOK, OperationLocks, OperationEnds, workerVars, askVars
  <2>6. CASE UNCHANGED unitVars
    BY <1>1, <2>6 DEF UnitInv, UnitTypeOK, unitVars, workerVars, askVars
  <2>7. QED BY <2>1, <2>2, <2>3, <2>4, <2>5, <2>6
<1>3. NowIsNow' /\ BusyHasUnit' /\ ToldRecently' /\ CacheTellsRecent'
  BY <1>1 DEF UnitInv, NowIsNow, BusyHasUnit, ToldRecently, CacheTellsRecent, workerVars
<1>4. QED BY <1>2, <1>3 DEF UnitInv

\* Close empties the cache.
LEMMA CloseUnitInv ==
  ASSUME UnitInv, Close
  PROVE  UnitInv'
<1>1. cache' = [u \in Units |-> NoEntry] /\ NoEntry \in Entries
  BY DEF Close, Entries
<1>2. UnitTypeOK'
  BY <1>1 DEF UnitInv, UnitTypeOK, Close, systemVars, askVars, workerVars
<1>3. NowIsNow' /\ BusyHasUnit' /\ ToldRecently'
  BY DEF UnitInv, NowIsNow, BusyHasUnit, ToldRecently, Close, systemVars, workerVars
<1>4. CacheTellsRecent'
  <2>1. ~(NoEntry.left > 0) BY UnitAssumption DEF NoEntry, LongAgo
  <2>2. QED BY <1>1, <2>1 DEF CacheTellsRecent
<1>5. QED BY <1>2, <1>3, <1>4 DEF UnitInv

---------------------------------------------------------------------------
(* The theorems                                                            *)

\* No step of the unit manager or of the system breaks its invariant.
LEMMA NextUnitInv == UnitInv /\ [UnitNext]_unitVars => UnitInv'
<1>1. SUFFICES ASSUME UnitInv, [UnitNext]_unitVars PROVE UnitInv' OBVIOUS
<1>2. CASE \E u \in Units : Changes(u) BY <1>1, <1>2, ChangesUnitInv
<1>3. CASE TimePasses BY <1>1, <1>3, TimePassesUnitInv
<1>4. CASE \E w \in StatusWorkers : StatusWorker(w)
  <2>1. PICK w \in StatusWorkers : StatusWorker(w) BY <1>4
  <2>2. CASE LooksInCache(w) BY <1>1, <2>2, LooksUnitInv
  <2>3. CASE SystemdTells(w) BY <1>1, <2>3, SystemdTellsUnitInv
  <2>4. CASE Stores(w) BY <1>1, <2>4, StoresUnitInv
  <2>5. CASE Takes(w) \/ GetStatus(w) \/ Delivers(w) BY <1>1, <2>5, WorkerMovesUnitInv
  <2>6. QED BY <2>1, <2>2, <2>3, <2>4, <2>5 DEF StatusWorker
<1>5. CASE Close BY <1>1, <1>5, CloseUnitInv
<1>6. CASE \/ Asks \/ Sends \/ Collects \/ CloseWaits
           \/ \E o \in Operators : OperationLocks(o) \/ OperationEnds(o)
           \/ UNCHANGED unitVars
  BY <1>1, <1>6, AroundUnitInv
<1>7. QED BY <1>1, <1>2, <1>3, <1>4, <1>5, <1>6 DEF UnitNext

\* Whatever the interleaving of status workers, operations, Close and systemd,
\* what a worker carries from systemd to the cache was true since the worker has
\* read its clock (isEnabledCached, the window between the two locks).
THEOREM UnitInvariant == UnitSpec => []UnitInv
<1>1. UnitInit => UnitInv BY InitUnitInv
<1>2. UnitInv /\ [UnitNext]_unitVars => UnitInv' BY NextUnitInv
<1>3. QED BY <1>1, <1>2, PTL DEF UnitSpec

\* An answer from the cache of IsEnabled was so within the time for which the
\* cache keeps answers, for any number of units, workers and operators and any
\* TTL, and however long systemd takes to answer.
THEOREM AnswersAreRecent == UnitSpec => []CacheTellsRecent
<1>1. UnitInv => CacheTellsRecent BY DEF UnitInv
<1>2. QED BY <1>1, UnitInvariant, PTL

---------------------------------------------------------------------------
(* The reload loop: ServicesFollowConfig for any set of configurations of  *)
(* pprof: what the two services hold between their steps                   *)

\* The file that Apply has opened is one that the configuration wants, and the
\* handlers, once swapped, have the sinks of the configuration.
SinksOnTheWay ==
  /\ stage \in {"warnFile", "warnTarget", "swap"} => (logFile => next.file)
  /\ stage \in {"idle", "target"} =>
       /\ handler.telegram = next.telegram /\ handler.warnings = next.warnings
       /\ handler.file = logFile /\ (logFile => next.file)

\* A server is there only when the loop is outside the service or about to stop
\* it, and then nobody shuts an old one down.
ServerOnTheWay ==
  ~supDone =>
    /\ at["app"] = "idle"
    /\ stopDone => srv = NoServer
    /\ at["loop"] \notin {"idle", "stop"} => srv = NoServer
    /\ at["loop"] \in {"listen", "store"} => ~stopDone
    /\ at["loop"] = "store" => ~failed
    /\ at["loop"] = "idle" /\ ~failed => srv = IF pcfg \in Enabled THEN pcfg ELSE NoServer

\* The loop is in Start only for a configuration that wants the server, and goes
\* on there after Stop.
StartIsWanted ==
  /\ at["loop"] \in {"look", "hold", "listen", "store"} => pcfg \in Enabled
  /\ at["loop"] \in {"stop", "close", "wait"} => restart = (pcfg \in Enabled)

\* Before App.Start there is no server, and nobody stops one.
NothingBeforeStart ==
  ~made => at["loop"] = "idle" /\ srv = NoServer /\ ~failed /\ ~supDone

PprofInv == PprofTypeOK /\ ServerOnTheWay /\ StartIsWanted

ReloadInv == ReloadTypeOK /\ SinksOnTheWay /\ PprofInv /\ NothingBeforeStart

\* Before App.Start the services are off, and so they are configured.
LEMMA InitReloadInv == ReloadInit => ReloadInv
<1>1. SUFFICES ASSUME ReloadInit PROVE ReloadInv OBVIOUS
<1>2. pcfg \in PprofConfigs /\ pcfg \notin Enabled
  <2>1. \E c \in PprofConfigs : c \notin Enabled BY PprofAssumption
  <2>2. QED BY <1>1, <2>1 DEF ReloadInit, PprofInit
<1>3. LoggingTypeOK /\ SinksOnTheWay
  BY <1>1 DEF ReloadInit, LoggingInit, LoggingTypeOK, LogConfigs, SinksOnTheWay
<1>4. PprofTypeOK BY <1>1, <1>2 DEF ReloadInit, PprofInit, PprofTypeOK, Callers
<1>5. ServerOnTheWay /\ StartIsWanted /\ NothingBeforeStart
  BY <1>1, <1>2
  DEF ReloadInit, PprofInit, ServerOnTheWay, StartIsWanted, NothingBeforeStart, Callers
<1>6. QED BY <1>1, <1>3, <1>4, <1>5 DEF ReloadInv, PprofInv, ReloadTypeOK, ReloadInit

---------------------------------------------------------------------------
(* Steps in the logging service                                            *)

\* Steps of the loop and of other goroutines in the logging service.
LEMMA LoggingSteps ==
  ASSUME LoggingTypeOK, SinksOnTheWay,
         \/ \E c \in LogConfigs : ApplyLogging(c)
         \/ LoopInLogging \/ Logs \/ OtherInLogging \/ UNCHANGED logVars
  PROVE  LoggingTypeOK' /\ SinksOnTheWay'
<1>1. CASE \E c \in LogConfigs : ApplyLogging(c)
  BY <1>1 DEF LoggingTypeOK, SinksOnTheWay, ApplyLogging
<1>2. CASE ApplyLocks
  <2>1. next.file \in BOOLEAN BY DEF LoggingTypeOK, LogConfigs
  <2>2. logFile' \in BOOLEAN /\ (logFile' => next.file) BY <1>2, <2>1 DEF ApplyLocks
  <2>3. stage' \in {"warnFile", "warnTarget", "swap"} BY <1>2 DEF ApplyLocks, AfterFile
  <2>4. QED BY <1>2, <2>2, <2>3 DEF LoggingTypeOK, SinksOnTheWay, ApplyLocks
<1>3. CASE Warns
  BY <1>3 DEF LoggingTypeOK, SinksOnTheWay, Warns, AfterFile
<1>4. CASE Swaps
  <2>1. handler' \in LogConfigs
    BY <1>4 DEF LoggingTypeOK, LogConfigs, Swaps
  <2>2. SinksOnTheWay' BY <1>4 DEF SinksOnTheWay, Swaps
  <2>3. QED BY <1>4, <2>1, <2>2 DEF LoggingTypeOK, Swaps
<1>5. CASE SetsTarget BY <1>5 DEF LoggingTypeOK, SinksOnTheWay, SetsTarget
<1>6. CASE Logs \/ OtherInLogging
  BY <1>6 DEF LoggingTypeOK, SinksOnTheWay, Logs, OtherInLogging, TelegramLocks, TelegramUnlocks
<1>7. CASE UNCHANGED logVars BY <1>7 DEF LoggingTypeOK, SinksOnTheWay, logVars
<1>8. QED BY <1>1, <1>2, <1>3, <1>4, <1>5, <1>6, <1>7 DEF LoopInLogging

---------------------------------------------------------------------------
(* Steps in the pprof service                                              *)

\* Steps of Start, and of the server that it has started.
LEMMA StartSteps ==
  ASSUME PprofInv, StartLooks \/ Listens \/ StartStores \/ ServeFails \/ StartGivesUp
  PROVE  PprofInv'
<1> USE DEF PprofInv, PprofTypeOK, ServerOnTheWay, StartIsWanted, Callers, Goes
<1>1. CASE StartLooks BY <1>1 DEF StartLooks
<1>2. CASE Listens BY <1>2 DEF Listens
<1>3. CASE StartStores BY <1>3 DEF StartStores
<1>4. CASE ServeFails BY <1>4 DEF ServeFails
<1>5. CASE StartGivesUp BY <1>5 DEF StartGivesUp
<1>6. QED BY <1>1, <1>2, <1>3, <1>4, <1>5

\* Steps of Stop, of the loop or of App.Stop, and of the shutdown it leaves behind.
LEMMA StopSteps ==
  ASSUME PprofInv,
         \/ \E t \in Callers : StopBegins(t) \/ StopCloses(t) \/ StopGivesUp(t)
         \/ ShutdownEnds
  PROVE  PprofInv'
<1> USE DEF PprofInv, PprofTypeOK, ServerOnTheWay, StartIsWanted, Callers, Goes, Returned
<1>1. ASSUME NEW t \in Callers, StopBegins(t) PROVE PprofInv'
  BY <1>1 DEF StopBegins
<1>2. ASSUME NEW t \in Callers, StopCloses(t) PROVE PprofInv'
  BY <1>2 DEF StopCloses
<1>3. ASSUME NEW t \in Callers, StopGivesUp(t) PROVE PprofInv'
  BY <1>3 DEF StopGivesUp
<1>4. CASE ShutdownEnds BY <1>4 DEF ShutdownEnds
<1>5. QED BY <1>1, <1>2, <1>3, <1>4

\* Whatever goes on in the service by itself; before App.Start nothing does.
LEMMA PprofSteps ==
  ASSUME PprofInv, NothingBeforeStart, UNCHANGED made,
         LoopInPprof \/ AppInPprof \/ ServeFails \/ ShutdownEnds \/ UNCHANGED pprofVars
  PROVE  PprofInv' /\ NothingBeforeStart'
<1>1. PprofInv'
  <2>1. CASE StartLooks \/ Listens \/ StartStores \/ ServeFails \/ StartGivesUp
    BY <2>1, StartSteps
  <2>2. CASE \/ \E t \in Callers : StopBegins(t) \/ StopCloses(t) \/ StopGivesUp(t)
             \/ ShutdownEnds
    BY <2>2, StopSteps
  <2>3. CASE UNCHANGED pprofVars
    BY <2>3 DEF PprofInv, PprofTypeOK, ServerOnTheWay, StartIsWanted, pprofVars
  <2>4. QED BY <2>1, <2>2, <2>3 DEF LoopInPprof, AppInPprof, Callers
<1>2. NothingBeforeStart'
  <2>1. SUFFICES ASSUME ~made
                 PROVE  at'["loop"] = "idle" /\ srv' = NoServer /\ ~failed' /\ ~supDone'
    BY DEF NothingBeforeStart
  <2>2. /\ at["loop"] = "idle" /\ at["app"] = "idle" /\ srv = NoServer
        /\ ~failed /\ ~supDone
    BY <2>1 DEF NothingBeforeStart, PprofInv, ServerOnTheWay
  <2>3. CASE ShutdownEnds
    BY <2>2, <2>3 DEF ShutdownEnds, Callers
  <2>4. CASE UNCHANGED pprofVars BY <2>2, <2>4 DEF pprofVars
  <2>5. ~LoopInPprof /\ ~AppInPprof /\ ~ServeFails
    BY <2>2 DEF LoopInPprof, AppInPprof, StartLooks, Listens, StartStores, ServeFails, StartGivesUp,
                StopBegins, StopCloses, StopGivesUp
  <2>6. QED BY <2>3, <2>4, <2>5
<1>3. QED BY <1>1, <1>2

\* App.Start starts the server of the first configuration, every later turn
\* reconfigures the service, and App.Stop comes to it.
LEMMA ConfigSteps ==
  ASSUME PprofInv, NothingBeforeStart,
         \/ ~made /\ made' /\ \E c \in PprofConfigs : FirstStart(c)
         \/ made /\ made' /\ \E c \in PprofConfigs : Reconfigure(c)
         \/ made /\ made' = made /\ AppStops
  PROVE  PprofInv' /\ NothingBeforeStart'
<1> USE DEF PprofInv, PprofTypeOK, ServerOnTheWay, StartIsWanted, NothingBeforeStart, Callers, Goes
<1>1. CASE ~made /\ made' /\ \E c \in PprofConfigs : FirstStart(c)
  BY <1>1 DEF FirstStart
<1>2. CASE made /\ made' /\ \E c \in PprofConfigs : Reconfigure(c)
  BY <1>2 DEF Reconfigure, NeedsRestart
<1>3. CASE made /\ made' = made /\ AppStops BY <1>3 DEF AppStops
<1>4. QED BY <1>1, <1>2, <1>3

---------------------------------------------------------------------------
(* The turn of the loop                                                    *)

\* No step of a turn, of a service or of the stop breaks the loop's invariant.
LEMMA NextReloadInv == ReloadInv /\ [ReloadNext]_reloadVars => ReloadInv'
<1>1. SUFFICES ASSUME ReloadInv, [ReloadNext]_reloadVars PROVE ReloadInv' OBVIOUS
<1>2. LoggingTypeOK /\ SinksOnTheWay /\ PprofInv /\ NothingBeforeStart
      /\ made \in BOOLEAN /\ turn \in {"wait", "logging", "pprof", "gone"}
  BY <1>1 DEF ReloadInv, ReloadTypeOK
<1>3. made' \in BOOLEAN /\ turn' \in {"wait", "logging", "pprof", "gone"}
  BY <1>1, <1>2 DEF ReloadNext, Turn, ReloadLoop, Logging, ToPprof, Pprof, TurnEnds, LoopEnds,
    Others, Connections, AppStop, reloadVars, bodyVars
<1>4. LoggingTypeOK' /\ SinksOnTheWay'
  <2>1. \/ \E c \in LogConfigs : ApplyLogging(c)
        \/ LoopInLogging \/ Logs \/ OtherInLogging \/ UNCHANGED logVars
    BY <1>1 DEF ReloadNext, Turn, ReloadLoop, Logging, ToPprof, Pprof, TurnEnds, LoopEnds,
      Others, Connections, AppStop, reloadVars
  <2>2. QED BY <1>2, <2>1, LoggingSteps
<1>5. PprofInv' /\ NothingBeforeStart'
  <2>1. CASE ToPprof \/ (made /\ AppStops /\ UNCHANGED <<logVars, bodyVars>>)
    BY <1>2, <2>1, ConfigSteps DEF ToPprof, bodyVars
  <2>2. CASE UNCHANGED made /\ (LoopInPprof \/ AppInPprof \/ ServeFails \/ ShutdownEnds \/ UNCHANGED pprofVars)
    BY <1>2, <2>2, PprofSteps
  <2>3. QED
    BY <1>1, <2>1, <2>2 DEF ReloadNext, Turn, ReloadLoop, Logging, Pprof, TurnEnds, LoopEnds,
      Others, Connections, AppStop, reloadVars, bodyVars
<1>6. QED BY <1>3, <1>4, <1>5 DEF ReloadInv, ReloadTypeOK, PprofInv

\* Whatever the connections, the other goroutines that log and App.Stop do, the
\* two services keep what their steps rely on (Apply, Start, Stop, Reconfigure).
THEOREM ReloadInvariant == ReloadSpec => []ReloadInv
<1>1. ReloadInit => ReloadInv BY InitReloadInv
<1>2. ReloadInv /\ [ReloadNext]_reloadVars => ReloadInv' BY NextReloadInv
<1>3. QED BY <1>1, <1>2, PTL DEF ReloadSpec

\* Between two turns of the reload loop the sinks of the log and the pprof server
\* are those of the newest configuration, for any set of configurations.
THEOREM ServicesFollow == ReloadSpec => []ServicesFollowConfig
<1>1. ReloadInv => ServicesFollowConfig
  BY DEF ReloadInv, PprofInv, SinksOnTheWay, ServerOnTheWay, ServicesFollowConfig,
    SinksFollowConfig, ServerFollowsConfig
<1>2. QED BY <1>1, ReloadInvariant, PTL

---------------------------------------------------------------------------
(* The systemd plugin: its types, with what makes a manager and a          *)
(* definition new ones; then ScheduleOwned, for any number of ticks, lists *)
(* and names: what each call has made of the schedule                      *)

\* Where the calls may be.
CallPlaces ==
  /\ call \in [Threads -> {"idle", "base", "ensure", "close", "new", "remove", "reset", "maps",
                           "validate", "do", "track", "task", "clear", "unregister", "drop"}]
  /\ call["config"] \notin {"base", "clear", "unregister", "drop"}
  /\ call["start"] \notin {"clear", "unregister", "drop"}
  /\ call["stop"] \in {"idle", "clear", "unregister", "reset", "drop", "close"}

\* The types, by the variables that change together.
PmTypes ==
  /\ pm \in {"off", "config", "start", "running", "reconfig", "stop"}
  /\ late \in 0 .. MaxLate /\ handed \in 0 .. MaxConfigs /\ appStopped \in BOOLEAN
  /\ cfg \in Configs /\ hasCtx \in BOOLEAN
CallTypes ==
  /\ call \in [Threads -> {"idle", "base", "ensure", "close", "new", "remove", "reset", "maps",
                           "validate", "do", "track", "task", "clear", "unregister", "drop"}]
  /\ startCfg \in Configs /\ snap \in [Threads -> Ids \cup {0}] /\ panicked \subseteq Threads
MgrTypes ==
  /\ mgr \in Ids \cup {0} /\ mgrList \in Lists \cup {NoList}
  /\ openMgrs \subseteq Ids /\ IsFiniteSet(openMgrs)
AutoTypes ==
  /\ stuck \in BOOLEAN /\ missing \in BOOLEAN /\ warn \in {"nil", "no", "yes"}
  /\ autoTask \in TaskNames \cup {NoTask} /\ tracked \subseteq TaskNames
  /\ removing \subseteq TaskNames
DefTypes == defs \subseteq Definitions /\ IsFiniteSet(defs)
TickTypes ==
  /\ tick \in [Ticks -> {"idle", "unit", "status", "missing", "restart", "record"}]
  /\ own \in [Ticks -> Ids \cup {0}] /\ tickMgr \in [Ticks -> Ids \cup {0}]
  /\ linked \in [Ticks -> BOOLEAN] /\ warned \in [Ticks -> BOOLEAN]

\* A call that has come to the schedule has one.
TaskPlaces ==
  /\ CallPlaces
  /\ call["config"] # "idle" => pm \in {"config", "reconfig"}
  /\ \A t \in Threads : call[t] \in {"maps", "validate", "do", "track", "task"} => Arg(t).task # NoTask

\* The managers that are connected are finitely many, and so are the definitions:
\* there is a new one.
ManagersInv ==
  PmTypes /\ CallTypes /\ MgrTypes /\ AutoTypes /\ DefTypes /\ TickTypes /\ TaskPlaces

\* The values of a function of finitely many are finitely many.
LEMMA ValuesAreFinite ==
  ASSUME NEW S, IsFiniteSet(S), NEW f
  PROVE  IsFiniteSet({f[x] : x \in S})
<1> DEFINE T == {f[x] : x \in S}
           g == [x \in S |-> f[x]]
<1>1. g \in Surjection(S, T)
  BY DEF Surjection
<1>. QED
  BY <1>1, FS_Surjection

\* There is a number that is not in use.
LEMMA UnusedIsNew ==
  ASSUME NEW S, IsFiniteSet(S)
  PROVE  Unused(S) \in Ids /\ Unused(S) \notin S
<1> DEFINE n == Cardinality(S)
           I == (1 .. n + 1) \ S
<1>1. n \in Nat
  BY FS_CardinalityType
<1>2. I # {}
  <2> SUFFICES ASSUME I = {} PROVE FALSE
    OBVIOUS
  <2>1. 1 .. n + 1 \in SUBSET S
    OBVIOUS
  <2>2. Cardinality(1 .. n + 1) <= n
    BY <2>1, FS_Subset
  <2>3. Cardinality(1 .. n + 1) = n + 1
    BY <1>1, FS_Interval
  <2>. QED
    BY <2>2, <2>3, <1>1
<1>3. I \in SUBSET (Nat \ {0})
  BY <1>1
<1>4. Min(I) \in I
  BY <1>2, <1>3, MinIsThere
<1>. QED
  BY <1>3, <1>4 DEF Unused, Ids

\* A new manager is none of those in use.
LEMMA NewIdIsNew ==
  ASSUME ManagersInv
  PROVE  NewId \in Ids /\ NewId \notin InUse
<1>1. IsFiniteSet(Ticks) /\ IsFiniteSet(Threads)
  <2>1. Threads = {"config"} \cup {"start"} \cup {"stop"}
    BY DEF Threads
  <2>. QED
    BY <2>1, SystemdAssumption, FS_Singleton, FS_Union
<1>2. IsFiniteSet(InUse)
  <2>1. IsFiniteSet({mgr})
    BY FS_Singleton
  <2>2. IsFiniteSet({snap[t] : t \in Threads}) /\ IsFiniteSet({tickMgr[w] : w \in Ticks})
    BY <1>1, ValuesAreFinite
  <2>3. IsFiniteSet(openMgrs) /\ IsFiniteSet(defs)
    BY DEF ManagersInv, MgrTypes, DefTypes
  <2> DEFINE mgrOf == [d \in defs |-> d.mgr]
  <2>4. IsFiniteSet({mgrOf[d] : d \in defs}) /\ {mgrOf[d] : d \in defs} = {d.mgr : d \in defs}
    <3>1. {mgrOf[d] : d \in defs} = {d.mgr : d \in defs}
      OBVIOUS
    <3> HIDE DEF mgrOf
    <3>2. IsFiniteSet({mgrOf[d] : d \in defs})
      BY <2>3, ValuesAreFinite
    <3>. QED
      BY <3>1, <3>2
  <2>. QED
    BY <2>1, <2>2, <2>3, <2>4, FS_Union DEF InUse
<1>. QED
  BY <1>2, UnusedIsNew DEF NewId

\* What is left of the definitions is of their type.
LEMMA OtherThanType ==
  ASSUME DefTypes, NEW n
  PROVE  OtherThan(n) \subseteq Definitions /\ IsFiniteSet(OtherThan(n))
<1>1. OtherThan(n) \in SUBSET defs
  BY DEF OtherThan
<1>. QED
  BY <1>1, FS_Subset DEF DefTypes

\* Keeping some definitions keeps the types.
LEMMA KeepOnlyTypes ==
  ASSUME NEW ds, ds \subseteq Definitions, IsFiniteSet(ds), KeepOnly(ds),
         own \in [Ticks -> Ids \cup {0}]
  PROVE  DefTypes' /\ own' \in [Ticks -> Ids \cup {0}]
<1>1. defs' = ds /\ own' = [w \in Ticks |-> IF \E d \in ds : d.id = own[w] THEN own[w] ELSE 0]
  BY DEF KeepOnly
<1>2. \A w \in Ticks : own[w] \in Ids \cup {0}
  OBVIOUS
<1>3. \A w \in Ticks : (IF \E d \in ds : d.id = own[w] THEN own[w] ELSE 0) \in Ids \cup {0}
  BY <1>2
<1>4. own' \in [Ticks -> Ids \cup {0}]
  BY <1>1, <1>3, Zenon
<1>. QED
  BY <1>1, <1>4 DEF DefTypes

\* The new definition is of its type.
LEMMA NewDefinitionType ==
  ASSUME ManagersInv, NEW t \in Threads, call[t] \in {"do", "track", "task"}
  PROVE  /\ Arg(t).task \in Tasks /\ Arg(t).task.name \in TaskNames
         /\ NewDefinition(t) \in Definitions
<1>1. Arg(t).task # NoTask
  BY DEF ManagersInv, TaskPlaces
<1>2. Arg(t) \in Configs
  BY DEF ManagersInv, PmTypes, CallTypes, Arg
<1>3. Arg(t).task \in Tasks
  BY <1>1, <1>2 DEF Configs
<1>4. Arg(t).task.name \in TaskNames /\ Arg(t).task.parses \in BOOLEAN
  BY <1>3, SystemdAssumption
<1>5. snap[t] \in Ids \cup {0}
  BY DEF ManagersInv, CallTypes
<1>6. Unused({d.id : d \in defs}) \in Ids
  <2> DEFINE idOf == [d \in defs |-> d.id]
  <2>1. {idOf[d] : d \in defs} = {d.id : d \in defs}
    OBVIOUS
  <2> HIDE DEF idOf
  <2>2. IsFiniteSet({idOf[d] : d \in defs})
    BY ValuesAreFinite DEF ManagersInv, DefTypes
  <2>. QED
    BY <2>1, <2>2, UnusedIsNew
<1>. QED
  BY <1>3, <1>4, <1>5, <1>6 DEF NewDefinition, Definitions

\* The places of the calls stay as they are said to be.
LEMMA NextTaskPlaces ==
  ASSUME TaskPlaces, [SystemdNext]_systemdVars
  PROVE  TaskPlaces'
<1> USE DEF TaskPlaces, CallPlaces, Threads, pmVars, callVars, CallAt, Calls, Arg, AfterEnsure
<1>1. ASSUME NEW t \in Threads, CallStep(t) PROVE TaskPlaces'
  BY <1>1 DEF CallStep, EnsureManager, CloseManager, NewManager, RemoveOld, ResetState,
    MakeMaps, Validate, Register, Track, SetTask
<1>2. CASE StartBase \/ StopStep
  BY <1>2 DEF StartBase, StopStep, Cleanup, CleanupRemoves, DropManager
<1>3. CASE \E w \in Ticks : Fire(w) \/ TickSees(w) \/ TickStep(w)
  <2>1. UNCHANGED <<pm, call, startCfg, cfg>>
    BY <1>3 DEF Fire, TickSees, TickStep, TickLooks, TickPasses, TickMarksMissing,
      RestartReturns, TickRecords, TickAt
  <2>. QED
    BY <2>1
<1>4. ASSUME NEW cc \in Configs, EnablePlugin(cc) \/ Reconfigures(cc) PROVE TaskPlaces'
  BY <1>4 DEF EnablePlugin, Reconfigures
<1>5. CASE Configured \/ Started \/ DisablePlugin \/ StopOver \/ AppStopsPlugin
  BY <1>5 DEF Configured, Started, DisablePlugin, StopOver, AppStopsPlugin
<1>6. CASE UNCHANGED systemdVars
  BY <1>6 DEF systemdVars
<1>. QED
  BY <1>1, <1>2, <1>3, <1>4, <1>5, <1>6 DEF SystemdNext

\* Every step of the calls, of the manager and of the ticks keeps the types.
LEMMA NextManagersInv ==
  ASSUME ManagersInv, [SystemdNext]_systemdVars
  PROVE  ManagersInv'
<1> USE SystemdAssumption
<1>0. TaskPlaces'
  BY NextTaskPlaces DEF ManagersInv
<1> USE <1>0
<1> USE DEF ManagersInv, PmTypes, CallTypes, MgrTypes, AutoTypes, DefTypes, TickTypes
<1> USE DEF Threads, pmVars, callVars, mgrVars, autoVars, taskVars, tickVars
<1> USE DEF CallAt, Calls, Arg, AfterEnsure, ForgetRecords, Abandons, Hands, Configs
<1>1. ASSUME NEW t \in Threads, EnsureManager(t) PROVE ManagersInv'
  BY <1>1 DEF EnsureManager
<1>2. ASSUME NEW t \in Threads, CloseManager(t) PROVE ManagersInv'
  BY <1>2, FS_Subset DEF CloseManager
<1>3. ASSUME NEW t \in Threads, NewManager(t) PROVE ManagersInv'
  <2>1. NewId \in Ids
    BY NewIdIsNew DEF ManagersInv
  <2>2. IsFiniteSet(openMgrs \cup {NewId})
    BY FS_AddElement DEF ManagersInv, MgrTypes
  <2>3. UNCHANGED <<pmVars, hasCtx, autoVars, taskVars, tickVars>>
    BY <1>3 DEF NewManager
  <2>4. CallTypes'
    BY <1>3 DEF NewManager
  <2>5. MgrTypes'
    BY <1>3, <2>1, <2>2 DEF NewManager
  <2>. QED
    BY <2>3, <2>4, <2>5
<1>4. ASSUME NEW t \in Threads, RemoveOld(t) PROVE ManagersInv'
  <2>1. UNCHANGED <<pmVars, hasCtx, mgrVars, autoVars, removing, tick, tickMgr, linked, warned>>
    BY <1>4 DEF RemoveOld
  <2>2. CallTypes'
    BY <1>4 DEF RemoveOld
  <2>3. tracked' \subseteq TaskNames
    BY <1>4 DEF RemoveOld
  <2>4. DefTypes' /\ own' \in [Ticks -> Ids \cup {0}]
    <3>1. CASE autoTask # NoTask
      <4>1. KeepOnly(OtherThan(autoTask))
        BY <1>4, <3>1 DEF RemoveOld
      <4>. QED
        BY <4>1, OtherThanType, KeepOnlyTypes
    <3>2. CASE autoTask = NoTask
      BY <1>4, <3>2 DEF RemoveOld
    <3>. QED
      BY <3>1, <3>2
  <2>. QED
    BY <2>1, <2>2, <2>3, <2>4
<1>5. ASSUME NEW t \in Threads, ResetState(t) PROVE ManagersInv'
  <2>1. UNCHANGED <<pmVars, hasCtx, mgrVars, taskVars>>
    BY <1>5 DEF ResetState
  <2>2. CallTypes'
    BY <1>5 DEF ResetState
  <2>3. AutoTypes'
    BY <1>5 DEF ResetState
  <2>4. TickTypes'
    BY <1>5 DEF ResetState
  <2>. QED
    BY <2>1, <2>2, <2>3, <2>4
<1>6. ASSUME NEW t \in Threads, MakeMaps(t) PROVE ManagersInv'
  <2>1. UNCHANGED <<pmVars, hasCtx, mgrVars, taskVars>>
    BY <1>6 DEF MakeMaps
  <2>2. CallTypes'
    BY <1>6 DEF MakeMaps
  <2>3. AutoTypes'
    BY <1>6 DEF MakeMaps
  <2>4. TickTypes'
    <3>1. UNCHANGED <<tick, own, tickMgr, warned>>
      BY <1>6 DEF MakeMaps
    <3>2. linked' = [w \in Ticks |-> FALSE] \/ linked' = linked
      BY <1>6 DEF MakeMaps
    <3>3. [w \in Ticks |-> FALSE] \in [Ticks -> BOOLEAN] /\ linked \in [Ticks -> BOOLEAN]
      OBVIOUS
    <3>4. linked' \in [Ticks -> BOOLEAN]
      BY <3>2, <3>3
    <3>. QED
      BY <3>1, <3>4
  <2>. QED
    BY <2>1, <2>2, <2>3, <2>4
<1>7. ASSUME NEW t \in Threads, Validate(t) PROVE ManagersInv'
  <2>1. UNCHANGED <<pmVars, hasCtx, mgrVars, taskVars, tickVars>>
    BY <1>7 DEF Validate
  <2>2. CallTypes'
    <3>1. CallAt(t, "do") \/ CallAt(t, "idle")
      BY <1>7 DEF Validate
    <3>2. panicked' \in {panicked, panicked \cup {t}} /\ UNCHANGED <<startCfg, snap>>
      BY <1>7 DEF Validate
    <3>. QED
      BY <3>1, <3>2
  <2>3. AutoTypes'
    BY <1>7 DEF Validate
  <2>. QED
    BY <2>1, <2>2, <2>3
<1>8. ASSUME NEW t \in Threads, Register(t) PROVE ManagersInv'
  <2>1. UNCHANGED <<pmVars, hasCtx, mgrVars, autoVars, tracked, removing,
                    tick, tickMgr, linked, warned>>
    BY <1>8 DEF Register
  <2>2. CallTypes'
    <3>1. CallAt(t, "track") \/ CallAt(t, "idle")
      BY <1>8 DEF Register
    <3>2. UNCHANGED <<startCfg, panicked>> /\ snap' = [snap EXCEPT ![t] = 0]
      BY <1>8 DEF Register
    <3>. QED
      BY <3>1, <3>2
  <2>3. DefTypes' /\ own' \in [Ticks -> Ids \cup {0}]
    <3> DEFINE n == Arg(t).task.name
               d == NewDefinition(t)
    <3>1. call[t] = "do" /\ KeepOnly(OtherThan(n) \cup {d})
      BY <1>8 DEF Register
    <3>2. d \in Definitions
      <4> HIDE DEF ManagersInv, d
      <4>. QED
        BY <3>1, NewDefinitionType DEF d
    <3>3. OtherThan(n) \subseteq Definitions /\ IsFiniteSet(OtherThan(n))
      BY OtherThanType
    <3> HIDE DEF n, d
    <3>4. IsFiniteSet(OtherThan(n) \cup {d})
      BY <3>3, FS_AddElement
    <3>. QED
      BY <3>1, <3>2, <3>3, <3>4, KeepOnlyTypes
  <2>. QED
    BY <2>1, <2>2, <2>3
<1>9. ASSUME NEW t \in Threads, Track(t) PROVE ManagersInv'
  <2>1. Arg(t).task.name \in TaskNames
    <3> HIDE DEF ManagersInv, Arg
    <3>. QED
      BY <1>9, NewDefinitionType DEF Track
  <2>2. CallTypes'
    BY <1>9 DEF Track
  <2>3. AutoTypes'
    BY <1>9, <2>1 DEF Track
  <2>. QED
    BY <1>9, <2>2, <2>3 DEF Track
<1>10. ASSUME NEW t \in Threads, SetTask(t) PROVE ManagersInv'
  <2>1. Arg(t).task.name \in TaskNames
    <3> HIDE DEF ManagersInv, Arg
    <3>. QED
      BY <1>10, NewDefinitionType DEF SetTask
  <2>2. CallTypes'
    BY <1>10 DEF SetTask
  <2>3. AutoTypes'
    BY <1>10, <2>1 DEF SetTask
  <2>. QED
    BY <1>10, <2>2, <2>3 DEF SetTask
<1>11. CASE StartBase
  BY <1>11 DEF StartBase
<1>12. CASE Cleanup
  <2>1. UNCHANGED <<pmVars, hasCtx, mgrVars, defs, tickVars>>
    BY <1>12 DEF Cleanup
  <2>2. CallTypes'
    BY <1>12 DEF Cleanup
  <2>3. AutoTypes'
    BY <1>12 DEF Cleanup
  <2>. QED
    BY <2>1, <2>2, <2>3
<1>13. CASE CleanupRemoves
  <2>1. UNCHANGED <<pmVars, hasCtx, mgrVars, autoVars, tracked, tick, tickMgr, linked, warned>>
    BY <1>13 DEF CleanupRemoves
  <2>2. CallTypes'
    BY <1>13 DEF CleanupRemoves
  <2>3. PICK n \in removing : KeepOnly(OtherThan(n)) /\ removing' = removing \ {n}
    BY <1>13 DEF CleanupRemoves
  <2>4. DefTypes' /\ own' \in [Ticks -> Ids \cup {0}]
    BY <2>3, OtherThanType, KeepOnlyTypes
  <2>. QED
    BY <2>1, <2>2, <2>3, <2>4
<1>14. CASE DropManager
  BY <1>14 DEF DropManager
<1>15. ASSUME NEW w \in Ticks, Fire(w) PROVE ManagersInv'
  <2>1. PICK d \in defs : /\ own' = [own EXCEPT ![w] = d.id]
                          /\ tickMgr' = [tickMgr EXCEPT ![w] = d.mgr]
    BY <1>15 DEF Fire
  <2>2. d.id \in Ids /\ d.mgr \in Ids \cup {0}
    BY DEF Definitions
  <2>3. TickTypes'
    BY <1>15, <2>1, <2>2 DEF Fire
  <2>4. UNCHANGED <<pmVars, callVars, hasCtx, mgrVars, autoVars, taskVars>>
    BY <1>15 DEF Fire
  <2>. QED
    BY <2>3, <2>4
<1>16. ASSUME NEW w \in Ticks, TickSees(w) PROVE ManagersInv'
  BY <1>16 DEF TickSees, TickAt
<1>17. ASSUME NEW w \in Ticks, TickLooks(w) PROVE ManagersInv'
  <2>1. UNCHANGED <<pmVars, hasCtx, callVars, mgrVars, taskVars>>
    BY <1>17 DEF TickLooks, TickAt, TickEnds
  <2>2. AutoTypes'
    BY <1>17 DEF TickLooks, TickAt, TickEnds
  <2>3. TickTypes'
    <3>1. CASE missing
      <4>1. /\ tick' = [tick EXCEPT ![w] = "idle"] /\ own' = [own EXCEPT ![w] = 0]
            /\ tickMgr' = [tickMgr EXCEPT ![w] = 0] /\ UNCHANGED <<linked, warned>>
        BY <1>17, <3>1 DEF TickLooks, TickEnds
      <4>. QED
        BY <4>1
    <3>2. CASE ~missing
      <4>1. tick' = [tick EXCEPT ![w] = "status"] /\ UNCHANGED <<own, tickMgr>>
        BY <1>17, <3>2 DEF TickLooks, TickAt
      <4>2. /\ linked' = [linked EXCEPT ![w] = TRUE]
            /\ warned' = [warned EXCEPT ![w] = (warn = "yes")]
        BY <1>17, <3>2 DEF TickLooks
      <4>. QED
        BY <4>1, <4>2
    <3>. QED
      BY <3>1, <3>2
  <2>. QED
    BY <2>1, <2>2, <2>3
<1>18. ASSUME NEW w \in Ticks, TickPasses(w) PROVE ManagersInv'
  BY <1>18 DEF TickPasses, TickEnds, Forgets
<1>19. ASSUME NEW w \in Ticks, TickMarksMissing(w) PROVE ManagersInv'
  BY <1>19 DEF TickMarksMissing, TickEnds, Forgets
<1>20. ASSUME NEW w \in Ticks, RestartReturns(w) PROVE ManagersInv'
  BY <1>20 DEF RestartReturns, TickAt
<1>21. ASSUME NEW w \in Ticks, TickRecords(w) PROVE ManagersInv'
  BY <1>21 DEF TickRecords, TickEnds, Forgets
<1>22. ASSUME NEW cc \in Configs, EnablePlugin(cc) PROVE ManagersInv'
  <2>1. UNCHANGED <<mgrVars, defs, tickVars>>
    BY <1>22 DEF EnablePlugin
  <2>2. PmTypes'
    BY <1>22 DEF EnablePlugin
  <2>3. CallTypes'
    BY <1>22 DEF EnablePlugin
  <2>4. AutoTypes'
    BY <1>22 DEF EnablePlugin
  <2>. QED
    BY <2>1, <2>2, <2>3, <2>4
<1>23. ASSUME NEW cc \in Configs, Reconfigures(cc) PROVE ManagersInv'
  BY <1>23 DEF Reconfigures
<1>24. CASE Configured
  <2>1. UNCHANGED <<mgrVars, autoVars, taskVars, tickVars>>
    BY <1>24 DEF Configured
  <2>2. PmTypes'
    BY <1>24 DEF Configured
  <2>3. CallTypes'
    <3>1. CallTypes
      OBVIOUS
    <3>2. CASE Calls("start", "base")
      BY <3>1, <3>2, <1>24 DEF Configured
    <3>3. CASE Calls("stop", "clear")
      BY <3>1, <3>3, <1>24 DEF Configured
    <3>4. CASE UNCHANGED <<call, panicked>>
      BY <3>1, <3>4, <1>24 DEF Configured
    <3>. QED
      BY <3>2, <3>3, <3>4, <1>24 DEF Configured
  <2>. QED
    BY <2>1, <2>2, <2>3
<1>25. CASE Started
  BY <1>25 DEF Started
<1>26. CASE DisablePlugin
  BY <1>26 DEF DisablePlugin
<1>27. CASE StopOver
  BY <1>27 DEF StopOver
<1>28. CASE AppStopsPlugin
  BY <1>28 DEF AppStopsPlugin
<1>29. CASE UNCHANGED systemdVars
  BY <1>29 DEF systemdVars
<1>30. ASSUME NEW t \in Threads, CallStep(t) PROVE ManagersInv'
  <2> HIDE DEF ManagersInv
  <2>. QED
    BY <1>1, <1>2, <1>3, <1>4, <1>5, <1>6, <1>7, <1>8, <1>9, <1>10, <1>30 DEF CallStep
<1>31. CASE StopStep
  BY <1>12, <1>13, <1>14, <1>31 DEF StopStep
<1>32. ASSUME NEW w \in Ticks, Fire(w) \/ TickSees(w) \/ TickStep(w) PROVE ManagersInv'
  <2> HIDE DEF ManagersInv
  <2>. QED
    BY <1>15, <1>16, <1>17, <1>18, <1>19, <1>20, <1>21, <1>32 DEF TickStep
<1> HIDE DEF ManagersInv
<1>. QED
  BY <1>11, <1>22, <1>23, <1>24, <1>25, <1>26, <1>27, <1>28, <1>29, <1>30, <1>31, <1>32
  DEF SystemdNext

\* At first there is no manager.
LEMMA InitManagersInv == SystemdInit => ManagersInv
<1> SUFFICES ASSUME SystemdInit PROVE ManagersInv
  OBVIOUS
<1> USE SystemdAssumption DEF SystemdInit, Configs, NoConfig
<1>1. PmTypes
  <2>1. NoConfig \in Configs
    OBVIOUS
  <2>2. 0 \in 0 .. MaxLate /\ 0 \in 0 .. MaxConfigs
    OBVIOUS
  <2>. QED
    BY <2>1, <2>2 DEF PmTypes
<1>2. CallTypes
  BY DEF CallTypes
<1>3. MgrTypes
  BY FS_EmptySet DEF MgrTypes
<1>4. AutoTypes /\ DefTypes /\ TickTypes
  BY FS_EmptySet DEF AutoTypes, DefTypes, TickTypes
<1>5. TaskPlaces
  BY DEF TaskPlaces, CallPlaces, Threads
<1>. QED
  BY <1>1, <1>2, <1>3, <1>4, <1>5 DEF ManagersInv

\* The plugin's variables keep their types, and each manager is a new one when it
\* is made, however many ticks and calls hold old ones (plugin.go, ensureManager).
THEOREM SystemdIsTyped == SystemdSpec => []SystemdTypeOK
<1>1. ManagersInv => SystemdTypeOK
  BY DEF ManagersInv, PmTypes, CallTypes, MgrTypes, AutoTypes, DefTypes, TickTypes, SystemdTypeOK
<1>. QED
  BY <1>1, InitManagersInv, NextManagersInv, PTL DEF SystemdSpec

\* The plugin's definitions that fire, but for those that nothing removes.
Firing == {d \in defs : d.fires /\ Trim[d.name] = d.name}

NoneFires == Firing = {}
OneFires == \A d, e \in Firing : d = e

\* How they are called, who knows them.
AutoNamed == \A d \in Firing : d.name = autoTask
CfgNamed == \A d \in Firing : d.name = cfg.task.name
StartNamed == \A d \in Firing : d.name = startCfg.task.name
AllTracked == \A d \in Firing : d.name \in tracked
AllRemoved == \A d \in Firing : d.name \in removing

\* What fires is known to the helper and to the plugin, but in the middle of a
\* reconciliation.
KnownSchedule == AutoNamed /\ AllTracked

\* What the call of OnConfigChange or of Start has made of the schedule.
ScheduleIn(t) ==
  /\ call[t] \in {"base", "ensure", "close", "new", "remove"} => KnownSchedule /\ t \notin panicked
  /\ call[t] \in {"reset", "maps", "validate", "do"} => NoneFires /\ t \notin panicked
  /\ call[t] \in {"track", "task"} =>
       t \notin panicked /\ (t = "config" => CfgNamed) /\ (t = "start" => StartNamed)
  /\ call[t] = "task" => AllTracked
  /\ call[t] = "idle" => KnownSchedule /\ (t \in panicked => NoneFires)

\* As long as no call is abandoned and App.Stop does not come in, the manager
\* calls into the plugin one call at a time.
ScheduleInv ==
  late = 0 /\ ~appStopped =>
    /\ \A t \in Threads :
         call[t] # "idle" => \/ t = "config" /\ pm \in {"config", "reconfig"}
                             \/ t = pm
    /\ OneFires
    /\ pm = "off" => NoneFires
    /\ pm = "running" => KnownSchedule
    /\ pm \in {"config", "reconfig"} => ScheduleIn("config")
    /\ pm = "start" => ScheduleIn("start")
    /\ pm = "stop" => /\ call["stop"] = "clear" => AllTracked
                      /\ call["stop"] = "unregister" => AllRemoved
                      /\ call["stop"] \notin {"clear", "unregister"} => NoneFires

\* When none fires there is nothing to know.
LEMMA NoneIsKnown ==
  /\ NoneFires => OneFires /\ AutoNamed /\ CfgNamed /\ StartNamed /\ AllTracked /\ AllRemoved
  /\ NoneFires' => OneFires' /\ AutoNamed' /\ CfgNamed' /\ StartNamed' /\ AllTracked' /\ AllRemoved'
BY DEF NoneFires, OneFires, AutoNamed, CfgNamed, StartNamed, AllTracked, AllRemoved

\* As long as the definitions stay, so does what is known of them.
LEMMA FiringKept ==
  ASSUME defs' = defs
  PROVE  /\ NoneFires' <=> NoneFires
         /\ OneFires' <=> OneFires
         /\ autoTask' = autoTask => (AutoNamed' <=> AutoNamed)
         /\ cfg' = cfg => (CfgNamed' <=> CfgNamed)
         /\ startCfg' = startCfg => (StartNamed' <=> StartNamed)
         /\ tracked' = tracked => (AllTracked' <=> AllTracked)
         /\ removing' = removing => (AllRemoved' <=> AllRemoved)
<1>1. Firing' = Firing
  BY DEF Firing
<1>. QED
  BY <1>1 DEF NoneFires, OneFires, AutoNamed, CfgNamed, StartNamed, AllTracked, AllRemoved

\* A removal by a name leaves nothing that fires and bears it.
LEMMA FiringRemoved ==
  ASSUME NEW n, KeepOnly(OtherThan(n))
  PROVE  Firing' \subseteq Firing /\ \A d \in Firing' : d.name # n
<1>1. defs' = OtherThan(n)
  BY DEF KeepOnly
<1>2. ASSUME NEW d \in Firing' PROVE d \in Firing /\ d.name # n
  <2>1. d \in defs /\ d.name # Trim[n] /\ d.fires /\ Trim[d.name] = d.name
    BY <1>1, <1>2 DEF Firing, OtherThan
  <2>. QED
    BY <2>1 DEF Firing
<1>. QED
  BY <1>2

\* When none has fired, only the new one does, if it can.
LEMMA FiringRegistered ==
  ASSUME NEW t, Register(t), NoneFires
  PROVE  /\ \A d \in Firing' : d = NewDefinition(t) /\ d.name = Arg(t).task.name
         /\ ~Arg(t).task.parses => NoneFires'
<1>1. defs' = OtherThan(Arg(t).task.name) \cup {NewDefinition(t)}
  BY DEF Register, KeepOnly
<1>2. ASSUME NEW d \in Firing' PROVE d = NewDefinition(t) /\ d.fires
  <2>1. d \in defs' /\ d.fires /\ Trim[d.name] = d.name
    BY <1>2 DEF Firing
  <2>2. d \notin defs
    BY <2>1 DEF NoneFires, Firing
  <2>. QED
    BY <1>1, <2>1, <2>2 DEF OtherThan
<1>3. /\ NewDefinition(t).name = Arg(t).task.name
      /\ NewDefinition(t).fires = Arg(t).task.parses
  BY DEF NewDefinition
<1>. QED
  BY <1>2, <1>3 DEF NoneFires

\* Every step of the calls, of the manager and of the ticks keeps it.
LEMMA NextScheduleInv ==
  ASSUME ManagersInv, ScheduleInv, [SystemdNext]_systemdVars
  PROVE  ScheduleInv'
<1> USE NoneIsKnown, FiringKept
<1> USE DEF ScheduleInv, ScheduleIn, KnownSchedule, Threads, pmVars, callVars, mgrVars, autoVars, taskVars, tickVars
<1> USE DEF CallAt, Calls, Arg, AfterEnsure, ForgetRecords, Abandons
<1>0. CallPlaces /\ late \in Nat /\ pm \in {"off", "config", "start", "running", "reconfig", "stop"}
  BY DEF ManagersInv, TaskPlaces, PmTypes
<1> USE <1>0 DEF CallPlaces
<1>1. ASSUME NEW t \in Threads, EnsureManager(t) PROVE ScheduleInv'
  BY <1>1 DEF EnsureManager
<1>2. ASSUME NEW t \in Threads, CloseManager(t) PROVE ScheduleInv'
  BY <1>2 DEF CloseManager
<1>3. ASSUME NEW t \in Threads, NewManager(t) PROVE ScheduleInv'
  BY <1>3 DEF NewManager
<1>4. ASSUME NEW t \in Threads, RemoveOld(t) PROVE ScheduleInv'
  <2>1. AutoNamed => NoneFires'
    <3>1. CASE autoTask # NoTask
      <4>1. KeepOnly(OtherThan(autoTask))
        BY <1>4, <3>1 DEF RemoveOld
      <4>. QED
        BY <4>1, FiringRemoved DEF AutoNamed, NoneFires
    <3>2. CASE autoTask = NoTask
      <4>1. \A d \in Firing : d.name \in TaskNames
        BY DEF ManagersInv, DefTypes, Definitions, Firing
      <4>2. defs' = defs
        BY <1>4, <3>2 DEF RemoveOld
      <4>. QED
        BY <3>2, <4>1, <4>2, SystemdAssumption DEF AutoNamed, NoneFires
    <3>. QED
      BY <3>1, <3>2
  <2>2. call[t] = "remove" /\ CallAt(t, "reset") /\ UNCHANGED <<pmVars, panicked>>
    BY <1>4 DEF RemoveOld
  <2>. QED
    BY <2>1, <2>2
<1>5. ASSUME NEW t \in Threads, ResetState(t) PROVE ScheduleInv'
  BY <1>5 DEF ResetState
<1>6. ASSUME NEW t \in Threads, MakeMaps(t) PROVE ScheduleInv'
  BY <1>6 DEF MakeMaps
<1>7. ASSUME NEW t \in Threads, Validate(t) PROVE ScheduleInv'
  BY <1>7 DEF Validate
<1>8. ASSUME NEW t \in Threads, Register(t) PROVE ScheduleInv'
  <2>1. NoneFires => OneFires' /\ (t = "config" => CfgNamed') /\ (t = "start" => StartNamed')
    <3>1. cfg' = cfg /\ startCfg' = startCfg
      BY <1>8 DEF Register
    <3>2. NoneFires => \A d \in Firing' : d = NewDefinition(t) /\ d.name = Arg(t).task.name
      BY <1>8, FiringRegistered
    <3>. QED
      BY <3>1, <3>2 DEF OneFires, CfgNamed, StartNamed
  <2>2. \/ CallAt(t, "track")
        \/ CallAt(t, "idle") /\ (NoneFires => NoneFires')
    <3>1. CASE CallAt(t, "track")
      BY <3>1
    <3>2. CASE ~Arg(t).task.parses /\ CallAt(t, "idle")
      <4> HIDE DEF Arg, CallAt
      <4>1. NoneFires => NoneFires'
        BY <1>8, <3>2, FiringRegistered
      <4>. QED
        BY <3>2, <4>1
    <3>. QED
      BY <1>8, <3>1, <3>2 DEF Register
  <2>3. call[t] = "do" /\ UNCHANGED <<pm, late, appStopped, panicked>>
    BY <1>8 DEF Register
  <2> HIDE FiringKept
  <2>4. t \in {"config", "start"}
    BY <2>3
  <2>5. late = 0 /\ ~appStopped =>
          NoneFires /\ t \notin panicked /\ (IF t = "config" THEN pm \in {"config", "reconfig"} ELSE pm = "start")
    BY <2>3, <2>4
  <2>. QED
    BY <2>1, <2>2, <2>3, <2>4, <2>5
<1>9. ASSUME NEW t \in Threads, Track(t) PROVE ScheduleInv'
  <2>1. (t = "config" => CfgNamed) /\ (t = "start" => StartNamed) /\ t # "stop" => AllTracked'
    <3>1. defs' = defs /\ tracked' = tracked \cup {Arg(t).task.name}
      BY <1>9 DEF Track
    <3>2. Firing' = Firing
      BY <3>1 DEF Firing
    <3>. QED
      BY <3>1, <3>2 DEF CfgNamed, StartNamed, AllTracked
  <2>. QED
    BY <1>9, <2>1 DEF Track
<1>10. ASSUME NEW t \in Threads, SetTask(t) PROVE ScheduleInv'
  <2>1. (t = "config" => CfgNamed) /\ (t = "start" => StartNamed) /\ t # "stop" => AutoNamed'
    <3>1. defs' = defs /\ autoTask' = Arg(t).task.name
      BY <1>10 DEF SetTask
    <3>2. Firing' = Firing
      BY <3>1 DEF Firing
    <3>. QED
      BY <3>1, <3>2 DEF CfgNamed, StartNamed, AutoNamed
  <2>. QED
    BY <1>10, <2>1 DEF SetTask
<1>11. CASE StartBase
  BY <1>11 DEF StartBase
<1>12. CASE Cleanup
  <2>1. AllTracked => AllRemoved' /\ (tracked = {} => NoneFires')
    <3>1. Firing' = Firing /\ removing' = tracked
      BY <1>12 DEF Cleanup, Firing
    <3>. QED
      BY <3>1 DEF AllTracked, AllRemoved, NoneFires
  <2>. QED
    BY <1>12, <2>1 DEF Cleanup
<1>13. CASE CleanupRemoves
  <2>1. PICK n \in removing : KeepOnly(OtherThan(n)) /\ removing' = removing \ {n}
    BY <1>13 DEF CleanupRemoves
  <2>2. Firing' \subseteq Firing /\ \A d \in Firing' : d.name # n
    BY <2>1, FiringRemoved
  <2>3. AllRemoved => AllRemoved' /\ (removing' = {} => NoneFires')
    BY <2>1, <2>2 DEF AllRemoved, NoneFires
  <2>4. OneFires => OneFires'
    BY <2>2 DEF OneFires
  <2>5. /\ call["stop"] = "unregister" /\ UNCHANGED <<pmVars, panicked>>
        /\ CallAt("stop", IF removing' = {} THEN "reset" ELSE "unregister")
    BY <1>13 DEF CleanupRemoves
  <2>. QED
    BY <2>3, <2>4, <2>5
<1>14. CASE DropManager
  BY <1>14 DEF DropManager
<1>15. CASE \E w \in Ticks : Fire(w) \/ TickSees(w) \/ TickStep(w)
  <2>1. UNCHANGED <<pm, late, appStopped, call, panicked, startCfg, cfg, autoTask, tracked, removing, defs>>
    BY <1>15 DEF Fire, TickSees, TickStep, TickLooks, TickPasses, TickMarksMissing,
      RestartReturns, TickRecords, TickAt
  <2>. QED
    BY <2>1
<1>16. ASSUME NEW cc \in Configs, EnablePlugin(cc) PROVE ScheduleInv'
  BY <1>16 DEF EnablePlugin
<1>17. ASSUME NEW cc \in Configs, Reconfigures(cc) PROVE ScheduleInv'
  BY <1>17 DEF Reconfigures
<1>18. CASE Configured
  BY <1>18 DEF Configured
<1>19. CASE Started
  BY <1>19 DEF Started
<1>20. CASE DisablePlugin
  BY <1>20 DEF DisablePlugin
<1>21. CASE StopOver
  BY <1>21 DEF StopOver
<1>22. CASE AppStopsPlugin
  BY <1>22 DEF AppStopsPlugin
<1>23. CASE UNCHANGED systemdVars
  BY <1>23 DEF systemdVars
<1>. QED
  BY <1>1, <1>2, <1>3, <1>4, <1>5, <1>6, <1>7, <1>8, <1>9, <1>10, <1>11, <1>12,
     <1>13, <1>14, <1>15, <1>16, <1>17, <1>18, <1>19, <1>20, <1>21, <1>22, <1>23
  DEF SystemdNext, CallStep, StopStep


\* Before the manager has called, nothing is registered.
LEMMA InitScheduleInv == SystemdInit => ScheduleInv
<1>1. SystemdInit => NoneFires
  BY DEF SystemdInit, NoneFires, Firing
<1>. QED
  BY <1>1, NoneIsKnown DEF SystemdInit, ScheduleInv, Threads

\* Of the schedules that the scheduler would remove by their names none is left
\* behind: while no call is under way, none abandoned and App.Stop has not come
\* in, at most one fires, the running plugin's, and it is tracked (schedule.go:14;
\* auto_recover.go, reconcileAutoRecover), also when a Do has failed.
THEOREM ScheduleIsOwned == SystemdSpec => []ScheduleOwned
<1>1. SystemdInit => ManagersInv /\ ScheduleInv
  BY InitManagersInv, InitScheduleInv
<1>2. ManagersInv /\ ScheduleInv /\ [SystemdNext]_systemdVars => (ManagersInv /\ ScheduleInv)'
  BY NextManagersInv, NextScheduleInv
<1>3. ScheduleInv => ScheduleOwned
  <2> SUFFICES ASSUME ScheduleInv, \A t \in Threads : call[t] = "idle",
                      late = 0, ~appStopped, pm \in {"off", "running"}
               PROVE  /\ \A d \in Firing : pm = "running" /\ d.name \in tracked
                      /\ \A d, e \in Firing : d = e
    BY DEF ScheduleOwned, Firing
  <2>. QED
    BY DEF ScheduleInv, KnownSchedule, NoneFires, OneFires, AllTracked
<1>. QED
  BY <1>1, <1>2, <1>3, PTL DEF SystemdSpec

---------------------------------------------------------------------------
(* The history file                                                        *)

\* Of the results w that were written, f has each that is among the last
\* MaxRecords and not before c, no further from its end.
HasRecent(f, w, c) ==
  /\ f \in Seq(Results)
  /\ \A i \in DOMAIN w : i + MaxRecords > Len(w) /\ w[i] >= c =>
       \E k \in 1 .. Len(f) : f[k] = w[i] /\ Len(f) - k <= Len(w) - i

\* Who is past LocksHistory holds historyMu, and who saves has a result.
HistoryPlaces ==
  /\ task \in [Testers -> {"idle", "save", "append", "clean", "read", "open", "fill", "replace"}]
  /\ historyMu \in Testers \cup {Nobody}
  /\ result \in [Testers -> 0 .. MaxTests]
  /\ tests \in 0 .. MaxTests /\ short \in BOOLEAN
  /\ \A t \in Testers : task[t] \notin {"idle", "save", "clean"} => historyMu = t
  /\ \A t \in Testers : task[t] \in {"save", "append"} => result[t] \in Results

\* The file has the results to be kept, and so has what is to replace it.
RecentAreHeld ==
  /\ written \in Seq(Results) /\ cut \in Nat
  /\ ~short => /\ HasRecent(file, written, cut)
               /\ \A t \in Testers : task[t] \in {"open", "fill"} => HasRecent(kept, written, cut)
               /\ \A t \in Testers : task[t] = "replace" => HasRecent(tmp, written, cut)

HistoryInv == HistoryPlaces /\ RecentAreHeld

\* The last n of a sequence are as far from its end as they were.
LEMMA NewestType ==
  ASSUME NEW S, NEW f \in Seq(S), NEW n \in Nat
  PROVE  /\ Newest(f, n) \in Seq(S) /\ Len(Newest(f, n)) \in Nat
         /\ \A k \in 1 .. Len(f) : Len(f) - k < n =>
              \E l \in 1 .. Len(Newest(f, n)) :
                /\ Newest(f, n)[l] = f[k]
                /\ Len(Newest(f, n)) - l = Len(f) - k
<1> DEFINE m == IF Len(f) > n THEN Len(f) - n + 1 ELSE 1
           g == SubSeq(f, m, Len(f))
<1>1. Len(f) \in Nat /\ \A k \in 1 .. Len(f) : f[k] \in S
  BY LenProperties, ElementOfSeq
<1>2. m \in Int /\ m >= 1 /\ m <= Len(f) + 1 /\ Len(f) \in Int
  BY <1>1
<1>3. \A k \in 1 .. Len(f) : Len(f) - k < n => k >= m
  BY <1>1
<1> HIDE DEF m
<1>4. \A k \in m .. Len(f) : f[k] \in S
  <2>1. \A k \in m .. Len(f) : k \in 1 .. Len(f)
    BY <1>2
  <2>. QED
    BY <2>1, <1>1
<1>5. /\ g \in Seq(S) /\ Len(g) = (IF m <= Len(f) THEN Len(f) - m + 1 ELSE 0)
      /\ \A l \in 1 .. Len(f) - m + 1 : g[l] = f[m + l - 1]
  BY <1>2, <1>4, SubSeqProperties
<1> HIDE DEF g
<1>6. Len(g) \in Nat /\ Len(g) = Len(f) - m + 1
  BY <1>1, <1>2, <1>5
<1>7. ASSUME NEW k \in 1 .. Len(f), Len(f) - k < n
      PROVE  \E l \in 1 .. Len(g) : g[l] = f[k] /\ Len(g) - l = Len(f) - k
  <2> DEFINE l == k - m + 1
  <2>1. k >= m
    BY <1>3, <1>7
  <2>2. l \in 1 .. Len(g) /\ l \in 1 .. Len(f) - m + 1 /\ m + l - 1 = k /\ Len(g) - l = Len(f) - k
    BY <2>1, <1>2, <1>6
  <2>3. g[l] = f[k]
    BY <2>2, <1>5
  <2>. QED
    BY <2>2, <2>3
<1>8. Newest(f, n) = g
  BY DEF Newest, g, m
<1>. QED
  BY <1>5, <1>6, <1>7, <1>8

\* A file of results reads as what it is.
LEMMA ReadableAll ==
  ASSUME NEW f \in Seq(Results)
  PROVE  Readable(f) = f
<1>1. DOMAIN f = 1 .. Len(f) /\ \A k \in 1 .. Len(f) : f[k] \in Results
  BY LenProperties, ElementOfSeq
<1>2. {k \in DOMAIN f : f[k] \in Results} = 1 .. Len(f)
  BY <1>1
<1>. QED
  BY <1>2, PickedAll DEF Readable

\* A compaction keeps what is to be kept after it.
LEMMA CompactionKeeps ==
  ASSUME NEW f, NEW w \in Seq(Results), NEW c \in Nat, NEW cutoff \in Nat,
         HasRecent(f, w, c), MaxRecords \in Nat
  PROVE  HasRecent(Newest(Since(Readable(f), cutoff), MaxRecords),
                   w, IF cutoff > c THEN cutoff ELSE c)
<1> DEFINE I == {k \in DOMAIN f : f[k] >= cutoff}
           g == Picked(f, I)
           h == Newest(g, MaxRecords)
           d == IF cutoff > c THEN cutoff ELSE c
<1>1. f \in Seq(Results)
  BY DEF HasRecent
<1>2. Since(Readable(f), cutoff) = g
  BY <1>1, ReadableAll DEF Since
<1>3. DOMAIN f = 1 .. Len(f) /\ Len(f) \in Nat /\ \A k \in 1 .. Len(f) : f[k] \in Results
  BY <1>1, LenProperties, ElementOfSeq
<1>4. I \in SUBSET (1 .. Len(f)) /\ \A k \in I : f[k] \in Results
  BY <1>3
<1>5. \A k \in 1 .. Len(f) : f[k] >= cutoff => k \in I
  BY <1>3
<1> HIDE DEF I
<1>6. /\ g \in Seq(Results) /\ Len(g) = Cardinality(I) /\ Cardinality(I) \in Nat
      /\ \A k \in I : /\ Rank(I, k) \in 1 .. Cardinality(I)
                      /\ g[Rank(I, k)] = f[k]
                      /\ Cardinality(I) - Rank(I, k) <= Len(f) - k
  BY <1>1, <1>4, PickedType
<1> HIDE DEF g
<1>7. /\ h \in Seq(Results) /\ Len(h) \in Nat
      /\ \A k \in 1 .. Len(g) : Len(g) - k < MaxRecords =>
           \E l \in 1 .. Len(h) : h[l] = g[k] /\ Len(h) - l = Len(g) - k
  BY <1>6, NewestType
<1> HIDE DEF h
<1>8. Len(w) \in Nat /\ DOMAIN w = 1 .. Len(w) /\ \A i \in 1 .. Len(w) : w[i] \in Results
  BY LenProperties, ElementOfSeq
<1>9. ASSUME NEW i \in DOMAIN w, i + MaxRecords > Len(w), w[i] >= d
      PROVE  \E l \in 1 .. Len(h) : h[l] = w[i] /\ Len(h) - l <= Len(w) - i
  <2>1. w[i] >= c /\ w[i] >= cutoff
    <3>1. w[i] \in Nat
      BY <1>8 DEF Results
    <3>. QED
      BY <3>1, <1>9
  <2>2. PICK k \in 1 .. Len(f) : f[k] = w[i] /\ Len(f) - k <= Len(w) - i
    BY <1>9, <2>1 DEF HasRecent
  <2>3. k \in I
    BY <2>1, <2>2, <1>5
  <2> DEFINE r == Rank(I, k)
  <2>4. /\ r \in 1 .. Len(g) /\ g[r] = w[i] /\ Len(g) - r <= Len(f) - k
    BY <2>2, <2>3, <1>6
  <2> HIDE DEF r
  <2>5. Len(g) - r < MaxRecords /\ Len(g) - r <= Len(w) - i
    BY <2>2, <2>4, <1>3, <1>6, <1>8, <1>9
  <2>. QED
    BY <2>4, <2>5, <1>7
<1>. QED
  BY <1>2, <1>7, <1>9 DEF HasRecent, h

\* A line that is appended is among the results to be kept, and the others are
\* no further from the end than the results written.
LEMMA AppendKeeps ==
  ASSUME NEW f, NEW w \in Seq(Results), NEW c \in Nat, NEW r \in Results,
         HasRecent(f, w, c), MaxRecords \in Nat
  PROVE  HasRecent(Append(f, r), Append(w, r), c)
<1>1. f \in Seq(Results)
  BY DEF HasRecent
<1> DEFINE g == Append(f, r)
           v == Append(w, r)
<1>2. /\ g \in Seq(Results) /\ Len(g) = Len(f) + 1 /\ Len(f) \in Nat
      /\ \A k \in 1 .. Len(f) : g[k] = f[k]
      /\ g[Len(f) + 1] = r
  BY <1>1, AppendProperties, LenProperties
<1>3. /\ v \in Seq(Results) /\ Len(v) = Len(w) + 1 /\ Len(w) \in Nat
      /\ \A k \in 1 .. Len(w) : v[k] = w[k]
      /\ v[Len(w) + 1] = r
  BY AppendProperties, LenProperties
<1>4. DOMAIN v = 1 .. Len(v) /\ DOMAIN w = 1 .. Len(w)
  BY <1>3, LenProperties
<1> HIDE DEF g, v
<1>5. ASSUME NEW i \in 1 .. Len(v), i + MaxRecords > Len(v), v[i] >= c
      PROVE  \E k \in 1 .. Len(g) : g[k] = v[i] /\ Len(g) - k <= Len(v) - i
  <2>1. CASE i = Len(w) + 1
    <3>1. Len(g) \in 1 .. Len(g) /\ g[Len(g)] = v[i] /\ Len(g) - Len(g) <= Len(v) - i
      BY <2>1, <1>2, <1>3
    <3>. QED
      BY <3>1
  <2>2. CASE i # Len(w) + 1
    <3>1. i \in 1 .. Len(w) /\ i + MaxRecords > Len(w)
      BY <2>2, <1>3, <1>5
    <3>2. v[i] = w[i]
      BY <3>1, <1>3
    <3>3. PICK k \in 1 .. Len(f) : f[k] = w[i] /\ Len(f) - k <= Len(w) - i
      BY <3>1, <3>2, <1>4, <1>5 DEF HasRecent
    <3>4. k \in 1 .. Len(g) /\ Len(g) - k <= Len(v) - i
      BY <3>1, <3>3, <1>2, <1>3
    <3>. QED
      BY <3>2, <3>3, <3>4, <1>2
  <2>. QED
    BY <2>1, <2>2
<1>. QED
  BY <1>2, <1>4, <1>5 DEF HasRecent, g, v

\* A file of results does not end in the middle of a line.
LEMMA LastIsResult ==
  ASSUME NEW f \in Seq(Results)
  PROVE  ~EndsShort(f)
<1> SUFFICES ASSUME f # <<>> PROVE f[Len(f)] # Unended
  BY DEF EndsShort, Last
<1>1. Len(f) \in Nat /\ Len(f) # 0
  BY LenProperties, EmptySeq
<1>2. f[Len(f)] \in Results
  <2>1. Len(f) \in 1 .. Len(f)
    BY <1>1
  <2>. QED
    BY <2>1, ElementOfSeq
<1>. QED
  BY <1>2, HistoryAssumption DEF Results, Unended

\* Nothing is written at first.
LEMMA InitHistoryInv == HistoryInit => HistoryInv
<1> SUFFICES ASSUME HistoryInit PROVE HistoryInv
  OBVIOUS
<1>1. HistoryPlaces
  <2>1. 0 \in 0 .. MaxTests
    BY HistoryAssumption
  <2>2. /\ task = [t \in Testers |-> "idle"] /\ historyMu = Nobody /\ tests = 0 /\ short = FALSE
        /\ result = [t \in Testers |-> 0]
    BY DEF HistoryInit
  <2>3. \A t \in Testers : task[t] = "idle" /\ result[t] = 0
    BY <2>2
  <2>. QED
    BY <2>1, <2>2, <2>3 DEF HistoryPlaces
<1>2. written = <<>> /\ file = <<>> /\ \A t \in Testers : task[t] = "idle"
  BY DEF HistoryInit
<1>3. written \in Seq(Results) /\ file \in Seq(Results) /\ DOMAIN written = {} /\ cut \in Nat
  BY <1>2, EmptySeq DEF HistoryInit
<1>4. HasRecent(file, written, cut)
  BY <1>3 DEF HasRecent
<1>. QED
  BY <1>1, <1>2, <1>3, <1>4 DEF HistoryInv, RecentAreHeld

\* Only who holds historyMu is at work on the file.
LEMMA NextHistoryPlaces ==
  ASSUME HistoryPlaces, HistoryNext
  PROVE  HistoryPlaces'
<1> USE HistoryAssumption
<1> USE DEF HistoryPlaces, TaskAt, Unlocks, Results
<1>1. ASSUME NEW t \in Testers, Tests(t) PROVE HistoryPlaces'
  <2>1. tests + 1 \in 1 .. MaxTests /\ tests + 1 \in 0 .. MaxTests
    BY <1>1 DEF Tests
  <2>. QED
    BY <1>1, <2>1 DEF Tests
<1>2. ASSUME NEW t \in Testers, CleansUp(t) PROVE HistoryPlaces'
  BY <1>2 DEF CleansUp, pastVars
<1>3. ASSUME NEW t \in Testers, LocksHistory(t) PROVE HistoryPlaces'
  BY <1>3 DEF LocksHistory, pastVars
<1>4. ASSUME NEW t \in Testers, AppendsLine(t) PROVE HistoryPlaces'
  <2>1. historyMu = t /\ UNCHANGED tests
    BY <1>4 DEF AppendsLine
  <2>2. CASE TaskAt(t, "read") /\ UNCHANGED <<historyMu, result>>
    BY <1>4, <2>1, <2>2 DEF AppendsLine
  <2>3. CASE Unlocks(t)
    <3>1. short' \in BOOLEAN
      BY <1>4 DEF AppendsLine
    <3>2. \A u \in Testers : u # t => task[u] \in {"idle", "save", "clean"}
      BY <2>1
    <3>3. 0 \in 0 .. MaxTests
      OBVIOUS
    <3>. QED
      BY <2>1, <2>3, <3>1, <3>2, <3>3
  <2>. QED
    BY <1>4, <2>2, <2>3 DEF AppendsLine
<1>5. ASSUME NEW t \in Testers, ReadsHistory(t) PROVE HistoryPlaces'
  <2>1. historyMu = t /\ short' \in BOOLEAN /\ UNCHANGED <<tests, written>>
    BY <1>5 DEF ReadsHistory
  <2>2. \/ TaskAt(t, "open") /\ UNCHANGED <<historyMu, result>>
        \/ Unlocks(t)
    BY <1>5 DEF ReadsHistory
  <2>. QED
    BY <1>5, <2>1, <2>2
<1>6. ASSUME NEW t \in Testers, OpensTmp(t) PROVE HistoryPlaces'
  <2>1. historyMu = t /\ UNCHANGED pastVars
    BY <1>6 DEF OpensTmp
  <2>. QED
    BY <1>6, <2>1 DEF OpensTmp, pastVars
<1>7. ASSUME NEW t \in Testers, FillsTmp(t) PROVE HistoryPlaces'
  BY <1>7 DEF FillsTmp
<1>8. ASSUME NEW t \in Testers, ReplacesFile(t) PROVE HistoryPlaces'
  <2>1. historyMu = t
    BY <1>8 DEF ReplacesFile
  <2>. QED
    BY <1>8, <2>1 DEF ReplacesFile, pastVars
<1>9. CASE Killed
  <2>1. /\ historyMu' = Nobody /\ UNCHANGED tests
        /\ task' = [t \in Testers |-> "idle"] /\ result' = [t \in Testers |-> 0]
    BY <1>9 DEF Killed
  <2>2. short' \in BOOLEAN
    BY <1>9 DEF Killed
  <2>3. 0 \in 0 .. MaxTests
    OBVIOUS
  <2>. QED
    BY <2>1, <2>2, <2>3
<1>. QED
  BY <1>1, <1>2, <1>3, <1>4, <1>5, <1>6, <1>7, <1>8, <1>9 DEF HistoryNext

\* What is to be kept stays in the file, and is in what replaces it.
LEMMA NextRecentAreHeld ==
  ASSUME HistoryInv, HistoryNext
  PROVE  RecentAreHeld'
<1>1. HistoryPlaces /\ RecentAreHeld
  BY DEF HistoryInv
<1>2. HistoryPlaces'
  BY <1>1, NextHistoryPlaces
<1>3. MaxRecords \in Nat /\ Nobody \notin Testers
  BY HistoryAssumption
<1>4. ASSUME NEW t \in Testers, Tests(t) \/ CleansUp(t) \/ LocksHistory(t) PROVE RecentAreHeld'
  <2>1. UNCHANGED <<fileVars, kept, written, cut, short>>
    BY <1>4 DEF Tests, CleansUp, LocksHistory, pastVars
  <2>2. \A u \in Testers : task'[u] \in {"open", "fill", "replace"} => task'[u] = task[u]
    BY <1>1, <1>4 DEF Tests, CleansUp, LocksHistory, TaskAt, HistoryPlaces
  <2>. QED
    BY <1>1, <2>1, <2>2 DEF RecentAreHeld, fileVars
<1>5. ASSUME NEW t \in Testers, AppendsLine(t) PROVE RecentAreHeld'
  <2>1. task[t] = "append" /\ historyMu = t /\ result[t] \in Results
    BY <1>1, <1>5 DEF AppendsLine, HistoryPlaces
  <2>2. \A u \in Testers : task'[u] \notin {"open", "fill", "replace"}
    <3>1. \A u \in Testers : u # t => task[u] \in {"idle", "save", "clean"}
      BY <1>1, <2>1 DEF HistoryPlaces
    <3>2. TaskAt(t, "read") \/ TaskAt(t, "idle")
      BY <1>5 DEF AppendsLine, Unlocks
    <3>. QED
      BY <1>1, <3>1, <3>2 DEF TaskAt, HistoryPlaces
  <2>3. cut' = cut
    BY <1>5 DEF AppendsLine
  <2>4. CASE file' = WithLine(file, result[t]) /\ written' = Append(written, result[t]) /\ UNCHANGED short
    <3>1. written' \in Seq(Results)
      BY <1>1, <2>1, <2>4, AppendProperties DEF RecentAreHeld
    <3>2. ASSUME ~short' PROVE HasRecent(file', written', cut')
      <4>1. HasRecent(file, written, cut) /\ file \in Seq(Results) /\ written \in Seq(Results)
        BY <1>1, <2>4, <3>2 DEF RecentAreHeld, HasRecent
      <4>2. ~EndsShort(file)
        BY <4>1, LastIsResult
      <4>3. file' = Append(file, result[t])
        BY <2>4, <4>2 DEF WithLine
      <4>. QED
        BY <1>1, <1>3, <2>1, <2>3, <2>4, <4>1, <4>3, AppendKeeps DEF RecentAreHeld
    <3>. QED
      BY <1>1, <2>2, <2>3, <3>1, <3>2 DEF RecentAreHeld
  <2>5. CASE short' = TRUE /\ UNCHANGED written
    BY <1>1, <2>3, <2>5 DEF RecentAreHeld
  <2>6. CASE UNCHANGED <<file, written, short>>
    BY <1>1, <2>2, <2>3, <2>6 DEF RecentAreHeld
  <2>. QED
    BY <1>5, <2>4, <2>5, <2>6 DEF AppendsLine
<1>6. ASSUME NEW t \in Testers, ReadsHistory(t) PROVE RecentAreHeld'
  <2>1. UNCHANGED <<file, written>> /\ \A u \in Testers : task'[u] # "replace"
    BY <1>1, <1>6 DEF ReadsHistory, Unlocks, TaskAt, HistoryPlaces, fileVars
  <2>2. CASE Unlocks(t) /\ UNCHANGED <<kept, cut, short>>
    <3>1. \A u \in Testers : task'[u] \in {"open", "fill"} => task[u] \in {"open", "fill"}
      BY <1>1, <2>2 DEF Unlocks, TaskAt, HistoryPlaces
    <3>. QED
      BY <1>1, <2>1, <2>2, <3>1 DEF RecentAreHeld
  <2>3. ASSUME NEW cutoff \in 1 .. tests + 1, NEW read,
               kept' = Newest(Since(Readable(read), cutoff), MaxRecords),
               cut' = (IF cutoff > cut THEN cutoff ELSE cut),
               short' = (short \/ read # file)
        PROVE  RecentAreHeld'
    <3>1. cutoff \in Nat /\ cut \in Nat /\ cut' \in Nat /\ written \in Seq(Results)
      BY <1>1, <2>3 DEF RecentAreHeld, HistoryPlaces
    <3>2. ASSUME ~short' PROVE HasRecent(kept', written, cut') /\ HasRecent(file, written, cut')
      <4>1. HasRecent(file, written, cut) /\ read = file
        BY <1>1, <2>3, <3>2 DEF RecentAreHeld
      <4>2. HasRecent(kept', written, cut')
        BY <1>3, <2>3, <3>1, <4>1, CompactionKeeps
      <4>3. \A i \in DOMAIN written : written[i] \in Nat
        <5>1. \A i \in DOMAIN written : written[i] \in Results
          BY <3>1, LenProperties, ElementOfSeq
        <5>. QED
          BY <5>1 DEF Results
      <4>4. \A i \in DOMAIN written : written[i] >= cut' => written[i] >= cut
        BY <4>3, <2>3, <3>1
      <4>. QED
        BY <4>1, <4>2, <4>4 DEF HasRecent
    <3>. QED
      BY <2>1, <3>1, <3>2 DEF RecentAreHeld
  <2>. QED
    BY <1>6, <2>2, <2>3 DEF ReadsHistory
<1>7. ASSUME NEW t \in Testers, OpensTmp(t) PROVE RecentAreHeld'
  <2>1. UNCHANGED <<file, kept, written, cut, short>> /\ task[t] = "open"
    BY <1>7 DEF OpensTmp, pastVars
  <2>2. \A u \in Testers : /\ task'[u] \in {"open", "fill"} => task[u] \in {"open", "fill"}
                           /\ task'[u] # "replace"
    <3>1. TaskAt(t, "fill") \/ TaskAt(t, "idle")
      BY <1>7 DEF OpensTmp, Unlocks
    <3>. QED
      BY <1>1, <1>7, <2>1, <3>1 DEF TaskAt, HistoryPlaces
  <2>. QED
    BY <1>1, <2>1, <2>2 DEF RecentAreHeld
<1>8. ASSUME NEW t \in Testers, FillsTmp(t) PROVE RecentAreHeld'
  <2>1. UNCHANGED <<file, kept, written, cut>> /\ task[t] = "fill" /\ TaskAt(t, "replace")
    BY <1>8 DEF FillsTmp
  <2>2. CASE short' = TRUE
    BY <1>1, <2>1, <2>2 DEF RecentAreHeld
  <2>3. CASE tmp' = kept /\ UNCHANGED short
    <3>1. \A u \in Testers : u # t => task'[u] \in {"idle", "save", "clean"}
      BY <1>1, <2>1 DEF HistoryPlaces, TaskAt
    <3>2. task'[t] = "replace"
      BY <1>1, <2>1 DEF HistoryPlaces, TaskAt
    <3>. QED
      BY <1>1, <2>1, <2>3, <3>1, <3>2 DEF RecentAreHeld
  <2>. QED
    BY <1>8, <2>2, <2>3 DEF FillsTmp
<1>9. ASSUME NEW t \in Testers, ReplacesFile(t) PROVE RecentAreHeld'
  <2>1. file' \in {tmp, file} /\ task[t] = "replace" /\ UNCHANGED <<written, cut, short>>
        /\ TaskAt(t, "idle")
    BY <1>9 DEF ReplacesFile, pastVars, Unlocks
  <2>2. \A u \in Testers : task'[u] \in {"idle", "save", "clean"}
    BY <1>1, <2>1 DEF HistoryPlaces, TaskAt
  <2>. QED
    BY <1>1, <2>1, <2>2 DEF RecentAreHeld
<1>10. CASE Killed
  <2>1. UNCHANGED <<written, cut>> /\ \A u \in Testers : task'[u] = "idle"
    BY <1>10 DEF Killed
  <2>2. UNCHANGED <<file, short>> \/ short' = TRUE
    BY <1>10 DEF Killed
  <2>. QED
    BY <1>1, <2>1, <2>2 DEF RecentAreHeld
<1>. QED
  BY <1>4, <1>5, <1>6, <1>7, <1>8, <1>9, <1>10 DEF HistoryNext

\* Neither operation nor stuttering breaks the history's invariant.
LEMMA NextHistoryInv == HistoryInv /\ [HistoryNext]_historyVars => HistoryInv'
<1> SUFFICES ASSUME HistoryInv, [HistoryNext]_historyVars PROVE HistoryInv'
  OBVIOUS
<1>1. CASE HistoryNext
  BY <1>1, NextHistoryPlaces, NextRecentAreHeld DEF HistoryInv
<1>2. CASE UNCHANGED historyVars
  BY <1>2 DEF historyVars, fileVars, saveVars, pastVars, HistoryInv, HistoryPlaces, RecentAreHeld
<1>. QED
  BY <1>1, <1>2

\* The invariant says what the commands find.
LEMMA HistoryInvKeeps == HistoryInv => HistoryKept
<1> SUFFICES ASSUME HistoryInv, ~short PROVE HistoryKept
  BY DEF HistoryKept
<1>1. /\ HasRecent(file, written, cut) /\ file \in Seq(Results) /\ written \in Seq(Results)
      /\ Readable(file) = file
  BY ReadableAll DEF HistoryInv, RecentAreHeld, HasRecent
<1>2. /\ Len(file) \in Nat /\ DOMAIN file = 1 .. Len(file)
      /\ Len(written) \in Nat /\ DOMAIN written = 1 .. Len(written)
      /\ MaxRecords \in Nat /\ MaxRecent \in 1 .. MaxRecords
  BY <1>1, LenProperties, HistoryAssumption
<1>3. ASSUME NEW n \in 1 .. MaxRecent, NEW i \in DOMAIN written,
             i + n > Len(written), written[i] >= cut
      PROVE  written[i] \in ToSet(RecentResults(n))
  <2> DEFINE g == Newest(file, n)
  <2>1. i + MaxRecords > Len(written) /\ n \in Nat /\ i \in Nat
    BY <1>2, <1>3
  <2>2. PICK k \in 1 .. Len(file) : file[k] = written[i] /\ Len(file) - k <= Len(written) - i
    BY <1>1, <1>3, <2>1 DEF HasRecent
  <2>3. Len(file) - k < n
    BY <1>2, <1>3, <2>1, <2>2
  <2>4. Len(g) \in Nat
    BY <1>1, <2>1, NewestType
  <2>5. PICK l \in 1 .. Len(g) : g[l] = file[k]
    BY <1>1, <2>1, <2>3, NewestType
  <2> HIDE DEF g
  <2> DEFINE j == Len(g) - l + 1
  <2>6. j \in 1 .. Len(g) /\ Len(g) - j + 1 = l
    BY <2>4
  <2>0. ~(n > MaxRecent)
    BY <1>2
  <2>7. RecentResults(n) = [m \in 1 .. Len(g) |-> g[(Len(g) - m) + 1]]
    BY <1>1, <2>0 DEF RecentResults, Reverse, g
  <2> HIDE DEF j
  <2>8. j \in DOMAIN RecentResults(n) /\ RecentResults(n)[j] = written[i]
    BY <2>2, <2>5, <2>6, <2>7
  <2>. QED
    BY <2>8 DEF ToSet
<1>4. ASSUME NEW i \in DOMAIN written, i + MaxRecords > Len(written), written[i] >= cut,
             NEW cutoff \in Results, written[i] >= cutoff
      PROVE  written[i] \in DailyTests(cutoff)
  <2>1. PICK k \in 1 .. Len(file) : file[k] = written[i]
    BY <1>1, <1>4 DEF HasRecent
  <2>2. written[i] \in ToSet(file)
    BY <1>2, <2>1 DEF ToSet
  <2>. QED
    BY <1>1, <1>4, <2>2 DEF DailyTests
<1>5. \A n \in 1 .. MaxRecent : ToBeKept(n) \subseteq ToSet(RecentResults(n))
  BY <1>3 DEF ToBeKept
<1>6. \A cutoff \in Results : {r \in ToBeKept(MaxRecords) : r >= cutoff} \subseteq DailyTests(cutoff)
  BY <1>4 DEF ToBeKept
<1>. QED
  BY <1>5, <1>6 DEF HistoryKept

\* The inductive invariant of the history holds in every behaviour
\* (history.go:45-88, 246-354).
THEOREM HistoryInvariant == HistorySpec => []HistoryInv
<1>1. QED BY InitHistoryInv, NextHistoryInv, PTL DEF HistorySpec

\* The commands find every result that was saved and is recent enough, among no
\* more results than were saved since, as long as no write has come up short,
\* wherever the program was killed (history.go:22, 45-88, 187-354).
THEOREM HistoryIsKept == HistorySpec => []HistoryKept
<1>1. QED BY HistoryInvariant, HistoryInvKeeps, PTL

\* What the invariant of the history leaves open of the types.
FilesAreLines == file \in Lines /\ tmp \in Lines /\ kept \in Seq(Results)

\* Results are lines, and so are those that are cut off or torn.
LEMMA ResultsAreLines ==
  /\ Results \subseteq 0 .. Unended /\ Torn \in 0 .. Unended /\ Unended \in 0 .. Unended
  /\ Seq(Results) \subseteq Lines
<1>1. Results \subseteq 0 .. Unended /\ Torn \in 0 .. Unended /\ Unended \in 0 .. Unended
  BY HistoryAssumption DEF Results, Torn, Unended
<1>2. \A f \in Seq(Results) : f \in Seq(0 .. Unended)
  BY <1>1, SeqMonotonic
<1>. QED
  BY <1>1, <1>2 DEF Lines

\* A line added to a file gives a file.
LEMMA WithLineType ==
  ASSUME NEW f \in Lines, NEW line \in 0 .. Unended
  PROVE  WithLine(f, line) \in Lines
<1>1. CASE EndsShort(f)
  <2>1. f # <<>> /\ Len(f) \in Nat \ {0}
    BY <1>1, EmptySeq DEF EndsShort, Lines
  <2>2. \A i \in 1 .. Len(f) - 1 : f[i] \in 0 .. Unended
    <3>1. \A i \in 1 .. Len(f) : f[i] \in 0 .. Unended
      BY ElementOfSeq DEF Lines
    <3>. QED
      BY <3>1, <2>1
  <2>3. Front(f) \in Seq(0 .. Unended)
    <3>1. SubSeq(f, 1, Len(f) - 1) \in Seq(0 .. Unended)
      BY <2>1, <2>2, SubSeqProperties
    <3>. QED
      BY <3>1 DEF Front
  <2>4. (IF line = Unended THEN Unended ELSE Torn) \in 0 .. Unended
    BY ResultsAreLines
  <2>. QED
    BY <1>1, <2>3, <2>4, AppendProperties DEF WithLine, Lines
<1>2. CASE ~EndsShort(f)
  BY <1>2, AppendProperties DEF WithLine, Lines
<1>. QED
  BY <1>1, <1>2

\* What a compaction keeps of any file are results.
LEMMA KeptAreResults ==
  ASSUME NEW f \in Lines, NEW cutoff \in Nat
  PROVE  Newest(Since(Readable(f), cutoff), MaxRecords) \in Seq(Results)
<1> DEFINE I == {k \in DOMAIN f : f[k] \in Results}
           g == Picked(f, I)
           J == {k \in DOMAIN g : g[k] >= cutoff}
<1>1. DOMAIN f = 1 .. Len(f) /\ f \in Seq(0 .. Unended)
  BY LenProperties DEF Lines
<1>2. I \in SUBSET (1 .. Len(f)) /\ \A k \in I : f[k] \in Results
  BY <1>1
<1>3. g \in Seq(Results)
  <2> HIDE DEF I
  <2>. QED
    BY <1>1, <1>2, PickedType
<1>4. Readable(f) = g
  BY DEF Readable
<1> HIDE DEF g
<1>5. DOMAIN g = 1 .. Len(g) /\ \A k \in 1 .. Len(g) : g[k] \in Results
  BY <1>3, LenProperties, ElementOfSeq
<1>6. J \in SUBSET (1 .. Len(g)) /\ \A k \in J : g[k] \in Results
  BY <1>5
<1>7. Picked(g, J) \in Seq(Results)
  <2> HIDE DEF J
  <2>. QED
    BY <1>3, <1>6, PickedType
<1>8. Since(Readable(f), cutoff) = Picked(g, J)
  BY <1>4 DEF Since
<1>. QED
  BY <1>7, <1>8, NewestType, HistoryAssumption

\* Each step writes lines to the files.
LEMMA NextFilesAreLines ==
  ASSUME HistoryInv, FilesAreLines, HistoryNext
  PROVE  FilesAreLines'
<1>1. HistoryPlaces
  BY DEF HistoryInv
<1>2. file \in Lines /\ tmp \in Lines /\ kept \in Seq(Results)
  BY DEF FilesAreLines
<1>3. <<>> \in Lines /\ <<>> \in Seq(Results)
  BY EmptySeq DEF Lines
<1>4. WithLine(file, Unended) \in Lines
  BY <1>2, ResultsAreLines, WithLineType
<1>5. ASSUME NEW t \in Testers, Tests(t) \/ CleansUp(t) \/ LocksHistory(t) PROVE FilesAreLines'
  BY <1>2, <1>5 DEF Tests, CleansUp, LocksHistory, fileVars, FilesAreLines
<1>6. ASSUME NEW t \in Testers, AppendsLine(t) PROVE FilesAreLines'
  <2>1. result[t] \in 0 .. Unended
    BY <1>1, <1>6, ResultsAreLines DEF AppendsLine, HistoryPlaces
  <2>2. WithLine(file, result[t]) \in Lines
    BY <1>2, <2>1, WithLineType
  <2>. QED
    BY <1>2, <1>4, <1>6, <2>2 DEF AppendsLine, FilesAreLines
<1>7. ASSUME NEW t \in Testers, ReadsHistory(t) PROVE FilesAreLines'
  <2>1. \A cutoff \in 1 .. tests + 1 : cutoff \in Nat
    OBVIOUS
  <2>2. ASSUME NEW read \in {file} \cup {SubSeq(file, 1, n) : n \in 0 .. Len(file) - 1}
        PROVE  read \in Lines
    <3>1. ASSUME NEW n \in 0 .. Len(file) - 1 PROVE SubSeq(file, 1, n) \in Lines
      <4>1. \A i \in 1 .. n : file[i] \in 0 .. Unended
        <5>1. Len(file) \in Nat /\ \A i \in 1 .. Len(file) : file[i] \in 0 .. Unended
          BY <1>2, LenProperties, ElementOfSeq DEF Lines
        <5>. QED
          BY <5>1, <3>1
      <4>. QED
        BY <4>1, SubSeqProperties DEF Lines
    <3>. QED
      BY <1>2, <2>2, <3>1
  <2>3. kept' \in Seq(Results)
    BY <1>2, <1>7, <2>1, <2>2, KeptAreResults DEF ReadsHistory
  <2>. QED
    BY <1>2, <1>7, <2>3 DEF ReadsHistory, fileVars, FilesAreLines
<1>8. ASSUME NEW t \in Testers, OpensTmp(t) PROVE FilesAreLines'
  BY <1>2, <1>3, <1>8 DEF OpensTmp, FilesAreLines
<1>9. ASSUME NEW t \in Testers, FillsTmp(t) PROVE FilesAreLines'
  <2>1. kept \in Lines
    BY <1>2, ResultsAreLines
  <2>2. ASSUME NEW n \in 0 .. Len(kept) - 1
        PROVE  {SubSeq(kept, 1, n), Append(SubSeq(kept, 1, n), Unended)} \subseteq Lines
    <3>1. \A i \in 1 .. n : kept[i] \in 0 .. Unended
      <4>1. Len(kept) \in Nat /\ \A i \in 1 .. Len(kept) : kept[i] \in 0 .. Unended
        BY <2>1, LenProperties, ElementOfSeq DEF Lines
      <4>. QED
        BY <4>1, <2>2
    <3>2. SubSeq(kept, 1, n) \in Seq(0 .. Unended)
      BY <3>1, SubSeqProperties
    <3>. QED
      BY <3>2, ResultsAreLines, AppendProperties DEF Lines
  <2>. QED
    BY <1>2, <1>9, <2>1, <2>2 DEF FillsTmp, FilesAreLines
<1>10. ASSUME NEW t \in Testers, ReplacesFile(t) PROVE FilesAreLines'
  BY <1>2, <1>3, <1>10 DEF ReplacesFile, FilesAreLines
<1>11. CASE Killed
  BY <1>2, <1>3, <1>4, <1>11 DEF Killed, FilesAreLines
<1>. QED
  BY <1>5, <1>6, <1>7, <1>8, <1>9, <1>10, <1>11 DEF HistoryNext

\* The files hold lines and what a compaction has kept are results, whatever has
\* come up short and wherever the program was killed (history.go:246-354).
THEOREM HistoryIsTyped == HistorySpec => []HistoryTypeOK
<1>1. HistoryInit => FilesAreLines
  <2>1. <<>> \in Lines /\ <<>> \in Seq(Results)
    BY EmptySeq DEF Lines
  <2>. QED
    BY <2>1 DEF HistoryInit, FilesAreLines
<1>2. HistoryInv /\ FilesAreLines /\ [HistoryNext]_historyVars => FilesAreLines'
  <2>1. CASE HistoryNext
    BY <2>1, NextFilesAreLines
  <2>2. CASE UNCHANGED historyVars
    BY <2>2 DEF historyVars, fileVars, saveVars, FilesAreLines
  <2>. QED
    BY <2>1, <2>2
<1>3. HistoryInv /\ FilesAreLines => HistoryTypeOK
  BY DEF HistoryInv, HistoryPlaces, RecentAreHeld, FilesAreLines, HistoryTypeOK
<1>. QED
  BY <1>1, <1>2, <1>3, HistoryInvariant, PTL DEF HistorySpec

---------------------------------------------------------------------------
(* FlattenSeq                                                              *)

\* The sequences ss one after the other, up to the i-th.
FlattenedUpTo(ss, m, f) == f = [i \in 1 .. m |-> IF i = 1 THEN ss[i] ELSE f[i - 1] \o ss[i]]

\* The recursive function that FlattenSeq takes its value from exists.
LEMMA FlattenExists ==
  ASSUME NEW ss, NEW m \in Nat
  PROVE  \E f : FlattenedUpTo(ss, m, f)
<1> DEFINE I == {k \in 1 .. m : \E f : FlattenedUpTo(ss, k, f)}
<1>0. CASE m = 0
  <2> DEFINE f == [i \in 1 .. 0 |-> ss[i]]
  <2>1. FlattenedUpTo(ss, 0, f)
    BY DEF FlattenedUpTo
  <2>. QED
    BY <2>1, <1>0
<1>1. m # 0 => 1 \in I
  <2> DEFINE f == [i \in 1 .. 1 |-> ss[i]]
  <2>1. FlattenedUpTo(ss, 1, f)
    BY DEF FlattenedUpTo
  <2>. QED
    BY <2>1
<1>2. ASSUME NEW k \in 1 .. m, k \in I, k < m
      PROVE  k + 1 \in I
  <2>1. PICK f : FlattenedUpTo(ss, k, f)
    BY <1>2
  <2> DEFINE g == [i \in 1 .. k + 1 |-> IF i = k + 1 THEN f[k] \o ss[k + 1] ELSE f[i]]
  <2>2. ASSUME NEW i \in 1 .. k + 1
        PROVE  g[i] = IF i = 1 THEN ss[i] ELSE g[i - 1] \o ss[i]
    <3>1. CASE i = k + 1
      <4>1. i # 1 /\ i - 1 = k /\ k \in 1 .. k + 1 /\ k # k + 1
        BY <3>1
      <4>2. g[i] = f[k] \o ss[k + 1] /\ g[k] = f[k]
        BY <3>1, <4>1
      <4>. QED
        BY <3>1, <4>1, <4>2
    <3>2. CASE i # k + 1
      <4>1. i \in 1 .. k /\ g[i] = f[i]
        BY <3>2
      <4>2. f[i] = IF i = 1 THEN ss[i] ELSE f[i - 1] \o ss[i]
        BY <2>1, <4>1 DEF FlattenedUpTo
      <4>3. i # 1 => i - 1 \in 1 .. k + 1 /\ i - 1 # k + 1
        BY <4>1
      <4>4. i # 1 => g[i - 1] = f[i - 1]
        BY <4>3
      <4>. QED
        BY <4>1, <4>2, <4>4
    <3>. QED
      BY <3>1, <3>2
  <2>3. g = [i \in 1 .. k + 1 |-> g[i]]
    OBVIOUS
  <2> HIDE DEF g
  <2>4. FlattenedUpTo(ss, k + 1, g)
    BY <2>2, <2>3 DEF FlattenedUpTo
  <2>5. k + 1 \in 1 .. m
    BY <1>2
  <2>. QED
    BY <2>4, <2>5
<1>3. CASE m # 0
  <2>1. m \in 1 .. m
    BY <1>3
  <2>2. 1 .. m \subseteq I
    <3> HIDE DEF I
    <3>. QED
      BY <1>1, <1>2, FromOneOn
  <2>. QED
    BY <2>1, <2>2
<1>. QED
  BY <1>0, <1>3

\* FlattenSeq, one sequence after the other.
LEMMA FlattenSteps ==
  ASSUME NEW ss, Len(ss) \in Nat \ {0}
  PROVE  \E f : /\ FlattenSeq(ss) = f[Len(ss)] /\ f[1] = ss[1]
                /\ \A i \in 1 .. Len(ss) : i # 1 => f[i] = f[i - 1] \o ss[i]
<1> DEFINE f == CHOOSE f : FlattenedUpTo(ss, Len(ss), f)
<1>1. FlattenedUpTo(ss, Len(ss), f)
  BY FlattenExists
<1>2. FlattenSeq(ss) = f[Len(ss)]
  BY DEF FlattenSeq, FlattenedUpTo
<1> HIDE DEF f
<1>3. \A i \in 1 .. Len(ss) : f[i] = IF i = 1 THEN ss[i] ELSE f[i - 1] \o ss[i]
  BY <1>1 DEF FlattenedUpTo
<1>4. 1 \in 1 .. Len(ss)
  OBVIOUS
<1>. QED
  BY <1>2, <1>3, <1>4

\* Sequences over S one after the other are a sequence over S, whose elements
\* are theirs; none of them empty, it is at least as long as they are many.
LEMMA FlattenType ==
  ASSUME NEW S, NEW ss \in Seq(Seq(S))
  PROVE  /\ FlattenSeq(ss) \in Seq(S)
         /\ (\A i \in 1 .. Len(ss) : ss[i] # <<>>) => Len(FlattenSeq(ss)) >= Len(ss)
<1> DEFINE m == Len(ss)
<1>1. m \in Nat /\ \A i \in 1 .. m : ss[i] \in Seq(S)
  BY LenProperties, ElementOfSeq
<1>2. CASE m = 0
  <2>1. ss = <<>> /\ <<>> \in Seq(S)
    BY <1>2, EmptySeq
  <2>2. FlattenSeq(ss) = ss
    BY <1>2 DEF FlattenSeq
  <2>3. Len(FlattenSeq(ss)) >= Len(ss)
    BY <1>1, <2>2
  <2>. QED
    BY <2>1, <2>2, <2>3
<1>3. CASE m # 0
  <2>1. PICK f : /\ FlattenSeq(ss) = f[m] /\ f[1] = ss[1]
                 /\ \A i \in 1 .. m : i # 1 => f[i] = f[i - 1] \o ss[i]
    BY <1>1, <1>3, FlattenSteps
  <2> DEFINE long == \A i \in 1 .. m : ss[i] # <<>>
             I == {i \in 1 .. m : f[i] \in Seq(S) /\ (long => Len(f[i]) >= i)}
  <2>2. \A i \in 1 .. m : Len(ss[i]) \in Nat /\ (ss[i] # <<>> => Len(ss[i]) >= 1)
    BY <1>1, EmptySeq, LenProperties
  <2> HIDE DEF m
  <2>3. 1 \in I
    <3>1. 1 \in 1 .. m
      BY <1>1, <1>3
    <3>. QED
      BY <3>1, <2>1, <2>2, <1>1
  <2>4. ASSUME NEW k \in 1 .. m, k \in I, k < m
        PROVE  k + 1 \in I
    <3>1. k + 1 \in 1 .. m /\ k + 1 # 1 /\ (k + 1) - 1 = k
      BY <2>4, <1>1
    <3>2. f[k + 1] = f[k] \o ss[k + 1]
      BY <2>1, <3>1
    <3>3. f[k] \in Seq(S) /\ ss[k + 1] \in Seq(S) /\ Len(f[k]) \in Nat /\ Len(ss[k + 1]) \in Nat
      BY <2>4, <1>1, <2>2, <3>1, LenProperties
    <3>4. f[k + 1] \in Seq(S) /\ Len(f[k + 1]) = Len(f[k]) + Len(ss[k + 1])
      BY <3>2, <3>3, ConcatProperties
    <3>5. long => Len(f[k]) >= k /\ Len(ss[k + 1]) >= 1
      BY <2>2, <2>4, <3>1
    <3>6. long => Len(f[k + 1]) >= k + 1
      <4> SUFFICES ASSUME long PROVE Len(f[k + 1]) >= k + 1
        OBVIOUS
      <4>1. k \in Nat /\ Len(f[k]) >= k /\ Len(ss[k + 1]) >= 1
        BY <1>1, <3>5
      <4>2. ASSUME NEW a \in Nat, NEW b \in Nat, a >= k, b >= 1 PROVE a + b >= k + 1
        BY <4>1, <4>2
      <4>3. Len(f[k]) + Len(ss[k + 1]) >= k + 1
        BY <3>3, <4>1, <4>2
      <4>. QED
        BY <3>4, <4>3
    <3>. QED
      BY <3>1, <3>4, <3>6
  <2>5. m \in I
    <3>1. m \in 1 .. m
      BY <1>1, <1>3
    <3> HIDE DEF I
    <3>2. 1 .. m \subseteq I
      BY <2>3, <2>4, <1>1, FromOneOn
    <3>. QED
      BY <3>1, <3>2
  <2>. QED
    BY <2>1, <2>5 DEF m
<1>. QED
  BY <1>2, <1>3

\* One sequence by itself is what it is.
LEMMA FlattenOne ==
  ASSUME NEW ss, Len(ss) = 1
  PROVE  FlattenSeq(ss) = ss[1]
<1>1. Len(ss) \in Nat \ {0}
  OBVIOUS
<1>2. PICK f : FlattenSeq(ss) = f[Len(ss)] /\ f[1] = ss[1]
  BY <1>1, FlattenSteps
<1>. QED
  BY <1>2

---------------------------------------------------------------------------
(* The registry of commands                                                *)

\* The installed commands are known ones, and the tree and the aliases theirs.
RegistryInv ==
  /\ installed \in Seq(Known)
  /\ tree = TreeOf(installed) /\ alias = AliasesOf(installed)
  /\ callbacks \subseteq Bots /\ incoming \subseteq Bots
  /\ setting \in {"idle", "callbacks", "menu"}
  /\ menus \in Seq(SUBSET Seq(Tokens)) /\ Len(menus) <= MaxMenus

\* What a word of known tokens becomes for Telegram.
LEMMA SanitizedType ==
  ASSUME NEW word \in Seq(Tokens)
  PROVE  /\ Sanitized(word) \in Seq(Tokens)
         /\ (\A i \in DOMAIN word : Clean[word[i]] # <<>>) => Len(Sanitized(word)) >= Len(word)
         /\ Len(word) = 1 => Sanitized(word) = Clean[word[1]]
<1> DEFINE ss == [i \in DOMAIN word |-> Clean[word[i]]]
<1>1. Len(word) \in Nat /\ DOMAIN word = 1 .. Len(word) /\ \A i \in 1 .. Len(word) : word[i] \in Tokens
  BY LenProperties, ElementOfSeq
<1>2. \A t \in Tokens : Clean[t] \in Seq(Tokens)
  BY RegistryAssumption
<1>3. ss \in [1 .. Len(word) -> Seq(Tokens)]
  BY <1>1, <1>2
<1>4. ss \in Seq(Seq(Tokens)) /\ Len(ss) = Len(word)
  BY <1>1, <1>3, SeqDef, LenProperties
<1>5. \A i \in 1 .. Len(word) : ss[i] = Clean[word[i]]
  BY <1>1
<1>6. Sanitized(word) = FlattenSeq(ss)
  BY DEF Sanitized
<1> HIDE DEF ss
<1>7. FlattenSeq(ss) \in Seq(Tokens)
  BY <1>4, FlattenType
<1>8. (\A i \in 1 .. Len(word) : Clean[word[i]] # <<>>) => Len(FlattenSeq(ss)) >= Len(word)
  BY <1>4, <1>5, FlattenType
<1>9. Len(word) = 1 => FlattenSeq(ss) = Clean[word[1]]
  <2>1. Len(word) = 1 => ss[1] = Clean[word[1]]
    BY <1>5
  <2>. QED
    BY <2>1, <1>4, FlattenOne
<1>. QED
  BY <1>1, <1>6, <1>7, <1>8, <1>9

\* The name of a longer route is longer than a token, and that of a token of the
\* root is the token: who has an alias of its own is never called like a token
\* of the root.
LEMMA NameOfRoute ==
  ASSUME NEW c \in Known
  PROVE  /\ c.route \in Seq(Tokens) /\ Len(c.route) \in Nat \ {0}
         /\ TelegramName(c.route) \in Seq(Tokens)
         /\ Len(c.route) > 1 => NeedsAlias(c.route)
         /\ NeedsAlias(c.route) => Len(TelegramName(c.route)) > 1
         /\ Sanitized(<<c.route[1]>>) = <<c.route[1]>>
<1>1. c.route \in Seq(Tokens) /\ c.route # <<>>
  BY RegistryAssumption
<1>2. Len(c.route) \in Nat \ {0} /\ DOMAIN c.route = 1 .. Len(c.route)
  BY <1>1, EmptySeq, LenProperties
<1>3. c.route[1] \in Tokens
  BY <1>1, <1>2, ElementOfSeq
<1>4. Clean[c.route[1]] = <<c.route[1]>> /\ \A i \in DOMAIN c.route : Clean[c.route[i]] # <<>>
  BY RoutesAreClean
<1>5. TelegramName(c.route) \in Seq(Tokens) /\ Len(TelegramName(c.route)) >= Len(c.route)
  BY <1>1, <1>4, SanitizedType DEF TelegramName
<1>6. Len(c.route) = 1 => TelegramName(c.route) = c.route
  <2> SUFFICES ASSUME Len(c.route) = 1 PROVE TelegramName(c.route) = c.route
    OBVIOUS
  <2>1. TelegramName(c.route) = <<c.route[1]>>
    BY <1>1, <1>4, SanitizedType DEF TelegramName
  <2>2. <<c.route[1]>> \in Seq(Tokens) /\ Len(<<c.route[1]>>) = 1 /\ <<c.route[1]>>[1] = c.route[1]
    BY <1>3
  <2>3. c.route = <<c.route[1]>>
    BY <1>1, <2>2, SeqEqual
  <2>. QED
    BY <2>1, <2>3
<1>7. Len(TelegramName(c.route)) \in Nat
  BY <1>5, LenProperties
<1>8. Sanitized(<<c.route[1]>>) = <<c.route[1]>>
  <2>1. <<c.route[1]>> \in Seq(Tokens) /\ Len(<<c.route[1]>>) = 1 /\ <<c.route[1]>>[1] = c.route[1]
    BY <1>3
  <2>. QED
    BY <2>1, <1>4, SanitizedType
<1>9. Len(c.route) > 1 => NeedsAlias(c.route)
  BY DEF NeedsAlias
<1>10. NeedsAlias(c.route) => Len(TelegramName(c.route)) > 1
  <2> DEFINE n == Len(c.route)
             o == Len(TelegramName(c.route))
  <2>1. n \in Nat /\ n # 0 /\ o \in Nat /\ o >= n
    BY <1>2, <1>5, <1>7
  <2>2. ASSUME n = 1 PROVE ~NeedsAlias(c.route)
    <3>1. TelegramName(c.route) = c.route /\ ~(n > 1)
      BY <2>2, <1>6
    <3>. QED
      BY <3>1 DEF NeedsAlias
  <2> HIDE DEF n, o
  <2>3. n # 1 => o > 1
    BY <2>1
  <2>. QED
    BY <2>2, <2>3 DEF n, o
<1>. QED
  BY <1>1, <1>2, <1>5, <1>8, <1>9, <1>10

---------------------------------------------------------------------------
(* The tree and the aliases of some commands                               *)

NodesOf(cmds) == UNION {{SubSeq(c.route, 1, n) : n \in DOMAIN c.route} : c \in ToSet(cmds)}

\* The commands are known, and the routes of them have their beginnings in the
\* tree, which has a command of the route at each that is one.
LEMMA TreeType ==
  ASSUME NEW cmds \in Seq(Known)
  PROVE  /\ ToSet(cmds) \subseteq Known
         /\ DOMAIN TreeOf(cmds) = NodesOf(cmds)
         /\ \A r \in NodesOf(cmds) : TreeOf(cmds)[r] = NoCommand \/ TreeOf(cmds)[r].route = r
         /\ \A c \in ToSet(cmds) :
              /\ c.route \in NodesOf(cmds) /\ SubSeq(c.route, 1, 1) \in NodesOf(cmds)
              /\ TreeOf(cmds)[c.route] # NoCommand
<1> DEFINE At(r) == {i \in DOMAIN cmds : cmds[i].route = r}
<1>1. Len(cmds) \in Nat /\ DOMAIN cmds = 1 .. Len(cmds) /\ \A i \in 1 .. Len(cmds) : cmds[i] \in Known
  BY LenProperties, ElementOfSeq
<1>2. ToSet(cmds) \subseteq Known
  BY <1>1 DEF ToSet
<1>3. TreeOf(cmds) = [r \in NodesOf(cmds) |-> IF At(r) = {} THEN NoCommand ELSE cmds[Max(At(r))]]
  BY DEF TreeOf, NodesOf
<1>4. ASSUME NEW r, At(r) # {}
      PROVE  Max(At(r)) \in DOMAIN cmds /\ cmds[Max(At(r))].route = r
  <2>1. At(r) \in SUBSET (1 .. Len(cmds))
    BY <1>1
  <2>2. Max(At(r)) \in At(r)
    BY <2>1, <1>1, <1>4, MaxIsThere
  <2>. QED
    BY <2>2
<1> HIDE DEF At
<1>5. \A r \in NodesOf(cmds) : TreeOf(cmds)[r] = NoCommand \/ TreeOf(cmds)[r].route = r
  BY <1>3, <1>4
<1>6. ASSUME NEW c \in ToSet(cmds)
      PROVE  /\ c.route \in NodesOf(cmds) /\ SubSeq(c.route, 1, 1) \in NodesOf(cmds)
             /\ TreeOf(cmds)[c.route] # NoCommand
  <2>1. c.route \in Seq(Tokens) /\ Len(c.route) \in Nat \ {0}
    BY <1>2, NameOfRoute
  <2>2. DOMAIN c.route = 1 .. Len(c.route) /\ SubSeq(c.route, 1, Len(c.route)) = c.route
    BY <2>1, LenProperties, SubSeqFull
  <2>3. Len(c.route) \in DOMAIN c.route /\ 1 \in DOMAIN c.route
    BY <2>1, <2>2
  <2>4. c.route \in NodesOf(cmds) /\ SubSeq(c.route, 1, 1) \in NodesOf(cmds)
    <3>1. \A n \in DOMAIN c.route : SubSeq(c.route, 1, n) \in NodesOf(cmds)
      <4> DEFINE ofC == {SubSeq(c.route, 1, n) : n \in DOMAIN c.route}
                 ofAll == {{SubSeq(d.route, 1, n) : n \in DOMAIN d.route} : d \in ToSet(cmds)}
      <4>1. ofC \in ofAll
        OBVIOUS
      <4>2. ofC \subseteq UNION ofAll
        BY <4>1
      <4>3. NodesOf(cmds) = UNION ofAll
        BY DEF NodesOf
      <4>. QED
        BY <4>2, <4>3
    <3>. QED
      BY <3>1, <2>2, <2>3
  <2>5. At(c.route) # {}
    BY DEF At, ToSet
  <2>6. TreeOf(cmds)[c.route].route = c.route
    BY <2>4, <2>5, <1>3, <1>4
  <2>7. c.route # <<>>
    BY <1>2, RegistryAssumption
  <2>. QED
    BY <2>4, <2>6, <2>7 DEF NoCommand
<1>. QED
  BY <1>2, <1>3, <1>5, <1>6

\* Each name given is an alias, each Telegram name made for a route is, and each
\* alias is one or the other, or the clean form of one given; it stands for the
\* route of one of the commands, and a name that one command alone is given for
\* the route of that one.
LEMMA AliasType ==
  ASSUME NEW cmds \in Seq(Known)
  PROVE  /\ \A w \in DOMAIN AliasesOf(cmds) :
              /\ \E c \in ToSet(cmds) : AliasesOf(cmds)[w] = c.route
              /\ \/ \E c \in ToSet(cmds) : w \in c.aliases \cup {Sanitized(a) : a \in c.aliases}
                 \/ \E c \in ToSet(cmds) : NeedsAlias(c.route) /\ w = TelegramName(c.route)
         /\ \A c \in ToSet(cmds) :
              /\ NeedsAlias(c.route) => TelegramName(c.route) \in DOMAIN AliasesOf(cmds)
              /\ \A w \in c.aliases :
                   /\ w \in DOMAIN AliasesOf(cmds)
                   /\ (\A d \in ToSet(cmds) \ {c} : w \notin d.aliases) => AliasesOf(cmds)[w] = c.route
<1> DEFINE given == UNION {{<<w, i>> : w \in cmds[i].aliases} : i \in DOMAIN cmds}
           auto == {<<Sanitized(g[1]), g[2]>> : g \in given} \cup
                   {<<TelegramName(cmds[i].route), i>> :
                      i \in {i \in DOMAIN cmds : NeedsAlias(cmds[i].route)}}
           By(names, w) == {n[2] : n \in {n \in names : n[1] = w}}
           words == {n[1] : n \in given \cup auto}
<1>1. Len(cmds) \in Nat /\ DOMAIN cmds = 1 .. Len(cmds) /\ \A i \in 1 .. Len(cmds) : cmds[i] \in ToSet(cmds)
  BY LenProperties DEF ToSet
<1>2. AliasesOf(cmds) = [w \in words |->
        cmds[IF By(given, w) # {} THEN Max(By(given, w)) ELSE Min(By(auto, w))].route]
  BY DEF AliasesOf
<1>3. \A g \in given : \E i \in 1 .. Len(cmds) : \E w \in cmds[i].aliases : g = <<w, i>>
  BY <1>1
<1>4. \A i \in 1 .. Len(cmds) : \A w \in cmds[i].aliases : <<w, i>> \in given
  BY <1>1
<1> HIDE DEF given
<1>5. \A g \in auto : \E i \in 1 .. Len(cmds) :
         \/ \E w \in cmds[i].aliases : g = <<Sanitized(w), i>>
         \/ NeedsAlias(cmds[i].route) /\ g = <<TelegramName(cmds[i].route), i>>
  <2> SUFFICES ASSUME NEW g \in auto
               PROVE  \E i \in 1 .. Len(cmds) :
                        \/ \E w \in cmds[i].aliases : g = <<Sanitized(w), i>>
                        \/ NeedsAlias(cmds[i].route) /\ g = <<TelegramName(cmds[i].route), i>>
    OBVIOUS
  <2>1. CASE g \in {<<Sanitized(n[1]), n[2]>> : n \in given}
    <3>1. PICK n \in given : g = <<Sanitized(n[1]), n[2]>>
      BY <2>1
    <3>2. PICK i \in 1 .. Len(cmds) : \E w \in cmds[i].aliases : n = <<w, i>>
      BY <1>3
    <3>. QED
      BY <3>1, <3>2
  <2>2. CASE g \in {<<TelegramName(cmds[i].route), i>> : i \in {i \in DOMAIN cmds : NeedsAlias(cmds[i].route)}}
    BY <2>2, <1>1
  <2>. QED
    BY <2>1, <2>2
<1>6. \A i \in 1 .. Len(cmds) : NeedsAlias(cmds[i].route) => <<TelegramName(cmds[i].route), i>> \in auto
  BY <1>1
<1> HIDE DEF auto
<1>7. ASSUME NEW names, names \in {given, auto}, NEW w
      PROVE  /\ By(names, w) \in SUBSET (1 .. Len(cmds))
             /\ \A i \in By(names, w) : <<w, i>> \in names
  <2> SUFFICES ASSUME NEW n \in names, n[1] = w
               PROVE  n[2] \in 1 .. Len(cmds) /\ <<w, n[2]>> \in names
    OBVIOUS
  <2>1. PICK i \in 1 .. Len(cmds) : \E a : n = <<a, i>>
    BY <1>3, <1>5, <1>7
  <2>. QED
    BY <2>1
<1>8. ASSUME NEW names, NEW w, NEW i, <<w, i>> \in names
      PROVE  i \in By(names, w)
  BY <1>8
<1> HIDE DEF By
<1>9. ASSUME NEW w \in words
      PROVE  /\ By(given, w) # {} => Max(By(given, w)) \in By(given, w)
             /\ By(given, w) = {} => By(auto, w) # {} /\ Min(By(auto, w)) \in By(auto, w)
  <2>1. By(given, w) \in SUBSET (1 .. Len(cmds)) /\ By(auto, w) \in SUBSET (1 .. Len(cmds))
    BY <1>7
  <2>2. By(given, w) # {} => Max(By(given, w)) \in By(given, w)
    BY <2>1, <1>1, MaxIsThere
  <2>3. By(given, w) # {} \/ By(auto, w) # {}
    <3>1. PICK n \in given \cup auto : w = n[1]
      OBVIOUS
    <3>2. PICK i \in 1 .. Len(cmds) : \E a : n = <<a, i>>
      BY <1>3, <1>5
    <3>. QED
      BY <3>1, <3>2, <1>8
  <2>4. By(auto, w) \in SUBSET (Nat \ {0})
    BY <2>1
  <2>5. By(auto, w) # {} => Min(By(auto, w)) \in By(auto, w)
    BY <2>4, MinIsThere
  <2>. QED
    BY <2>2, <2>3, <2>5
<1>10. \A i \in 1 .. Len(cmds) : \A w \in cmds[i].aliases : w \in words
  <2>1. \A n \in given : n[1] \in words
    OBVIOUS
  <2> HIDE DEF words
  <2> SUFFICES ASSUME NEW i \in 1 .. Len(cmds), NEW w \in cmds[i].aliases PROVE w \in words
    OBVIOUS
  <2>2. <<w, i>> \in given /\ <<w, i>>[1] = w
    BY <1>4
  <2>. QED
    BY <2>1, <2>2
<1>11. \A i \in 1 .. Len(cmds) : NeedsAlias(cmds[i].route) => TelegramName(cmds[i].route) \in words
  <2>1. \A n \in auto : n[1] \in words
    OBVIOUS
  <2> HIDE DEF words
  <2> SUFFICES ASSUME NEW i \in 1 .. Len(cmds), NeedsAlias(cmds[i].route)
               PROVE  TelegramName(cmds[i].route) \in words
    OBVIOUS
  <2> DEFINE g == <<TelegramName(cmds[i].route), i>>
  <2>2. g \in auto /\ g[1] = TelegramName(cmds[i].route)
    BY <1>6
  <2>. QED
    BY <2>1, <2>2
<1>12. ASSUME NEW w \in words
       PROVE  \/ \E c \in ToSet(cmds) : w \in c.aliases \cup {Sanitized(a) : a \in c.aliases}
              \/ \E c \in ToSet(cmds) : NeedsAlias(c.route) /\ w = TelegramName(c.route)
  <2>1. PICK n \in given \cup auto : w = n[1]
    OBVIOUS
  <2>2. CASE n \in given
    <3>1. PICK i \in 1 .. Len(cmds) : \E a \in cmds[i].aliases : n = <<a, i>>
      BY <2>2, <1>3
    <3>. QED
      BY <2>1, <3>1, <1>1
  <2>3. CASE n \in auto
    <3>1. PICK i \in 1 .. Len(cmds) :
             \/ \E a \in cmds[i].aliases : n = <<Sanitized(a), i>>
             \/ NeedsAlias(cmds[i].route) /\ n = <<TelegramName(cmds[i].route), i>>
      BY <2>3, <1>5
    <3>. QED
      BY <2>1, <3>1, <1>1
  <2>. QED
    BY <2>2, <2>3
<1> HIDE DEF words
<1>13. ASSUME NEW w \in words
       PROVE  \E c \in ToSet(cmds) : AliasesOf(cmds)[w] = c.route
  <2> DEFINE i == IF By(given, w) # {} THEN Max(By(given, w)) ELSE Min(By(auto, w))
  <2>1. i \in 1 .. Len(cmds)
    BY <1>7, <1>9
  <2>2. AliasesOf(cmds)[w] = cmds[i].route
    BY <1>2
  <2> HIDE DEF i
  <2>. QED
    BY <2>1, <2>2, <1>1
<1>14. ASSUME NEW c \in ToSet(cmds), NEW w \in c.aliases
       PROVE  w \in words /\ ((\A d \in ToSet(cmds) \ {c} : w \notin d.aliases) => AliasesOf(cmds)[w] = c.route)
  <2>1. PICK j \in 1 .. Len(cmds) : cmds[j] = c
    BY <1>1 DEF ToSet
  <2>2. w \in words /\ j \in By(given, w)
    BY <2>1, <1>4, <1>8, <1>10
  <2> DEFINE i == Max(By(given, w))
  <2>3. i \in 1 .. Len(cmds) /\ <<w, i>> \in given
    BY <2>2, <1>7, <1>9
  <2>4. AliasesOf(cmds)[w] = cmds[i].route
    BY <2>2, <1>2
  <2> HIDE DEF i
  <2>5. w \in cmds[i].aliases
    BY <2>3, <1>3
  <2>. QED
    BY <2>2, <2>3, <2>4, <2>5, <1>1
<1>15. ASSUME NEW c \in ToSet(cmds), NeedsAlias(c.route)
       PROVE  TelegramName(c.route) \in words
  <2>1. PICK j \in 1 .. Len(cmds) : cmds[j] = c
    BY <1>1 DEF ToSet
  <2>. QED
    BY <2>1, <1>11, <1>15
<1>16. DOMAIN AliasesOf(cmds) = words
  BY <1>2
<1>. QED
  BY <1>12, <1>13, <1>14, <1>15, <1>16

\* The alias of a word leads to a node with a command, so whatever is an alias
\* leads somewhere.
LEMMA AliasLeads ==
  ASSUME RegistryInv, NEW w \in DOMAIN alias, NEW args
  PROVE  Node(w, args) = alias[w] /\ alias[w] # <<>>
<1>1. installed \in Seq(Known) /\ tree = TreeOf(installed) /\ alias = AliasesOf(installed)
  BY DEF RegistryInv
<1>2. PICK c \in ToSet(installed) : alias[w] = c.route
  BY <1>1, AliasType
<1>3. c \in Known /\ tree[c.route] # NoCommand
  BY <1>1, TreeType
<1>4. c.route # <<>>
  BY <1>3, RegistryAssumption
<1>. QED
  BY <1>2, <1>3, <1>4 DEF Node

\* A token of the root that is no alias leads down the tree along the arguments,
\* as far as there are nodes.
LEMMA RouteLeads ==
  ASSUME RegistryInv, NEW c \in ToSet(installed), SubSeq(c.route, 1, 1) \notin DOMAIN alias
  PROVE  /\ Node(SubSeq(c.route, 1, 1), Tail(c.route)) = c.route
         /\ Node(SubSeq(c.route, 1, 1), <<>>) # <<>>
<1> DEFINE r == c.route
           w == SubSeq(r, 1, 1)
<1>1. installed \in Seq(Known) /\ tree = TreeOf(installed)
  BY DEF RegistryInv
<1>2. c \in Known /\ r \in DOMAIN tree /\ w \in DOMAIN tree
  BY <1>1, TreeType
<1>3. r \in Seq(Tokens) /\ Len(r) \in Nat \ {0} /\ r # <<>>
  BY <1>2, NameOfRoute, RegistryAssumption
<1> HIDE DEF r
<1>4. 1 \in 1 .. Len(r) /\ Len(r) \in 1 .. Len(r)
  BY <1>3
<1>5. w \in Seq(Tokens) /\ Len(w) = 1 /\ Tail(r) = SubSeq(r, 2, Len(r))
  <2>1. \A i \in 1 .. 1 : r[i] \in Tokens
    BY <1>3, <1>4, ElementOfSeq
  <2>2. w \in Seq(Tokens) /\ Len(w) = 1
    BY <2>1, SubSeqProperties
  <2>. QED
    BY <2>2, <1>3, TailIsSubSeq
<1>6. Tail(r) \in Seq(Tokens) /\ Len(Tail(r)) = Len(r) - 1
  BY <1>3, HeadTailProperties
<1> HIDE DEF w
<1> DEFINE Path(n) == w \o SubSeq(Tail(r), 1, n)
<1>7. ASSUME NEW n \in 0 .. Len(Tail(r))
      PROVE  Path(n) \in Seq(Tokens) /\ Len(Path(n)) = 1 + n
  <2>1. Len(Tail(r)) \in Nat /\ \A i \in 1 .. Len(Tail(r)) : Tail(r)[i] \in Tokens
    BY <1>6, LenProperties, ElementOfSeq
  <2>2. SubSeq(Tail(r), 1, n) \in Seq(Tokens) /\ Len(SubSeq(Tail(r), 1, n)) = n
    <3>1. \A i \in 1 .. n : Tail(r)[i] \in Tokens
      BY <2>1
    <3>2. /\ SubSeq(Tail(r), 1, n) \in Seq(Tokens)
          /\ Len(SubSeq(Tail(r), 1, n)) = IF 1 <= n THEN n - 1 + 1 ELSE 0
      BY <3>1, SubSeqProperties
    <3>. QED
      BY <3>2
  <2>. QED
    BY <2>2, <1>5, ConcatProperties
<1>8. Path(0) = w
  <2>1. SubSeq(Tail(r), 1, 0) = <<>>
    BY SubSeqEmpty
  <2>. QED
    BY <2>1, <1>5, ConcatEmptySeq
<1>9. Path(Len(Tail(r))) = r
  <2>1. SubSeq(Tail(r), 1, Len(Tail(r))) = Tail(r)
    BY <1>6, SubSeqFull
  <2>2. w = SubSeq(r, 1, 1) /\ 1 \in 1 .. Len(r) + 1 /\ 1 \in 1 - 1 .. Len(r) /\ Len(r) \in 1 .. Len(r)
    BY <1>3 DEF w
  <2>3. SubSeq(r, 1, 1) \o SubSeq(r, 1 + 1, Len(r)) = SubSeq(r, 1, Len(r))
    BY <2>2, <1>3, ConcatAdjacentSubSeq
  <2>4. SubSeq(r, 1, Len(r)) = r
    BY <1>3, SubSeqFull
  <2>. QED
    BY <2>1, <2>2, <2>3, <2>4, <1>5
<1> DEFINE Paths(args) == {w \o SubSeq(args, 1, n) : n \in 0 .. Len(args)} \cap DOMAIN tree
           Longest(args) == CHOOSE p \in Paths(args) : \A q \in Paths(args) : Len(q) <= Len(p)
<1>10. ASSUME NEW args, w \in Paths(args)
       PROVE  Node(w, args) = Longest(args)
  <2>1. w \notin DOMAIN alias
    BY DEF w, r
  <2>. QED
    BY <2>1, <1>5, <1>10 DEF Node
<1>11. Node(w, Tail(r)) = r
  <2>1. Len(Tail(r)) \in Nat /\ 0 \in 0 .. Len(Tail(r)) /\ Len(Tail(r)) \in 0 .. Len(Tail(r))
    BY <1>6, LenProperties
  <2>2. \A p \in Paths(Tail(r)) : \E n \in 0 .. Len(Tail(r)) : p = Path(n)
    OBVIOUS
  <2>3. w \in Paths(Tail(r)) /\ r \in Paths(Tail(r))
    <3> HIDE DEF r
    <3>1. \A n \in 0 .. Len(Tail(r)) : Path(n) \in DOMAIN tree => Path(n) \in Paths(Tail(r))
      OBVIOUS
    <3> HIDE DEF Paths, Path
    <3>. QED
      BY <3>1, <2>1, <1>2, <1>8, <1>9
  <2>4. Node(w, Tail(r)) = Longest(Tail(r))
    BY <2>3, <1>10
  <2> HIDE DEF Paths, Path
  <2>5. \A p \in Paths(Tail(r)) : Len(p) <= Len(r) /\ (Len(p) = Len(r) => p = r)
    <3> SUFFICES ASSUME NEW p \in Paths(Tail(r))
                 PROVE  Len(p) <= Len(r) /\ (Len(p) = Len(r) => p = r)
      OBVIOUS
    <3>1. PICK n \in 0 .. Len(Tail(r)) : p = Path(n)
      BY <2>2
    <3>2. Len(p) = 1 + n /\ Len(r) = 1 + Len(Tail(r))
      BY <3>1, <1>3, <1>6, <1>7
    <3>3. Len(p) = Len(r) => n = Len(Tail(r))
      BY <3>2, <2>1
    <3>. QED
      BY <3>1, <3>2, <3>3, <1>9, <2>1
  <2>6. \A p \in Paths(Tail(r)) : Len(p) \in Nat /\ Len(r) \in Nat
    BY <2>2, <1>3, <1>7
  <2>7. \A p \in Paths(Tail(r)) : (\A q \in Paths(Tail(r)) : Len(q) <= Len(p)) => p = r
    BY <2>3, <2>5, <2>6
  <2>8. \A q \in Paths(Tail(r)) : Len(q) <= Len(r)
    BY <2>5
  <2>9. Longest(Tail(r)) = r
    BY <2>3, <2>7, <2>8
  <2>. QED
    BY <2>4, <2>9
<1>12. Node(w, <<>>) # <<>>
  <2>1. \A n \in 0 .. Len(<<>>) : n = 0
    BY EmptySeq
  <2>2. w \o SubSeq(<<>>, 1, 0) = w
    <3>1. SubSeq(<<>>, 1, 0) = <<>>
      BY SubSeqEmpty
    <3>. QED
      BY <3>1, <1>5, ConcatEmptySeq
  <2>3. 0 \in 0 .. Len(<<>>)
    BY EmptySeq
  <2>4. Paths(<<>>) = {w}
    BY <2>1, <2>2, <2>3, <1>2 DEF w
  <2>5. Longest(<<>>) = w
    <3> HIDE DEF Paths
    <3>1. Len(w) <= Len(w)
      BY <1>5
    <3>. QED
      BY <2>4, <3>1
  <2>6. w # <<>>
    BY <1>5, EmptySeq
  <2>. QED
    BY <2>4, <2>5, <2>6, <1>10
<1>. QED
  BY <1>11, <1>12 DEF w, r

\* The names that the menu lists.
LEMMA MenuType ==
  ASSUME NEW cmds \in Seq(Known)
  PROVE  /\ MenuOf(cmds) \subseteq Seq(Tokens)
         /\ \A word \in MenuOf(cmds) :
              \/ \E c \in ToSet(cmds) : word = SubSeq(c.route, 1, 1)
              \/ \E c \in ToSet(cmds) : word = TelegramName(c.route) /\ NeedsAlias(c.route)
<1> SUFFICES ASSUME NEW word \in MenuOf(cmds)
             PROVE  /\ word \in Seq(Tokens)
                    /\ \/ \E c \in ToSet(cmds) : word = SubSeq(c.route, 1, 1)
                       \/ \E c \in ToSet(cmds) : word = TelegramName(c.route) /\ NeedsAlias(c.route)
  OBVIOUS
<1>1. ToSet(cmds) \subseteq Known /\ DOMAIN TreeOf(cmds) = NodesOf(cmds)
  BY TreeType
<1>2. CASE word \in {TelegramName(c.route) : c \in {c \in ToSet(cmds) : Len(c.route) > 1}}
  <2>1. PICK c \in ToSet(cmds) : Len(c.route) > 1 /\ word = TelegramName(c.route)
    BY <1>2
  <2>. QED
    BY <2>1, <1>1, NameOfRoute
<1>3. CASE word \in {Sanitized(r) : r \in {r \in DOMAIN TreeOf(cmds) : Len(r) = 1}}
  <2>1. PICK r \in NodesOf(cmds) : Len(r) = 1 /\ word = Sanitized(r)
    BY <1>1, <1>3
  <2>2. PICK c \in ToSet(cmds) : \E n \in DOMAIN c.route : r = SubSeq(c.route, 1, n)
    BY <2>1 DEF NodesOf
  <2>3. PICK n \in DOMAIN c.route : r = SubSeq(c.route, 1, n)
    BY <2>2
  <2>4. /\ c \in Known /\ c.route \in Seq(Tokens)
        /\ Len(c.route) \in Nat \ {0} /\ Sanitized(<<c.route[1]>>) = <<c.route[1]>>
    BY <1>1, NameOfRoute
  <2>5. DOMAIN c.route = 1 .. Len(c.route) /\ \A i \in 1 .. Len(c.route) : c.route[i] \in Tokens
    BY <2>4, LenProperties, ElementOfSeq
  <2>6. n \in Nat /\ n >= 1 /\ \A i \in 1 .. n : c.route[i] \in Tokens
    BY <2>3, <2>4, <2>5
  <2>7. Len(r) = (IF 1 <= n THEN n - 1 + 1 ELSE 0)
    BY <2>3, <2>6, SubSeqProperties
  <2>8. n = 1
    BY <2>1, <2>6, <2>7
  <2>9. r = SubSeq(c.route, 1, 1) /\ r \in Seq(Tokens) /\ r[1] = c.route[1]
    <3>1. /\ SubSeq(c.route, 1, 1) \in Seq(Tokens)
          /\ \A i \in 1 .. 1 - 1 + 1 : SubSeq(c.route, 1, 1)[i] = c.route[1 + i - 1]
      BY <2>6, <2>8, SubSeqProperties
    <3>. QED
      BY <2>3, <2>8, <3>1
  <2>10. r = <<c.route[1]>>
    <3>1. /\ <<c.route[1]>> \in Seq(Tokens) /\ Len(<<c.route[1]>>) = 1
          /\ <<c.route[1]>>[1] = c.route[1]
      BY <2>6, <2>8
    <3>2. \A i \in 1 .. Len(r) : r[i] = <<c.route[1]>>[i]
      BY <3>1, <2>1, <2>9
    <3> DEFINE one == <<c.route[1]>>
    <3>3. one \in Seq(Tokens) /\ Len(r) = Len(one) /\ \A i \in 1 .. Len(r) : r[i] = one[i]
      BY <3>1, <3>2, <2>1
    <3> HIDE DEF one
    <3>4. r = one
      BY <3>3, <2>9, SeqEqual
    <3>. QED
      BY <3>4 DEF one
  <2>. QED
    BY <2>1, <2>4, <2>9, <2>10
<1>. QED
  BY <1>2, <1>3 DEF MenuOf

\* What has been built from known commands reaches each of them.
LEMMA BuiltReaches == RegistryInv => CommandsReachable
<1> SUFFICES ASSUME RegistryInv PROVE CommandsReachable
  OBVIOUS
<1> DEFINE all == ToSet(installed)
           given == UNION {c.aliases \cup {Sanitized(w) : w \in c.aliases} : c \in all}
<1>1. /\ installed \in Seq(Known) /\ tree = TreeOf(installed) /\ alias = AliasesOf(installed)
      /\ all \subseteq Known
  BY TreeType DEF RegistryInv
<1>2. ASSUME NEW c \in all
      PROVE  Len(SubSeq(c.route, 1, 1)) = 1
  <2>1. c.route \in Seq(Tokens) /\ Len(c.route) \in Nat \ {0}
    BY <1>1, NameOfRoute
  <2>2. \A i \in 1 .. 1 : c.route[i] \in Tokens
    BY <2>1, ElementOfSeq
  <2>3. Len(SubSeq(c.route, 1, 1)) = (IF 1 <= 1 THEN 1 - 1 + 1 ELSE 0)
    BY <2>2, SubSeqProperties
  <2>. QED
    BY <2>3
<1>3. ASSUME NEW c \in all, SubSeq(c.route, 1, 1) \notin given
      PROVE  SubSeq(c.route, 1, 1) \notin DOMAIN alias
  <2> SUFFICES ASSUME SubSeq(c.route, 1, 1) \in DOMAIN alias PROVE FALSE
    OBVIOUS
  <2>1. PICK d \in all : NeedsAlias(d.route) /\ SubSeq(c.route, 1, 1) = TelegramName(d.route)
    <3>1. \A d \in all : SubSeq(c.route, 1, 1) \notin d.aliases \cup {Sanitized(a) : a \in d.aliases}
      BY <1>3
    <3> DEFINE w == SubSeq(c.route, 1, 1)
    <3>2. \/ \E d \in all : w \in d.aliases \cup {Sanitized(a) : a \in d.aliases}
          \/ \E d \in all : NeedsAlias(d.route) /\ w = TelegramName(d.route)
      <4>1. w \in DOMAIN AliasesOf(installed)
        BY <1>1
      <4> HIDE DEF w
      <4>. QED
        BY <4>1, <1>1, AliasType
    <3>. QED
      BY <3>1, <3>2
  <2>2. Len(TelegramName(d.route)) > 1
    BY <2>1, <1>1, NameOfRoute
  <2>3. Len(TelegramName(d.route)) = 1
    BY <2>1, <1>2
  <2>. QED
    BY <2>2, <2>3
<1>4. \A c \in all : SubSeq(c.route, 1, 1) \notin given =>
        Node(SubSeq(c.route, 1, 1), Tail(c.route)) = c.route
  BY <1>3, RouteLeads
<1>5. ASSUME NEW c \in all, NEW w \in c.aliases, \A d \in all \ {c} : w \notin d.aliases
      PROVE  Node(w, <<>>) = c.route
  <2>1. w \in DOMAIN alias /\ alias[w] = c.route
    BY <1>1, <1>5, AliasType
  <2>. QED
    BY <2>1, AliasLeads
<1>6. ASSUME NEW word \in MenuOf(installed)
      PROVE  Node(word, <<>>) # <<>>
  <2>1. CASE word \in DOMAIN alias
    BY <2>1, AliasLeads
  <2>2. CASE word \notin DOMAIN alias
    <3>1. \A c \in all : NeedsAlias(c.route) => TelegramName(c.route) \in DOMAIN alias
      BY <1>1, AliasType
    <3>2. PICK c \in all : word = SubSeq(c.route, 1, 1)
      BY <3>1, <2>2, <1>1, <1>6, MenuType
    <3>. QED
      BY <3>2, <2>2, RouteLeads
  <2>. QED
    BY <2>1, <2>2
<1>. QED
  BY <1>4, <1>5, <1>6 DEF CommandsReachable

\* Whatever plugins run, in whatever order, their commands are known ones.
LEMMA CollectedType ==
  ASSUME NEW plugins \in SUBSET Bots, NEW order \in SetToSeqs(plugins)
  PROVE  Collected(order) \in Seq(Known)
<1> DEFINE ss == [i \in DOMAIN order |-> Commands[order[i]]]
<1>1. Cardinality(plugins) \in Nat
  BY RegistryAssumption, FS_Subset, FS_CardinalityType
<1>2. order \in [1 .. Cardinality(plugins) -> plugins]
  BY DEF SetToSeqs
<1>3. ss \in [1 .. Cardinality(plugins) -> Seq(Known)]
  <2>1. \A i \in 1 .. Cardinality(plugins) : order[i] \in Bots
    BY <1>2
  <2>. QED
    BY <2>1, <1>2, RegistryAssumption
<1>4. ss \in Seq(Seq(Known))
  BY <1>1, <1>3, SeqDef
<1> HIDE DEF ss
<1>5. FlattenSeq(ss) \in Seq(Known)
  BY <1>4, FlattenType
<1>6. HelpCommand \in Known
  BY DEF Known
<1>. QED
  BY <1>5, <1>6, AppendProperties DEF Collected, ss

\* Without commands there is neither node nor alias.
LEMMA InitRegistryInv == RegistryInit => RegistryInv
<1> SUFFICES ASSUME RegistryInit PROVE RegistryInv
  OBVIOUS
<1>1. <<>> \in Seq(Known) /\ DOMAIN <<>> = {} /\ ToSet(<<>>) = {}
  BY EmptySeq, LenProperties DEF ToSet
<1>2. TreeOf(<<>>) = <<>>
  BY <1>1 DEF TreeOf
<1>3. AliasesOf(<<>>) = <<>>
  <2>1. DOMAIN AliasesOf(<<>>) = {}
    <3>1. \A w \in DOMAIN AliasesOf(<<>>) : \E c \in ToSet(<<>>) : AliasesOf(<<>>)[w] = c.route
      BY <1>1, AliasType
    <3>. QED
      BY <3>1, <1>1
  <2>2. AliasesOf(<<>>) = [w \in DOMAIN AliasesOf(<<>>) |-> AliasesOf(<<>>)[w]]
    BY DEF AliasesOf
  <2>. QED
    BY <2>1, <2>2
<1>4. <<>> \in Seq(SUBSET Seq(Tokens)) /\ Len(<<>>) = 0
  BY EmptySeq
<1>. QED
  BY <1>1, <1>2, <1>3, <1>4, RegistryAssumption DEF RegistryInit, RegistryInv

\* Each step builds the tree and the aliases from the commands it installs, or
\* leaves all three.
LEMMA NextRegistryInv == RegistryInv /\ [RegistryNext]_registryVars => RegistryInv'
<1> SUFFICES ASSUME RegistryInv, [RegistryNext]_registryVars PROVE RegistryInv'
  OBVIOUS
<1>1. CASE SetRegistry
  <2>1. PICK plugins \in SUBSET Bots :
          /\ incoming' = plugins
          /\ \E order \in SetToSeqs(plugins) :
               /\ installed' = Collected(order)
               /\ tree' = TreeOf(installed') /\ alias' = AliasesOf(installed')
    BY <1>1 DEF SetRegistry
  <2>2. installed' \in Seq(Known) /\ tree' = TreeOf(installed') /\ alias' = AliasesOf(installed')
    BY <2>1, CollectedType
  <2>3. setting' = "callbacks" /\ UNCHANGED <<callbacks, menus>>
    BY <1>1 DEF SetRegistry
  <2>. QED
    BY <2>1, <2>2, <2>3 DEF RegistryInv
<1>2. CASE SetCallbacks
  BY <1>2 DEF SetCallbacks, RegistryInv
<1>3. CASE SendMenu
  <2>1. /\ menus' = Append(menus, MenuOf(installed)) /\ setting' = "idle" /\ incoming' = {}
        /\ Len(menus) < MaxMenus /\ UNCHANGED <<installed, tree, alias, callbacks>>
    BY <1>3 DEF SendMenu
  <2>2. MenuOf(installed) \in SUBSET Seq(Tokens) /\ menus \in Seq(SUBSET Seq(Tokens))
    BY MenuType DEF RegistryInv
  <2>3. menus' \in Seq(SUBSET Seq(Tokens)) /\ Len(menus') = Len(menus) + 1 /\ Len(menus) \in Nat
    BY <2>1, <2>2, AppendProperties, LenProperties
  <2>4. Len(menus') <= MaxMenus
    BY <2>1, <2>3, RegistryAssumption
  <2>. QED
    BY <2>1, <2>3, <2>4 DEF RegistryInv
<1>4. CASE MenuArrives
  <2>1. PICK i \in DOMAIN menus : menus' = RemoveAt(menus, i)
    BY <1>4 DEF MenuArrives
  <2>2. UNCHANGED <<installed, tree, alias, callbacks, setting, incoming>>
    BY <1>4 DEF MenuArrives
  <2>3. menus \in Seq(SUBSET Seq(Tokens)) /\ Len(menus) \in Nat /\ i \in 1 .. Len(menus)
        /\ \A k \in 1 .. Len(menus) : menus[k] \in SUBSET Seq(Tokens)
    BY <2>1, LenProperties, ElementOfSeq DEF RegistryInv
  <2>4. /\ SubSeq(menus, 1, i - 1) \in Seq(SUBSET Seq(Tokens))
        /\ Len(SubSeq(menus, 1, i - 1)) = i - 1
    <3>1. \A k \in 1 .. i - 1 : menus[k] \in SUBSET Seq(Tokens)
      BY <2>3
    <3>2. /\ SubSeq(menus, 1, i - 1) \in Seq(SUBSET Seq(Tokens))
          /\ Len(SubSeq(menus, 1, i - 1)) = IF 1 <= i - 1 THEN (i - 1) - 1 + 1 ELSE 0
      BY <3>1, <2>3, SubSeqProperties
    <3>. QED
      BY <3>2, <2>3
  <2>5. /\ SubSeq(menus, i + 1, Len(menus)) \in Seq(SUBSET Seq(Tokens))
        /\ Len(SubSeq(menus, i + 1, Len(menus))) = Len(menus) - i
    <3>1. \A k \in i + 1 .. Len(menus) : menus[k] \in SUBSET Seq(Tokens)
      BY <2>3
    <3>2. /\ SubSeq(menus, i + 1, Len(menus)) \in Seq(SUBSET Seq(Tokens))
          /\ Len(SubSeq(menus, i + 1, Len(menus))) =
               IF i + 1 <= Len(menus) THEN Len(menus) - (i + 1) + 1 ELSE 0
      BY <3>1, <2>3, SubSeqProperties
    <3>. QED
      BY <3>2, <2>3
  <2>6. menus' \in Seq(SUBSET Seq(Tokens)) /\ Len(menus') = (i - 1) + (Len(menus) - i)
    BY <2>1, <2>4, <2>5, ConcatProperties DEF RemoveAt
  <2>7. Len(menus') <= MaxMenus
    BY <2>3, <2>6, RegistryAssumption DEF RegistryInv
  <2>. QED
    BY <2>2, <2>6, <2>7 DEF RegistryInv
<1>5. CASE UNCHANGED registryVars
  BY <1>5 DEF registryVars, RegistryInv
<1>. QED
  BY <1>1, <1>2, <1>3, <1>4, <1>5 DEF RegistryNext

\* The invariant has the registry's variables in their types.
LEMMA RegistryInvTypes == RegistryInv => RegistryTypeOK
<1> SUFFICES ASSUME RegistryInv PROVE RegistryTypeOK
  OBVIOUS
<1>1. installed \in Seq(Known) /\ tree = TreeOf(installed)
  BY DEF RegistryInv
<1>2. DOMAIN installed = 1 .. Len(installed) /\ \A i \in 1 .. Len(installed) : installed[i] \in Known
  BY <1>1, LenProperties, ElementOfSeq
<1>3. \A r \in DOMAIN tree : tree[r] = NoCommand \/ tree[r].route = r
  BY <1>1, TreeType
<1>4. \A c \in Known : c = HelpCommand \/ \E p \in Bots : c \in ToSet(Commands[p])
  BY DEF Known
<1>. QED
  BY <1>2, <1>3, <1>4 DEF RegistryInv, RegistryTypeOK

\* The tree and the aliases are those of the commands installed, whatever
\* plugins run and in whatever order they are walked (commands.go, SetRegistry).
THEOREM RegistryInvariant == RegistrySpec => []RegistryInv
<1>. QED
  BY InitRegistryInv, NextRegistryInv, PTL DEF RegistrySpec

\* Each command is reached by its route and by the aliases that are its own, and
\* each entry of the menu leads to a node, of any commands whose routes begin
\* with a token that Telegram leaves as it is (commands.go:171-190; menu.go:85).
THEOREM CommandsAreReachable == RegistrySpec => []CommandsReachable
<1>. QED
  BY RegistryInvariant, BuiltReaches, PTL

---------------------------------------------------------------------------
(* The composition                                                         *)

\* The composition implements the unit manager.
LEMMA UnitsByThemselves == Spec => UnitSpec
<1>1. Init => UnitInit BY DEF Init
<1>2. [Next]_peripheryVars => [UnitNext]_unitVars
  BY DEF Next, Reload, Systemd, UnitStatus, History, Registry, peripheryVars
<1>3. QED BY <1>1, <1>2, PTL DEF Spec, UnitSpec

\* The composition implements the reload loop.
LEMMA LoopByItself == Spec => ReloadSpec
<1>1. Init => ReloadInit BY DEF Init
<1>2. [Next]_peripheryVars => [ReloadNext]_reloadVars
  BY DEF Next, Reload, Systemd, UnitStatus, History, Registry, peripheryVars
<1>3. QED BY <1>1, <1>2, PTL DEF Spec, ReloadSpec

\* The composition implements the systemd plugin.
LEMMA SystemdByItself == Spec => SystemdSpec
<1>1. Init => SystemdInit BY DEF Init
<1>2. [Next]_peripheryVars => [SystemdNext]_systemdVars
  BY DEF Next, Reload, Systemd, UnitStatus, History, Registry, peripheryVars
<1>3. QED BY <1>1, <1>2, PTL DEF Spec, SystemdSpec

\* So is a behaviour of the history's one of it alone.
LEMMA HistoryByItself == Spec => HistorySpec
<1>1. Init => HistoryInit BY DEF Init
<1>2. [Next]_peripheryVars => [HistoryNext]_historyVars
  BY DEF Next, Reload, Systemd, UnitStatus, History, Registry, peripheryVars
<1>3. QED BY <1>1, <1>2, PTL DEF Spec, HistorySpec

\* And one of the registry's.
LEMMA RegistryByItself == Spec => RegistrySpec
<1>1. Init => RegistryInit BY DEF Init
<1>2. [Next]_peripheryVars => [RegistryNext]_registryVars
  BY DEF Next, Reload, Systemd, UnitStatus, History, Registry, peripheryVars
<1>3. QED BY <1>1, <1>2, PTL DEF Spec, RegistrySpec

\* All hold of the composition: the cache of IsEnabled tells what was so within
\* its TTL (systemdmanager_linux.go:483-542), between two turns of the reload
\* loop log and pprof server are as configured (app.go:250-320), the scheduler
\* has no schedule of the systemd plugin that is not the running plugin's
\* (schedule.go:14), the history file keeps the recent results (history.go:22),
\* and every command is reached by what stands for it (commands.go:171-190).
THEOREM PeripheryIsSound ==
  Spec => [](/\ CacheTellsRecent /\ ServicesFollowConfig /\ ScheduleOwned
             /\ HistoryKept /\ CommandsReachable)
<1>1. Spec => []CacheTellsRecent BY UnitsByThemselves, AnswersAreRecent
<1>2. Spec => []ServicesFollowConfig BY LoopByItself, ServicesFollow
<1>3. Spec => []ScheduleOwned BY SystemdByItself, ScheduleIsOwned
<1>4. Spec => []HistoryKept BY HistoryByItself, HistoryIsKept
<1>5. Spec => []CommandsReachable BY RegistryByItself, CommandsAreReachable
<1>6. QED BY <1>1, <1>2, <1>3, <1>4, <1>5, PTL

\* And each part's variables have their types, for any plugins with any commands,
\* any units, timers and settings, and any history.
THEOREM PeripheryIsTyped == Spec => []PeripheryTypeOK
<1>1. Spec => [](part \in Parts)
  <2>1. Init => part \in Parts
    BY DEF Init
  <2>2. part \in Parts /\ [Next]_peripheryVars => (part \in Parts)'
    BY DEF Next, peripheryVars
  <2>. QED
    BY <2>1, <2>2, PTL DEF Spec
<1>2. Spec => []ReloadTypeOK
  <2>1. ReloadInv => ReloadTypeOK
    BY DEF ReloadInv
  <2>. QED
    BY <2>1, LoopByItself, ReloadInvariant, PTL
<1>3. Spec => []SystemdTypeOK
  BY SystemdByItself, SystemdIsTyped
<1>4. Spec => []UnitTypeOK
  <2>1. UnitInv => UnitTypeOK
    BY DEF UnitInv
  <2>. QED
    BY <2>1, UnitsByThemselves, UnitInvariant, PTL
<1>5. Spec => []HistoryTypeOK
  BY HistoryByItself, HistoryIsTyped
<1>6. Spec => []RegistryTypeOK
  BY RegistryByItself, RegistryInvariant, RegistryInvTypes, PTL
<1>7. (part \in Parts /\ ReloadTypeOK /\ SystemdTypeOK /\ UnitTypeOK /\ HistoryTypeOK /\ RegistryTypeOK)
        => PeripheryTypeOK
  BY DEF PeripheryTypeOK
<1>. QED
  BY <1>1, <1>2, <1>3, <1>4, <1>5, <1>6, <1>7, PTL

=============================================================================
