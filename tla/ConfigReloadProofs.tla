------------------------- MODULE ConfigReloadProofs -------------------------
(***************************************************************************)
(* Proofs about ConfigReload: only accepted configurations get through a   *)
(* reload, with any number of callbacks under way; and in behaviours       *)
(* whose callbacks do not overlap, the newest configuration on its way to  *)
(* the application is the committed one.                                   *)
(***************************************************************************)
EXTENDS ConfigReload, SequenceTheorems, TLAPS

---------------------------------------------------------------------------
(* The channel                                                             *)

\* A send makes its configuration the last.
LEMMA SendOne ==
  ASSUME NEW v \in Configs, sub \in Seq(Configs)
  PROVE  /\ Append(sub, v) \in Seq(Configs) /\ Len(Append(sub, v)) = Len(sub) + 1
         /\ Append(sub, v) # <<>> /\ Append(sub, v)[Len(Append(sub, v))] = v
         /\ Len(sub) \in Nat
<1>1. /\ Append(sub, v) \in Seq(Configs) /\ Len(Append(sub, v)) = Len(sub) + 1
      /\ Append(sub, v)[Len(sub) + 1] = v
  BY AppendProperties
<1>2. Len(sub) \in Nat
  BY LenProperties
<1>3. Append(sub, v) # <<>>
  BY <1>1, <1>2, EmptySeq
<1>. QED
  BY <1>1, <1>2, <1>3

\* A receive takes the first, and leaves the last where it is if there are more.
LEMMA ReceiveOne ==
  ASSUME sub \in Seq(Configs), sub # <<>>
  PROVE  /\ Head(sub) \in Configs /\ Tail(sub) \in Seq(Configs)
         /\ Len(sub) \in Nat \ {0} /\ Len(Tail(sub)) = Len(sub) - 1
         /\ Tail(sub) = <<>> => Head(sub) = sub[Len(sub)]
         /\ Tail(sub) # <<>> => Tail(sub)[Len(Tail(sub))] = sub[Len(sub)]
<1>1. /\ Head(sub) \in Configs /\ Tail(sub) \in Seq(Configs)
      /\ Len(Tail(sub)) = Len(sub) - 1
      /\ \A i \in 1 .. Len(Tail(sub)) : Tail(sub)[i] = sub[i + 1]
  BY HeadTailProperties
<1>2. Len(sub) \in Nat \ {0}
  BY EmptySeq
<1>3. ASSUME Tail(sub) = <<>>
      PROVE  Head(sub) = sub[Len(sub)]
  <2>1. Len(Tail(sub)) = 0
    BY <1>3, EmptySeq
  <2>2. Len(sub) = 1
    <3>1. \A n \in Nat : n - 1 = 0 => n = 1
      OBVIOUS
    <3>. QED
      BY <1>1, <1>2, <2>1, <3>1
  <2>. QED
    BY <2>2
<1>4. ASSUME Tail(sub) # <<>>
      PROVE  Tail(sub)[Len(Tail(sub))] = sub[Len(sub)]
  <2>1. Len(Tail(sub)) \in Nat \ {0}
    BY <1>1, <1>4, EmptySeq
  <2>2. Len(Tail(sub)) \in 1 .. Len(Tail(sub)) /\ Len(Tail(sub)) + 1 = Len(sub)
    BY <1>1, <1>2, <2>1
  <2>. QED
    BY <1>1, <2>2
<1>. QED
  BY <1>1, <1>2, <1>3, <1>4

---------------------------------------------------------------------------
(* Only what was accepted                                                  *)

\* What is in the hands of a callback has passed the steps before.
Passed ==
  \A k \in Callbacks :
    /\ pc[k] \in {"check", "validate"} => val[k] \in Configs \cup Refused
    /\ pc[k] \in {"commit", "subs", "offer", "drop", "retry"} => val[k] \in Configs

PassedInv ==
  /\ TypeOK
  /\ Passed
  /\ cfg \in Configs \cup Refused /\ applied \in Configs \cup Refused
  /\ newCfg \in Configs \cup {None}
  /\ sub \in Seq(Configs)
  /\ loop \in {"coalesce", "apply"} <=> newCfg # None

\* A refused configuration is committed only as long as the program is as it
\* was started.
AcceptedInv == PassedInv /\ (cfg \in Configs \/ AsStarted)

\* Only Validate lets a content on to Commit, and only what Commit took over is
\* published and applied.
LEMMA NextPassed == PassedInv /\ [Next]_vars => PassedInv'
<1> SUFFICES ASSUME PassedInv, [Next]_vars PROVE PassedInv'
  OBVIOUS
<1> USE ReloadAssumption DEF PassedInv
<1>0. /\ Configs \subseteq Contents /\ Refused \subseteq Contents /\ Seq(Configs) \subseteq Seq(Contents)
      /\ None \notin Configs /\ TypeOK /\ Len(sub) \in Nat
  <2>1. Configs \subseteq Contents /\ Refused \subseteq Contents
    BY DEF Contents
  <2>. QED
    BY <2>1, SeqMonotonic, LenProperties
<1>1. ASSUME NEW v \in Contents, Edit(v) PROVE PassedInv'
  BY <1>0, <1>1 DEF Edit, TypeOK, Passed, watchVars, callbackVars, loopVars
<1>2. CASE Subscribe
  BY <1>0, <1>2 DEF Subscribe, TypeOK, Passed, fileVars, watchVars, callbackVars
<1>3. CASE WatchStart \/ WatchReturn \/ Debounce \/ CancelApp
  <2>1. UNCHANGED <<callbackVars, cfg, subscribed, sub, loopVars>> /\ UNCHANGED <<file, edits>>
    BY <1>3 DEF WatchStart, WatchReturn, Debounce, CancelApp, fileVars
  <2>2. /\ watch' \in {"off", "on", "closed"} /\ seen' \in BOOLEAN /\ event' \in BOOLEAN
        /\ armed' \in BOOLEAN /\ appDone' \in BOOLEAN
    BY <1>0, <1>3 DEF WatchStart, WatchReturn, Debounce, CancelApp, TypeOK, fileVars, watchVars
  <2>. QED
    BY <1>0, <2>1, <2>2 DEF TypeOK, Passed, callbackVars, loopVars
<1>4. ASSUME NEW k \in Callbacks, NEW to \in CallbackPC,
             pc' = [pc EXCEPT ![k] = to],
             to \in {"check", "validate"} => val'[k] \in Configs \cup Refused,
             to \in {"commit", "subs", "offer", "drop", "retry"} => val'[k] \in Configs,
             \A j \in Callbacks : j # k => val'[j] = val[j]
      PROVE  pc' \in [Callbacks -> CallbackPC] /\ Passed'
  <2>1. pc \in [Callbacks -> CallbackPC]
    BY <1>0 DEF TypeOK
  <2>2. pc'[k] = to /\ \A j \in Callbacks : j # k => pc'[j] = pc[j]
    BY <1>4, <2>1
  <2>. QED
    BY <1>4, <2>1, <2>2 DEF Passed
<1>5. ASSUME NEW k \in Callbacks, TimerFires(k) PROVE PassedInv'
  <2>1. pc' \in [Callbacks -> CallbackPC] /\ Passed'
    BY <1>4, <1>5 DEF TimerFires, Go, CallbackPC
  <2>. QED
    BY <1>0, <1>5, <2>1 DEF TimerFires, TypeOK, fileVars, loopVars
<1>6. ASSUME NEW k \in Callbacks, ParseFile(k) PROVE PassedInv'
  <2>1. val' = [val EXCEPT ![k] = IF file \in Garbage THEN None ELSE file]
        /\ pc' = [pc EXCEPT ![k] = IF file \in Garbage THEN "idle" ELSE "check"]
        /\ UNCHANGED <<fileVars, watchVars, cfg, subscribed, sub, loopVars, appDone>>
    BY <1>6 DEF ParseFile, Go
  <2>2. val \in [Callbacks -> Contents \cup {None}] /\ file \in Contents
    BY <1>0 DEF TypeOK
  <2>3. val' \in [Callbacks -> Contents \cup {None}]
    BY <2>1, <2>2
  <2>4. /\ val'[k] = (IF file \in Garbage THEN None ELSE file)
        /\ \A j \in Callbacks : j # k => val'[j] = val[j]
    BY <2>1, <2>2
  <2>5. file \notin Garbage => file \in Configs \cup Refused
    BY <2>2 DEF Contents
  <2>6. pc' \in [Callbacks -> CallbackPC] /\ Passed'
    <3>1. CASE file \in Garbage
      BY <1>4, <2>1, <2>4, <3>1 DEF CallbackPC
    <3>2. CASE file \notin Garbage
      <4>1. pc' = [pc EXCEPT ![k] = "check"] /\ val'[k] \in Configs \cup Refused
        BY <2>1, <2>4, <2>5, <3>2
      <4>. QED
        BY <1>4, <2>4, <4>1 DEF CallbackPC
    <3>. QED
      BY <3>1, <3>2
  <2>. QED
    BY <1>0, <2>1, <2>3, <2>6 DEF TypeOK, fileVars, watchVars, loopVars
<1>7. ASSUME NEW k \in Callbacks, CheckHash(k) \/ Validate(k) PROVE PassedInv'
  <2>1. val' = val /\ UNCHANGED <<fileVars, watchVars, cfg, subscribed, sub, loopVars, appDone>>
    BY <1>7 DEF CheckHash, Validate
  <2>2. \E to \in CallbackPC :
          /\ pc' = [pc EXCEPT ![k] = to]
          /\ to \in {"check", "validate"} => val'[k] \in Configs \cup Refused
          /\ to \in {"commit", "subs", "offer", "drop", "retry"} => val'[k] \in Configs
    BY <1>7, <2>1 DEF CheckHash, Validate, Go, Passed, CallbackPC
  <2>3. pc' \in [Callbacks -> CallbackPC] /\ Passed'
    BY <1>4, <2>1, <2>2
  <2>. QED
    BY <1>0, <2>1, <2>3 DEF TypeOK, fileVars, watchVars, loopVars
<1>8. ASSUME NEW k \in Callbacks, Commit(k) PROVE PassedInv'
  <2>1. val[k] \in Configs /\ cfg' = val[k] /\ val' = val
        /\ pc' = [pc EXCEPT ![k] = "subs"]
        /\ UNCHANGED <<fileVars, watchVars, subscribed, sub, loopVars, appDone>>
    BY <1>8 DEF Commit, Go, Passed
  <2>2. pc' \in [Callbacks -> CallbackPC] /\ Passed'
    BY <1>4, <2>1 DEF CallbackPC
  <2>. QED
    BY <1>0, <2>1, <2>2 DEF TypeOK, fileVars, watchVars, loopVars
<1>9. ASSUME NEW k \in Callbacks, CopySubs(k) \/ Offer(k) \/ DropOldest(k) \/ OfferAgain(k)
      PROVE  PassedInv'
  <2>1. val[k] \in Configs /\ val' = val
        /\ UNCHANGED <<fileVars, watchVars, cfg, subscribed, loopVars, appDone>>
    BY <1>9 DEF CopySubs, Offer, DropOldest, OfferAgain, Go, Passed
  <2>2. \E to \in CallbackPC : pc' = [pc EXCEPT ![k] = to]
    BY <1>9 DEF CopySubs, Offer, DropOldest, OfferAgain, Go, CallbackPC
  <2>3. pc' \in [Callbacks -> CallbackPC] /\ Passed'
    BY <1>4, <2>1, <2>2
  <2>4. \/ sub' = sub
        \/ Len(sub) < Buffer /\ sub' = Append(sub, val[k])
        \/ sub # <<>> /\ sub' = Tail(sub)
    BY <1>9 DEF CopySubs, Offer, DropOldest, OfferAgain
  <2>5. sub' \in Seq(Configs) /\ Len(sub') <= Buffer
    <3>1. CASE sub' = sub
      BY <1>0, <3>1 DEF TypeOK
    <3>2. CASE Len(sub) < Buffer /\ sub' = Append(sub, val[k])
      BY <2>1, <3>2, SendOne
    <3>3. CASE sub # <<>> /\ sub' = Tail(sub)
      BY <1>0, <3>3, ReceiveOne DEF TypeOK
    <3>. QED
      BY <2>4, <3>1, <3>2, <3>3
  <2>. QED
    BY <1>0, <2>1, <2>3, <2>5 DEF TypeOK, fileVars, watchVars, loopVars
<1>10. CASE Receive \/ Coalesce
  <2>1. UNCHANGED <<fileVars, watchVars, callbackVars, cfg, subscribed, applied, appDone>>
    BY <1>10 DEF Receive, Coalesce
  <2>2. \/ /\ sub # <<>> /\ newCfg' = Head(sub) /\ sub' = Tail(sub) /\ loop' = "coalesce"
        \/ loop = "coalesce" /\ loop' = "apply" /\ UNCHANGED <<newCfg, sub>>
    BY <1>10 DEF Receive, Coalesce
  <2>3. sub' \in Seq(Configs) /\ Len(sub') <= Buffer /\ newCfg' \in Configs /\ loop' \in {"coalesce", "apply"}
    <3>1. CASE sub # <<>> /\ newCfg' = Head(sub) /\ sub' = Tail(sub) /\ loop' = "coalesce"
      BY <1>0, <3>1, ReceiveOne DEF TypeOK
    <3>2. CASE loop = "coalesce" /\ loop' = "apply" /\ UNCHANGED <<newCfg, sub>>
      BY <1>0, <3>2 DEF TypeOK
    <3>. QED
      BY <2>2, <3>1, <3>2
  <2>. QED
    BY <1>0, <2>1, <2>3 DEF TypeOK, Passed, fileVars, watchVars, callbackVars
<1>11. CASE Apply \/ LoopReturn
  BY <1>0, <1>11 DEF Apply, LoopReturn, TypeOK, Passed, fileVars, watchVars, callbackVars
<1>12. CASE UNCHANGED vars
  BY <1>0, <1>12 DEF TypeOK, Passed, vars, fileVars, watchVars, callbackVars, loopVars
<1>. QED
  BY <1>1, <1>2, <1>3, <1>5, <1>6, <1>7, <1>8, <1>9, <1>10, <1>11, <1>12 DEF Next, Callback

\* The first commit replaces what the program was started with, and nothing is
\* published or received before it.
LEMMA NextAccepted == AcceptedInv /\ [Next]_vars => AcceptedInv'
<1> SUFFICES ASSUME AcceptedInv, [Next]_vars PROVE AcceptedInv'
  OBVIOUS
<1>1. PassedInv'
  BY NextPassed DEF AcceptedInv
<1>2. CASE cfg \in Configs
  <2>1. cfg' \in Configs
    <3>1. ASSUME NEW k \in Callbacks, Commit(k) PROVE cfg' \in Configs
      BY <3>1 DEF Commit, Go, AcceptedInv, PassedInv, Passed
    <3>2. ASSUME NEW k \in Callbacks, TimerFires(k) \/ Callback(k), ~Commit(k) PROVE cfg' = cfg
      BY <3>2 DEF TimerFires, Callback, ParseFile, CheckHash, Validate, CopySubs, Offer, DropOldest,
         OfferAgain
    <3>3. CASE \/ \E v \in Contents : Edit(v)
               \/ Subscribe \/ WatchStart \/ WatchReturn \/ Debounce \/ CancelApp
               \/ Receive \/ Coalesce \/ Apply \/ LoopReturn \/ UNCHANGED vars
      BY <1>2, <3>3 DEF Edit, Subscribe, WatchStart, WatchReturn, Debounce, CancelApp, Receive,
         Coalesce, Apply, LoopReturn, vars
    <3>. QED
      BY <1>2, <3>1, <3>2, <3>3 DEF Next
  <2>. QED
    BY <1>1, <2>1 DEF AcceptedInv
<1>3. CASE cfg \notin Configs
  <2>1. /\ AsStarted /\ loop \notin {"coalesce", "apply"} /\ sub = <<>>
        /\ pc \in [Callbacks -> CallbackPC]
    BY <1>3 DEF AcceptedInv, PassedInv, AsStarted, TypeOK
  <2>2. ASSUME NEW k \in Callbacks, Commit(k) PROVE cfg' \in Configs
    BY <2>2 DEF Commit, Go, AcceptedInv, PassedInv, Passed
  <2>3. ASSUME NEW k \in Callbacks, TimerFires(k) \/ Callback(k), ~Commit(k) PROVE AsStarted'
    <3>1. ~CopySubs(k) /\ ~Offer(k) /\ ~DropOldest(k) /\ ~OfferAgain(k)
      BY <2>1 DEF AsStarted, CopySubs, Offer, DropOldest, OfferAgain, Go
    <3>2. \E to \in {"idle", "parse", "check", "validate", "commit"} : pc' = [pc EXCEPT ![k] = to]
      BY <2>3, <3>1 DEF TimerFires, Callback, ParseFile, CheckHash, Validate, Go
    <3>3. UNCHANGED <<cfg, sub, newCfg, applied>>
      BY <2>3, <3>1 DEF TimerFires, Callback, ParseFile, CheckHash, Validate, loopVars
    <3>. QED
      BY <2>1, <3>2, <3>3 DEF AsStarted
  <2>4. CASE \/ \E v \in Contents : Edit(v)
             \/ Subscribe \/ WatchStart \/ WatchReturn \/ Debounce \/ CancelApp
             \/ LoopReturn \/ UNCHANGED vars
    <3>1. UNCHANGED <<callbackVars, cfg, sub, newCfg, applied>>
      BY <2>4 DEF Edit, Subscribe, WatchStart, WatchReturn, Debounce, CancelApp, LoopReturn, loopVars, vars
    <3>. QED
      BY <1>1, <2>1, <3>1 DEF AcceptedInv, AsStarted, callbackVars
  <2>5. ~Receive /\ ~Coalesce /\ ~Apply
    BY <2>1 DEF Receive, Coalesce, Apply
  <2>. QED
    BY <1>1, <2>2, <2>3, <2>4, <2>5 DEF Next, AcceptedInv
<1>. QED
  BY <1>2, <1>3

\* The program has started with a file that parses.
LEMMA InitAccepted == Init => AcceptedInv
<1> SUFFICES ASSUME Init PROVE AcceptedInv
  OBVIOUS
<1>1. sub = <<>> /\ sub \in Seq(Configs) /\ sub \in Seq(Contents) /\ Len(sub) = 0
  BY EmptySeq DEF Init
<1>2. Configs \subseteq Contents /\ Refused \subseteq Contents /\ MaxEdits \in Nat /\ 0 <= Buffer
  BY ReloadAssumption DEF Contents
<1>3. TypeOK
  <2>1. pc \in [Callbacks -> CallbackPC] /\ val \in [Callbacks -> Contents \cup {None}]
    BY DEF Init, CallbackPC
  <2>2. file \in Contents /\ cfg \in Contents /\ applied \in Contents /\ edits \in 0 .. MaxEdits
    BY <1>2 DEF Init
  <2>. QED
    BY <1>1, <1>2, <2>1, <2>2 DEF Init, TypeOK
<1>4. Passed
  BY DEF Init, Passed
<1>5. AsStarted
  BY DEF Init, AsStarted
<1>. QED
  BY <1>1, <1>3, <1>4, <1>5 DEF Init, AcceptedInv, PassedInv

\* Whatever a reload commits, publishes or applies, and whatever a callback is
\* about to commit, has passed the parser and the validator (config.go:217,
\* app.go:164); the file of the start, which no validator has seen (config.go:85,
\* app.go:40), is committed only until the first reload.
THEOREM AcceptedInvariant == Spec => []AcceptedInv
BY InitAccepted, NextAccepted, PTL DEF Spec

\* A configuration that does not parse, or that the validator refuses, never gets
\* past a reload, however many callbacks are under way (config.go:217); a refused
\* one that the program was started with is gone for good with the first commit.
THEOREM NoneSlipsThrough == Spec => []OnlyAccepted
<1>1. AcceptedInv => OnlyAccepted
  BY ElementOfSeq DEF AcceptedInv, PassedInv, OnlyAccepted
<1>. QED
  BY <1>1, AcceptedInvariant, PTL

---------------------------------------------------------------------------
(* The latest is on its way                                                *)

Publishing == {"subs", "offer", "drop", "retry"}

\* No two callbacks are under way at once.
OneAtATime ==
  \A j, k \in Callbacks : pc[j] # "idle" /\ pc[k] # "idle" => j = k

\* Before the application subscribes nothing has happened.
QuietBefore ==
  /\ loop = "off" =>
       /\ watch = "off" /\ ~armed /\ \A k \in Callbacks : pc[k] = "idle"
       /\ sub = <<>> /\ newCfg = None /\ applied = cfg
  /\ subscribed <=> loop \in {"wait", "coalesce", "apply"}

\* A callback publishes what it has committed, and has room for it in the end.
PublishesLatest ==
  \A k \in Callbacks :
    /\ pc[k] \in Publishing => val[k] = cfg
    /\ pc[k] = "retry" => Len(sub) < Buffer

LatestInv == QuietBefore /\ PublishesLatest /\ LatestOnItsWay

\* Steps that touch neither the pipeline nor a callback that publishes.
LEMMA PipelineKept ==
  ASSUME LatestInv, UNCHANGED <<cfg, subscribed, sub, newCfg, applied>>,
         \A k \in Callbacks : pc'[k] \in Publishing <=> pc[k] \in Publishing,
         \A k \in Callbacks : pc[k] \in Publishing => val'[k] = val[k] /\ pc'[k] = pc[k]
  PROVE  PublishesLatest' /\ LatestOnItsWay'
BY DEF LatestInv, PublishesLatest, LatestOnItsWay, Newest, Publishing

\* Offer and OfferAgain put the committed configuration last, the loop takes from
\* the front, and nobody but the publishing callback sends.
LEMMA NextLatest ==
  AcceptedInv /\ LatestInv /\ OneAtATime /\ OneAtATime' /\ [Next]_vars => LatestInv'
<1> SUFFICES ASSUME AcceptedInv, LatestInv, OneAtATime, OneAtATime', [Next]_vars PROVE LatestInv'
  OBVIOUS
<1>0. /\ pc \in [Callbacks -> CallbackPC] /\ val \in [Callbacks -> Contents \cup {None}]
      /\ sub \in Seq(Configs) /\ Len(sub) \in Nat /\ Len(sub) <= Buffer
      /\ Buffer \in Nat \ {0}
      /\ None \notin Configs
  BY ReloadAssumption, LenProperties DEF AcceptedInv, PassedInv, TypeOK
<1>1. CASE \/ \E v \in Contents : Edit(v)
           \/ WatchStart \/ WatchReturn \/ Debounce \/ CancelApp \/ UNCHANGED vars
  <2>1. UNCHANGED <<callbackVars, cfg, subscribed, sub, loopVars>>
    BY <1>1 DEF Edit, WatchStart, WatchReturn, Debounce, CancelApp, vars
  <2>2. PublishesLatest' /\ LatestOnItsWay'
    BY <2>1, PipelineKept DEF callbackVars, loopVars
  <2>3. QuietBefore'
    BY <1>1, <2>1 DEF LatestInv, QuietBefore, callbackVars, loopVars, fileVars, watchVars, vars,
       Edit, WatchStart, WatchReturn, Debounce, CancelApp
  <2>. QED
    BY <2>2, <2>3 DEF LatestInv
<1>2. CASE Subscribe
  BY <1>2 DEF Subscribe, LatestInv, QuietBefore, PublishesLatest, LatestOnItsWay, Newest, Publishing,
     fileVars, watchVars, callbackVars
<1>3. ASSUME NEW k \in Callbacks, TimerFires(k) \/ ParseFile(k) \/ CheckHash(k) \/ Validate(k)
      PROVE  LatestInv'
  <2>1. /\ loop # "off" /\ UNCHANGED <<cfg, subscribed, sub, loopVars>>
        /\ pc[k] \notin Publishing /\ \E to \in CallbackPC \ Publishing : pc' = [pc EXCEPT ![k] = to]
        /\ \A j \in Callbacks : j # k => val'[j] = val[j]
    BY <1>0, <1>3 DEF TimerFires, ParseFile, CheckHash, Validate, Go, LatestInv, QuietBefore, Publishing,
       CallbackPC
  <2>2. PublishesLatest' /\ LatestOnItsWay'
    BY <1>0, <2>1, PipelineKept DEF loopVars
  <2>3. QuietBefore'
    BY <2>1 DEF LatestInv, QuietBefore, loopVars
  <2>. QED
    BY <2>2, <2>3 DEF LatestInv
<1>4. ASSUME NEW k \in Callbacks, Commit(k) \/ CopySubs(k) \/ Offer(k) \/ DropOldest(k) \/ OfferAgain(k)
      PROVE  LatestInv'
  <2>1. /\ loop # "off" /\ UNCHANGED <<val, subscribed, loopVars>>
        /\ pc[k] # "idle" /\ \A j \in Callbacks : j # k => pc[j] = "idle" /\ pc'[j] = "idle"
    BY <1>0, <1>4 DEF Commit, CopySubs, Offer, DropOldest, OfferAgain, Go, LatestInv, QuietBefore, OneAtATime
  <2>2. QuietBefore'
    BY <2>1 DEF LatestInv, QuietBefore, loopVars
  <2>3. CASE Commit(k)
    <3>1. pc'[k] = "subs" /\ cfg' = val[k]
      BY <1>0, <2>3 DEF Commit, Go
    <3>. QED
      BY <2>1, <2>2, <3>1 DEF LatestInv, PublishesLatest, LatestOnItsWay, Publishing
  <2>4. CASE CopySubs(k)
    <3>1. pc[k] = "subs" /\ pc'[k] = (IF subscribed THEN "offer" ELSE "idle") /\ UNCHANGED <<cfg, sub>>
      BY <1>0, <2>4 DEF CopySubs, Go
    <3>. QED
      BY <2>1, <2>2, <3>1 DEF LatestInv, PublishesLatest, LatestOnItsWay, Publishing
  <2>5. val[k] \in Configs /\ (pc[k] \in Publishing => val[k] = cfg)
    BY <1>4 DEF AcceptedInv, PassedInv, Passed, LatestInv, PublishesLatest, Commit, CopySubs, Offer, DropOldest,
       OfferAgain, Go
  <2>6. CASE sub' = Append(sub, val[k]) /\ pc'[k] = "idle" /\ pc[k] \in Publishing /\ cfg' = cfg
    <3>1. Newest' = cfg'
      BY <1>0, <2>5, <2>6, SendOne DEF Newest
    <3>. QED
      BY <2>1, <2>2, <2>6, <3>1 DEF LatestInv, PublishesLatest, LatestOnItsWay, Publishing
  <2>7. CASE Offer(k)
    <3>1. pc[k] = "offer" /\ pc'[k] = (IF Len(sub) < Buffer THEN "idle" ELSE "drop") /\ cfg' = cfg
          /\ sub' = IF Len(sub) < Buffer THEN Append(sub, val[k]) ELSE sub
      BY <1>0, <2>7 DEF Offer, Go
    <3>2. CASE Len(sub) < Buffer
      BY <2>6, <3>1, <3>2 DEF Publishing
    <3>3. CASE ~(Len(sub) < Buffer)
      BY <2>1, <2>2, <2>5, <3>1, <3>3 DEF LatestInv, PublishesLatest, LatestOnItsWay, Publishing
    <3>. QED
      BY <3>2, <3>3
  <2>8. CASE DropOldest(k)
    <3>1. pc[k] = "drop" /\ pc'[k] = "retry" /\ sub' = (IF sub = <<>> THEN sub ELSE Tail(sub)) /\ cfg' = cfg
      BY <1>0, <2>8 DEF DropOldest, Go
    <3>2. Len(sub') < Buffer
      <4>1. CASE sub = <<>>
        BY <1>0, <3>1, <4>1, EmptySeq
      <4>2. CASE sub # <<>>
        BY <1>0, <3>1, <4>2, ReceiveOne
      <4>. QED
        BY <4>1, <4>2
    <3>. QED
      BY <2>1, <2>2, <2>5, <3>1, <3>2 DEF LatestInv, PublishesLatest, LatestOnItsWay, Publishing
  <2>9. CASE OfferAgain(k)
    <3>1. /\ pc[k] = "retry" /\ pc'[k] = "idle" /\ cfg' = cfg /\ Len(sub) < Buffer
          /\ sub' = IF Len(sub) < Buffer THEN Append(sub, val[k]) ELSE sub
      BY <1>0, <2>9 DEF OfferAgain, Go, LatestInv, PublishesLatest
    <3>. QED
      BY <2>6, <3>1 DEF Publishing
  <2>. QED
    BY <1>4, <2>3, <2>4, <2>7, <2>8, <2>9
<1>5. CASE \/ Receive
           \/ Coalesce
  <2>1. /\ UNCHANGED <<fileVars, watchVars, callbackVars, cfg, subscribed, applied, appDone>>
        /\ loop \in {"wait", "coalesce"} /\ loop' \in {"coalesce", "apply"}
    BY <1>5 DEF Receive, Coalesce
  <2>2. QuietBefore'
    BY <2>1 DEF LatestInv, QuietBefore
  <2>3. \/ sub # <<>> /\ newCfg' = Head(sub) /\ sub' = Tail(sub)
        \/ UNCHANGED <<newCfg, sub>>
    BY <1>5 DEF Receive, Coalesce
  <2>4. Newest' = Newest /\ Len(sub') <= Len(sub) /\ Len(sub') \in Nat
    <3>1. CASE sub # <<>> /\ newCfg' = Head(sub) /\ sub' = Tail(sub)
      <4>1. Len(sub') = Len(sub) - 1 /\ Len(sub) \in Nat \ {0} /\ newCfg' # None
        BY <1>0, <3>1, ReceiveOne
      <4>2. Newest = sub[Len(sub)] /\ Newest' = sub[Len(sub)]
        BY <1>0, <3>1, <4>1, ReceiveOne DEF Newest
      <4>. QED
        BY <4>1, <4>2
    <3>2. CASE UNCHANGED <<newCfg, sub>>
      BY <1>0, <2>1, <3>2 DEF Newest
    <3>. QED
      BY <2>3, <3>1, <3>2
  <2>5. PublishesLatest'
    BY <1>0, <2>1, <2>4 DEF LatestInv, PublishesLatest, callbackVars
  <2>6. LatestOnItsWay'
    BY <2>1, <2>4 DEF LatestInv, LatestOnItsWay, callbackVars
  <2>. QED
    BY <2>2, <2>5, <2>6 DEF LatestInv
<1>6. CASE Apply
  <2>1. /\ loop = "apply" /\ loop' = "wait" /\ applied' = newCfg /\ newCfg' = None /\ newCfg # None
        /\ UNCHANGED <<callbackVars, cfg, subscribed, sub>>
    BY <1>6 DEF Apply, AcceptedInv, PassedInv
  <2>2. Newest' = Newest
    BY <2>1 DEF Newest
  <2>. QED
    BY <2>1, <2>2 DEF LatestInv, QuietBefore, PublishesLatest, LatestOnItsWay, callbackVars
<1>7. CASE LoopReturn
  BY <1>7 DEF LoopReturn, LatestInv, QuietBefore, PublishesLatest, LatestOnItsWay, callbackVars
<1>. QED
  BY <1>1, <1>2, <1>3, <1>4, <1>5, <1>6, <1>7 DEF Next, Callback

\* As long as no debounce callback is still under way when the next one starts,
\* the newest configuration on its way to the application is the committed one:
\* the oldest is dropped, never the latest (config.go:134-158).
THEOREM LatestArrives == Spec /\ []OneAtATime => []LatestOnItsWay
<1>1. Init => LatestInv
  BY DEF Init, LatestInv, QuietBefore, PublishesLatest, LatestOnItsWay, Publishing
<1>2. LatestInv => LatestOnItsWay
  BY DEF LatestInv
<1>. QED
  BY <1>1, <1>2, NextLatest, AcceptedInvariant, PTL DEF Spec

\* With a single callback that is always so.
COROLLARY LatestArrivesWithOne ==
  ASSUME \A j, k \in Callbacks : j = k
  PROVE  Spec => []LatestOnItsWay
<1>1. OneAtATime
  BY DEF OneAtATime
<1>. QED
  BY <1>1, LatestArrives, PTL

\* So when all is quiet, the application runs with what is committed.
THEOREM QuietAgrees == Spec /\ []OneAtATime => []SettledAgrees
<1>1. AcceptedInv /\ LatestOnItsWay => SettledAgrees
  BY DEF AcceptedInv, PassedInv, LatestOnItsWay, SettledAgrees, Newest
<1>. QED
  BY <1>1, LatestArrives, AcceptedInvariant, PTL
=============================================================================
