---------------------------- MODULE ConfigReload ----------------------------
(***************************************************************************)
(* Hot reload of the configuration file (internal/core/config.go, and the  *)
(* reload loop of app.go): an edit of the file raises an event, the event  *)
(* (re)arms a debounce timer, the timer's callback parses, checks, commits *)
(* and publishes, and the application's loop takes what was published,     *)
(* keeps the latest and applies it.                                        *)
(*                                                                         *)
(* Stopping the debounce timer does not stop a callback that has started,  *)
(* so there may be several under way.  How many is a parameter: a single   *)
(* one is the assumption that a callback takes no longer than the debounce *)
(* interval; the validator alone may take 5 s, the interval is 250 ms.     *)
(***************************************************************************)
EXTENDS Naturals, Sequences

CONSTANTS
  Configs,     \* contents that parse and that the validator accepts
  Refused,     \* contents that parse and that the validator refuses
  Garbage,     \* contents that do not parse
  Callbacks,   \* the debounce callbacks that may be under way at once
  Buffer,      \* capacity of the subscriber's channel (8 in the code)
  MaxEdits,    \* bound: number of edits of the file
  None         \* no content

ASSUME ReloadAssumption ==
  /\ Buffer \in Nat \ {0}
  /\ MaxEdits \in Nat
  /\ None \notin Configs \cup Refused \cup Garbage
  /\ Refused \cap Configs = {}
  /\ Garbage \cap (Configs \cup Refused) = {}

Contents == Configs \cup Refused \cup Garbage

VARIABLES
  file,       \* the contents of the file
  edits,      \* number of edits so far
  watch,      \* the watcher: "off", "on" or "closed"
  event,      \* the watcher has an event that Watch has not taken
  seen,       \* the last edit was made under the watcher's eyes (history)
  armed,      \* the debounce timer is armed
  pc,         \* pc[k]: where callback k is
  val,        \* val[k]: the configuration it parsed
  cfg,        \* m.cfg, whose hash is m.lastHash
  subscribed, \* the application's channel is in m.subs
  sub,        \* the contents of that channel
  loop,       \* where the application's reload loop is
  newCfg,     \* the configuration it is about to apply
  applied,    \* the configuration it applied last
  appDone     \* the application's context is cancelled

fileVars == <<file, edits, seen>>
watchVars == <<watch, event, armed>>
callbackVars == <<pc, val>>
loopVars == <<loop, newCfg, applied>>
vars == <<fileVars, watchVars, callbackVars, cfg, subscribed, sub, loopVars, appDone>>

CallbackPC == {"idle", "parse", "check", "validate", "commit", "subs", "offer", "drop", "retry"}

TypeOK ==
  /\ file \in Contents /\ edits \in 0 .. MaxEdits /\ seen \in BOOLEAN
  /\ watch \in {"off", "on", "closed"} /\ event \in BOOLEAN /\ armed \in BOOLEAN
  /\ pc \in [Callbacks -> CallbackPC]
  /\ val \in [Callbacks -> Contents \cup {None}]
  /\ cfg \in Contents
  /\ subscribed \in BOOLEAN
  /\ sub \in Seq(Contents) /\ Len(sub) <= Buffer
  /\ loop \in {"off", "wait", "coalesce", "apply", "gone"}
  /\ newCfg \in Contents \cup {None} /\ applied \in Contents
  /\ appDone \in BOOLEAN

\* NewApp has loaded, committed and applied the file it found: a file that
\* parses is enough, the validator is installed later, by App.Start.
Init ==
  /\ file \in Configs \cup Refused
  /\ cfg = file /\ applied = file
  /\ edits = 0 /\ seen = TRUE
  /\ watch = "off" /\ event = FALSE /\ armed = FALSE
  /\ pc = [k \in Callbacks |-> "idle"] /\ val = [k \in Callbacks |-> None]
  /\ subscribed = FALSE /\ sub = <<>> /\ loop = "off" /\ newCfg = None
  /\ appDone = FALSE

---------------------------------------------------------------------------
(* The file, the watcher and the debounce timer                            *)

Edit(v) ==
  /\ edits < MaxEdits
  /\ edits' = edits + 1
  /\ file' = v
  /\ seen' = (watch = "on")
  /\ event' = (event \/ watch = "on")
  /\ UNCHANGED <<watch, armed, callbackVars, cfg, subscribed, sub, loopVars, appDone>>

\* App.Start subscribes and then lets Watch add its watcher.
Subscribe ==
  /\ loop = "off"
  /\ subscribed' = TRUE
  /\ loop' = "wait"
  /\ UNCHANGED <<fileVars, watchVars, callbackVars, cfg, sub, newCfg, applied, appDone>>

WatchStart ==
  /\ watch = "off" /\ loop # "off"
  /\ watch' = "on"
  /\ UNCHANGED <<fileVars, event, armed, callbackVars, cfg, subscribed, sub, loopVars, appDone>>

WatchReturn ==
  /\ watch = "on" /\ appDone
  /\ watch' = "closed" /\ event' = FALSE
  /\ UNCHANGED <<fileVars, armed, callbackVars, cfg, subscribed, sub, loopVars, appDone>>

\* An event that comes while the timer is armed is swallowed: a mutant that
\* does not debounce but throttles, and forgets the event.
Debounce_OnlyOnce ==
  /\ watch = "on" /\ event
  /\ event' = FALSE
  /\ armed' = \A k \in Callbacks : pc[k] = "idle"
  /\ UNCHANGED <<fileVars, watch, callbackVars, cfg, subscribed, sub, loopVars, appDone>>

\* debounce: the timer is stopped and a new one armed.
Debounce ==
  /\ watch = "on" /\ event
  /\ event' = FALSE
  /\ armed' = TRUE
  /\ UNCHANGED <<fileVars, watch, callbackVars, cfg, subscribed, sub, loopVars, appDone>>

---------------------------------------------------------------------------
(* The timer's callback                                                    *)

Go(k, from, to) ==
  /\ pc[k] = from
  /\ pc' = [pc EXCEPT ![k] = to]

TimerFires(k) ==
  /\ armed
  /\ armed' = FALSE
  /\ Go(k, "idle", "parse")
  /\ UNCHANGED <<fileVars, watch, event, val, cfg, subscribed, sub, loopVars, appDone>>

ParseFile(k) ==
  /\ Go(k, "parse", IF file \in Garbage THEN "idle" ELSE "check")
  /\ val' = [val EXCEPT ![k] = IF file \in Garbage THEN None ELSE file]
  /\ UNCHANGED <<fileVars, watchVars, cfg, subscribed, sub, loopVars, appDone>>

\* Mutant: a content counts as unchanged when it is the one applied last.
CheckHash_Applied(k) ==
  /\ Go(k, "check", IF val[k] = applied THEN "idle" ELSE "validate")
  /\ UNCHANGED <<fileVars, watchVars, val, cfg, subscribed, sub, loopVars, appDone>>

\* A content whose hash is that of the committed configuration is skipped.
CheckHash(k) ==
  /\ Go(k, "check", IF val[k] = cfg THEN "idle" ELSE "validate")
  /\ UNCHANGED <<fileVars, watchVars, val, cfg, subscribed, sub, loopVars, appDone>>

\* Mutant: the validator's verdict is not looked at.
Validate_Ignored(k) ==
  /\ Go(k, "validate", "commit")
  /\ UNCHANGED <<fileVars, watchVars, val, cfg, subscribed, sub, loopVars, appDone>>

Validate(k) ==
  /\ Go(k, "validate", IF val[k] \in Refused THEN "idle" ELSE "commit")
  /\ UNCHANGED <<fileVars, watchVars, val, cfg, subscribed, sub, loopVars, appDone>>

Commit(k) ==
  /\ Go(k, "commit", "subs")
  /\ cfg' = val[k]
  /\ UNCHANGED <<fileVars, watchVars, val, subscribed, sub, loopVars, appDone>>

\* publish copies the list of subscribers.
CopySubs(k) ==
  /\ Go(k, "subs", IF subscribed THEN "offer" ELSE "idle")
  /\ UNCHANGED <<fileVars, watchVars, val, cfg, subscribed, sub, loopVars, appDone>>

\* Mutant: a full channel keeps what it holds and the new configuration is lost.
Offer_GiveUp(k) ==
  /\ Go(k, "offer", "idle")
  /\ sub' = IF Len(sub) < Buffer THEN Append(sub, val[k]) ELSE sub
  /\ UNCHANGED <<fileVars, watchVars, val, cfg, subscribed, loopVars, appDone>>

Offer(k) ==
  /\ Go(k, "offer", IF Len(sub) < Buffer THEN "idle" ELSE "drop")
  /\ sub' = IF Len(sub) < Buffer THEN Append(sub, val[k]) ELSE sub
  /\ UNCHANGED <<fileVars, watchVars, val, cfg, subscribed, loopVars, appDone>>

\* One configuration, the oldest, is taken out if there is any.
DropOldest(k) ==
  /\ Go(k, "drop", "retry")
  /\ sub' = IF sub = <<>> THEN sub ELSE Tail(sub)
  /\ UNCHANGED <<fileVars, watchVars, val, cfg, subscribed, loopVars, appDone>>

OfferAgain(k) ==
  /\ Go(k, "retry", "idle")
  /\ sub' = IF Len(sub) < Buffer THEN Append(sub, val[k]) ELSE sub
  /\ UNCHANGED <<fileVars, watchVars, val, cfg, subscribed, loopVars, appDone>>

Callback(k) ==
  \/ ParseFile(k) \/ CheckHash(k) \/ Validate(k) \/ Commit(k)
  \/ CopySubs(k) \/ Offer(k) \/ DropOldest(k) \/ OfferAgain(k)

---------------------------------------------------------------------------
(* The application's reload loop                                           *)

Receive ==
  /\ loop = "wait" /\ sub # <<>>
  /\ newCfg' = Head(sub)
  /\ sub' = Tail(sub)
  /\ loop' = "coalesce"
  /\ UNCHANGED <<fileVars, watchVars, callbackVars, cfg, subscribed, applied, appDone>>

\* The loop takes whatever else there is and keeps the last of it.
Coalesce ==
  /\ loop = "coalesce"
  /\ IF sub = <<>>
       THEN loop' = "apply" /\ UNCHANGED <<newCfg, sub>>
       ELSE newCfg' = Head(sub) /\ sub' = Tail(sub) /\ UNCHANGED loop
  /\ UNCHANGED <<fileVars, watchVars, callbackVars, cfg, subscribed, applied, appDone>>

\* All the services and plugins are brought up to date, which takes a while:
\* the step that ends it.
Apply ==
  /\ loop = "apply"
  /\ applied' = newCfg
  /\ newCfg' = None
  /\ loop' = "wait"
  /\ UNCHANGED <<fileVars, watchVars, callbackVars, cfg, subscribed, sub, appDone>>

LoopReturn ==
  /\ loop = "wait" /\ appDone
  /\ loop' = "gone"
  /\ subscribed' = FALSE
  /\ UNCHANGED <<fileVars, watchVars, callbackVars, cfg, sub, newCfg, applied, appDone>>

CancelApp ==
  /\ ~appDone
  /\ appDone' = TRUE
  /\ UNCHANGED <<fileVars, watchVars, callbackVars, cfg, subscribed, sub, loopVars>>

Next ==
  \/ \E v \in Contents : Edit(v)
  \/ Subscribe \/ WatchStart \/ WatchReturn \/ Debounce \/ CancelApp
  \/ \E k \in Callbacks : TimerFires(k) \/ Callback(k)
  \/ Receive \/ Coalesce \/ Apply \/ LoopReturn

Spec == Init /\ [][Next]_vars

\* The program's goroutines get on and timers fire; nobody has to edit the file
\* or to stop the application.
FairSpec ==
  /\ Spec
  /\ WF_vars(Subscribe) /\ WF_vars(WatchStart) /\ WF_vars(WatchReturn)
  /\ WF_vars(Debounce)
  /\ WF_vars(\E k \in Callbacks : TimerFires(k))
  /\ \A k \in Callbacks : WF_vars(Callback(k))
  /\ WF_vars(Receive \/ Coalesce \/ Apply) /\ WF_vars(LoopReturn)

---------------------------------------------------------------------------
(* Properties                                                              *)

\* No reload has committed anything yet.
AsStarted ==
  /\ applied = cfg /\ newCfg = None /\ sub = <<>>
  /\ \A k \in Callbacks : pc[k] \notin {"subs", "offer", "drop", "retry"}

\* What a reload commits, publishes or applies has passed the parser and the
\* validator ("transactional", config.go:217, app.go:164).  The file the program
\* was started with has passed the parser only: while it is committed, the
\* program is as it was started, and once it is replaced it never comes back
\* unless the validator accepts it.
OnlyAccepted ==
  /\ TypeOK
  /\ cfg \in Configs \/ AsStarted
  /\ newCfg \in Configs \cup {None}
  /\ \A i \in 1 .. Len(sub) : sub[i] \in Configs

\* The last configuration in the pipeline from Commit to the loop.
Newest ==
  IF sub # <<>> THEN sub[Len(sub)] ELSE IF newCfg # None THEN newCfg ELSE applied

\* Unless a callback is about to publish, the newest configuration on its way
\* to the application is the committed one: dropping the oldest when the
\* channel is full loses nothing that matters (config.go:134-158).
LatestOnItsWay ==
  subscribed /\ (\A k \in Callbacks : pc[k] \notin {"subs", "offer", "drop", "retry"})
    => Newest = cfg

\* A configuration that the file keeps, and that was written while the watcher
\* looked on, is applied in the end and stays, unless the application stops.
Converges ==
  \A v \in Configs :
    <>[](file = v /\ seen /\ watch = "on") => <>(appDone \/ [](applied = v))

\* config.go:134: "Always try to deliver the latest config": the application is
\* left with the committed configuration when all is quiet, with any number of
\* callbacks under way before.
SettledAgrees ==
  subscribed /\ (\A k \in Callbacks : pc[k] = "idle") /\ sub = <<>> /\ loop = "wait"
    => applied = cfg
=============================================================================
