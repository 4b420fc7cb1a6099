--------------------------- MODULE LoggingService ---------------------------
(***************************************************************************)
(* The logging service (internal/services/logging/logging.go): the reload  *)
(* loop applies a configuration with s.mu held throughout, and swaps the   *)
(* handlers behind the one logger of the program; other goroutines log all *)
(* the while, and the Telegram handler needs s.mu for each record.  Apply  *)
(* itself logs warnings, through the handlers that are still in place.     *)
(*                                                                         *)
(* A record is a warning or worse; whether the level lets warnings through *)
(* is part of the configuration.  Formatting, the rate limit and the       *)
(* Telegram call are left out: they hold no lock.                          *)
(***************************************************************************)
VARIABLES
  logMu,    \* who holds s.mu: "free", "loop" or "other"
  logFile,  \* s.file is set
  target,   \* s.chatID is set
  handler,  \* what is in the AtomicHandler
  next,     \* the configuration that Apply is applying
  stage,    \* where Apply is
  other     \* where another goroutine is that logs

logVars == <<logMu, logFile, target, handler, next, stage, other>>

\* The sinks of a configuration, and whether warnings pass its level.
LogConfigs == [file : BOOLEAN, telegram : BOOLEAN, warnings : BOOLEAN]

LoggingTypeOK ==
  /\ logMu \in {"free", "loop", "other"}
  /\ logFile \in BOOLEAN /\ target \in BOOLEAN
  /\ handler \in LogConfigs
  /\ next \in LogConfigs
  /\ stage \in {"idle", "lock", "warnFile", "warnTarget", "swap", "target"}
  /\ other \in {"idle", "lock", "unlock"}

\* New builds the logger on a plain handler, to apply the first configuration
\* then.
LoggingInit ==
  /\ logMu = "free" /\ logFile = FALSE /\ target = FALSE
  /\ handler = [file |-> FALSE, telegram |-> FALSE, warnings |-> TRUE]
  /\ next = handler
  /\ stage = "idle" /\ other = "idle"

---------------------------------------------------------------------------
(* Apply and SetTelegramTarget, called by the loop                         *)

\* After the file comes Telegram: wanted without a chat, that is a warning.
AfterFile == IF next.telegram /\ ~target THEN "warnTarget" ELSE "swap"

\* With s.mu locked the old file is closed, though the handlers in place still
\* write to it, and the new one opened; when that fails there is a warning.
ApplyLocks ==
  /\ stage = "lock" /\ logMu = "free"
  /\ logMu' = "loop"
  /\ logFile' \in {FALSE, next.file}
  /\ stage' = IF logFile' = next.file THEN AfterFile ELSE "warnFile"
  /\ UNCHANGED <<target, handler, next, other>>

\* A record reaches the Telegram handler, which locks s.mu.
NeedsMu(h) == h.warnings /\ h.telegram

\* A warning of Apply goes through the handlers in place; when it is for the
\* Telegram handler it waits for s.mu, which Apply itself holds.
Warns ==
  /\ stage \in {"warnFile", "warnTarget"}
  /\ NeedsMu(handler) => logMu = "free"
  /\ stage' = IF stage = "warnFile" THEN AfterFile ELSE "swap"
  /\ UNCHANGED <<logMu, logFile, target, handler, next, other>>

\* The new handlers are in place and s.mu is released.
Swaps ==
  /\ stage = "swap"
  /\ handler' = [file |-> logFile, telegram |-> next.telegram, warnings |-> next.warnings]
  /\ logMu' = "free" /\ stage' = "target"
  /\ UNCHANGED <<logFile, target, next, other>>

\* The loop sets the chat of the same configuration only after Apply has looked
\* for it: given, none, or left as it is when telegram.group_log is no number.
SetsTarget ==
  /\ stage = "target" /\ logMu = "free"
  /\ target' \in BOOLEAN
  /\ stage' = "idle"
  /\ UNCHANGED <<logMu, logFile, handler, next, other>>

LoopInLogging == ApplyLocks \/ Warns \/ Swaps \/ SetsTarget

\* The loop comes with a new configuration.
ApplyLogging(c) ==
  /\ stage = "idle"
  /\ next' = c /\ stage' = "lock"
  /\ UNCHANGED <<logMu, logFile, target, handler, other>>

---------------------------------------------------------------------------
(* Another goroutine logs                                                  *)

\* It takes the handlers that are in place and hands them the record.
Logs ==
  /\ other = "idle"
  /\ other' = IF NeedsMu(handler) THEN "lock" ELSE "idle"
  /\ UNCHANGED <<logMu, logFile, target, handler, next, stage>>

TelegramLocks ==
  /\ other = "lock" /\ logMu = "free"
  /\ logMu' = "other" /\ other' = "unlock"
  /\ UNCHANGED <<logFile, target, handler, next, stage>>

\* Mutant: the Telegram handler returns early, for want of a chat, and leaves
\* s.mu locked.
TelegramUnlocks_OnlyWithTarget ==
  /\ other = "unlock"
  /\ logMu' = IF target THEN "free" ELSE logMu
  /\ other' = "idle"
  /\ UNCHANGED <<logFile, target, handler, next, stage>>

TelegramUnlocks ==
  /\ other = "unlock"
  /\ logMu' = "free" /\ other' = "idle"
  /\ UNCHANGED <<logFile, target, handler, next, stage>>

OtherInLogging == TelegramLocks \/ TelegramUnlocks

---------------------------------------------------------------------------
(* Properties                                                              *)

\* Apply is about to log a warning that comes back to it.
WarnsItself == stage \in {"warnFile", "warnTarget"} /\ NeedsMu(handler)

\* Whenever the loop is not applying a configuration, the handlers in place
\* have the sinks of the newest one, and write to the file that is open, if it
\* could be opened (Apply, logging.go:78-132).
SinksFollowConfig ==
  stage = "idle" =>
    /\ handler.telegram = next.telegram /\ handler.warnings = next.warnings
    /\ handler.file = logFile /\ (logFile => next.file)

=============================================================================
