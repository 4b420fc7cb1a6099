-------------------------- MODULE SpeedtestHistory --------------------------
(***************************************************************************)
(* The history file of the speedtest plugin (plugins/speedtest/history.go, *)
(* with its callers in commands.go and plugin.go): one line for each       *)
(* result, appended by whoever has run a test, and rewritten without the   *)
(* old ones through a temporary file when it has become too long or the    *)
(* owner asks for it.  The program may be killed between any two steps,    *)
(* and the disk may be full.                                               *)
(*                                                                         *)
(* Results are numbered by their timestamps; two tests may be saved in the *)
(* other order.  A write that comes up short leaves a line without its     *)
(* end, which takes the next line with it.  The file is the same one in    *)
(* all configurations.                                                     *)
(***************************************************************************)
EXTENDS Naturals, SequencesExt, Selection

CONSTANTS
  Testers,    \* the goroutines that test or clean up: commands, the schedule
  Nobody,     \* none of them
  MaxRecords, \* defaultHistoryMaxRecords
  MaxRecent,  \* how many results getRecentResults gives at most
  MaxLines,   \* how many lines fit into defaultHistoryMaxBytes
  MaxTests    \* bound: the tests that are run

ASSUME HistoryAssumption ==
  /\ Nobody \notin Testers
  /\ MaxRecords \in Nat \ {0} /\ MaxRecent \in 1 .. MaxRecords
  /\ MaxLines \in Nat /\ MaxTests \in Nat

VARIABLES
  file,      \* the lines of the history file
  tmp,       \* the lines of the temporary file
  historyMu, \* who holds historyMu
  task,      \* task[t]: where t is in saveResult or cleanOldResults
  result,    \* result[t]: the result that t saves
  kept,      \* what the compaction under way has kept
  tests,     \* the number of tests run
  written,   \* the results written, in order (history)
  cut,       \* the results before this one were too old for a compaction (history)
  short      \* a write, or the read of a compaction, has come up short (history)

fileVars == <<file, tmp>>
saveVars == <<historyMu, task, result, kept>>
pastVars == <<tests, written, cut, short>>
historyVars == <<fileVars, saveVars, pastVars>>

Results == 1 .. MaxTests
Torn == 0            \* a line that is no record
Unended == MaxTests + 1 \* the same, and its end is missing
Lines == Seq(0 .. Unended)

HistoryTypeOK ==
  /\ file \in Lines /\ tmp \in Lines /\ kept \in Seq(Results)
  /\ historyMu \in Testers \cup {Nobody}
  /\ task \in [Testers -> {"idle", "save", "append", "clean", "read", "open", "fill", "replace"}]
  /\ result \in [Testers -> 0 .. MaxTests]
  /\ tests \in 0 .. MaxTests /\ written \in Seq(Results) /\ cut \in Nat /\ short \in BOOLEAN

HistoryInit ==
  /\ file = <<>> /\ tmp = <<>>
  /\ historyMu = Nobody /\ task = [t \in Testers |-> "idle"]
  /\ result = [t \in Testers |-> 0] /\ kept = <<>>
  /\ tests = 0 /\ written = <<>> /\ cut = 1 /\ short = FALSE

---------------------------------------------------------------------------
(* Lines                                                                   *)

EndsShort(f) == f # <<>> /\ Last(f) = Unended

\* A line written to the end of f: one without an end spoils it.
WithLine(f, line) ==
  IF EndsShort(f) THEN Append(Front(f), IF line = Unended THEN Unended ELSE Torn)
                  ELSE Append(f, line)

\* The scanner's records: lines that do not parse are passed over.
Readable(f) == Picked(f, {k \in DOMAIN f : f[k] \in Results})

\* Of the records f those that are not older than the cutoff.
Since(f, cutoff) == Picked(f, {k \in DOMAIN f : f[k] >= cutoff})

\* The ring buffer keeps the last n records.
Newest(f, n) == SubSeq(f, IF Len(f) > n THEN Len(f) - n + 1 ELSE 1, Len(f))

\* getRecentResults, newest first, and the tests that getDailyStats counts.
RecentResults(n) ==
  Reverse(Newest(Readable(file), IF n > MaxRecent THEN MaxRecent ELSE n))
DailyTests(cutoff) == {r \in ToSet(Readable(file)) : r >= cutoff}

---------------------------------------------------------------------------
(* saveResult and cleanOldResults                                          *)

TaskAt(t, where) == task' = [task EXCEPT ![t] = where]
Unlocks(t) ==
  /\ historyMu' = Nobody /\ TaskAt(t, "idle")
  /\ result' = [result EXCEPT ![t] = 0]

\* A test has come to its end, started by the schedule or by a command.
Tests(t) ==
  /\ task[t] = "idle" /\ tests < MaxTests
  /\ tests' = tests + 1 /\ result' = [result EXCEPT ![t] = tests + 1]
  /\ TaskAt(t, "save")
  /\ UNCHANGED <<fileVars, historyMu, kept, written, cut, short>>

CleansUp(t) ==
  /\ task[t] = "idle"
  /\ TaskAt(t, "clean")
  /\ UNCHANGED <<fileVars, historyMu, result, kept, pastVars>>

LocksHistory(t) ==
  /\ task[t] \in {"save", "clean"} /\ historyMu = Nobody
  /\ historyMu' = t
  /\ TaskAt(t, IF task[t] = "save" THEN "append" ELSE "read")
  /\ UNCHANGED <<fileVars, result, kept, pastVars>>

\* The line is appended, or only a part of it, or the file cannot be opened; a
\* file that has grown too long is compacted.
AppendsLine(t) ==
  /\ task[t] = "append"
  /\ \/ /\ file' = WithLine(file, result[t]) /\ written' = Append(written, result[t])
        /\ IF Len(file') > MaxLines
             THEN TaskAt(t, "read") /\ UNCHANGED <<historyMu, result>>
             ELSE Unlocks(t)
        /\ UNCHANGED short
     \/ /\ file' = WithLine(file, Unended) /\ short' = TRUE
        /\ Unlocks(t) /\ UNCHANGED written
     \/ Unlocks(t) /\ UNCHANGED <<file, written, short>>
  /\ UNCHANGED <<tmp, kept, tests, cut>>

---------------------------------------------------------------------------
(* compactHistoryFileLocked                                                *)

\* Records older than the cutoff go, and of the others all but the last.  An error
\* ends the scan where it is, and nobody asks the scanner for it.
ReadsHistory(t) ==
  /\ task[t] = "read"
  /\ \/ /\ \E cutoff \in 1 .. tests + 1, read \in {file} \cup {SubSeq(file, 1, n) : n \in 0 .. Len(file) - 1} :
             /\ kept' = Newest(Since(Readable(read), cutoff), MaxRecords)
             /\ cut' = IF cutoff > cut THEN cutoff ELSE cut
             /\ short' = (short \/ read # file)
        /\ TaskAt(t, "open")
        /\ UNCHANGED <<historyMu, result>>
     \/ Unlocks(t) /\ UNCHANGED <<kept, cut, short>>
  /\ UNCHANGED <<fileVars, tests, written>>

\* Mutant: the history file itself is written anew.
OpensTmp_InPlace(t) ==
  /\ task[t] = "open"
  /\ file' = <<>> /\ TaskAt(t, "fill")
  /\ UNCHANGED <<tmp, historyMu, result, kept, pastVars>>

OpensTmp(t) ==
  /\ task[t] = "open"
  /\ \/ tmp' = <<>> /\ TaskAt(t, "fill") /\ UNCHANGED <<historyMu, result>>
     \/ Unlocks(t) /\ UNCHANGED tmp
  /\ UNCHANGED <<file, kept, pastVars>>

\* The errors of the writes, of Flush and of Sync are passed over.
FillsTmp(t) ==
  /\ task[t] = "fill"
  /\ \/ tmp' = kept /\ UNCHANGED short
     \/ /\ short' = TRUE
        /\ \E n \in 0 .. Len(kept) - 1 : tmp' \in {SubSeq(kept, 1, n), Append(SubSeq(kept, 1, n), Unended)}
  /\ TaskAt(t, "replace")
  /\ UNCHANGED <<file, historyMu, result, kept, tests, written, cut>>

\* The temporary file takes the place of the history, or is removed.
ReplacesFile(t) ==
  /\ task[t] = "replace"
  /\ file' \in {tmp, file}
  /\ tmp' = <<>> /\ kept' = <<>> /\ Unlocks(t)
  /\ UNCHANGED pastVars

\* The program is killed, perhaps while it appends, and started again.
Killed ==
  /\ \/ UNCHANGED <<file, short>>
     \/ /\ \E t \in Testers : task[t] = "append"
        /\ file' = WithLine(file, Unended) /\ short' = TRUE
  /\ historyMu' = Nobody /\ kept' = <<>>
  /\ task' = [t \in Testers |-> "idle"] /\ result' = [t \in Testers |-> 0]
  /\ UNCHANGED <<tmp, tests, written, cut>>

HistoryNext ==
  \/ \E t \in Testers :
       \/ Tests(t) \/ CleansUp(t) \/ LocksHistory(t) \/ AppendsLine(t)
       \/ ReadsHistory(t) \/ OpensTmp(t) \/ FillsTmp(t) \/ ReplacesFile(t)
  \/ Killed

HistorySpec == HistoryInit /\ [][HistoryNext]_historyVars

---------------------------------------------------------------------------
(* Properties                                                              *)

\* Of the last n results that were written those that were not too old for any
\* compaction.
ToBeKept(n) ==
  {written[i] : i \in {i \in DOMAIN written : i + n > Len(written) /\ written[i] >= cut}}

\* As long as no write has come up short and no scan was ended by an error, the
\* commands find every result that was saved and that is recent enough, wherever
\* the program has been killed, in a compaction or not ("rewrite file keeping the most recent N / last X days",
\* history.go:22; saveResult, compactHistoryFileLocked, and the readers).  They
\* find it among no more results than were saved since.
HistoryKept ==
  ~short =>
    /\ \A n \in 1 .. MaxRecent : ToBeKept(n) \subseteq ToSet(RecentResults(n))
    /\ \A cutoff \in Results : {r \in ToBeKept(MaxRecords) : r >= cutoff} \subseteq DailyTests(cutoff)

=============================================================================
