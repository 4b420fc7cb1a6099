--------------------------- MODULE SchedulerDefs ---------------------------
(***************************************************************************)
(* The scheduler's schedule definitions (api.go): the slice s.defs, the    *)
(* cron entries made from it, and their upserts and removals while Start,  *)
(* Stop and Apply replace the cron.                                        *)
(*                                                                         *)
(* An entry's closure holds a pointer into the slice's backing array and   *)
(* reads the definition when it fires, so the model keeps every backing    *)
(* array: appending writes in place while there is capacity and moves to a *)
(* new array when there is none; removing compacts in place and leaves the *)
(* tail as it was.  Workers and cron jobs are SchedulerPool's; here every  *)
(* wait of Stop and Apply is over at once.                                 *)
(***************************************************************************)
EXTENDS SchedulerLifecycle, Selection

CONSTANTS
  Names,      \* names of schedules, none of them blank
  Trim,       \* Trim[n]: the name n without the spaces around it
  MaxAdds,    \* bound: number of registrations
  Capacity    \* Capacity[g]: how many elements the g-th backing array holds

\* Trimming twice is trimming once.  There is no array at first, and append
\* moves to a larger one.
ASSUME DefsAssumption ==
  /\ Trim \in [Names -> Names] /\ \A n \in Names : Trim[Trim[n]] = Trim[n]
  /\ MaxAdds \in Nat
  /\ Capacity \in [1 .. MaxAdds + 1 -> Nat] /\ Capacity[1] = 0
  /\ \A g \in 1 .. MaxAdds : Capacity[g] < Capacity[g + 1]

VARIABLES
  adds,       \* number of registrations so far; the n-th one registers job n
  arrays,     \* the backing arrays of s.defs, the last one is in use
  len,        \* len(s.defs)
  entries,    \* the entries of s.c
  nextEntry,  \* the last EntryID that s.c has handed out
  shifted     \* a removal moved a definition since s.c was made (history)

defsVars == <<adds, arrays, len, entries, nextEntry, shifted>>
vars == <<lifecycleVars, defsVars>>

Jobs == 1 .. MaxAdds

\* A slot of a backing array; valid says that cron can parse the spec, entry
\* is the EntryID of the definition, 0 before it has one.
Def == [name : Names, job : Jobs, valid : BOOLEAN, entry : Nat]

\* A cron entry: the job it was made for and the slot its closure points to.
Entry == [id : Nat, made : Jobs, array : Nat, slot : Nat]

\* The array in use and its contents as far as they were ever written.
gen   == Len(arrays)
slots == arrays[gen]

TypeOK ==
  /\ LifecycleTypeOK
  /\ adds \in 0 .. MaxAdds
  /\ arrays \in Seq(Seq(Def)) /\ gen \in 1 .. adds + 1
  /\ \A g \in 1 .. gen : Len(arrays[g]) <= Capacity[g]
  /\ len \in 0 .. Len(slots)
  /\ entries \subseteq Entry
  /\ nextEntry \in Nat
  /\ shifted \in BOOLEAN

Init ==
  /\ LifecycleInit
  /\ adds = 0
  /\ arrays = << <<>> >>
  /\ len = 0
  /\ entries = {}
  /\ nextEntry = 0
  /\ shifted = FALSE

---------------------------------------------------------------------------
(* removeScheduleLocked                                                    *)

\* The definitions a removal by name takes away.  It trims the name, while a
\* definition keeps the name it was registered with: one with spaces around it
\* is never among them.
Named(name) == {i \in 1 .. len : slots[i].name = Trim[name]}

\* The entries that s.c drops: those with the EntryID of a definition of name.
Dropped(name) ==
  {e \in entries : \E i \in Named(name) : slots[i].entry = e.id}

\* The slots after the removal: the survivors move to the front, the slots
\* behind them keep what they hold.
Compacted(name) ==
  LET rest == 1 .. len \ Named(name) IN
  [i \in 1 .. Len(slots) |->
     IF i <= Cardinality(rest) THEN slots[Nth(rest, i)]
     ELSE IF c # 0 /\ i \in Named(name) THEN [slots[i] EXCEPT !.entry = 0]
     ELSE slots[i]]

\* A definition behind one that is removed moves.
Shifts(name) == \E i \in Named(name) : \E j \in i + 1 .. len : slots[j].name # Trim[name]

\* Mutant: the definition goes, its entry stays.
Remove_KeepsEntry(name) ==
  /\ mu = "free"
  /\ Named(name) # {}
  /\ arrays' = [arrays EXCEPT ![gen] = Compacted(name)]
  /\ len' = len - Cardinality(Named(name))
  /\ shifted' = (shifted \/ Shifts(name))
  /\ UNCHANGED <<lifecycleVars, adds, nextEntry, entries>>

\* Remove, as far as cron and interval schedules go.
Remove(name) ==
  /\ mu = "free"
  /\ Named(name) # {}
  /\ entries' = entries \ Dropped(name)
  /\ arrays' = [arrays EXCEPT ![gen] = Compacted(name)]
  /\ len' = len - Cardinality(Named(name))
  /\ shifted' = (shifted \/ Shifts(name))
  /\ UNCHANGED <<lifecycleVars, adds, nextEntry>>

---------------------------------------------------------------------------
(* AddCronOpt and AddIntervalOpt                                           *)

\* Of the array ss the first n slots, d, and what is behind it, m slots in all.
Put(ss, n, d, m) == [i \in 1 .. m |-> IF i = n + 1 THEN d ELSE ss[i]]

\* append(s.defs, d), where the first n slots of ss are s.defs.
Appended(ss, n, d) ==
  IF n < Capacity[gen]
    THEN [arrays EXCEPT ![gen] = Put(ss, n, d, IF n < Len(ss) THEN Len(ss) ELSE n + 1)]
    ELSE Append([arrays EXCEPT ![gen] = ss], Put(ss, n, d, n + 1))

\* A registration under a name: the definition of the trimmed name goes, the
\* new one is appended under the name as given and, when there is a cron, added to it.  A spec that
\* cron cannot parse stays a definition without an entry.
Add(name, valid) ==
  LET n   == len - Cardinality(Named(name))
      d   == [name |-> name, job |-> adds + 1, valid |-> valid,
              entry |-> IF c # 0 /\ valid THEN nextEntry + 1 ELSE 0]
      arr == Appended(Compacted(name), n, d)
      e   == [id |-> nextEntry + 1, made |-> adds + 1,
              array |-> Len(arr), slot |-> n + 1]
  IN
  /\ mu = "free"
  /\ adds < MaxAdds
  /\ adds' = adds + 1
  /\ arrays' = arr
  /\ len' = n + 1
  /\ entries' = (entries \ Dropped(name)) \cup (IF c # 0 /\ valid THEN {e} ELSE {})
  /\ nextEntry' = IF c # 0 /\ valid THEN nextEntry + 1 ELSE nextEntry
  /\ shifted' = (shifted \/ Shifts(name))
  /\ UNCHANGED lifecycleVars

---------------------------------------------------------------------------
(* Start, Stop and Apply                                                   *)

\* The definitions that cron can parse, and the slots with their EntryIDs in a
\* cron to which they are added in order: the i-th gets EntryID i.
Valid == {i \in 1 .. len : slots[i].valid}
Registered ==
  [i \in 1 .. Len(slots) |->
     IF i \in Valid THEN [slots[i] EXCEPT !.entry = Rank(Valid, i)] ELSE slots[i]]

\* Mutant: the closures share the loop's variable.
Register_SharedVariable ==
  /\ arrays' = [arrays EXCEPT ![gen] = Registered]
  /\ entries' = {[id |-> Rank(Valid, i), made |-> slots[i].job, array |-> gen, slot |-> len] :
                   i \in Valid}
  /\ nextEntry' = Cardinality(Valid)
  /\ shifted' = FALSE
  /\ UNCHANGED <<adds, len>>

\* Every definition is added to the cron that was just made.
Register ==
  /\ arrays' = [arrays EXCEPT ![gen] = Registered]
  /\ entries' = {[id |-> Rank(Valid, i), made |-> slots[i].job, array |-> gen, slot |-> i] :
                   i \in Valid}
  /\ nextEntry' = Cardinality(Valid)
  /\ shifted' = FALSE
  /\ UNCHANGED <<adds, len>>

Start == StartRun /\ Register

Apply ==
  \/ ApplyRestart /\ c # 0 /\ UNCHANGED defsVars
  \/ ApplyRestart /\ c = 0 /\ Register
  \/ ApplyResume({}) /\ Register

\* Stop takes the cron and its entries away in its first critical section.
Stop ==
  \/ /\ StopBegin
     /\ entries' = {}
     /\ UNCHANGED <<adds, arrays, len, nextEntry, shifted>>
  \/ /\ \/ StopClose
        \/ StopCancel
        \/ StopHalt
        \/ StopDrain({})
        \/ StopTimers
        \/ Finalize(FALSE)
     /\ UNCHANGED defsVars

Next ==
  \/ \E n \in Names, valid \in BOOLEAN : Add(n, valid)
  \/ \E n \in Names : Remove(n)
  \/ Start
  \/ Stop
  \/ Apply

Spec == Init /\ [][Next]_vars

---------------------------------------------------------------------------
(* Properties                                                              *)

\* The job an entry runs when it ticks: the closure reads it from its slot.
JobRun(e) == arrays[e.array][e.slot].job

\* At most one definition bears a name without spaces around it, whatever was
\* registered, removed and restarted in between (api.go:50-51, "to prevent
\* duplicates").  Of a name with spaces there is one for each registration,
\* since the removals look for the trimmed name.
OneDefinition ==
  \A i, j \in 1 .. len :
    slots[i].name = slots[j].name /\ Trim[slots[i].name] = slots[i].name => i = j

\* Beside this, the running cron has exactly the entries of the valid
\* definitions, duplicates of a name among them, each under the EntryID its
\* definition remembers: an upsert or a removal leaves no entry behind and takes
\* no other's (api.go:281-289, 306-323).
EntriesMatchDefs ==
  /\ TypeOK /\ OneDefinition
  /\ c # 0 =>
       /\ \A e \in entries :
            \E i \in 1 .. len : slots[i].entry = e.id /\ slots[i].job = e.made
       /\ \A i \in 1 .. len : slots[i].valid =>
            Cardinality({e \in entries : e.id = slots[i].entry /\ e.made = slots[i].job}) = 1

\* An entry of the running cron runs its own job as long as no removal has
\* moved a definition: growing the slice, or removing its last element, leaves
\* the closures' pointers good (api.go:64-66, 306-317).
AlignedUntilShift ==
  ~shifted => \A e \in entries : JobRun(e) = e.made

\* doc.go:8-9: names are there so that "tasks can be replaced (upserted) and
\* removed deterministically": an entry of the running cron always runs the job
\* that was registered with it.
FiresOwnJob == \A e \in entries : JobRun(e) = e.made

=============================================================================
