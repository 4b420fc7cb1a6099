------------------------- MODULE SchedulerDefsProofs -------------------------
(***************************************************************************)
(* Proofs about SchedulerDefs: its two invariants, for any names, numbers  *)
(* of registrations, runs and changes of the time zone, and whatever       *)
(* larger capacities append chooses.                                       *)
(***************************************************************************)
EXTENDS SchedulerDefs, SelectionProofs, SequenceTheorems, TLAPS

---------------------------------------------------------------------------
(* The inductive invariant                                                 *)

\* The crons made so far are those of the runs and of the changes of the time zone.
LifecycleAgrees ==
  /\ crons + (IF mu = "apply" THEN 1 ELSE 0) = runs + applies
  /\ stopPC # "idle" => cur # 0

\* A name without spaces around it.
Tidy(name) == Trim[name] = name

\* Jobs tell the definitions apart, and so do names without spaces around them;
\* what cron cannot parse has no EntryID.
DefsApart ==
  /\ \A i, j \in 1 .. len : slots[i].name = slots[j].name /\ Tidy(slots[i].name) => i = j
  /\ \A i, j \in 1 .. len : slots[i].job = slots[j].job => i = j
  /\ \A i \in 1 .. len : slots[i].job <= adds
  /\ \A i \in 1 .. len : ~slots[i].valid => slots[i].entry = 0

\* EntryIDs tell the entries of the cron apart, and each has its definition.
EntriesApart ==
  /\ \A e, f \in entries : e.id = f.id => e = f
  /\ \A e \in entries : e.id \in 1 .. nextEntry
  /\ c = 0 => entries = {}
  /\ \A e \in entries : \E i \in 1 .. len : slots[i].entry = e.id /\ slots[i].job = e.made

\* Each definition that cron can parse has an entry.
DefsRegistered ==
  c # 0 => \A i \in 1 .. len : slots[i].valid =>
             \E e \in entries : e.id = slots[i].entry /\ e.made = slots[i].job

\* Until a definition is moved, a pointer into the array in use is one to a
\* definition, and what is in older arrays stays as it is.
PointersGood ==
  ~shifted => \A e \in entries :
                /\ e.array \in 1 .. gen
                /\ e.array = gen => e.slot \in 1 .. len
                /\ JobRun(e) = e.made

DefsInv ==
  /\ TypeOK
  /\ LifecycleAgrees
  /\ DefsApart
  /\ EntriesApart
  /\ DefsRegistered
  /\ PointersGood

---------------------------------------------------------------------------
(* Slots, arrays and removals                                              *)

\* Types, with the fields of a definition and of an entry spelt out.
LEMMA Types ==
  ASSUME TypeOK
  PROVE  /\ gen \in Nat \ {0} /\ slots \in Seq(Def) /\ Len(slots) \in Nat
         /\ len \in Nat /\ len <= Len(slots) /\ adds \in Nat
         /\ \A g \in 1 .. gen : arrays[g] \in Seq(Def)
         /\ \A i \in 1 .. Len(slots) :
              /\ slots[i] \in Def /\ slots[i].name \in Names /\ slots[i].job \in Jobs
              /\ slots[i].valid \in BOOLEAN /\ slots[i].entry \in Nat
         /\ \A e \in entries : e \in Entry /\ e.id \in Nat /\ e.made \in Jobs
<1>1. gen \in Nat \ {0} /\ \A g \in 1 .. gen : arrays[g] \in Seq(Def)
  <2>1. arrays \in Seq(Seq(Def)) /\ gen \in 1 .. adds + 1 /\ adds \in 0 .. MaxAdds
    BY DEF TypeOK
  <2>2. gen \in Nat \ {0}
    BY <2>1, DefsAssumption
  <2>. QED
    BY <2>1, <2>2, ElementOfSeq DEF gen
<1>2. gen \in 1 .. gen
  BY <1>1
<1>3. slots \in Seq(Def)
  BY <1>1, <1>2 DEF slots
<1>4. Len(slots) \in Nat /\ \A i \in 1 .. Len(slots) : slots[i] \in Def
  BY <1>3, LenProperties, ElementOfSeq
<1>5. len \in Nat /\ len <= Len(slots) /\ adds \in Nat
  BY <1>4, DefsAssumption DEF TypeOK
<1>6. \A d \in Def : d.name \in Names /\ d.job \in Jobs /\ d.valid \in BOOLEAN /\ d.entry \in Nat
  BY DEF Def
<1>7. \A e \in entries : e \in Entry /\ e.id \in Nat /\ e.made \in Jobs
  BY DEF TypeOK, Entry
<1>. QED
  BY <1>1, <1>3, <1>4, <1>5, <1>6, <1>7

Rest(name) == 1 .. len \ Named(name)

\* The definitions at the indices R move to the front of ss, in order; if the
\* one removed is the last, they stay where they are.
MovesToFront(name, R, ss, n) ==
  /\ n \in Nat /\ n <= len /\ n = len - Cardinality(Named(name))
  /\ ss \in Seq(Def) /\ Len(ss) = Len(slots)
  /\ \A i \in 1 .. n : Nth(R, i) \in R /\ ss[i] = slots[Nth(R, i)]
  /\ \A k \in R : Rank(R, k) \in 1 .. n /\ ss[Rank(R, k)] = slots[k]
  /\ \A i, j \in 1 .. n : Nth(R, i) = Nth(R, j) => i = j
  /\ ~Shifts(name) => R = 1 .. n /\ \A i \in 1 .. n : ss[i] = slots[i]

\* A name that was trimmed is tidy, and one that is tidy is its own trimmed form.
LEMMA TrimIsTidy ==
  ASSUME NEW name \in Names
  PROVE  Trim[name] \in Names /\ Tidy(Trim[name])
BY DefsAssumption DEF Tidy

\* That is what removeScheduleLocked does with those of other names.
LEMMA Removal ==
  ASSUME TypeOK, DefsApart, NEW name \in Names
  PROVE  MovesToFront(name, Rest(name), Compacted(name), Cardinality(Rest(name)))
<1> DEFINE R == Rest(name)
           ss == Compacted(name)
           n == Cardinality(R)
<1>1. /\ len \in Nat /\ Len(slots) \in Nat /\ len <= Len(slots)
      /\ \A i \in 1 .. Len(slots) : slots[i] \in Def
  BY Types
<1>2. R \in SUBSET (1 .. len) /\ Named(name) \in SUBSET (1 .. len) /\ Named(name) \cap R = {}
      /\ Named(name) \cup R = 1 .. len
  BY DEF Rest, Named
<1>3. IsFiniteSet(1 .. len) /\ Cardinality(1 .. len) = len
  BY <1>1, FS_Interval
<1>4. n \in Nat /\ n <= len
  <2>1. Cardinality(R) \in 0 .. len
    BY <1>1, <1>2, RankType
  <2>. QED
    BY <2>1, <1>1
<1>5. n = len - Cardinality(Named(name))
  <2>1. Cardinality((1 .. len) \ Named(name)) =
          Cardinality(1 .. len) - Cardinality((1 .. len) \cap Named(name))
    BY <1>3, FS_Difference
  <2>2. (1 .. len) \cap Named(name) = Named(name)
    BY <1>2
  <2>. QED
    BY <2>1, <2>2, <1>3 DEF Rest
<1>6. \A i \in 1 .. n : Nth(R, i) \in R
  BY <1>1, <1>2, NthIsThere
<1>7. \A k \in R : Rank(R, k) \in 1 .. n /\ Nth(R, Rank(R, k)) = k
  BY <1>1, <1>2, NthOfRank
<1>8. \A i, j \in 1 .. n : Nth(R, i) = Nth(R, j) => i = j
  BY <1>1, <1>2, NthIsThere
<1> HIDE DEF R
<1>9. ss = [i \in 1 .. Len(slots) |->
              IF i <= n THEN slots[Nth(R, i)]
              ELSE IF c # 0 /\ i \in Named(name) THEN [slots[i] EXCEPT !.entry = 0]
              ELSE slots[i]]
  BY DEF Compacted, R, Rest
<1>10. ss \in [1 .. Len(slots) -> Def]
  <2>1. \A i \in 1 .. Len(slots) : [slots[i] EXCEPT !.entry = 0] \in Def
    BY <1>1 DEF Def
  <2>2. \A i \in 1 .. Len(slots) : i <= n => slots[Nth(R, i)] \in Def
    BY <1>1, <1>2, <1>4, <1>6
  <2>. QED
    BY <2>1, <2>2, <1>1, <1>9
<1>11. ss \in Seq(Def) /\ Len(ss) = Len(slots)
  BY <1>1, <1>10, SeqDef, LenProperties
<1>12. \A i \in 1 .. n : i \in 1 .. Len(slots) /\ i <= n
  BY <1>1, <1>4
<1>13. \A i \in 1 .. n : ss[i] = slots[Nth(R, i)]
  BY <1>9, <1>12
<1>14. \A k \in R : ss[Rank(R, k)] = slots[k]
  BY <1>7, <1>13
<1>15. ASSUME ~Shifts(name) PROVE R = 1 .. n /\ \A i \in 1 .. n : ss[i] = slots[i]
  <2>1. \E m \in 0 .. len : R = 1 .. m
    <3>1. CASE Named(name) = {}
      BY <3>1, <1>1, <1>2
    <3>2. CASE Named(name) # {}
      <4>1. PICK i \in Named(name) : TRUE
        BY <3>2
      <4>2. i \in 1 .. len /\ slots[i].name = Trim[name] /\ Tidy(slots[i].name)
        BY TrimIsTidy DEF Named
      <4>3. \A j \in i + 1 .. len : slots[j].name = Trim[name]
        BY <1>15, <4>1 DEF Shifts
      <4>4. \A j \in i + 1 .. len : j \in 1 .. len /\ j # i
        BY <4>2, <1>1
      <4>5. \A j \in i + 1 .. len : FALSE
        BY <4>2, <4>3, <4>4 DEF DefsApart
      <4>6. i = len
        BY <4>2, <4>5, <1>1
      <4>7. R = 1 .. (len - 1)
        <5>1. \A j \in 1 .. len : slots[j].name = Trim[name] => j = i
          BY <4>2 DEF DefsApart
        <5>. QED
          BY <5>1, <4>2, <4>6, <1>1 DEF R, Rest, Named
      <4>8. len - 1 \in 0 .. len
        BY <4>2, <4>6, <1>1
      <4>. QED
        BY <4>7, <4>8
    <3>. QED
      BY <3>1, <3>2
  <2>2. R = 1 .. n
    <3>1. PICK m \in 0 .. len : R = 1 .. m
      BY <2>1
    <3>2. m \in Nat
      BY <1>1
    <3>3. Cardinality(1 .. m) = m
      BY <3>2, FS_Interval
    <3>. QED
      BY <3>1, <3>3 DEF R
  <2>. QED
    BY <2>2, <1>4, <1>13, NthOfAll
<1>. QED
  BY <1>4, <1>5, <1>6, <1>7, <1>8, <1>11, <1>13, <1>14, <1>15 DEF MovesToFront, R

\* What a removal leaves: definitions of other names, their entries, and, as
\* long as none was moved, good pointers.
Survived(name, ss, n, E) ==
  /\ \A i \in 1 .. n : /\ ss[i].name # Trim[name] /\ ss[i].job <= adds
                       /\ ~ss[i].valid => ss[i].entry = 0
  /\ \A i, j \in 1 .. n : ss[i].name = ss[j].name /\ Tidy(ss[i].name) => i = j
  /\ \A i, j \in 1 .. n : ss[i].job = ss[j].job => i = j
  /\ \A e \in E : \E i \in 1 .. n : ss[i].entry = e.id /\ ss[i].job = e.made
  /\ c # 0 => \A i \in 1 .. n : ss[i].valid =>
                \E e \in E : e.id = ss[i].entry /\ e.made = ss[i].job
  /\ ~shifted /\ ~Shifts(name) => \A e \in E : e.array = gen =>
         e.slot \in 1 .. n /\ ss[e.slot].job = e.made

\* That is what removeScheduleLocked leaves.
LEMMA Survivors ==
  ASSUME DefsInv, NEW name \in Names
  PROVE  Survived(name, Compacted(name), Cardinality(Rest(name)), entries \ Dropped(name))
<1> DEFINE ss == Compacted(name)
           n == Cardinality(Rest(name))
           E == entries \ Dropped(name)
<1>0. ss = Compacted(name) /\ n = Cardinality(Rest(name)) /\ E = entries \ Dropped(name)
  OBVIOUS
<1> HIDE DEF ss, n, E
<1> DEFINE R == Rest(name)
           at(i) == Nth(R, i)
<1>1. /\ TypeOK /\ DefsApart /\ EntriesApart /\ DefsRegistered /\ PointersGood
  BY DEF DefsInv
<1>2. /\ \A i \in 1 .. n : at(i) \in R /\ ss[i] = slots[at(i)]
      /\ \A k \in R : Rank(R, k) \in 1 .. n /\ ss[Rank(R, k)] = slots[k]
      /\ \A i, j \in 1 .. n : at(i) = at(j) => i = j
      /\ ~Shifts(name) => R = 1 .. n /\ \A i \in 1 .. n : ss[i] = slots[i]
  <2>1. MovesToFront(name, Rest(name), Compacted(name), Cardinality(Rest(name)))
    BY <1>1, Removal DEF MovesToFront
  <2>2. MovesToFront(name, R, ss, n)
    BY <2>1, <1>0
  <2> HIDE DEF R
  <2>. QED
    BY <2>2 DEF MovesToFront
<1>3. \A k \in R : k \in 1 .. len /\ k \notin Named(name) /\ slots[k].name # Trim[name]
  BY DEF Rest, Named
<1> HIDE DEF R, at
<1>4. \A i \in 1 .. n : /\ ss[i].name # Trim[name] /\ ss[i].job <= adds
                        /\ ~ss[i].valid => ss[i].entry = 0
  BY <1>1, <1>2, <1>3 DEF DefsApart
<1>5. \A i, j \in 1 .. n : ss[i].name = ss[j].name /\ Tidy(ss[i].name) => i = j
  BY <1>1, <1>2, <1>3 DEF DefsApart
<1>6. \A i, j \in 1 .. n : ss[i].job = ss[j].job => i = j
  BY <1>1, <1>2, <1>3 DEF DefsApart
<1>7. \A e \in E, i \in 1 .. len : slots[i].entry = e.id => i \in R
  BY <1>0 DEF Dropped, R, Rest
<1>8. \A e \in E : \E i \in 1 .. n : ss[i].entry = e.id /\ ss[i].job = e.made
  <2> SUFFICES ASSUME NEW e \in E
               PROVE  \E i \in 1 .. n : ss[i].entry = e.id /\ ss[i].job = e.made
    OBVIOUS
  <2>1. PICK k \in 1 .. len : slots[k].entry = e.id /\ slots[k].job = e.made
    BY <1>0, <1>1 DEF EntriesApart
  <2>2. k \in R
    BY <1>7, <2>1
  <2>. QED
    BY <1>2, <2>1, <2>2
<1>9. ASSUME c # 0, NEW i \in 1 .. n, ss[i].valid
      PROVE  \E e \in E : e.id = ss[i].entry /\ e.made = ss[i].job
  <2>1. at(i) \in 1 .. len /\ at(i) \notin Named(name) /\ ss[i] = slots[at(i)]
    BY <1>2, <1>3
  <2>2. PICK e \in entries : e.id = slots[at(i)].entry /\ e.made = slots[at(i)].job
    BY <1>1, <1>9, <2>1 DEF DefsRegistered
  <2>3. e \notin Dropped(name)
    <3> SUFFICES ASSUME NEW j \in Named(name), slots[j].entry = e.id PROVE FALSE
      BY DEF Dropped
    <3>1. j \in 1 .. len
      BY DEF Named
    <3>2. e.id # 0
      BY <1>1 DEF EntriesApart
    <3>3. slots[j].valid
      BY <1>1, <3>1, <3>2 DEF DefsApart
    <3>4. PICK f \in entries : f.id = slots[j].entry /\ f.made = slots[j].job
      BY <1>1, <1>9, <3>1, <3>3 DEF DefsRegistered
    <3>5. f = e
      BY <1>1, <3>4 DEF EntriesApart
    <3>6. j = at(i)
      BY <1>1, <2>1, <2>2, <3>1, <3>4, <3>5 DEF DefsApart
    <3>. QED
      BY <2>1, <3>6
  <2>. QED
    BY <1>0, <2>1, <2>2, <2>3
<1>10. ASSUME ~shifted, ~Shifts(name), NEW e \in E, e.array = gen
       PROVE  e.slot \in 1 .. n /\ ss[e.slot].job = e.made
  <2>1. e.slot \in 1 .. len /\ slots[e.slot].job = e.made
    BY <1>0, <1>1, <1>10 DEF PointersGood, JobRun, slots
  <2>2. PICK k \in 1 .. len : slots[k].entry = e.id /\ slots[k].job = e.made
    BY <1>0, <1>1 DEF EntriesApart
  <2>3. k = e.slot
    BY <1>1, <2>1, <2>2 DEF DefsApart
  <2>4. e.slot \in R
    BY <1>7, <2>2, <2>3
  <2>. QED
    BY <1>2, <1>10, <2>1, <2>4
<1>. QED
  BY <1>4, <1>5, <1>6, <1>8, <1>9, <1>10 DEF Survived, ss, n, E

\* Remove keeps the invariant.
LEMMA RemoveKeeps ==
  ASSUME DefsInv, NEW name \in Names, Remove(name)
  PROVE  DefsInv'
<1> DEFINE ss == Compacted(name)
           n == Cardinality(Rest(name))
           E == entries \ Dropped(name)
<1>1. TypeOK /\ LifecycleAgrees /\ DefsApart /\ EntriesApart /\ DefsRegistered /\ PointersGood
  BY DEF DefsInv
<1>2. /\ n \in Nat /\ n <= len /\ n = len - Cardinality(Named(name))
      /\ ss \in Seq(Def) /\ Len(ss) = Len(slots)
  BY <1>1, Removal DEF MovesToFront
<1>3. Survived(name, ss, n, E)
  BY Survivors
<1> HIDE DEF ss, n, E
<1>4. /\ entries' = E /\ len' = n /\ arrays' = [arrays EXCEPT ![gen] = ss]
      /\ shifted' = (shifted \/ Shifts(name))
      /\ UNCHANGED <<lifecycleVars, adds, nextEntry>>
  BY <1>2 DEF Remove, ss, E
<1>5. /\ gen \in Nat \ {0} /\ arrays \in Seq(Seq(Def)) /\ gen = Len(arrays)
      /\ \A g \in 1 .. gen : arrays[g] \in Seq(Def)
  BY <1>1, Types DEF TypeOK, gen
<1>6. /\ arrays' \in Seq(Seq(Def)) /\ gen' = gen /\ slots' = ss
      /\ \A g \in 1 .. gen : arrays'[g] = IF g = gen THEN ss ELSE arrays[g]
  <2>1. gen \in 1 .. Len(arrays)
    BY <1>5
  <2>2. /\ arrays' \in Seq(Seq(Def)) /\ Len(arrays') = Len(arrays)
        /\ \A g \in 1 .. Len(arrays) : arrays'[g] = IF g = gen THEN ss ELSE arrays[g]
    BY <1>2, <1>4, <1>5, <2>1, ExceptSeq
  <2>3. gen' = gen
    BY <2>2, <1>5 DEF gen
  <2>. QED
    BY <2>1, <2>2, <2>3, <1>5 DEF slots
<1>7. TypeOK'
  <2>1. LifecycleTypeOK' /\ adds' = adds /\ nextEntry' = nextEntry
    BY <1>1, <1>4 DEF TypeOK, lifecycleVars, LifecycleTypeOK
  <2>2. \A g \in 1 .. gen : Len(arrays'[g]) = Len(arrays[g])
    BY <1>2, <1>6 DEF slots
  <2>3. len' \in 0 .. Len(slots')
    <3>1. Len(slots) \in Nat /\ len \in Nat /\ len <= Len(slots)
      BY <1>1, Types
    <3>. QED
      BY <1>2, <1>4, <1>6, <3>1
  <2>4. shifted' \in BOOLEAN
    BY <1>1, <1>4 DEF TypeOK
  <2>5. entries' \subseteq Entry
    BY <1>1, <1>4 DEF TypeOK, E
  <2>6. \A g \in 1 .. gen' : Len(arrays'[g]) <= Capacity[g]
    BY <1>1, <1>6, <2>2 DEF TypeOK
  <2>7. gen' \in 1 .. adds' + 1 /\ adds' \in 0 .. MaxAdds /\ nextEntry' \in Nat
    BY <1>1, <1>6, <2>1 DEF TypeOK
  <2>. QED
    BY <1>6, <2>1, <2>3, <2>4, <2>5, <2>6, <2>7 DEF TypeOK
<1>8. LifecycleAgrees'
  BY <1>1, <1>4 DEF LifecycleAgrees, lifecycleVars
<1>9. DefsApart'
  BY <1>3, <1>4, <1>6 DEF DefsApart, Survived
<1>10. EntriesApart'
  <2>1. c' = c /\ nextEntry' = nextEntry
    BY <1>4 DEF lifecycleVars
  <2>2. \A e \in E : e \in entries
    BY DEF E
  <2>. QED
    BY <1>1, <1>3, <1>4, <1>6, <2>1, <2>2 DEF EntriesApart, Survived
<1>11. DefsRegistered'
  <2>1. c' = c
    BY <1>4 DEF lifecycleVars
  <2>. QED
    BY <1>3, <1>4, <1>6, <2>1 DEF DefsRegistered, Survived
<1>12. PointersGood'
  <2> SUFFICES ASSUME ~shifted', NEW e \in E
               PROVE  /\ e.array \in 1 .. gen /\ arrays'[e.array][e.slot].job = e.made
                      /\ e.array = gen => e.slot \in 1 .. n
    BY <1>4, <1>6 DEF PointersGood, JobRun
  <2>1. ~shifted /\ ~Shifts(name) /\ e \in entries
    BY <1>4 DEF E
  <2>2. e.array \in 1 .. gen /\ arrays[e.array][e.slot].job = e.made
    BY <1>1, <2>1 DEF PointersGood, JobRun
  <2>. QED
    BY <1>3, <1>6, <2>1, <2>2 DEF Survived
<1>. QED
  BY <1>7, <1>8, <1>9, <1>10, <1>11, <1>12 DEF DefsInv

---------------------------------------------------------------------------
(* Registrations                                                           *)

\* What append makes of the arrays: the definitions before stay what they are,
\* the new one is behind them, and no older array changes.
IsAppended(ss, n, d, arr) ==
  /\ arr \in Seq(Seq(Def)) /\ Len(arr) \in {gen, gen + 1}
  /\ \A g \in 1 .. Len(arr) : Len(arr[g]) <= Capacity[g]
  /\ Len(arr[Len(arr)]) \in Nat /\ n + 1 <= Len(arr[Len(arr)])
  /\ \A i \in 1 .. n : arr[Len(arr)][i] = ss[i]
  /\ arr[Len(arr)][n + 1] = d
  /\ \A g \in 1 .. gen : g # gen => arr[g] = arrays[g]
  /\ Len(arr) # gen => arr[gen] = ss

\* So it is in place as well as in a new array.
LEMMA AppendedArrays ==
  ASSUME TypeOK, adds < MaxAdds,
         NEW ss \in Seq(Def), Len(ss) = Len(slots),
         NEW n \in Nat, n <= Len(ss), NEW d \in Def
  PROVE  IsAppended(ss, n, d, Appended(ss, n, d))
<1> DEFINE arr == Appended(ss, n, d)
<1>1. /\ gen \in Nat \ {0} /\ arrays \in Seq(Seq(Def)) /\ gen = Len(arrays) /\ adds \in Nat
      /\ \A g \in 1 .. gen : Len(arrays[g]) <= Capacity[g]
  BY Types DEF TypeOK, gen
<1>2. /\ gen \in 1 .. MaxAdds /\ gen + 1 \in 1 .. MaxAdds + 1
      /\ Capacity[gen] \in Nat /\ Capacity[gen + 1] \in Nat /\ Capacity[gen] < Capacity[gen + 1]
      /\ Len(ss) \in Nat /\ Len(ss) <= Capacity[gen]
  <2>1. gen \in 1 .. MaxAdds /\ gen + 1 \in 1 .. MaxAdds + 1 /\ gen \in 1 .. MaxAdds + 1
    <3>1. gen \in 1 .. adds + 1 /\ adds \in Nat /\ MaxAdds \in Nat
      BY <1>1, DefsAssumption DEF TypeOK
    <3>. QED
      BY <3>1, <1>1
  <2>2. Len(slots) <= Capacity[gen]
    BY <1>1 DEF slots
  <2>. QED
    BY <2>1, <2>2, DefsAssumption, LenProperties
<1>3. ASSUME NEW m \in Nat, n + 1 <= m, m <= Len(ss) \/ m = n + 1
      PROVE  /\ Put(ss, n, d, m) \in Seq(Def) /\ Len(Put(ss, n, d, m)) = m
             /\ \A i \in 1 .. n : Put(ss, n, d, m)[i] = ss[i]
             /\ Put(ss, n, d, m)[n + 1] = d
  <2>1. Put(ss, n, d, m) \in [1 .. m -> Def]
    <3>1. \A i \in 1 .. m : i # n + 1 => i \in 1 .. Len(ss)
      BY <1>2, <1>3
    <3>2. \A i \in 1 .. m : i # n + 1 => ss[i] \in Def
      BY <3>1, ElementOfSeq
    <3>. QED
      BY <3>2 DEF Put
  <2>2. Put(ss, n, d, m) \in Seq(Def) /\ Len(Put(ss, n, d, m)) = m
    BY <2>1, <1>3, SeqDef, LenProperties
  <2>3. n + 1 \in 1 .. m /\ \A i \in 1 .. n : i \in 1 .. m /\ i # n + 1
    BY <1>3
  <2>. QED
    BY <2>2, <2>3 DEF Put
<1>4. CASE n < Capacity[gen]
  <2> DEFINE m == IF n < Len(ss) THEN Len(ss) ELSE n + 1
             p == Put(ss, n, d, m)
  <2>1. m \in Nat /\ n + 1 <= m /\ (m <= Len(ss) \/ m = n + 1) /\ m <= Capacity[gen]
    BY <1>2, <1>4
  <2>2. arr = [arrays EXCEPT ![gen] = p]
    BY <1>4 DEF Appended
  <2> HIDE DEF m
  <2>3. /\ p \in Seq(Def) /\ Len(p) = m
        /\ \A i \in 1 .. n : p[i] = ss[i]
        /\ p[n + 1] = d
    BY <1>3, <2>1
  <2> HIDE DEF p
  <2>4. gen \in 1 .. Len(arrays)
    BY <1>1
  <2>5. /\ arr \in Seq(Seq(Def)) /\ Len(arr) = gen
        /\ \A g \in 1 .. gen : arr[g] = IF g = gen THEN p ELSE arrays[g]
    BY <1>1, <2>2, <2>3, <2>4, ExceptSeq
  <2>6. arr[Len(arr)] = p
    BY <1>1, <2>4, <2>5
  <2>7. \A g \in 1 .. Len(arr) : Len(arr[g]) <= Capacity[g]
    BY <1>1, <2>1, <2>3, <2>5
  <2>. QED
    BY <2>1, <2>3, <2>5, <2>6, <2>7 DEF IsAppended
<1>5. CASE ~(n < Capacity[gen])
  <2> DEFINE p == Put(ss, n, d, n + 1)
             old == [arrays EXCEPT ![gen] = ss]
  <2>1. n = Capacity[gen] /\ n + 1 \in Nat
    BY <1>2, <1>5
  <2>2. arr = Append(old, p)
    BY <1>5 DEF Appended
  <2>3. /\ p \in Seq(Def) /\ Len(p) = n + 1
        /\ \A i \in 1 .. n : p[i] = ss[i]
        /\ p[n + 1] = d
    BY <1>3, <2>1
  <2> HIDE DEF p
  <2>4. gen \in 1 .. Len(arrays)
    BY <1>1
  <2>5. /\ old \in Seq(Seq(Def)) /\ Len(old) = gen
        /\ \A g \in 1 .. gen : old[g] = IF g = gen THEN ss ELSE arrays[g]
    BY <1>1, <2>4, ExceptSeq
  <2> HIDE DEF old
  <2>6. /\ arr \in Seq(Seq(Def)) /\ Len(arr) = gen + 1
        /\ \A g \in 1 .. gen : arr[g] = old[g]
        /\ arr[gen + 1] = p
    BY <2>2, <2>3, <2>5, AppendProperties
  <2>7. \A g \in 1 .. Len(arr) : Len(arr[g]) <= Capacity[g]
    <3> SUFFICES ASSUME NEW g \in 1 .. gen + 1 PROVE Len(arr[g]) <= Capacity[g]
      BY <2>6
    <3>1. CASE g = gen + 1
      BY <3>1, <2>1, <2>3, <2>6, <1>2
    <3>2. CASE g # gen + 1
      <4>1. g \in 1 .. gen
        BY <3>2, <1>1
      <4>. QED
        BY <4>1, <1>1, <1>2, <2>5, <2>6
    <3>. QED
      BY <3>1, <3>2
  <2>8. arr[Len(arr)] = p /\ gen \in 1 .. gen
    BY <1>1, <2>6
  <2>9. \A g \in 1 .. gen : g # gen => arr[g] = arrays[g]
    BY <2>5, <2>6
  <2>10. arr[gen] = ss
    BY <2>5, <2>6, <2>8
  <2>11. Len(p) \in Nat /\ n + 1 <= Len(p)
    BY <2>1, <2>3
  <2>. QED
    BY <2>3, <2>6, <2>7, <2>8, <2>9, <2>10, <2>11 DEF IsAppended
<1>. QED
  BY <1>4, <1>5

\* AddCronOpt and AddIntervalOpt keep the invariant.
LEMMA AddKeeps ==
  ASSUME DefsInv, NEW name \in Names, NEW valid \in BOOLEAN, Add(name, valid)
  PROVE  DefsInv'
<1> DEFINE ss == Compacted(name)
           n == Cardinality(Rest(name))
           E == entries \ Dropped(name)
           new == c # 0 /\ valid
           d == [name |-> name, job |-> adds + 1, valid |-> valid,
                 entry |-> IF c # 0 /\ valid THEN nextEntry + 1 ELSE 0]
           e == [id |-> nextEntry + 1, made |-> adds + 1,
                 array |-> gen', slot |-> n + 1]
<1>1. TypeOK /\ LifecycleAgrees /\ DefsApart /\ EntriesApart /\ DefsRegistered /\ PointersGood
  BY DEF DefsInv
<1>2. /\ n \in Nat /\ n <= len /\ n = len - Cardinality(Named(name))
      /\ ss \in Seq(Def) /\ Len(ss) = Len(slots)
  BY <1>1, Removal DEF MovesToFront
<1>3. Survived(name, ss, n, E)
  BY Survivors
<1>4. /\ gen \in Nat \ {0} /\ len \in Nat /\ Len(slots) \in Nat /\ len <= Len(slots)
      /\ adds \in Nat /\ nextEntry \in Nat /\ MaxAdds \in Nat
  BY <1>1, Types, DefsAssumption DEF TypeOK
<1>5. /\ adds < MaxAdds /\ adds' = adds + 1 /\ len' = n + 1
      /\ arrays' = Appended(ss, n, d)
      /\ entries' = E \cup (IF new THEN {e} ELSE {})
      /\ nextEntry' = (IF new THEN nextEntry + 1 ELSE nextEntry)
      /\ shifted' = (shifted \/ Shifts(name))
      /\ UNCHANGED lifecycleVars
  BY <1>2 DEF Add, gen
<1>6. /\ d \in Def /\ d.name = name /\ d.job = adds + 1 /\ d.valid = valid
      /\ d.entry = (IF new THEN nextEntry + 1 ELSE 0)
  BY <1>4, <1>5 DEF Def, Jobs
<1>7. /\ e.id = nextEntry + 1 /\ e.made = adds + 1 /\ e.array = gen' /\ e.slot = n + 1
  OBVIOUS
<1> HIDE DEF ss, n, E, d
<1>8. n <= Len(ss) /\ n + 1 \in Nat
  BY <1>2, <1>4
<1>9. /\ arrays' \in Seq(Seq(Def)) /\ gen' \in {gen, gen + 1}
      /\ \A g \in 1 .. gen' : Len(arrays'[g]) <= Capacity[g]
      /\ Len(slots') \in Nat /\ n + 1 <= Len(slots')
      /\ \A i \in 1 .. n : slots'[i] = ss[i]
      /\ slots'[n + 1] = d
      /\ \A g \in 1 .. gen : g # gen => arrays'[g] = arrays[g]
      /\ gen' # gen => arrays'[gen] = ss
  <2> DEFINE h == Len(arrays')
  <2>1. /\ arrays' \in Seq(Seq(Def)) /\ h \in {gen, gen + 1}
        /\ \A g \in 1 .. h : Len(arrays'[g]) <= Capacity[g]
        /\ Len(arrays'[h]) \in Nat /\ n + 1 <= Len(arrays'[h])
        /\ \A i \in 1 .. n : arrays'[h][i] = ss[i]
        /\ arrays'[h][n + 1] = d
        /\ \A g \in 1 .. gen : g # gen => arrays'[g] = arrays[g]
        /\ h # gen => arrays'[gen] = ss
    <3>1. IsAppended(ss, n, d, arrays')
      BY <1>1, <1>2, <1>5, <1>6, <1>8, AppendedArrays
    <3>. QED
      BY <3>1 DEF IsAppended
  <2>2. gen' = h /\ slots' = arrays'[h]
    BY DEF gen, slots
  <2>. QED
    BY <2>1, <2>2
<1>10. e \in Entry
  BY <1>2, <1>4, <1>5, <1>9 DEF Entry, Jobs
<1> HIDE DEF e
<1>11. UNCHANGED lifecycleVars /\ c' = c
  BY <1>5 DEF lifecycleVars
<1>12. \A i \in 1 .. n + 1 : i \in 1 .. n \/ i = n + 1
  BY <1>2
<1>13. \A i \in 1 .. n : i \in 1 .. len'
  BY <1>2, <1>5
<1>14. TypeOK'
  <2>1. LifecycleTypeOK'
    BY <1>1, <1>11 DEF TypeOK, lifecycleVars, LifecycleTypeOK
  <2>2. adds' \in 0 .. MaxAdds /\ nextEntry' \in Nat /\ len' \in 0 .. Len(slots')
    BY <1>2, <1>4, <1>5, <1>9
  <2>3. gen' \in 1 .. adds' + 1
    BY <1>1, <1>4, <1>5, <1>9 DEF TypeOK
  <2>4. entries' \subseteq Entry
    BY <1>1, <1>5, <1>10 DEF TypeOK, E
  <2>5. shifted' \in BOOLEAN
    BY <1>1, <1>5 DEF TypeOK
  <2>. QED
    BY <1>9, <2>1, <2>2, <2>3, <2>4, <2>5 DEF TypeOK
<1>15. LifecycleAgrees'
  BY <1>1, <1>11 DEF LifecycleAgrees, lifecycleVars
<1>16. DefsApart'
  <2>1. \A i \in 1 .. n : (Tidy(d.name) => ss[i].name # d.name) /\ ss[i].job # d.job
    <3> SUFFICES ASSUME NEW i \in 1 .. n
                 PROVE  (Tidy(name) => ss[i].name # name) /\ ss[i].job # d.job
      BY <1>6
    <3>1. (Tidy(name) => ss[i].name # name) /\ ss[i].job <= adds
      BY <1>3 DEF Survived, Tidy
    <3>2. ss[i].job # adds + 1
      BY <3>1, <1>4
    <3>. QED
      BY <3>1, <3>2, <1>6
  <2>2. \A i \in 1 .. n + 1 : slots'[i].job <= adds + 1
    <3>1. \A i \in 1 .. n : ss[i].job <= adds + 1
      <4> SUFFICES ASSUME NEW i \in 1 .. n PROVE ss[i].job <= adds + 1
        OBVIOUS
      <4>1. ss[i].job <= adds /\ ss[i].job \in Nat
        <5>1. i \in 1 .. Len(ss)
          BY <1>2, <1>4, <1>8
        <5>2. ss[i] \in Def
          BY <5>1, <1>2, ElementOfSeq
        <5>. QED
          BY <5>2, <1>3 DEF Survived, Def, Jobs
      <4>. QED
        BY <4>1, <1>4
    <3>2. \A i \in 1 .. n : slots'[i].job <= adds + 1
      BY <3>1, <1>9
    <3>3. slots'[n + 1].job <= adds + 1
      <4>1. slots'[n + 1].job = adds + 1
        BY <1>6, <1>9
      <4>. QED
        BY <4>1, <1>4
    <3>. QED
      BY <3>2, <3>3, <1>12
  <2>3. \A i \in 1 .. n + 1 : ~slots'[i].valid => slots'[i].entry = 0
    BY <1>3, <1>6, <1>9, <1>12 DEF Survived
  <2>4. \A i, j \in 1 .. n + 1 :
          slots'[i].name = slots'[j].name /\ Tidy(slots'[i].name) => i = j
    BY <2>1, <1>3, <1>9, <1>12 DEF Survived
  <2>5. \A i, j \in 1 .. n + 1 : slots'[i].job = slots'[j].job => i = j
    BY <2>1, <1>3, <1>9, <1>12 DEF Survived
  <2>. QED
    BY <2>2, <2>3, <2>4, <2>5, <1>5 DEF DefsApart
<1>17. EntriesApart'
  <2>1. \A f \in E : f \in entries /\ f.id \in 1 .. nextEntry /\ f.id # nextEntry + 1
    BY <1>1, <1>4 DEF EntriesApart, E
  <2>2. \A f, g \in entries' : f.id = g.id => f = g
    BY <2>1, <1>1, <1>5, <1>7 DEF EntriesApart
  <2>3. \A f \in entries' : f.id \in 1 .. nextEntry'
    <3>1. \A f \in E : f.id \in 1 .. nextEntry'
      BY <2>1, <1>4, <1>5
    <3>2. new => e.id \in 1 .. nextEntry'
      BY <1>4, <1>5, <1>7
    <3>. QED
      BY <3>1, <3>2, <1>5
  <2>4. c' = 0 => entries' = {}
    BY <1>1, <1>5, <1>11 DEF EntriesApart, E
  <2>5. \A f \in entries' : \E i \in 1 .. len' : slots'[i].entry = f.id /\ slots'[i].job = f.made
    <3>1. \A f \in E : \E i \in 1 .. len' : slots'[i].entry = f.id /\ slots'[i].job = f.made
      <4> SUFFICES ASSUME NEW f \in E
                   PROVE  \E i \in 1 .. len' : slots'[i].entry = f.id /\ slots'[i].job = f.made
        OBVIOUS
      <4>1. PICK i \in 1 .. n : ss[i].entry = f.id /\ ss[i].job = f.made
        BY <1>3 DEF Survived
      <4>. QED
        BY <4>1, <1>9, <1>13
    <3>2. n + 1 \in 1 .. len'
      BY <1>2, <1>5
    <3>3. new => slots'[n + 1].entry = e.id /\ slots'[n + 1].job = e.made
      BY <1>6, <1>7, <1>9
    <3>. QED
      BY <3>1, <3>2, <3>3, <1>5
  <2>. QED
    BY <2>2, <2>3, <2>4, <2>5 DEF EntriesApart
<1>18. DefsRegistered'
  <2> SUFFICES ASSUME c # 0, NEW i \in 1 .. n + 1, slots'[i].valid
               PROVE  \E f \in entries' : f.id = slots'[i].entry /\ f.made = slots'[i].job
    BY <1>5, <1>11 DEF DefsRegistered
  <2>1. CASE i = n + 1
    BY <2>1, <1>5, <1>6, <1>7, <1>9
  <2>2. CASE i \in 1 .. n
    <3>1. slots'[i] = ss[i]
      BY <2>2, <1>5, <1>9
    <3>2. \E f \in E : f.id = ss[i].entry /\ f.made = ss[i].job
      BY <2>2, <3>1, <1>3 DEF Survived
    <3>. QED
      BY <3>1, <3>2, <1>5
  <2>. QED
    BY <2>1, <2>2, <1>12
<1>19. PointersGood'
  <2> SUFFICES ASSUME ~shifted', NEW f \in entries'
               PROVE  /\ f.array \in 1 .. gen' /\ arrays'[f.array][f.slot].job = f.made
                      /\ f.array = gen' => f.slot \in 1 .. len'
    BY DEF PointersGood, JobRun
  <2>1. ~shifted /\ ~Shifts(name)
    BY <1>5
  <2>2. CASE f \in E
    <3>1. f.array \in 1 .. gen /\ arrays[f.array][f.slot].job = f.made
      BY <1>1, <2>1, <2>2 DEF PointersGood, JobRun, E
    <3>2. f.array = gen => f.slot \in 1 .. n /\ ss[f.slot].job = f.made
      BY <1>3, <2>1, <2>2 DEF Survived
    <3>3. f.array \in 1 .. gen' /\ (f.array = gen' => gen' = gen)
      BY <3>1, <1>4, <1>9
    <3>4. CASE f.array # gen
      BY <3>1, <3>3, <3>4, <1>9
    <3>5. CASE f.array = gen
      <4>1. f.slot \in 1 .. n /\ f.slot \in 1 .. len'
        BY <3>2, <3>5, <1>13
      <4>2. CASE gen' = gen
        <5>1. slots' = arrays'[gen']
          BY DEF slots
        <5>. QED
          BY <3>2, <3>3, <3>5, <4>1, <4>2, <5>1, <1>9
      <4>3. CASE gen' # gen
        BY <3>2, <3>3, <3>5, <4>1, <4>3, <1>9
      <4>. QED
        BY <4>2, <4>3
    <3>. QED
      BY <3>4, <3>5
  <2>3. CASE f = e
    <3>1. gen' \in 1 .. gen' /\ n + 1 \in 1 .. len'
      BY <1>2, <1>4, <1>5, <1>9
    <3>2. arrays'[gen'][n + 1].job = adds + 1
      BY <1>6, <1>9 DEF slots
    <3>. QED
      BY <2>3, <3>1, <3>2, <1>7
  <2>. QED
    BY <2>2, <2>3, <1>5
<1>. QED
  BY <1>14, <1>15, <1>16, <1>17, <1>18, <1>19 DEF DefsInv

---------------------------------------------------------------------------
(* Start, Stop and Apply                                                   *)

\* A cron that was just made gets an entry for each definition it can parse.
LEMMA RegisterKeeps ==
  ASSUME DefsInv, Register, LifecycleTypeOK', LifecycleAgrees', c' # 0
  PROVE  DefsInv'
<1> DEFINE V == Valid
           r(i) == Rank(V, i)
           entry(i) == [id |-> r(i), made |-> slots[i].job, array |-> gen, slot |-> i]
<1>1. TypeOK /\ LifecycleAgrees /\ DefsApart
  BY DEF DefsInv
<1>2. /\ gen \in Nat \ {0} /\ arrays \in Seq(Seq(Def)) /\ gen = Len(arrays)
      /\ Len(slots) \in Nat /\ len \in Nat /\ len <= Len(slots)
      /\ \A i \in 1 .. Len(slots) : slots[i] \in Def
  BY <1>1, Types DEF TypeOK, gen
<1>3. V \in SUBSET (1 .. len) /\ \A i \in V : slots[i].valid
  BY DEF Valid
<1>4. Cardinality(V) \in Nat /\ \A i \in V : r(i) \in 1 .. Cardinality(V) /\ Nth(V, r(i)) = i
  BY <1>2, <1>3, RankType, NthOfRank
<1>5. \A i, j \in V : r(i) = r(j) => i = j
  BY <1>4
<1>6. \A i \in 1 .. len : slots[i].valid => i \in V
  BY DEF Valid
<1>7. /\ arrays' = [arrays EXCEPT ![gen] = Registered]
      /\ Registered = [i \in 1 .. Len(slots) |->
                         IF i \in V THEN [slots[i] EXCEPT !.entry = r(i)] ELSE slots[i]]
      /\ entries' = {entry(i) : i \in V}
      /\ nextEntry' = Cardinality(V) /\ shifted' = FALSE /\ adds' = adds /\ len' = len
  BY DEF Register, Registered
<1> HIDE DEF V, r
<1>8. \A i \in V : r(i) \in Nat
  BY <1>4
<1>9. \A i \in 1 .. Len(slots) :
        /\ Registered[i] \in Def
        /\ Registered[i].name = slots[i].name /\ Registered[i].job = slots[i].job
        /\ Registered[i].valid = slots[i].valid
        /\ Registered[i].entry = IF i \in V THEN r(i) ELSE slots[i].entry
  <2> SUFFICES ASSUME NEW i \in 1 .. Len(slots)
               PROVE  /\ Registered[i] \in Def
                      /\ Registered[i].name = slots[i].name /\ Registered[i].job = slots[i].job
                      /\ Registered[i].valid = slots[i].valid
                      /\ Registered[i].entry = IF i \in V THEN r(i) ELSE slots[i].entry
    OBVIOUS
  <2>1. slots[i] \in Def
    BY <1>2
  <2>2. CASE i \in V
    <3>1. Registered[i] = [slots[i] EXCEPT !.entry = r(i)] /\ r(i) \in Nat
      BY <2>2, <1>7, <1>8
    <3>. QED
      BY <2>1, <2>2, <3>1 DEF Def
  <2>3. CASE i \notin V
    BY <2>1, <2>3, <1>7
  <2>. QED
    BY <2>2, <2>3
<1>10. Registered \in Seq(Def) /\ Len(Registered) = Len(slots)
  <2>1. Registered \in [1 .. Len(slots) -> Def]
    BY <1>7, <1>9
  <2>. QED
    BY <2>1, <1>2, SeqDef, LenProperties
<1>11. /\ arrays' \in Seq(Seq(Def)) /\ gen' = gen /\ slots' = Registered
       /\ \A g \in 1 .. gen : arrays'[g] = IF g = gen THEN Registered ELSE arrays[g]
  <2>1. gen \in 1 .. Len(arrays)
    BY <1>2
  <2>2. /\ arrays' \in Seq(Seq(Def)) /\ Len(arrays') = Len(arrays)
        /\ \A g \in 1 .. Len(arrays) : arrays'[g] = IF g = gen THEN Registered ELSE arrays[g]
    <3>1. arrays' = [arrays EXCEPT ![gen] = Registered]
      BY <1>7
    <3>. QED
      BY <3>1, <1>2, <1>10, <2>1, ExceptSeq
  <2>3. gen' = gen
    BY <2>2, <1>2 DEF gen
  <2>. QED
    BY <2>1, <2>2, <2>3, <1>2 DEF slots
<1>12. \A i \in 1 .. len : i \in 1 .. Len(slots)
  BY <1>2
<1>13. \A i \in V : i \in 1 .. len /\ i \in Nat
  BY <1>2, <1>3
<1>14. \A i \in V : entry(i) \in Entry
  <2> SUFFICES ASSUME NEW i \in V PROVE entry(i) \in Entry
    OBVIOUS
  <2>1. slots[i].job \in Jobs /\ r(i) \in Nat /\ i \in Nat /\ gen \in Nat
    BY <1>2, <1>8, <1>12, <1>13 DEF Def
  <2>. QED
    BY <2>1 DEF Entry
<1>15. /\ \A i \in V : /\ entry(i).id = r(i) /\ entry(i).made = slots[i].job
                       /\ entry(i).array = gen /\ entry(i).slot = i
  OBVIOUS
<1> HIDE DEF entry
<1>16. TypeOK'
  <2>1. \A g \in 1 .. gen : Len(arrays'[g]) <= Capacity[g]
    BY <1>1, <1>10, <1>11 DEF TypeOK, slots
  <2>2. entries' \subseteq Entry
    BY <1>7, <1>14
  <2>3. len' \in 0 .. Len(slots')
    BY <1>2, <1>7, <1>10, <1>11
  <2>4. gen' \in 1 .. adds' + 1 /\ adds' \in 0 .. MaxAdds
    BY <1>1, <1>7, <1>11 DEF TypeOK
  <2>. QED
    BY <1>4, <1>7, <1>11, <2>1, <2>2, <2>3, <2>4 DEF TypeOK
<1>17. DefsApart'
  <2>1. \A i \in 1 .. len : ~slots[i].valid => i \notin V
    BY <1>3
  <2>. QED
    BY <1>1, <1>7, <1>9, <1>11, <1>12, <2>1 DEF DefsApart
<1>18. EntriesApart'
  <2>1. \A e, f \in entries' : e.id = f.id => e = f
    BY <1>5, <1>7, <1>15
  <2>2. \A e \in entries' : e.id \in 1 .. nextEntry'
    BY <1>4, <1>7, <1>15
  <2>3. \A e \in entries' : \E i \in 1 .. len' : slots'[i].entry = e.id /\ slots'[i].job = e.made
    <3> SUFFICES ASSUME NEW i \in V
                 PROVE  /\ i \in 1 .. len' /\ slots'[i].entry = entry(i).id
                        /\ slots'[i].job = entry(i).made
      BY <1>7
    <3>. QED
      BY <1>7, <1>9, <1>11, <1>12, <1>13, <1>15
  <2>. QED
    BY <2>1, <2>2, <2>3 DEF EntriesApart
<1>19. DefsRegistered'
  <2> SUFFICES ASSUME NEW i \in 1 .. len, slots'[i].valid
               PROVE  entry(i) \in entries' /\ entry(i).id = slots'[i].entry
                      /\ entry(i).made = slots'[i].job
    BY <1>7 DEF DefsRegistered
  <2>1. i \in V
    BY <1>6, <1>9, <1>11, <1>12
  <2>. QED
    BY <2>1, <1>7, <1>9, <1>11, <1>12, <1>15
<1>20. PointersGood'
  <2> SUFFICES ASSUME NEW i \in V
               PROVE  /\ entry(i).array \in 1 .. gen' /\ entry(i).slot \in 1 .. len'
                      /\ arrays'[entry(i).array][entry(i).slot].job = entry(i).made
    BY <1>7 DEF PointersGood, JobRun
  <2>1. gen \in 1 .. gen
    BY <1>2
  <2>. QED
    BY <2>1, <1>7, <1>9, <1>11, <1>12, <1>13, <1>15
<1>. QED
  BY <1>16, <1>17, <1>18, <1>19, <1>20 DEF DefsInv

\* A step that leaves s.c and the definitions alone keeps what is said of them.
LEMMA DefsStay ==
  ASSUME DefsInv, UNCHANGED defsVars, c' = c, LifecycleTypeOK', LifecycleAgrees'
  PROVE  DefsInv'
BY DEF DefsInv, defsVars, TypeOK, DefsApart, EntriesApart, DefsRegistered, PointersGood,
       JobRun, gen, slots

\* The counters agree, so a cron's number stays within the bound.
LEMMA StopKeepsLifecycle ==
  ASSUME LifecycleTypeOK, LifecycleAgrees,
         \/ StopBegin \/ StopClose \/ StopCancel \/ StopHalt \/ StopDrain({})
         \/ StopTimers \/ Finalize(FALSE)
  PROVE  LifecycleTypeOK' /\ LifecycleAgrees'
<1> USE LifecycleAssumption
<1> USE DEF LifecycleTypeOK, LifecycleAgrees, Runs, Crons, StopPC
<1>1. CASE StopBegin
  BY <1>1 DEF StopBegin
<1>2. CASE StopClose
  BY <1>2 DEF StopClose
<1>3. CASE StopCancel
  BY <1>3 DEF StopCancel
<1>4. CASE StopHalt \/ StopDrain({})
  BY <1>4 DEF StopHalt, StopDrain
<1>5. CASE StopTimers \/ Finalize(FALSE)
  BY <1>5 DEF StopTimers, Finalize
<1>. QED
  BY <1>1, <1>2, <1>3, <1>4, <1>5

\* So it does in a change of the time zone, and the new cron is not nil.
LEMMA ApplyKeepsLifecycle ==
  ASSUME LifecycleTypeOK, LifecycleAgrees, ApplyRestart \/ ApplyResume({})
  PROVE  /\ LifecycleTypeOK' /\ LifecycleAgrees'
         /\ c' # 0 /\ (ApplyRestart /\ c # 0 => c' = c)
<1> USE LifecycleAssumption
<1> USE DEF LifecycleTypeOK, LifecycleAgrees, Runs, Crons, StopPC
<1>1. CASE ApplyRestart
  <2>1. CASE c # 0
    <3>1. /\ crons = runs + applies /\ crons' = crons /\ applies' = applies + 1
          /\ c' = c /\ ticking' = ticking \ {c} /\ mu' = "apply"
          /\ UNCHANGED <<runs, cur, queue, closed, cancelled, appDone, stopPC, stopCron>>
      BY <1>1, <2>1 DEF ApplyRestart
    <3>2. LifecycleAgrees'
      BY <3>1
    <3>. QED
      BY <1>1, <2>1, <3>1, <3>2 DEF ApplyRestart
  <2>2. CASE c = 0
    <3>1. /\ crons = runs + applies /\ crons' = crons + 1 /\ applies' = applies + 1
          /\ c' = crons + 1 /\ ticking' = ticking \cup {crons + 1}
          /\ mu' = "free" /\ mu = "free"
      BY <1>1, <2>2 DEF ApplyRestart, NewCron
    <3>2. crons + 1 \in Crons /\ crons + 1 # 0
      BY <1>1, <3>1 DEF ApplyRestart
    <3>. QED
      BY <1>1, <2>2, <3>1, <3>2 DEF ApplyRestart
  <2>. QED
    BY <2>1, <2>2
<1>2. CASE ApplyResume({})
  <2>1. LifecycleTypeOK' /\ LifecycleAgrees' /\ c' # 0 /\ c' = crons + 1
    BY <1>2 DEF ApplyResume, NewCron
  <2>2. mu = "apply" /\ ~ApplyRestart
    BY <1>2 DEF ApplyResume, ApplyRestart
  <2>. QED
    BY <2>1, <2>2
<1>. QED
  BY <1>1, <1>2

\* So it does in a start.
LEMMA StartKeepsLifecycle ==
  ASSUME LifecycleTypeOK, LifecycleAgrees, StartRun
  PROVE  LifecycleTypeOK' /\ LifecycleAgrees' /\ c' # 0
BY LifecycleAssumption
   DEF LifecycleTypeOK, LifecycleAgrees, Runs, Crons, StopPC, StartRun, NewCron

\* Stop keeps the invariant: with the cron go its entries.
LEMMA StopKeeps ==
  ASSUME DefsInv, Stop
  PROVE  DefsInv'
<1>1. LifecycleTypeOK /\ LifecycleAgrees
  BY DEF DefsInv, TypeOK
<1>2. LifecycleTypeOK' /\ LifecycleAgrees'
  BY <1>1, StopKeepsLifecycle DEF Stop
<1>3. CASE StopBegin /\ entries' = {} /\ UNCHANGED <<adds, arrays, len, nextEntry, shifted>>
  <2>1. c' = 0
    BY <1>3 DEF StopBegin
  <2>2. TypeOK'
    BY <1>2, <1>3 DEF DefsInv, TypeOK, gen, slots
  <2>3. DefsApart'
    BY <1>3 DEF DefsInv, DefsApart, gen, slots
  <2>4. EntriesApart' /\ DefsRegistered' /\ PointersGood'
    BY <1>3, <2>1 DEF EntriesApart, DefsRegistered, PointersGood
  <2>. QED
    BY <1>2, <2>2, <2>3, <2>4 DEF DefsInv
<1>4. CASE /\ \/ StopClose \/ StopCancel \/ StopHalt \/ StopDrain({}) \/ StopTimers \/ Finalize(FALSE)
           /\ UNCHANGED defsVars
  <2>1. c' = c
    BY <1>4 DEF StopClose, StopCancel, StopHalt, StopDrain, StopTimers, Finalize
  <2>. QED
    BY <1>2, <1>4, <2>1, DefsStay
<1>. QED
  BY <1>3, <1>4 DEF Stop

---------------------------------------------------------------------------
(* The theorems                                                            *)

\* There are no definitions and no entries at first.
LEMMA InitDefsInv == Init => DefsInv
<1> SUFFICES ASSUME Init PROVE DefsInv
  OBVIOUS
<1>1. arrays = << <<>> >> /\ len = 0 /\ entries = {} /\ adds = 0 /\ c = 0 /\ nextEntry = 0 /\ shifted = FALSE
  BY DEF Init, LifecycleInit
<1>2. gen = 1 /\ slots = <<>> /\ arrays \in Seq(Seq(Def))
  <2>1. <<>> \in Seq(Def)
    BY EmptySeq
  <2>. QED
    BY <1>1, <2>1 DEF gen, slots
<1>3. LifecycleTypeOK /\ LifecycleAgrees
  <2>1. LifecycleInit /\ LifecycleAssumption
    BY LifecycleAssumption DEF Init
  <2>2. 0 \in 0 .. MaxRuns /\ 0 \in 0 .. MaxApplies /\ 0 \in 0 .. (MaxRuns + MaxApplies)
    BY <2>1 DEF LifecycleAssumption
  <2>3. LifecycleTypeOK
    BY <2>1, <2>2 DEF LifecycleInit, LifecycleTypeOK, StopPC
  <2>4. LifecycleAgrees
    BY <2>1 DEF LifecycleInit, LifecycleAgrees
  <2>. QED
    BY <2>3, <2>4
<1>4. TypeOK
  <2>1. \A g \in 1 .. 1 : arrays[g] = <<>> /\ Len(arrays[g]) = 0 /\ Capacity[g] = 0
    BY <1>1, EmptySeq, DefsAssumption
  <2>2. Len(slots) = 0
    BY <1>2, EmptySeq
  <2>3. adds \in 0 .. MaxAdds /\ gen \in 1 .. adds + 1 /\ len \in 0 .. Len(slots)
    BY <1>1, <1>2, <2>2, DefsAssumption
  <2>. QED
    <3>1. entries \subseteq Entry /\ nextEntry \in Nat /\ shifted \in BOOLEAN
      BY <1>1
    <3>2. \A g \in 1 .. gen : Len(arrays[g]) <= Capacity[g]
      BY <1>2, <2>1
    <3>. QED
      BY <1>2, <1>3, <2>3, <3>1, <3>2 DEF TypeOK
<1>. QED
  BY <1>1, <1>3, <1>4 DEF DefsInv, DefsApart, EntriesApart, DefsRegistered, PointersGood

\* No operation breaks the invariant.
LEMMA NextDefsInv == DefsInv /\ [Next]_vars => DefsInv'
<1> SUFFICES ASSUME DefsInv, [Next]_vars PROVE DefsInv'
  OBVIOUS
<1>1. LifecycleTypeOK /\ LifecycleAgrees
  BY DEF DefsInv, TypeOK
<1>2. ASSUME NEW n \in Names, NEW valid \in BOOLEAN, Add(n, valid) PROVE DefsInv'
  BY <1>2, AddKeeps
<1>3. ASSUME NEW n \in Names, Remove(n) PROVE DefsInv'
  BY <1>3, RemoveKeeps
<1>4. CASE Start
  BY <1>1, <1>4, StartKeepsLifecycle, RegisterKeeps DEF Start
<1>5. CASE Stop
  BY <1>5, StopKeeps
<1>6. CASE Apply
  <2>1. LifecycleTypeOK' /\ LifecycleAgrees' /\ c' # 0 /\ (ApplyRestart /\ c # 0 => c' = c)
    BY <1>1, <1>6, ApplyKeepsLifecycle DEF Apply
  <2>2. CASE Register
    BY <2>1, <2>2, RegisterKeeps
  <2>3. CASE ApplyRestart /\ c # 0 /\ UNCHANGED defsVars
    BY <2>1, <2>3, DefsStay
  <2>. QED
    BY <1>6, <2>2, <2>3 DEF Apply
<1>7. CASE UNCHANGED vars
  <2>1. UNCHANGED defsVars /\ UNCHANGED lifecycleVars /\ c' = c
    BY <1>7 DEF vars, lifecycleVars
  <2>2. LifecycleTypeOK' /\ LifecycleAgrees'
    BY <1>1, <2>1 DEF lifecycleVars, LifecycleTypeOK, LifecycleAgrees
  <2>. QED
    BY <2>1, <2>2, DefsStay
<1>. QED
  BY <1>2, <1>3, <1>4, <1>5, <1>6, <1>7 DEF Next

\* The inductive invariant of the definitions holds in every behaviour
\* (api.go:277-345 and 306-323, service.go restartLocked).
THEOREM DefsInvariant == Spec => []DefsInv
<1>1. Init => DefsInv
  BY InitDefsInv
<1>2. DefsInv /\ [Next]_vars => DefsInv'
  BY NextDefsInv
<1>. QED
  BY <1>1, <1>2, PTL DEF Spec

\* At most one definition bears a name without spaces around it, and the running
\* cron has exactly the entries of the definitions that cron can parse, whatever
\* their names, each under the EntryID its definition remembers (api.go:50-51,
\* 276, 281-289, 306-323).
THEOREM EntriesFollowDefs == Spec => []EntriesMatchDefs
<1>1. DefsInv => EntriesMatchDefs
  <2> SUFFICES ASSUME DefsInv PROVE EntriesMatchDefs
    OBVIOUS
  <2>1. TypeOK /\ OneDefinition
    BY DEF DefsInv, DefsApart, OneDefinition, Tidy
  <2>2. \A e \in entries : \E i \in 1 .. len : slots[i].entry = e.id /\ slots[i].job = e.made
    BY DEF DefsInv, EntriesApart
  <2>3. ASSUME c # 0, NEW i \in 1 .. len, slots[i].valid
        PROVE  Cardinality({e \in entries : e.id = slots[i].entry /\ e.made = slots[i].job}) = 1
    <3>1. PICK e \in entries : e.id = slots[i].entry /\ e.made = slots[i].job
      BY <2>3 DEF DefsInv, DefsRegistered
    <3>2. {f \in entries : f.id = slots[i].entry /\ f.made = slots[i].job} = {e}
      BY <3>1 DEF DefsInv, EntriesApart
    <3>. QED
      BY <3>2, FS_Singleton
  <2>. QED
    BY <2>1, <2>2, <2>3 DEF EntriesMatchDefs
<1>. QED
  BY <1>1, DefsInvariant, PTL

\* Growing the slice, or removing its last element, leaves the pointers of the
\* entries' closures good: as long as no removal has moved a definition, every
\* entry runs its own job (api.go:64-66, 306-317).
THEOREM PointersStay == Spec => []AlignedUntilShift
<1>1. DefsInv => AlignedUntilShift
  BY DEF DefsInv, PointersGood, AlignedUntilShift
<1>. QED
  BY <1>1, DefsInvariant, PTL

=============================================================================
