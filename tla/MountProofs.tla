---------------------------- MODULE MountProofs -----------------------------
(***************************************************************************)
(* What a mount guarantees, for any input, number of threads of the pool   *)
(* and schedule.  What the smart cache stores is right as long as the root *)
(* directory has no more entries than a thread has temporary strings (with *)
(* one more it is not: the run preload).  And, whatever the root holds, the *)
(* options are those asked for, every variable keeps its type, and the     *)
(* daemon ends without a use of freed memory other than those it lists, and *)
(* with nothing left behind but the files whose cell does not say so.      *)
(***************************************************************************)
EXTENDS Mount, FiniteSetTheorems, TLAPS

-----------------------------------------------------------------------------
(* What an inductive invariant says.                                        *)

\* The symbols of a key of the table, and the keys.
Symbols == Entries \union {"/", "fd", "&"}
Words == {s \in Seq(Symbols) : Len(s) > 0}
Cells == [ondisk : {"unset", "remote", "local"}, md : Words \union {NoMd}, old : BOOLEAN]
Pointers == [to : {"string", "cell"}, at : Nat \union Words]
Jobs == [pc : {"none", "idle", "attr", "fill"}, ptr : Pointers,
         key : Words \union {NoMd}, md : Words \union {NoMd}]

Shapes ==
    /\ input \in Inputs
    /\ DOMAIN table \subseteq Words /\ table \in [DOMAIN table -> Cells]
    /\ slot \in [0..TmpstrNb - 1 -> Words \union {NoMd}]
    /\ next \in Nat
    /\ pool \in Seq(Pointers)
    /\ work \in [Workers -> Jobs]
    /\ sc \in [pc : {"off", "start", "preload", "opendir", "list", "wait", "sleep", "pass", "gone"},
               todo : SUBSET Words, passes : Nat]

\* The thread is started once, and lists the root once.
Early == {"start", "conf", "home", "parse", "env", "conf_log", "fuse"}
ListsOnce == /\ main \in Early => sc.pc = "off"
             /\ sc.pc \in {"off", "start", "preload", "opendir"} => next = 0

\* There is a temporary string for each name that is still to be pushed; those
\* that were taken hold one.
RoomForNames == /\ next <= TmpstrNb
                /\ \A i \in 0..next - 1 : slot[i] \in Words
                /\ sc.pc = "list" => /\ IsFiniteSet(sc.todo)
                                     /\ next + Cardinality(sc.todo) <= TmpstrNb

\* A pointer to a temporary string is to one that was taken.
Taken(p) == IF p.to = "string" THEN p.at \in 0..next - 1 ELSE p.at \in Words
PoolTaken == \A j \in 1..Len(pool) : Taken(pool[j])

\* A thread of the pool that read a name in a temporary string would read it
\* again; one that read the bytes of an entry never reads a name.
Steady(job) ==
    /\ job.pc = "attr" => /\ Taken(job.ptr) /\ job.key \in Words
                          /\ job.ptr.to = "string" => job.key = slot[job.ptr.at]
    /\ job.pc = "fill" => job.key \in Words /\ job.md = job.key
WorkSteady == \A w \in Workers : Steady(work[w])

IInv == /\ Shapes /\ ListsOnce /\ RoomForNames /\ PoolTaken /\ WorkSteady
        /\ CellsHoldTheirOwn

\* The hypothesis: a directory has at most as many entries as a thread has
\* temporary strings, and none has the name that the bytes of an entry read like.
Small(names) == IsFiniteSet(names) /\ Cardinality(names) <= TmpstrNb
FewEntries == /\ \A i \in Inputs : Small(i.entries) /\ Small(i.below)
              /\ "fd" \notin Entries

-----------------------------------------------------------------------------
(* Names, keys and what is not a name.                                      *)

\* The paths of few names are keys, no more of them than strings.
LEMMA NamesAreFew ==
    ASSUME NEW names \in SUBSET Entries, Small(names)
    PROVE  LET paths == {Name(n) : n \in names} IN
           paths \subseteq Words /\ IsFiniteSet(paths) /\ Cardinality(paths) <= TmpstrNb
<1> DEFINE paths == {Name(n) : n \in names}
           f == [n \in names |-> Name(n)]
<1>1. paths \subseteq Words
  <2> SUFFICES ASSUME NEW n \in names PROVE <<n>> \in Words
    BY DEF Name
  <2>1. n \in Symbols
    BY DEF Symbols
  <2> QED
    BY <2>1 DEF Words
<1>2. f \in Surjection(names, paths)
  BY DEF Surjection
<1>3. IsFiniteSet(names) /\ Cardinality(names) <= TmpstrNb
  BY DEF Small
<1>4. IsFiniteSet(paths) /\ Cardinality(paths) <= Cardinality(names)
  BY <1>2, <1>3, FS_Surjection
<1>5. Cardinality(paths) \in Nat /\ Cardinality(names) \in Nat
  BY <1>3, <1>4, FS_CardinalityType
<1> QED
  BY <1>1, <1>3, <1>4, <1>5, RingAssumption

\* Those of the root directory, and of another one.
LEMMA HereIsSmall ==
    ASSUME FewEntries, input \in Inputs
    PROVE  /\ Here \subseteq Words /\ IsFiniteSet(Here) /\ Cardinality(Here) <= TmpstrNb
           /\ There \subseteq Words /\ IsFiniteSet(There) /\ Cardinality(There) <= TmpstrNb
<1>1. input.entries \in SUBSET Entries /\ input.below \in SUBSET Entries
  BY EntriesAssumption
<1> QED
  BY <1>1, NamesAreFew DEF FewEntries, Here, There

\* The root is a key; what the bytes of an entry read like is one too, and not
\* the name of an entry of the root directory.
LEMMA RootIsWord == Root \in Words
  BY DEF Root, Words, Symbols

LEMMA BytesAreNoName ==
    ASSUME FewEntries, input \in Inputs, NEW k \in Words
    PROVE  /\ FdBytes \in Words \ Here
           /\ Append(k, "&") \in Words \ Here
<1>1. \A x \in Here : Len(x) = 1 /\ x[1] \in Entries
  BY EntriesAssumption DEF Here, Name
<1>2. FdBytes \in Words /\ FdBytes[1] = "fd"
  BY DEF FdBytes, Words, Symbols
<1>3. Append(k, "&") \in Words /\ Len(Append(k, "&")) > 1
  BY DEF Words, Symbols
<1>4. FdBytes \notin Here
  BY <1>1, <1>2 DEF FewEntries
<1>5. Append(k, "&") \notin Here
  <2> SUFFICES ASSUME Append(k, "&") \in Here PROVE FALSE
    OBVIOUS
  <2>1. Len(Append(k, "&")) = 1
    BY <1>1, Zenon
  <2> QED
    BY <1>3, <2>1
<1> QED
  BY <1>2, <1>3, <1>4, <1>5

-----------------------------------------------------------------------------
(* Tables, and the steps that change nothing but the table.                 *)

TableOk(t) == /\ DOMAIN t \subseteq Words /\ t \in [DOMAIN t -> Cells]
              /\ \A k \in DOMAIN t : t[k].md \in {NoMd, k}

\* A cell that is put into the table, new or in the place of another.
LEMMA PutKeeps ==
    ASSUME TableOk(table), NEW k \in Words, NEW e \in Cells, e.md \in {NoMd, k}
    PROVE  TableOk(Put(k, e))
  BY DEF TableOk, Put

LEMMA ReplaceKeeps ==
    ASSUME TableOk(table), NEW k \in DOMAIN table, NEW e \in Cells, e.md \in {NoMd, k}
    PROVE  TableOk([table EXCEPT ![k] = e])
  BY DEF TableOk

\* Other fields of a cell of the table.
LEMMA FieldsKeep ==
    ASSUME TableOk(table), NEW k \in DOMAIN table,
           NEW b \in BOOLEAN, NEW d \in {"unset", "remote", "local"}
    PROVE  /\ TableOk([table EXCEPT ![k].old = b])
           /\ TableOk([table EXCEPT ![k].ondisk = d])
<1>1. table[k] \in Cells /\ table[k].md \in {NoMd, k}
  BY DEF TableOk
<1>2. /\ [table[k] EXCEPT !.old = b] \in Cells
      /\ [table[k] EXCEPT !.ondisk = d] \in Cells
  BY <1>1 DEF Cells
<1>3. /\ [table[k] EXCEPT !.old = b].md = table[k].md
      /\ [table[k] EXCEPT !.ondisk = d].md = table[k].md
  BY <1>1 DEF Cells
<1> QED
  BY <1>1, <1>2, <1>3, ReplaceKeeps

\* A new cell, and one that was just filled.
LEMMA NewCellIsCell ==
    ASSUME NEW b \in BOOLEAN
    PROVE  NewCell(b) \in Cells /\ NewCell(b).md = NoMd
  BY DEF NewCell, Cells

LEMMA FilledIsCell ==
    ASSUME NEW m \in Words \union {NoMd}
    PROVE  [ondisk |-> "remote", md |-> m, old |-> FALSE] \in Cells
  BY DEF Cells

LEMMA TableIsOk == IInv => TableOk(table)
  BY DEF IInv, Shapes, TableOk, CellsHoldTheirOwn

\* main does not come back to where it was before the mount.
Onward == main' \in Early => main \in Early

\* The table, and where main is, are all that a request changes.
LEMMA TableStep ==
    ASSUME IInv, input' = input, Onward, UNCHANGED <<slot, next, pool, work, sc>>,
           TableOk(table')
    PROVE  IInv'
<1>1. Shapes'
  BY DEF IInv, Shapes, TableOk
<1>2. ListsOnce'
  BY DEF IInv, ListsOnce, Onward
<1>3. RoomForNames'
  BY DEF IInv, RoomForNames
<1>4. PoolTaken'
  BY DEF IInv, PoolTaken, Taken
<1>5. WorkSteady'
  BY DEF IInv, WorkSteady, Steady, Taken
<1>6. CellsHoldTheirOwn'
  BY DEF TableOk, CellsHoldTheirOwn
<1> QED
  BY <1>1, <1>2, <1>3, <1>4, <1>5, <1>6 DEF IInv

\* A step of main, of the collector or of a crash leaves the table alone.
LEMMA QuietStep ==
    ASSUME IInv, input' = input, Onward, UNCHANGED scVars
    PROVE  IInv'
  BY TableIsOk, TableStep DEF scVars
-----------------------------------------------------------------------------
(* The thread of the smart cache.                                           *)

\* It only changes where it is, once it has listed the root or given up.
LEMMA ScMoves ==
    ASSUME IInv, UNCHANGED <<input, main, slot, next, pool, work>>,
           TableOk(table'), sc' \in [pc : {"wait", "sleep", "pass", "gone"}, todo : SUBSET Words, passes : Nat],
           main \notin Early
    PROVE  IInv'
<1>1. Shapes'
  BY DEF IInv, Shapes, TableOk
<1>2. ListsOnce'
  BY DEF IInv, ListsOnce
<1>3. RoomForNames'
  BY DEF IInv, RoomForNames
<1>4. PoolTaken'
  BY DEF IInv, PoolTaken, Taken
<1>5. WorkSteady'
  BY DEF IInv, WorkSteady, Steady, Taken
<1>6. CellsHoldTheirOwn'
  BY DEF TableOk, CellsHoldTheirOwn
<1> QED
  BY <1>1, <1>2, <1>3, <1>4, <1>5, <1>6 DEF IInv

\* The thread is there once the file system is mounted.
LEMMA ScIsLate == ASSUME IInv, sc.pc # "off" PROVE main \notin Early
  BY DEF IInv, ListsOnce

LEMMA ScStartKeeps == ASSUME IInv, ScStart PROVE IInv'
<1>1. main \notin Early
  BY ScIsLate DEF ScStart
<1>2. CASE Crash
  BY <1>1, <1>2, QuietStep DEF Crash, Onward
<1>3. CASE sc' = [sc EXCEPT !.pc = "gone"] /\ Frame /\ UNCHANGED <<table, files, cwd, slot, next, pool, work>>
  <2>1. sc' \in [pc : {"wait", "sleep", "pass", "gone"}, todo : SUBSET Words, passes : Nat]
    BY <1>3 DEF IInv, Shapes
  <2> QED
    BY <1>1, <1>3, <2>1, TableIsOk, ScMoves DEF Frame, confVars
<1>4. CASE sc' = [sc EXCEPT !.pc = "preload"] /\ Frame /\ UNCHANGED <<table, files, cwd, slot, next, pool, work>>
  <2>1. /\ sc' \in [pc : {"preload"}, todo : SUBSET Words, passes : Nat]
        /\ next = 0
    BY <1>4 DEF IInv, Shapes, ListsOnce, ScStart
  <2>2. Shapes'
    BY <1>4, <2>1 DEF IInv, Shapes, Frame, confVars
  <2>3. ListsOnce'
    BY <1>1, <1>4, <2>1 DEF ListsOnce, Frame, confVars
  <2>4. RoomForNames' /\ PoolTaken' /\ WorkSteady' /\ CellsHoldTheirOwn'
    BY <1>4, <2>1 DEF IInv, RoomForNames, PoolTaken, WorkSteady, Steady, Taken, CellsHoldTheirOwn
  <2> QED
    BY <2>2, <2>3, <2>4 DEF IInv
<1> QED
  BY <1>2, <1>3, <1>4 DEF ScStart

LEMMA ScPreloadKeeps == ASSUME IInv, ScPreload PROVE IInv'
<1>1. main \notin Early /\ next = 0
  BY ScIsLate DEF ScPreload, IInv, ListsOnce
<1>2. TableOk(table')
  BY TableIsOk, RootIsWord, NewCellIsCell, PutKeeps DEF ScPreload
<1>3. UNCHANGED <<input, main, slot, next, pool, work>>
  BY DEF ScPreload, Frame, confVars
<1>4. CASE sc' = [sc EXCEPT !.pc = "wait"]
  <2>1. sc' \in [pc : {"wait", "sleep", "pass", "gone"}, todo : SUBSET Words, passes : Nat]
    BY <1>4 DEF IInv, Shapes
  <2> QED
    BY <1>1, <1>2, <1>3, <2>1, ScMoves
<1>5. CASE sc' = [sc EXCEPT !.pc = "opendir"]
  <2>1. sc' \in [pc : {"opendir"}, todo : SUBSET Words, passes : Nat]
    BY <1>5 DEF IInv, Shapes
  <2>2. Shapes'
    BY <1>2, <1>3, <2>1 DEF IInv, Shapes, TableOk
  <2>3. ListsOnce'
    BY <1>1, <1>3, <2>1 DEF ListsOnce
  <2>4. RoomForNames' /\ PoolTaken' /\ WorkSteady'
    BY <1>3, <2>1 DEF IInv, RoomForNames, PoolTaken, WorkSteady, Steady, Taken
  <2>5. CellsHoldTheirOwn'
    BY <1>2 DEF TableOk, CellsHoldTheirOwn
  <2> QED
    BY <2>2, <2>3, <2>4, <2>5 DEF IInv
<1> QED
  BY <1>4, <1>5 DEF ScPreload

\* Whichever directory is listed, there is a string for each of its names.
LEMMA ScOpendirKeeps == ASSUME FewEntries, IInv, ScOpendir PROVE IInv'
<1>1. main \notin Early /\ next = 0
  BY ScIsLate DEF ScOpendir, IInv, ListsOnce
<1>2. /\ input \in Inputs
      /\ UNCHANGED <<input, main, table, slot, next, pool, work>>
  BY DEF ScOpendir, Frame, confVars, IInv, Shapes
<1>3. CASE sc' = [sc EXCEPT !.pc = "wait"]
  <2>1. sc' \in [pc : {"wait", "sleep", "pass", "gone"}, todo : SUBSET Words, passes : Nat]
    BY <1>3 DEF IInv, Shapes
  <2> QED
    BY <1>1, <1>2, <2>1, TableIsOk, ScMoves
<1>4. ASSUME NEW names \in {Here, There}, sc' = [sc EXCEPT !.pc = "list", !.todo = names]
      PROVE  IInv'
  <2>1. names \subseteq Words /\ IsFiniteSet(names) /\ Cardinality(names) <= TmpstrNb
    BY <1>2, HereIsSmall
  <2>2. Cardinality(names) \in Nat
    BY <2>1, FS_CardinalityType
  <2>3. /\ sc' \in [pc : {"list"}, todo : SUBSET Words, passes : Nat]
        /\ sc'.todo = names
    BY <1>4, <2>1 DEF IInv, Shapes
  <2>4. Shapes'
    BY <1>2, <2>3 DEF IInv, Shapes
  <2>5. ListsOnce'
    BY <1>1, <1>2, <2>3 DEF ListsOnce
  <2>6. RoomForNames'
    BY <1>1, <1>2, <2>1, <2>2, <2>3, RingAssumption DEF RoomForNames
  <2>7. PoolTaken' /\ WorkSteady' /\ CellsHoldTheirOwn'
    BY <1>2 DEF IInv, PoolTaken, WorkSteady, Steady, Taken, CellsHoldTheirOwn
  <2> QED
    BY <2>4, <2>5, <2>6, <2>7 DEF IInv
<1> QED
  BY <1>3, <1>4 DEF ScOpendir

\* A name that is pushed goes to a string that no pointer is to.
LEMMA ScPushKeeps == ASSUME IInv, NEW k \in sc.todo, ScPush(k) PROVE IInv'
<1>1. /\ sc.pc = "list" /\ k \in Words
      /\ IsFiniteSet(sc.todo) /\ next \in Nat
      /\ next + Cardinality(sc.todo) <= TmpstrNb
  BY DEF ScPush, IInv, Shapes, RoomForNames
<1>2. /\ IsFiniteSet(sc.todo \ {k}) /\ Cardinality(sc.todo \ {k}) = Cardinality(sc.todo) - 1
      /\ Cardinality(sc.todo) \in Nat /\ Cardinality(sc.todo \ {k}) \in Nat
  BY <1>1, FS_RemoveElement, FS_CardinalityType
<1>3. next < TmpstrNb /\ next \in 0..TmpstrNb - 1
  BY <1>1, <1>2, RingAssumption
<1>4. next % TmpstrNb = next
  BY <1>1, <1>3, RingAssumption
<1>5. /\ slot' = [slot EXCEPT ![next] = k]
      /\ pool' = Append(pool, Text(next))
      /\ next' = next + 1
      /\ sc' = [sc EXCEPT !.todo = sc.todo \ {k}]
      /\ UNCHANGED <<input, main, table, work>>
  BY <1>4 DEF ScPush, Frame, confVars
<1>6. sc'.pc = "list" /\ sc'.todo = sc.todo \ {k}
  BY <1>1, <1>5 DEF IInv, Shapes, RoomForNames
<1>7. Shapes'
  <2>1. Text(next) \in Pointers
    BY <1>1 DEF Text, Pointers
  <2>2. pool' \in Seq(Pointers)
    BY <1>5, <2>1 DEF IInv, Shapes
  <2>3. slot' \in [0..TmpstrNb - 1 -> Words \union {NoMd}]
    BY <1>1, <1>5 DEF IInv, Shapes
  <2>4. sc' \in [pc : {"off", "start", "preload", "opendir", "list", "wait", "sleep", "pass", "gone"},
                 todo : SUBSET Words, passes : Nat]
    BY <1>5 DEF IInv, Shapes
  <2> QED
    BY <1>1, <1>5, <2>2, <2>3, <2>4 DEF IInv, Shapes
<1>8. ListsOnce'
  BY <1>1, <1>5, <1>6 DEF IInv, ListsOnce
<1>9. RoomForNames'
  <2>1. next' <= TmpstrNb
    BY <1>1, <1>3, <1>5, RingAssumption
  <2>2. next' + Cardinality(sc'.todo) <= TmpstrNb
    BY <1>1, <1>2, <1>5, <1>6, RingAssumption
  <2>3. ASSUME NEW i \in 0..next' - 1 PROVE slot'[i] \in Words
    <3>1. i \in 0..TmpstrNb - 1 /\ (i = next \/ i \in 0..next - 1)
      BY <1>1, <1>3, <1>5, <2>3, RingAssumption
    <3>2. i \in 0..next - 1 => slot[i] \in Words
      BY DEF IInv, RoomForNames
    <3> QED
      BY <1>1, <1>3, <1>5, <3>1, <3>2 DEF IInv, Shapes
  <2> QED
    BY <1>2, <1>6, <2>1, <2>2, <2>3 DEF RoomForNames
<1>10. PoolTaken'
  <2> SUFFICES ASSUME NEW j \in 1..Len(pool') PROVE Taken(pool[j])'
    BY DEF PoolTaken
  <2>1. CASE j \in 1..Len(pool)
    <3>1. pool'[j] = pool[j]
      BY <1>5, <2>1 DEF IInv, Shapes
    <3> QED
      BY <2>1, <3>1, <1>5, <1>1 DEF IInv, PoolTaken, Taken
  <2>2. CASE j = Len(pool) + 1
    <3>1. pool'[j] = Text(next)
      BY <1>5, <2>2 DEF IInv, Shapes
    <3> QED
      BY <3>1, <1>1, <1>5 DEF Taken, Text
  <2>3. Len(pool') = Len(pool) + 1 /\ Len(pool) \in Nat
    BY <1>5 DEF IInv, Shapes
  <2> QED
    BY <2>1, <2>2, <2>3
<1>11. WorkSteady'
  <2> SUFFICES ASSUME NEW w \in Workers PROVE Steady(work[w])'
    BY DEF WorkSteady
  <2>1. Steady(work[w]) /\ work'[w] = work[w]
    BY <1>5 DEF IInv, WorkSteady
  <2>2. CASE work[w].pc = "attr"
    <3>1. Taken(work[w].ptr) /\ work[w].key \in Words
      BY <2>1, <2>2 DEF Steady
    <3>2. ASSUME work[w].ptr.to = "string" PROVE work[w].key = slot'[work[w].ptr.at]
      <4>1. work[w].ptr.at \in 0..next - 1 /\ work[w].key = slot[work[w].ptr.at]
        BY <2>1, <2>2, <3>1, <3>2 DEF Steady, Taken
      <4>2. slot'[work[w].ptr.at] = slot[work[w].ptr.at]
        BY <1>1, <1>3, <1>5, <4>1 DEF IInv, Shapes
      <4> QED
        BY <4>1, <4>2
    <3> QED
      BY <1>1, <1>5, <2>1, <2>2, <3>1, <3>2 DEF Steady, Taken
  <2>3. CASE work[w].pc # "attr"
    BY <2>1, <2>3 DEF Steady
  <2> QED
    BY <2>2, <2>3
<1>12. CellsHoldTheirOwn'
  BY <1>5 DEF IInv, CellsHoldTheirOwn
<1> QED
  BY <1>7, <1>8, <1>9, <1>10, <1>11, <1>12 DEF IInv
\* The other steps of the thread.
LEMMA ScElseKeeps ==
    ASSUME IInv, ScListed \/ ScWait \/ ScSleep \/ ScPassed \/ ScCrash
    PROVE  IInv'
<1> DEFINE After0 == [pc : {"wait", "sleep", "pass", "gone"}, todo : SUBSET Words, passes : Nat]
<1>1. CASE Crash
  BY <1>1, QuietStep DEF Crash, Onward
<1>2. CASE ScCrash
  BY <1>1, <1>2 DEF ScCrash
<1>3. CASE ScListed /\ ~Crash
  <2>1. main \notin Early /\ UNCHANGED <<input, main, slot, next, pool, work>>
    BY <1>3, ScIsLate DEF ScListed, Frame, confVars
  <2>2. TableOk(table')
    BY <1>3, TableIsOk, FieldsKeep DEF ScListed
  <2>3. sc' \in After0
    BY <1>3 DEF ScListed, IInv, Shapes
  <2> QED
    BY <2>1, <2>2, <2>3, ScMoves
<1>4. CASE ScWait \/ ScSleep \/ ScPassed
  <2>1. main \notin Early /\ UNCHANGED <<input, main, table, slot, next, pool, work>>
    BY <1>4, ScIsLate DEF ScWait, ScSleep, ScPassed, Frame, confVars
  <2>2. sc' \in After0
    BY <1>4 DEF ScWait, ScSleep, ScPassed, IInv, Shapes
  <2> QED
    BY <2>1, <2>2, TableIsOk, ScMoves
<1> QED
  BY <1>1, <1>2, <1>3, <1>4

\* An entry that is pushed as it is, is a key.
LEMMA ScCallbackKeeps == ASSUME IInv, NEW k \in sc.todo, ScCallback(k) PROVE IInv'
<1>1. /\ k \in Words /\ sc.pc = "pass"
      /\ UNCHANGED <<input, main, table, slot, next, work>>
      /\ pool' = Append(pool, Entry(k)) \/ pool' = pool
      /\ sc' = [sc EXCEPT !.todo = sc.todo \ {k}]
  BY DEF ScCallback, IInv, Shapes, Frame, confVars
<1>2. Entry(k) \in Pointers /\ Taken(Entry(k))
  BY <1>1 DEF Entry, Pointers, Taken
<1>3. sc'.pc = "pass" /\ sc' \in [pc : {"pass"}, todo : SUBSET Words, passes : Nat]
  BY <1>1 DEF IInv, Shapes
<1>4. /\ pool' \in Seq(Pointers)
      /\ \A j \in 1..Len(pool') : \/ j \in 1..Len(pool) /\ pool'[j] = pool[j]
                                  \/ pool'[j] = Entry(k)
  <2>1. pool \in Seq(Pointers)
    BY DEF IInv, Shapes
  <2>2. CASE pool' = pool
    BY <2>1, <2>2
  <2>3. CASE pool' = Append(pool, Entry(k))
    <3> DEFINE e == Entry(k)
    <3>1. e \in Pointers /\ pool' = Append(pool, e)
      BY <1>2, <2>3
    <3> HIDE DEF e
    <3>2. pool' \in Seq(Pointers) /\ Len(pool') = Len(pool) + 1 /\ Len(pool) \in Nat
      BY <2>1, <3>1
    <3>3. \A j \in 1..Len(pool) : pool'[j] = pool[j]
      BY <2>1, <3>1
    <3>4. pool'[Len(pool) + 1] = e
      BY <2>1, <3>1
    <3> QED
      BY <3>2, <3>3, <3>4 DEF e
  <2> QED
    BY <1>1, <2>2, <2>3
<1>5. Shapes'
  BY <1>1, <1>3, <1>4 DEF IInv, Shapes
<1>6. ListsOnce'
  BY <1>1, <1>3 DEF IInv, ListsOnce
<1>7. RoomForNames'
  BY <1>1, <1>3 DEF IInv, RoomForNames
<1>8. PoolTaken'
  <2> SUFFICES ASSUME NEW j \in 1..Len(pool') PROVE Taken(pool[j])'
    BY DEF PoolTaken
  <2>1. Taken(pool'[j])
    BY <1>2, <1>4 DEF IInv, PoolTaken
  <2> QED
    BY <1>1, <2>1 DEF Taken
<1>9. WorkSteady'
  BY <1>1 DEF IInv, WorkSteady, Steady, Taken
<1>10. CellsHoldTheirOwn'
  BY <1>1 DEF IInv, CellsHoldTheirOwn
<1> QED
  BY <1>5, <1>6, <1>7, <1>8, <1>9, <1>10 DEF IInv

-----------------------------------------------------------------------------
(* The threads of the pool.                                                 *)

\* They change the table, the pool and what they do, no more.
LEMMA WorkStep ==
    ASSUME IInv, UNCHANGED <<input, main, slot, next, sc>>, TableOk(table'),
           pool' \in Seq(Pointers), \A j \in 1..Len(pool') : Taken(pool'[j]),
           NEW w \in Workers, NEW job \in Jobs, Steady(job),
           work' = [work EXCEPT ![w] = job]
    PROVE  IInv'
<1>1. work' \in [Workers -> Jobs] /\ \A v \in Workers : work'[v] \in {work[v], job}
  BY DEF IInv, Shapes
<1>2. Shapes'
  BY <1>1 DEF IInv, Shapes, TableOk
<1>3. ListsOnce'
  BY DEF IInv, ListsOnce
<1>4. RoomForNames'
  BY DEF IInv, RoomForNames
<1>5. PoolTaken'
  BY DEF PoolTaken, Taken
<1>6. WorkSteady'
  <2> SUFFICES ASSUME NEW v \in Workers PROVE Steady(work[v])'
    BY DEF WorkSteady
  <2>1. Steady(work'[v])
    BY <1>1 DEF IInv, WorkSteady
  <2> QED
    BY <2>1 DEF Steady, Taken
<1>7. CellsHoldTheirOwn'
  BY DEF TableOk, CellsHoldTheirOwn
<1> QED
  BY <1>2, <1>3, <1>4, <1>5, <1>6, <1>7 DEF IInv

\* A thread that has nothing to do; a pointer that it drops is not read.
Idle == [pc |-> "idle", ptr |-> Text(0), key |-> NoMd, md |-> NoMd]
LEMMA IdleIsSteady == Idle \in Jobs /\ Steady(Idle)
  BY DEF Idle, Jobs, Steady, Text, Pointers
\* A pointer reads as a key; only one to a temporary string reads as a name,
\* and only as the one that is in it.
LEMMA ReadsKeys ==
    ASSUME FewEntries, IInv, NEW p \in Pointers, Taken(p), NEW k \in Reads(p)
    PROVE  /\ k \in Words
           /\ p.to = "string" => k = slot[p.at]
           /\ p.to # "string" => k \notin Here
<1>1. CASE p.to = "string"
  <2>1. p.at \in 0..next - 1 /\ next <= TmpstrNb /\ next \in Nat /\ k = slot[p.at]
    BY <1>1 DEF Taken, Reads, IInv, Shapes, RoomForNames
  <2>2. k \in Words
    BY <2>1 DEF IInv, RoomForNames
  <2> QED
    BY <1>1, <2>1, <2>2
<1>2. CASE p.to # "string"
  <2>1. p.at \in Words /\ k \in {FdBytes, Append(p.at, "&")}
    BY <1>2 DEF Taken, Reads
  <2>2. input \in Inputs
    BY DEF IInv, Shapes
  <2> QED
    BY <1>2, <2>1, <2>2, BytesAreNoName
<1> QED
  BY <1>1, <1>2
\* The pointers of the pool, as they are and without the first.
LEMMA PoolIsTaken ==
    IInv => /\ pool \in Seq(Pointers) /\ \A j \in 1..Len(pool) : Taken(pool[j])
            /\ pool # <<>> => /\ Head(pool) \in Pointers /\ Taken(Head(pool))
                              /\ Tail(pool) \in Seq(Pointers)
                              /\ \A j \in 1..Len(Tail(pool)) : Taken(Tail(pool)[j])
<1> SUFFICES ASSUME IInv PROVE
            /\ pool \in Seq(Pointers) /\ \A j \in 1..Len(pool) : Taken(pool[j])
            /\ pool # <<>> => /\ Head(pool) \in Pointers /\ Taken(Head(pool))
                              /\ Tail(pool) \in Seq(Pointers)
                              /\ \A j \in 1..Len(Tail(pool)) : Taken(Tail(pool)[j])
  OBVIOUS
<1>1. pool \in Seq(Pointers) /\ \A j \in 1..Len(pool) : Taken(pool[j])
  BY DEF IInv, Shapes, PoolTaken
<1>2. ASSUME pool # <<>>
      PROVE  /\ Head(pool) = pool[1] /\ 1 \in 1..Len(pool)
             /\ Tail(pool) \in Seq(Pointers)
             /\ \A j \in 1..Len(Tail(pool)) : j + 1 \in 1..Len(pool) /\ Tail(pool)[j] = pool[j + 1]
  BY <1>1, <1>2
<1>3. ASSUME pool # <<>>
      PROVE  /\ Head(pool) \in Pointers /\ Taken(Head(pool))
             /\ \A j \in 1..Len(Tail(pool)) : Taken(Tail(pool)[j])
  BY <1>1, <1>2, <1>3
<1> QED
  BY <1>1, <1>2, <1>3

LEMMA TakeJobKeeps == ASSUME FewEntries, IInv, NEW w \in Workers, TakeJob(w) PROVE IInv'
<1> DEFINE p == Head(pool)
<1>1. /\ pool # <<>> /\ pool' = Tail(pool)
      /\ UNCHANGED <<input, main, slot, next, sc>>
  BY DEF TakeJob, Frame, confVars
<1>2. /\ p \in Pointers /\ Taken(p)
      /\ pool' \in Seq(Pointers) /\ \A j \in 1..Len(pool') : Taken(pool'[j])
  BY <1>1, PoolIsTaken
<1>3. PICK k \in Reads(p) :
          \/ /\ k \in DOMAIN table /\ table[k].ondisk # "unset"
             /\ table' = [table EXCEPT ![k].old = FALSE]
             /\ Rest(w)
          \/ /\ \/ k \in DOMAIN table /\ table[k].ondisk = "unset" /\ UNCHANGED table
                \/ k \notin DOMAIN table /\ \E old \in BOOLEAN : table' = Put(k, NewCell(old))
             /\ work' = [work EXCEPT ![w] = [pc |-> "attr", ptr |-> p, key |-> k, md |-> NoMd]]
  BY DEF TakeJob
<1>4. k \in Words /\ (p.to = "string" => k = slot[p.at])
  BY <1>2, ReadsKeys
<1>5. CASE k \in DOMAIN table /\ table' = [table EXCEPT ![k].old = FALSE] /\ Rest(w)
  <2>1. TableOk(table')
    BY <1>5, TableIsOk, FieldsKeep
  <2>2. work' = [work EXCEPT ![w] = Idle]
    BY <1>5 DEF Rest, Idle
  <2> QED
    BY <1>1, <1>2, <2>1, <2>2, IdleIsSteady, WorkStep
<1>6. CASE /\ UNCHANGED table \/ \E old \in BOOLEAN : table' = Put(k, NewCell(old))
           /\ work' = [work EXCEPT ![w] = [pc |-> "attr", ptr |-> p, key |-> k, md |-> NoMd]]
  <2> DEFINE job == [pc |-> "attr", ptr |-> p, key |-> k, md |-> NoMd]
  <2>1. TableOk(table')
    BY <1>4, <1>6, TableIsOk, NewCellIsCell, PutKeeps
  <2>2. job \in Jobs /\ Steady(job)
    BY <1>2, <1>4 DEF Jobs, Steady
  <2> QED
    BY <1>1, <1>2, <1>6, <2>1, <2>2, WorkStep
<1> QED
  BY <1>3, <1>5, <1>6

\* What is read now is what was read when the cell was looked up.
LEMMA AttrKeeps == ASSUME FewEntries, IInv, NEW w \in Workers, Attr(w) PROVE IInv'
<1>1. /\ work[w] \in Jobs /\ Steady(work[w]) /\ work[w].pc = "attr"
      /\ work[w].ptr \in Pointers /\ Taken(work[w].ptr) /\ work[w].key \in Words
  BY DEF Attr, IInv, Shapes, WorkSteady, Steady, Jobs
<1>2. PICK k \in Reads(work[w].ptr) :
          \/ /\ k \in Here
             /\ work' = [work EXCEPT ![w].pc = "fill", ![w].md = k]
             /\ Frame
             /\ UNCHANGED <<table, files, cwd, slot, next, pool, sc>>
          \/ /\ work[w].key \in DOMAIN table
             /\ table' = [table EXCEPT ![work[w].key].old = FALSE]
             /\ Rest(w)
             /\ Frame
             /\ UNCHANGED <<files, cwd, slot, next, pool, sc>>
          \/ Crash
  BY DEF Attr
<1>3. /\ k \in Words
      /\ work[w].ptr.to = "string" => k = slot[work[w].ptr.at]
      /\ work[w].ptr.to # "string" => k \notin Here
  BY <1>1, ReadsKeys
<1>4. CASE /\ k \in Here
           /\ work' = [work EXCEPT ![w].pc = "fill", ![w].md = k]
           /\ Frame
           /\ UNCHANGED <<table, files, cwd, slot, next, pool, sc>>
  <2> DEFINE job == [work[w] EXCEPT !.pc = "fill", !.md = k]
  <2>1. k = work[w].key
    BY <1>1, <1>3, <1>4 DEF Steady
  <2>2. job \in Jobs /\ job.pc = "fill" /\ job.key = k /\ job.md = k
    BY <1>1, <1>3, <2>1 DEF Jobs
  <2>3. Steady(job)
    BY <1>3, <2>2 DEF Steady
  <2>4. work' = [work EXCEPT ![w] = job]
    BY <1>4 DEF IInv, Shapes
  <2>5. UNCHANGED <<input, main, slot, next, sc, pool, table>>
    BY <1>4 DEF Frame, confVars
  <2> HIDE DEF job
  <2> QED
    BY <2>2, <2>3, <2>4, <2>5, TableIsOk, PoolIsTaken, WorkStep
<1>5. CASE /\ work[w].key \in DOMAIN table
           /\ table' = [table EXCEPT ![work[w].key].old = FALSE]
           /\ Rest(w)
           /\ Frame
           /\ UNCHANGED <<files, cwd, slot, next, pool, sc>>
  <2>1. TableOk(table')
    BY <1>5, TableIsOk, FieldsKeep
  <2>2. work' = [work EXCEPT ![w] = Idle]
    BY <1>5 DEF Rest, Idle
  <2>3. UNCHANGED <<input, main, slot, next, sc, pool>>
    BY <1>5 DEF Frame, confVars
  <2> QED
    BY <2>1, <2>2, <2>3, IdleIsSteady, PoolIsTaken, WorkStep
<1>6. CASE Crash
  BY <1>6, QuietStep DEF Crash, Onward
<1> QED
  BY <1>2, <1>4, <1>5, <1>6

LEMMA FillKeeps == ASSUME IInv, NEW w \in Workers, Fill(w) PROVE IInv'
<1>1. CASE Crash
  BY <1>1, QuietStep DEF Crash, Onward
<1>2. CASE ~Crash
  <2>1. /\ work[w].key \in DOMAIN table
        /\ table' = [table EXCEPT ![work[w].key] =
                        [ondisk |-> "remote", md |-> work[w].md, old |-> FALSE]]
        /\ work' = [work EXCEPT ![w] = Idle]
        /\ UNCHANGED <<input, main, slot, next, sc, pool>>
    BY <1>2 DEF Fill, Rest, Idle, Frame, confVars
  <2>2. work[w].key \in Words /\ work[w].md = work[w].key
    BY DEF Fill, IInv, WorkSteady, Steady
  <2>3. TableOk(table')
    BY <2>1, <2>2, TableIsOk, FilledIsCell, ReplaceKeeps
  <2> QED
    BY <2>1, <2>3, IdleIsSteady, PoolIsTaken, WorkStep
<1> QED
  BY <1>1, <1>2

LEMMA LeaveKeeps == ASSUME IInv, NEW w \in Workers, Leave(w) PROVE IInv'
<1> DEFINE job == [work[w] EXCEPT !.pc = "none"]
<1>1. work[w] \in Jobs
  BY DEF IInv, Shapes
<1>2. job \in Jobs /\ job.pc = "none"
  BY <1>1 DEF Jobs
<1>3. Steady(job)
  BY <1>2 DEF Steady
<1>4. work' = [work EXCEPT ![w] = job] /\ UNCHANGED <<input, main, slot, next, sc, pool, table>>
  BY DEF Leave, IInv, Shapes, Frame, confVars
<1> HIDE DEF job
<1> QED
  BY <1>2, <1>3, <1>4, TableIsOk, PoolIsTaken, WorkStep
-----------------------------------------------------------------------------
(* The main thread, the clients and the collector.                          *)

LEMMA ScNextKeeps == ASSUME FewEntries, IInv, ScNext PROVE IInv'
<1>1. ASSUME NEW k \in DOMAIN table, Ages(k) PROVE IInv'
  <2>1. TableOk(table')
    BY <1>1, TableIsOk, FieldsKeep DEF Ages
  <2> QED
    BY <1>1, <2>1, TableStep DEF Ages, Frame, confVars, Onward
<1> QED
  BY <1>1, ScStartKeeps, ScPreloadKeeps, ScOpendirKeeps, ScElseKeeps, ScPushKeeps, ScCallbackKeeps,
     TakeJobKeeps, AttrKeeps, FillKeeps, LeaveKeeps DEF ScNext, ScThread, Work

\* libfuse calls dfs_init, and the thread of the smart cache starts.
LEMMA FuseMainKeeps == ASSUME IInv, FuseMain PROVE IInv'
<1>1. CASE Goto("after") /\ UNCHANGED <<gc, sc>>
  <2>1. input' = input /\ Onward /\ UNCHANGED scVars
    BY <1>1 DEF FuseMain, Goto, Onward, Early, scVars, files
  <2> QED
    BY <2>1, QuietStep
<1>2. CASE Goto("mounted") /\ sc' = [sc EXCEPT !.pc = "start"]
  <2>1. /\ sc.pc = "off" /\ next = 0 /\ main' \notin Early
        /\ UNCHANGED <<input, table, slot, next, pool, work>>
    BY <1>2 DEF FuseMain, Goto, IInv, ListsOnce, Early
  <2>2. sc'.pc = "start" /\ sc' \in [pc : {"start"}, todo : SUBSET Words, passes : Nat]
    BY <1>2 DEF IInv, Shapes
  <2>3. Shapes'
    BY <2>1, <2>2 DEF IInv, Shapes
  <2>4. ListsOnce' /\ RoomForNames' /\ PoolTaken' /\ WorkSteady' /\ CellsHoldTheirOwn'
    BY <2>1, <2>2 DEF IInv, ListsOnce, RoomForNames, PoolTaken, WorkSteady, Steady, Taken,
                      CellsHoldTheirOwn
  <2> QED
    BY <2>3, <2>4 DEF IInv
<1> QED
  BY <1>1, <1>2 DEF FuseMain

\* Configuring, and the steps of dfs_destroy and main that leave the table.
LEMMA MainKeeps ==
    ASSUME IInv, Start \/ Configure \/ Unmount \/ DestroyCache \/ DestroyConf \/ DestroyCtx
                 \/ DestroyLib \/ Err3 \/ Err2
    PROVE  IInv'
<1>1. input' = input /\ UNCHANGED <<table, slot, next, pool, work, sc>> /\ Onward
  <2>1. CASE Configure
    BY <2>1 DEF Configure, ConfDefault, ConfHome, ParseLine, EnvOverride, ConfLog, KeepSc,
                scVars, Onward, Early
  <2>2. CASE Start
    BY <2>2 DEF Start, Goto, KeepSc, scVars, Onward, Early
  <2>3. CASE Unmount \/ DestroyCache \/ DestroyConf \/ DestroyCtx \/ DestroyLib \/ Err3 \/ Err2
    BY <2>3 DEF Unmount, DestroyCache, DestroyConf, DestroyCtx, DestroyLib, Err3, Err2, Goto, KeepSc,
                scVars, Onward, Early
  <2> QED
    BY <2>1, <2>2, <2>3
<1> QED
  BY <1>1, TableIsOk, TableStep

\* The table is emptied.
LEMMA ClearKeeps == ASSUME IInv, DestroyTable \/ After PROVE IInv'
<1>1. /\ input' = input /\ UNCHANGED <<slot, next, pool, work, sc>> /\ Onward
      /\ DOMAIN table' = {} /\ table' = [k \in DOMAIN table' |-> table'[k]]
  BY DEF DestroyTable, After, Clear, Goto, Onward, Early
<1>2. TableOk(table')
  BY <1>1 DEF TableOk
<1> QED
  BY <1>1, <1>2, TableStep

\* What a client asks for is right; the collector takes cells away.
LEMMA RequestKeeps ==
    ASSUME FewEntries, IInv, NEW k \in Here, Lookup(k) \/ Open(k)
    PROVE  IInv'
<1>1. k \in Words
  BY HereIsSmall DEF IInv, Shapes
<1>2. TableOk(table')
  BY <1>1, TableIsOk, FilledIsCell, PutKeeps, FieldsKeep DEF Lookup, Open
<1> QED
  BY <1>2, TableStep DEF Lookup, Open, confVars, Onward

LEMMA ReaddirKeeps == ASSUME IInv, NEW d, Readdir(d) PROVE IInv'
  BY TableIsOk, TableStep DEF Readdir, confVars, Onward

LEMMA GcKeeps == ASSUME IInv, GcStart \/ GcPass \/ GcCrash PROVE IInv'
<1>1. CASE GcStart \/ GcCrash
  BY <1>1, QuietStep DEF GcStart, GcCrash, Crash, KeepSc, confVars, Onward
<1>2. CASE GcPass
  <2>1. PICK old \in SUBSET DOMAIN table : table' = [k \in DOMAIN table \ old |-> table[k]]
    BY <1>2 DEF GcPass
  <2>2. TableOk(table')
    BY <2>1, TableIsOk DEF TableOk
  <2> QED
    BY <1>2, <2>2, TableStep DEF GcPass, confVars, Onward
<1> QED
  BY <1>1, <1>2

-----------------------------------------------------------------------------
(* The theorem.                                                             *)

LEMMA InitInv == Init => IInv
<1> SUFFICES ASSUME Init PROVE IInv
  OBVIOUS
<1>1. Shapes
  BY RingAssumption DEF Init, ScInit, Shapes, NewCell, Jobs, Pointers, Text, Cells
<1>2. ListsOnce /\ RoomForNames /\ PoolTaken /\ WorkSteady /\ CellsHoldTheirOwn
  BY RingAssumption DEF Init, ScInit, ListsOnce, RoomForNames, PoolTaken, WorkSteady, Steady,
                        CellsHoldTheirOwn
<1> QED
  BY <1>1, <1>2 DEF IInv

LEMMA StepInv == FewEntries /\ IInv /\ [Next]_vars => IInv'
<1> SUFFICES ASSUME FewEntries, IInv, [Next]_vars PROVE IInv'
  OBVIOUS
<1>1. CASE Daemon
  BY <1>1, FuseMainKeeps, MainKeeps, ClearKeeps DEF Daemon
<1>2. CASE \E k \in Here : Lookup(k) \/ Open(k)
  BY <1>2, RequestKeeps
<1>3. CASE \E d \in {Root, Elsewhere} : Readdir(d)
  BY <1>3, ReaddirKeeps
<1>4. CASE GcStart \/ GcPass \/ GcCrash
  BY <1>4, GcKeeps
<1>5. CASE ScNext
  BY <1>5, ScNextKeeps
<1>6. CASE UNCHANGED vars
  BY <1>6, QuietStep DEF vars, confVars, Onward
<1> QED
  BY <1>1, <1>2, <1>3, <1>4, <1>5, <1>6 DEF Next

\* The metadata in a cell is that of the cell's own path (cb_get_md,
\* root_dir_preload), as long as no directory has more entries than the ring of
\* temporary strings that the listing thread pushes pointers to.
THEOREM OwnMetadata == ASSUME FewEntries PROVE Spec => []CellsHoldTheirOwn
<1>1. IInv => CellsHoldTheirOwn
  BY DEF IInv
<1> QED
  BY <1>1, InitInv, StepInv, PTL DEF Spec
-----------------------------------------------------------------------------
(* The life of a mount: the configuration, the library, the threads and the *)
(* cache directory, whatever the input and the schedule.                    *)

Confs == [ptr : {"null", "live"}, int : [Ints -> Nat], str : [Strs -> STRING],
          dir : Seq(STRING), level : Levels,
          re : [set : BOOLEAN, str : {"null", "live", "freed"}]]

\* Where the configuration is complete.
Configured == {"conf_log", "fuse", "mounted", "unlink", "clear", "conf_free", "ctx_free", "log",
               "after", "err3"}

MainTypes == /\ input \in Inputs
             /\ main \in Early \union Configured \union {"err2", "exit"}
             /\ line \in 1..Len(input.file) + 1
             /\ conf \in Confs
             /\ ub \in BOOLEAN /\ ctx_freed \in BOOLEAN
             /\ ctx \in {"null", "live"} /\ lib \in {"none", "up", "freed"}
             /\ gc \in {"off", "start", "sleep", "gone"}

\* The lines that give the option k a number, as they are read; that give it a
\* text; the values; and the lines before the first bad one.
WithKey(k) == {i \in 1..Len(input.file) : ReadLine(i).key = k}
WithText(k) == {i \in WithKey(k) : ReadLine(i).str # ""}
Nums  == [i \in 1..Len(input.file) |-> ReadLine(i).num]
Texts == [i \in 1..Len(input.file) |-> ReadLine(i).str]
IsRead(i) == FileIsRead /\ i \in 1..Len(input.file) /\ \A j \in 1..i : ~Bad(ReadLine(j))

\* v is what the last of the told lines up to n says, or the default.
Follows(v, told, n, said, default) ==
    \/ \E i \in told : i <= n /\ (\A j \in told : j <= n => j <= i) /\ v = said[i]
    \/ (\A i \in told : i > n) /\ v = default

DirFollows(n) == /\ Len(conf.dir) > 1 /\ conf.dir[2] = Bucket
                 /\ Follows(conf.dir[1], WithText("cache_dir"), n, Texts, DefaultDir)

PatternFollows(n) ==
    /\ conf.re.set = FALSE
    /\ \/ conf.re.str = "null"
       \/ conf.re.str = "live" /\ \E i \in WithText("exclusion_pattern") : i <= n

\* The lines up to n, and no others, are in conf.
ReadUpTo(n) ==
    /\ \A k \in Ints : Follows(conf.int[k], WithKey(k), n, Nums, DefaultInt[k])
    /\ \A k \in Strs : Follows(conf.str[k], WithText(k), n, Texts, DefaultStr[k])
    /\ PatternFollows(n)

Parsing == /\ FileIsRead
           /\ \A i \in 1..line - 1 : ~Bad(ReadLine(i))
           /\ ReadUpTo(line - 1) /\ DirFollows(line - 1)

DirAsWanted == input.home => /\ Whole("cache_dir") => conf.dir[1] = WantedDir
                             /\ conf.dir[2] = Bucket

\* All but the environment.
FileRead == /\ \A k \in Ints \ DOMAIN input.int : Whole(k) => conf.int[k] = WantedInt(k)
            /\ \A k \in Strs \ DOMAIN input.str : Whole(k) => conf.str[k] = WantedStr(k)
            /\ DirAsWanted
            /\ conf.re.set = FALSE
            /\ \/ conf.re.str = "null"
               \/ conf.re.str = "live" /\ ToldText("exclusion_pattern") # {}

Loaded == /\ \A k \in Ints : Whole(k) => conf.int[k] = WantedInt(k)
          /\ \A k \in Strs : Whole(k) => conf.str[k] = WantedStr(k)
          /\ DirAsWanted
          /\ conf.re.set => input.pattern = "good"
          /\ conf.re.str = "freed" => PatternFreed

Settings == /\ main = "home" => conf = [NoConf EXCEPT !.ptr = "live"] /\ line = 1
            /\ main = "parse" => Parsing
            /\ main = "env" => FileRead
            /\ main \in Configured => Loaded
            /\ main \in {"start", "conf"} => line = 1

\* What main holds.
Serving == {"mounted", "unlink", "clear", "conf_free", "ctx_free"}
MainHolds ==
           /\ main \in {"start", "conf", "ctx_free", "log", "err2", "exit"} => conf.ptr = "null"
           /\ main \in {"home", "parse", "env", "conf_log", "fuse", "mounted", "unlink", "clear",
                        "conf_free"}
                 => conf.ptr = "live"
           /\ main = "start" => lib = "none" /\ ctx = "null"
           /\ main \in (Early \ {"start"}) \union Serving => ctx = "live"
           /\ main \in Early \union Serving \union {"log"} => ctx_freed = FALSE
           /\ main \notin {"start", "exit"} /\ ctx_freed = FALSE => lib = "up"
           /\ ctx_freed = TRUE => lib = "freed"
           /\ main = "after" => ub = TRUE \/ (conf.ptr = "live" /\ ctx = "live")
           /\ main \in {"log", "err3", "err2", "exit"} => ctx = "null"
           /\ main = "exit" => lib # "up"

\* Who runs: nobody before the mount or after one that failed, and the pool only
\* for the smart cache.
IsCell(e) == /\ e = [ondisk |-> e.ondisk, md |-> e.md, old |-> e.old]
             /\ e.ondisk \in {"unset", "remote", "local"}
Threads == /\ sc = [pc |-> sc.pc, todo |-> sc.todo, passes |-> sc.passes]
           /\ sc.pc \in {"off", "start", "preload", "opendir", "list", "wait", "sleep", "pass", "gone"}
           /\ main \in Early => /\ sc.pc = "off" /\ gc = "off" /\ pool = <<>>
                                /\ \A w \in Workers : work[w].pc = "none"
           /\ main \in {"after", "err3", "err2", "exit"} =>
                 ub = TRUE \/ (sc.pc = "off" /\ gc = "off")
           /\ sc.pc \notin {"off", "start", "gone"} => ScOn
           /\ pool # <<>> => ScOn
           /\ DOMAIN work = Workers
           /\ \A w \in Workers : work[w].pc # "none" => ScOn

\* A cache file has a cell that is local, or is one of those that went astray.
Local(k) == k \in DOMAIN table /\ table[k].ondisk = "local"
Files == /\ \A k \in DOMAIN table : IsCell(table[k])
         /\ cached \subseteq Here
         /\ \A k \in cached : k \in astray \/ Local(k)
         /\ main \notin {"mounted", "unlink"} => cached \subseteq astray
         /\ main \in {"conf_free", "ctx_free", "log"} => DOMAIN table = {} \/ ScOn

LInv == MainTypes /\ Settings /\ MainHolds /\ Threads /\ Files /\ OnlyKnownCrashes

-----------------------------------------------------------------------------
(* Lines, and the options they give.                                        *)

LEMMA TextsAre == /\ "" \in STRING /\ "cut" \in STRING /\ "NONE" \in STRING
                  /\ DefaultDir \in STRING /\ Bucket \in STRING
BY TextsAssumption

LEMMA Longer ==
    ASSUME NEW S, NEW d \in Seq(S), NEW b \in S
    PROVE  /\ Append(d, b) \in Seq(S)
           /\ Len(Append(d, b)) = Len(d) + 1
           /\ Len(d) > 0 => Append(d, b)[1] = d[1]
           /\ Len(d) > 1 => Append(d, b)[2] = d[2]
           /\ Len(d) = 1 => Append(d, b)[2] = b
<1>1. Append(d, b) \in Seq(S) /\ Len(Append(d, b)) = Len(d) + 1 /\ Len(d) \in Nat
  OBVIOUS
<1>2. Len(d) > 0 => Append(d, b)[1] = d[1]
  OBVIOUS
<1>3. Len(d) > 1 => Append(d, b)[2] = d[2]
  OBVIOUS
<1>4. Len(d) = 1 => Append(d, b)[2] = b
  <2>1. Append(d, b)[Len(d) + 1] = b
    OBVIOUS
  <2> QED
    BY <2>1
<1> QED
  BY <1>1, <1>2, <1>3, <1>4

LEMMA Single ==
    ASSUME NEW S, NEW x \in S
    PROVE  <<x>> \in Seq(S) /\ Len(<<x>>) = 1 /\ <<x>>[1] = x
OBVIOUS

LEMMA DirIsLonger ==
    ASSUME NEW d \in Seq(STRING)
    PROVE  /\ FullDir(d) \in Seq(STRING)
           /\ Len(FullDir(d)) = Len(d) + 1
           /\ Len(d) > 0 => FullDir(d)[1] = d[1]
           /\ Len(d) > 1 => FullDir(d)[2] = d[2]
           /\ Len(d) = 1 => FullDir(d)[2] = Bucket
BY Longer, TextsAre DEF FullDir

\* A line without its last character.
LEMMA CutIs ==
    ASSUME NEW l \in Line
    PROVE  /\ Cut(l) \in Line /\ Cut(l).key \in {l.key, "other"}
           /\ Cut(l).str # "" => l.str # "" /\ Cut(l).key = l.key /\ Cut(l).eq = l.eq
<1> DEFINE n == l.num \div 10
<1>1. "cut" \in STRING /\ l.str \in STRING
  BY TextsAre DEF Line
<1>2. n \in Nat
  BY DEF Line
<1>3. Cut(l) = IF l.str # "" THEN [[l EXCEPT !.num = n] EXCEPT !.str = "cut"]
               ELSE IF l.eq THEN [l EXCEPT !.eq = FALSE]
               ELSE [l EXCEPT !.key = "other"]
  BY DEF Cut, Line
<1> HIDE DEF n
<1> QED
  BY <1>1, <1>2, <1>3 DEF Line

LEMMA LinesAre ==
    ASSUME input \in Inputs
    PROVE  /\ IsInput(input)
           /\ Len(input.file) \in Nat
           /\ \A i \in 1..Len(input.file) : ReadLine(i) \in Line /\ input.file[i] \in Line
<1>1. IsInput(input)
  BY InputsAssumption
<1> DEFINE file == input.file
<1>2. Len(file) \in Nat /\ \A i \in 1..Len(file) : file[i] \in Line
  <2>1. file \in Seq(Line)
    BY <1>1 DEF IsInput
  <2> HIDE DEF file
  <2> QED
    BY <2>1
<1>3. \A l \in Line : Cut(l) \in Line
  BY CutIs
<1>4. \A i \in 1..Len(input.file) : ReadLine(i) \in Line
  BY <1>2, <1>3 DEF ReadLine
<1> QED
  BY <1>1, <1>2, <1>4

\* All lines but a last one that is cut are read as they are written, and those
\* that count are told by it.
LEMMA AsWritten ==
    ASSUME input \in Inputs, NEW i \in 1..Len(input.file), ~CutShort(i)
    PROVE  /\ ReadLine(i) = input.file[i]
           /\ IsRead(i) <=> Counts(i)
           /\ i # 1 => (IsRead(i - 1) <=> Counts(i - 1))
<1>1. Len(input.file) \in Nat
  BY LinesAre
<1>2. ASSUME NEW j \in 1..i PROVE ReadLine(j) = input.file[j]
  BY <1>1 DEF ReadLine, CutShort
<1>3. i \in 1..i /\ 1..i - 1 \subseteq 1..i /\ (i # 1 => i - 1 \in 1..Len(input.file))
  BY <1>1
<1> QED
  BY <1>2, <1>3 DEF IsRead, Counts

LEMMA WholeKeys ==
    ASSUME input \in Inputs, NEW k \in Keys, Whole(k), NEW i \in 1..Len(input.file)
    PROVE  /\ ReadLine(i).key = k <=> input.file[i].key = k
           /\ ReadLine(i).key = k => /\ ReadLine(i) = input.file[i]
                                     /\ IsRead(i) <=> Counts(i)
                                     /\ i # 1 => (IsRead(i - 1) <=> Counts(i - 1))
<1>1. input.file[i] \in Line
  BY LinesAre
<1>0. k # "other"
  BY DEF Keys, Ints, Strs
<1>2. CASE CutShort(i)
  <2>1. input.file[i].key # k
    BY <1>2 DEF Whole
  <2>2. ReadLine(i).key \in {input.file[i].key, "other"}
    BY <1>1, <1>2, CutIs DEF ReadLine, CutShort
  <2> QED
    BY <1>0, <2>1, <2>2
<1>3. CASE ~CutShort(i)
  BY <1>3, AsWritten
<1> QED
  BY <1>2, <1>3

\* A pattern that is read, be it cut, is one that the file tells.
LEMMA LinesWithAre ==
    ASSUME input \in Inputs, NEW k
    PROVE  /\ WithKey(k) \subseteq 1..Len(input.file) /\ WithText(k) \subseteq 1..Len(input.file)
           /\ \A i \in WithKey(k) : i \in Nat
           /\ \A i \in WithText(k) : i \in Nat
<1>1. Len(input.file) \in Nat
  BY LinesAre
<1>2. WithKey(k) \subseteq 1..Len(input.file)
  BY DEF WithKey
<1>3. WithText(k) \subseteq WithKey(k)
  BY DEF WithText
<1> QED
  BY <1>1, <1>2, <1>3

LEMMA PatternIsTold ==
    ASSUME input \in Inputs, NEW i \in WithText("exclusion_pattern"), IsRead(i)
    PROVE  i \in ToldText("exclusion_pattern")
<1>0. Len(input.file) \in Nat /\ i \in Nat /\ i \in 1..Len(input.file)
  BY LinesAre, LinesWithAre
<1>1. ReadLine(i).key = "exclusion_pattern" /\ ReadLine(i).str # ""
  BY DEF WithText, WithKey
<1>2. input.file[i] \in Line
  BY <1>0, LinesAre
<1>3. CASE ~CutShort(i)
  BY <1>0, <1>1, <1>3, AsWritten DEF ToldText, Told
<1>4. CASE CutShort(i)
  <2>1. ReadLine(i) = Cut(input.file[i])
    BY <1>4 DEF ReadLine, CutShort
  <2>2. /\ input.file[i].str # "" /\ input.file[i].key = "exclusion_pattern"
        /\ input.file[i].eq = ReadLine(i).eq
    BY <1>0, <1>1, <1>2, <2>1, CutIs
  <2>3. ~Bad(ReadLine(i)) /\ FileIsRead
    <3>1. i \in 1..i
      BY <1>0
    <3> QED
      BY <3>1 DEF IsRead
  <2>4. ~Bad(input.file[i])
    BY <1>1, <2>2, <2>3 DEF Bad
  <2>5. ASSUME NEW j \in 1..i PROVE ~Bad(input.file[j])
    <3>1. CASE j = i
      BY <2>4, <3>1
    <3>2. CASE j # i
      <4>1. j # Len(input.file)
        BY <1>0, <3>2
      <4>2. ReadLine(j) = input.file[j]
        BY <4>1 DEF ReadLine
      <4> QED
        BY <4>2 DEF IsRead
    <3> QED
      BY <3>1, <3>2
  <2>6. Counts(i)
    BY <1>0, <2>3, <2>5 DEF Counts
  <2> QED
    BY <1>0, <2>2, <2>6 DEF ToldText, Told
<1> QED
  BY <1>3, <1>4

\* One more line is read: it speaks of the option, or not.
LEMMA FollowsNext ==
    ASSUME NEW N \in Nat, NEW told \in SUBSET (1..N), NEW n \in Nat, NEW said, NEW v, NEW w,
           NEW default, Follows(v, told, n, said, default),
           w = IF n + 1 \in told THEN said[n + 1] ELSE v
    PROVE  Follows(w, told, n + 1, said, default)
<1>1. \A j \in told : j \in Nat
  OBVIOUS
<1>2. CASE n + 1 \in told
  BY <1>1, <1>2 DEF Follows
<1>3. CASE n + 1 \notin told
  BY <1>1, <1>3 DEF Follows
<1> QED
  BY <1>2, <1>3

LEMMA FollowsNothing ==
    ASSUME NEW N \in Nat, NEW told \in SUBSET (1..N), NEW said, NEW default
    PROVE  Follows(default, told, 0, said, default)
BY DEF Follows

\* What parse_token does to each field.
LEMMA ParsedIs ==
    ASSUME conf \in Confs, NEW l \in Line, l.key = "cache_dir" => DirOf(l) \in Seq(STRING)
    PROVE  /\ Parsed(l) \in Confs
           /\ Parsed(l).ptr = conf.ptr
           /\ Parsed(l).int = IF l.key \in Ints THEN [conf.int EXCEPT ![l.key] = l.num] ELSE conf.int
           /\ Parsed(l).str = IF l.key \in Strs /\ l.str # "" THEN [conf.str EXCEPT ![l.key] = l.str]
                              ELSE conf.str
           /\ Parsed(l).dir = IF l.key = "cache_dir" THEN FullDir(DirOf(l)) ELSE conf.dir
           /\ Parsed(l).re = IF l.key = "exclusion_pattern" /\ l.str # ""
                             THEN [set |-> conf.re.set, str |-> "live"] ELSE conf.re
<1>1. l.num \in Nat /\ l.str \in STRING
  BY DEF Line
<1>2. CASE l.key \in Ints
  <2>1. Parsed(l) = [conf EXCEPT !.int = [conf.int EXCEPT ![l.key] = l.num]]
    <3>1. l.key \notin Strs /\ l.key \notin {"cache_dir", "exclusion_pattern", "log_level"}
      BY <1>2 DEF Ints, Strs
    <3> QED
      BY <1>2, <3>1 DEF Parsed, ParseInt
  <2>2. [conf.int EXCEPT ![l.key] = l.num] \in [Ints -> Nat]
    BY <1>1 DEF Confs
  <2>3. l.key \notin Strs /\ l.key # "cache_dir" /\ l.key # "exclusion_pattern"
    BY <1>2 DEF Ints, Strs
  <2> QED
    BY <1>2, <2>1, <2>2, <2>3 DEF Confs
<1>3. CASE l.key \in Strs
  <2>1. l.key \notin Ints /\ l.key # "cache_dir" /\ l.key # "exclusion_pattern" /\ l.key # "log_level"
    BY <1>3 DEF Ints, Strs
  <2>2. Parsed(l) = IF l.str # "" THEN [conf EXCEPT !.str = [conf.str EXCEPT ![l.key] = l.str]]
                    ELSE conf
    BY <1>3, <2>1 DEF Parsed
  <2>3. [conf.str EXCEPT ![l.key] = l.str] \in [Strs -> STRING]
    BY <1>1 DEF Confs
  <2> QED
    BY <1>3, <2>1, <2>2, <2>3 DEF Confs
<1>4. CASE l.key = "cache_dir"
  <2>1. l.key \notin Ints /\ l.key \notin Strs
    BY <1>4 DEF Ints, Strs
  <2>2. Parsed(l) = [conf EXCEPT !.dir = FullDir(DirOf(l))]
    BY <1>4, <2>1 DEF Parsed
  <2>3. FullDir(DirOf(l)) \in Seq(STRING)
    BY <1>4, DirIsLonger
  <2> QED
    BY <1>4, <2>1, <2>2, <2>3 DEF Confs
<1>5. CASE l.key = "exclusion_pattern"
  <2>1. l.key \notin Ints /\ l.key \notin Strs
    BY <1>5 DEF Ints, Strs
  <2>2. Parsed(l) = IF l.str # "" THEN [conf EXCEPT !.re.str = "live"] ELSE conf
    BY <1>5, <2>1 DEF Parsed
  <2>3. [conf.re EXCEPT !.str = "live"] = [set |-> conf.re.set, str |-> "live"]
    BY DEF Confs
  <2>4. Parsed(l) = IF l.str # "" THEN [conf EXCEPT !.re = [set |-> conf.re.set, str |-> "live"]]
                    ELSE conf
    BY <2>2, <2>3
  <2> DEFINE re == [set |-> conf.re.set, str |-> "live"]
  <2>5. re \in [set : BOOLEAN, str : {"null", "live", "freed"}]
    BY DEF Confs
  <2> HIDE DEF re
  <2>6. re = [set |-> conf.re.set, str |-> "live"]
    BY DEF re
  <2>7. Parsed(l) = IF l.str # "" THEN [conf EXCEPT !.re = re] ELSE conf
    BY <2>4, <2>6
  <2> QED
    <3> DEFINE changed == [conf EXCEPT !.re = re]
    <3>1. changed \in Confs
      BY <2>5 DEF Confs
    <3>2. /\ changed.ptr = conf.ptr /\ changed.int = conf.int /\ changed.str = conf.str
          /\ changed.dir = conf.dir /\ changed.re = re
      BY DEF Confs
    <3> HIDE DEF changed
    <3>3. Parsed(l) = IF l.str # "" THEN changed ELSE conf
      BY <2>7 DEF changed
    <3>4. CASE l.str # ""
      BY <1>5, <2>1, <2>6, <3>1, <3>2, <3>3, <3>4
    <3>5. CASE l.str = ""
      BY <1>5, <2>1, <3>3, <3>5
    <3> QED
      BY <3>4, <3>5
<1>6. CASE l.key \in {"log_level", "other"}
  <2>1. l.key \notin Ints /\ l.key \notin Strs /\ l.key # "cache_dir" /\ l.key # "exclusion_pattern"
    BY <1>6 DEF Ints, Strs
  <2>2. Parsed(l) = IF l.key = "log_level" THEN [conf EXCEPT !.level = LevelOf(l.str)] ELSE conf
    BY <1>6, <2>1 DEF Parsed
  <2>3. LevelOf(l.str) \in Levels
    BY DEF LevelOf, Levels
  <2> QED
    BY <2>1, <2>2, <2>3 DEF Confs
<1> QED
  BY <1>2, <1>3, <1>4, <1>5, <1>6 DEF Line, Keys

\* The value that follows the lines is that of the last one that counts.
LEMMA FollowsIs ==
    ASSUME NEW told, \A i \in told : i \in Nat, NEW n \in Nat, NEW said, NEW v, NEW default,
           Follows(v, told, n, said, default)
    PROVE  \/ (\A i \in told : ~(i <= n)) /\ v = default
           \/ \E i \in told :
                 /\ i <= n /\ v = said[i]
                 /\ \A j \in told : j <= n => j <= i
                 /\ \A m \in told : m <= n /\ i <= m => m = i
BY DEF Follows

LEMMA NewestIs ==
    ASSUME NEW T, NEW i \in T, \A j \in T : j <= i, \A m \in T : i <= m => m = i
    PROVE  Newest(T) = i
<1>1. \A m \in T : (\A j \in T : j <= m) => m = i
  OBVIOUS
<1> QED
  BY <1>1 DEF Newest

LEMMA LastIs ==
    ASSUME NEW told, \A i \in told : i \in Nat, NEW n \in Nat, NEW said, NEW v, NEW default,
           Follows(v, told, n, said, default),
           NEW T, \A i : i \in T <=> i \in told /\ i <= n
    PROVE  /\ T = {} => v = default
           /\ T # {} => Newest(T) \in told /\ v = said[Newest(T)]
<1>1. \/ (\A i \in told : ~(i <= n)) /\ v = default
      \/ \E i \in told :
            /\ i <= n /\ v = said[i]
            /\ \A j \in told : j <= n => j <= i
            /\ \A m \in told : m <= n /\ i <= m => m = i
  BY FollowsIs
<1>2. CASE (\A i \in told : ~(i <= n)) /\ v = default
  BY <1>2
<1>3. CASE \E i \in told :
              /\ i <= n /\ v = said[i]
              /\ \A j \in told : j <= n => j <= i
              /\ \A m \in told : m <= n /\ i <= m => m = i
  <2>1. PICK i \in T : i \in told /\ v = said[i] /\ (\A j \in T : j <= i)
                     /\ \A m \in T : i <= m => m = i
    BY <1>3
  <2>2. Newest(T) = i
    BY <2>1, NewestIs
  <2> QED
    BY <2>1, <2>2
<1> QED
  BY <1>1, <1>2, <1>3

LEMMA IntIsWanted ==
    ASSUME input \in Inputs, NEW n \in Nat, \A i \in 1..Len(input.file) : IsRead(i) <=> i <= n,
           NEW k \in Ints, Whole(k), k \notin DOMAIN input.int, NEW v,
           Follows(v, WithKey(k), n, Nums, DefaultInt[k])
    PROVE  WantedInt(k) = v
<1> DEFINE told == WithKey(k)
           T == Told(k)
<1>1. \A i \in told : i \in Nat
  BY LinesWithAre
<1>2. \A i : i \in T <=> i \in told /\ i <= n
  BY WholeKeys DEF Keys, Told, WithKey
<1>3. WantedInt(k) = IF T = {} THEN DefaultInt[k] ELSE input.file[Newest(T)].num
  BY DEF WantedInt
<1>4. \A i \in told : Nums[i] = input.file[i].num
  BY WholeKeys DEF Keys, WithKey, Nums
<1>5. Follows(v, told, n, Nums, DefaultInt[k])
  OBVIOUS
<1> HIDE DEF told, T
<1>6. /\ T = {} => v = DefaultInt[k]
      /\ T # {} => Newest(T) \in told /\ v = Nums[Newest(T)]
  BY <1>1, <1>2, <1>5, LastIs
<1> QED
  BY <1>3, <1>4, <1>6

LEMMA StrIsWanted ==
    ASSUME input \in Inputs, NEW n \in Nat, \A i \in 1..Len(input.file) : IsRead(i) <=> i <= n,
           NEW k \in Strs, Whole(k), k \notin DOMAIN input.str, NEW v,
           Follows(v, WithText(k), n, Texts, DefaultStr[k])
    PROVE  WantedStr(k) = v
<1> DEFINE told == WithText(k)
           T == ToldText(k)
<1>1. \A i \in told : i \in Nat
  BY LinesWithAre
<1>2. \A i : i \in T <=> i \in told /\ i <= n
  BY WholeKeys DEF Keys, ToldText, Told, WithText, WithKey
<1>3. WantedStr(k) = IF T = {} THEN DefaultStr[k] ELSE input.file[Newest(T)].str
  BY DEF WantedStr
<1>4. \A i \in told : Texts[i] = input.file[i].str
  BY WholeKeys DEF Keys, WithText, WithKey, Texts
<1>5. Follows(v, told, n, Texts, DefaultStr[k])
  OBVIOUS
<1> HIDE DEF told, T
<1>6. /\ T = {} => v = DefaultStr[k]
      /\ T # {} => Newest(T) \in told /\ v = Texts[Newest(T)]
  BY <1>1, <1>2, <1>5, LastIs
<1> QED
  BY <1>3, <1>4, <1>6

LEMMA DirIsWanted ==
    ASSUME input \in Inputs, Whole("cache_dir"), NEW n \in Nat, NEW v,
           \A i \in WithText("cache_dir") :
              i <= n <=> FileIsRead /\ (i = 1 \/ IsRead(i - 1)) /\ ReadLine(i).eq,
           Follows(v, WithText("cache_dir"), n, Texts, DefaultDir)
    PROVE  WantedDir = v
<1> DEFINE told == WithText("cache_dir")
           T == ToldDir
<1>1. \A i \in told : i \in Nat
  BY LinesWithAre
<1>2. \A i : i \in T <=> i \in told /\ i <= n
  <2>1. ASSUME NEW i \in 1..Len(input.file)
        PROVE  i \in T <=> i \in told /\ i <= n
    <3>1. CASE i \in told
      <4>1. ReadLine(i).key = "cache_dir" /\ ReadLine(i).str # ""
        BY <3>1 DEF WithText, WithKey
      <4>2. /\ ReadLine(i) = input.file[i] 
            /\ i # 1 => (IsRead(i - 1) <=> Counts(i - 1))
        BY <4>1, WholeKeys DEF Keys
      <4>3. i \in T <=> FileIsRead /\ (i = 1 \/ Counts(i - 1)) /\ ReadLine(i).eq
        BY <4>1, <4>2 DEF ToldDir
      <4> QED
        BY <3>1, <4>2, <4>3
    <3>2. CASE i \notin told
      <4>1. ReadLine(i).key = "cache_dir" <=> input.file[i].key = "cache_dir"
        BY WholeKeys DEF Keys
      <4>2. ReadLine(i).key = "cache_dir" => ReadLine(i) = input.file[i]
        BY WholeKeys DEF Keys
      <4> QED
        BY <3>2, <4>1, <4>2 DEF ToldDir, WithText, WithKey
    <3> QED
      BY <3>1, <3>2
  <2>2. T \subseteq 1..Len(input.file) /\ told \subseteq 1..Len(input.file)
    BY LinesWithAre DEF ToldDir
  <2> QED
    BY <2>1, <2>2
<1>3. WantedDir = IF T = {} THEN DefaultDir ELSE input.file[Newest(T)].str
  BY DEF WantedDir
<1>4. \A i \in told : Texts[i] = input.file[i].str
  BY WholeKeys DEF Keys, WithText, WithKey, Texts
<1>5. Follows(v, told, n, Texts, DefaultDir)
  OBVIOUS
<1> HIDE DEF told, T
<1>6. /\ T = {} => v = DefaultDir
      /\ T # {} => Newest(T) \in told /\ v = Texts[Newest(T)]
  BY <1>1, <1>2, <1>5, LastIs
<1> QED
  BY <1>3, <1>4, <1>6

-----------------------------------------------------------------------------
(* conf_ctor, step by step.                                                 *)

\* What the settings ask for is fixed.
LEMMA InputStays ==
    ASSUME input' = input
    PROVE  /\ \A i : ReadLine(i)' = ReadLine(i) /\ IsRead(i)' = IsRead(i)
           /\ \A k : WantedInt(k)' = WantedInt(k) /\ WantedStr(k)' = WantedStr(k)
           /\ \A k : Whole(k)' = Whole(k)
           /\ WantedDir' = WantedDir
           /\ PatternFreed' = PatternFreed /\ FileIsRead' = FileIsRead
           /\ \A k : ToldText(k)' = ToldText(k)
           /\ \A k : WithKey(k)' = WithKey(k) /\ WithText(k)' = WithText(k)
           /\ Nums' = Nums /\ Texts' = Texts
<1>1. \A i : ReadLine(i)' = ReadLine(i) /\ IsRead(i)' = IsRead(i) /\ Counts(i)' = Counts(i)
  BY DEF ReadLine, Cut, IsRead, Counts, Bad, FileIsRead
<1>2. \A k : Told(k)' = Told(k) /\ ToldText(k)' = ToldText(k)
  BY <1>1 DEF Told, ToldText
<1>3. ToldDir' = ToldDir
  BY <1>1 DEF ToldDir, FileIsRead
<1>4. ASSUME NEW k PROVE WantedInt(k)' = WantedInt(k)
  <2>1. PICK i : i = Newest(Told(k))
    OBVIOUS
  <2>2. Newest(Told(k))' = i
    BY <1>2, <2>1 DEF Newest
  <2> QED
    BY <1>1, <1>2, <2>1, <2>2 DEF WantedInt
<1>5. ASSUME NEW k PROVE WantedStr(k)' = WantedStr(k)
  <2>1. PICK i : i = Newest(ToldText(k))
    OBVIOUS
  <2>2. Newest(ToldText(k))' = i
    BY <1>2, <2>1 DEF Newest
  <2> QED
    BY <1>1, <1>2, <2>1, <2>2 DEF WantedStr
<1>6. WantedDir' = WantedDir
  <2>1. PICK i : i = Newest(ToldDir)
    OBVIOUS
  <2>2. Newest(ToldDir)' = i
    BY <1>3, <2>1 DEF Newest
  <2> QED
    BY <1>1, <1>3, <2>1, <2>2 DEF WantedDir
<1>7. PatternFreed' = PatternFreed /\ FileIsRead' = FileIsRead
  BY <1>2 DEF PatternFreed, FileIsRead
<1>8. \A k : Whole(k)' = Whole(k)
  BY DEF Whole, CutShort
<1>9. \A k : WithKey(k)' = WithKey(k) /\ WithText(k)' = WithText(k)
  BY <1>1 DEF WithKey, WithText
<1>10. Nums' = Nums /\ Texts' = Texts
  BY <1>1 DEF Nums, Texts
<1> QED
  BY <1>1, <1>2, <1>4, <1>5, <1>6, <1>7, <1>8, <1>9, <1>10

\* The directory of a line, and whether it can be made.
LEMMA DirOfIs ==
    ASSUME conf \in Confs, Len(conf.dir) > 1, NEW l \in Line
    PROVE  /\ DirOf(l) \in Seq(STRING) /\ Len(DirOf(l)) > 0
           /\ CanMake(DirOf(l)) <=> l.str \in input.dirs \union {""}
           /\ l.str = "" => DirOf(l) = conf.dir
           /\ l.str # "" => Len(DirOf(l)) = 1 /\ DirOf(l)[1] = l.str
<1>1. conf.dir \in Seq(STRING) /\ l.str \in STRING
  BY DEF Confs, Line
<1>2. <<l.str>> \in Seq(STRING) /\ Len(<<l.str>>) = 1 /\ <<l.str>>[1] = l.str
  BY <1>1
<1>3. CASE l.str = ""
  <2>1. DirOf(l) = conf.dir
    BY <1>3 DEF DirOf
  <2>2. CanMake(DirOf(l))
    BY <2>1 DEF CanMake
  <2>3. Len(conf.dir) > 0
    BY <1>1
  <2> QED
    BY <1>1, <1>3, <2>1, <2>2, <2>3
<1>4. CASE l.str # ""
  <2> DEFINE d == <<l.str>>
  <2>1. DirOf(l) = d
    BY <1>4 DEF DirOf
  <2>2. Len(d) = 1 /\ d[1] = l.str /\ d \in Seq(STRING)
    BY <1>2
  <2> HIDE DEF d
  <2>3. CanMake(d) <=> l.str \in input.dirs
    BY <2>2 DEF CanMake
  <2>4. Len(d) > 0
    BY <2>2
  <2>5. CanMake(d) <=> l.str \in input.dirs \union {""}
    BY <1>4, <2>3
  <2> QED
    BY <1>4, <2>1, <2>2, <2>4, <2>5, Zenon
<1> QED
  BY <1>3, <1>4

LEMMA FullDirIs ==
    ASSUME NEW d \in Seq(STRING), Len(d) = 1 \/ (Len(d) > 1 /\ d[2] = Bucket)
    PROVE  Len(FullDir(d)) > 1 /\ FullDir(d)[2] = Bucket /\ FullDir(d)[1] = d[1]
<1>1. Len(d) \in Nat
  OBVIOUS
<1>2. /\ Len(FullDir(d)) = Len(d) + 1
      /\ Len(d) > 0 => FullDir(d)[1] = d[1]
      /\ Len(d) > 1 => FullDir(d)[2] = d[2]
      /\ Len(d) = 1 => FullDir(d)[2] = Bucket
  BY DirIsLonger
<1> QED
  BY <1>1, <1>2

\* A line that is read is in conf, unless it has no '='.
LEMMA LineIsRead ==
    ASSUME MainTypes, Parsing, NEW n \in Nat, line = n + 1, line <= Len(input.file),
           NEW l \in Line, l = ReadLine(line), NEW c \in Confs, c = Parsed(l)
    PROVE  /\ c.ptr = conf.ptr
           /\ \A k \in Ints : Follows(c.int[k], WithKey(k), n + 1, Nums, DefaultInt[k])
           /\ \A k \in Strs : Follows(c.str[k], WithText(k), n + 1, Texts, DefaultStr[k])
           /\ c.re.set = FALSE
           /\ \/ c.re.str = "null"
              \/ c.re.str = "live" /\ \E i \in WithText("exclusion_pattern") : i <= n + 1
           /\ Len(c.dir) > 1 /\ c.dir[2] = Bucket
           /\ Follows(c.dir[1], WithText("cache_dir"), n + 1, Texts, DefaultDir)
<1>1. line \in 1..Len(input.file) /\ Len(input.file) \in Nat /\ input \in Inputs /\ conf \in Confs
  BY LinesAre DEF MainTypes
<1>2. ReadUpTo(n) /\ DirFollows(n)
  <2>1. n = line - 1
    OBVIOUS
  <2> QED
    BY <2>1 DEF Parsing
<1>3. Len(conf.dir) > 1 /\ conf.dir \in Seq(STRING) /\ conf.dir[2] = Bucket
      /\ conf.int \in [Ints -> Nat] /\ conf.str \in [Strs -> STRING]
  BY <1>1, <1>2 DEF DirFollows, Confs
<1>4. /\ DirOf(l) \in Seq(STRING) /\ Len(DirOf(l)) > 0
      /\ l.str = "" => DirOf(l) = conf.dir
      /\ l.str # "" => Len(DirOf(l)) = 1 /\ DirOf(l)[1] = l.str
  BY <1>1, <1>3, DirOfIs
<1>5. /\ Parsed(l).ptr = conf.ptr
      /\ Parsed(l).int = IF l.key \in Ints THEN [conf.int EXCEPT ![l.key] = l.num] ELSE conf.int
      /\ Parsed(l).str = IF l.key \in Strs /\ l.str # "" THEN [conf.str EXCEPT ![l.key] = l.str]
                         ELSE conf.str
      /\ Parsed(l).dir = IF l.key = "cache_dir" THEN FullDir(DirOf(l)) ELSE conf.dir
      /\ Parsed(l).re = IF l.key = "exclusion_pattern" /\ l.str # ""
                        THEN [set |-> conf.re.set, str |-> "live"] ELSE conf.re
  BY <1>1, <1>4, ParsedIs
<1>6. ASSUME NEW k
      PROVE  /\ WithKey(k) \in SUBSET (1..Len(input.file))
             /\ WithText(k) \in SUBSET (1..Len(input.file))
             /\ n + 1 \in WithKey(k) <=> l.key = k
             /\ n + 1 \in WithText(k) <=> l.key = k /\ l.str # ""
  BY <1>1 DEF WithKey, WithText
<1>7. Nums[n + 1] = l.num /\ Texts[n + 1] = l.str
  BY <1>1 DEF Nums, Texts
<1>8. ASSUME NEW k \in Ints
      PROVE  Follows(c.int[k], WithKey(k), n + 1, Nums, DefaultInt[k])
  <2>1. Follows(conf.int[k], WithKey(k), n, Nums, DefaultInt[k])
    BY <1>2 DEF ReadUpTo
  <2>2. c.int = IF l.key \in Ints THEN [conf.int EXCEPT ![l.key] = l.num] ELSE conf.int
    BY <1>5
  <2>3. c.int[k] = IF l.key = k THEN l.num ELSE conf.int[k]
    BY <1>3, <2>2
  <2>4. c.int[k] = IF n + 1 \in WithKey(k) THEN Nums[n + 1] ELSE conf.int[k]
    BY <1>6, <1>7, <2>3
  <2> QED
    BY <1>1, <1>6, <2>1, <2>4, FollowsNext
<1>9. ASSUME NEW k \in Strs
      PROVE  Follows(c.str[k], WithText(k), n + 1, Texts, DefaultStr[k])
  <2>1. Follows(conf.str[k], WithText(k), n, Texts, DefaultStr[k])
    BY <1>2 DEF ReadUpTo
  <2>2. c.str = IF l.key \in Strs /\ l.str # "" THEN [conf.str EXCEPT ![l.key] = l.str] ELSE conf.str
    BY <1>5
  <2>3. c.str[k] = IF l.key = k /\ l.str # "" THEN l.str ELSE conf.str[k]
    BY <1>3, <2>2
  <2>4. c.str[k] = IF n + 1 \in WithText(k) THEN Texts[n + 1] ELSE conf.str[k]
    BY <1>6, <1>7, <2>3
  <2> QED
    BY <1>1, <1>6, <2>1, <2>4, FollowsNext
<1>10. /\ Len(c.dir) > 1 /\ c.dir[2] = Bucket
       /\ c.dir[1] = IF l.key = "cache_dir" /\ l.str # "" THEN l.str ELSE conf.dir[1]
  <2>1. CASE l.key = "cache_dir"
    <3>1. c.dir = FullDir(DirOf(l))
      BY <1>5, <2>1
    <3>2. Len(DirOf(l)) = 1 \/ (Len(DirOf(l)) > 1 /\ DirOf(l)[2] = Bucket)
      BY <1>3, <1>4, Zenon
    <3>3. DirOf(l)[1] = IF l.str # "" THEN l.str ELSE conf.dir[1]
      BY <1>4, Zenon
    <3>4. Len(FullDir(DirOf(l))) > 1 /\ FullDir(DirOf(l))[2] = Bucket
          /\ FullDir(DirOf(l))[1] = DirOf(l)[1]
      BY <1>4, <3>2, FullDirIs, Zenon
    <3> QED
      BY <2>1, <3>1, <3>3, <3>4, Zenon
  <2>2. CASE l.key # "cache_dir"
    BY <1>3, <1>5, <2>2
  <2> QED
    BY <2>1, <2>2
<1>11. Follows(c.dir[1], WithText("cache_dir"), n + 1, Texts, DefaultDir)
  <2>1. Follows(conf.dir[1], WithText("cache_dir"), n, Texts, DefaultDir)
    BY <1>2 DEF DirFollows
  <2>2. c.dir[1] = IF n + 1 \in WithText("cache_dir") THEN Texts[n + 1] ELSE conf.dir[1]
    BY <1>6, <1>7, <1>10
  <2> QED
    BY <1>1, <1>6, <2>1, <2>2, FollowsNext
<1>12. /\ c.re.set = FALSE
       /\ \/ c.re.str = "null"
          \/ c.re.str = "live" /\ \E i \in WithText("exclusion_pattern") : i <= n + 1
  <2>1. PatternFollows(n)
    BY <1>2 DEF ReadUpTo
  <2>2. CASE l.key = "exclusion_pattern" /\ l.str # ""
    <3>1. c.re = [set |-> conf.re.set, str |-> "live"]
      BY <1>5, <2>2
    <3>2. n + 1 \in WithText("exclusion_pattern")
      BY <1>6, <2>2, Zenon
    <3>3. n + 1 <= n + 1
      OBVIOUS
    <3> QED
      BY <2>1, <3>1, <3>2, <3>3 DEF PatternFollows
  <2>3. CASE ~(l.key = "exclusion_pattern" /\ l.str # "")
    <3>1. c.re = conf.re
      BY <1>5, <2>3
    <3>2. \A i \in WithText("exclusion_pattern") : i \in Nat
      BY <1>1, LinesWithAre
    <3>3. \A i \in WithText("exclusion_pattern") : i <= n => i <= n + 1
      BY <3>2
    <3> QED
      BY <2>1, <3>1, <3>3 DEF PatternFollows
  <2> QED
    BY <2>2, <2>3
<1> QED
  BY <1>5, <1>8, <1>9, <1>10, <1>11, <1>12

\* A line with an '=' whose directory can be made.
LEMMA ParseGood ==
    ASSUME MainTypes, Parsing, line <= Len(input.file), ~Bad(ReadLine(line)),
           conf' = Parsed(ReadLine(line)), line' = line + 1, input' = input
    PROVE  Parsing' /\ conf' \in Confs /\ conf'.ptr = conf.ptr
<1> DEFINE l == ReadLine(line)
           n == line - 1
           c == Parsed(l)
<1>1. line \in 1..Len(input.file) /\ n \in Nat /\ line = n + 1 /\ Len(input.file) \in Nat
      /\ input \in Inputs /\ conf \in Confs
  BY LinesAre DEF MainTypes
<1>2. l \in Line /\ Len(conf.dir) > 1
  BY <1>1, LinesAre DEF Parsing, DirFollows
<1>3. DirOf(l) \in Seq(STRING)
  BY <1>1, <1>2, DirOfIs
<1>4. c \in Confs
  <2> HIDE DEF l
  <2> QED
    BY <1>1, <1>2, <1>3, ParsedIs
<1>5. l = ReadLine(line) /\ c = Parsed(l) /\ conf' = c
  OBVIOUS
<1> HIDE DEF l, n, c
<1>6. /\ c.ptr = conf.ptr
      /\ \A k \in Ints : Follows(c.int[k], WithKey(k), n + 1, Nums, DefaultInt[k])
      /\ \A k \in Strs : Follows(c.str[k], WithText(k), n + 1, Texts, DefaultStr[k])
      /\ c.re.set = FALSE
      /\ \/ c.re.str = "null"
         \/ c.re.str = "live" /\ \E i \in WithText("exclusion_pattern") : i <= n + 1
      /\ Len(c.dir) > 1 /\ c.dir[2] = Bucket
      /\ Follows(c.dir[1], WithText("cache_dir"), n + 1, Texts, DefaultDir)
  BY <1>1, <1>2, <1>4, <1>5, LineIsRead
<1>7. line' - 1 = n + 1
  BY <1>1
<1>8. /\ \A i : ReadLine(i)' = ReadLine(i)
      /\ \A k : WithKey(k)' = WithKey(k) /\ WithText(k)' = WithText(k)
      /\ Nums' = Nums /\ Texts' = Texts
  BY InputStays
<1>9. (\A k \in Ints : Follows(conf.int[k], WithKey(k), line - 1, Nums, DefaultInt[k]))'
  BY <1>5, <1>6, <1>7, <1>8
<1>10. (\A k \in Strs : Follows(conf.str[k], WithText(k), line - 1, Texts, DefaultStr[k]))'
  BY <1>5, <1>6, <1>7, <1>8
<1>11. PatternFollows(line - 1)'
  BY <1>5, <1>6, <1>7, <1>8 DEF PatternFollows
<1>12. DirFollows(line - 1)'
  BY <1>5, <1>6, <1>7, <1>8 DEF DirFollows
<1>13. (FileIsRead /\ \A i \in 1..line - 1 : ~Bad(ReadLine(i)))'
  <2>1. FileIsRead' /\ \A i \in 1..n : ~Bad(ReadLine(i))
    BY <1>1, InputStays DEF Parsing
  <2>2. \A x : Bad(x)' <=> Bad(x)
    BY DEF Bad
  <2>3. \A i \in 1..n + 1 : i \in 1..n \/ i = line
    BY <1>1
  <2> QED
    BY <1>7, <1>8, <2>1, <2>2, <2>3
<1> QED
  BY <1>4, <1>5, <1>6, <1>9, <1>10, <1>11, <1>12, <1>13 DEF Parsing, ReadUpTo

\* The file is read up to its line n; the cache_dir in it, perhaps, to the next.
LEMMA ReadingEnds ==
    ASSUME input \in Inputs, input' = input, NEW n \in Nat,
           \A i \in 1..Len(input.file) : IsRead(i) <=> i <= n,
           \A k \in Ints : Follows(conf'.int[k], WithKey(k), n, Nums, DefaultInt[k]),
           \A k \in Strs : Follows(conf'.str[k], WithText(k), n, Texts, DefaultStr[k]),
           conf'.re.set = FALSE,
           \/ conf'.re.str = "null"
           \/ conf'.re.str = "live" /\ \E i \in WithText("exclusion_pattern") : i <= n,
           DirAsWanted'
    PROVE  FileRead'
<1>1. \A k \in Ints \ DOMAIN input.int : Whole(k) => conf'.int[k] = WantedInt(k)
  BY IntIsWanted
<1>2. \A k \in Strs \ DOMAIN input.str : Whole(k) => conf'.str[k] = WantedStr(k)
  BY StrIsWanted
<1>3. ASSUME NEW i \in WithText("exclusion_pattern"), i <= n
      PROVE  ToldText("exclusion_pattern") # {}
  BY <1>3, LinesWithAre, PatternIsTold
<1> QED
  BY <1>1, <1>2, <1>3, InputStays DEF FileRead

LEMMA CountsUpTo ==
    ASSUME input \in Inputs, FileIsRead,
           NEW n \in Nat, n <= Len(input.file), \A i \in 1..n : ~Bad(ReadLine(i)),
           n = Len(input.file) \/ Bad(ReadLine(n + 1))
    PROVE  \A i \in 1..Len(input.file) : IsRead(i) <=> i <= n
<1>1. Len(input.file) \in Nat
  BY LinesAre
<1> SUFFICES ASSUME NEW i \in 1..Len(input.file) PROVE IsRead(i) <=> i <= n
  OBVIOUS
<1>2. ASSUME i <= n PROVE IsRead(i)
  <2>1. 1..i \subseteq 1..n
    BY <1>1, <1>2
  <2> QED
    BY <2>1 DEF IsRead
<1>3. ASSUME IsRead(i), ~(i <= n) PROVE FALSE
  <2>1. n + 1 \in 1..i /\ n # Len(input.file)
    BY <1>1, <1>3
  <2> QED
    BY <1>3, <2>1 DEF IsRead
<1> QED
  BY <1>2, <1>3

\* parse_line at the end of the file, or at a bad line.
LEMMA ParseEnds ==
    ASSUME MainTypes, Parsing, NEW n \in Nat, line = n + 1, input' = input,
           conf'.int = conf.int, conf'.str = conf.str, conf'.re = conf.re,
           \/ n = Len(input.file) /\ conf'.dir = conf.dir
           \/ /\ n < Len(input.file) /\ Bad(ReadLine(line))
              /\ IF ReadLine(line).eq
                 THEN /\ Len(conf'.dir) > 1 /\ conf'.dir[2] = Bucket
                      /\ Follows(conf'.dir[1], WithText("cache_dir"), n + 1, Texts, DefaultDir)
                 ELSE conf'.dir = conf.dir
    PROVE  FileRead'
<1>1. input \in Inputs /\ Len(input.file) \in Nat /\ FileIsRead
  BY LinesAre DEF MainTypes, Parsing
<1>2. n = line - 1 /\ n <= Len(input.file) /\ \A i \in 1..n : ~Bad(ReadLine(i))
  BY <1>1 DEF Parsing
<1>3. ReadUpTo(n) /\ DirFollows(n)
  BY <1>2 DEF Parsing
<1>4. \A i \in 1..Len(input.file) : IsRead(i) <=> i <= n
  BY <1>1, <1>2, CountsUpTo
<1>5. /\ \A k \in Ints : Follows(conf'.int[k], WithKey(k), n, Nums, DefaultInt[k])
      /\ \A k \in Strs : Follows(conf'.str[k], WithText(k), n, Texts, DefaultStr[k])
      /\ conf'.re.set = FALSE
      /\ \/ conf'.re.str = "null"
         \/ conf'.re.str = "live" /\ \E i \in WithText("exclusion_pattern") : i <= n
  BY <1>3 DEF ReadUpTo, PatternFollows
<1> DEFINE told == WithText("cache_dir")
           All(i) == FileIsRead /\ (i = 1 \/ IsRead(i - 1)) /\ ReadLine(i).eq
<1>6. ASSUME NEW i \in told
      PROVE  /\ i \in 1..Len(input.file) /\ i \in Nat
             /\ ~Bad(ReadLine(i)) => ReadLine(i).eq
             /\ i <= n => All(i)
             /\ All(i) => i <= n + 1
  <2>1. i \in 1..Len(input.file) /\ ReadLine(i).key = "cache_dir"
    BY DEF WithText, WithKey
  <2>2. ~Bad(ReadLine(i)) => ReadLine(i).eq
    BY <2>1 DEF Bad, Keys
  <2>3. i <= n => All(i)
    <3>1. i = 1 \/ i - 1 \in 1..Len(input.file)
      BY <1>1, <2>1
    <3> QED
      BY <1>1, <1>2, <1>4, <2>1, <2>2, <3>1
  <2>4. ASSUME All(i) PROVE i <= n + 1
    <3>1. i = 1 \/ i - 1 \in 1..Len(input.file)
      BY <1>1, <2>1
    <3> QED
      BY <1>1, <1>4, <2>1, <2>4, <3>1
  <2> QED
    BY <1>1, <2>1, <2>2, <2>3, <2>4
<1>7. /\ Len(conf'.dir) > 1 /\ conf'.dir[2] = Bucket
      /\ Whole("cache_dir") => WantedDir = conf'.dir[1]
  <2>1. CASE conf'.dir = conf.dir /\ (n = Len(input.file) \/ ~ReadLine(line).eq)
    <3>1. \A i \in told : i <= n <=> All(i)
      <4> SUFFICES ASSUME NEW i \in told, All(i) PROVE i <= n
        BY <1>6
      <4>1. i \in 1..Len(input.file) /\ i <= n + 1 /\ ReadLine(i).eq
        BY <1>6
      <4>2. CASE n = Len(input.file)
        BY <4>1, <4>2
      <4>3. CASE ~ReadLine(line).eq
        BY <1>1, <4>1, <4>3
      <4> QED
        BY <2>1, <4>2, <4>3
    <3>2. Follows(conf'.dir[1], told, n, Texts, DefaultDir)
      BY <1>3, <2>1 DEF DirFollows
    <3> QED
      BY <1>1, <1>3, <2>1, <3>1, <3>2, DirIsWanted DEF DirFollows
  <2>2. CASE /\ n < Len(input.file) /\ Bad(ReadLine(line)) /\ ReadLine(line).eq
             /\ Len(conf'.dir) > 1 /\ conf'.dir[2] = Bucket
             /\ Follows(conf'.dir[1], told, n + 1, Texts, DefaultDir)
    <3>1. \A i \in told : i <= n + 1 <=> All(i)
      <4> SUFFICES ASSUME NEW i \in told, i <= n + 1 PROVE All(i)
        BY <1>6
      <4>1. i <= n \/ i = n + 1
        BY <1>6
      <4>2. ASSUME i = n + 1, n # 0 PROVE IsRead(i - 1)
        <5>1. Len(input.file) \in Nat /\ n <= Len(input.file)
          BY <1>1, <1>2
        <5>2. n \in 1..Len(input.file) /\ n <= n
          BY <4>2, <5>1
        <5>3. i - 1 = n
          BY <4>2
        <5> QED
          BY <1>4, <5>2, <5>3
      <4> QED
        BY <1>1, <1>6, <2>2, <4>1, <4>2
    <3>2. n + 1 \in Nat
      OBVIOUS
    <3> QED
      BY <1>1, <2>2, <3>1, <3>2, DirIsWanted
  <2> QED
    BY <2>1, <2>2
<1>8. DirAsWanted'
  BY <1>7, InputStays DEF DirAsWanted
<1> QED
  BY <1>1, <1>4, <1>5, <1>8, ReadingEnds

LEMMA ParseLineKeeps ==
    ASSUME MainTypes, Parsing, conf.ptr = "live", ub = FALSE, ParseLine
    PROVE  /\ main' = "parse" => Parsing'
           /\ main' = "env" => FileRead'
           /\ main' \in {"parse", "env"}
           /\ conf' \in Confs /\ conf'.ptr = "live"
           /\ line' \in 1..Len(input'.file) + 1
           /\ ub' \in BOOLEAN
           /\ ub' => \E i \in 1..line' - 1 : EmptyLevel(ReadLine(i)')
<1> DEFINE n == line - 1
<1>1. line \in 1..Len(input.file) + 1 /\ n \in Nat /\ line = n + 1 /\ Len(input.file) \in Nat
      /\ input \in Inputs /\ conf \in Confs /\ input' = input
  <2>1. input' = input
    BY DEF ParseLine
  <2>2. line \in 1..Len(input.file) + 1 /\ input \in Inputs /\ conf \in Confs
    BY DEF MainTypes
  <2> QED
    BY <2>1, <2>2, LinesAre
<1> HIDE DEF n
<1>2. CASE line > Len(input.file)
  <2>1. main' = "env" /\ line' = line /\ conf' = conf /\ ub' = FALSE
    <3>1. ~(line <= Len(input.file))
      BY <1>1, <1>2
    <3> QED
      BY <3>1, Zenon DEF ParseLine
  <2>2. n = Len(input.file)
    BY <1>1, <1>2
  <2>3. FileRead'
    BY <1>1, <2>1, <2>2, ParseEnds
  <2> QED
    BY <1>1, <2>1, <2>3
<1>3. CASE line <= Len(input.file)
  <2> DEFINE l == ReadLine(line)
             c == Parsed(l)
  <2>1. /\ line \in 1..Len(input.file) /\ n < Len(input.file)
        /\ l \in Line /\ Len(conf.dir) > 1
    BY <1>1, <1>3, LinesAre DEF Parsing, DirFollows
  <2>2. /\ DirOf(l) \in Seq(STRING)
        /\ CanMake(DirOf(l)) <=> l.str \in input.dirs \union {""}
    BY <1>1, <2>1, DirOfIs
  <2>3. /\ ub' = (l.key = "log_level" /\ l.eq /\ l.str = "")
        /\ conf' = IF l.key \in Keys /\ ~l.eq THEN conf ELSE Parsed(l)
        /\ main' = IF l.key \in Keys /\ (~l.eq \/ (l.key = "cache_dir" /\ ~CanMake(DirOf(l))))
                   THEN "env" ELSE "parse"
        /\ line' = line + 1
    <3>1. ~(line > Len(input.file))
      BY <1>1, <1>3
    <3> QED
      BY <3>1, Zenon DEF ParseLine
  <2>4. main' = IF Bad(l) THEN "env" ELSE "parse"
    BY <2>2, <2>3 DEF Bad
  <2>5. line' = line + 1 /\ line' \in 1..Len(input'.file) + 1
    <3>1. line' = line + 1
      BY <2>3
    <3> QED
      BY <1>1, <1>3, <3>1
  <2>6. ub' \in BOOLEAN /\ (ub' => \E i \in 1..line' - 1 : EmptyLevel(ReadLine(i)'))
    <3>1. PICK i \in 1..line' - 1 : i = line
      BY <1>1, <2>5
    <3>2. ReadLine(i)' = ReadLine(i)
      BY <1>1, InputStays
    <3>3. ub' = EmptyLevel(ReadLine(i))
      BY <2>3, <3>1, Zenon DEF EmptyLevel
    <3>4. ub' \in BOOLEAN
      BY <3>3, Zenon DEF EmptyLevel
    <3> QED
      BY <3>2, <3>3, <3>4, Zenon
  <2>7. CASE ~Bad(l)
    <3>1. conf' = Parsed(l)
      BY <2>3, <2>7 DEF Bad
    <3>2. Parsing' /\ conf' \in Confs /\ conf'.ptr = conf.ptr
      BY <1>1, <1>3, <2>3, <2>7, <3>1, ParseGood
    <3> QED
      BY <2>4, <2>5, <2>6, <2>7, <3>2
  <2>8. CASE Bad(l) /\ ~l.eq
    <3>1. conf' = conf
      BY <2>3, <2>8 DEF Bad
    <3>2. FileRead'
      BY <1>1, <1>3, <2>1, <2>8, <3>1, ParseEnds
    <3> QED
      BY <1>1, <2>4, <2>5, <2>6, <2>8, <3>1, <3>2
  <2>9. CASE Bad(l) /\ l.eq
    <3>1. l.key = "cache_dir" /\ conf' = c
      BY <2>3, <2>9 DEF Bad
    <3>2. c \in Confs /\ c.ptr = conf.ptr /\ c.int = conf.int /\ c.str = conf.str /\ c.re = conf.re
      <4>1. l.key \notin Ints /\ l.key \notin Strs /\ l.key # "exclusion_pattern"
        BY <3>1 DEF Ints, Strs
      <4> HIDE DEF l
      <4> QED
        BY <1>1, <2>1, <2>2, <4>1, ParsedIs
    <3>3. l = ReadLine(line) /\ c = Parsed(l)
      OBVIOUS
    <3> HIDE DEF l, c
    <3>4. /\ Len(c.dir) > 1 /\ c.dir[2] = Bucket
          /\ Follows(c.dir[1], WithText("cache_dir"), n + 1, Texts, DefaultDir)
      BY <1>1, <1>3, <2>1, <3>2, <3>3, LineIsRead
    <3>5. FileRead'
      BY <1>1, <2>1, <2>9, <3>1, <3>2, <3>3, <3>4, ParseEnds
    <3> QED
      BY <2>4, <2>5, <2>6, <2>9, <3>1, <3>2, <3>5
  <2> QED
    BY <2>7, <2>8, <2>9
<1> QED
  BY <1>1, <1>2, <1>3

\* What conf_ctor_default makes, and conf_set_full_cache_dir of it.
Defaults == [NoConf EXCEPT !.ptr = "live"]
LEMMA DefaultsAre ==
    /\ Defaults \in Confs
    /\ Defaults.ptr = "live" /\ Defaults.int = DefaultInt /\ Defaults.str = DefaultStr
    /\ Defaults.dir = <<DefaultDir>> /\ Defaults.re = [set |-> FALSE, str |-> "null"]
    /\ NoConf \in Confs /\ NoConf.ptr = "null"
    /\ FullDir(<<DefaultDir>>) \in Seq(STRING)
    /\ Len(FullDir(<<DefaultDir>>)) > 1
    /\ FullDir(<<DefaultDir>>)[1] = DefaultDir /\ FullDir(<<DefaultDir>>)[2] = Bucket
<1> DEFINE dir == <<DefaultDir>>
<1>1. dir \in Seq(STRING) /\ Len(dir) = 1 /\ dir[1] = DefaultDir
  BY TextsAre, Single, Zenon
<1>2. DefaultInt \in [Ints -> Nat]
  BY DEF DefaultInt
<1>3. DefaultStr \in [Strs -> STRING]
  BY TextsAre DEF DefaultStr
<1>4. NoConf = [ptr |-> "null", int |-> DefaultInt, str |-> DefaultStr, dir |-> dir,
                level |-> "LOG_ERR", re |-> [set |-> FALSE, str |-> "null"]]
  BY DEF NoConf
<1> HIDE DEF dir
<1>5. /\ Defaults \in Confs
      /\ Defaults.ptr = "live" /\ Defaults.int = DefaultInt /\ Defaults.str = DefaultStr
      /\ Defaults.dir = dir /\ Defaults.re = [set |-> FALSE, str |-> "null"]
      /\ NoConf \in Confs /\ NoConf.ptr = "null"
  BY <1>1, <1>2, <1>3, <1>4 DEF Defaults, Confs, Levels
<1>6. /\ FullDir(dir) \in Seq(STRING) /\ Len(FullDir(dir)) > 1
      /\ FullDir(dir)[1] = DefaultDir /\ FullDir(dir)[2] = Bucket
  BY <1>1, DirIsLonger, FullDirIs
<1> QED
  BY <1>5, <1>6 DEF dir

LEMMA ConfHomeKeeps ==
    ASSUME MainTypes, conf = Defaults, line = 1, ConfHome
    PROVE  /\ main' = "parse" => Parsing'
           /\ main' = "env" => FileRead'
           /\ main' \in {"parse", "env"}
           /\ conf' \in Confs /\ conf'.ptr = "live"
<1> DEFINE full == FullDir(<<DefaultDir>>)
<1>1. input' = input /\ line' = 1 /\ input \in Inputs /\ Len(input.file) \in Nat
  BY LinesAre DEF ConfHome, MainTypes
<1>2. CanMake(conf.dir) <=> DefaultDir \in input.dirs
  BY DefaultsAre DEF CanMake
<1>3. full \in Seq(STRING) /\ Len(full) > 1 /\ full[1] = DefaultDir /\ full[2] = Bucket
  BY DefaultsAre
<1> HIDE DEF full
<1>4. \/ input.home /\ conf' = [conf EXCEPT !.dir = full]
      \/ ~input.home /\ conf' = conf
  BY DefaultsAre DEF ConfHome, full
<1>5. conf \in Confs /\ conf.ptr = "live"
  BY DefaultsAre
<1>6. /\ conf' \in Confs /\ conf'.ptr = "live" /\ conf'.int = DefaultInt /\ conf'.str = DefaultStr
      /\ conf'.re = [set |-> FALSE, str |-> "null"]
      /\ input.home => conf'.dir = full
  BY <1>3, <1>4, <1>5, DefaultsAre DEF Confs
<1>7. /\ \A k \in Ints : Follows(conf'.int[k], WithKey(k), 0, Nums, DefaultInt[k])
      /\ \A k \in Strs : Follows(conf'.str[k], WithText(k), 0, Texts, DefaultStr[k])
      /\ Follows(DefaultDir, WithText("cache_dir"), 0, Texts, DefaultDir)
  BY <1>1, <1>6, LinesWithAre, FollowsNothing
<1>8. /\ \A i : ReadLine(i)' = ReadLine(i)
      /\ \A k : WithKey(k)' = WithKey(k) /\ WithText(k)' = WithText(k)
      /\ Nums' = Nums /\ Texts' = Texts
  BY <1>1, InputStays
<1>9. main' = IF FileIsRead THEN "parse" ELSE "env"
  BY <1>2 DEF ConfHome, FileIsRead
<1>10. CASE FileIsRead
  <2>1. ReadUpTo(0)'
    BY <1>6, <1>7, <1>8 DEF ReadUpTo, PatternFollows
  <2>2. DirFollows(0)'
    BY <1>3, <1>6, <1>7, <1>8, <1>10 DEF DirFollows, FileIsRead
  <2>3. line' - 1 = 0
    BY <1>1
  <2>4. Parsing'
    BY <1>1, <1>10, <2>1, <2>2, <2>3, InputStays DEF Parsing
  <2> QED
    BY <1>6, <1>9, <1>10, <2>4
<1>11. CASE ~FileIsRead
  <2>1. \A i : ~IsRead(i)
    BY <1>11 DEF IsRead
  <2>2. DirAsWanted'
    <3>1. input.home => ToldDir = {}
      BY <1>11 DEF ToldDir
    <3>2. input.home => WantedDir = DefaultDir
      BY <3>1 DEF WantedDir
    <3> QED
      BY <1>1, <1>3, <1>6, <3>2, InputStays DEF DirAsWanted
  <2>3. \A i \in 1..Len(input.file) : IsRead(i) <=> i <= 0
    BY <1>1, <2>1
  <2>4. FileRead'
    BY <1>1, <1>6, <1>7, <2>2, <2>3, ReadingEnds
  <2> QED
    BY <1>6, <1>9, <1>11, <2>4
<1> QED
  BY <1>10, <1>11

LEMMA EnvOverrideKeeps ==
    ASSUME MainTypes, FileRead, conf.ptr = "live", EnvOverride
    PROVE  Loaded' /\ conf' \in Confs /\ conf'.ptr = "live" /\ main' = "conf_log"
<1>1. /\ main' = "conf_log" /\ input' = input /\ input \in Inputs /\ conf \in Confs
      /\ IsInput(input)
  BY LinesAre DEF EnvOverride, MainTypes
<1> DEFINE ints == [k \in Ints |-> IF k \in DOMAIN input.int THEN input.int[k] ELSE conf.int[k]]
           strs == [k \in Strs |-> IF k \in DOMAIN input.str THEN input.str[k] ELSE conf.str[k]]
           level == IF input.level = "unset" THEN conf.level ELSE LevelOf(input.level)
           re == EnvRegex(conf.re)
<1>2. conf' = [[[[conf EXCEPT !.int = ints] EXCEPT !.str = strs] EXCEPT !.level = level] EXCEPT !.re = re]
  BY <1>1 DEF EnvOverride, Confs
<1>3. ints \in [Ints -> Nat] /\ strs \in [Strs -> STRING]
  BY <1>1 DEF IsInput, Confs
<1>4. level \in Levels
  BY <1>1 DEF Confs, LevelOf, Levels
<1>5. /\ re \in [set : BOOLEAN, str : {"null", "live", "freed"}]
      /\ re.set => input.pattern = "good"
      /\ re.str = "freed" => PatternFreed
  <2>1. conf.re \in [set : BOOLEAN, str : {"null", "live", "freed"}]
    BY <1>1 DEF Confs
  <2>2. /\ conf.re.set = FALSE /\ (conf.re.str = "null" \/ conf.re.str = "live")
        /\ conf.re.str = "live" => ToldText("exclusion_pattern") # {}
    BY DEF FileRead
  <2>3. input.pattern \in {"unset", "", "good", "bad"}
    BY <1>1 DEF IsInput
  <2>4. CASE input.pattern = "unset"
    BY <2>1, <2>2, <2>4 DEF EnvRegex
  <2>5. CASE input.pattern = "good"
    BY <2>5 DEF EnvRegex
  <2>6. CASE input.pattern \in {"", "bad"}
    <3>1. re = [set |-> FALSE, str |-> IF conf.re.str = "live" THEN "freed" ELSE conf.re.str]
      BY <2>6 DEF EnvRegex
    <3> HIDE DEF re
    <3> QED
      BY <2>2, <2>6, <3>1 DEF PatternFreed
  <2> QED
    BY <2>3, <2>4, <2>5, <2>6
<1>6. /\ \A k \in Ints : Whole(k) => ints[k] = WantedInt(k)
      /\ \A k \in Strs : Whole(k) => strs[k] = WantedStr(k)
  BY DEF FileRead, WantedInt, WantedStr
<1> HIDE DEF ints, strs, level, re
<1>7. /\ conf' \in Confs /\ conf'.ptr = "live" /\ conf'.int = ints /\ conf'.str = strs
      /\ conf'.dir = conf.dir /\ conf'.re = re
  BY <1>1, <1>2, <1>3, <1>4, <1>5 DEF Confs
<1>8. Loaded'
  BY <1>1, <1>5, <1>6, <1>7, InputStays DEF Loaded, FileRead, DirAsWanted
<1> QED
  BY <1>1, <1>7, <1>8


-----------------------------------------------------------------------------
(* What stays when a step does not touch it.                                *)

LEMMA SettingsStay ==
    ASSUME Settings, UNCHANGED <<input, main, line, conf>>
    PROVE  Settings'
<1>1. /\ \A i : ReadLine(i)' = ReadLine(i)
      /\ \A k : WantedInt(k)' = WantedInt(k) /\ WantedStr(k)' = WantedStr(k)
      /\ \A k : Whole(k)' = Whole(k)
      /\ WantedDir' = WantedDir
      /\ PatternFreed' = PatternFreed /\ FileIsRead' = FileIsRead
      /\ \A k : ToldText(k)' = ToldText(k)
      /\ \A k : WithKey(k)' = WithKey(k) /\ WithText(k)' = WithText(k)
      /\ Nums' = Nums /\ Texts' = Texts
  BY InputStays
<1>2. DirAsWanted' = DirAsWanted
  BY <1>1 DEF DirAsWanted
<1>3. Loaded => Loaded'
  BY <1>1, <1>2 DEF Loaded
<1>4. FileRead => FileRead'
  BY <1>1, <1>2 DEF FileRead
<1>5. Parsing => Parsing'
  <2>1. \A n : /\ PatternFollows(n) => PatternFollows(n)'
               /\ DirFollows(n) => DirFollows(n)'
    BY <1>1 DEF PatternFollows, DirFollows
  <2>2. \A n : ReadUpTo(n) => ReadUpTo(n)'
    BY <1>1, <2>1 DEF ReadUpTo
  <2>3. \A x : Bad(x)' = Bad(x)
    BY DEF Bad
  <2>4. PICK n : n = line - 1
    OBVIOUS
  <2> QED
    BY <1>1, <2>1, <2>2, <2>3, <2>4 DEF Parsing
<1> QED
  BY <1>3, <1>4, <1>5 DEF Settings

\* Once the configuration is complete, only the pointer to it changes.
SameOptions == /\ conf'.int = conf.int /\ conf'.str = conf.str
               /\ conf'.dir = conf.dir /\ conf'.re = conf.re
LEMMA SettingsLast ==
    ASSUME Settings, main \in Configured, main' \in Configured \union {"err2", "exit"},
           input' = input, SameOptions
    PROVE  Settings'
<1>1. Loaded
  BY DEF Settings
<1>2. /\ \A k : WantedInt(k)' = WantedInt(k) /\ WantedStr(k)' = WantedStr(k)
      /\ \A k : Whole(k)' = Whole(k)
      /\ WantedDir' = WantedDir /\ PatternFreed' = PatternFreed
  BY InputStays
<1>3. DirAsWanted'
  BY <1>1, <1>2 DEF DirAsWanted, Loaded, SameOptions
<1>4. Loaded'
  BY <1>1, <1>2, <1>3 DEF Loaded, SameOptions
<1> QED
  BY <1>4 DEF Settings, Configured

LEMMA ScOnStays == ASSUME conf'.int = conf.int PROVE ScOn' = ScOn
BY DEF ScOn

LEMMA ThreadsStay ==
    ASSUME Threads, main \in Early \/ conf'.int = conf.int, UNCHANGED <<sc, pool, work>>,
           gc' = gc \/ main \notin Early,
           main' \in Early => main \in Early,
           main' \in {"after", "err3", "err2", "exit"} =>
              \/ ub' = TRUE
              \/ main \in Early
              \/ main \in {"after", "err3", "err2", "exit"} /\ gc' = gc /\ ub # TRUE
    PROVE  Threads'
<1>1. CASE main \in Early
  BY <1>1 DEF Threads
<1>2. CASE main \notin Early
  BY <1>2, ScOnStays DEF Threads
<1> QED
  BY <1>1, <1>2

LEMMA FilesStay ==
    ASSUME Files, input' = input, UNCHANGED <<table, cached, astray>>,
           main \in {"mounted", "unlink"} => main' \in {"mounted", "unlink"},
           main' \in {"conf_free", "ctx_free", "log"} =>
              main \in {"conf_free", "ctx_free", "log"} /\ conf'.int = conf.int
    PROVE  Files'
BY ScOnStays DEF Files, IsCell, Here, Local

\* A step that leaves main where it is.
LEMMA MainStays ==
    ASSUME MainTypes, Settings, MainHolds, UNCHANGED confVars, ub = FALSE,
           UNCHANGED <<ctx, lib, ctx_freed>>, gc' \in {gc, "sleep", "gone"}
    PROVE  MainTypes' /\ Settings' /\ MainHolds' /\ OnlyKnownCrashes'
<1>1. input' = input /\ main' = main /\ line' = line /\ conf' = conf /\ ub' = FALSE
      /\ ctx' = ctx /\ lib' = lib /\ ctx_freed' = ctx_freed
  BY DEF confVars
<1>2. Settings'
  BY <1>1, SettingsStay
<1>3. MainTypes'
  BY <1>1, Zenon DEF MainTypes
<1>4. MainHolds'
  <2>1. ub' = ub
    BY <1>1
  <2> QED
    BY <1>1, <2>1 DEF MainHolds
<1>5. OnlyKnownCrashes'
  BY <1>1 DEF OnlyKnownCrashes
<1> QED
  BY <1>2, <1>3, <1>4, <1>5

LEMMA NothingStays == ASSUME LInv, UNCHANGED vars PROVE LInv'
<1>1. /\ input' = input /\ main' = main /\ line' = line /\ conf' = conf /\ ub' = ub
      /\ ctx' = ctx /\ lib' = lib /\ ctx_freed' = ctx_freed /\ gc' = gc
      /\ table' = table /\ cached' = cached /\ astray' = astray
      /\ pool' = pool /\ work' = work /\ sc' = sc
  BY DEF vars, confVars, scVars, mainVars
<1>2. Settings' /\ Files'
  BY <1>1, SettingsStay, FilesStay DEF LInv
<1>3. MainTypes' /\ MainHolds'
  BY <1>1 DEF LInv, MainTypes, MainHolds, Confs
<1>4. ScOn' = ScOn /\ PatternFreed' = PatternFreed /\ \A i : ReadLine(i)' = ReadLine(i)
  BY <1>1, InputStays, ScOnStays
<1>5. OnlyKnownCrashes'
  BY <1>1, <1>4 DEF LInv, OnlyKnownCrashes, ThreadLeft, EmptyLevel, ConfLive
<1>6. Threads'
  BY <1>1, <1>4 DEF LInv, Threads
<1> QED
  BY <1>2, <1>3, <1>5, <1>6 DEF LInv

-----------------------------------------------------------------------------
(* main.                                                                    *)

LEMMA StartHolds == ASSUME LInv, Start PROVE LInv'
<1>1. /\ main = "start" /\ main' \in {"conf", "err2", "exit"} /\ input' = input /\ line' = line
      /\ conf' = conf /\ ub' = ub /\ ctx_freed' = ctx_freed /\ gc' = gc
      /\ table' = table /\ cached' = cached /\ astray' = astray
      /\ pool' = pool /\ work' = work /\ sc' = sc
      /\ main' = "conf" => lib' = "up" /\ ctx' = "live"
      /\ main' = "err2" => lib' = "up" /\ ctx' = ctx
      /\ main' = "exit" => lib' = lib /\ ctx' = ctx
  BY DEF Start, Goto, KeepSc, scVars
<1>2. MainTypes /\ Settings /\ MainHolds /\ Threads /\ Files /\ OnlyKnownCrashes
  BY DEF LInv
<1>3. MainTypes'
  BY <1>1, <1>2 DEF MainTypes, Confs, Early
<1>4. Settings'
  BY <1>1, <1>2 DEF Settings, Configured
<1>5. MainHolds'
  BY <1>1, <1>2 DEF MainHolds, Early, Serving
<1>6. Threads' /\ Files'
  BY <1>1, <1>2, ThreadsStay, FilesStay DEF Early
<1>7. OnlyKnownCrashes'
  <2>1. ub = FALSE \/ ScOn
    BY <1>1, <1>2 DEF OnlyKnownCrashes, MainTypes
  <2> QED
    BY <1>1, <2>1, ScOnStays DEF OnlyKnownCrashes
<1> QED
  BY <1>3, <1>4, <1>5, <1>6, <1>7 DEF LInv

LEMMA ConfigureHolds == ASSUME LInv, Configure PROVE LInv'
<1>1. /\ ub = FALSE /\ input' = input
      /\ ctx' = ctx /\ lib' = lib /\ ctx_freed' = ctx_freed /\ gc' = gc
      /\ table' = table /\ cached' = cached /\ astray' = astray
      /\ pool' = pool /\ work' = work /\ sc' = sc
  BY DEF LInv, MainTypes, Configure, ConfDefault, ConfHome, ParseLine, EnvOverride, ConfLog, KeepSc,
         scVars, mainVars
<1>2. MainTypes /\ Settings /\ MainHolds /\ Threads /\ Files /\ OnlyKnownCrashes
  BY DEF LInv
<1> DEFINE Next0 ==
      /\ main \in {"conf", "home", "parse", "env", "conf_log"}
      /\ main' \in {"home", "parse", "env", "conf_log", "fuse"}
      /\ conf' \in Confs /\ conf'.ptr = "live" /\ line' \in 1..Len(input'.file) + 1
      /\ Settings' /\ ub' \in BOOLEAN /\ OnlyKnownCrashes'
<1>3. ASSUME ConfDefault PROVE Next0
  <2>1. main = "conf" /\ main' = "home" /\ conf' = Defaults /\ line' = line /\ ub' = ub
    BY <1>3 DEF ConfDefault, Defaults
  <2>2. line = 1 /\ line \in 1..Len(input.file) + 1
    BY <1>2, <2>1 DEF Settings, MainTypes
  <2>3. Settings'
    BY <2>1, <2>2 DEF Settings, Configured, Defaults
  <2>4. OnlyKnownCrashes'
    BY <1>1, <2>1 DEF OnlyKnownCrashes
  <2> QED
    BY <1>1, <2>1, <2>2, <2>3, <2>4, DefaultsAre
<1>4. ASSUME ConfHome PROVE Next0
  <2>1. main = "home" /\ line' = line /\ ub' = ub
    BY <1>4 DEF ConfHome
  <2>2. conf = Defaults /\ line = 1 /\ line \in 1..Len(input.file) + 1
    BY <1>2, <2>1 DEF Settings, MainTypes, Defaults
  <2>3. /\ main' = "parse" => Parsing'
        /\ main' = "env" => FileRead'
        /\ main' \in {"parse", "env"}
        /\ conf' \in Confs /\ conf'.ptr = "live"
    BY <1>2, <1>4, <2>2, ConfHomeKeeps
  <2>4. Settings'
    BY <2>3 DEF Settings, Configured
  <2>5. OnlyKnownCrashes'
    BY <1>1, <2>1 DEF OnlyKnownCrashes
  <2> QED
    BY <1>1, <2>1, <2>2, <2>3, <2>4, <2>5
<1>5. ASSUME ParseLine PROVE Next0
  <2>1. main = "parse"
    BY <1>5 DEF ParseLine
  <2>2. Parsing /\ conf.ptr = "live"
    BY <1>2, <2>1 DEF Settings, MainHolds
  <2>3. /\ main' = "parse" => Parsing'
        /\ main' = "env" => FileRead'
        /\ main' \in {"parse", "env"}
        /\ conf' \in Confs /\ conf'.ptr = "live"
        /\ line' \in 1..Len(input'.file) + 1
        /\ ub' \in BOOLEAN
        /\ ub' => \E i \in 1..line' - 1 : EmptyLevel(ReadLine(i)')
    BY <1>1, <1>2, <1>5, <2>2, ParseLineKeeps
  <2>4. Settings'
    BY <2>3 DEF Settings, Configured
  <2>5. OnlyKnownCrashes'
    BY <2>3 DEF OnlyKnownCrashes, EmptyLevel
  <2> QED
    BY <2>1, <2>3, <2>4, <2>5
<1>6. ASSUME EnvOverride PROVE Next0
  <2>1. main = "env" /\ line' = line /\ ub' = ub
    BY <1>6 DEF EnvOverride
  <2>2. FileRead /\ conf.ptr = "live" /\ line \in 1..Len(input.file) + 1
    BY <1>2, <2>1 DEF Settings, MainHolds, MainTypes
  <2>3. Loaded' /\ conf' \in Confs /\ conf'.ptr = "live" /\ main' = "conf_log"
    BY <1>2, <1>6, <2>2, EnvOverrideKeeps
  <2>4. Settings'
    BY <2>3 DEF Settings
  <2>5. OnlyKnownCrashes'
    BY <1>1, <2>1 DEF OnlyKnownCrashes
  <2> QED
    BY <1>1, <2>1, <2>2, <2>3, <2>4, <2>5
<1>14. ASSUME ConfLog PROVE Next0
  <2>1. /\ main = "conf_log" /\ main' = "fuse" /\ line' = line /\ conf' = conf
        /\ ub' = (ub \/ (conf.re.str = "freed" /\ conf.level # "LOG_EMERG"))
    BY <1>14 DEF ConfLog
  <2>2. /\ Loaded /\ conf.ptr = "live" /\ conf \in Confs /\ line \in 1..Len(input.file) + 1
    BY <1>2, <2>1 DEF Settings, MainHolds, MainTypes, Configured
  <2>3. Settings'
    BY <1>1, <1>2, <2>1, SettingsLast DEF Configured, SameOptions
  <2>4. ub' \in BOOLEAN /\ (ub' => PatternFreed')
    <3>1. ub' => PatternFreed
      BY <1>1, <2>1, <2>2 DEF Loaded
    <3>2. ub' \in BOOLEAN
      BY <1>1, <2>1
    <3> QED
      BY <1>1, <3>1, <3>2, InputStays
  <2>5. OnlyKnownCrashes'
    BY <2>1, <2>4 DEF OnlyKnownCrashes
  <2> QED
    BY <1>1, <2>1, <2>2, <2>3, <2>4, <2>5
<1>7. Next0
  BY <1>3, <1>4, <1>5, <1>6, <1>14 DEF Configure
<1>8. MainTypes'
  BY <1>1, <1>2, <1>7 DEF MainTypes, Confs, Early
<1>9. MainHolds'
  <2>1. lib = "up" /\ ctx_freed = FALSE /\ ctx = "live"
    BY <1>2, <1>7 DEF MainHolds, Early
  <2> QED
    BY <1>1, <1>7, <2>1 DEF MainHolds
<1>10. main \in Early
  BY <1>7 DEF Early
<1>11. Threads'
  BY <1>1, <1>2, <1>7, <1>10, ThreadsStay
<1>12. Files'
  BY <1>1, <1>2, <1>7, <1>10, FilesStay
<1> QED
  BY <1>7, <1>8, <1>9, <1>11, <1>12 DEF LInv

LEMMA FuseMainHolds == ASSUME LInv, FuseMain PROVE LInv'
<1>1. /\ ub = FALSE /\ main = "fuse" /\ main' \in {"after", "mounted"}
      /\ input' = input /\ line' = line /\ conf' = conf /\ ub' = ub
      /\ ctx' = ctx /\ lib' = lib /\ ctx_freed' = ctx_freed
      /\ table' = table /\ cached' = cached /\ astray' = astray /\ pool' = pool /\ work' = work
      /\ \/ main' = "after" /\ gc' = gc /\ sc' = sc
         \/ main' = "mounted" /\ gc' = "start" /\ sc' = [sc EXCEPT !.pc = "start"]
  BY DEF LInv, MainTypes, FuseMain, Goto, files
<1>2. MainTypes /\ Settings /\ MainHolds /\ Threads /\ Files
  BY DEF LInv
<1>3. MainTypes'
  BY <1>1, <1>2 DEF MainTypes, Confs, Configured
<1>4. Settings'
  BY <1>1, <1>2, SettingsLast DEF Configured, SameOptions
<1>5. MainHolds'
  <2>1. lib = "up" /\ ctx_freed = FALSE /\ conf.ptr = "live" /\ ctx = "live"
    BY <1>1, <1>2 DEF MainHolds, Early
  <2> QED
    BY <1>1, <2>1 DEF MainHolds
<1>6. Threads'
  <2>1. /\ sc' = [pc |-> sc'.pc, todo |-> sc'.todo, passes |-> sc'.passes]
        /\ sc'.pc \in {"off", "start"}
        /\ main' = "after" => sc'.pc = "off" /\ gc' = "off"
    BY <1>1, <1>2 DEF Threads, Early
  <2>2. pool = <<>> /\ \A w \in Workers : work[w].pc = "none"
    BY <1>1, <1>2 DEF Threads, Early
  <2> QED
    BY <1>1, <1>2, <2>1, <2>2 DEF Threads, Early
<1>7. Files'
  BY <1>1, <1>2, FilesStay
<1>8. OnlyKnownCrashes'
  BY <1>1 DEF OnlyKnownCrashes
<1> QED
  BY <1>3, <1>4, <1>5, <1>6, <1>7, <1>8 DEF LInv


\* A step of main once the configuration is complete.
LEMMA MainMoves ==
    ASSUME LInv, main \in Configured \union {"err2"}, main' \in Configured \union {"err2", "exit"},
           main' \notin {"conf_log", "fuse"}, main' \in Configured => main \in Configured,
           input' = input, line' = line, SameOptions, conf' \in Confs, ub' \in BOOLEAN,
           ctx_freed' \in BOOLEAN, ctx' \in {"null", "live"}, lib' \in {"none", "up", "freed"},
           main' \in {"after", "err3", "err2", "exit"} =>
              ub' = TRUE \/ (main \in {"after", "err3", "err2", "exit"} /\ ub # TRUE),
           UNCHANGED <<gc, sc, pool, work>>
    PROVE  MainTypes' /\ Settings' /\ Threads'
<1>1. MainTypes /\ Settings /\ Threads
  BY DEF LInv
<1>2. MainTypes'
  BY <1>1 DEF MainTypes, Confs
<1>3. Settings'
  <2>1. CASE main \in Configured
    BY <1>1, <2>1, SettingsLast
  <2>2. CASE main \notin Configured
    BY <2>2 DEF Settings, Configured
  <2> QED
    BY <2>1, <2>2
<1>4. conf'.int = conf.int /\ (main' \in Early => main \in Early)
  BY DEF SameOptions, Early, Configured
<1>5. Threads'
  BY <1>1, <1>4, ThreadsStay
<1> QED
  BY <1>2, <1>3, <1>5

\* All cells are freed.
LEMMA ClearFiles ==
    ASSUME Files, Clear, input' = input, UNCHANGED <<cached, astray>>,
           main \notin {"mounted", "unlink"}
    PROVE  Files'
<1>1. DOMAIN table' = {}
  BY DEF Clear
<1>2. Here' = Here
  BY DEF Here
<1> QED
  BY <1>1, <1>2 DEF Files

\* conf_free, where it is called.
LEMMA ConfFreeIs ==
    ASSUME LInv, ConfFree, ub = FALSE, main \in {"conf_free", "err3"}, conf.ptr = "live",
           input' = input
    PROVE  /\ conf' \in Confs /\ conf'.ptr = "null" /\ SameOptions
           /\ ub' \in BOOLEAN /\ (ub' => input'.pattern = "good" \/ PatternFreed')
<1>1. conf \in Confs /\ Loaded
  BY DEF LInv, MainTypes, Settings, Configured
<1>2. /\ conf' \in Confs /\ conf'.ptr = "null" /\ SameOptions
  BY <1>1 DEF ConfFree, Confs, SameOptions
<1>3. ub' = FreesTwice
  BY <1>1 DEF ConfFree, ConfLive, FreesTwice, Confs
<1>4. FreesTwice \in BOOLEAN /\ (FreesTwice => input.pattern = "good" \/ PatternFreed)
  BY <1>1 DEF Loaded, FreesTwice, Confs
<1> QED
  BY <1>2, <1>3, <1>4, InputStays

LEMMA MainHoldsOn ==
    ASSUME LInv,
           \/ Unmount \/ DestroyCache \/ DestroyTable \/ DestroyConf \/ DestroyCtx \/ DestroyLib
           \/ After \/ Err3 \/ Err2
    PROVE  LInv'
<1>1. MainTypes /\ Settings /\ MainHolds /\ Threads /\ Files /\ conf \in Confs
  BY DEF LInv, MainTypes
<1>2. ub = FALSE
  BY <1>1 DEF MainTypes, Mounted, Unmount, DestroyCache, DestroyTable, DestroyConf, DestroyCtx,
              DestroyLib, After, Err3, Err2
<1>3. input' = input /\ line' = line /\ gc' = gc /\ sc' = sc /\ pool' = pool /\ work' = work
  BY DEF Goto, KeepSc, scVars, mainVars, Unmount, DestroyCache, DestroyTable, DestroyConf, DestroyCtx,
         DestroyLib, After, Err3, Err2
<1> DEFINE Move == /\ main \in Configured \union {"err2"}
                   /\ main' \in Configured \union {"err2", "exit"}
                   /\ main' \notin {"conf_log", "fuse"} /\ (main' \in Configured => main \in Configured)
                   /\ SameOptions /\ conf' \in Confs /\ ub' \in BOOLEAN /\ ctx_freed' \in BOOLEAN
                   /\ ctx' \in {"null", "live"} /\ lib' \in {"none", "up", "freed"}
                   /\ main' \in {"after", "err3", "err2", "exit"} =>
                         ub' = TRUE \/ main \in {"after", "err3", "err2", "exit"}
           Good == Move /\ MainHolds' /\ Files' /\ OnlyKnownCrashes'
<1>4. ASSUME Unmount PROVE Good
  <2>1. /\ main = "mounted" /\ main' = "unlink" /\ conf' = conf /\ ub' = ub
        /\ ctx' = ctx /\ lib' = lib /\ ctx_freed' = ctx_freed
        /\ table' = table /\ cached' = cached /\ astray' = astray
    BY <1>4 DEF Unmount, Mounted, Goto, KeepSc, scVars, mainVars
  <2>2. Move
    BY <1>1, <2>1 DEF MainTypes, Configured, SameOptions
  <2>3. MainHolds'
    BY <1>1, <2>1 DEF MainHolds, Early, Serving
  <2>4. Files'
    BY <1>1, <1>3, <2>1, FilesStay
  <2>5. OnlyKnownCrashes'
    BY <1>2, <2>1 DEF OnlyKnownCrashes
  <2> QED
    BY <2>2, <2>3, <2>4, <2>5
<1>5. ASSUME DestroyCache PROVE Good
  <2>1. /\ main = "unlink" /\ main' = "clear" /\ conf' = conf /\ ub' = ~ConfLive
        /\ ctx' = ctx /\ lib' = lib /\ ctx_freed' = ctx_freed /\ astray' = astray
        /\ table' = table /\ cached' = cached \ {k \in DOMAIN table : table[k].ondisk = "local"}
    BY <1>5 DEF DestroyCache, Goto, mainVars
  <2>2. ub' = FALSE
    BY <1>1, <2>1 DEF MainHolds, ConfLive
  <2>3. Move
    BY <1>1, <2>1, <2>2 DEF MainTypes, Configured, SameOptions
  <2>4. MainHolds'
    BY <1>1, <2>1 DEF MainHolds, Early, Serving
  <2>5. Files'
    <3>1. Here' = Here
      BY <1>3 DEF Here
    <3>2. cached' \subseteq astray'
      BY <1>1, <2>1 DEF Files, Local
    <3> QED
      BY <1>1, <2>1, <3>1, <3>2 DEF Files, IsCell
  <2>6. OnlyKnownCrashes'
    BY <2>2 DEF OnlyKnownCrashes
  <2> QED
    BY <2>3, <2>4, <2>5, <2>6
<1>6. ASSUME DestroyTable PROVE Good
  <2>1. /\ main = "clear" /\ main' = "conf_free" /\ conf' = conf /\ ub' = ub
        /\ ctx' = ctx /\ lib' = lib /\ ctx_freed' = ctx_freed /\ Clear
        /\ cached' = cached /\ astray' = astray
    BY <1>6 DEF DestroyTable, Goto, mainVars, files
  <2>2. Move
    BY <1>1, <2>1 DEF MainTypes, Configured, SameOptions
  <2>3. MainHolds'
    BY <1>1, <2>1 DEF MainHolds, Early, Serving
  <2>4. Files'
    BY <1>1, <1>3, <2>1, ClearFiles
  <2>5. OnlyKnownCrashes'
    BY <1>2, <2>1 DEF OnlyKnownCrashes
  <2> QED
    BY <2>2, <2>3, <2>4, <2>5
<1>7. ASSUME DestroyConf PROVE Good
  <2>1. /\ main = "conf_free" /\ main' = "ctx_free" /\ ConfFree
        /\ ctx' = ctx /\ lib' = lib /\ ctx_freed' = ctx_freed
        /\ table' = table /\ cached' = cached /\ astray' = astray
    BY <1>7 DEF DestroyConf, Goto, KeepSc, scVars, mainVars
  <2>2. conf.ptr = "live" /\ ctx_freed = FALSE /\ ctx = "live"
    BY <1>1, <2>1 DEF MainHolds, Serving
  <2>3. /\ conf' \in Confs /\ conf'.ptr = "null" /\ SameOptions
        /\ ub' \in BOOLEAN /\ (ub' => input'.pattern = "good" \/ PatternFreed')
    BY <1>2, <1>3, <2>1, <2>2, ConfFreeIs
  <2>4. Move
    BY <1>1, <2>1, <2>3 DEF MainTypes, Configured
  <2>5. MainHolds'
    BY <1>1, <2>1, <2>2, <2>3 DEF MainHolds, Early, Serving
  <2>6. Files'
    BY <1>1, <1>3, <2>1, <2>3, FilesStay DEF SameOptions
  <2>7. OnlyKnownCrashes'
    BY <2>1, <2>3 DEF OnlyKnownCrashes
  <2> QED
    BY <2>4, <2>5, <2>6, <2>7
<1>8. ASSUME DestroyCtx PROVE Good
  <2>1. /\ main = "ctx_free" /\ main' = "log" /\ conf' = conf /\ ctx' = "null" /\ ub' = ub
        /\ lib' = lib /\ ctx_freed' = ctx_freed
        /\ table' = table /\ cached' = cached /\ astray' = astray
    BY <1>8 DEF DestroyCtx, Goto, KeepSc, scVars
  <2>2. Move
    BY <1>1, <2>1 DEF MainTypes, Configured, SameOptions
  <2>3. MainHolds'
    BY <1>1, <2>1 DEF MainHolds, Early, Serving
  <2>4. Files'
    BY <1>1, <1>3, <2>1, FilesStay
  <2>5. OnlyKnownCrashes'
    BY <1>2, <2>1 DEF OnlyKnownCrashes
  <2> QED
    BY <2>2, <2>3, <2>4, <2>5
<1>9. ASSUME DestroyLib PROVE Good
  <2>1. /\ main = "log" /\ main' = "after" /\ conf' = conf /\ ctx' = ctx /\ ub' = ~ConfLive
        /\ table' = table /\ cached' = cached /\ astray' = astray /\ DplFree
    BY <1>9 DEF DestroyLib, Goto, KeepSc, scVars
  <2>2. conf.ptr = "null" /\ ctx_freed = FALSE /\ lib = "up"
    BY <1>1, <2>1 DEF MainHolds
  <2>3. lib' = "freed" /\ ub' = TRUE /\ ctx_freed' = TRUE
    BY <1>2, <2>1, <2>2 DEF DplFree, ConfLive
  <2>4. Move
    BY <1>1, <2>1, <2>3 DEF MainTypes, Configured, SameOptions
  <2>5. MainHolds'
    BY <1>1, <2>1, <2>2, <2>3 DEF MainHolds, Early, Serving
  <2>6. Files'
    BY <1>1, <1>3, <2>1, FilesStay
  <2>7. OnlyKnownCrashes'
    BY <2>1, <2>2 DEF OnlyKnownCrashes, ConfLive
  <2> QED
    BY <2>4, <2>5, <2>6, <2>7
<1>10. ASSUME After PROVE Good
  <2>1. /\ main = "after" /\ main' = "err3" /\ conf' = conf /\ ctx' = "null" /\ ub' = (ctx # "live")
        /\ lib' = lib /\ ctx_freed' = ctx_freed /\ Clear /\ cached' = cached /\ astray' = astray
    BY <1>10 DEF After, Goto, files
  <2>2. conf.ptr = "live" /\ ctx = "live" /\ ub' = FALSE
    BY <1>1, <1>2, <2>1 DEF MainHolds
  <2>3. Move
    BY <1>1, <2>1, <2>2 DEF MainTypes, Configured, SameOptions
  <2>4. MainHolds'
    BY <1>1, <2>1 DEF MainHolds, Early, Serving
  <2>5. Files'
    BY <1>1, <1>3, <2>1, ClearFiles
  <2>6. OnlyKnownCrashes'
    BY <2>2 DEF OnlyKnownCrashes
  <2> QED
    BY <2>3, <2>4, <2>5, <2>6
<1>11. ASSUME Err3 PROVE Good
  <2>1. /\ main = "err3" /\ main' = "err2"
        /\ ctx' = ctx /\ lib' = lib /\ ctx_freed' = ctx_freed
        /\ table' = table /\ cached' = cached /\ astray' = astray
        /\ IF conf.ptr = "null" THEN conf' = conf /\ ub' = ub ELSE ConfFree
    BY <1>11 DEF Err3, Goto, KeepSc, scVars, mainVars
  <2>2. /\ conf' \in Confs /\ conf'.ptr = "null" /\ SameOptions
        /\ ub' \in BOOLEAN /\ (ub' => input'.pattern = "good" \/ PatternFreed')
    <3>1. CASE conf.ptr = "null"
      BY <1>1, <1>2, <2>1, <3>1 DEF SameOptions
    <3>2. CASE conf.ptr # "null"
      <4>1. conf.ptr = "live"
        BY <1>1, <3>2 DEF Confs
      <4> QED
        BY <1>2, <1>3, <2>1, <3>2, <4>1, ConfFreeIs
    <3> QED
      BY <3>1, <3>2
  <2>3. Move
    BY <1>1, <2>1, <2>2 DEF MainTypes, Configured
  <2>4. MainHolds'
    BY <1>1, <2>1, <2>2 DEF MainHolds, Early, Serving
  <2>5. Files'
    BY <1>1, <1>3, <2>1, FilesStay
  <2>6. OnlyKnownCrashes'
    BY <2>1, <2>2 DEF OnlyKnownCrashes
  <2> QED
    BY <2>3, <2>4, <2>5, <2>6
<1>12. ASSUME Err2 PROVE Good
  <2>1. /\ main = "err2" /\ main' = "exit" /\ conf' = conf /\ ctx' = ctx /\ ub' = ub
        /\ table' = table /\ cached' = cached /\ astray' = astray /\ DplFree
    BY <1>12 DEF Err2, Goto, KeepSc, scVars
  <2>2. /\ conf.ptr = "null" /\ ctx = "null"
        /\ ctx_freed = FALSE => lib = "up"
        /\ ctx_freed = TRUE => lib = "freed"
        /\ ctx_freed \in BOOLEAN
    BY <1>1, <2>1 DEF MainHolds, MainTypes
  <2>3. lib' = "freed" /\ ctx_freed' = TRUE
    BY <2>1, <2>2 DEF DplFree
  <2>4. Move
    BY <1>1, <1>2, <2>1, <2>3 DEF MainTypes, Configured, SameOptions
  <2>5. MainHolds'
    BY <1>1, <2>1, <2>2, <2>3 DEF MainHolds, Early, Serving
  <2>6. Files'
    BY <1>1, <1>3, <2>1, FilesStay
  <2>7. OnlyKnownCrashes'
    BY <1>2, <2>1 DEF OnlyKnownCrashes
  <2> QED
    BY <2>4, <2>5, <2>6, <2>7
<1>13. Good
  BY <1>4, <1>5, <1>6, <1>7, <1>8, <1>9, <1>10, <1>11, <1>12
<1>14. MainTypes' /\ Settings' /\ Threads'
  BY <1>2, <1>3, <1>13, MainMoves
<1> QED
  BY <1>13, <1>14 DEF LInv

-----------------------------------------------------------------------------
(* Requests, the collector and the smart cache.                             *)

\* The parts of a step of another thread, or of a request.
LEMMA OthersHold ==
    ASSUME LInv, ub = FALSE, UNCHANGED confVars, UNCHANGED <<ctx, lib, ctx_freed>>,
           gc' \in {gc, "sleep", "gone"}, gc' = gc \/ main \notin Early, Threads', Files'
    PROVE  LInv'
BY MainStays DEF LInv

LEMMA PutCells ==
    ASSUME \A k \in DOMAIN table : IsCell(table[k]), NEW k, NEW e, IsCell(e), table' = Put(k, e)
    PROVE  /\ DOMAIN table' = DOMAIN table \union {k}
           /\ \A x \in DOMAIN table' : IsCell(table'[x])
           /\ \A x \in DOMAIN table \ {k} : table'[x] = table[x]
           /\ table'[k] = e
<1>1. Put(k, e) = [x \in DOMAIN table \union {k} |-> IF x = k THEN e ELSE table[x]]
  BY DEF Put
<1> HIDE DEF IsCell
<1> QED
  BY <1>1

LEMMA AgedCell ==
    ASSUME NEW e, IsCell(e), NEW old
    PROVE  IsCell([e EXCEPT !.old = old])
<1>1. [e EXCEPT !.old = old] = [ondisk |-> e.ondisk, md |-> e.md, old |-> old]
  BY DEF IsCell
<1> QED
  BY <1>1 DEF IsCell

LEMMA CellWith ==
    ASSUME \A k \in DOMAIN table : IsCell(table[k]), NEW k \in DOMAIN table, NEW e, IsCell(e),
           table' = [table EXCEPT ![k] = e]
    PROVE  /\ DOMAIN table' = DOMAIN table
           /\ \A x \in DOMAIN table' : IsCell(table'[x])
           /\ \A x \in DOMAIN table \ {k} : table'[x] = table[x]
           /\ table'[k] = e
<1> HIDE DEF IsCell
<1> QED
  OBVIOUS

\* What does not run main keeps its threads.
LEMMA ThreadsStayHere ==
    ASSUME Threads, UNCHANGED <<main, conf, ub, sc, pool, work>>,
           gc' = gc \/ (main \notin Early \union {"after", "err3", "err2", "exit"})
    PROVE  Threads'
BY ScOnStays DEF Threads

LEMMA RequestHolds ==
    ASSUME LInv,
           \/ \E k \in Here : Lookup(k) \/ Open(k)
           \/ \E d \in {Root, Elsewhere} : Readdir(d)
    PROVE  LInv'
<1>1. /\ ub = FALSE /\ main = "mounted" /\ UNCHANGED confVars
      /\ ctx' = ctx /\ lib' = lib /\ ctx_freed' = ctx_freed /\ gc' = gc
      /\ pool' = pool /\ work' = work /\ sc' = sc
      /\ input' = input /\ main' = main /\ conf' = conf /\ ub' = ub
  BY DEF LInv, MainTypes, Lookup, Open, Readdir, Mounted, mainVars, confVars
<1>2. Threads /\ Files /\ \A x \in DOMAIN table : IsCell(table[x])
  BY DEF LInv, Files
<1>3. Threads'
  BY <1>1, <1>2, ThreadsStayHere
<1>4. Here' = Here
  BY <1>1 DEF Here
<1>5. ASSUME NEW k \in Here, Lookup(k) PROVE LInv'
  <2> DEFINE e == [ondisk |-> "remote", md |-> k, old |-> FALSE]
  <2>1. IsCell(e)
    BY DEF IsCell
  <2>2. /\ table' = Put(k, e) /\ cached' = cached /\ astray' = astray
        /\ k \in DOMAIN table => table[k].ondisk = "unset"
    BY <1>5 DEF Lookup, files
  <2> HIDE DEF e
  <2>3. /\ DOMAIN table' = DOMAIN table \union {k}
        /\ \A x \in DOMAIN table' : IsCell(table'[x])
        /\ \A x \in DOMAIN table \ {k} : table'[x] = table[x]
    BY <1>2, <2>1, <2>2, PutCells
  <2>4. \A x \in cached : x \in astray \/ Local(x)'
    BY <1>2, <2>2, <2>3 DEF Files, Local
  <2>5. Files'
    BY <1>1, <1>2, <1>4, <2>2, <2>3, <2>4 DEF Files
  <2> QED
    BY <1>1, <1>3, <2>5, OthersHold
<1>6. ASSUME NEW k \in Here, Open(k) PROVE LInv'
  <2> DEFINE e == [table[k] EXCEPT !.ondisk = "local"]
  <2>1. /\ k \in DOMAIN table /\ cached' = cached \union {k}
        /\ \/ table' = [table EXCEPT ![k] = e] /\ astray' = astray \ {k}
           \/ table' = table /\ astray' = astray \union {k}
    BY <1>6 DEF Open
  <2>2. IsCell(e) /\ e.ondisk = "local"
    BY <1>2, <2>1 DEF IsCell
  <2> HIDE DEF e
  <2>3. CASE table' = [table EXCEPT ![k] = e] /\ astray' = astray \ {k}
    <3>1. /\ DOMAIN table' = DOMAIN table
          /\ \A x \in DOMAIN table' : IsCell(table'[x])
          /\ \A x \in DOMAIN table \ {k} : table'[x] = table[x]
          /\ table'[k] = e
      BY <1>2, <2>1, <2>2, <2>3, CellWith
    <3>2. \A x \in cached' : x \in astray' \/ Local(x)'
      BY <1>2, <2>1, <2>2, <2>3, <3>1 DEF Files, Local
    <3>3. Files'
      BY <1>1, <1>2, <1>4, <2>1, <3>1, <3>2 DEF Files
    <3> QED
      BY <1>1, <1>3, <3>3, OthersHold
  <2>4. CASE table' = table /\ astray' = astray \union {k}
    <3>1. Files'
      BY <1>1, <1>2, <1>4, <2>1, <2>4 DEF Files, Local
    <3> QED
      BY <1>1, <1>3, <3>1, OthersHold
  <2> QED
    BY <2>1, <2>3, <2>4
<1>7. ASSUME NEW d, Readdir(d) PROVE LInv'
  <2>1. table' = table /\ cached' = cached /\ astray' = astray
    BY <1>7 DEF Readdir, files
  <2>2. Files'
    BY <1>1, <1>2, <2>1, FilesStay
  <2> QED
    BY <1>1, <1>3, <2>2, OthersHold
<1> QED
  BY <1>5, <1>6, <1>7

\* What a thread that is not stopped runs into.
LEMMA CrashHolds ==
    ASSUME LInv, ub = FALSE, Crash, UNCHANGED mainVars,
           ScOn \/ (main \in {"ctx_free", "log"} /\ ThreadLeft)
    PROVE  LInv'
<1>1. /\ input' = input /\ main' = main /\ line' = line /\ conf' = conf /\ ub' = TRUE
      /\ ctx' = ctx /\ lib' = lib /\ ctx_freed' = ctx_freed /\ gc' = gc
      /\ table' = table /\ cached' = cached /\ astray' = astray
      /\ pool' = pool /\ work' = work /\ sc' = sc
  BY DEF Crash, mainVars, scVars
<1>2. Settings' /\ Files'
  BY <1>1, SettingsStay, FilesStay DEF LInv
<1>3. MainTypes' /\ MainHolds'
  BY <1>1 DEF LInv, MainTypes, MainHolds, Confs
<1>4. ScOn' = ScOn
  BY <1>1, ScOnStays
<1>5. OnlyKnownCrashes'
  BY <1>1, <1>4 DEF OnlyKnownCrashes, ThreadLeft
<1>6. Threads'
  BY <1>1, <1>4 DEF LInv, Threads
<1> QED
  BY <1>2, <1>3, <1>5, <1>6 DEF LInv

\* A thread that finds no conf runs while dfs_destroy ends.
LEMMA NoConfAtEnd ==
    ASSUME LInv, ub = FALSE, ~ConfLive, main \notin Early, gc # "off" \/ sc.pc # "off"
    PROVE  main \in {"ctx_free", "log"}
BY DEF LInv, MainTypes, MainHolds, Threads, ConfLive, Confs, Configured, Early

LEMMA GcHolds == ASSUME LInv, GcStart \/ GcPass \/ GcCrash PROVE LInv'
<1>1. /\ ub = FALSE /\ gc \in {"start", "sleep"}
      /\ Threads /\ Files /\ main \notin Early \union {"after", "err3", "err2", "exit"}
  BY DEF LInv, MainTypes, Threads, Running, GcStart, GcPass, GcCrash
<1>2. CASE GcStart
  <2>1. /\ UNCHANGED confVars /\ ctx' = ctx /\ lib' = lib /\ ctx_freed' = ctx_freed
        /\ gc' \in {"sleep", "gone"}
        /\ input' = input /\ main' = main /\ conf' = conf /\ ub' = ub
        /\ table' = table /\ cached' = cached /\ astray' = astray
        /\ pool' = pool /\ work' = work /\ sc' = sc
    BY <1>2 DEF GcStart, KeepSc, scVars, confVars
  <2>2. Threads' /\ Files'
    BY <1>1, <2>1, ThreadsStayHere, FilesStay
  <2> QED
    BY <1>1, <2>1, <2>2, OthersHold
<1>3. CASE GcPass
  <2>1. /\ UNCHANGED confVars /\ ctx' = ctx /\ lib' = lib /\ ctx_freed' = ctx_freed /\ gc' = gc
        /\ input' = input /\ main' = main /\ conf' = conf /\ ub' = ub
        /\ astray' = astray /\ pool' = pool /\ work' = work /\ sc' = sc
    BY <1>3 DEF GcPass, mainVars, confVars
  <2>2. PICK old : /\ table' = [k \in DOMAIN table \ old |-> table[k]]
                   /\ cached' = cached \ old
    BY <1>3 DEF GcPass
  <2>3. Threads'
    BY <1>1, <2>1, ThreadsStayHere
  <2>4. Here' = Here /\ ScOn' = ScOn
    BY <2>1, ScOnStays DEF Here
  <2>5. \A x \in cached' : x \in astray' \/ Local(x)'
    BY <1>1, <2>1, <2>2 DEF Files, Local
  <2>6. Files'
    BY <1>1, <2>1, <2>2, <2>4, <2>5 DEF Files, IsCell
  <2> QED
    BY <1>1, <2>1, <2>3, <2>6, OthersHold
<1>4. CASE GcCrash
  <2>1. Crash /\ UNCHANGED mainVars /\ ~ConfLive
    BY <1>4 DEF GcCrash
  <2>2. main \in {"ctx_free", "log"} /\ ThreadLeft
    BY <1>1, <2>1, NoConfAtEnd DEF ThreadLeft
  <2> QED
    BY <1>1, <2>1, <2>2, CrashHolds
<1> QED
  BY <1>2, <1>3, <1>4


\* A step of the smart cache that runs into nothing undefined.
Active == {"preload", "opendir", "list", "wait", "sleep", "pass", "gone"}
ScQuiet == /\ main \notin Early
           /\ Frame /\ cached' = cached
           /\ sc' = [pc |-> sc'.pc, todo |-> sc'.todo, passes |-> sc'.passes]
           /\ sc' = sc \/ (sc.pc # "off" /\ sc'.pc \in Active)
           /\ DOMAIN work' = Workers
           /\ \A k \in DOMAIN table' : IsCell(table'[k])
           /\ \A k \in cached : Local(k) => k \in astray' \/ Local(k)'
           /\ astray \subseteq astray'
           /\ \/ ScOn
              \/ sc'.pc = "gone" /\ UNCHANGED <<table, pool, work>>

LEMMA ScQuietHolds == ASSUME LInv, ub = FALSE, UNCHANGED mainVars, ScQuiet PROVE LInv'
<1>1. /\ UNCHANGED confVars /\ ctx' = ctx /\ lib' = lib /\ ctx_freed' = ctx_freed /\ gc' = gc
      /\ input' = input /\ main' = main /\ conf' = conf /\ ub' = ub
  BY DEF ScQuiet, Frame, mainVars, confVars
<1>2. Threads /\ Files
  BY DEF LInv
<1>3. Here' = Here /\ ScOn' = ScOn
  BY <1>1, ScOnStays DEF Here
<1>4. Threads'
  <2>1. CASE ScOn
    BY <1>1, <1>2, <1>3, <2>1 DEF Threads, ScQuiet, Active
  <2>2. CASE ~ScOn
    BY <1>1, <1>2, <1>3, <2>2 DEF Threads, ScQuiet, Active
  <2> QED
    BY <2>1, <2>2
<1>5. Files'
  BY <1>1, <1>2, <1>3 DEF Files, ScQuiet
<1> QED
  BY <1>1, <1>4, <1>5, OthersHold

LEMMA ThreadHolds ==
    ASSUME LInv, UNCHANGED mainVars, ScThread
    PROVE  LInv'
<1>1. /\ ub = FALSE /\ Threads /\ Files /\ main \notin Early
      /\ sc = [pc |-> sc.pc, todo |-> sc.todo, passes |-> sc.passes] /\ DOMAIN work = Workers
      /\ \A k \in DOMAIN table : IsCell(table[k])
  BY DEF LInv, MainTypes, Threads, Files, Running, ScThread, ScStart, ScPreload, ScOpendir, ScListed,
         ScWait, ScSleep, ScPassed, ScCrash, ScPush, ScCallback
<1>2. CASE ScStart
  <2>1. CASE Crash
    <3>1. ScOn
      BY <1>1, <1>2, <2>1 DEF ScStart, Crash, Frame, confVars, ScOn
    <3> QED
      BY <1>1, <2>1, <3>1, CrashHolds
  <2>2. CASE ~Crash
    <3>1. Frame /\ UNCHANGED <<table, cached, astray, pool, work>> /\ sc.pc = "start"
      BY <1>2, <2>2 DEF ScStart, files
    <3>2. /\ sc' = [pc |-> sc'.pc, todo |-> sc'.todo, passes |-> sc'.passes]
          /\ sc'.pc = "gone" \/ (ScOn /\ sc'.pc = "preload")
      BY <1>1, <1>2, <2>2 DEF ScStart, ScOn
    <3> QED
      BY <1>1, <3>1, <3>2, ScQuietHolds DEF ScQuiet, Active, Local
  <2> QED
    BY <2>1, <2>2
<1>3. CASE ScCrash
  <2>1. Crash /\ ~ConfLive /\ sc.pc \in {"start", "sleep", "pass"}
    BY <1>3 DEF ScCrash
  <2>2. sc.pc = "start" \/ ScOn
    BY <1>1, <2>1 DEF Threads
  <2>3. main \in {"ctx_free", "log"}
    BY <1>1, <2>1, NoConfAtEnd
  <2> QED
    BY <1>1, <2>1, <2>2, <2>3, CrashHolds DEF ThreadLeft
<1>4. CASE /\ ScPreload \/ ScOpendir \/ ScListed \/ ScWait \/ ScSleep \/ ScPassed
              \/ \E k \in sc.todo : ScPush(k) \/ ScCallback(k)
  <2>1. sc.pc \in Active \ {"gone"}
    BY <1>4 DEF ScPreload, ScOpendir, ScListed, ScWait, ScSleep, ScPassed, ScPush, ScCallback, Active
  <2>2. ScOn
    BY <1>1, <2>1 DEF Threads, Active
  <2>3. CASE Crash
    BY <1>1, <2>2, <2>3, CrashHolds
  <2>4. CASE ~Crash
    <3>1. Frame /\ cached' = cached /\ astray' = astray /\ work' = work
      BY <1>4, <2>4 DEF ScPreload, ScOpendir, ScListed, ScWait, ScSleep, ScPassed, ScPush, ScCallback,
                        files
    <3>2. /\ sc' = [pc |-> sc'.pc, todo |-> sc'.todo, passes |-> sc'.passes]
          /\ sc'.pc \in Active
      <4>1. \/ \E todo : sc' = [sc EXCEPT !.pc = "list", !.todo = todo]
            \/ \E todo, passes : sc' = [pc |-> "pass", todo |-> todo, passes |-> passes]
            \/ \E pc \in {"opendir", "wait", "sleep"} : sc' = [sc EXCEPT !.pc = pc]
            \/ \E k \in sc.todo : sc' = [sc EXCEPT !.todo = @ \ {k}]
        <5>1. CASE ScOpendir \/ ScSleep
          BY <5>1, Zenon DEF ScOpendir, ScSleep
        <5>2. CASE ScPreload \/ ScListed \/ ScWait \/ ScPassed
          BY <2>4, <5>2 DEF ScPreload, ScListed, ScWait, ScPassed
        <5>3. CASE \E k \in sc.todo : ScPush(k) \/ ScCallback(k)
          BY <5>3 DEF ScPush, ScCallback
        <5> QED
          BY <1>4, <5>1, <5>2, <5>3
      <4>2. sc = [pc |-> sc.pc, todo |-> sc.todo, passes |-> sc.passes]
        BY <1>1 DEF Threads
      <4>3. CASE \E todo : sc' = [sc EXCEPT !.pc = "list", !.todo = todo]
        <5>1. PICK todo : sc' = [sc EXCEPT !.pc = "list", !.todo = todo]
          BY <4>3
        <5>2. sc' = [pc |-> "list", todo |-> todo, passes |-> sc.passes]
          BY <4>2, <5>1
        <5> QED
          BY <5>2 DEF Active
      <4>4. CASE \E todo, passes : sc' = [pc |-> "pass", todo |-> todo, passes |-> passes]
        BY <4>4 DEF Active
      <4>5. CASE \E pc \in {"opendir", "wait", "sleep"} : sc' = [sc EXCEPT !.pc = pc]
        <5>1. PICK pc \in {"opendir", "wait", "sleep"} : sc' = [sc EXCEPT !.pc = pc]
          BY <4>5
        <5>2. sc' = [pc |-> pc, todo |-> sc.todo, passes |-> sc.passes]
          BY <4>2, <5>1
        <5> QED
          BY <5>1, <5>2 DEF Active
      <4>6. CASE \E k \in sc.todo : sc' = [sc EXCEPT !.todo = @ \ {k}]
        <5>1. PICK k \in sc.todo : sc' = [sc EXCEPT !.todo = @ \ {k}]
          BY <4>6
        <5>2. sc' = [pc |-> sc.pc, todo |-> sc.todo \ {k}, passes |-> sc.passes]
          BY <4>2, <5>1
        <5> QED
          BY <2>1, <5>2 DEF Active
      <4> QED
        BY <4>1, <4>3, <4>4, <4>5, <4>6
    <3>3. /\ \A k \in DOMAIN table' : IsCell(table'[k])
          /\ \A k \in DOMAIN table : k \in DOMAIN table' /\ table'[k].ondisk = table[k].ondisk
      <4>1. CASE ScPreload
        <5>1. IsCell(NewCell(TRUE))
          BY DEF NewCell, IsCell
        <5>2. CASE Root \in DOMAIN table
          BY <1>1, <4>1, <5>2 DEF ScPreload
        <5>3. CASE Root \notin DOMAIN table
          <6>1. table' = Put(Root, NewCell(TRUE))
            BY <4>1, <5>3 DEF ScPreload
          <6> QED
            <7>1. \A k \in DOMAIN table : IsCell(table[k])
              BY <1>1
            <7>2. /\ DOMAIN table' = DOMAIN table \union {Root}
                  /\ \A k \in DOMAIN table' : IsCell(table'[k])
                  /\ \A k \in DOMAIN table \ {Root} : table'[k] = table[k]
              BY <5>1, <6>1, <7>1, PutCells
            <7> QED
              BY <5>3, <7>2
        <5> QED
          BY <5>2, <5>3
      <4>2. CASE ScListed
        <5> DEFINE e == [table[Root] EXCEPT !.old = FALSE]
        <5>1. Root \in DOMAIN table /\ table' = [table EXCEPT ![Root] = e]
          BY <2>4, <4>2 DEF ScListed
        <5>2. IsCell(e) /\ e.ondisk = table[Root].ondisk
          <6>1. IsCell(table[Root])
            BY <1>1, <5>1
          <6> QED
            BY <6>1, AgedCell
        <5> HIDE DEF e
        <5> QED
          BY <1>1, <5>1, <5>2, CellWith
      <4>3. CASE table' = table
        BY <1>1, <4>3
      <4> QED
        BY <1>4, <4>1, <4>2, <4>3 DEF ScOpendir, ScWait, ScSleep, ScPassed, ScPush, ScCallback
    <3> QED
      BY <1>1, <2>1, <2>2, <3>1, <3>2, <3>3, ScQuietHolds DEF ScQuiet, Active, Local
  <2> QED
    BY <2>3, <2>4
<1> QED
  BY <1>2, <1>3, <1>4 DEF ScThread

LEMMA PoolHolds ==
    ASSUME LInv, UNCHANGED mainVars,
           \/ \E w \in Workers : Work(w) \/ Leave(w)
           \/ \E k \in DOMAIN table : Ages(k)
    PROVE  LInv'
<1>1. /\ ub = FALSE /\ Threads /\ Files /\ main \notin Early
      /\ sc = [pc |-> sc.pc, todo |-> sc.todo, passes |-> sc.passes] /\ DOMAIN work = Workers
      /\ \A k \in DOMAIN table : IsCell(table[k])
  BY DEF LInv, MainTypes, Threads, Files, Running, Work, TakeJob, Attr, Fill, Leave, Ages
<1>2. ScOn
  BY <1>1 DEF Threads, Work, TakeJob, Attr, Fill, Leave, Ages
<1>3. CASE Crash
  BY <1>1, <1>2, <1>3, CrashHolds
<1>4. CASE ~Crash
  <2>1. Frame /\ cached' = cached /\ sc' = sc
    BY <1>4 DEF Work, TakeJob, Attr, Fill, Leave, Ages, files
  <2>2. DOMAIN work' = Workers
    BY <1>1, <1>4 DEF Work, TakeJob, Attr, Fill, Leave, Ages, Rest
  <2> DEFINE Kept == /\ \A x \in DOMAIN table' : IsCell(table'[x])
                     /\ \A x \in DOMAIN table : Local(x) => x \in astray' \/ Local(x)'
                     /\ astray \subseteq astray'
  <2>3. Kept
    <3>1. ASSUME NEW k \in DOMAIN table, NEW old \in BOOLEAN, astray' = astray,
                 table' = [table EXCEPT ![k].old = old]
          PROVE  Kept
      <4> DEFINE e == [table[k] EXCEPT !.old = old]
      <4>1. table' = [table EXCEPT ![k] = e] /\ IsCell(e) /\ e.ondisk = table[k].ondisk
        BY <1>1, <3>1 DEF IsCell
      <4> HIDE DEF e
      <4>2. /\ DOMAIN table' = DOMAIN table
            /\ \A x \in DOMAIN table' : IsCell(table'[x])
            /\ \A x \in DOMAIN table \ {k} : table'[x] = table[x]
            /\ table'[k] = e
        BY <1>1, <4>1, CellWith
      <4> QED
        BY <3>1, <4>1, <4>2 DEF Local
    <3>2. ASSUME NEW k, NEW old \in BOOLEAN, k \notin DOMAIN table, astray' = astray,
                 table' = Put(k, NewCell(old))
          PROVE  Kept
      <4>1. IsCell(NewCell(old))
        BY DEF NewCell, IsCell
      <4>2. /\ DOMAIN table' = DOMAIN table \union {k}
            /\ \A x \in DOMAIN table' : IsCell(table'[x])
            /\ \A x \in DOMAIN table \ {k} : table'[x] = table[x]
        BY <1>1, <3>2, <4>1, PutCells
      <4> QED
        BY <3>2, <4>2 DEF Local
    <3>3. ASSUME table' = table, astray' = astray PROVE Kept
      BY <1>1, <3>3 DEF Local
    <3>4. ASSUME NEW w \in Workers, TakeJob(w) PROVE Kept
      <4>1. astray' = astray
        BY <3>4 DEF TakeJob, files
      <4>2. PICK k \in Reads(Head(pool)) :
               \/ k \in DOMAIN table /\ table' = [table EXCEPT ![k].old = FALSE]
               \/ table' = table
               \/ k \notin DOMAIN table /\ \E old \in BOOLEAN : table' = Put(k, NewCell(old))
        BY <3>4 DEF TakeJob
      <4> QED
        BY <3>1, <3>2, <3>3, <4>1, <4>2
    <3>5. ASSUME NEW w \in Workers, Attr(w) PROVE Kept
      <4>1. /\ astray' = astray
            /\ \/ table' = table
               \/ work[w].key \in DOMAIN table /\ table' = [table EXCEPT ![work[w].key].old = FALSE]
        BY <1>4, <3>5 DEF Attr, files
      <4> QED
        BY <3>1, <3>3, <4>1
    <3>6. ASSUME NEW w \in Workers, Fill(w) PROVE Kept
      <4> DEFINE k == work[w].key
                 e == [ondisk |-> "remote", md |-> work[w].md, old |-> FALSE]
      <4>1. /\ k \in DOMAIN table /\ table' = [table EXCEPT ![k] = e]
            /\ astray' = IF table[k].ondisk = "local" THEN astray \union {k} ELSE astray
        BY <1>4, <3>6 DEF Fill
      <4>2. IsCell(e)
        BY DEF IsCell
      <4> HIDE DEF e, k
      <4>3. /\ DOMAIN table' = DOMAIN table
            /\ \A x \in DOMAIN table' : IsCell(table'[x])
            /\ \A x \in DOMAIN table \ {k} : table'[x] = table[x]
        BY <1>1, <4>1, <4>2, CellWith
      <4> QED
        BY <4>1, <4>3 DEF Local
    <3>7. ASSUME NEW w \in Workers, Leave(w) PROVE Kept
      BY <3>3, <3>7 DEF Leave, files
    <3>8. ASSUME NEW k \in DOMAIN table, Ages(k) PROVE Kept
      BY <3>1, <3>8 DEF Ages, files
    <3> QED
      BY <3>4, <3>5, <3>6, <3>7, <3>8 DEF Work
  <2> QED
    BY <1>1, <1>2, <2>1, <2>2, <2>3, ScQuietHolds DEF ScQuiet, Local
<1> QED
  BY <1>3, <1>4

-----------------------------------------------------------------------------
(* Types: what the temporary strings, the queue and the pool hold.          *)

Listable == Here \union There
RingIs == /\ DOMAIN slot = 0..TmpstrNb - 1
          /\ \A i \in 0..TmpstrNb - 1 : slot[i] \in Listable \union {NoMd}
          /\ next \in Nat
ListIs == /\ sc.pc = "list" => sc.todo \subseteq Listable
          /\ cwd \in {Root, Elsewhere}

\* A queue of whatever it holds.
JobsOf(q) == {q[j] : j \in 1..Len(q)}
QueueIs == /\ pool \in Seq(JobsOf(pool))
           /\ \A j \in 1..Len(pool) : pool[j].to \in {"string", "cell"}

IsJob(job) == /\ job = [pc |-> job.pc, ptr |-> job.ptr, key |-> job.key, md |-> job.md]
              /\ job.pc \in {"none", "idle", "attr", "fill"}
WorkIs == DOMAIN work = Workers /\ \A w \in Workers : IsJob(work[w])

TInv == RingIs /\ ListIs /\ QueueIs /\ WorkIs
SInv == LInv /\ TInv

LEMMA InItsRange ==
    ASSUME NEW S, NEW r \in Seq(S)
    PROVE  r \in Seq(JobsOf(r))
BY DEF JobsOf

\* A queue with one job more, and with one less.
LEMMA QueueGrows ==
    ASSUME NEW p, p.to \in {"string", "cell"}, QueueIs, pool' = Append(pool, p)
    PROVE  QueueIs'
<1> DEFINE S == JobsOf(pool) \union {p}
           q == Append(pool, p)
<1>1. pool \in Seq(S)
  BY DEF QueueIs
<1>2. \A j \in 1..Len(pool) : pool[j].to \in {"string", "cell"}
  BY DEF QueueIs
<1> HIDE DEF S
<1>3. q \in Seq(S \union {p}) /\ Len(q) = Len(pool) + 1 /\ Len(pool) \in Nat
      /\ \A j \in 1..Len(q) : q[j] = IF j = Len(pool) + 1 THEN p ELSE pool[j]
  BY <1>1
<1>4. q \in Seq(JobsOf(q))
  BY <1>3, InItsRange
<1> HIDE DEF q
<1>5. \A j \in 1..Len(q) : j = Len(pool) + 1 \/ j \in 1..Len(pool)
  BY <1>3
<1>6. \A j \in 1..Len(q) : q[j].to \in {"string", "cell"}
  BY <1>2, <1>3, <1>5
<1>7. pool' = q
  BY DEF q
<1> QED
  BY <1>4, <1>6, <1>7 DEF QueueIs

LEMMA QueueShrinks ==
    ASSUME QueueIs, pool # <<>>, pool' = Tail(pool)
    PROVE  QueueIs'
<1> DEFINE S == JobsOf(pool)
           q == Tail(pool)
<1>1. pool \in Seq(S) /\ pool' = q /\ \A j \in 1..Len(pool) : pool[j].to \in {"string", "cell"}
  BY DEF QueueIs
<1> HIDE DEF S
<1>2. q \in Seq(S) /\ Len(q) = Len(pool) - 1 /\ Len(pool) \in Nat /\ Len(pool) # 0
      /\ \A j \in 1..Len(q) : q[j] = pool[j + 1]
  BY <1>1
<1>3. q \in Seq(JobsOf(q))
  BY <1>2, InItsRange
<1> HIDE DEF q
<1>4. \A j \in 1..Len(q) : j + 1 \in 1..Len(pool)
  BY <1>2
<1> QED
  BY <1>1, <1>2, <1>3, <1>4 DEF QueueIs

\* The parts that a step leaves alone.
LEMMA RingStays == ASSUME RingIs, input' = input, UNCHANGED <<slot, next>> PROVE RingIs'
BY DEF RingIs, Listable, Here, There

LEMMA QueueStays == ASSUME QueueIs, UNCHANGED pool PROVE QueueIs'
BY DEF QueueIs, JobsOf

LEMMA WorkStays == ASSUME WorkIs, UNCHANGED work PROVE WorkIs'
BY DEF WorkIs, IsJob

LEMMA ListStays ==
    ASSUME ListIs, input' = input, cwd' \in {Root, Elsewhere, cwd},
           sc' = sc \/ sc'.pc # "list"
    PROVE  ListIs'
BY DEF ListIs, Listable, Here, There

LEMMA TypesStay ==
    ASSUME TInv, input' = input, UNCHANGED <<slot, next, pool, work>>,
           cwd' \in {Root, Elsewhere, cwd}, sc' = sc \/ sc'.pc # "list"
    PROVE  TInv'
BY RingStays, QueueStays, WorkStays, ListStays DEF TInv

LEMMA MainTyped == ASSUME SInv, Daemon PROVE TInv'
<1>1. /\ input' = input /\ slot' = slot /\ next' = next /\ pool' = pool /\ work' = work
      /\ cwd' = cwd
      /\ sc' = sc \/ sc' = [sc EXCEPT !.pc = "start"]
  BY DEF Daemon, Start, Configure, ConfDefault, ConfHome, ParseLine, EnvOverride, ConfLog,
         FuseMain, Unmount, DestroyCache, DestroyTable, DestroyConf, DestroyCtx, DestroyLib,
         After, Err3, Err2, Goto, KeepSc, scVars
<1>2. sc = [pc |-> sc.pc, todo |-> sc.todo, passes |-> sc.passes]
  BY DEF SInv, LInv, Threads
<1>3. sc' = sc \/ sc'.pc # "list"
  BY <1>1, <1>2
<1> QED
  BY <1>1, <1>3, TypesStay DEF SInv

LEMMA OthersTyped ==
    ASSUME SInv,
           \/ \E k \in Here : Lookup(k) \/ Open(k)
           \/ \E d \in {Root, Elsewhere} : Readdir(d)
           \/ GcStart \/ GcPass \/ GcCrash
    PROVE  TInv'
<1>1. /\ input' = input /\ slot' = slot /\ next' = next /\ pool' = pool /\ work' = work
      /\ sc' = sc /\ cwd' \in {Root, Elsewhere, cwd}
  BY DEF Lookup, Open, Readdir, GcStart, GcPass, GcCrash, Crash, KeepSc, scVars, confVars
<1> QED
  BY <1>1, TypesStay DEF SInv

\* The steps of the smart cache that push no name and take none.
LEMMA QuietTyped ==
    ASSUME SInv, ScStart \/ ScPreload \/ ScListed \/ ScWait \/ ScSleep \/ ScPassed \/ ScCrash
    PROVE  TInv'
<1>1. sc = [pc |-> sc.pc, todo |-> sc.todo, passes |-> sc.passes]
  BY DEF SInv, LInv, Threads
<1>2. /\ input' = input /\ slot' = slot /\ next' = next /\ pool' = pool /\ work' = work
      /\ cwd' \in {Root, cwd}
  BY DEF ScStart, ScPreload, ScListed, ScWait, ScSleep, ScPassed, ScCrash, Crash, Frame, scVars,
         confVars
<1>3. \/ sc' = sc
      \/ \E pc \in {"gone", "preload", "opendir", "wait", "sleep"} : sc' = [sc EXCEPT !.pc = pc]
      \/ \E todo, passes : sc' = [pc |-> "pass", todo |-> todo, passes |-> passes]
  <2>1. CASE ScSleep
    BY <2>1, Zenon DEF ScSleep
  <2>2. CASE ScStart \/ ScPreload \/ ScListed \/ ScWait \/ ScPassed \/ ScCrash
    BY <2>2 DEF ScStart, ScPreload, ScListed, ScWait, ScPassed, ScCrash, Crash, scVars
  <2> QED
    BY <2>1, <2>2
<1>4. sc' = sc \/ sc'.pc # "list"
  <2>1. ASSUME NEW pc \in {"gone", "preload", "opendir", "wait", "sleep"},
               sc' = [sc EXCEPT !.pc = pc]
        PROVE  sc'.pc # "list"
    BY <1>1, <2>1
  <2>2. ASSUME NEW todo, NEW passes,
               sc' = [pc |-> "pass", todo |-> todo, passes |-> passes]
        PROVE  sc'.pc # "list"
    BY <2>2
  <2> QED
    BY <1>3, <2>1, <2>2
<1> QED
  BY <1>2, <1>4, TypesStay DEF SInv

\* Listing, pushing and looking at an entry.
LEMMA ListTyped ==
    ASSUME SInv, ScOpendir \/ \E k \in sc.todo : ScPush(k) \/ ScCallback(k)
    PROVE  TInv'
<1>1. /\ RingIs /\ ListIs /\ QueueIs /\ WorkIs
      /\ sc = [pc |-> sc.pc, todo |-> sc.todo, passes |-> sc.passes]
  BY DEF SInv, TInv, LInv, Threads
<1>2. CASE ScOpendir
  <2>1. /\ input' = input /\ UNCHANGED <<slot, next, pool, work, cwd>>
        /\ \/ sc' = [sc EXCEPT !.pc = "list", !.todo = IF cwd = Root THEN Here ELSE There]
           \/ sc' = [sc EXCEPT !.pc = "wait"]
    BY <1>2 DEF ScOpendir, Frame, confVars
  <2>2. RingIs' /\ QueueIs' /\ WorkIs'
    BY <1>1, <2>1, RingStays, QueueStays, WorkStays
  <2>3. CASE sc' = [sc EXCEPT !.pc = "wait"]
    <3>1. sc'.pc = "wait"
      BY <1>1, <2>3
    <3> QED
      BY <1>1, <2>1, <2>2, <3>1, ListStays DEF TInv
  <2>4. CASE sc' = [sc EXCEPT !.pc = "list", !.todo = IF cwd = Root THEN Here ELSE There]
    <3>1. PICK todo : todo = IF cwd = Root THEN Here ELSE There
      OBVIOUS
    <3>2. sc' = [[sc EXCEPT !.pc = "list"] EXCEPT !.todo = todo]
      BY <2>4, <3>1
    <3>3. sc'.todo = todo
      BY <1>1, <3>2
    <3>4. todo \subseteq Listable /\ Listable' = Listable
      BY <2>1, <3>1 DEF Listable, Here, There
    <3>5. ListIs'
      BY <1>1, <2>1, <3>3, <3>4 DEF ListIs
    <3> QED
      BY <2>2, <3>5 DEF TInv
  <2> QED
    BY <2>1, <2>3, <2>4
<1>3. ASSUME NEW k \in sc.todo, ScPush(k) \/ ScCallback(k) PROVE TInv'
  <2>1. input' = input /\ UNCHANGED <<work, cwd>> /\ sc' = [sc EXCEPT !.todo = @ \ {k}]
        /\ Listable' = Listable
    BY <1>3 DEF ScPush, ScCallback, Frame, confVars, Listable, Here, There
  <2>2. sc' = [pc |-> sc.pc, todo |-> sc.todo \ {k}, passes |-> sc.passes]
    BY <1>1, <2>1
  <2>3. ListIs'
    BY <1>1, <2>1, <2>2 DEF ListIs
  <2>4. WorkIs'
    BY <1>1, <2>1, WorkStays
  <2>5. RingIs'
    <3>1. CASE ScCallback(k)
      BY <1>1, <2>1, <3>1, RingStays DEF ScCallback
    <3>2. CASE ScPush(k)
      <4>1. PICK i : i = next % TmpstrNb
        OBVIOUS
      <4>2. slot' = [slot EXCEPT ![i] = k] /\ next' = next + 1 /\ sc.pc = "list"
        BY <3>2, <4>1 DEF ScPush
      <4>3. k \in Listable /\ next' \in Nat
        BY <1>1, <1>3, <4>2 DEF ListIs, RingIs
      <4> QED
        BY <1>1, <2>1, <4>2, <4>3 DEF RingIs
    <3> QED
      BY <1>3, <3>1, <3>2
  <2>6. QueueIs'
    <3>1. CASE pool' = pool
      BY <1>1, <3>1, QueueStays
    <3>2. CASE \E p : p.to \in {"string", "cell"} /\ pool' = Append(pool, p)
      BY <1>1, <3>2, QueueGrows
    <3>3. CASE pool' = Append(pool, Entry(k))
      <4>1. Entry(k).to = "cell"
        BY DEF Entry
      <4> QED
        BY <1>1, <3>3, <4>1, QueueGrows
    <3>4. CASE ScPush(k)
      <4>1. PICK i : i = next % TmpstrNb
        OBVIOUS
      <4>2. pool' = Append(pool, Text(i)) /\ Text(i).to = "string"
        BY <3>4, <4>1 DEF ScPush, Text
      <4> QED
        BY <1>1, <4>2, QueueGrows
    <3> QED
      BY <1>3, <3>1, <3>3, <3>4 DEF ScCallback
  <2> QED
    BY <2>3, <2>4, <2>5, <2>6 DEF TInv
<1> QED
  BY <1>2, <1>3

\* A thread of the pool is somewhere, whatever it does.
LEMMA PoolTyped ==
    ASSUME SInv,
           \/ \E w \in Workers : Work(w) \/ Leave(w)
           \/ \E k \in DOMAIN table : Ages(k)
    PROVE  TInv'
<1>1. RingIs /\ ListIs /\ QueueIs /\ WorkIs
  BY DEF SInv, TInv
<1>2. input' = input /\ UNCHANGED <<slot, next, cwd, sc>>
      /\ (pool' = pool \/ (pool # <<>> /\ pool' = Tail(pool)))
  BY DEF Work, TakeJob, Attr, Fill, Leave, Ages, Crash, Frame, scVars, confVars
<1>3. WorkIs'
  <2>1. CASE \E k \in DOMAIN table : Ages(k)
    BY <1>1, <2>1, WorkStays DEF Ages
  <2>2. ASSUME NEW w \in Workers, Work(w) \/ Leave(w) PROVE WorkIs'
    <3>1. IsJob(work[w]) /\ DOMAIN work = Workers
      BY <1>1 DEF WorkIs
    <3>2. ASSUME NEW job, IsJob(job), work' = [work EXCEPT ![w] = job] PROVE WorkIs'
      BY <1>1, <3>2 DEF WorkIs
    <3>3. CASE work' = work
      BY <1>1, <3>3, WorkStays
    <3>4. CASE \E pc \in {"idle", "attr"} : \E p, key :
                  work' = [work EXCEPT ![w] = [pc |-> pc, ptr |-> p, key |-> key, md |-> NoMd]]
      <4>1. PICK pc \in {"idle", "attr"} :
                  \E p, key : work' =
                     [work EXCEPT ![w] = [pc |-> pc, ptr |-> p, key |-> key, md |-> NoMd]]
        BY <3>4
      <4>2. PICK p, key :
                  work' = [work EXCEPT ![w] = [pc |-> pc, ptr |-> p, key |-> key, md |-> NoMd]]
        BY <4>1
      <4>3. IsJob([pc |-> pc, ptr |-> p, key |-> key, md |-> NoMd])
        BY DEF IsJob
      <4> QED
        BY <3>2, <4>2, <4>3
    <3>5. CASE \E k : work' = [work EXCEPT ![w].pc = "fill", ![w].md = k]
      <4>1. PICK k : work' = [work EXCEPT ![w] = [[work[w] EXCEPT !.pc = "fill"] EXCEPT !.md = k]]
        BY <3>1, <3>5
      <4>2. PICK job : job = [[work[w] EXCEPT !.pc = "fill"] EXCEPT !.md = k]
        OBVIOUS
      <4>3. job = [pc |-> "fill", ptr |-> work[w].ptr, key |-> work[w].key, md |-> k]
        BY <3>1, <4>2 DEF IsJob
      <4>4. IsJob(job)
        BY <4>3 DEF IsJob
      <4> QED
        BY <3>2, <4>1, <4>2, <4>4
    <3>6. CASE work' = [work EXCEPT ![w].pc = "none"]
      <4>1. PICK job : job = [work[w] EXCEPT !.pc = "none"]
        OBVIOUS
      <4>2. job = [pc |-> "none", ptr |-> work[w].ptr, key |-> work[w].key, md |-> work[w].md]
        BY <3>1, <4>1 DEF IsJob
      <4>3. IsJob(job)
        BY <4>2 DEF IsJob
      <4> QED
        BY <3>2, <3>6, <4>1, <4>3
    <3> QED
      BY <2>2, <3>3, <3>4, <3>5, <3>6
         DEF Work, TakeJob, Attr, Fill, Leave, Rest, Crash, scVars
  <2> QED
    BY <2>1, <2>2
<1>4. QueueIs'
  BY <1>1, <1>2, QueueStays, QueueShrinks
<1> QED
  BY <1>1, <1>2, <1>3, <1>4, RingStays, ListStays DEF TInv

LEMMA InitTyped == Init => TInv
<1> SUFFICES ASSUME Init PROVE TInv
  OBVIOUS
<1>1. /\ slot = [i \in 0..TmpstrNb - 1 |-> NoMd] /\ next = 0 /\ pool = <<>> /\ cwd = Root
      /\ work = [w \in Workers |-> [pc |-> "none", ptr |-> Text(0), key |-> NoMd, md |-> NoMd]]
      /\ sc = [pc |-> "off", todo |-> {}, passes |-> 0]
  BY DEF Init, ScInit
<1>2. RingIs /\ ListIs /\ WorkIs
  BY <1>1 DEF RingIs, ListIs, WorkIs, IsJob
<1>3. QueueIs
  BY <1>1 DEF QueueIs
<1> QED
  BY <1>2, <1>3 DEF TInv

LEMMA StepTyped == SInv /\ [Next]_vars => TInv'
<1> SUFFICES ASSUME SInv, [Next]_vars PROVE TInv'
  OBVIOUS
<1>1. CASE Daemon
  BY <1>1, MainTyped
<1>2. CASE \/ \E k \in Here : Lookup(k) \/ Open(k)
           \/ \E d \in {Root, Elsewhere} : Readdir(d)
           \/ GcStart \/ GcPass \/ GcCrash
  BY <1>2, OthersTyped
<1>3. CASE ScThread
  BY <1>3, QuietTyped, ListTyped DEF ScThread
<1>4. CASE (\E w \in Workers : Work(w) \/ Leave(w)) \/ \E k \in DOMAIN table : Ages(k)
  BY <1>4, PoolTyped
<1>5. CASE UNCHANGED vars
  BY <1>5, TypesStay DEF SInv, vars, scVars, confVars
<1> QED
  BY <1>1, <1>2, <1>3, <1>4, <1>5 DEF Next, ScNext

-----------------------------------------------------------------------------
(* The theorems.                                                            *)

LEMMA InitHolds == Init => LInv
<1> SUFFICES ASSUME Init PROVE LInv
  OBVIOUS
<1>1. /\ input \in Inputs /\ main = "start" /\ line = 1 /\ conf = NoConf /\ ub = FALSE
      /\ table = [k \in {} |-> NewCell(FALSE)] /\ cached = {} /\ astray = {} /\ pool = <<>>
      /\ work = [w \in Workers |-> [pc |-> "none", ptr |-> Text(0), key |-> NoMd, md |-> NoMd]]
      /\ sc = [pc |-> "off", todo |-> {}, passes |-> 0]
      /\ ctx = "null" /\ lib = "none" /\ ctx_freed = FALSE /\ gc = "off"
  BY DEF Init, ScInit
<1>2. MainTypes
  <2>1. conf \in Confs /\ line \in 1..Len(input.file) + 1
    BY <1>1, LinesAre, DefaultsAre
  <2> QED
    BY <1>1, <2>1 DEF MainTypes, Early
<1>3. Settings
  BY <1>1 DEF Settings, Configured
<1>4. MainHolds
  BY <1>1, DefaultsAre DEF MainHolds, Early, Serving
<1>5. Threads /\ Files
  BY <1>1 DEF Threads, Files
<1>6. OnlyKnownCrashes
  BY <1>1 DEF OnlyKnownCrashes
<1> QED
  BY <1>2, <1>3, <1>4, <1>5, <1>6 DEF LInv

LEMMA StepHolds == LInv /\ [Next]_vars => LInv'
<1> SUFFICES ASSUME LInv, [Next]_vars PROVE LInv'
  OBVIOUS
<1>1. CASE Daemon
  BY <1>1, StartHolds, ConfigureHolds, FuseMainHolds, MainHoldsOn DEF Daemon
<1>2. CASE \/ \E k \in Here : Lookup(k) \/ Open(k)
           \/ \E d \in {Root, Elsewhere} : Readdir(d)
  BY <1>2, RequestHolds
<1>3. CASE GcStart \/ GcPass \/ GcCrash
  BY <1>3, GcHolds
<1>4. CASE ScNext /\ UNCHANGED mainVars
  BY <1>4, ThreadHolds, PoolHolds DEF ScNext
<1>5. CASE UNCHANGED vars
  BY <1>5, NothingStays
<1> QED
  BY <1>1, <1>2, <1>3, <1>4, <1>5 DEF Next

LEMMA LifeInv == Spec => []LInv
BY InitHolds, StepHolds, PTL DEF Spec

\* From main to its end, whatever fails and whatever the file and the
\* environment say, freed or NULL memory is used in no other case than those that
\* OnlyKnownCrashes lists: the last LOG of dfs_destroy, conf_log, conf_free and
\* parse_log_level, and thread_gc and thread_cachedir, which nobody stops.
THEOREM EndsCleanly == Spec => []OnlyKnownCrashes
<1>1. LInv => OnlyKnownCrashes
  BY DEF LInv
<1> QED
  BY <1>1, LifeInv, PTL

\* dfs_destroy has given back conf, the context and, but for the smart cache, all
\* cells by its last LOG, and a main that could not mount the library too; what is
\* left in the cache directory are the files whose cell did not say so, from a
\* failed download or a getattr_unset beside dfs_open.
THEOREM EverythingGivenBack == Spec => []NothingLeft
<1>1. LInv => NothingLeft
  BY DEF LInv, NothingLeft, MainHolds, Files, ConfLive
<1> QED
  BY <1>1, LifeInv, PTL

\* Each option is, once conf_ctor is done, what the environment says, or what the
\* last line of the file that counts and gives it a value says, as it is written,
\* or its default; but for an option of a last line that has no newline.
THEOREM OptionsAreRight == Spec => []OptionsAsWritten
<1>1. LInv => OptionsAsWritten
  BY DEF LInv, OptionsAsWritten, Settings, Loaded, DirAsWanted, Configured
<1> QED
  BY <1>1, LifeInv, PTL

\* Every variable keeps its type: of the configuration, of the daemon, and of
\* what main, the requests, the collector and the smart cache share.
THEOREM TypesAreRight == Spec => []TypeOK
<1>1. Init => SInv
  BY InitHolds, InitTyped DEF SInv
<1>2. SInv /\ [Next]_vars => SInv'
  BY StepHolds, StepTyped DEF SInv
<1>3. SInv => TypeOK
  BY DEF SInv, TInv, LInv, MainTypes, Confs, Early, Configured, Files, IsCell, Threads,
         RingIs, ListIs, QueueIs, WorkIs, IsJob, Listable, TypeOK
<1> QED
  BY <1>1, <1>2, <1>3, PTL DEF Spec
=============================================================================
