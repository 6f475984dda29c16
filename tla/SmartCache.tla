----------------------------- MODULE SmartCache -----------------------------
(***************************************************************************)
(* The smart cache (cachedir.c): a thread that lists the root directory    *)
(* once and then looks for old path entries for ever, and the threads of a *)
(* pool that ask for the metadata of the names it pushes.                  *)
(*                                                                         *)
(* What is pushed is a pointer: to one of the temporary strings of the     *)
(* pushing thread, or to a path entry whose bytes are then read as a name. *)
(* Keys of the table are sequences: <<"/">>, <<n>> for an entry n of the   *)
(* root directory, and k with a mark for the name read in the entry of k.  *)
(***************************************************************************)
EXTENDS Conf

CONSTANTS TmpstrNb, \* temporary strings of a thread
          Workers,  \* threads of the pool
          MaxPasses \* how often the thread looks at the table (a bound)

ASSUME RingAssumption   == TmpstrNb \in Nat \ {0}
ASSUME PassesAssumption == MaxPasses \in Nat

VARIABLES table,  \* the hash table: key -> cell
          cached, \* entries with a file in the cache directory
          astray, \* those among them whose cell does not say so (history)
          cwd,    \* the current directory of the bucket, one for the daemon
          slot,   \* the temporary strings of the thread
          next,   \* how many it has taken
          pool,   \* the pointers that were pushed
          work,   \* the threads of the pool
          sc      \* the thread: where it is, what it has still to visit, and
                  \* how often it has looked at the table

scVars == <<table, cached, astray, cwd, slot, next, pool, work, sc>>
files  == <<cached, astray>>

-----------------------------------------------------------------------------
Root == <<"/">>
FdBytes == <<"fd">> \* the bytes of pe->fd, when a zero follows them
Name(n) == <<n>>
Here == {Name(n) : n \in input.entries}
There == {Name(n) : n \in input.below}

\* A cell: ondisk, the key whose metadata usermd is, and whether its age is
\* above sc_age_threshold.  pentry_new leaves atime uninitialised.
NoMd == <<>>
NewCell(old) == [ondisk |-> "unset", md |-> NoMd, old |-> old]

Put(k, e) == [x \in DOMAIN table \union {k} |-> IF x = k THEN e ELSE table[x]]

Running == main # "exit" /\ ~ub

\* A thread that reads conf, or a cell, after it was freed: anything may happen.
Crash == /\ ub' = TRUE
         /\ UNCHANGED <<input, main, line, conf>>
         /\ UNCHANGED scVars
Frame == UNCHANGED confVars

-----------------------------------------------------------------------------
(* thread_cachedir.                                                         *)

\* The delays are looked at once.  err is not initialised before it is tested:
\* whatever it holds may be taken for an error and dereferenced.
ScStart ==
    /\ Running /\ sc.pc = "start" /\ ConfLive
    /\ \/ /\ conf.int["sc_loop_delay"] = 0 \/ conf.int["sc_age_threshold"] = 0
          /\ sc' = [sc EXCEPT !.pc = "gone"]
          /\ Frame
          /\ UNCHANGED <<table, files, cwd, slot, next, pool, work>>
       \/ /\ conf.int["sc_loop_delay"] # 0 /\ conf.int["sc_age_threshold"] # 0
          /\ \/ sc' = [sc EXCEPT !.pc = "preload"] /\ Frame
                /\ UNCHANGED <<table, files, cwd, slot, next, pool, work>>
             \/ Crash

\* root_dir_preload: a cell for the root, and dfs_chdir to it.
ScPreload ==
    /\ Running /\ sc.pc = "preload"
    /\ table' = IF Root \in DOMAIN table THEN table ELSE Put(Root, NewCell(TRUE))
    /\ \/ sc' = [sc EXCEPT !.pc = "opendir"] /\ cwd' = Root
       \/ input.faults /\ sc' = [sc EXCEPT !.pc = "wait"] /\ UNCHANGED cwd
    /\ Frame
    /\ UNCHANGED <<files, slot, next, pool, work>>

\* dfs_opendir(".") lists whatever the current directory is by now.
ScOpendir ==
    /\ Running /\ sc.pc = "opendir"
    /\ \/ sc' = [sc EXCEPT !.pc = "list", !.todo = IF cwd = Root THEN Here ELSE There]
       \/ input.faults /\ sc' = [sc EXCEPT !.pc = "wait"]
    /\ Frame
    /\ UNCHANGED <<table, files, cwd, slot, next, pool, work>>

Text(i)  == [to |-> "string", at |-> i]
Entry(k) == [to |-> "cell", at |-> k]

\* Mutant of ScPush: the names share one string.
ScPushSame(k) ==
    /\ Running /\ sc.pc = "list" /\ k \in sc.todo
    /\ slot' = [slot EXCEPT ![0] = k]
    /\ pool' = Append(pool, Text(0))
    /\ next' = next + 1
    /\ sc' = [sc EXCEPT !.todo = @ \ {k}]
    /\ Frame
    /\ UNCHANGED <<table, files, cwd, work>>

\* A name is printed into the next temporary string, which is pushed.
ScPush(k) ==
    /\ Running /\ sc.pc = "list" /\ k \in sc.todo
    /\ LET i == next % TmpstrNb IN
       /\ slot' = [slot EXCEPT ![i] = k]
       /\ pool' = Append(pool, Text(i))
    /\ next' = next + 1
    /\ sc' = [sc EXCEPT !.todo = @ \ {k}]
    /\ Frame
    /\ UNCHANGED <<table, files, cwd, work>>

\* The root's cell is touched; closedir.
ScListed ==
    /\ Running /\ sc.pc = "list" /\ sc.todo = {}
    /\ IF Root \in DOMAIN table
       THEN /\ table' = [table EXCEPT ![Root].old = FALSE]
            /\ sc' = [sc EXCEPT !.pc = "wait"]
            /\ Frame
            /\ UNCHANGED <<files, cwd, slot, next, pool, work>>
       ELSE Crash

\* It waits until the pool has a thread, which it may never have.
ScWait ==
    /\ Running /\ sc.pc = "wait"
    /\ \E w \in Workers : work[w].pc # "none"
    /\ sc' = [sc EXCEPT !.pc = "sleep"]
    /\ Frame
    /\ UNCHANGED <<table, files, cwd, slot, next, pool, work>>

\* sleep(conf->sc_loop_delay), then g_hash_table_foreach.
ScSleep ==
    /\ Running /\ sc.pc = "sleep" /\ ConfLive
    /\ sc.passes < MaxPasses
    /\ sc' = [pc |-> "pass", todo |-> DOMAIN table, passes |-> sc.passes + 1]
    /\ Frame
    /\ UNCHANGED <<table, files, cwd, slot, next, pool, work>>

\* The size of the table, in units of an entry and its path.
TooBig == Cardinality(DOMAIN table) > conf.int["cache_max_size"]

\* cachedir_callback: an entry that is old is pushed, as it is.
ScCallback(k) ==
    /\ Running /\ sc.pc = "pass" /\ k \in sc.todo /\ ConfLive
    /\ \/ /\ k \in DOMAIN table /\ ~TooBig /\ table[k].old
          /\ pool' = Append(pool, Entry(k))
       \/ /\ k \in DOMAIN table /\ ~TooBig => ~table[k].old
          /\ UNCHANGED pool
    /\ sc' = [sc EXCEPT !.todo = @ \ {k}]
    /\ Frame
    /\ UNCHANGED <<table, files, cwd, slot, next, work>>

ScPassed ==
    /\ Running /\ sc.pc = "pass" /\ sc.todo = {}
    /\ sc' = [sc EXCEPT !.pc = "sleep"]
    /\ Frame
    /\ UNCHANGED <<table, files, cwd, slot, next, pool, work>>

\* The thread is not joined: it may read conf when there is none any more.
ScCrash ==
    /\ Running /\ ~ConfLive
    /\ sc.pc \in {"start", "sleep"} \/ (sc.pc = "pass" /\ sc.todo # {})
    /\ Crash

-----------------------------------------------------------------------------
(* The threads of the pool: cb_get_md, dfs_getattr, getattr_unset.          *)

\* What a pointer reads like as a string, now.
Reads(p) == IF p.to = "string" THEN {slot[p.at]} ELSE {FdBytes, Append(p.at, "&")}

Free(w) == work[w].pc \in {"none", "idle"}
Rest(w) == work' = [work EXCEPT ![w] = [pc |-> "idle", ptr |-> Text(0), key |-> NoMd, md |-> NoMd]]

\* The path is looked up, and a cell inserted for it if there is none.
TakeJob(w) ==
    /\ Running /\ Free(w) /\ pool # <<>>
    /\ pool' = Tail(pool)
    /\ \E k \in Reads(Head(pool)) :
          \/ /\ k \in DOMAIN table /\ table[k].ondisk # "unset"
             /\ table' = [table EXCEPT ![k].old = FALSE]
             /\ Rest(w)
          \/ /\ \/ k \in DOMAIN table /\ table[k].ondisk = "unset" /\ UNCHANGED table
                \/ k \notin DOMAIN table /\ \E old \in BOOLEAN : table' = Put(k, NewCell(old))
             /\ work' = [work EXCEPT ![w] = [pc |-> "attr", ptr |-> Head(pool), key |-> k, md |-> NoMd]]
    /\ Frame
    /\ UNCHANGED <<files, cwd, slot, next, sc>>

\* dfs_namei and the headers, of the path as it reads by now.
Attr(w) ==
    /\ Running /\ work[w].pc = "attr"
    /\ \E k \in Reads(work[w].ptr) :
          \/ /\ k \in Here
             /\ work' = [work EXCEPT ![w].pc = "fill", ![w].md = k]
             /\ Frame
             /\ UNCHANGED <<table, files, cwd, slot, next, pool, sc>>
          \/ /\ k \notin Here \/ input.faults
             /\ IF work[w].key \in DOMAIN table
                THEN /\ table' = [table EXCEPT ![work[w].key].old = FALSE]
                     /\ Rest(w)
                     /\ Frame
                     /\ UNCHANGED <<files, cwd, slot, next, pool, sc>>
                ELSE Crash

\* usermd is set and the cell is FILE_REMOTE, whatever it was.
Fill(w) ==
    /\ Running /\ work[w].pc = "fill"
    /\ LET k == work[w].key IN
       IF k \in DOMAIN table
       THEN /\ table' = [table EXCEPT ![k] = [ondisk |-> "remote", md |-> work[w].md, old |-> FALSE]]
            /\ astray' = IF table[k].ondisk = "local" THEN astray \union {k} ELSE astray
            /\ Rest(w)
            /\ Frame
            /\ UNCHANGED <<cached, cwd, slot, next, pool, sc>>
       ELSE Crash

\* A thread that has nothing to do leaves the pool after a while.
Leave(w) ==
    /\ Running /\ work[w].pc = "idle" /\ pool = <<>>
    /\ work' = [work EXCEPT ![w].pc = "none"]
    /\ Frame
    /\ UNCHANGED <<table, files, cwd, slot, next, pool, sc>>

Work(w) == TakeJob(w) \/ Attr(w) \/ Fill(w)

\* Time passes for an entry (while it makes a difference).
Ages(k) ==
    /\ Running /\ sc.pc = "sleep" /\ ~TooBig /\ k \in DOMAIN table /\ ~table[k].old
    /\ table' = [table EXCEPT ![k].old = TRUE]
    /\ Frame
    /\ UNCHANGED <<files, cwd, slot, next, pool, work, sc>>

ScInit == /\ table = [k \in {} |-> NewCell(FALSE)]
          /\ cached = {}
          /\ astray = {}
          /\ cwd = Root
          /\ slot = [i \in 0..TmpstrNb - 1 |-> NoMd]
          /\ next = 0
          /\ pool = <<>>
          /\ work = [w \in Workers |-> [pc |-> "none", ptr |-> Text(0), key |-> NoMd, md |-> NoMd]]
          /\ sc = [pc |-> "off", todo |-> {}, passes |-> 0]

ScThread == \/ ScStart \/ ScPreload \/ ScOpendir \/ ScListed \/ ScWait \/ ScSleep \/ ScPassed \/ ScCrash
            \/ \E k \in sc.todo : ScPush(k) \/ ScCallback(k)
ScNext == ScThread \/ (\E w \in Workers : Work(w) \/ Leave(w)) \/ \E k \in DOMAIN table : Ages(k)

-----------------------------------------------------------------------------
(* Properties.                                                              *)

\* The metadata in a cell is that of the cell's own path, whoever asked for it:
\* the name that a thread of the pool reads (cb_get_md) is still the one that
\* root_dir_preload pushed.
CellsHoldTheirOwn == \A k \in DOMAIN table : table[k].md \in {NoMd, k}
=============================================================================
