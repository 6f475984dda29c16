------------------------------- MODULE Mount --------------------------------
(***************************************************************************)
(* The life of the daemon (dropletfs.c): main builds the context and the   *)
(* configuration and calls libfuse, which calls dfs_init, serves requests, *)
(* and calls dfs_destroy when the file system is unmounted.  dfs_init      *)
(* starts the collector and the smart cache, and nobody ever stops them.   *)
(* The requests are those of PathEntry and FileData, here in one step.     *)
(***************************************************************************)
EXTENDS SmartCache

CONSTANTS Entries \* the names a directory can have

ASSUME EntriesAssumption == \A i \in Inputs : i.entries \union i.below \subseteq Entries

VARIABLES ctx,       \* the libdroplet context
          lib,       \* the library between dpl_init and dpl_free
          ctx_freed, \* dpl_free was called
          gc         \* the collector thread

mainVars == <<ctx, lib, ctx_freed, gc>>
vars == <<confVars, scVars, mainVars>>

-----------------------------------------------------------------------------
(* main, until libfuse takes over.                                          *)

Goto(l) == main' = l /\ UNCHANGED <<input, line>>
KeepSc == UNCHANGED scVars

\* dpl_init and dpl_ctx_new.
Start ==
    /\ main = "start"
    /\ \/ lib' = "up" /\ ctx' = "live" /\ Goto("conf")
       \/ input.faults /\ lib' = "up" /\ Goto("err2") /\ UNCHANGED ctx
       \/ input.faults /\ Goto("exit") /\ UNCHANGED <<ctx, lib>>
    /\ UNCHANGED <<conf, ub, ctx_freed, gc>> /\ KeepSc

Configure == /\ ~ub
             /\ ConfDefault \/ ConfHome \/ ParseLine \/ EnvOverride \/ ConfLog
             /\ UNCHANGED mainVars /\ KeepSc

\* fuse_main cannot mount; or it can, and dfs_init starts two threads.
FuseMain ==
    /\ ~ub /\ main = "fuse"
    /\ \/ /\ input.faults /\ Goto("after")
          /\ UNCHANGED <<gc, sc>>
       \/ /\ Goto("mounted")
          /\ gc' = "start"
          /\ sc' = [sc EXCEPT !.pc = "start"]
    /\ UNCHANGED <<conf, ub, ctx, lib, ctx_freed, table, files, cwd, slot, next, pool, work>>

-----------------------------------------------------------------------------
(* Requests while mounted.                                                  *)

Mounted == ~ub /\ main = "mounted"

\* dfs_getattr of a client.
Lookup(k) ==
    /\ Mounted /\ input.used /\ k \in Here
    /\ k \in DOMAIN table => table[k].ondisk = "unset"
    /\ table' = Put(k, [ondisk |-> "remote", md |-> k, old |-> FALSE])
    /\ UNCHANGED confVars
    /\ UNCHANGED <<files, cwd, slot, next, pool, work, sc, mainVars>>

Elsewhere == <<"elsewhere">>

\* dfs_readdir goes to the directory that it then lists.
Readdir(d) ==
    /\ Mounted /\ input.used /\ input.lists
    /\ cwd' = d
    /\ UNCHANGED confVars
    /\ UNCHANGED <<table, files, slot, next, pool, work, sc, mainVars>>

\* dfs_open makes a cache file, and the cell local; unless the download fails
\* after the file was made, or a getattr_unset that began before it makes the
\* cell remote again.
Open(k) ==
    /\ Mounted /\ input.used /\ k \in Here /\ k \in DOMAIN table
    /\ cached' = cached \union {k}
    /\ \/ /\ table' = [table EXCEPT ![k].ondisk = "local"]
          /\ astray' = astray \ {k}
       \/ /\ table[k].ondisk # "local"
          /\ astray' = astray \union {k}
          /\ UNCHANGED table
    /\ UNCHANGED confVars
    /\ UNCHANGED <<cwd, slot, next, pool, work, sc, mainVars>>

-----------------------------------------------------------------------------
(* thread_gc.                                                               *)

GcStart ==
    /\ Running /\ gc = "start" /\ ConfLive
    /\ gc' = IF conf.int["gc_loop_delay"] # 0 /\ conf.int["gc_age_threshold"] # 0
             THEN "sleep" ELSE "gone"
    /\ UNCHANGED confVars /\ KeepSc
    /\ UNCHANGED <<ctx, lib, ctx_freed>>

\* A pass of gc_callback, over cells with a cache file that is old.
GcPass ==
    /\ Running /\ gc = "sleep" /\ ConfLive
    /\ \E old \in SUBSET {k \in cached \intersect DOMAIN table : table[k].ondisk = "local"} :
          /\ old # {}
          /\ table' = [k \in DOMAIN table \ old |-> table[k]]
          /\ cached' = cached \ old
    /\ UNCHANGED confVars
    /\ UNCHANGED <<astray, cwd, slot, next, pool, work, sc, mainVars>>

\* The loop reads conf->gc_loop_delay each time, also when conf is NULL.
GcCrash ==
    /\ Running /\ gc \in {"start", "sleep"} /\ ~ConfLive
    /\ Crash
    /\ UNCHANGED mainVars

-----------------------------------------------------------------------------
(* dfs_destroy and the end of main.                                         *)

\* Mutant of Unmount: the configuration is freed first.
UnmountConfFirst ==
    /\ Mounted /\ Goto("unlink")
    /\ ConfFree
    /\ UNCHANGED mainVars /\ KeepSc

Unmount ==
    /\ Mounted /\ Goto("unlink")
    /\ UNCHANGED <<conf, ub, mainVars>> /\ KeepSc

\* cb_hash_unlink, with the cache directory of conf.
DestroyCache ==
    /\ ~ub /\ main = "unlink"
    /\ ub' = ~ConfLive
    /\ cached' = cached \ {k \in DOMAIN table : table[k].ondisk = "local"}
    /\ Goto("clear")
    /\ UNCHANGED <<conf, table, astray, cwd, slot, next, pool, work, sc, mainVars>>

Clear == table' = [k \in {} |-> NewCell(FALSE)]

\* Mutant of DestroyTable: the cells are freed before the cache is removed.
DestroyTableFirst ==
    /\ ~ub /\ main = "unlink"
    /\ Clear
    /\ Goto("conf_free")
    /\ UNCHANGED <<conf, ub, files, cwd, slot, next, pool, work, sc, mainVars>>

\* g_hash_table_remove_all frees the cells.
DestroyTable ==
    /\ ~ub /\ main = "clear"
    /\ Clear
    /\ Goto("conf_free")
    /\ UNCHANGED <<conf, ub, files, cwd, slot, next, pool, work, sc, mainVars>>

DestroyConf ==
    /\ ~ub /\ main = "conf_free"
    /\ ConfFree
    /\ Goto("ctx_free")
    /\ UNCHANGED mainVars /\ KeepSc

\* dpl_ctx_free, and the global pointer reset.
DestroyCtx ==
    /\ ~ub /\ main = "ctx_free"
    /\ ctx' = "null"
    /\ Goto("log")
    /\ UNCHANGED <<conf, ub, lib, ctx_freed, gc>> /\ KeepSc

\* dpl_free, which must not be called twice, unless it was called.
DplFree == IF ctx_freed THEN UNCHANGED <<lib, ctx_freed>>
           ELSE lib' = "freed" /\ ctx_freed' = TRUE

\* A last LOG, which reads conf although it is NULL by now, and dpl_free.
DestroyLib ==
    /\ ~ub /\ main = "log"
    /\ ub' = ~ConfLive
    /\ DplFree
    /\ Goto("after")
    /\ UNCHANGED <<conf, ctx, gc>> /\ KeepSc

\* fuse_main has returned: dpl_ctx_free, also of NULL, and the table.
After ==
    /\ ~ub /\ main = "after"
    /\ ub' = (ctx # "live")
    /\ ctx' = "null"
    /\ Clear
    /\ Goto("err3")
    /\ UNCHANGED <<conf, files, cwd, slot, next, pool, work, sc, lib, ctx_freed, gc>>

\* err3: conf_free unless conf is NULL.
Err3 ==
    /\ ~ub /\ main = "err3"
    /\ IF conf.ptr = "null" THEN UNCHANGED <<conf, ub>> ELSE ConfFree
    /\ Goto("err2")
    /\ UNCHANGED mainVars /\ KeepSc

\* err2: dpl_free unless ctx_freed; the process ends.
Err2 ==
    /\ ~ub /\ main = "err2"
    /\ DplFree
    /\ Goto("exit")
    /\ UNCHANGED <<conf, ub, ctx, gc>> /\ KeepSc

-----------------------------------------------------------------------------
Init == /\ input \in Inputs
        /\ main = "start" /\ line = 1 /\ conf = NoConf /\ ub = FALSE
        /\ ScInit
        /\ ctx = "null" /\ lib = "none" /\ ctx_freed = FALSE /\ gc = "off"

Daemon == \/ Start \/ Configure \/ FuseMain \/ Unmount \/ DestroyCache \/ DestroyTable
          \/ DestroyConf \/ DestroyCtx \/ DestroyLib \/ After \/ Err3 \/ Err2

Next == \/ Daemon
        \/ \E k \in Here : Lookup(k) \/ Open(k)
        \/ \E d \in {Root, Elsewhere} : Readdir(d)
        \/ GcStart \/ GcPass \/ GcCrash
        \/ ScNext /\ UNCHANGED mainVars

Spec == Init /\ [][Next]_vars

\* The threads of the smart cache and of its pool run.
FairSpec == /\ Spec
            /\ WF_vars(ScThread /\ UNCHANGED mainVars)
            /\ \A w \in Workers : WF_vars(Work(w) /\ UNCHANGED mainVars)

-----------------------------------------------------------------------------
(* Properties.                                                              *)

\* The type of every variable.
TypeOK ==
    /\ input \in Inputs
    /\ main \in {"start", "conf", "home", "parse", "env", "conf_log", "fuse", "mounted",
                "unlink", "clear", "conf_free", "ctx_free", "log", "after", "err3", "err2", "exit"}
    /\ line \in 1..Len(input.file) + 1
    /\ conf.ptr \in {"null", "live"}
    /\ conf.int \in [Ints -> Nat] /\ conf.str \in [Strs -> STRING]
    /\ conf.level \in Levels /\ conf.dir \in Seq(STRING)
    /\ conf.re \in [set : BOOLEAN, str : {"null", "live", "freed"}]
    /\ \A k \in DOMAIN table : table[k].ondisk \in {"unset", "remote", "local"}
    /\ cached \subseteq Here /\ cwd \in {Root, Elsewhere}
    /\ \A i \in 0..TmpstrNb - 1 : slot[i] \in Here \union There \union {NoMd}
    /\ next \in Nat
    /\ \A j \in 1..Len(pool) : pool[j].to \in {"string", "cell"}
    /\ \A w \in Workers : work[w].pc \in {"none", "idle", "attr", "fill"}
    /\ sc.pc \in {"off", "start", "preload", "opendir", "list", "wait", "sleep", "pass", "gone"}
    /\ ctx \in {"null", "live"} /\ lib \in {"none", "up", "freed"}
    /\ gc \in {"off", "start", "sleep", "gone"}
    /\ ub \in BOOLEAN /\ ctx_freed \in BOOLEAN

\* Once conf_ctor is done, every number and method is what the environment says,
\* else what the last line of the file says that comes before a bad one, else
\* the default; and the cache directory is one of the bucket, if HOME is set: as
\* the file is written, but for what a last line without a newline would say.
\* (conf.c, env.c.)
OptionsAsWritten ==
    main = "fuse" =>
        /\ \A k \in Ints : Whole(k) => conf.int[k] = WantedInt(k)
        /\ \A k \in Strs : Whole(k) => conf.str[k] = WantedStr(k)
        /\ input.home => /\ Whole("cache_dir") => conf.dir[1] = WantedDir
                         /\ conf.dir[2] = Bucket

\* A thread that dfs_init started and that has not returned: the collector, when
\* it is on, or one that has not looked at its delays yet.
ThreadLeft == gc \in {"start", "sleep"} \/ sc.pc = "start"

\* Freed or NULL memory is used by the smart cache; by the last line of
\* dfs_destroy, with conf reset; by a thread that outlives conf; by a conf_free
\* that frees the pattern twice; by conf_log for a freed pattern; by a line that
\* says log_level and no more; and nowhere else from main to its end, whatever
\* fails and whatever the file and the environment say.
OnlyKnownCrashes ==
    ub => \/ ScOn
          \/ main = "after" /\ ~ConfLive
          \/ main \in {"ctx_free", "log"} /\ ThreadLeft
          \/ main \in {"ctx_free", "err2"} /\ (input.pattern = "good" \/ PatternFreed)
          \/ main = "fuse" /\ PatternFreed
          \/ main \in {"parse", "env"} /\ \E i \in 1..line - 1 : EmptyLevel(ReadLine(i))

\* dfs_destroy gives everything back up to its last LOG, and the end of main does
\* after a mount that failed; the cache files that stay are those whose cell did
\* not say that there is one.
NothingLeft ==
    /\ main \in {"log", "after", "err3", "err2", "exit"} => cached \subseteq astray
    /\ main = "log" => ~ConfLive /\ ctx = "null" /\ (DOMAIN table = {} \/ ScOn)
    /\ main = "exit" /\ ~ub => ~ConfLive /\ ctx = "null" /\ lib # "up"

\* root_dir_preload: all entries of the root directory get their metadata, while
\* the file system stays mounted, no request fails, nothing is collected and no
\* client lists a directory (the current directory is everybody's).
RootPreloaded ==
    sc.pc = "preload" /\ ~input.faults /\ ~input.lists /\ conf.int["gc_loop_delay"] = 0
        ~> \/ \A k \in Here : k \in DOMAIN table /\ table[k].md # NoMd
           \/ main # "mounted" \/ ub
=============================================================================
