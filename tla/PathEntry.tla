----------------------------- MODULE PathEntry ------------------------------
(***************************************************************************)
(* The life of a path entry (tpath_entry, hash.h): the cells that the      *)
(* global hash table maps paths to, the handles fuse_file_info.fh that     *)
(* point at them, and the garbage collector that frees them.               *)
(*                                                                         *)
(* Every FUSE request runs in a thread of its own on behalf of a client;   *)
(* the collector is one more thread.  The smart cache, whose threads also  *)
(* insert and fill cells, is off here: it is in SmartCache.  The hash      *)
(* table has no lock: a step here is one access to the table, one remote   *)
(* call or one use of a cell.                                              *)
(* Malloc never returns the address of a freed cell here, so a use of a    *)
(* freed cell is always seen: it sets ub and the model stops there.        *)
(***************************************************************************)
EXTENDS Naturals, FiniteSets

CONSTANTS Paths,       \* files of one directory
          Clients,     \* processes using the mount, one request at a time each
          Cells,       \* the path entries that can be allocated (a bound)
          NoCell,      \* the NULL pointer
          NoPath,      \* no path
          NoClient,    \* nobody
          Intents,     \* what clients do: see AllIntents
          Excluded,    \* paths that match conf->regex
          FirstRemote, \* the sets of objects the bucket may hold at mount time
          MaxCounted,  \* no request starts while a refcount is above this (a bound)
          Faults,      \* remote calls can fail, all retries included
          Collects     \* gc_loop_delay and gc_age_threshold are not zero

\* open(O_RDONLY), open(O_WRONLY|O_CREAT), open(O_WRONLY|O_APPEND|O_CREAT),
\* stat and unlink.
AllIntents == {"read", "write", "append", "stat", "unlink"}

ASSUME CellsAssumption   == NoCell \notin Cells /\ NoPath \notin Paths
ASSUME ClientsAssumption == NoClient \notin Clients /\ IsFiniteSet(Clients)
ASSUME ModesAssumption   == /\ Intents \subseteq AllIntents
                            /\ Excluded \subseteq Paths
                            /\ FirstRemote \subseteq SUBSET Paths
                            /\ MaxCounted \in Nat
                            /\ Faults \in BOOLEAN
                            /\ Collects \in BOOLEAN

VARIABLES table,   \* the hash table: path -> cell
          pe,      \* the cells
          remote,  \* the objects in the bucket
          known,   \* paths with a valid dentry in the kernel
          dir,     \* the client whose request holds the directory's i_mutex
          th,      \* the request of each client: where it is, its path and
                   \* intent, and its local pe or the fh of its open file
          gc,      \* the collector: pc, paths still to visit, path and cell
          ub       \* a freed cell was used

vars == <<table, pe, remote, known, dir, th, gc, ub>>

-----------------------------------------------------------------------------
(* Cells.  The fields of tpath_entry that decide something: fd and how the  *)
(* file behind it is open, ondisk, the semaphore refcount, the mutex, and   *)
(* whether usermd is NULL.  age is that of the oldest timestamp of the      *)
(* cache file: 1 past the threshold, 2 past ten times the threshold.        *)

Entry == [mem      : {"unused", "live", "freed"},
          fd       : {"none", "r", "rw"},
          ondisk   : {"unset", "remote", "local"},
          refcount : Nat,
          locked   : BOOLEAN,
          usermd   : BOOLEAN,
          exclude  : BOOLEAN,
          age      : 0..2]

Unused == [mem |-> "unused", fd |-> "none", ondisk |-> "unset", refcount |-> 0,
           locked |-> FALSE, usermd |-> FALSE, exclude |-> FALSE, age |-> 0]

\* pentry_new: a cell as malloc and the assignments leave it.
NewEntry == [Unused EXCEPT !.mem = "live"]

\* pentry_free: nothing of the cell is kept.
FreedEntry == [Unused EXCEPT !.mem = "freed"]

IsLive(k) == k \in Cells /\ pe[k].mem = "live"

\* Mutant of Insert: a table that does not free the value it replaces.
InsertLeaks(k, p) ==
    /\ pe[k].mem = "unused"
    /\ table' = [table EXCEPT ![p] = k]
    /\ pe' = [pe EXCEPT ![k] = NewEntry]

\* pentry_new and g_hash_table_insert of the cell under p.  The table owns
\* its values: the one it had for p is freed.
Insert(k, p) ==
    /\ pe[k].mem = "unused"
    /\ table' = [table EXCEPT ![p] = k]
    /\ pe' = [j \in Cells |-> IF j = k THEN NewEntry
                              ELSE IF j = table[p] THEN FreedEntry ELSE pe[j]]

\* Mutant of Remove: a table that does not free the value it removes.
RemoveSteals(p) == table' = [table EXCEPT ![p] = NoCell] /\ UNCHANGED pe

\* g_hash_table_remove(hash, p): frees the cell of p, if there is one.
Remove(p) ==
    /\ table' = [table EXCEPT ![p] = NoCell]
    /\ pe' = [j \in Cells |-> IF j = table[p] THEN FreedEntry ELSE pe[j]]

-----------------------------------------------------------------------------
(* Clients.  The kernel holds the i_mutex of the directory during LOOKUP,   *)
(* CREATE and UNLINK, not during OPEN, GETATTR and RELEASE.  So a dfs_open  *)
(* made by dfs_create is one whose client owns dir.                         *)

\* Requests that are about to use the cell they hold.
UsesCell == {"getattr_disp", "getattr_ask", "getattr_fill", "getattr_absent", "open_inc", "open_creat",
             "open_existing", "open_get", "create_md", "held", "release",
             "upload", "released"}

\* Requests counted by the refcount of their cell.
Counted == {"open_creat", "open_existing", "open_get", "create_md",
            "create_mknod", "held", "release"}

\* Requests of a file that is open: fuse_file_info.fh is in use.
OpenFile == {"held", "release", "upload", "released"}

Locations == UsesCell \union
             {"idle", "getattr", "getattr_new", "create", "open", "open_new",
              "create_mknod", "unlink", "unlink_table"}

Idle == [pc |-> "idle", path |-> NoPath, intent |-> "none", cell |-> NoCell]

Path(c)   == th[c].path
Intent(c) == th[c].intent
Cell(c)   == th[c].cell
My(c)     == pe[Cell(c)]
InCreate(c) == dir = c

\* c is at location l, and uses its cell there, which was not freed.
At(c, l)   == ~ub /\ th[c].pc = l
Uses(c, l) == At(c, l) /\ IsLive(Cell(c))

Go(c, l)        == th' = [th EXCEPT ![c].pc = l]
GoWith(c, l, k) == th' = [th EXCEPT ![c].pc = l, ![c].cell = k]

\* The fields of the cell of c change.
SetCell(c, e) == pe' = [pe EXCEPT ![Cell(c)] = e]

\* The request ends and its client is free; so is the directory.
Return(c) == /\ th' = [th EXCEPT ![c] = Idle]
             /\ dir' = IF dir = c THEN NoClient ELSE dir

\* A client asks for something.  A path without a valid dentry is looked up
\* first; LOOKUP and UNLINK wait for the directory.  Failed opens never give
\* their count back, so MaxCounted bounds the requests that are made.
Begin(c) ==
    /\ At(c, "idle")
    /\ \A k \in Cells : pe[k].refcount <= MaxCounted
    /\ \E p \in Paths, i \in Intents :
          /\ IF p \notin known \/ i = "unlink"
             THEN dir = NoClient /\ dir' = c
             ELSE UNCHANGED dir
          /\ th' = [th EXCEPT ![c] =
                       [pc     |-> CASE p \notin known \/ i = "stat" -> "getattr"
                                     [] p \in known /\ i = "unlink" -> "unlink"
                                     [] OTHER -> "open",
                        path   |-> p,
                        intent |-> i,
                        cell   |-> NoCell]]
    /\ UNCHANGED <<table, pe, remote, known, gc, ub>>

\* The entry timeout of a dentry expires.
Expire(p) == /\ ~ub /\ p \in known
             /\ known' = known \ {p}
             /\ UNCHANGED <<table, pe, remote, dir, th, gc, ub>>

-----------------------------------------------------------------------------
(* dfs_getattr, called by LOOKUP (which owns dir) and by GETATTR.           *)

\* g_hash_table_lookup
GetattrLookup(c) ==
    /\ At(c, "getattr")
    /\ LET k == table[Path(c)] IN
       GoWith(c, IF k = NoCell THEN "getattr_new" ELSE "getattr_disp", k)
    /\ UNCHANGED <<table, pe, remote, known, dir, gc, ub>>

\* pentry_new, pentry_set_path, g_hash_table_insert
GetattrNew(c) ==
    /\ At(c, "getattr_new")
    /\ \E k \in Cells : Insert(k, Path(c)) /\ GoWith(c, "getattr_disp", k)
    /\ UNCHANGED <<remote, known, dir, gc, ub>>

\* The file exists: the kernel gets a dentry and goes on with the request.
Found(c) ==
    /\ known' = known \union {Path(c)}
    /\ CASE Intent(c) = "stat"   -> Return(c)
         [] Intent(c) = "unlink" -> GoWith(c, "unlink", NoCell) /\ UNCHANGED dir
         [] OTHER                -> GoWith(c, "open", NoCell) /\ dir' = NoClient

\* The file does not exist: an open with O_CREAT becomes a CREATE, with the
\* directory still locked; anything else fails with ENOENT.
NotFound(c) ==
    /\ UNCHANGED known
    /\ IF InCreate(c) /\ Intent(c) \in {"write", "append"}
       THEN GoWith(c, "create", NoCell) /\ UNCHANGED dir
       ELSE Return(c)

\* cb[pe->ondisk]: getattr_local answers from the fd, getattr_remote from
\* usermd, getattr_unset asks the storage.  (getattr_remote without usermd
\* would never give md_mutex back; only an allocation that fails leads there.)
GetattrDispatch(c) ==
    /\ Uses(c, "getattr_disp")
    /\ LET e == My(c) IN
         \/ e.ondisk = "local"  /\ e.fd # "none" /\ Found(c)
         \/ e.ondisk = "local"  /\ e.fd = "none" /\ Return(c) /\ UNCHANGED known
         \/ e.ondisk = "remote" /\ e.usermd /\ Found(c)
         \/ e.ondisk = "unset"  /\ Go(c, "getattr_ask") /\ UNCHANGED <<known, dir>>
    /\ UNCHANGED <<table, pe, remote, gc, ub>>

\* The remote calls of getattr_unset.  When they fail dfs_getattr writes the
\* time into the cell and returns; that they fail depends on nothing, so the
\* failure is seen with the write.
GetattrAsk(c) ==
    /\ Uses(c, "getattr_ask")
    /\ \/ /\ Go(c, IF Path(c) \in remote THEN "getattr_fill" ELSE "getattr_absent")
          /\ UNCHANGED dir
       \/ Faults /\ Return(c)
    /\ UNCHANGED <<table, pe, remote, known, gc, ub>>

\* The object was found: its metadata is put in the cell.
GetattrFill(c) ==
    /\ Uses(c, "getattr_fill")
    /\ SetCell(c, [My(c) EXCEPT !.usermd = TRUE, !.ondisk = "remote"])
    /\ Found(c)
    /\ UNCHANGED <<table, remote, gc, ub>>

\* It was not: dfs_getattr writes pe->atime and returns ENOENT.
GetattrAbsent(c) ==
    /\ Uses(c, "getattr_absent")
    /\ NotFound(c)
    /\ UNCHANGED <<table, pe, remote, gc, ub>>

-----------------------------------------------------------------------------
(* dfs_open and dfs_create.                                                 *)

\* dfs_create: namei, unless the path is excluded; then dfs_open.
Create(c) ==
    /\ At(c, "create")
    /\ \/ Go(c, "open") /\ UNCHANGED dir
       \/ Faults /\ Path(c) \notin Excluded /\ Return(c)
    /\ UNCHANGED <<table, pe, remote, known, gc, ub>>

\* Mutant of OpenLookup: the table is populated without a lookup.
OpenLookupSkipped(c) ==
    /\ At(c, "open")
    /\ GoWith(c, "open_new", NoCell)
    /\ UNCHANGED <<table, pe, remote, known, dir, gc, ub>>

\* g_hash_table_lookup
OpenLookup(c) ==
    /\ At(c, "open")
    /\ LET k == table[Path(c)] IN
       GoWith(c, IF k = NoCell THEN "open_new" ELSE "open_inc", k)
    /\ UNCHANGED <<table, pe, remote, known, dir, gc, ub>>

\* populate_hash
OpenNew(c) ==
    /\ At(c, "open_new")
    /\ \E k \in Cells : Insert(k, Path(c)) /\ GoWith(c, "open_inc", k)
    /\ UNCHANGED <<remote, known, dir, gc, ub>>

\* Mutants of OpenInc: an open is counted only if it is the first of the file,
\* or is not counted at all.
OpenIncFirst(c) ==
    /\ Uses(c, "open_inc")
    /\ SetCell(c, [My(c) EXCEPT !.refcount = IF My(c).fd = "none" THEN @ + 1 ELSE @])
    /\ Go(c, IF Intent(c) = "write" THEN "open_creat" ELSE "open_existing")
    /\ UNCHANGED <<table, remote, known, dir, gc, ub>>

OpenIncNever(c) ==
    /\ Uses(c, "open_inc")
    /\ Go(c, IF Intent(c) = "write" THEN "open_creat" ELSE "open_existing")
    /\ UNCHANGED <<table, pe, remote, known, dir, gc, ub>>

\* pentry_inc_refcount, then get_mode_from_flags: O_APPEND gives MODE_RDWR,
\* else O_WRONLY gives MODE_CREAT.
OpenInc(c) ==
    /\ Uses(c, "open_inc")
    /\ SetCell(c, [My(c) EXCEPT !.refcount = @ + 1])
    /\ Go(c, IF Intent(c) = "write" THEN "open_creat" ELSE "open_existing")
    /\ UNCHANGED <<table, remote, known, dir, gc, ub>>

\* dfs_open returns 0: OPEN is over, dfs_create goes on.
Opened(c) == /\ Go(c, IF InCreate(c) THEN "create_md" ELSE "held")
             /\ UNCHANGED dir

\* open_creat: the fd is replaced, whatever it was.
OpenCreat(c) ==
    /\ Uses(c, "open_creat")
    /\ \E a \in {0, My(c).age} :
          SetCell(c, [My(c) EXCEPT !.fd = "rw", !.ondisk = "local", !.age = a])
    /\ Opened(c)
    /\ UNCHANGED <<table, remote, known, gc, ub>>

\* open_existing: a file descriptor is used again, else the file is fetched.
OpenExisting(c) ==
    /\ Uses(c, "open_existing")
    /\ IF My(c).fd = "none"
       THEN Go(c, "open_get") /\ UNCHANGED <<pe, dir>>
       ELSE /\ SetCell(c, [My(c) EXCEPT !.ondisk = "local"])
            /\ Opened(c)
    /\ UNCHANGED <<table, remote, known, gc, ub>>

\* dfs_get_local_copy returns -1, before or after it has set usermd; the
\* refcount stays incremented.
GetFails(c) ==
    /\ Path(c) \notin remote \/ Faults
    /\ \E md \in {My(c).usermd, Path(c) \in remote} :
          SetCell(c, [My(c) EXCEPT !.fd = "none", !.usermd = @ \/ md])
    /\ Return(c)

\* compare_digests finds the digest of the object in the cell: only a cell
\* that another request has made local since is compared, with a digest that
\* may never have been written.
GetMatches(c) ==
    /\ Path(c) \in remote
    /\ My(c).ondisk = "local"
    /\ SetCell(c, [My(c) EXCEPT !.usermd = TRUE])
    /\ IF My(c).fd = "none" THEN Return(c) ELSE Opened(c)

\* The object is downloaded to a new cache file, opened as the flags say.
GetDownloads(c) ==
    /\ Path(c) \in remote
    /\ SetCell(c, [My(c) EXCEPT !.fd = IF Intent(c) = "read" THEN "r" ELSE "rw",
                                  !.usermd = TRUE, !.ondisk = "local", !.age = 0])
    /\ Opened(c)

\* dfs_get_local_copy, and the assignment of its result to pe->fd.
OpenGet(c) ==
    /\ Uses(c, "open_get")
    /\ GetFails(c) \/ GetMatches(c) \/ GetDownloads(c)
    /\ UNCHANGED <<table, remote, known, gc, ub>>

\* Mutant of Excludes: dfs_create forgets the flag of the cell.
ExcludesNothing(p) == FALSE

\* re_matcher(&conf->regex, path)
Excludes(p) == p \in Excluded

\* dfs_create after dfs_open: exclude, the check of fd, then usermd.  When the
\* cell has metadata already, pentry_set_usermd frees the dictionary that it
\* then copies and that dfs_create frees again.
CreateMd(c) ==
    /\ Uses(c, "create_md")
    /\ LET ex == Excludes(Path(c)) IN
       \/ /\ My(c).fd = "none"
          /\ SetCell(c, [My(c) EXCEPT !.exclude = ex])
          /\ Return(c)
          /\ UNCHANGED <<known, ub>>
       \/ /\ My(c).fd # "none" /\ My(c).usermd
          /\ ub' = TRUE
          /\ UNCHANGED <<pe, th, dir, known>>
       \/ /\ My(c).fd # "none" /\ ~My(c).usermd
          /\ SetCell(c, [My(c) EXCEPT !.exclude = ex, !.usermd = TRUE])
          /\ UNCHANGED ub
          /\ IF ex
             THEN /\ Go(c, "held")
                  /\ known' = known \union {Path(c)}
                  /\ dir' = NoClient
             ELSE /\ Go(c, "create_mknod")
                  /\ UNCHANGED <<dir, known>>
    /\ UNCHANGED <<table, remote, gc>>

\* dfs_mknod_timeout creates an empty object.  If it fails, with or without
\* effect, dfs_create fails and leaves the cell open and counted.
CreateMknod(c) ==
    /\ At(c, "create_mknod")
    /\ \/ /\ remote' = remote \union {Path(c)}
          /\ known' = known \union {Path(c)}
          /\ Go(c, "held")
          /\ dir' = NoClient
       \/ /\ Faults
          /\ remote' \in {remote, remote \union {Path(c)}}
          /\ Return(c)
          /\ UNCHANGED known
    /\ UNCHANGED <<table, pe, gc, ub>>
-----------------------------------------------------------------------------
(* The open file.                                                           *)

\* dfs_read and dfs_write: pread or pwrite on pe->fd, or EBADF.  A read makes
\* one timestamp young, a write the others, and gc_callback goes by the oldest:
\* the file may stay as old as it was.
ReadWrite(c) ==
    /\ Uses(c, "held")
    /\ My(c).fd # "none"
    /\ \E a \in {0, My(c).age} : SetCell(c, [My(c) EXCEPT !.age = a])
    /\ UNCHANGED <<table, remote, known, dir, th, gc, ub>>

\* The client closes its file.
Close(c) ==
    /\ At(c, "held")
    /\ Go(c, "release")
    /\ UNCHANGED <<table, pe, remote, known, dir, gc, ub>>

\* Mutant of Release: the file descriptor is closed with the first handle.
ReleaseCloses(c) ==
    /\ Uses(c, "release")
    /\ My(c).fd # "none" /\ My(c).refcount > 0
    /\ SetCell(c, [My(c) EXCEPT !.refcount = @ - 1, !.fd = "none"])
    /\ Return(c)
    /\ UNCHANGED <<table, remote, known, gc, ub>>

\* dfs_release: no fd, no decrement.  Otherwise sem_wait, which waits while
\* the refcount is zero; a read-only file is left as it is, an excluded one
\* is not uploaded.
Release(c) ==
    /\ Uses(c, "release")
    /\ \/ /\ My(c).fd = "none"
          /\ Go(c, "released")
          /\ UNCHANGED <<pe, dir>>
       \/ /\ My(c).fd # "none" /\ My(c).refcount > 0
          /\ SetCell(c, [My(c) EXCEPT !.refcount = @ - 1])
          /\ IF Intent(c) = "read"
             THEN Return(c)
             ELSE /\ Go(c, IF My(c).exclude THEN "released" ELSE "upload")
                  /\ UNCHANGED dir
    /\ UNCHANGED <<table, remote, known, gc, ub>>

\* The cache file is read from pe->fd and sent; the upload may fail.
Upload(c) ==
    /\ Uses(c, "upload")
    /\ Go(c, "released")
    /\ \/ remote' = remote \union {Path(c)}
       \/ Faults /\ UNCHANGED remote
    /\ \E a \in {0, My(c).age} : SetCell(c, [My(c) EXCEPT !.age = a])
    /\ UNCHANGED <<table, known, dir, gc, ub>>

\* Mutant of ReleaseEnd: the common exit gives the count back once more.
ReleaseEndTwice(c) ==
    /\ Uses(c, "released")
    /\ SetCell(c, [My(c) EXCEPT !.locked = FALSE, !.refcount = @ - 1])
    /\ Return(c)
    /\ UNCHANGED <<table, remote, known, gc, ub>>

\* err: and exc: lseek(pe->fd), flag, and pentry_unlock of a mutex that
\* dfs_release never took.
ReleaseEnd(c) ==
    /\ Uses(c, "released")
    /\ SetCell(c, [My(c) EXCEPT !.locked = FALSE])
    /\ Return(c)
    /\ UNCHANGED <<table, remote, known, gc, ub>>

-----------------------------------------------------------------------------
(* dfs_unlink.  libfuse renames a file that is open instead of calling it.  *)

\* dfs_unlink_timeout; any status but success ends the request.
UnlinkRemote(c) ==
    /\ At(c, "unlink")
    /\ \A d \in Clients : th[d].pc \in OpenFile => Path(d) # Path(c)
    /\ \/ /\ Path(c) \in remote
          /\ remote' = remote \ {Path(c)}
          /\ Go(c, "unlink_table")
          /\ UNCHANGED dir
       \/ /\ Path(c) \notin remote \/ Faults
          /\ remote' \in IF Faults THEN {remote, remote \ {Path(c)}} ELSE {remote}
          /\ Return(c)
    /\ UNCHANGED <<table, pe, known, gc, ub>>

\* The file is open: the kernel's request is turned into a rename, which is
\* not part of this module.
UnlinkHidden(c) ==
    /\ At(c, "unlink")
    /\ \E d \in Clients : th[d].pc \in OpenFile /\ Path(d) = Path(c)
    /\ Return(c)
    /\ UNCHANGED <<table, pe, remote, known, gc, ub>>

\* The cell is removed from the table and freed; pentry_get_parent then reads
\* its path from freed memory.  pentry_remove_dirent on the cell of the directory
\* changes its dirent list at most, which no property here is about.
UnlinkTable(c) ==
    /\ At(c, "unlink_table")
    /\ Remove(Path(c))
    /\ ub' \in IF table[Path(c)] = NoCell THEN {FALSE} ELSE BOOLEAN
    /\ known' = known \ {Path(c)}
    /\ Return(c)
    /\ UNCHANGED <<remote, gc>>

\* A request reads or writes a cell that was freed.
UseAfterFree(c) ==
    /\ ~ub /\ th[c].pc \in UsesCell
    /\ ~ IsLive(Cell(c))
    /\ ub' = TRUE
    /\ UNCHANGED <<table, pe, remote, known, dir, th, gc>>

-----------------------------------------------------------------------------
(* The collector, thread_gc.                                                *)

GcAt(l) == ~ub /\ gc.pc = l

\* Time passes for a cache file.
Age(k) ==
    /\ ~ub /\ Collects
    /\ IsLive(k) /\ pe[k].fd # "none" /\ pe[k].age < 2
    /\ pe' = [pe EXCEPT ![k] = [pe[k] EXCEPT !.age = @ + 1]]
    /\ UNCHANGED <<table, remote, known, dir, th, gc, ub>>

\* sleep(gc_loop_delay) is over: g_hash_table_foreach starts.
GcStart ==
    /\ Collects
    /\ GcAt("sleep")
    /\ gc' = [gc EXCEPT !.pc = "scan", !.todo = {p \in Paths : table[p] # NoCell}]
    /\ UNCHANGED <<table, pe, remote, known, dir, th, ub>>

\* gc_callback: a cell whose refcount is not zero is left alone.
GcCheck(p) ==
    /\ GcAt("scan") /\ p \in gc.todo
    /\ LET k == table[p] IN
       gc' = IF k # NoCell /\ pe[k].refcount = 0
             THEN [pc |-> "lock", todo |-> gc.todo \ {p}, path |-> p, cell |-> k]
             ELSE [gc EXCEPT !.todo = @ \ {p}]
    /\ UNCHANGED <<table, pe, remote, known, dir, th, ub>>

\* The file of a cell is kept while it is young; exclusion multiplies the
\* threshold by ten.
Collectable(e) == e.fd # "none" /\ e.age >= IF e.exclude THEN 2 ELSE 1

\* Mutant of GcLock: a cell that stays is not unlocked.
GcLockKept ==
    /\ GcAt("lock") /\ IsLive(gc.cell)
    /\ LET e == pe[gc.cell] IN
       /\ pe' = [pe EXCEPT ![gc.cell] = [e EXCEPT !.locked = TRUE]]
       /\ gc' = IF ~e.locked /\ Collectable(e)
                THEN [gc EXCEPT !.pc = "remove"]
                ELSE [gc EXCEPT !.pc = "scan", !.path = NoPath, !.cell = NoCell]
    /\ UNCHANGED <<table, remote, known, dir, th, ub>>

\* pentry_trylock, the checks of fd and of the age, and pentry_unlock of a
\* cell that stays.
GcLock ==
    /\ GcAt("lock") /\ IsLive(gc.cell)
    /\ LET e == pe[gc.cell] IN
       IF ~e.locked /\ Collectable(e)
       THEN /\ pe' = [pe EXCEPT ![gc.cell] = [e EXCEPT !.locked = TRUE]]
            /\ gc' = [gc EXCEPT !.pc = "remove"]
       ELSE /\ gc' = [gc EXCEPT !.pc = "scan", !.path = NoPath, !.cell = NoCell]
            /\ UNCHANGED pe
    /\ UNCHANGED <<table, remote, known, dir, th, ub>>

\* unlink of the cache file, then g_hash_table_remove by path: it frees the
\* cell the table has now.
GcRemove ==
    /\ GcAt("remove") /\ table[gc.path] # NoCell
    /\ Remove(gc.path)
    /\ gc' = [gc EXCEPT !.pc = "scan", !.path = NoPath, !.cell = NoCell]
    /\ UNCHANGED <<remote, known, dir, th, ub>>

\* The cell, or the key of a cell that was replaced or removed, is gone.
GcUseAfterFree ==
    /\ \/ GcAt("lock") /\ ~IsLive(gc.cell)
       \/ GcAt("remove") /\ table[gc.path] # gc.cell
    /\ ub' = TRUE
    /\ UNCHANGED <<table, pe, remote, known, dir, th, gc>>

GcDone ==
    /\ GcAt("scan") /\ gc.todo = {}
    /\ gc' = [gc EXCEPT !.pc = "sleep"]
    /\ UNCHANGED <<table, pe, remote, known, dir, th, ub>>

-----------------------------------------------------------------------------
Init == /\ table = [p \in Paths |-> NoCell]
        /\ pe = [k \in Cells |-> Unused]
        /\ remote \in FirstRemote
        /\ known = {}
        /\ dir = NoClient
        /\ th = [c \in Clients |-> Idle]
        /\ gc = [pc |-> "sleep", todo |-> {}, path |-> NoPath, cell |-> NoCell]
        /\ ub = FALSE

\* One step of the thread that serves the request of c.
Serve(c) == \/ GetattrLookup(c) \/ GetattrNew(c) \/ GetattrDispatch(c)
            \/ GetattrAsk(c) \/ GetattrFill(c) \/ GetattrAbsent(c)
            \/ Create(c) \/ OpenLookup(c) \/ OpenNew(c) \/ OpenInc(c) \/ OpenCreat(c)
            \/ OpenExisting(c) \/ OpenGet(c)
            \/ CreateMd(c) \/ CreateMknod(c)
            \/ Release(c) \/ Upload(c) \/ ReleaseEnd(c)
            \/ UnlinkRemote(c) \/ UnlinkHidden(c) \/ UnlinkTable(c)
            \/ UseAfterFree(c)

Collect == GcStart \/ (\E p \in Paths : GcCheck(p)) \/ GcLock \/ GcRemove
           \/ GcUseAfterFree \/ GcDone

Next == \/ \E c \in Clients : Begin(c) \/ ReadWrite(c) \/ Close(c) \/ Serve(c)
        \/ \E p \in Paths : Expire(p)
        \/ \E k \in Cells : Age(k)
        \/ Collect

Spec == Init /\ [][Next]_vars

\* Every request runs in a thread of its own and every remote call returns
\* (the wrappers of timeout.c give up); the collector thread loops for ever;
\* time passes.  Clients need not close their files.
Fairness == /\ \A c \in Clients : WF_vars(Serve(c))
            /\ WF_vars(Collect)
            /\ \A k \in Cells : WF_vars(Age(k))

FairSpec == Spec /\ Fairness

-----------------------------------------------------------------------------
(* Properties.                                                              *)

Request == [pc : Locations, path : Paths \union {NoPath},
            intent : AllIntents \union {"none"}, cell : Cells \union {NoCell}]

Collector == [pc : {"sleep", "scan", "lock", "remove"}, todo : SUBSET Paths,
              path : Paths \union {NoPath}, cell : Cells \union {NoCell}]

\* A request has a path; a client without one holds no cell.
RequestsOK == /\ th \in [Clients -> Request]
              /\ \A c \in Clients : IF th[c].pc = "idle" THEN th[c].cell = NoCell
                                                         ELSE th[c].path \in Paths

CollectorOK == /\ gc \in Collector
               /\ gc.pc \in {"lock", "remove"} => gc.path \in Paths

\* The type of every variable.
TypeOK == /\ table \in [Paths -> Cells \union {NoCell}]
          /\ pe \in [Cells -> Entry]
          /\ remote \subseteq Paths
          /\ known \subseteq Paths
          /\ dir \in Clients \union {NoClient}
          /\ RequestsOK
          /\ CollectorOK
          /\ ub \in BOOLEAN

\* The hash table never maps a path to a freed cell, never shares a cell
\* between two paths, and loses no cell: dfs_getattr, dfs_open, dfs_unlink and
\* gc_callback insert and remove without a lock, but a cell lives exactly as
\* long as it is in the table.
TableOwnsCells ==
    /\ \A p \in Paths : table[p] # NoCell => IsLive(table[p])
    /\ \A p, q \in Paths : table[p] = table[q] /\ table[p] # NoCell => p = q
    /\ \A k \in Cells : IsLive(k) => \E p \in Paths : table[p] = k

\* A handle whose cell was not freed still points at the cell of its path: two
\* open files of one path that are both alive share cell, fd and refcount
\* (dfs_open), and what dfs_release uploads is what was written to that path.
HandleOnItsPath ==
    \A c \in Clients : IsLive(Cell(c)) => table[Path(c)] = Cell(c)

Holders(k) == {c \in Clients : Cell(c) = k /\ th[c].pc \in Counted}

\* The refcount of a cell is never below the number of its handles, so the
\* collector skips every open cell it looks at (gc.c, "open (either r or rw)")
\* and the sem_wait of pentry_dec_refcount never waits in dfs_release.
RefcountCoversHandles ==
    \A k \in Cells : IsLive(k) => pe[k].refcount >= Cardinality(Holders(k))

\* While nothing is collected or unlinked and the storage answers, an open
\* file can be used until it is closed: its cell is alive, local, has an open
\* file descriptor, and the table maps the path to it (dfs_open, dfs_release).
HandleUsable ==
    \A c \in Clients : th[c].pc \in OpenFile =>
        /\ IsLive(Cell(c))
        /\ My(c).fd # "none"
        /\ My(c).ondisk = "local"

\* No request, and not the collector, uses a path entry that was freed.
NoUseAfterFree == ~ub

\* An object whose name is excluded is never uploaded (README, "Filename
\* pattern exclusion"), when the bucket held none at mount time.
ExcludedStayLocal == remote \intersect Excluded = {}

\* Every request is answered: none waits for ever for a refcount or for the
\* directory.
RequestsReturn ==
    \A c \in Clients : th[c].pc \notin {"idle", "held"} ~> th[c].pc \in {"idle", "held"}

\* A cache file nobody has open does not stay past its age: the collector
\* removes it, or somebody opens or uses it again (README, "Garbage
\* collection").  Behaviours that use a freed cell end there.
IdleFileCollected ==
    \A k \in Cells :
        []<>(ub \/ ~(IsLive(k) /\ Collectable(pe[k]) /\ Holders(k) = {}))

-----------------------------------------------------------------------------
(* What a comment says that the code does not do.                           *)

\* gc.c:34, "open (either r or rw), don't touch this cell": the collector
\* never frees the cell of an open file.
GcSparesOpenCells ==
    [][\A c \in Clients :
          At(c, "held") /\ IsLive(Cell(c)) /\ gc.pc = "remove" /\ gc'.pc = "scan"
             => pe'[Cell(c)].mem = "live"]_vars
=============================================================================
