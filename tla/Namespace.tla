------------------------------ MODULE Namespace -----------------------------
(***************************************************************************)
(* The directory tree: what mkdir, mknod, symlink, unlink, rmdir, rename,  *)
(* readdir and stat do to the bucket and to the hash table, as far as the  *)
(* table remembers what a path is.  No file is open here: PathEntry is     *)
(* about handles and about cells that are freed.                           *)
(*                                                                         *)
(* libfuse keeps two requests apart when one changes a path that is the    *)
(* other's or leads to it.  What requests in different parts of the tree   *)
(* still share is the current directory of the one libdroplet context.     *)
(* The rename of a directory is cut at each remote call, everything else   *)
(* at the uses of that current directory.                                  *)
(***************************************************************************)
EXTENDS Integers, SequencesExt

CONSTANTS Paths,        \* the paths that can exist: sequences of names, prefix closed
          Names,        \* the names that can be in a directory
          Clients,
          Contents,     \* contents of files, to tell files apart
          FirstBuckets, \* what the bucket may hold at mount time
          Asks,         \* the requests clients make: [op, path, to]
          MaxFaults,    \* remote calls that fail, all retries included (a bound)
          TmpstrNb,     \* TMPSTR_NB
          CacheDir      \* conf->cache_dir, a path outside of the mount

Ops == {"stat", "mknod", "symlink", "mkdir", "unlink", "rmdir", "readdir", "rename"}
Things == Contents \union {"none", "dir", "empty", "link"}
Root == <<>>

ASSUME PathsAssumption ==
    \A p \in Paths : /\ p \in Seq(Names) /\ p # Root
                     /\ \A k \in 1..Len(p) : SubSeq(p, 1, k) \in Paths
ASSUME ContentsAssumption ==
    Contents \cap {"none", "dir", "empty", "link", "absent", "unset"} = {}
\* The bucket is a tree.
ASSUME BucketsAssumption ==
    \A b \in FirstBuckets :
        /\ b \in [Paths -> Things]
        /\ \A p, q \in Paths : IsStrictPrefix(q, p) /\ b[p] # "none" => b[q] = "dir"
\* The kernel renames nothing into itself, nor onto a directory it is in.
ASSUME AsksAssumption ==
    \A q \in Asks : /\ q \in [op : Ops, path : Paths, to : Paths]
                    /\ q.op = "rename" => /\ ~IsPrefix(q.path, q.to)
                                          /\ ~IsPrefix(q.to, q.path)
\* What is renamed can exist where it is renamed to.
ASSUME TargetsAssumption ==
    \A q \in Asks, p \in Paths :
        q.op = "rename" /\ IsPrefix(q.path, p)
            => q.to \o SubSeq(p, Len(q.path) + 1, Len(p)) \in Paths
ASSUME NumbersAssumption ==
    MaxFaults \in Nat /\ TmpstrNb \in Nat \ {0} /\ CacheDir \in Seq(ToSet(CacheDir))

VARIABLES bucket,  \* what each path is in the bucket
          table,   \* the cell of each path: "absent", "unset" (FILE_UNSET), or
                   \* FILE_REMOTE, with what its metadata describes
          cwd,     \* the current directory of ctx
          th,      \* the request of each client
          faults   \* how many remote calls have failed

vars == <<bucket, table, cwd, th, faults>>

-----------------------------------------------------------------------------
(* The bucket, as libdroplet answers about it.                              *)

Thing(p) == IF p \in Paths THEN bucket[p] ELSE "none"
IsFile(x) == x \notin {"none", "dir"}
HasParent(p) == Front(p) = Root \/ Thing(Front(p)) = "dir"
Put(p, x) == [q \in Paths |-> IF q = p THEN x ELSE bucket[q]]

\* dpl_opendir and dpl_readdir: the names in directory d, as one snapshot.
Listing(d) == {n \in Names : Thing(Append(d, n)) # "none"}

\* A remote call gets no answer although it was tried max_retry times.
Fault == faults < MaxFaults /\ faults' = faults + 1
NoFault == UNCHANGED faults

\* The statuses that are not success, as the integers the code returns:
\* DPL_FAILURE is -1, -2 stands for all others.
Failures == {-1, -2}

-----------------------------------------------------------------------------
(* The requests.                                                            *)

Idle == [pc |-> "idle", op |-> "none", path |-> Root, to |-> Root, ret |-> 0,
         stack |-> <<>>, file |-> [old |-> 0, new |-> 0], tmp |-> <<>>,
         displaces |-> FALSE]

At(c, l) == th[c].pc = l
Go(c, l) == th' = [th EXCEPT ![c].pc = l]

\* The handler returns r.
Done(c, r) == th' = [th EXCEPT ![c].pc = "done", ![c].ret = r]

Renaming(c) == th[c].op = "rename" /\ th[c].pc \notin {"idle", "done"}

Touched(q) == {q.path, q.to}
Writes(q) == q.op \notin {"stat", "readdir"}

\* The locks of libfuse: a path that is changed is nobody else's.
Conflict(q, r) ==
    \E p \in Touched(q), s \in Touched(r) :
        \/ Writes(q) /\ IsPrefix(p, s)
        \/ Writes(r) /\ IsPrefix(s, p)

\* History: a directory is renamed onto anything but an empty directory.
Displaces(q) ==
    /\ q.op = "rename" /\ Thing(q.path) = "dir"
    /\ IsFile(Thing(q.to)) \/ Listing(q.to) # {}

Begin(c) ==
    /\ At(c, "idle")
    /\ \E q \in Asks :
          /\ \A d \in Clients : th[d].pc # "idle" => ~Conflict(q, th[d])
          /\ th' = [th EXCEPT ![c] = [Idle EXCEPT !.pc = "resolve", !.op = q.op,
                                                  !.path = q.path, !.to = q.to,
                                                  !.displaces = Displaces(q)]]
    /\ UNCHANGED <<bucket, table, cwd, faults>>

Finish(c) ==
    /\ At(c, "done")
    /\ th' = [th EXCEPT ![c] = Idle]
    /\ UNCHANGED <<bucket, table, cwd, faults>>

-----------------------------------------------------------------------------
(* dfs_getattr, for the LOOKUP that comes before every request.             *)

\* getattr_remote answers from the cell, getattr_unset from the bucket.
Answer(p) == IF table[p] \in {"absent", "unset"} THEN bucket[p] ELSE table[p]

\* The cell of p after a dfs_getattr that the storage answered.
Cached(p) == IF Answer(p) = "none" THEN "unset" ELSE Answer(p)

\* What the kernel goes on with, knowing a of the path and b of the target.
Admits(op, a, b) ==
    CASE op \in {"mknod", "symlink", "mkdir"} -> a = "none"
      [] op = "unlink"                        -> IsFile(a)
      [] op \in {"rmdir", "readdir"}          -> a = "dir"
      [] op = "rename" -> a # "none" /\ (b = "none" \/ (a = "dir" <=> b = "dir"))
      [] OTHER                                -> FALSE

\* dfs_getattr of the path, and of the target of a rename.
Resolve(c) ==
    /\ At(c, "resolve")
    /\ LET q == th[c] IN
       \/ /\ table' = [p \in Paths |-> IF p \in Touched(q) THEN Cached(p) ELSE table[p]]
          /\ IF Admits(q.op, Answer(q.path), Answer(q.to))
             THEN Go(c, q.op)
             ELSE Done(c, IF q.op = "stat" /\ Answer(q.path) # "none" THEN 0 ELSE -2)
          /\ NoFault
       \/ /\ Fault
          /\ table' = [table EXCEPT ![q.path] = IF @ = "absent" THEN "unset" ELSE @]
          /\ Done(c, -1)
    /\ UNCHANGED <<bucket, cwd>>

-----------------------------------------------------------------------------
(* The handlers of one path.                                                *)

\* A call that creates or changes path p into x, and is not answered.
LostPut(p, x) == Fault /\ bucket' \in {bucket, Put(p, x)}

\* dfs_mknod, and the first half of dfs_symlink.
Mknod(c) ==
    /\ th[c].pc \in {"mknod", "symlink"}
    /\ LET p == th[c].path IN
       \/ /\ HasParent(p) /\ NoFault
          /\ bucket' = Put(p, "empty")
          /\ IF At(c, "symlink") THEN Go(c, "setattr") ELSE Done(c, 0)
       \/ /\ \/ ~HasParent(p) /\ NoFault /\ UNCHANGED bucket
             \/ LostPut(p, "empty")
          /\ \E r \in IF At(c, "symlink") THEN Failures ELSE {-1} : Done(c, r)
    /\ UNCHANGED <<table, cwd>>

\* dfs_symlink: the metadata make it a link.  A failure leaves the file.
Setattr(c) ==
    /\ At(c, "setattr")
    /\ LET p == th[c].path IN
       \/ NoFault /\ bucket' = Put(p, "link") /\ Done(c, 0)
       \/ LostPut(p, "link") /\ Done(c, -1)
    /\ UNCHANGED <<table, cwd>>

\* dfs_mkdir: the object, then a cell unless the path has one.
Mkdirs(p) == /\ HasParent(p) /\ NoFault
             /\ bucket' = Put(p, "dir")
             /\ table' = [table EXCEPT ![p] = IF @ = "absent" THEN "unset" ELSE @]

MkdirFails(p) == /\ \/ ~HasParent(p) /\ NoFault /\ UNCHANGED bucket
                    \/ LostPut(p, "dir")
                 /\ UNCHANGED table

Mkdir(c) ==
    /\ At(c, "mkdir")
    /\ \/ Mkdirs(th[c].path) /\ Done(c, 0)
       \/ MkdirFails(th[c].path) /\ Done(c, -1)
    /\ UNCHANGED cwd

\* Mutant of Unlinks: dfs_unlink does not remove the cell.
UnlinksKeepingCell(p) == /\ IsFile(Thing(p)) /\ NoFault
                         /\ bucket' = Put(p, "none")
                         /\ UNCHANGED table

\* dfs_unlink: the object and, if that is answered, the cell.
Unlinks(p) == /\ IsFile(Thing(p)) /\ NoFault
              /\ bucket' = Put(p, "none")
              /\ table' = [q \in Paths |-> IF q = p THEN "absent" ELSE table[q]]

UnlinkFails(p) == /\ \/ ~IsFile(Thing(p)) /\ NoFault /\ UNCHANGED bucket
                     \/ IsFile(Thing(p)) /\ LostPut(p, "none")
                  /\ UNCHANGED table

Unlink(c) ==
    /\ At(c, "unlink")
    /\ \/ Unlinks(th[c].path) /\ Done(c, 0)
       \/ UnlinkFails(th[c].path) /\ Done(c, 1)
    /\ UNCHANGED cwd

\* dfs_rmdir: libdroplet removes empty directories only.  The cell stays:
\* pentry_remove_dirent is told to take the path from its own entry.
Removable(p) == Thing(p) = "dir" /\ Listing(p) = {}

Rmdirs(p) == Removable(p) /\ NoFault /\ bucket' = Put(p, "none")

RmdirFails(p) == \/ ~Removable(p) /\ NoFault /\ UNCHANGED bucket
                 \/ Removable(p) /\ LostPut(p, "none")

Rmdir(c) ==
    /\ At(c, "rmdir")
    /\ \/ Rmdirs(th[c].path) /\ Done(c, 0)
       \/ RmdirFails(th[c].path) /\ Done(c, -1)
    /\ UNCHANGED <<table, cwd>>

\* dfs_readdir: dpl_chdir, then dpl_opendir of ".".
Readdir(c) ==
    /\ At(c, "readdir")
    /\ \/ Thing(th[c].path) = "dir" /\ NoFault /\ cwd' = th[c].path /\ Go(c, "list")
       \/ /\ (Thing(th[c].path) # "dir" /\ NoFault) \/ Fault
          /\ UNCHANGED cwd
          /\ \E r \in Failures : Done(c, r)
    /\ UNCHANGED <<bucket, table>>

List(c) ==
    /\ At(c, "list")
    /\ \/ NoFault /\ Done(c, 0)
       \/ Fault /\ \E r \in Failures : Done(c, r)
    /\ UNCHANGED <<bucket, table, cwd>>

-----------------------------------------------------------------------------
(* Temporary strings (tmpstr.c): a ring of TMPSTR_NB buffers in each        *)
(* thread.  tmp holds what the request has printed so far; a pointer is the *)
(* position of its string, and reads what was printed last in that buffer.  *)
(* Pointer 0 stands for the strings of the caller, which nobody overwrites. *)

Slot(t, i) == t[i + TmpstrNb * ((Len(t) - i) \div TmpstrNb)]

\* The two names of an entry or of a directory, as its pointers read now.
OldName(c, f) == IF f.old = 0 THEN th[c].path ELSE Slot(th[c].tmp, f.old)
NewName(c, f) == IF f.new = 0 THEN th[c].to ELSE Slot(th[c].tmp, f.new)

-----------------------------------------------------------------------------
(* dfs_rename.  A call of rename_directory is a frame of the stack: its two *)
(* names, the entries still to read, the variable type, which no one        *)
(* initialises, and ret.                                                    *)

NewFrame(o, n) == [old |-> o, new |-> n, todo |-> {}, type |-> "unset", ret |-> 0]

Frame(c) == Last(th[c].stack)
SetFrame(c, f) == Append(Front(th[c].stack), f)

\* What dpl_namei stores in type; what is there when it stores nothing.
TypeOf(x) == IF x = "dir" THEN "dir" ELSE "reg"
Garbage == {"reg", "dir"}

\* The name of dfs_rename is a directory, or a file, or of no type it knows.
\* The test of the status compares !DPL_SUCCESS with it: it never fails.
Rename(c) ==
    /\ At(c, "rename")
    /\ LET x == Thing(th[c].path) IN
       \E t \in Garbage \union {"other"} :
          /\ \/ NoFault /\ (x = "none" \/ t = TypeOf(x))
             \/ Fault
          /\ \/ t = "other" /\ Done(c, -1)
             \/ t = "reg"   /\ Go(c, "copy")
             \/ t = "dir"   /\ th' = [th EXCEPT ![c].pc = "enter",
                                                ![c].stack = <<NewFrame(0, 0)>>]
    /\ UNCHANGED <<bucket, table, cwd>>

\* A call of rename_file, or of rename_directory once its frame is gone (rest
\* is the stack below), returns r.  dfs_rename itself only knows -1.
Returned(c, rest, r, t) ==
    th' = [th EXCEPT ![c] =
              [@ EXCEPT !.tmp = t,
                        !.pc = IF rest = <<>> THEN "done" ELSE "next",
                        !.ret = IF rest = <<>> /\ r = -1 THEN -1 ELSE 0,
                        !.stack = IF rest = <<>> THEN <<>>
                                  ELSE Append(Front(rest), [Last(rest) EXCEPT !.ret = r])]]

\* Mutant of Leave: the first directory that returns ends the request.
LeaveAtOnce(c, r, t) == Done(c, r)

Leave(c, r, t) == Returned(c, Front(th[c].stack), r, t)

Fails(c, R) == \E r \in R : Leave(c, r, th[c].tmp)

\* rename_directory: the target is created unless it is there.
Enter(c) ==
    /\ At(c, "enter")
    /\ LET new == NewName(c, Frame(c)) IN
       \/ /\ Thing(new) # "none" /\ NoFault
          /\ th' = [th EXCEPT ![c].pc = "chdir",
                              ![c].stack = SetFrame(c, [Frame(c) EXCEPT !.type = TypeOf(Thing(new))])]
          /\ UNCHANGED <<bucket, table>>
       \/ Thing(new) = "none" /\ Mkdirs(new) /\ Go(c, "chdir")
       \/ Thing(new) = "none" /\ MkdirFails(new) /\ Fails(c, {-1})
       \/ Fault /\ Fails(c, {-1}) /\ UNCHANGED <<bucket, table>>
    /\ UNCHANGED cwd

Chdir(c) ==
    /\ At(c, "chdir")
    /\ LET old == OldName(c, Frame(c)) IN
       \/ Thing(old) = "dir" /\ NoFault /\ cwd' = old /\ Go(c, "opendir")
       \/ /\ (Thing(old) # "dir" /\ NoFault) \/ Fault
          /\ Fails(c, Failures)
          /\ UNCHANGED cwd
    /\ UNCHANGED <<bucket, table>>

\* dpl_opendir of ".": whatever the current directory is by now.
Opendir(c) ==
    /\ At(c, "opendir")
    /\ \/ /\ NoFault
          /\ th' = [th EXCEPT ![c].pc = "next",
                              ![c].stack = SetFrame(c, [Frame(c) EXCEPT !.todo = Listing(cwd)])]
       \/ Fault /\ Fails(c, Failures)
    /\ UNCHANGED <<bucket, table, cwd>>

\* Mutants of NextEntry: names relative to the current directory; an entry
\* that is never done with.
NextEntryRelative(c) ==
    /\ At(c, "next")
    /\ \E n \in Frame(c).todo :
          LET f   == Frame(c)
              src == Append(OldName(c, f), n)
              t   == th[c].tmp \o <<src, Append(cwd, n)>>
          IN  th' = [th EXCEPT ![c].tmp = t,
                               ![c].pc = "copy",
                               ![c].file = [old |-> Len(t) - 1, new |-> Len(t)],
                               ![c].stack = SetFrame(c, [f EXCEPT !.todo = @ \ {n}])]
    /\ NoFault
    /\ UNCHANGED <<bucket, table, cwd>>

NextEntryAgain(c) ==
    /\ At(c, "next") /\ Frame(c).todo # {}
    /\ Fault \/ NoFault
    /\ UNCHANGED <<bucket, table, cwd, th>>

\* The next entry n: its two names, and its type.  The names are printed before
\* the type is asked for, into buffers that may hold the names of the frame.
NextEntry(c) ==
    /\ At(c, "next")
    /\ \E n \in Frame(c).todo :
       LET f   == Frame(c)
           src == Append(OldName(c, f), n)
           t1  == Append(th[c].tmp, src)
           new == IF f.new = 0 THEN th[c].to ELSE Slot(t1, f.new)
           t   == Append(t1, Append(new, n))
           file == [old |-> Len(t) - 1, new |-> Len(t)]
       IN  \/ /\ NoFault
              /\ \E y \in IF Thing(src) # "none" THEN {TypeOf(Thing(src))}
                          ELSE IF f.type = "unset" THEN Garbage ELSE {f.type} :
                 LET st == SetFrame(c, [f EXCEPT !.todo = @ \ {n}, !.type = y]) IN
                 th' = [th EXCEPT ![c].tmp = t,
                                  ![c].pc = IF y = "dir" THEN "enter" ELSE "copy",
                                  ![c].file = IF y = "dir" THEN @ ELSE file,
                                  ![c].stack = IF y = "dir"
                                               THEN Append(st, NewFrame(file.old, file.new))
                                               ELSE st]
           \/ Fault /\ Leave(c, -1, t)
    /\ UNCHANGED <<bucket, table, cwd>>

\* Mutant of Copy: the status of dpl_fcopy is not looked at.
CopyUnchecked(c) ==
    /\ At(c, "copy")
    /\ LET src == OldName(c, th[c].file)
           dst == NewName(c, th[c].file)
       IN  \/ NoFault /\ bucket' = IF IsFile(Thing(src)) THEN Put(dst, Thing(src)) ELSE bucket
           \/ LostPut(dst, Thing(src))
    /\ Go(c, "forget")
    /\ UNCHANGED <<table, cwd>>

\* rename_file: dpl_fcopy.
Copy(c) ==
    /\ At(c, "copy")
    /\ LET src  == OldName(c, th[c].file)
           dst  == NewName(c, th[c].file)
           able == IsFile(Thing(src)) /\ HasParent(dst) /\ Thing(dst) # "dir"
       IN  \/ able /\ NoFault /\ bucket' = Put(dst, Thing(src)) /\ Go(c, "forget")
           \/ /\ \/ ~able /\ NoFault /\ UNCHANGED bucket
                 \/ able /\ LostPut(dst, Thing(src))
              /\ Returned(c, th[c].stack, -1, th[c].tmp)
    /\ UNCHANGED <<table, cwd>>

\* rename_file: dfs_unlink of the old name prints the name of the cache file
\* and, if there is a cell, the one of its directory.
Forget(c) ==
    /\ At(c, "forget")
    /\ LET old == OldName(c, th[c].file)
           t1  == Append(th[c].tmp, CacheDir \o old)
           t   == IF table[old] = "absent" THEN t1 ELSE Append(t1, Front(old))
       IN  \/ Unlinks(old) /\ Returned(c, th[c].stack, 0, t)
           \/ UnlinkFails(old) /\ Returned(c, th[c].stack, 1, th[c].tmp)
    /\ UNCHANGED cwd

\* Mutant of LeaveDir: dfs_rmdir is not called.
LeaveDirKept(c) ==
    /\ At(c, "next") /\ Frame(c).todo = {}
    /\ NoFault
    /\ Leave(c, Frame(c).ret, th[c].tmp)
    /\ UNCHANGED <<bucket, table, cwd>>

\* All entries were read.  ret is that of the last one: if it is -1 the
\* directory stays, else dfs_rmdir is called and its result ignored.
LeaveDir(c) ==
    /\ At(c, "next") /\ Frame(c).todo = {}
    /\ LET old == OldName(c, Frame(c)) IN
       \/ Frame(c).ret = -1 /\ NoFault /\ Fails(c, {-1}) /\ UNCHANGED bucket
       \/ /\ Frame(c).ret # -1
          /\ \/ Rmdirs(old) /\ Leave(c, 0, Append(th[c].tmp, CacheDir \o old))
             \/ RmdirFails(old) /\ Leave(c, 0, th[c].tmp)
    /\ UNCHANGED <<table, cwd>>

-----------------------------------------------------------------------------
Init == /\ bucket \in FirstBuckets
        /\ table = [p \in Paths |-> "absent"]
        /\ cwd = Root
        /\ th = [c \in Clients |-> Idle]
        /\ faults = 0

\* One step of the thread that serves the request of c.
Serve(c) == \/ Resolve(c) \/ Mknod(c) \/ Setattr(c) \/ Mkdir(c) \/ Unlink(c)
            \/ Rmdir(c) \/ Readdir(c) \/ List(c)
            \/ Rename(c) \/ Enter(c) \/ Chdir(c) \/ Opendir(c) \/ NextEntry(c)
            \/ Copy(c) \/ Forget(c) \/ LeaveDir(c)
            \/ Finish(c)

Next == \E c \in Clients : Begin(c) \/ Serve(c)

Spec == Init /\ [][Next]_vars

\* Each request has a thread of its own and every remote call returns.
FairSpec == Spec /\ \A c \in Clients : WF_vars(Serve(c))

-----------------------------------------------------------------------------
(* Properties.                                                              *)

FrameType == [old : Nat, new : Nat, todo : SUBSET Names,
              type : {"unset", "reg", "dir"}, ret : -2..1]

Request == [pc : Ops \union {"idle", "resolve", "done", "setattr", "list", "enter",
                             "chdir", "opendir", "next", "copy", "forget"},
            op : Ops \union {"none"}, path : Paths \union {Root},
            to : Paths \union {Root}, ret : -2..1, stack : Seq(FrameType),
            file : [old : Nat, new : Nat], tmp : Seq(Seq(Names \union ToSet(CacheDir))),
            displaces : BOOLEAN]

\* The type of every variable; a rename that is over has left all directories.
TypeOK == /\ bucket \in [Paths -> Things]
          /\ table \in [Paths -> Things \union {"absent", "unset"}]
          /\ cwd \in Paths \union {Root}
          /\ th \in [Clients -> Request]
          /\ \A c \in Clients : ~Renaming(c) => th[c].stack = <<>>
          /\ faults \in 0..MaxFaults

Stored(x) == \E p \in Paths : bucket[p] = x

\* The names that c has printed are still in their buffers.
Fits(c) == Len(th[c].tmp) <= TmpstrNb

\* c's request is allowed to end what is stored at p: dfs_unlink was called with
\* that name; a file is renamed over it; or what rename_file is given are no
\* longer the names of the entry.
Ends(c, p) == \/ At(c, "unlink") /\ th[c].path = p
              \/ At(c, "copy") /\ NewName(c, th[c].file) = p
              \/ At(c, "forget") /\ ~Fits(c)

\* rename_file copies, then unlinks: whatever call fails, is lost or is not
\* answered, and whatever directory opendir(".") lists, the content of a file
\* leaves the bucket only if a client unlinks it or renames a file over it, or
\* if a rename has printed more names than a thread has buffers.
NothingLost ==
    [][\A x \in Contents : Stored(x) /\ ~Stored(x)' =>
          \E c \in Clients, p \in Paths : bucket[p] = x /\ Ends(c, p)]_vars

\* A request changes its own path, its target, and what is below them: a
\* rename_directory that was given the listing of another directory (the
\* shared current directory) does not touch that directory.
RenameStaysInside ==
    [][\A p \in Paths : bucket'[p] # bucket[p] =>
          \E c \in Clients : \E q \in Touched(th[c]) : q # Root /\ IsPrefix(q, p)]_vars

\* When no remote call has failed, a dfs_rename that returns 0 has left nothing
\* at the old name or below it, and something at the new one; unless there was
\* something at the new name that a directory cannot replace, or the names it
\* printed were more than a thread has buffers.  This is about the bucket only:
\* the cells of the directories that were renamed stay in the table, and
\* dfs_getattr goes on answering from them.
RenameMoves ==
    \A c \in Clients :
        /\ faults = 0 /\ At(c, "done") /\ th[c].op = "rename" /\ th[c].ret = 0
        /\ ~th[c].displaces /\ Fits(c)
        => /\ \A p \in Paths : IsPrefix(th[c].path, p) => bucket[p] = "none"
           /\ bucket[th[c].to] # "none"

\* When no remote call has failed, a file that was unlinked or renamed away is
\* not found in the hash table by dfs_getattr: what the table takes for a file
\* is a file.
NoGhostFiles ==
    \A p \in Paths : faults = 0 =>
        table[p] \in {"absent", "unset", "dir"} \/ IsFile(bucket[p])

\* Every request is answered: a dfs_rename leaves each directory it enters.
RequestsReturn == \A c \in Clients : ~At(c, "idle") ~> At(c, "idle")
=============================================================================
