------------------------------ MODULE FileData ------------------------------
(***************************************************************************)
(* The copies of one file: its object in the bucket, its cache file, and   *)
(* what the path entry remembers of its metadata.  open.c and file.c       *)
(* download, decompress and open the cache file; release.c compresses and  *)
(* uploads it; chmod.c, chown.c and getattr.c change and read metadata in  *)
(* three places; gc.c, dfs_destroy and a crash drop the local copies.      *)
(*                                                                         *)
(* Data move block by block.  The table and the lifetime of cells are the  *)
(* subject of PathEntry: here the collector takes only cells that no       *)
(* request uses, and a step may be a whole request of PathEntry.           *)
(***************************************************************************)
EXTENDS Naturals, Sequences, FiniteSets

CONSTANTS Clients,   \* processes using the mount
          Values,    \* what a block can hold
          Zero,      \* a block of a hole
          MaxBlocks, \* blocks of a file (a bound)
          Fds,       \* open file descriptions of the daemon (a bound)
          NoFd,      \* the descriptor -1
          Inodes,    \* inodes of the cache directory (a bound)
          NoInode,   \* no such file
          NoFile,    \* no object
          Garbage,   \* what compressed data read like
          None,      \* an attribute or a size that is absent
          NoMd,      \* usermd is NULL
          Jobs       \* what a behaviour is about: see Job

ASSUME FdsAssumption    == NoFd \notin Fds /\ NoInode \notin Inodes
ASSUME BlocksAssumption == MaxBlocks \in Nat \ {0} /\ Values # {}

\* An option of conf and the daemon's rights, what clients do, whether the
\* requests of two clients overlap (handles always do) and what can fail.
Asks == {"read", "write", "append", "stat", "chattr"}
Job == [zlib    : BOOLEAN,            \* compression_method
        field   : {"mode", "owner"},  \* chattr is dfs_chmod or dfs_chown
        root    : BOOLEAN,            \* the daemon may give files away
        asks    : SUBSET Asks,
        overlap : BOOLEAN,
        foreign : BOOLEAN,            \* the first object is not dplfs's
        faults  : SUBSET {"get", "put", "setattr", "stat", "mknod", "zip"}]

ASSUME JobsAssumption == Jobs \subseteq Job

VARIABLES job,     \* the job of this behaviour
          obj,     \* the object: data, whether they are compressed, metadata
          cell,    \* the tpath_entry
          file,    \* open file descriptions: inode, offset, writable
          inode,   \* cache inodes: data, whether compressed, mode or owner
          name,    \* the inode that the cache path names
          known,   \* the kernel has a valid dentry
          th,      \* the request of each client
          unsaved, \* the last upload failed (history)
          wanted   \* mode or owner last set with success (history)

vars == <<job, obj, cell, file, inode, name, known, th, unsaved, wanted>>

-----------------------------------------------------------------------------
(* Contents.  An object may be zipped, and so is its copy until it is       *)
(* decompressed.                                                            *)

Contents == UNION {[1..n -> Values \union {Zero}] : n \in 0..MaxBlocks}

\* What a client reads of a cache file.
Plain(x) == IF x.zipped THEN Garbage ELSE x.data

\* Mutant of PutAt: an offset that counts from 1.
PutAtNext(s, i, v) == [j \in 1..(IF i + 1 > Len(s) THEN i + 1 ELSE Len(s)) |->
                          IF j = i + 1 THEN v ELSE IF j <= Len(s) THEN s[j] ELSE Zero]

\* pwrite or write of block i: beyond the end it leaves a hole.
PutAt(s, i, v) == [j \in 1..(IF i > Len(s) THEN i ELSE Len(s)) |->
                      IF j = i THEN v ELSE IF j <= Len(s) THEN s[j] ELSE Zero]

\* The user metadata: mode or uid, size, and "compression".  Any may be absent.
Own  == "own"           \* what a new cache file has: mode 0644, the daemon's uid
Attrs == {Own, "other"}
Md == [attr : Attrs \union {None}, size : 0..MaxBlocks \union {None}, mark : BOOLEAN]
EmptyMd == [attr |-> None, size |-> None, mark |-> FALSE]
CreatedMd(a) == [attr |-> a, size |-> 0, mark |-> FALSE]

Object == [data : Contents, zipped : BOOLEAN, md : Md]

\* What dfs_mknod_timeout makes.
NewObject == [data |-> <<>>, zipped |-> FALSE, md |-> EmptyMd]

ASSUME NoFileAssumption == NoFile \notin Contents /\ NoFile \notin Object
ASSUME NoMdAssumption   == NoMd \notin Md
ASSUME NoneAssumption   == /\ None \notin Attrs /\ None \notin 0..MaxBlocks
                           /\ None \notin [attr : Attrs \union {None}, size : 0..MaxBlocks]

Cell == [mem : BOOLEAN, fd : Fds \union {NoFd}, pinned : BOOLEAN,
         ondisk : {"unset", "remote", "local"}, usermd : Md \union {NoMd}]
NoCell == [mem |-> FALSE, fd |-> NoFd, pinned |-> FALSE, ondisk |-> "unset",
           usermd |-> NoMd]

\* The data of an object for a client that goes by the mark the object has.
Decode(o) == IF o = NoFile THEN NoFile
             ELSE IF o.md.mark = o.zipped THEN o.data ELSE Garbage

Idle == [pc |-> "idle", ask |-> "stat", src |-> NoFile, ino |-> NoInode,
         pos |-> 1, fd |-> NoFd, zip |-> FALSE, sent |-> <<>>, size |-> 0,
         attr |-> Own]

At(c, l) == th[c].pc = l
Return(c) == th' = [th EXCEPT ![c] = Idle]

Fails(f) == f \in job.faults

\* The inode behind the descriptor of the cell.
Cached == cell.fd # NoFd
Behind == inode[file[cell.fd].ino]

Writing(c) == th[c].ask \in {"write", "append"} /\ th[c].pc \in {"held", "put"}
Fetching(c) == th[c].pc \in {"get", "fill"}
AllIdle == \A c \in Clients : At(c, "idle")
Quiet == \A c \in Clients : th[c].pc \in {"idle", "held"}

\* A client may ask: its request runs alone unless the job says otherwise.
MayAsk(c, a) == At(c, "idle") /\ a \in job.asks /\ (job.overlap \/ Quiet)

\* Descriptions and inodes that the cell and the requests do not refer to: the
\* next to use.  Descriptors the code loses without closing them (open.c:103,
\* file.c:480) are used again: that they run out is not in this model.
FreeFd(f)    == cell.fd # f /\ \A c \in Clients : th[c].fd # f
FreeInode(i) == /\ name # i
                /\ \A c \in Clients : th[c].ino # i
                /\ \A f \in Fds : FreeFd(f) \/ file[f].ino # i
NewFd    == CHOOSE f \in Fds : FreeFd(f)
NewInode == CHOOSE i \in Inodes : FreeInode(i)

\* open(2): a description of the inode, at its beginning.
Opened(i, rw) == file' = [file EXCEPT ![NewFd] = [ino |-> i, off |-> 0, rw |-> rw]]

-----------------------------------------------------------------------------
(* dfs_getattr.                                                             *)

\* The metadata that getattr_unset makes of the headers of an object: its own
\* if they have a size, else homemade ones with the content-length.  Data are
\* as many blocks compressed as they are plain.
FromHeaders(o) == IF o.md.size = None
                  THEN [attr |-> Own, size |-> Len(o.data), mark |-> o.md.mark]
                  ELSE o.md

\* What dfs_getattr would answer, or None for an error.
Answer == CASE cell.ondisk = "local"  -> IF Cached
                                         THEN [attr |-> Behind.attr, size |-> Len(Behind.data)]
                                         ELSE None
            [] cell.ondisk = "remote" -> [attr |-> cell.usermd.attr,
                                          size |-> IF cell.usermd.size = None THEN 0
                                                   ELSE cell.usermd.size]
            [] OTHER -> IF obj = NoFile THEN None
                        ELSE [attr |-> FromHeaders(obj).attr, size |-> FromHeaders(obj).size]

\* LOOKUP or GETATTR: the cell is looked up or inserted, and answers from the
\* file, from its metadata or from the headers that are now asked for.
Stat(c) ==
    /\ MayAsk(c, "stat")
    /\ cell' = [cell EXCEPT !.mem = TRUE]
    /\ \/ /\ cell.ondisk # "unset"
          /\ known' = (Answer # None)
          /\ UNCHANGED th
       \/ /\ cell.ondisk = "unset" /\ obj # NoFile
          /\ th' = [th EXCEPT ![c].pc = "stat", ![c].src = obj]
          /\ UNCHANGED known
       \/ /\ cell.ondisk = "unset" /\ (obj = NoFile \/ Fails("stat"))
          /\ UNCHANGED <<known, th>>
    /\ UNCHANGED <<job, obj, file, inode, name, unsaved, wanted>>

\* The end of getattr_unset.
StatFill(c) ==
    /\ At(c, "stat")
    /\ cell' = [cell EXCEPT !.usermd = FromHeaders(th[c].src), !.ondisk = "remote"]
    /\ known' = TRUE
    /\ Return(c)
    /\ UNCHANGED <<job, obj, file, inode, name, unsaved, wanted>>

\* The entry timeout of the dentry.
Expire == /\ known
          /\ known' = FALSE
          /\ UNCHANGED <<job, obj, cell, file, inode, name, th, unsaved, wanted>>

-----------------------------------------------------------------------------
(* dfs_open and dfs_create.                                                 *)

Hold(c, a) == th' = [th EXCEPT ![c] = [Idle EXCEPT !.pc = "held", !.ask = a]]

\* The mode or owner of the file that the cache path names, or of a new one.
CacheAttr == IF name = NoInode THEN Own ELSE inode[name].attr

\* open_creat: the file the cache path names is truncated, or a new one made;
\* the old descriptor of the cell is not closed.
Truncate(e, attr) ==
    LET i == IF name = NoInode THEN NewInode ELSE name IN
    /\ name' = i
    /\ inode' = [inode EXCEPT ![i] = [data |-> <<>>, zipped |-> FALSE, attr |-> attr]]
    /\ Opened(i, TRUE)
    /\ cell' = [e EXCEPT !.mem = TRUE, !.fd = NewFd, !.ondisk = "local"]

\* dfs_create of a path that LOOKUP did not find: open_creat, fchmod, the
\* metadata of the empty file, and an object without any.  If dfs_mknod_timeout
\* fails, with or without effect, the cell stays open and counted.
Create(c) ==
    /\ MayAsk(c, "write")
    /\ ~known /\ obj = NoFile /\ cell.ondisk = "unset"
    /\ \E pinned \in {FALSE} \union (IF Fails("mknod") THEN {TRUE} ELSE {}) :
          LET attr == IF job.field = "mode" THEN Own ELSE CacheAttr IN
          /\ Truncate([cell EXCEPT !.usermd = CreatedMd(attr), !.pinned = pinned \/ @], attr)
          /\ IF pinned THEN obj' \in {obj, NewObject} /\ unsaved' = TRUE /\ UNCHANGED <<known, th>>
             ELSE /\ obj' = NewObject
                  /\ known' = TRUE
                  /\ Hold(c, "write")
                  /\ UNCHANGED unsaved
    /\ UNCHANGED <<job, wanted>>

\* OPEN: a missing cell is populated.
OpenCreat(c) ==
    /\ MayAsk(c, "write") /\ known
    /\ Truncate(cell, CacheAttr)
    /\ Hold(c, "write")
    /\ UNCHANGED <<job, obj, known, unsaved, wanted>>

\* open_existing with a descriptor: it is used again.
OpenAgain(c, a) ==
    /\ a \in {"read", "append"}
    /\ MayAsk(c, a) /\ known /\ Cached
    /\ cell' = [cell EXCEPT !.ondisk = "local"]
    /\ Hold(c, a)
    /\ UNCHANGED <<job, obj, file, inode, name, known, unsaved, wanted>>

\* open_existing without: dfs_get_local_copy is called.
OpenFetch(c, a) ==
    /\ a \in {"read", "append"}
    /\ MayAsk(c, a) /\ known /\ ~Cached
    /\ cell' = [cell EXCEPT !.mem = TRUE]
    /\ th' = [th EXCEPT ![c] = [Idle EXCEPT !.pc = "get", !.ask = a]]
    /\ UNCHANGED <<job, obj, file, inode, name, known, unsaved, wanted>>

-----------------------------------------------------------------------------
(* dfs_get_local_copy.                                                      *)

\* Any failure: the result -1 is assigned to pe->fd and the count of the open
\* is never given back.
GetFails(c) ==
    /\ Fetching(c)
    /\ obj = NoFile \/ Fails("get")
    /\ cell' = [cell EXCEPT !.fd = NoFd, !.pinned = TRUE]
    /\ Return(c)
    /\ UNCHANGED <<job, obj, file, inode, name, known, unsaved, wanted>>

\* download_headers, pentry_set_usermd; the cache file is unlinked if there is
\* one and made anew, with the mode of the metadata; dpl_openread.  The object
\* is the same for both requests.
GetStart(c) ==
    /\ At(c, "get") /\ obj # NoFile
    /\ cell' = [cell EXCEPT !.usermd = obj.md]
    /\ name' = NewInode
    /\ inode' = [inode EXCEPT ![NewInode] =
                    [data |-> <<>>, zipped |-> obj.zipped,
                     attr |-> IF job.field = "mode" /\ obj.md.attr # None
                              THEN obj.md.attr ELSE Own]]
    /\ th' = [th EXCEPT ![c].pc = "fill", ![c].src = obj, ![c].ino = NewInode]
    /\ UNCHANGED <<job, obj, file, known, unsaved, wanted>>

\* cb_get_buffered: the data as they are in the bucket.
GetBlock(c) ==
    /\ At(c, "fill") /\ th[c].pos <= Len(th[c].src.data)
    /\ inode' = [inode EXCEPT ![th[c].ino].data =
                    PutAt(@, th[c].pos, th[c].src.data[th[c].pos])]
    /\ th' = [th EXCEPT ![c].pos = @ + 1]
    /\ UNCHANGED <<job, obj, cell, file, name, known, unsaved, wanted>>

\* The cache path is opened once more, as the flags of the open say.
GetOpens(c, i) ==
    /\ Opened(i, th[c].ask # "read")
    /\ cell' = [cell EXCEPT !.fd = NewFd, !.ondisk = "local"]
    /\ Hold(c, th[c].ask)

\* handle_compression: what the cache path names is decompressed into a new
\* file, with a new file's mode, that is renamed over it.
GetUnzips(c) ==
    /\ At(c, "fill") /\ th[c].pos > Len(th[c].src.data)
    /\ th[c].src.md.mark
    /\ inode[name].zipped /\ inode[name].data = th[c].src.data
    /\ name' = NewInode
    /\ inode' = [inode EXCEPT ![NewInode] = [data |-> inode[name].data, zipped |-> FALSE,
                                             attr |-> Own]]
    /\ GetOpens(c, NewInode)
    /\ UNCHANGED <<job, obj, known, unsaved, wanted>>

\* Without compression, or without the mark of it.
GetPlain(c) ==
    /\ At(c, "fill") /\ th[c].pos > Len(th[c].src.data)
    /\ ~th[c].src.md.mark
    /\ GetOpens(c, name)
    /\ UNCHANGED <<job, obj, inode, name, known, unsaved, wanted>>

-----------------------------------------------------------------------------
(* dfs_write and dfs_release.  Reads leave the state as it is.              *)

\* pwrite of a block at any offset: past the end it leaves a hole.
Write(c) ==
    /\ At(c, "held") /\ th[c].ask \in {"write", "append"}
    /\ Cached /\ file[cell.fd].rw
    /\ \E v \in Values, i \in 1..MaxBlocks :
          inode' = [inode EXCEPT ![file[cell.fd].ino].data = PutAt(@, i, v)]
    /\ UNCHANGED <<job, obj, cell, file, name, known, th, unsaved, wanted>>

\* dfs_release returns early without a descriptor and for a reader.
CloseReader(c) ==
    /\ At(c, "held") /\ (th[c].ask = "read" \/ ~Cached)
    /\ job.overlap \/ Quiet
    /\ Return(c)
    /\ UNCHANGED <<job, obj, cell, file, inode, name, known, unsaved, wanted>>

\* Whether what is sent is compressed: when zip fails, the plain file is sent.
Compressed == {job.zlib} \union (IF Fails("zip") THEN {FALSE} ELSE {})

\* fstat, the metadata made of it, and the choice of what is sent: the
\* descriptor of the cell, or the file that the cache path names, compressed
\* first.
CloseWriter(c) ==
    /\ At(c, "held") /\ th[c].ask # "read" /\ Cached
    /\ job.overlap \/ Quiet
    /\ \E z \in Compressed :
          th' = [th EXCEPT ![c] = [@ EXCEPT
                    !.pc = "put", !.fd = cell.fd, !.zip = z,
                    !.size = Len(Behind.data), !.attr = Behind.attr,
                    !.sent = IF z THEN inode[name].data ELSE <<>>]]
    /\ UNCHANGED <<job, obj, cell, file, inode, name, known, unsaved, wanted>>

\* The source of an upload has no more to read.
AtEnd(c) == \/ th[c].zip \/ Len(th[c].sent) = MaxBlocks
            \/ file[th[c].fd].off >= Len(inode[file[th[c].fd].ino].data)

\* read_write_all_vfile: one read, at the offset of the description.
PutBlock(c) ==
    /\ At(c, "put") /\ ~AtEnd(c)
    /\ LET f == th[c].fd IN
       /\ th' = [th EXCEPT ![c].sent = Append(@, inode[file[f].ino].data[file[f].off + 1])]
       /\ file' = [file EXCEPT ![f].off = @ + 1]
    /\ UNCHANGED <<job, obj, cell, inode, name, known, unsaved, wanted>>

\* Mutant of PutReturns: the descriptor is left at its end.
PutReturnsAtEnd(c) ==
    /\ UNCHANGED file
    /\ Return(c)

\* lseek(pe->fd, 0, SEEK_SET) and the return.
PutReturns(c) ==
    /\ file' = IF Cached THEN [file EXCEPT ![cell.fd].off = 0] ELSE file
    /\ Return(c)

\* What the bucket keeps of an upload: as much as was announced.
Kept(r) == SubSeq(r.sent, 1, r.size)

\* Mutant of PutEnd: the metadata of the object are those it had.
PutEndKeepsMd(c) ==
    /\ At(c, "put") /\ AtEnd(c) /\ Len(th[c].sent) >= th[c].size
    /\ obj' = [data |-> Kept(th[c]), zipped |-> th[c].zip,
               md |-> [(IF obj = NoFile THEN EmptyMd ELSE obj.md) EXCEPT !.mark = th[c].zip]]
    /\ unsaved' = (unsaved /\ ~(Cached /\ Kept(th[c]) = Behind.data))
    /\ PutReturns(c)
    /\ UNCHANGED <<job, cell, inode, name, known, wanted>>

\* The object that an upload leaves: data and metadata are replaced.
Uploaded(r) == [data   |-> Kept(r),
                zipped |-> r.zip,
                md     |-> [attr |-> r.attr, size |-> r.size, mark |-> r.zip]]

\* dpl_close with all that was announced.
PutEnd(c) ==
    /\ At(c, "put") /\ AtEnd(c) /\ Len(th[c].sent) >= th[c].size
    /\ obj' = Uploaded(th[c])
    /\ unsaved' = (unsaved /\ ~(Cached /\ Kept(th[c]) = Behind.data))
    /\ PutReturns(c)
    /\ UNCHANGED <<job, cell, inode, name, known, wanted>>

\* The request fails, or the data are not as many as were announced.  When all
\* of them were sent, dpl_close may fail after the object was replaced.
PutFails(c) ==
    /\ At(c, "put")
    /\ \/ Fails("put") /\ UNCHANGED obj
       \/ /\ Fails("put") /\ AtEnd(c) /\ Len(th[c].sent) >= th[c].size
          /\ obj' = Uploaded(th[c])
       \/ AtEnd(c) /\ Len(th[c].sent) # th[c].size /\ UNCHANGED obj
    /\ unsaved' = TRUE
    /\ PutReturns(c)
    /\ UNCHANGED <<job, cell, inode, name, known, wanted>>

-----------------------------------------------------------------------------
(* What drops the local copies.                                             *)

\* All that the daemon keeps in memory goes.
Forget == /\ cell' = NoCell
          /\ unsaved' = FALSE

\* Mutant of Collect: the count of handles is not looked at.
CollectHeld ==
    /\ Cached /\ Quiet
    /\ name' = NoInode
    /\ Forget
    /\ UNCHANGED <<job, obj, file, inode, known, th, wanted>>

\* gc_callback, on a cell that nobody uses and whose file is old enough.
Collect ==
    /\ AllIdle /\ Cached /\ ~cell.pinned
    /\ name' = NoInode
    /\ Forget
    /\ UNCHANGED <<job, obj, file, inode, known, th, wanted>>

\* dfs_destroy, then a mount: the cache file goes if the cell is local.
Remount ==
    /\ AllIdle /\ cell.mem
    /\ name' = IF cell.ondisk = "local" THEN NoInode ELSE name
    /\ known' = FALSE
    /\ Forget
    /\ UNCHANGED <<job, obj, file, inode, th, wanted>>

\* The daemon dies and is started again: the cache file stays.
Crash ==
    /\ th' = [c \in Clients |-> Idle]
    /\ known' = FALSE
    /\ Forget
    /\ UNCHANGED <<job, obj, file, inode, name, wanted>>

-----------------------------------------------------------------------------
(* dfs_chmod and dfs_chown.                                                 *)

\* Mutant of Chattr: the cache file keeps its mode.
ChattrKeepsFile(c, a) ==
    /\ MayAsk(c, "chattr") /\ known
    /\ cell.mem /\ cell.usermd # NoMd
    /\ cell' = [cell EXCEPT !.usermd.attr = a]
    /\ th' = [th EXCEPT ![c].pc = "setattr", ![c].attr = a]
    /\ UNCHANGED <<job, obj, file, inode, name, known, unsaved, wanted>>

\* The attribute changes in usermd, and in the cache file when fchmod or
\* fchown may; EPERM is ignored.
Chattr(c, a) ==
    /\ MayAsk(c, "chattr") /\ known
    /\ cell.mem /\ cell.usermd # NoMd
    /\ cell' = [cell EXCEPT !.usermd.attr = a]
    /\ inode' = IF Cached /\ cell.ondisk = "local" /\ (job.field = "mode" \/ job.root)
                THEN [inode EXCEPT ![file[cell.fd].ino].attr = a] ELSE inode
    /\ th' = [th EXCEPT ![c].pc = "setattr", ![c].attr = a]
    /\ UNCHANGED <<job, obj, file, name, known, unsaved, wanted>>

\* assert(NULL != pe->usermd)
ChattrAborts(c) ==
    /\ MayAsk(c, "chattr") /\ known
    /\ cell.mem /\ cell.usermd = NoMd
    /\ Crash

\* dfs_setattr_timeout: the metadata of the object become usermd, which may be
\* so even if it fails.
SetAttr(c) ==
    /\ At(c, "setattr")
    /\ \/ /\ obj # NoFile
          /\ obj' = [obj EXCEPT !.md = cell.usermd]
          /\ wanted' \in {th[c].attr} \union (IF Fails("setattr") THEN {None} ELSE {})
       \/ /\ obj = NoFile \/ Fails("setattr")
          /\ wanted' = None
          /\ UNCHANGED obj
    /\ Return(c)
    /\ UNCHANGED <<job, cell, file, inode, name, known, unsaved>>

-----------------------------------------------------------------------------
FirstObjects ==
    {NoFile} \union
    {[data |-> d, zipped |-> FALSE,
      md |-> IF job.foreign THEN EmptyMd
             ELSE [attr |-> Own, size |-> Len(d), mark |-> FALSE]] :
        d \in {[i \in 1..n |-> Zero] : n \in 1..MaxBlocks}}

Init == /\ job \in Jobs
        /\ obj \in FirstObjects
        /\ cell = NoCell
        /\ file = [f \in Fds |-> [ino |-> NoInode, off |-> 0, rw |-> FALSE]]
        /\ inode = [i \in Inodes |-> [data |-> <<>>, zipped |-> FALSE, attr |-> Own]]
        /\ name = NoInode
        /\ known = FALSE
        /\ th = [c \in Clients |-> Idle]
        /\ unsaved = FALSE
        /\ wanted = None

Serve(c) == \/ Stat(c) \/ StatFill(c) \/ Create(c) \/ OpenCreat(c)
            \/ \E a \in Asks : OpenAgain(c, a) \/ OpenFetch(c, a)
            \/ GetStart(c) \/ GetBlock(c) \/ GetUnzips(c) \/ GetPlain(c) \/ GetFails(c)
            \/ Write(c) \/ CloseReader(c) \/ CloseWriter(c)
            \/ PutBlock(c) \/ PutEnd(c) \/ PutFails(c)
            \/ \E a \in Attrs : Chattr(c, a)
            \/ ChattrAborts(c) \/ SetAttr(c)

Next == \/ \E c \in Clients : Serve(c)
        \/ Expire \/ Collect \/ Remount \/ Crash

Spec == Init /\ [][Next]_vars

-----------------------------------------------------------------------------
(* Properties.                                                              *)

Request == [pc   : {"idle", "stat", "get", "fill", "held", "put", "setattr"},
            ask  : Asks, src : Object \union {NoFile}, ino : Inodes \union {NoInode},
            pos  : 1..MaxBlocks + 1, fd : Fds \union {NoFd}, zip : BOOLEAN,
            sent : Contents, size : 0..MaxBlocks, attr : Attrs]

Description == [ino : Inodes \union {NoInode}, off : 0..MaxBlocks, rw : BOOLEAN]
CacheFile == [data : Contents, zipped : BOOLEAN, attr : Attrs]

\* The type of every variable.
TypeOK == /\ job \in Jobs
          /\ obj \in Object \union {NoFile}
          /\ cell \in Cell
          /\ file \in [Fds -> Description]
          /\ inode \in [Inodes -> CacheFile]
          /\ name \in Inodes \union {NoInode}
          /\ known \in BOOLEAN
          /\ th \in [Clients -> Request]
          /\ unsaved \in BOOLEAN
          /\ wanted \in Attrs \union {None}

\* What the clients see: the cache file once there is a descriptor and no
\* download in progress, else the object.
Content == IF Cached /\ ~ \E c \in Clients : Fetching(c) THEN Plain(Behind) ELSE Decode(obj)

File == INSTANCE SharedFile WITH
            Contents <- Contents, Empty <- <<>>,
            content <- Content, stored <- Decode(obj),
            writers <- {c \in Clients : Writing(c)}

\* The copies are one file (open.c, file.c, release.c, gc.c, dfs_destroy): a
\* download, a collection, a mount or a crash never changes what is read, but
\* to what was saved last, and only a failed upload or a crash loses data.
ImplementsSharedFile == File!Spec

\* When nobody writes, the cache file is what the bucket has: all that was
\* written is saved when the last writer has closed (dfs_release), whatever the
\* order of writes, reads and uploads was, unless the last upload failed.
LastCloseSaves ==
    /\ \A c \in Clients : ~Writing(c) /\ ~Fetching(c)
    /\ ~unsaved \/ job.faults = {}
    => Content = Decode(obj)

\* getattr tells the length of what is read, from whichever place it answers,
\* as long as no chmod or chown has put old metadata in the bucket, and for
\* objects that dplfs has put (a failed download of another leaves a cell with
\* empty metadata).
SizeTold ==
    /\ Quiet /\ Answer # None /\ Content \notin {NoFile, Garbage}
    /\ "chattr" \notin job.asks /\ ~job.foreign
    => Answer.size = Len(Content)

\* What keeps an attribute: no open truncates the file, which gives it the mode
\* of a new cache file, and nothing is decompressed.  An owner is kept until the
\* file is opened; so is the mode of an object that another program has put,
\* because chmod of an opened one writes metadata without a size, and
\* getattr_unset does not take those.
Keeping ==
    /\ "write" \notin job.asks /\ ~job.zlib
    /\ job.field = "owner" \/ job.foreign => job.asks \subseteq {"stat", "chattr"}

\* A mode that chmod has set is told until the next chmod, across uploads,
\* collections and mounts, as long as it is kept.
AttrTold ==
    Keeping /\ wanted # None /\ Quiet => Answer # None /\ Answer.attr = wanted

=============================================================================
