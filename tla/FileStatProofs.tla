--------------------------- MODULE FileStatProofs ---------------------------
(***************************************************************************)
(* What dfs_getattr tells of a file, from whichever of its copies: the     *)
(* length of what is read, and the attribute that was set last, for any    *)
(* clients, values and number of blocks, under the hypotheses of           *)
(* FileDataProofs.                                                         *)
(***************************************************************************)
EXTENDS FileDataProofs

\* The size that metadata stand for.
SizeOf(m) == IF m.size = None THEN 0 ELSE m.size

\* Unless requests overlap, a descriptor goes with a local cell, and is not
\* there when the headers of the object are asked for.
LocalOK == ~job.overlap => /\ Cached <=> cell.ondisk = "local"
                           /\ \A c \in Clients : At(c, "stat") => ~Cached

\* Without chmod and chown, and for objects of dplfs, metadata have the length
\* of the data, and those of a remote cell are as good as those of the object.
SizesOK ==
    "chattr" \notin job.asks /\ ~job.foreign =>
        /\ obj # NoFile => SizeOf(obj.md) = Len(obj.data)
        /\ cell.ondisk = "remote" => cell.usermd \in Md /\ SizeOf(cell.usermd) = Len(obj.data)

SInv == LocalOK /\ SizesOK

\* The metadata that chmod writes into the bucket have a size.
SizedOK ==
    /\ obj # NoFile /\ (~job.foreign \/ wanted # None) => obj.md.size # None
    /\ cell.usermd # NoMd => cell.usermd.size # None

\* A chmod on its way has changed the cell and the cache file.
ChangingOK ==
    \A c \in Clients : At(c, "setattr") =>
        /\ cell.usermd.attr = th[c].attr
        /\ Cached => inode[name].attr = th[c].attr

Changing == \E c \in Clients : At(c, "setattr")

\* The attribute last set with success is that of the object, of what is being
\* downloaded or sent and, but for a chmod on its way, of the metadata of a
\* remote cell and of the cache file.
WantedOK ==
    wanted # None =>
        /\ "chattr" \in job.asks
        /\ obj # NoFile /\ obj.md.attr = wanted
        /\ cell.ondisk = "remote" => cell.usermd \in Md /\ (Changing \/ cell.usermd.attr = wanted)
        /\ Cached => Changing \/ inode[name].attr = wanted
        /\ \A c \in Clients :
              /\ At(c, "fill") => inode[th[c].ino].attr = wanted
              /\ At(c, "put")  => th[c].attr = wanted

AInv == Keeping => /\ job.field = "owner" \/ job.foreign => ~Cached
                   /\ SizedOK /\ ChangingOK /\ WantedOK

TInv == SInv /\ AInv

-----------------------------------------------------------------------------
(* Steps that leave what is told.                                           *)

\* Attributes are kept only by requests one at a time, or not looked at.
LEMMA KeptInTurn ==
    ASSUME DInv, TInv, Keeping, wanted # None \/ \E c \in Clients : At(c, "setattr")
    PROVE  /\ ~job.overlap
           /\ Cached => name \in Inodes /\ Behind = inode[name] /\ file[cell.fd].ino = name
                        /\ cell.fd \in Fds /\ cell.ondisk = "local"
<1>1. "chattr" \in job.asks
  BY DEF TInv, AInv, WantedOK, DInv, RequestOK
<1>2. ~job.overlap
  BY <1>1 DEF DInv, Sound
<1>3. Cached => name \in Inodes /\ file[cell.fd].ino = name /\ cell.ondisk = "local"
  BY <1>2 DEF DInv, InTurn, TInv, SInv, LocalOK
<1> QED
  BY <1>2, <1>3, BehindIs

\* Neither the object, nor the metadata, nor an attribute changes.
LEMMA Stays ==
    ASSUME DInv, TInv, UNCHANGED <<job, obj, name, wanted>>,
           cell'.fd = cell.fd, cell'.usermd = cell.usermd,
           cell'.ondisk = cell.ondisk \/ (cell'.ondisk = "local" /\ Cached),
           \A i \in Inodes : inode'[i].attr = inode[i].attr,
           \A c \in Clients :
              /\ At(c, "stat")' => At(c, "stat") \/ ~Cached
              /\ At(c, "setattr")' <=> At(c, "setattr")
              /\ At(c, "setattr") => th'[c].attr = th[c].attr
              /\ At(c, "fill")' => At(c, "fill") /\ th'[c].ino = th[c].ino
              /\ At(c, "put")' => \/ At(c, "put") /\ th'[c].attr = th[c].attr
                                  \/ Cached /\ ~Changing /\ th'[c].attr = Behind.attr
    PROVE  TInv'
<1>1. Cached' = Cached
  BY DEF Cached
<1>2. LocalOK'
  BY <1>1 DEF TInv, SInv, LocalOK
<1>3. SizesOK'
  BY DEF TInv, SInv, SizesOK, SizeOf
<1>4. SUFFICES ASSUME Keeping PROVE AInv'
  BY <1>2, <1>3 DEF TInv, SInv, AInv, Keeping
<1>5. SizedOK /\ ChangingOK /\ WantedOK /\ (job.field = "owner" \/ job.foreign => ~Cached)
  BY <1>4 DEF TInv, AInv
<1>6. SizedOK'
  BY <1>5 DEF SizedOK
<1>7. ChangingOK'
  <2> SUFFICES ASSUME NEW c \in Clients, At(c, "setattr")
               PROVE  /\ cell'.usermd.attr = th'[c].attr
                      /\ Cached' => inode'[name'].attr = th'[c].attr
    BY DEF ChangingOK
  <2>1. Cached => name \in Inodes
    BY <1>4, KeptInTurn
  <2> QED
    BY <1>1, <1>5, <2>1 DEF ChangingOK
<1>8. WantedOK'
  <2> SUFFICES ASSUME wanted # None PROVE WantedOK'
    BY DEF WantedOK
  <2>1. Cached => name \in Inodes /\ Behind = inode[name]
    BY <1>4, KeptInTurn
  <2>2. Changing' = Changing
    BY DEF Changing
  <2>3. \A c \in Clients : At(c, "fill") => th[c].ino \in Inodes
    BY DEF DInv, RequestOK
  <2>4. \A c \in Clients : At(c, "fill")' => inode'[th'[c].ino].attr = wanted
    BY <1>5, <2>3 DEF WantedOK
  <2>5. \A c \in Clients : At(c, "put")' => th'[c].attr = wanted
    BY <1>5, <2>1 DEF WantedOK
  <2>6. cell'.ondisk = "remote" => cell'.usermd \in Md /\ (Changing \/ cell'.usermd.attr = wanted)
    BY <1>5 DEF WantedOK
  <2>7. Cached' => Changing \/ inode'[name'].attr = wanted
    BY <1>1, <1>5, <2>1 DEF WantedOK
  <2> QED
    BY <1>5, <2>2, <2>4, <2>5, <2>6, <2>7 DEF WantedOK
<1> QED
  BY <1>1, <1>4, <1>5, <1>6, <1>7, <1>8 DEF AInv

\* Nothing is remembered, and no request is on its way.
LEMMA Forgotten ==
    ASSUME DInv, TInv, UNCHANGED <<job, obj, wanted>>, Forget,
           \A c \in Clients : th'[c].pc = "idle"
    PROVE  TInv'
<1>1. ~Cached' /\ cell'.ondisk = "unset" /\ cell'.usermd = NoMd
  BY DEF Forget, NoCell, Cached
<1>2. \A c \in Clients : \A l \in {"stat", "setattr", "fill", "put"} : ~At(c, l)'
  BY DEF At
<1>3. LocalOK' /\ SizesOK'
  BY <1>1 DEF TInv, SInv, LocalOK, SizesOK
<1>4. SUFFICES ASSUME Keeping PROVE AInv'
  BY <1>3 DEF TInv, SInv, AInv, Keeping
<1>5. SizedOK' /\ ChangingOK' /\ WantedOK'
  BY <1>1, <1>2, <1>4 DEF TInv, AInv, SizedOK, ChangingOK, WantedOK
<1> QED
  BY <1>1, <1>5 DEF AInv

\* There is a local copy now, and either the attributes need not be kept or
\* the object and the metadata stay.
LEMMA NowLocal ==
    ASSUME DInv, TInv, job' = job, Cached', cell'.ondisk = "local",
           obj' = obj \/ (obj' # NoFile => SizeOf(obj'.md) = Len(obj'.data)),
           ~job.overlap => \A c \in Clients : ~At(c, "stat")',
           Keeping => AInv'
    PROVE  TInv'
<1>1. LocalOK'
  BY DEF LocalOK
<1>2. SizesOK'
  BY DEF TInv, SInv, SizesOK
<1>3. ~Keeping => AInv'
  BY DEF AInv, Keeping
<1> QED
  BY <1>1, <1>2, <1>3 DEF TInv, SInv

LEMMA StatTells == ASSUME DInv, TInv, NEW c \in Clients, Stat(c) PROVE TInv'
<1> USE DEF Stat, MayAsk, At
<1>1. th[c].pc = "idle" /\ cell' = [cell EXCEPT !.mem = TRUE] /\ cell \in Cell
      /\ UNCHANGED <<job, obj, inode, name, wanted>>
  BY DEF DInv, TypeOK
<1>2. cell'.fd = cell.fd /\ cell'.usermd = cell.usermd /\ cell'.ondisk = cell.ondisk
  BY <1>1 DEF Cell
<1>3. \/ th' = th
      \/ cell.ondisk = "unset" /\ th' = [th EXCEPT ![c] = [th[c] EXCEPT !.pc = "stat", !.src = obj]]
  BY DEF DInv, TypeOK
<1>4. \/ th' = th
      \/ /\ cell.ondisk = "unset" /\ th'[c].pc = "stat"
         /\ \A d \in Clients \ {c} : th'[d] = th[d]
  BY <1>1, <1>3 DEF DInv, TypeOK, Request
<1>5. cell.ondisk = "unset" => ~Cached
  BY DEF DInv, CellOK
<1> HIDE DEF Stat, MayAsk
<1> QED
  BY <1>1, <1>2, <1>4, <1>5, Stays

LEMMA ExpireTells == ASSUME DInv, TInv, Expire PROVE TInv'
<1>1. UNCHANGED <<job, obj, name, wanted, cell, inode, th>>
  BY DEF Expire
<1> QED
  BY <1>1, Stays DEF At

LEMMA OpenAgainTells ==
    ASSUME DInv, TInv, NEW c \in Clients, NEW a \in Asks, OpenAgain(c, a)
    PROVE  TInv'
<1>1. /\ th[c].pc = "idle" /\ Cached /\ cell' = [cell EXCEPT !.ondisk = "local"] /\ cell \in Cell
      /\ UNCHANGED <<job, obj, inode, name, wanted>> /\ Hold(c, a)
  BY DEF DInv, TypeOK, OpenAgain, MayAsk, At
<1>2. cell'.fd = cell.fd /\ cell'.usermd = cell.usermd /\ cell'.ondisk = "local"
  BY <1>1 DEF Cell
<1>3. th'[c].pc = "held" /\ \A d \in Clients \ {c} : th'[d] = th[d]
  BY <1>1, HoldIs DEF DInv
<1> QED
  BY <1>1, <1>2, <1>3, Stays DEF At

LEMMA OpenFetchTells ==
    ASSUME DInv, TInv, NEW c \in Clients, NEW a \in Asks, OpenFetch(c, a)
    PROVE  TInv'
<1> DEFINE r == [Idle EXCEPT !.pc = "get", !.ask = a]
<1>1. /\ th[c].pc = "idle" /\ cell' = [cell EXCEPT !.mem = TRUE] /\ cell \in Cell
      /\ UNCHANGED <<job, obj, inode, name, wanted>> /\ th' = [th EXCEPT ![c] = r]
  BY DEF DInv, TypeOK, OpenFetch, MayAsk, At
<1>2. cell'.fd = cell.fd /\ cell'.usermd = cell.usermd /\ cell'.ondisk = cell.ondisk
  BY <1>1 DEF Cell
<1>3. r.pc = "get"
  BY DEF Idle
<1> HIDE DEF r
<1>4. th'[c].pc = "get" /\ \A d \in Clients \ {c} : th'[d] = th[d]
  BY <1>1, <1>3 DEF DInv, TypeOK
<1> QED
  BY <1>1, <1>2, <1>4, Stays DEF At

LEMMA CloseReaderTells == ASSUME DInv, TInv, NEW c \in Clients, CloseReader(c) PROVE TInv'
<1>1. th[c].pc = "held" /\ UNCHANGED <<job, obj, cell, inode, name, wanted>> /\ th' = [th EXCEPT ![c] = Idle]
  BY DEF CloseReader, Return, At
<1>2. th'[c].pc = "idle" /\ \A d \in Clients \ {c} : th'[d] = th[d]
  BY <1>1, IdleIs DEF DInv, TypeOK
<1> QED
  BY <1>1, <1>2, Stays DEF At

\* A failed download assigns -1 to a descriptor that is -1.
LEMMA GetFailsTells == ASSUME DInv, TInv, NEW c \in Clients, GetFails(c) PROVE TInv'
<1>1. /\ th[c].pc \in {"get", "fill"} /\ UNCHANGED <<job, obj, inode, name, wanted>>
      /\ th' = [th EXCEPT ![c] = Idle]
      /\ cell' = [cell EXCEPT !.fd = NoFd, !.pinned = TRUE] /\ cell \in Cell
  BY DEF GetFails, Fetching, Return, DInv, TypeOK
<1>2. ~Cached
  BY <1>1 DEF DInv, RequestOK, Sound, Fails, Fetching, InTurn, GetFails
<1>3. cell'.fd = cell.fd /\ cell'.usermd = cell.usermd /\ cell'.ondisk = cell.ondisk
  BY <1>1, <1>2 DEF Cell, Cached
<1>4. th'[c].pc = "idle" /\ \A d \in Clients \ {c} : th'[d] = th[d]
  BY <1>1, IdleIs DEF DInv, TypeOK
<1> QED
  BY <1>1, <1>3, <1>4, Stays DEF At

\* Writes and downloads change data and no attribute.
LEMMA OnlyData ==
    ASSUME DInv, NEW n \in Inodes, NEW s, inode' = [inode EXCEPT ![n].data = s]
    PROVE  \A i \in Inodes : inode'[i].attr = inode[i].attr
<1> DEFINE x == [inode[n] EXCEPT !.data = s]
<1>1. inode[n] \in CacheFile /\ inode \in [Inodes -> CacheFile]
  BY DEF DInv, TypeOK
<1>2. x.attr = inode[n].attr
  BY <1>1 DEF CacheFile
<1>3. inode' = [inode EXCEPT ![n] = x]
  OBVIOUS
<1> HIDE DEF x
<1> QED
  BY <1>1, <1>2, <1>3

LEMMA WriteTells == ASSUME DInv, TInv, NEW c \in Clients, Write(c) PROVE TInv'
<1>1. UNCHANGED <<job, obj, cell, name, th, wanted>> /\ file[cell.fd].ino \in Inodes
  BY BehindIs DEF Write
<1>2. PICK v \in Values, i \in 1..MaxBlocks :
          inode' = [inode EXCEPT ![file[cell.fd].ino].data = PutAt(@, i, v)]
  BY DEF Write
<1> DEFINE s == PutAt(inode[file[cell.fd].ino].data, i, v)
<1>3. inode' = [inode EXCEPT ![file[cell.fd].ino].data = s]
  BY <1>2
<1> HIDE DEF s
<1>4. \A j \in Inodes : inode'[j].attr = inode[j].attr
  BY <1>1, <1>3, OnlyData
<1> QED
  BY <1>1, <1>4, Stays DEF At

LEMMA GetBlockTells == ASSUME DInv, TInv, NEW c \in Clients, GetBlock(c) PROVE TInv'
<1> DEFINE n == th[c].ino
           s == PutAt(inode[n].data, th[c].pos, th[c].src.data[th[c].pos])
<1>1. /\ UNCHANGED <<job, obj, cell, name, wanted>> /\ n \in Inodes /\ th[c].pc = "fill"
      /\ inode' = [inode EXCEPT ![n].data = s]
      /\ th' = [th EXCEPT ![c] = [th[c] EXCEPT !.pos = @ + 1]]
  BY FillIs DEF GetBlock, At
<1>2. /\ th'[c].pc = "fill" /\ th'[c].ino = n
      /\ \A d \in Clients \ {c} : th'[d] = th[d]
  BY <1>1 DEF DInv, TypeOK, Request
<1> HIDE DEF s
<1>3. \A i \in Inodes : inode'[i].attr = inode[i].attr
  BY <1>1, OnlyData
<1> QED
  BY <1>1, <1>2, <1>3, Stays DEF At

LEMMA CloseWriterTells == ASSUME DInv, TInv, NEW c \in Clients, CloseWriter(c) PROVE TInv'
<1>1. /\ th[c].pc = "held" /\ Writing(c) /\ Cached
      /\ UNCHANGED <<job, obj, cell, inode, name, wanted>>
  BY DEF CloseWriter, DInv, RequestOK, Writing, At
<1>2. ~Changing
  BY <1>1, WriterIs DEF CloseWriter, Quiet, Changing, At
<1>3. PICK z \in Compressed :
          th' = [th EXCEPT ![c] = [th[c] EXCEPT
                    !.pc = "put", !.fd = cell.fd, !.zip = z,
                    !.size = Len(Behind.data), !.attr = Behind.attr,
                    !.sent = IF z THEN inode[name].data ELSE <<>>]]
  BY DEF CloseWriter
<1>4. th'[c].pc = "put" /\ th'[c].attr = Behind.attr /\ \A d \in Clients \ {c} : th'[d] = th[d]
  BY <1>3 DEF DInv, TypeOK, Request
<1> QED
  BY <1>1, <1>2, <1>4, Stays DEF At

LEMMA PutBlockTells == ASSUME DInv, TInv, NEW c \in Clients, PutBlock(c) PROVE TInv'
<1> DEFINE s == Append(th[c].sent, inode[file[th[c].fd].ino].data[file[th[c].fd].off + 1])
<1>1. /\ th[c].pc = "put" /\ UNCHANGED <<job, obj, cell, inode, name, wanted>>
      /\ th' = [th EXCEPT ![c] = [th[c] EXCEPT !.sent = s]]
  BY DEF PutBlock, At
<1> HIDE DEF s
<1>2. /\ th'[c].pc = "put" /\ th'[c].attr = th[c].attr
      /\ \A d \in Clients \ {c} : th'[d] = th[d]
  BY <1>1 DEF DInv, TypeOK, Request
<1> QED
  BY <1>1, <1>2, Stays DEF At

-----------------------------------------------------------------------------
(* Steps that drop, make or fetch the local copy.                           *)

LEMMA ForgetTells == ASSUME DInv, TInv, Collect \/ Remount \/ Crash PROVE TInv'
<1>1. UNCHANGED <<job, obj, wanted>> /\ Forget
  BY DEF Collect, Remount, Crash
<1>2. \A c \in Clients : th'[c].pc = "idle"
  BY IdleIs DEF Collect, Remount, Crash, AllIdle, At
<1> QED
  BY <1>1, <1>2, Forgotten

\* A job that writes keeps no attribute.
LEMMA CreateTells == ASSUME Room, DInv, TInv, NEW c \in Clients, Create(c) PROVE TInv'
<1> USE DEF MayAsk, At
<1>1. /\ ~job.overlap /\ Quiet /\ "write" \in job.asks /\ obj = NoFile /\ cell \in Cell
      /\ job' = job
  BY ReadersOnly DEF DInv, TypeOK, Create
<1> DEFINE attr == IF job.field = "mode" THEN Own ELSE CacheAttr
           made == NewObject
<1>2. attr \in Attrs
  BY CacheAttrIs DEF Attrs
<1> HIDE DEF attr
<1>3. PICK pinned \in {FALSE} \union (IF Fails("mknod") THEN {TRUE} ELSE {}) :
          /\ Truncate([cell EXCEPT !.usermd = CreatedMd(attr), !.pinned = pinned \/ @], attr)
          /\ IF pinned THEN obj' \in {obj, made} /\ UNCHANGED th
             ELSE obj' = made /\ Hold(c, "write")
  BY DEF Create, attr
<1> DEFINE e == [cell EXCEPT !.usermd = CreatedMd(attr), !.pinned = pinned \/ @]
<1>4. e \in Cell
  BY <1>1, <1>2, Metadata DEF Cell
<1>5. Truncate(e, attr)
  BY <1>3
<1> HIDE DEF e
<1>6. cell'.fd # NoFd /\ cell'.ondisk = "local"
  BY <1>2, <1>4, <1>5, Truncated
<1>7. SizeOf(made.md) = Len(made.data)
  BY EmptyContents DEF SizeOf, NewObject, EmptyMd
<1> HIDE DEF made
<1>8. obj' = obj \/ obj' = made
  BY <1>3
<1>9. \A d \in Clients : th'[d].pc \in {"idle", "held"}
  <2>1. \/ th' = th
        \/ th'[c].pc = "held" /\ \A d \in Clients \ {c} : th'[d] = th[d]
    BY <1>3, HoldIs DEF DInv, Asks
  <2> QED
    BY <1>1, <2>1 DEF Quiet
<1>10. ~Keeping
  BY <1>1 DEF Keeping
<1> QED
  BY <1>1, <1>6, <1>7, <1>8, <1>9, <1>10, NowLocal DEF Cached

LEMMA OpenCreatTells == ASSUME Room, DInv, TInv, NEW c \in Clients, OpenCreat(c) PROVE TInv'
<1>1. ~job.overlap /\ Quiet /\ "write" \in job.asks /\ cell \in Cell /\ UNCHANGED <<job, obj>>
  BY ReadersOnly DEF DInv, TypeOK, OpenCreat, MayAsk
<1>2. cell'.fd # NoFd /\ cell'.ondisk = "local"
  BY <1>1, CacheAttrIs, Truncated DEF OpenCreat
<1>3. th'[c].pc = "held" /\ \A d \in Clients \ {c} : th'[d] = th[d]
  BY HoldIs DEF DInv, Asks, OpenCreat
<1>4. ~Keeping /\ \A d \in Clients : ~At(d, "stat")'
  BY <1>1, <1>3 DEF Keeping, Quiet, At
<1> QED
  BY <1>1, <1>2, <1>4, NowLocal DEF Cached

\* What is compressed keeps no attribute.
LEMMA GetUnzipsTells == ASSUME Room, DInv, TInv, NEW c \in Clients, GetUnzips(c) PROVE TInv'
<1>1. /\ At(c, "fill") /\ UNCHANGED <<job, obj>> /\ GetOpens(c, NewInode)
      /\ obj # NoFile /\ obj.zipped
  BY FillIs DEF GetUnzips
<1>2. job.zlib /\ ~job.overlap
  BY <1>1 DEF DInv, MarksOK
<1>3. /\ cell'.fd # NoFd /\ cell'.ondisk = "local"
      /\ th'[c].pc = "held" /\ \A d \in Clients \ {c} : th'[d] = th[d]
  BY <1>1, InodeLeft, GetOpensIs
<1>4. \A d \in Clients : ~At(d, "stat")'
  BY <1>1, <1>2, <1>3, OthersWait DEF At, Busy
<1>5. ~Keeping
  BY <1>2 DEF Keeping
<1> QED
  BY <1>1, <1>2, <1>3, <1>4, <1>5, NowLocal DEF Cached

\* The file that is opened has the attribute that the download gave it.
LEMMA GetPlainTells == ASSUME Room, DInv, TInv, NEW c \in Clients, GetPlain(c) PROVE TInv'
<1>1. /\ At(c, "fill") /\ UNCHANGED <<job, obj, inode, name, wanted>> /\ GetOpens(c, name)
      /\ th[c].ino \in Inodes /\ th[c].ask \in {"read", "append"} /\ th[c].ask \in job.asks
  BY FillIs DEF GetPlain
<1>2. name \in Inodes
  BY <1>1 DEF DInv, InTurn, Together, TypeOK, RequestOK, Cached
<1>3. /\ cell'.fd # NoFd /\ cell'.ondisk = "local" /\ cell'.usermd = cell.usermd
      /\ th'[c].pc = "held" /\ \A d \in Clients \ {c} : th'[d] = th[d]
  BY <1>1, <1>2, GetOpensIs
<1>4. ~job.overlap => \A d \in Clients : th'[d].pc \in {"idle", "held"}
  BY <1>1, <1>3, OthersWait DEF At, Busy
<1>5. ASSUME Keeping PROVE AInv'
  <2>1. SizedOK /\ WantedOK /\ ~(job.field = "owner" \/ job.foreign)
    BY <1>1, <1>5 DEF TInv, AInv, Keeping
  <2>2. SizedOK'
    BY <1>1, <1>3, <2>1 DEF SizedOK
  <2>3. ChangingOK'
    <3>1. \A d \in Clients : ~At(d, "setattr")
      BY <1>1, OthersWait, ReadersOnly DEF At, Busy
    <3> QED
      BY <1>3, <3>1 DEF ChangingOK, At
  <2>4. WantedOK'
    <3> SUFFICES ASSUME wanted # None PROVE WantedOK'
      BY <1>1 DEF WantedOK
    <3>1. ~job.overlap /\ name = th[c].ino
      BY <1>1, <1>5, KeptInTurn DEF DInv, InTurn
    <3>2. inode[name].attr = wanted
      BY <1>1, <2>1, <3>1 DEF WantedOK
    <3> QED
      BY <1>1, <1>3, <1>4, <2>1, <3>1, <3>2 DEF WantedOK, At
  <2> QED
    BY <1>1, <2>1, <2>2, <2>3, <2>4 DEF AInv
<1>6. ~job.overlap => \A d \in Clients : ~At(d, "stat")'
  BY <1>4 DEF At
<1> QED
  BY <1>1, <1>3, <1>5, <1>6, NowLocal DEF Cached

-----------------------------------------------------------------------------
(* Steps that change what is told.                                          *)

\* getattr_unset takes the metadata of the object if they have a size.
LEMMA HeadersTell ==
    ASSUME NEW o \in Object
    PROVE  /\ FromHeaders(o).size # None
           /\ SizeOf(o.md) = Len(o.data) => SizeOf(FromHeaders(o)) = Len(o.data)
           /\ o.md.size # None => FromHeaders(o) = o.md
<1>1. Len(o.data) \in 0..MaxBlocks
  BY WholeIs DEF Object
<1> QED
  BY <1>1, NoneAssumption DEF FromHeaders, SizeOf

LEMMA StatFillTells == ASSUME DInv, TInv, NEW c \in Clients, StatFill(c) PROVE TInv'
<1> DEFINE m == FromHeaders(obj)
<1>1. /\ th[c].pc = "stat" /\ th[c].src = obj /\ obj \in Object /\ obj # NoFile /\ cell \in Cell
      /\ m \in Md /\ UNCHANGED <<job, obj, file, inode, name, wanted>>
      /\ th' = [th EXCEPT ![c] = Idle]
  BY Metadata DEF DInv, RequestOK, TypeOK, StatFill, At, Return
<1>2. m.size # None /\ (SizeOf(obj.md) = Len(obj.data) => SizeOf(m) = Len(obj.data))
      /\ (obj.md.size # None => m = obj.md)
  BY <1>1, HeadersTell
<1>3. cell' = [cell EXCEPT !.usermd = m, !.ondisk = "remote"]
  BY <1>1 DEF StatFill
<1> HIDE DEF m
<1>4. cell'.fd = cell.fd /\ cell'.usermd = m /\ cell'.ondisk = "remote"
  BY <1>1, <1>3 DEF Cell
<1>5. /\ \A d \in Clients \ {c} : th'[d] = th[d]
      /\ \A l \in {"stat", "setattr", "fill", "put"} : ~At(c, l)'
  BY <1>1, IdleIs DEF DInv, TypeOK, At
<1>6. Cached' = Cached
  BY <1>4 DEF Cached
<1>7. LocalOK'
  BY <1>1, <1>4, <1>5, <1>6 DEF TInv, SInv, LocalOK, At
<1>8. SizesOK'
  BY <1>1, <1>2, <1>4 DEF TInv, SInv, SizesOK
<1>9. ASSUME Keeping PROVE AInv'
  <2>1. SizedOK /\ WantedOK /\ (job.field = "owner" \/ job.foreign => ~Cached)
    BY <1>9 DEF TInv, AInv
  <2>2. SizedOK'
    BY <1>1, <1>2, <1>4, <2>1 DEF SizedOK
  <2>3. ChangingOK'
    <3>1. \A d \in Clients : ~At(d, "setattr")'
      BY <1>1, <1>5, OthersWait, ReadersOnly DEF At, Busy
    <3> QED
      BY <3>1 DEF ChangingOK
  <2>4. WantedOK'
    <3> SUFFICES ASSUME wanted # None PROVE WantedOK'
      BY <1>1 DEF WantedOK
    <3>1. ~job.overlap /\ ~Cached
      BY <1>1, <1>9, KeptInTurn DEF TInv, SInv, LocalOK, At
    <3>2. obj.md.attr = wanted /\ m = obj.md /\ "chattr" \in job.asks
      BY <1>1, <1>2, <2>1 DEF WantedOK, SizedOK
    <3>3. \A d \in Clients : ~At(d, "fill")' /\ ~At(d, "put")'
      BY <1>1, <1>5, <3>1, OthersWait DEF At, Busy
    <3> QED
      BY <1>1, <1>4, <1>6, <3>1, <3>2, <3>3 DEF WantedOK
  <2> QED
    BY <1>1, <1>6, <2>1, <2>2, <2>3, <2>4 DEF AInv
<1>10. ~Keeping => AInv'
  BY <1>1 DEF AInv, Keeping
<1> QED
  BY <1>7, <1>8, <1>9, <1>10 DEF TInv, SInv

LEMMA GetStartTells == ASSUME Room, DInv, TInv, NEW c \in Clients, GetStart(c) PROVE TInv'
<1> DEFINE n == NewInode
           x == [data |-> <<>>, zipped |-> obj.zipped,
                 attr |-> IF job.field = "mode" /\ obj.md.attr # None THEN obj.md.attr ELSE Own]
<1>1. /\ th[c].pc = "get" /\ obj # NoFile /\ obj \in Object /\ obj.md \in Md /\ cell \in Cell
      /\ th[c].ask \in {"read", "append"} /\ th[c].ask \in job.asks
      /\ UNCHANGED <<job, obj, wanted>>
      /\ cell' = [cell EXCEPT !.usermd = obj.md] /\ inode' = [inode EXCEPT ![n] = x]
      /\ th' = [th EXCEPT ![c] = [th[c] EXCEPT !.pc = "fill", !.src = obj, !.ino = n]]
  BY DEF DInv, TypeOK, Object, RequestOK, At, GetStart
<1>2. n \in Inodes /\ job \in Job
  BY InodeLeft, JobsAssumption DEF DInv, TypeOK
<1> HIDE DEF n
<1>3. inode'[n].attr = (IF job.field = "mode" /\ obj.md.attr # None THEN obj.md.attr ELSE Own)
  BY <1>1, <1>2 DEF DInv, TypeOK
<1>4. cell'.fd = cell.fd /\ cell'.usermd = obj.md /\ cell'.ondisk = cell.ondisk
  BY <1>1 DEF Cell
<1>5. /\ th'[c].pc = "fill" /\ th'[c].ino = n
      /\ \A d \in Clients \ {c} : th'[d] = th[d]
  BY <1>1, <1>2 DEF DInv, TypeOK, Request
<1>6. Cached' = Cached
  BY <1>4 DEF Cached
<1>7. LocalOK'
  BY <1>1, <1>4, <1>5, <1>6 DEF TInv, SInv, LocalOK, At
<1>8. SizesOK'
  BY <1>1, <1>4 DEF TInv, SInv, SizesOK
<1>9. ASSUME Keeping PROVE AInv'
  <2>1. SizedOK /\ WantedOK /\ ~(job.field = "owner" \/ job.foreign) /\ job.field = "mode"
    BY <1>1, <1>2, <1>9 DEF TInv, AInv, Keeping, Job
  <2>2. SizedOK'
    BY <1>1, <1>4, <2>1 DEF SizedOK
  <2>3. \A d \in Clients : ~At(d, "setattr")' /\ ~At(d, "put")'
    BY <1>1, <1>5, OthersWait, ReadersOnly DEF At, Busy
  <2>4. ChangingOK'
    BY <2>3 DEF ChangingOK
  <2>5. WantedOK'
    <3> SUFFICES ASSUME wanted # None PROVE WantedOK'
      BY <1>1 DEF WantedOK
    <3>1. ~job.overlap /\ ~Cached
      BY <1>1, <1>9, KeptInTurn DEF DInv, InTurn, Fetching
    <3>2. obj.md.attr = wanted /\ inode'[n].attr = wanted /\ "chattr" \in job.asks
      BY <1>3, <2>1 DEF WantedOK
    <3>3. \A d \in Clients : At(d, "fill")' => d = c
      BY <1>1, <1>5, <3>1, OthersWait DEF At, Busy
    <3> QED
      BY <1>1, <1>4, <1>5, <1>6, <2>3, <3>1, <3>2, <3>3 DEF WantedOK
  <2> QED
    BY <1>1, <2>1, <2>2, <2>4, <2>5 DEF AInv
<1>10. ~Keeping => AInv'
  BY <1>1 DEF AInv, Keeping
<1> QED
  BY <1>7, <1>8, <1>9, <1>10 DEF TInv, SInv

\* dfs_release uploads the attribute of the cache file, and as many blocks as
\* it says in the metadata.
LEMMA UploadTells ==
    ASSUME DInv, TInv, NEW c \in Clients, At(c, "put"), PutReturns(c),
           Len(th[c].sent) >= th[c].size, obj' = Uploaded(th[c]),
           UNCHANGED <<job, cell, inode, name, wanted>>
    PROVE  TInv'
<1> DEFINE md == [attr |-> th[c].attr, size |-> th[c].size, mark |-> th[c].zip]
           put == [data |-> Kept(th[c]), zipped |-> th[c].zip, md |-> md]
<1>1. obj' = put
  BY DEF Uploaded
<1>2. /\ ~job.overlap /\ Cached /\ th[c].sent \in Contents /\ th[c].size \in 0..MaxBlocks
      /\ Len(th[c].sent) \in 0..MaxBlocks
      /\ \A d \in Clients \ {c} : th[d].pc \in {"idle", "held"}
  BY <1>1, PutIs
<1>3. Kept(th[c]) \in Contents /\ Len(Kept(th[c])) = th[c].size
  BY <1>1, <1>2, Parts DEF Kept
<1>4. /\ put.data = Kept(th[c]) /\ put.md = md /\ md.attr = th[c].attr /\ md.size = th[c].size
      /\ md.size # None
  BY <1>2, NoneAssumption
<1>5. put # NoFile
  <2>1. th[c].zip \in BOOLEAN /\ th[c].attr \in Attrs
    BY TypedRequest DEF DInv
  <2>2. md \in Md
    BY <1>2, <2>1 DEF Md
  <2> HIDE DEF md
  <2>3. put \in Object
    BY <1>3, <2>1, <2>2 DEF Object
  <2> QED
    BY <2>3, NoFileAssumption
<1> HIDE DEF put, md
<1>6. cell.ondisk = "local"
  BY <1>2 DEF TInv, SInv, LocalOK
<1>7. Cached' = Cached
  BY <1>1 DEF Cached
<1>8. \A d \in Clients : th'[d].pc \in {"idle", "held"}
  BY <1>1, <1>2, IdleIs DEF PutReturns, Return, DInv, TypeOK
<1>9. SizeOf(put.md) = Len(put.data)
  BY <1>3, <1>4 DEF SizeOf
<1>10. ASSUME Keeping PROVE AInv'
  <2>1. SizedOK /\ WantedOK /\ ~(job.field = "owner" \/ job.foreign)
    BY <1>2, <1>10 DEF TInv, AInv
  <2>2. SizedOK'
    BY <1>1, <1>4, <2>1 DEF SizedOK
  <2>3. ChangingOK'
    BY <1>8 DEF ChangingOK, At
  <2>4. WantedOK'
    <3> SUFFICES ASSUME wanted # None PROVE WantedOK'
      BY <1>1 DEF WantedOK
    <3>1. ~Changing
      BY <1>1, <1>2 DEF Changing, At
    <3>2. /\ "chattr" \in job.asks /\ th[c].attr = wanted /\ inode[name].attr = wanted
      BY <1>1, <1>2, <2>1, <3>1 DEF WantedOK
    <3> QED
      BY <1>1, <1>4, <1>5, <1>6, <1>8, <3>2 DEF WantedOK, At
  <2> QED
    BY <1>1, <2>1, <2>2, <2>3, <2>4 DEF AInv
<1> QED
  BY <1>1, <1>2, <1>6, <1>7, <1>8, <1>9, <1>10, NowLocal DEF At

LEMMA PutEndTells == ASSUME DInv, TInv, NEW c \in Clients, PutEnd(c) PROVE TInv'
  BY UploadTells DEF PutEnd

\* An upload that fails leaves the object as it was, or has replaced it.
LEMMA PutFailsTells == ASSUME DInv, TInv, NEW c \in Clients, PutFails(c) PROVE TInv'
<1>1. /\ At(c, "put") /\ PutReturns(c) /\ UNCHANGED <<job, cell, inode, name, wanted>>
      /\ \/ obj' = obj
         \/ Len(th[c].sent) >= th[c].size /\ obj' = Uploaded(th[c])
  BY DEF PutFails
<1>2. CASE obj' = obj
  <2>1. th[c].pc = "put" /\ th' = [th EXCEPT ![c] = Idle]
    BY <1>1 DEF PutReturns, Return, At
  <2>2. th'[c].pc = "idle" /\ \A d \in Clients \ {c} : th'[d] = th[d]
    BY <2>1, IdleIs DEF DInv, TypeOK
  <2> QED
    BY <1>1, <1>2, <2>1, <2>2, Stays DEF At
<1>3. CASE Len(th[c].sent) >= th[c].size /\ obj' = Uploaded(th[c])
  BY <1>1, <1>3, UploadTells
<1> QED
  BY <1>1, <1>2, <1>3

LEMMA ChattrTells ==
    ASSUME DInv, TInv, NEW c \in Clients, NEW a \in Attrs, Chattr(c, a)
    PROVE  TInv'
<1>1. /\ ~job.overlap /\ Quiet /\ "chattr" \in job.asks /\ cell \in Cell /\ cell.usermd \in Md
      /\ job \in Job /\ UNCHANGED <<job, obj, file, name, wanted>>
      /\ th' = [th EXCEPT ![c] = [th[c] EXCEPT !.pc = "setattr", !.attr = a]]
  BY ReadersOnly, JobsAssumption DEF DInv, TypeOK, Cell, Chattr, MayAsk
<1> DEFINE m == [cell.usermd EXCEPT !.attr = a]
<1>2. m \in Md /\ m.attr = a /\ m.size = cell.usermd.size /\ cell' = [cell EXCEPT !.usermd = m]
  BY <1>1 DEF Md, Chattr
<1> HIDE DEF m
<1>3. cell'.fd = cell.fd /\ cell'.usermd = m /\ cell'.ondisk = cell.ondisk
  BY <1>1, <1>2 DEF Cell
<1>4. /\ th'[c].pc = "setattr" /\ th'[c].attr = a
      /\ \A d \in Clients \ {c} : th'[d] = th[d] /\ th[d].pc \in {"idle", "held"}
  BY <1>1 DEF DInv, TypeOK, Request, Quiet
<1>5. Cached' = Cached /\ Changing'
  BY <1>3, <1>4 DEF Cached, Changing, At
<1>6. LocalOK' /\ SizesOK'
  BY <1>1, <1>3, <1>4, <1>5 DEF TInv, SInv, LocalOK, SizesOK, At
<1>7. ASSUME Keeping PROVE AInv'
  <2>1. SizedOK /\ WantedOK /\ (job.field = "owner" \/ job.foreign => ~Cached)
    BY <1>7 DEF TInv, AInv
  <2>2. SizedOK'
    BY <1>1, <1>2, <1>3, <2>1, NoMdAssumption DEF SizedOK
  <2>3. Cached => inode'[name].attr = a
    <3> SUFFICES ASSUME Cached PROVE inode'[name].attr = a
      OBVIOUS
    <3>1. /\ cell.ondisk = "local" /\ file[cell.fd].ino = name /\ name \in Inodes
          /\ job.field = "mode"
      BY <1>1, <2>1 DEF DInv, InTurn, TInv, SInv, LocalOK, Job
    <3>2. inode' = [inode EXCEPT ![name].attr = a]
      BY <3>1 DEF Chattr
    <3>3. inode[name] \in CacheFile /\ inode \in [Inodes -> CacheFile]
      BY <3>1 DEF DInv, TypeOK
    <3> QED
      BY <3>1, <3>2, <3>3 DEF CacheFile
  <2>4. ChangingOK'
    BY <1>1, <1>2, <1>3, <1>4, <1>5, <2>3 DEF ChangingOK, At
  <2>5. WantedOK'
    BY <1>1, <1>2, <1>3, <1>4, <1>5, <2>1 DEF WantedOK, At
  <2> QED
    BY <1>1, <1>5, <2>1, <2>2, <2>4, <2>5 DEF AInv
<1>8. ~Keeping => AInv'
  BY <1>1 DEF AInv, Keeping
<1> QED
  BY <1>6, <1>7, <1>8 DEF TInv, SInv

\* dfs_setattr_timeout brings the object to what the cell has.
LEMMA SetAttrTells == ASSUME DInv, TInv, NEW c \in Clients, SetAttr(c) PROVE TInv'
<1>1. /\ th[c].pc = "setattr" /\ ~job.overlap /\ cell.usermd \in Md /\ "chattr" \in job.asks
      /\ UNCHANGED <<job, cell, inode, name>> /\ th' = [th EXCEPT ![c] = Idle]
  BY ReadersOnly DEF DInv, RequestOK, SetAttr, At, Return
<1>2. \A d \in Clients : th'[d].pc \in {"idle", "held"}
  BY <1>1, IdleIs, OthersWait DEF DInv, TypeOK, Busy
<1>3. \/ /\ obj # NoFile /\ obj' = [obj EXCEPT !.md = cell.usermd]
         /\ wanted' \in {th[c].attr, None}
      \/ obj' = obj /\ wanted' = None
  BY DEF SetAttr
<1>4. Cached' = Cached
  BY <1>1 DEF Cached
<1>5. LocalOK' /\ SizesOK'
  BY <1>1, <1>2, <1>4 DEF TInv, SInv, LocalOK, SizesOK, At
<1>6. ASSUME Keeping PROVE AInv'
  <2>1. SizedOK /\ ChangingOK /\ (job.field = "owner" \/ job.foreign => ~Cached)
    BY <1>6 DEF TInv, AInv
  <2>2. ChangingOK'
    BY <1>2 DEF ChangingOK, At
  <2>3. CASE obj' = obj /\ wanted' = None
    <3>1. SizedOK' /\ WantedOK'
      BY <1>1, <2>1, <2>3 DEF SizedOK, WantedOK
    <3> QED
      BY <1>1, <1>4, <2>1, <2>2, <3>1 DEF AInv
  <2>4. CASE /\ obj # NoFile /\ obj' = [obj EXCEPT !.md = cell.usermd]
             /\ wanted' \in {th[c].attr, None}
    <3>1. obj' \in Object /\ obj'.md = cell.usermd
      BY <1>1, <2>4 DEF DInv, TypeOK, Object
    <3>2. obj' # NoFile
      BY <3>1, NoFileAssumption
    <3>3. wanted' # None =>
            cell.usermd.attr = wanted' /\ (Cached => inode[name].attr = wanted')
      BY <1>1, <2>1, <2>4 DEF ChangingOK, At
    <3>4. SizedOK'
      BY <1>1, <2>1, <3>1, NoMdAssumption DEF SizedOK
    <3>5. WantedOK'
      BY <1>1, <1>2, <1>4, <3>1, <3>2, <3>3 DEF WantedOK, At
    <3> QED
      BY <1>1, <1>4, <2>1, <2>2, <3>4, <3>5 DEF AInv
  <2> QED
    BY <1>3, <2>3, <2>4
<1>7. ~Keeping => AInv'
  BY <1>1 DEF AInv, Keeping
<1> QED
  BY <1>5, <1>6, <1>7 DEF TInv, SInv

-----------------------------------------------------------------------------
(* The theorems.                                                            *)

LEMMA InitTells == ASSUME Init PROVE TInv
<1>1. /\ cell.fd = NoFd /\ cell.ondisk = "unset" /\ cell.usermd = NoMd /\ wanted = None
      /\ \A c \in Clients : th[c].pc = "idle"
  BY IdleIs DEF Init, NoCell
<1>2. obj # NoFile /\ ~job.foreign => obj.md.size = Len(obj.data) /\ obj.md.size # None
  <2> SUFFICES ASSUME obj # NoFile, ~job.foreign
               PROVE  obj.md.size = Len(obj.data) /\ obj.md.size # None
    OBVIOUS
  <2>1. PICK n \in 1..MaxBlocks :
            obj = [data |-> [i \in 1..n |-> Zero], zipped |-> FALSE,
                   md |-> [attr |-> Own, size |-> Len([i \in 1..n |-> Zero]), mark |-> FALSE]]
    BY DEF FirstObjects, Init
  <2> DEFINE d == [i \in 1..n |-> Zero]
  <2>2. d \in [1..n -> Values \union {Zero}] /\ n \in 0..MaxBlocks
    BY MaxBlocksNat
  <2>3. d \in Contents
    BY <2>2 DEF Contents
  <2>4. Len(d) \in 0..MaxBlocks
    BY <2>3, WholeIs
  <2>5. obj.data = d /\ obj.md.size = Len(d)
    BY <2>1
  <2> HIDE DEF d
  <2> QED
    BY <2>4, <2>5, NoneAssumption
<1>3. LocalOK
  BY <1>1 DEF LocalOK, Cached
<1>4. SizesOK
  BY <1>1, <1>2 DEF SizesOK, SizeOf
<1>5. AInv
  BY <1>1, <1>2 DEF AInv, SizedOK, ChangingOK, WantedOK, Cached, At
<1> QED
  BY <1>3, <1>4, <1>5 DEF TInv, SInv

LEMMA NextTells == ASSUME Room PROVE DInv /\ TInv /\ [Next]_vars => TInv'
<1> SUFFICES ASSUME DInv, TInv, [Next]_vars PROVE TInv'
  OBVIOUS
<1>1. ASSUME NEW c \in Clients, Serve(c) PROVE TInv'
  <2>1. CASE ChattrAborts(c)
    BY <2>1, ForgetTells DEF ChattrAborts
  <2>2. CASE Stat(c) \/ StatFill(c) \/ Create(c) \/ OpenCreat(c)
    BY <2>2, StatTells, StatFillTells, CreateTells, OpenCreatTells
  <2>3. CASE \E a \in Asks : OpenAgain(c, a) \/ OpenFetch(c, a)
    BY <2>3, OpenAgainTells, OpenFetchTells
  <2>4. CASE GetStart(c) \/ GetBlock(c) \/ GetUnzips(c) \/ GetPlain(c) \/ GetFails(c)
    BY <2>4, GetStartTells, GetBlockTells, GetUnzipsTells, GetPlainTells, GetFailsTells
  <2>5. CASE Write(c) \/ CloseReader(c) \/ CloseWriter(c)
    BY <2>5, WriteTells, CloseReaderTells, CloseWriterTells
  <2>6. CASE PutBlock(c) \/ PutEnd(c) \/ PutFails(c)
    BY <2>6, PutBlockTells, PutEndTells, PutFailsTells
  <2>7. CASE \E a \in Attrs : Chattr(c, a)
    BY <2>7, ChattrTells
  <2>8. CASE SetAttr(c)
    BY <2>8, SetAttrTells
  <2> QED
    BY <1>1, <2>1, <2>2, <2>3, <2>4, <2>5, <2>6, <2>7, <2>8 DEF Serve
<1>2. CASE UNCHANGED vars
  <2>1. UNCHANGED <<job, obj, name, wanted, cell, inode, th>>
    BY <1>2 DEF vars
  <2> QED
    BY <2>1, Stays DEF At
<1> QED
  BY <1>1, <1>2, ExpireTells, ForgetTells DEF Next

LEMMA AlwaysTells == ASSUME SoundJobs, Room PROVE Spec => [](DInv /\ TInv)
<1>1. Init => DInv /\ TInv
  BY InitData, InitTells
<1>2. DInv /\ TInv /\ [Next]_vars => DInv' /\ TInv'
  BY NextData, NextTells
<1> QED
  BY <1>1, <1>2, PTL DEF Spec

\* dfs_getattr tells the length of what is read, whether it answers from the
\* cache file, from the metadata of the cell or from the headers.
THEOREM SizesAreTold == ASSUME SoundJobs, Room PROVE Spec => []SizeTold
<1>1. DInv /\ TInv => SizeTold
  <2> SUFFICES ASSUME DInv, TInv, Quiet, Answer # None, Content \notin {NoFile, Garbage},
                      "chattr" \notin job.asks, ~job.foreign
               PROVE  Answer.size = Len(Content)
    BY DEF SizeTold
  <2>1. LocalOK /\ SizesOK /\ cell \in Cell
    BY DEF TInv, SInv, DInv, TypeOK
  <2>2. Content = Seen /\ \A c \in Clients : ~Fetching(c)
    BY ContentIs DEF Quiet, Fetching
  <2>3. CASE cell.ondisk = "local"
    <3>1. Cached
      BY <2>3 DEF Answer
    <3>2. Answer = [attr |-> Behind.attr, size |-> Len(Behind.data)]
      BY <2>3, <3>1 DEF Answer
    <3>3. Content = Plain(Behind)
      BY <2>2, <3>1 DEF Content
    <3> QED
      BY <3>2, <3>3 DEF Plain
  <2>4. CASE cell.ondisk # "local"
    <3>1. Seen = Decode(obj)
      BY <2>1, <2>4 DEF LocalOK, Seen
    <3>2. obj \in Object /\ obj # NoFile /\ Seen = obj.data /\ SizeOf(obj.md) = Len(obj.data)
      BY <2>1, <2>2, <3>1, Decoded DEF SizesOK
    <3>3. CASE cell.ondisk = "remote"
      BY <2>1, <2>2, <3>2, <3>3 DEF Answer, SizesOK, SizeOf
    <3>4. CASE cell.ondisk = "unset"
      <4>1. SizeOf(FromHeaders(obj)) = Len(obj.data) /\ FromHeaders(obj).size # None
        BY <3>2, HeadersTell
      <4> QED
        BY <2>2, <3>2, <3>4, <4>1 DEF Answer, SizeOf
    <3> QED
      BY <2>1, <2>4, <3>3, <3>4 DEF Cell
  <2> QED
    BY <2>3, <2>4
<1> QED
  BY <1>1, AlwaysTells, PTL

\* dfs_getattr tells the mode or owner that chmod or chown set last, across
\* opens, uploads, collections, mounts and crashes that keep it.
THEOREM AttrsAreTold == ASSUME SoundJobs, Room PROVE Spec => []AttrTold
<1>1. DInv /\ TInv => AttrTold
  <2> SUFFICES ASSUME DInv, TInv, Keeping, wanted # None, Quiet
               PROVE  Answer # None /\ Answer.attr = wanted
    BY DEF AttrTold
  <2>1. SizedOK /\ WantedOK /\ LocalOK /\ cell \in Cell /\ ~job.overlap /\ ~Changing
    BY KeptInTurn DEF TInv, SInv, AInv, DInv, TypeOK, Quiet, Changing, At
  <2>2. \A s \in 0..MaxBlocks : [attr |-> wanted, size |-> s] # None
    BY NoneAssumption DEF DInv, TypeOK
  <2>3. obj \in Object /\ obj.md.attr = wanted /\ obj.md.size # None
    BY <2>1 DEF SizedOK, WantedOK, DInv, TypeOK
  <2>4. CASE cell.ondisk = "local"
    <3>1. Cached /\ name \in Inodes /\ Behind = inode[name] /\ inode[name].attr = wanted
      BY <2>1, <2>4, KeptInTurn DEF LocalOK, WantedOK
    <3>2. Len(Behind.data) \in 0..MaxBlocks
      BY <3>1, WholeIs DEF DInv, TypeOK, CacheFile
    <3>3. Answer = [attr |-> Behind.attr, size |-> Len(Behind.data)]
      BY <2>4, <3>1 DEF Answer
    <3> QED
      BY <2>2, <3>1, <3>2, <3>3
  <2>5. CASE cell.ondisk = "remote"
    <3> DEFINE s == IF cell.usermd.size = None THEN 0 ELSE cell.usermd.size
    <3>1. cell.usermd \in Md /\ cell.usermd.attr = wanted
      BY <2>1, <2>5 DEF WantedOK
    <3>2. s \in 0..MaxBlocks
      BY <3>1, MaxBlocksNat DEF Md
    <3>3. Answer = [attr |-> cell.usermd.attr, size |-> s]
      BY <2>5 DEF Answer
    <3> QED
      BY <2>2, <3>1, <3>2, <3>3
  <2>6. CASE cell.ondisk = "unset"
    <3>1. FromHeaders(obj) = obj.md /\ obj # NoFile /\ obj.md.size \in 0..MaxBlocks
      BY <2>1, <2>3, HeadersTell DEF WantedOK, Object, Md
    <3>2. Answer = [attr |-> obj.md.attr, size |-> obj.md.size]
      BY <2>6, <3>1 DEF Answer
    <3> QED
      BY <2>2, <2>3, <3>1, <3>2
  <2> QED
    BY <2>1, <2>4, <2>5, <2>6 DEF Cell
<1> QED
  BY <1>1, AlwaysTells, PTL

=============================================================================
