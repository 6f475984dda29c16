--------------------------- MODULE FileDataProofs ---------------------------
(***************************************************************************)
(* The copies of a file are one file: FileData implements SharedFile for   *)
(* any clients, values and number of blocks, whatever fails, as long as    *)
(* the requests that are not handles run one at a time, or nobody writes   *)
(* and no download fails, and chmod and chown are not mixed with           *)
(* compression.  The run closes and the hazards say what goes wrong else.  *)
(***************************************************************************)
EXTENDS FileData, SequenceTheorems, FiniteSetTheorems, TLAPS

\* The histories that keep the promise.  Overlapping closes upload in any
\* order; of two downloads the one that fails leaves a short cache file to the
\* other; chmod writes back a "compression" mark that may be an old one.
Sound(j) == /\ j.overlap => j.asks \subseteq {"read", "stat"} /\ "get" \notin j.faults
            /\ j.zlib => "chattr" \notin j.asks
SoundJobs == \A j \in Jobs : Sound(j)

\* The kernel has descriptors and inodes for what the daemon may hold at once.
Room == /\ IsFiniteSet(Clients) /\ IsFiniteSet(Inodes)
        /\ Cardinality(Inodes) > Cardinality(Clients)
        /\ \E i, j \in Inodes : i # j
        /\ \E f, g \in Fds : f # g

-----------------------------------------------------------------------------
(* The inductive invariant.                                                 *)

Busy(c) == th[c].pc \notin {"idle", "held"}
NobodyWrites == \A c \in Clients : ~Writing(c)

\* What a request knows: of the object, which no other request replaces while
\* this one is on its way, of its inode, of the descriptor it sends.
RequestOK(c) ==
    /\ th[c].pc \in {"get", "fill", "held"} => th[c].ask \in job.asks \intersect {"read", "write", "append"}
    /\ th[c].pc \in {"get", "fill"} => th[c].ask # "write"
    /\ At(c, "get") => th[c].pos = 1
    /\ At(c, "put") => th[c].ask \in {"write", "append"} /\ ~job.overlap
    /\ At(c, "setattr") => "chattr" \in job.asks /\ cell.usermd \in Md
    /\ th[c].pc \in {"stat", "get", "fill"} => obj # NoFile
    /\ th[c].pc \in {"stat", "fill"} => th[c].src = obj
    /\ IF At(c, "put") THEN th[c].fd = cell.fd /\ Cached ELSE th[c].fd = NoFd
    /\ IF At(c, "fill") THEN th[c].ino \in Inodes ELSE th[c].ino = NoInode

\* A download has copied what it has been given.
FillOK(c) ==
    At(c, "fill") =>
        /\ th[c].pos <= Len(obj.data) + 1
        /\ inode[th[c].ino].data = SubSeq(obj.data, 1, th[c].pos - 1)
        /\ inode[th[c].ino].zipped = obj.zipped

\* The mark of an object says whether it is compressed.
MarksOK ==
    /\ obj # NoFile => obj.md.mark = obj.zipped
    /\ (~job.zlib \/ job.overlap) /\ obj # NoFile => ~obj.zipped
    /\ ~job.zlib => /\ cell.usermd # NoMd => ~cell.usermd.mark
                    /\ \A c \in Clients : At(c, "put") => ~th[c].zip

\* What the cell and the kernel remember is there.
CellOK ==
    /\ cell.ondisk = "remote" => obj # NoFile
    /\ Cached => cell.ondisk # "unset"
    /\ Cached /\ ~cell.pinned => obj # NoFile
    /\ known => Cached \/ obj # NoFile

\* One request at a time: the descriptor of the cell is on the file that the
\* cache path names, at its beginning unless that is being sent.
InTurn ==
    ~job.overlap =>
        /\ \A c, d \in Clients : Busy(c) /\ Busy(d) => c = d
        /\ Cached => /\ name \in Inodes
                     /\ file[cell.fd].ino = name
                     /\ ~inode[name].zipped
                     /\ (\A c \in Clients : ~At(c, "put")) => file[cell.fd].off = 0
        /\ \A c \in Clients : Fetching(c) => ~Cached
        /\ \A c \in Clients : At(c, "fill") => name = th[c].ino
        /\ \A c \in Clients : Writing(c) => Cached

\* What is sent has as many blocks as were announced, and is what the cache
\* file holds, unless somebody else writes meanwhile.
PutOK(c) ==
    At(c, "put") =>
        /\ th[c].zip => Len(th[c].sent) = th[c].size
        /\ ~th[c].zip => /\ file[cell.fd].off = Len(th[c].sent)
                         /\ Len(th[c].sent) <= Len(inode[name].data)
        /\ (\A d \in Clients \ {c} : ~Writing(d)) =>
              /\ th[c].size = Len(inode[name].data)
              /\ th[c].sent = IF th[c].zip THEN inode[name].data
                              ELSE SubSeq(inode[name].data, 1, Len(th[c].sent))

\* An inode that holds the object, or will when its download ends.
Copies(i) == \/ inode[i].data = obj.data /\ ~inode[i].zipped
             \/ \E c \in Clients : At(c, "fill") /\ th[c].ino = i

\* Requests of readers that overlap.
Together ==
    job.overlap =>
        /\ \A c, d \in Clients : At(c, "fill") /\ At(d, "fill") /\ th[c].ino = th[d].ino => c = d
        /\ Cached => /\ file[cell.fd].ino \in Inodes
                     /\ Copies(file[cell.fd].ino)
                     /\ \E c \in Clients : ~Fetching(c)
        /\ Cached \/ (\E c \in Clients : At(c, "fill")) =>
              \/ Cached /\ name = file[cell.fd].ino
              \/ \E c \in Clients : At(c, "fill") /\ th[c].ino = name
        /\ Cached => obj # NoFile

\* What the clients see, simply.
Seen == IF Cached /\ ~job.overlap THEN inode[name].data ELSE Decode(obj)

\* LastCloseSaves, for what is seen.
SavedOK == NobodyWrites => /\ ~unsaved => Seen = Decode(obj)
                           /\ job.faults = {} => ~unsaved

DInv == /\ TypeOK
        /\ Sound(job)
        /\ MarksOK /\ CellOK /\ InTurn /\ Together /\ SavedOK
        /\ \A c \in Clients : RequestOK(c) /\ FillOK(c) /\ PutOK(c)

-----------------------------------------------------------------------------
(* Contents.                                                                *)

Block == Values \union {Zero}

LEMMA MaxBlocksNat == MaxBlocks \in Nat /\ MaxBlocks > 0
BY BlocksAssumption

LEMMA ContentsAreSeqs ==
    ASSUME NEW s PROVE s \in Contents <=> s \in Seq(Block) /\ Len(s) <= MaxBlocks
<1>1. ASSUME s \in Contents PROVE s \in Seq(Block) /\ Len(s) <= MaxBlocks
  <2>1. PICK n \in 0..MaxBlocks : s \in [1..n -> Block]
    BY <1>1 DEF Contents, Block
  <2> QED
    BY <2>1, MaxBlocksNat
<1>2. ASSUME s \in Seq(Block), Len(s) <= MaxBlocks PROVE s \in Contents
  <2>1. Len(s) \in 0..MaxBlocks /\ s \in [1..Len(s) -> Block]
    BY <1>2, MaxBlocksNat
  <2> QED
    BY <2>1 DEF Contents, Block
<1> QED
  BY <1>1, <1>2

LEMMA EmptyContents == <<>> \in Contents /\ Len(<<>>) = 0
<1>1. <<>> \in Seq(Block) /\ Len(<<>>) = 0
  OBVIOUS
<1>2. Len(<<>>) <= MaxBlocks
  BY <1>1, MaxBlocksNat
<1> QED
  BY <1>1, <1>2, ContentsAreSeqs

\* PutAt keeps contents within MaxBlocks and never makes them shorter.
LEMMA PutAtContents ==
    ASSUME NEW s \in Contents, NEW i \in 1..MaxBlocks, NEW v \in Block
    PROVE  PutAt(s, i, v) \in Contents /\ Len(PutAt(s, i, v)) >= Len(s)
<1> DEFINE n == IF i > Len(s) THEN i ELSE Len(s)
           t == PutAt(s, i, v)
<1>1. s \in Seq(Block) /\ Len(s) \in Nat /\ Len(s) <= MaxBlocks
  BY ContentsAreSeqs
<1>2. n \in 0..MaxBlocks /\ n >= Len(s)
  BY <1>1, MaxBlocksNat
<1>3. \A j \in 1..n : (IF j = i THEN v ELSE IF j <= Len(s) THEN s[j] ELSE Zero) \in Block
  BY <1>1, <1>2 DEF Block
<1> HIDE DEF n
<1>4. t = [j \in 1..n |-> IF j = i THEN v ELSE IF j <= Len(s) THEN s[j] ELSE Zero]
  BY DEF PutAt, n
<1>5. t \in [1..n -> Block]
  BY <1>3, <1>4
<1> HIDE DEF t
<1>6. t \in Seq(Block) /\ Len(t) = n
  BY <1>5, <1>2, MaxBlocksNat
<1> QED
  BY <1>6, <1>2, ContentsAreSeqs, MaxBlocksNat DEF t

\* cb_get_buffered writes the next block of what is downloaded.
LEMMA PutAtNextBlock ==
    ASSUME NEW t \in Contents, NEW n \in 1..Len(t)
    PROVE  PutAt(SubSeq(t, 1, n - 1), n, t[n]) = SubSeq(t, 1, n)
<1>1. t \in Seq(Block) /\ Len(t) \in Nat
  BY ContentsAreSeqs
<1>2. SubSeq(t, 1, n - 1) = [j \in 1..(n - 1) |-> t[j]] /\ Len(SubSeq(t, 1, n - 1)) = n - 1
  BY <1>1
<1>3. SubSeq(t, 1, n) = [j \in 1..n |-> t[j]]
  BY <1>1
<1> QED
  BY <1>1, <1>2, <1>3 DEF PutAt

\* read_write_all_vfile appends the next block of what is uploaded.
LEMMA AppendNextBlock ==
    ASSUME NEW t \in Contents, NEW n \in Nat, n < Len(t)
    PROVE  Append(SubSeq(t, 1, n), t[n + 1]) = SubSeq(t, 1, n + 1)
<1>1. t \in Seq(Block) /\ Len(t) \in Nat
  BY ContentsAreSeqs
<1> QED
  BY <1>1

LEMMA Parts ==
    ASSUME NEW t \in Contents, NEW n \in 0..MaxBlocks, n <= Len(t)
    PROVE  SubSeq(t, 1, n) \in Contents /\ Len(SubSeq(t, 1, n)) = n
<1>1. t \in Seq(Block) /\ Len(t) \in Nat
  BY ContentsAreSeqs
<1>2. SubSeq(t, 1, n) \in Seq(Block) /\ Len(SubSeq(t, 1, n)) = n
  BY <1>1, MaxBlocksNat
<1> DEFINE u == SubSeq(t, 1, n)
<1>3. u \in Seq(Block) /\ Len(u) <= MaxBlocks
  BY <1>2, MaxBlocksNat
<1> HIDE DEF u
<1>4. u \in Contents
  BY <1>3, ContentsAreSeqs
<1> QED
  BY <1>2, <1>4 DEF u

LEMMA WholeIs ==
    ASSUME NEW t \in Contents PROVE SubSeq(t, 1, Len(t)) = t /\ Len(t) \in 0..MaxBlocks
BY ContentsAreSeqs

-----------------------------------------------------------------------------
(* What the invariant says of a state.                                      *)

LEMMA IdleIs == /\ Idle \in Request
                /\ Idle.pc = "idle" /\ Idle.fd = NoFd /\ Idle.ino = NoInode /\ Idle.ask = "stat"
                /\ Idle.pos = 1
<1>1. <<>> \in Contents /\ 1 \in 1..MaxBlocks + 1 /\ 0 \in 0..MaxBlocks
  BY EmptyContents, MaxBlocksNat
<1> QED
  BY <1>1 DEF Idle, Request, Asks, Attrs, Own

LEMMA NoCellIs == NoCell \in Cell
BY DEF NoCell, Cell

LEMMA Metadata ==
    /\ EmptyMd \in Md /\ EmptyMd.mark = FALSE
    /\ \A a \in Attrs : CreatedMd(a) \in Md /\ CreatedMd(a).mark = FALSE
    /\ \A o \in Object : FromHeaders(o) \in Md /\ FromHeaders(o).mark = o.md.mark
<1>1. \A o \in Object : Len(o.data) \in 0..MaxBlocks
  BY WholeIs DEF Object
<1> QED
  BY <1>1, MaxBlocksNat DEF EmptyMd, CreatedMd, FromHeaders, Md, Object, Attrs, Own

\* The data of an object are read as they are.
LEMMA Decoded ==
    ASSUME DInv
    PROVE  /\ obj = NoFile => Decode(obj) = NoFile
           /\ obj # NoFile => Decode(obj) = obj.data /\ obj \in Object /\ obj.data \in Contents
                              /\ Decode(obj) # NoFile
BY NoFileAssumption DEF DInv, TypeOK, MarksOK, Decode, Object

LEMMA TypedRequest ==
    ASSUME TypeOK, NEW c \in Clients
    PROVE  /\ th[c] \in Request
           /\ th[c].pc \in {"idle", "stat", "get", "fill", "held", "put", "setattr"}
           /\ th[c].ask \in Asks /\ th[c].pos \in 1..MaxBlocks + 1 /\ th[c].zip \in BOOLEAN
           /\ th[c].sent \in Contents /\ th[c].size \in 0..MaxBlocks /\ th[c].attr \in Attrs
           /\ th[c].src \in Object \union {NoFile}
           /\ Cached => cell.fd \in Fds
BY DEF TypeOK, Request, Cell, Cached

\* A job that does not let requests overlap has one that is busy.
LEMMA OthersWait ==
    ASSUME DInv, ~job.overlap, NEW c \in Clients, Busy(c), NEW d \in Clients \ {c}
    PROVE  th[d].pc \in {"idle", "held"}
BY DEF DInv, InTurn, Busy

\* A job with writers does not let requests overlap.
LEMMA ReadersOnly ==
    ASSUME DInv, job.overlap, NEW c \in Clients
    PROVE  /\ th[c].pc \notin {"put", "setattr"}
           /\ ~Writing(c)
           /\ "write" \notin job.asks /\ "append" \notin job.asks /\ "chattr" \notin job.asks
BY DEF DInv, Sound, RequestOK, Writing, At

\* There is a descriptor to open the next file with.
LEMMA FdLeft ==
    ASSUME Room, DInv
    PROVE  /\ \E f \in Fds : FreeFd(f)
           /\ NewFd \in Fds /\ NewFd # NoFd /\ FreeFd(NewFd)
<1>1. PICK f \in Fds : f # cell.fd
  BY DEF Room
<1>2. \A c \in Clients : th[c].fd \in {NoFd, cell.fd}
  BY DEF DInv, RequestOK
<1>3. FreeFd(f)
  BY <1>1, <1>2, FdsAssumption DEF FreeFd
<1> QED
  BY <1>3, FdsAssumption DEF NewFd

LEMMA BehindIs ==
    ASSUME DInv, Cached
    PROVE  /\ file[cell.fd].ino \in Inodes
           /\ cell.fd \in Fds
           /\ ~job.overlap => Behind = inode[name]
BY TypedRequest DEF DInv, TypeOK, InTurn, Together, Behind, Cached, Cell

\* The requests, and the cell, refer to at most as many inodes as there are
\* clients.
LEMMA InodeLeft ==
    ASSUME Room, DInv
    PROVE  /\ \E i \in Inodes : FreeInode(i)
           /\ NewInode \in Inodes /\ FreeInode(NewInode)
<1> DEFINE InUse(i) == \/ name = i
                       \/ \E c \in Clients : th[c].ino = i
                       \/ Cached /\ file[cell.fd].ino = i
<1>1. ASSUME NEW i \in Inodes, ~InUse(i) PROVE FreeInode(i)
  <2>1. \A f \in Fds : FreeFd(f) \/ f = cell.fd
    BY FdsAssumption DEF FreeFd, DInv, RequestOK
  <2> QED
    BY <1>1, <2>1, FdsAssumption DEF FreeInode, Cached
<1>2. \E i \in Inodes : ~InUse(i)
  <2>1. CASE \A c \in Clients : ~At(c, "fill")
    <3>1. \A i \in Inodes : InUse(i) => i = name
      <4>1. \A c \in Clients : th[c].ino = NoInode
        BY <2>1 DEF DInv, RequestOK
      <4>2. Cached => file[cell.fd].ino = name
        BY <2>1 DEF DInv, InTurn, Together
      <4> QED
        BY <4>1, <4>2, FdsAssumption
    <3> QED
      BY <3>1 DEF Room
  <2>2. CASE \E c \in Clients : At(c, "fill")
    <3> DEFINE free == CHOOSE c \in Clients : ~Fetching(c)
               g == [c \in Clients |-> IF Cached /\ c = free THEN file[cell.fd].ino ELSE th[c].ino]
    <3>1. Cached => job.overlap /\ free \in Clients /\ ~Fetching(free)
      BY <2>2 DEF DInv, InTurn, Together, Fetching, At
    <3>2. Cached => th[free].ino = NoInode
      BY <3>1 DEF DInv, RequestOK, Fetching, At
    <3> HIDE DEF free
    <3>3. ASSUME NEW i \in Inodes, InUse(i) PROVE \E c \in Clients : g[c] = i
      <4>1. ASSUME NEW c \in Clients, th[c].ino = i PROVE g[c] = i
        BY <4>1, <3>2, FdsAssumption
      <4>2. CASE Cached /\ file[cell.fd].ino = i
        BY <4>2, <3>1
      <4>3. CASE name = i
        <5>1. \/ Cached /\ name = file[cell.fd].ino
              \/ \E c \in Clients : At(c, "fill") /\ th[c].ino = name
          BY <2>2 DEF DInv, InTurn, Together
        <5> QED
          BY <5>1, <4>1, <4>2, <4>3
      <4> QED
        BY <3>3, <4>1, <4>2, <4>3
    <3> DEFINE S == {g[c] : c \in Clients}
    <3>4. IsFiniteSet(S) /\ Cardinality(S) <= Cardinality(Clients)
      <4>1. g \in Surjection(Clients, S)
        BY DEF Surjection
      <4> HIDE DEF S, g
      <4> QED
        BY <4>1, FS_Surjection DEF Room
    <3>5. Cardinality(S) \in Nat /\ Cardinality(Clients) \in Nat /\ Cardinality(Inodes) \in Nat
      BY <3>4, FS_CardinalityType DEF Room
    <3>6. ~(Inodes \subseteq S)
      <4> HIDE DEF S
      <4>1. Inodes \subseteq S => Cardinality(Inodes) <= Cardinality(S)
        BY <3>4, FS_Subset
      <4> QED
        BY <3>4, <3>5, <4>1 DEF Room
    <3> HIDE DEF g, InUse
    <3> QED
      BY <3>3, <3>6
  <2> QED
    BY <2>1, <2>2
<1> HIDE DEF InUse
<1> QED
  BY <1>1, <1>2 DEF NewInode

\* What the clients see, in the two modes.
LEMMA ContentIs == DInv => Content = Seen
<1> SUFFICES ASSUME DInv PROVE Content = Seen
  OBVIOUS
<1>1. CASE ~Cached \/ \E c \in Clients : Fetching(c)
  BY <1>1 DEF Content, Seen, DInv, InTurn
<1>2. CASE Cached /\ ~(\E c \in Clients : Fetching(c)) /\ ~job.overlap
  BY <1>2, BehindIs DEF Content, Seen, DInv, InTurn, Plain
<1>3. CASE Cached /\ ~(\E c \in Clients : Fetching(c)) /\ job.overlap
  <2>1. Behind.data = obj.data /\ ~Behind.zipped /\ obj # NoFile
    BY <1>3 DEF DInv, Together, Copies, Fetching, At, Behind
  <2> QED
    BY <1>3, <2>1, Decoded DEF Content, Seen, Plain
<1> QED
  BY <1>1, <1>2, <1>3

LEMMA SeenIs == ASSUME DInv PROVE /\ Seen \in Contents \union {NoFile}
                                  /\ Cached /\ ~job.overlap => inode[name] \in CacheFile
                                                               /\ Seen \in Contents
                                  /\ Decode(obj) \in Contents \union {NoFile}
                                  /\ known => Seen # NoFile
<1>1. Decode(obj) \in Contents \union {NoFile} /\ (obj # NoFile => Decode(obj) # NoFile)
  BY Decoded
<1>2. Cached /\ ~job.overlap => inode[name] \in CacheFile /\ inode[name].data \in Contents
  BY DEF DInv, TypeOK, InTurn, CacheFile
<1>3. known => obj # NoFile \/ (Cached /\ ~job.overlap)
  BY DEF DInv, CellOK, Together
<1> QED
  BY <1>1, <1>2, <1>3, NoFileAssumption DEF Seen

-----------------------------------------------------------------------------
(* Steps that move no data.                                                 *)

\* What is seen and what is saved stay, and nobody stops writing.
LEMMA StaysSaved ==
    ASSUME DInv, job' = job, unsaved' = unsaved,
           Seen' = Seen, Decode(obj)' = Decode(obj),
           \A c \in Clients : Writing(c) => Writing(c)'
    PROVE  SavedOK'
BY DEF DInv, SavedOK, NobodyWrites

\* The step of a request that neither fills nor sends.
LEMMA LightStep ==
    ASSUME DInv, TypeOK', MarksOK', CellOK', NEW c \in Clients, RequestOK(c)',
           UNCHANGED <<job, obj, file, inode, name, unsaved>>,
           cell'.fd = cell.fd,
           cell'.usermd = cell.usermd \/ Busy(c),
           \A d \in Clients \ {c} : th'[d] = th[d],
           th[c].pc \notin {"fill", "put"}, th'[c].pc \notin {"fill", "put"},
           th'[c].pc \notin {"idle", "held"} => job.overlap \/ Busy(c) \/ Quiet,
           th'[c].pc = "get" => ~Cached,
           Writing(c) => Writing(c)',
           Writing(c)' => Cached \/ job.overlap
    PROVE  DInv' /\ Seen' = Seen /\ Decode(obj)' = Decode(obj)
<1>1. Seen' = Seen /\ Decode(obj)' = Decode(obj) /\ Cached' = Cached
  BY DEF Seen, Cached, Decode
<1>2. \A d \in Clients \ {c} : Writing(d)' = Writing(d) /\ Fetching(d)' = Fetching(d)
                               /\ Busy(d)' = Busy(d) /\ (\A l : At(d, l)' = At(d, l))
  BY DEF Writing, Fetching, Busy, At
<1>3. ~At(c, "fill") /\ ~At(c, "fill")' /\ ~At(c, "put") /\ ~At(c, "put")'
  BY DEF At
<1>4. SavedOK'
  BY <1>1, <1>2, StaysSaved
<1>5. \A d \in Clients : RequestOK(d)'
  <2> SUFFICES ASSUME NEW d \in Clients \ {c} PROVE RequestOK(d)'
    OBVIOUS
  <2>1. RequestOK(d)
    BY DEF DInv
  <2>2. At(d, "setattr") => cell'.usermd = cell.usermd
    BY OthersWait, ReadersOnly DEF At
  <2> QED
    BY <1>1, <2>1, <2>2 DEF RequestOK, At
<1>6. \A d \in Clients : FillOK(d)'
  BY <1>3 DEF DInv, FillOK, At
<1>7. \A d \in Clients : PutOK(d)'
  <2> SUFFICES ASSUME NEW d \in Clients, At(d, "put")' PROVE PutOK(d)'
    BY DEF PutOK
  <2>1. d # c /\ PutOK(d) /\ At(d, "put") /\ th'[d] = th[d]
    BY <1>3 DEF DInv, At
  <2>2. (\A e \in Clients \ {d} : ~Writing(e)') => \A e \in Clients \ {d} : ~Writing(e)
    BY <1>2
  <2> QED
    BY <2>1, <2>2 DEF PutOK, At
<1>8. InTurn'
  <2> SUFFICES ASSUME ~job.overlap PROVE InTurn'
    BY DEF InTurn
  <2>1. \A d, e \in Clients : Busy(d)' /\ Busy(e)' => d = e
    <3>1. \A d, e \in Clients : Busy(d) /\ Busy(e) => d = e
      BY DEF DInv, InTurn
    <3>2. Busy(c)' => \A d \in Clients \ {c} : ~Busy(d)
      BY <3>1 DEF Quiet, Busy
    <3> QED
      BY <3>1, <3>2, <1>2
  <2>2. (\A d \in Clients : ~At(d, "put")') => \A d \in Clients : ~At(d, "put")
    BY <1>2, <1>3
  <2>3. Fetching(c)' => ~Cached
    BY <1>3 DEF Fetching, At
  <2>4. DInv /\ InTurn
    BY DEF DInv
  <2> QED
    BY <1>1, <1>2, <1>3, <2>1, <2>2, <2>3, <2>4 DEF InTurn
<1>9. Together'
  <2> SUFFICES ASSUME job.overlap PROVE Together'
    BY DEF Together
  <2>1. Together
    BY DEF DInv
  <2>2. \A d \in Clients : (At(d, "fill")' <=> At(d, "fill")) /\ (At(d, "fill") => th'[d] = th[d])
    BY <1>2, <1>3
  <2>3. \A i : Copies(i)' = Copies(i)
    BY <2>2 DEF Copies
  <2>4. Fetching(c)' => ~Cached
    BY <1>3 DEF Fetching, At
  <2> QED
    BY <1>1, <1>2, <2>1, <2>2, <2>3, <2>4 DEF Together
<1>10. Sound(job)'
  BY DEF DInv, Sound
<1> QED
  BY <1>1, <1>4, <1>5, <1>6, <1>7, <1>8, <1>9, <1>10 DEF DInv

\* What a step of the copies is to those who read and write the file: a step
\* of SharedFile, or nothing.
Promised == File!Next \/ UNCHANGED File!vars

LEMMA ContentStep ==
    ASSUME DInv, DInv' PROVE Content = Seen /\ Content' = Seen'
<1>1. (DInv => Content = Seen)'
  BY ContentIs, PTL
<1> QED
  BY <1>1, ContentIs

LEMMA Nothing ==
    ASSUME DInv, DInv', Seen' = Seen, Decode(obj)' = Decode(obj), unsaved' = unsaved,
           \A c \in Clients : Writing(c)' <=> Writing(c)
    PROVE  Promised
<1>1. Content' = Content
  BY ContentStep
<1>2. {c \in Clients : Writing(c)}' = {c \in Clients : Writing(c)}
  OBVIOUS
<1> QED
  BY <1>1, <1>2 DEF Promised, File!vars

\* One more has the file open for writing, and may have truncated it.
LEMMA OpensToWrite ==
    ASSUME DInv, DInv', NEW c \in Clients, Seen # NoFile, Seen' \in {Seen, <<>>},
           Decode(obj)' = Decode(obj), unsaved' = unsaved, Writing(c)',
           \A d \in Clients \ {c} : Writing(d)' <=> Writing(d)
    PROVE  Promised
<1>1. Content = Seen /\ Content' = Seen'
  BY ContentStep
<1>2. {d \in Clients : Writing(d)}' = {d \in Clients : Writing(d)} \union {c}
  OBVIOUS
<1>3. File!OpenToWrite(c)
  BY <1>1, <1>2 DEF File!OpenToWrite
<1> QED
  BY <1>3 DEF Promised, File!Next

LEMMA StatKeeps ==
    ASSUME DInv, NEW c \in Clients, Stat(c)
    PROVE  DInv' /\ Promised
<1> USE DEF Stat, MayAsk, At
<1>1. th[c].pc = "idle" /\ th[c] \in Request /\ cell \in Cell /\ cell' = [cell EXCEPT !.mem = TRUE]
  BY DEF DInv, TypeOK
<1>2. /\ cell' \in Cell /\ cell'.fd = cell.fd /\ cell'.usermd = cell.usermd
      /\ cell'.ondisk = cell.ondisk /\ cell'.pinned = cell.pinned
  BY <1>1 DEF Cell
<1>3. known' \in BOOLEAN /\ (known' => known \/ (Answer # None /\ cell.ondisk # "unset"))
  <2>1. known \in BOOLEAN
    BY DEF DInv, TypeOK
  <2> DEFINE told == Answer # None
  <2>2. told \in BOOLEAN
    OBVIOUS
  <2>3. known' = known \/ (cell.ondisk # "unset" /\ known' = told)
    OBVIOUS
  <2>4. told => Answer # None
    OBVIOUS
  <2> HIDE DEF told, Stat
  <2> QED
    BY <2>1, <2>2, <2>3, <2>4
<1>4. Answer # None /\ cell.ondisk # "unset" => Cached \/ obj # NoFile
  BY <1>1 DEF DInv, CellOK, Answer, Cell
<1>5. \/ th' = th
      \/ /\ obj # NoFile
         /\ th' = [th EXCEPT ![c] = th'[c]]
         /\ th'[c] = [th[c] EXCEPT !.pc = "stat", !.src = obj]
  BY DEF DInv, TypeOK
<1>6. th'[c].pc \in {"idle", "stat"} /\ \A d \in Clients \ {c} : th'[d] = th[d]
  BY <1>1, <1>5 DEF DInv, TypeOK, Request
<1>7. TypeOK'
  BY <1>1, <1>2, <1>3, <1>5 DEF DInv, TypeOK, Request
<1>8. CellOK'
  BY <1>2, <1>3, <1>4 DEF DInv, CellOK, Cached
<1>9. MarksOK'
  BY <1>2, <1>6 DEF DInv, MarksOK
<1>10. RequestOK(c)'
  BY <1>1, <1>2, <1>5 DEF DInv, RequestOK, TypeOK, Request
<1>11. ~Writing(c) /\ ~Writing(c)' /\ \A d \in Clients \ {c} : Writing(d)' <=> Writing(d)
  BY <1>1, <1>6 DEF Writing
<1>12. DInv' /\ Seen' = Seen /\ Decode(obj)' = Decode(obj)
  BY <1>1, <1>2, <1>6, <1>7, <1>8, <1>9, <1>10, <1>11, LightStep
<1>13. \A d \in Clients : Writing(d)' <=> Writing(d)
  BY <1>11
<1> QED
  BY <1>12, <1>13, Nothing

LEMMA StatFillKeeps ==
    ASSUME DInv, NEW c \in Clients, StatFill(c)
    PROVE  DInv' /\ Promised
<1> USE DEF StatFill, Return, At
<1>1. th[c].pc = "stat" /\ th[c].src = obj /\ obj \in Object /\ cell \in Cell /\ FromHeaders(obj) \in Md
      /\ FromHeaders(obj).mark = obj.md.mark /\ obj # NoFile
  BY Metadata DEF DInv, RequestOK, TypeOK
<1>2. cell' = [cell EXCEPT !.usermd = FromHeaders(obj), !.ondisk = "remote"]
  BY <1>1
<1>3. /\ cell' \in Cell /\ cell'.fd = cell.fd /\ cell'.usermd = FromHeaders(obj)
      /\ cell'.ondisk = "remote" /\ cell'.pinned = cell.pinned
  BY <1>1, <1>2 DEF Cell
<1>4. th'[c] = Idle /\ \A d \in Clients \ {c} : th'[d] = th[d]
  BY DEF DInv, TypeOK
<1>5. TypeOK'
  BY <1>1, <1>3, IdleIs DEF DInv, TypeOK
<1>6. MarksOK' /\ CellOK' /\ RequestOK(c)'
  BY <1>1, <1>3, <1>4, IdleIs DEF DInv, TypeOK, MarksOK, CellOK, Cached, RequestOK
<1>7. ~Writing(c) /\ ~Writing(c)' /\ \A d \in Clients \ {c} : Writing(d)' <=> Writing(d)
  BY <1>1, <1>4, IdleIs DEF Writing
<1>8. \A d \in Clients : Writing(d)' <=> Writing(d)
  BY <1>7
<1>9. DInv' /\ Seen' = Seen /\ Decode(obj)' = Decode(obj)
  BY <1>1, <1>3, <1>4, <1>5, <1>6, <1>7, IdleIs, LightStep DEF Busy
<1> QED
  BY <1>8, <1>9, Nothing

LEMMA OpenAgainKeeps ==
    ASSUME DInv, NEW c \in Clients, NEW a \in Asks, OpenAgain(c, a)
    PROVE  DInv' /\ Promised
<1> USE DEF OpenAgain, MayAsk, At, Hold
<1>1. th[c].pc = "idle" /\ a \in job.asks /\ a \in {"read", "append"} /\ known /\ cell \in Cell
  BY DEF DInv, TypeOK
<1>2. /\ cell' \in Cell /\ cell'.fd = cell.fd /\ cell'.usermd = cell.usermd
      /\ cell'.ondisk = "local" /\ cell'.pinned = cell.pinned
  BY <1>1 DEF Cell
<1> DEFINE r == [Idle EXCEPT !.pc = "held", !.ask = a]
<1>3. r \in Request /\ r.pc = "held" /\ r.ask = a /\ r.fd = NoFd /\ r.ino = NoInode
  BY IdleIs DEF Request
<1> HIDE DEF r
<1>4. th'[c] = r /\ \A d \in Clients \ {c} : th'[d] = th[d]
  BY DEF DInv, TypeOK, r
<1>5. TypeOK'
  BY <1>2, <1>3 DEF DInv, TypeOK, r
<1>6. MarksOK' /\ CellOK' /\ RequestOK(c)'
  BY <1>1, <1>2, <1>3, <1>4 DEF DInv, TypeOK, MarksOK, CellOK, Cached, RequestOK
<1>7. ~Writing(c) /\ (Writing(c)' <=> a = "append") /\ \A d \in Clients \ {c} : Writing(d)' <=> Writing(d)
  BY <1>1, <1>3, <1>4 DEF Writing
<1>8. DInv' /\ Seen' = Seen /\ Decode(obj)' = Decode(obj)
  BY <1>1, <1>2, <1>3, <1>4, <1>5, <1>6, <1>7, LightStep
<1>9. Seen # NoFile
  BY <1>1, SeenIs
<1>10. a = "append" => Promised
  BY <1>7, <1>8, <1>9, OpensToWrite
<1>11. a = "read" => Promised
  <2>1. a = "read" => \A d \in Clients : Writing(d)' <=> Writing(d)
    BY <1>7
  <2> QED
    BY <2>1, <1>8, Nothing
<1> QED
  BY <1>1, <1>8, <1>10, <1>11

LEMMA OpenFetchKeeps ==
    ASSUME DInv, NEW c \in Clients, NEW a \in Asks, OpenFetch(c, a)
    PROVE  DInv' /\ Promised
<1> USE DEF OpenFetch, MayAsk, At
<1>1. /\ th[c].pc = "idle" /\ a \in job.asks /\ a \in {"read", "append"} /\ known /\ cell \in Cell
      /\ ~Cached
  BY DEF DInv, TypeOK
<1>2. /\ cell' \in Cell /\ cell'.fd = cell.fd /\ cell'.usermd = cell.usermd
      /\ cell'.ondisk = cell.ondisk /\ cell'.pinned = cell.pinned
  BY <1>1 DEF Cell
<1> DEFINE r == [Idle EXCEPT !.pc = "get", !.ask = a]
<1>3. r \in Request /\ r.pc = "get" /\ r.ask = a /\ r.fd = NoFd /\ r.ino = NoInode
      /\ r.pos = 1
  BY IdleIs DEF Request
<1> HIDE DEF r
<1>4. th'[c] = r /\ \A d \in Clients \ {c} : th'[d] = th[d]
  BY DEF DInv, TypeOK, r
<1>5. TypeOK'
  BY <1>2, <1>3 DEF DInv, TypeOK, r
<1>6. MarksOK' /\ CellOK' /\ RequestOK(c)'
  BY <1>1, <1>2, <1>3, <1>4 DEF DInv, TypeOK, MarksOK, CellOK, Cached, RequestOK
<1>7. ~Writing(c) /\ ~Writing(c)' /\ \A d \in Clients \ {c} : Writing(d)' <=> Writing(d)
  BY <1>1, <1>3, <1>4 DEF Writing
<1>8. DInv' /\ Seen' = Seen /\ Decode(obj)' = Decode(obj)
  BY <1>1, <1>2, <1>3, <1>4, <1>5, <1>6, <1>7, LightStep
<1>9. \A d \in Clients : Writing(d)' <=> Writing(d)
  BY <1>7
<1> QED
  BY <1>8, <1>9, Nothing

LEMMA CloseReaderKeeps ==
    ASSUME DInv, NEW c \in Clients, CloseReader(c)
    PROVE  DInv' /\ Promised
<1> USE DEF CloseReader, Return, At
<1>1. th[c].pc = "held" /\ ~Writing(c)
  BY ReadersOnly DEF DInv, InTurn, Writing
<1>2. th'[c] = Idle /\ \A d \in Clients \ {c} : th'[d] = th[d]
  BY DEF DInv, TypeOK
<1>3. TypeOK'
  BY IdleIs DEF DInv, TypeOK
<1>4. MarksOK' /\ CellOK' /\ RequestOK(c)'
  BY <1>2, IdleIs DEF DInv, TypeOK, MarksOK, CellOK, Cached, RequestOK
<1>5. ~Writing(c)' /\ \A d \in Clients \ {c} : Writing(d)' <=> Writing(d)
  BY <1>2, IdleIs DEF Writing
<1>6. DInv' /\ Seen' = Seen /\ Decode(obj)' = Decode(obj)
  BY <1>1, <1>2, <1>3, <1>4, <1>5, IdleIs, LightStep
<1>7. \A d \in Clients : Writing(d)' <=> Writing(d)
  BY <1>1, <1>5
<1> QED
  BY <1>6, <1>7, Nothing

LEMMA ExpireKeeps ==
    ASSUME DInv, Expire
    PROVE  DInv' /\ Promised
<1> USE DEF Expire
<1>1. TypeOK' /\ Sound(job)'
  BY DEF DInv, TypeOK, Sound
<1>2. MarksOK' /\ CellOK'
  BY DEF DInv, MarksOK, CellOK, Cached, At
<1>3. InTurn' /\ Together'
  BY DEF DInv, InTurn, Together, Busy, Cached, At, Writing, Fetching, Copies
<1>4. Seen' = Seen /\ Decode(obj)' = Decode(obj) /\ \A c \in Clients : Writing(c)' <=> Writing(c)
  BY DEF Seen, Decode, Cached, Writing
<1>5. SavedOK'
  BY <1>4, StaysSaved
<1>6. \A c \in Clients : RequestOK(c)' /\ FillOK(c)' /\ PutOK(c)'
  BY <1>4 DEF DInv, RequestOK, FillOK, PutOK, At, Cached
<1>7. DInv'
  BY <1>1, <1>2, <1>3, <1>5, <1>6 DEF DInv
<1> QED
  BY <1>4, <1>7, Nothing

-----------------------------------------------------------------------------
(* Steps after which no request is on its way.                              *)

AtRest ==
    /\ \A c \in Clients :
          /\ th[c].pc \in {"idle", "held"}
          /\ th[c].pc = "held" => th[c].ask \in job.asks \intersect {"read", "write", "append"}
          /\ th[c].fd = NoFd /\ th[c].ino = NoInode
          /\ Writing(c) => Cached \/ job.overlap
    /\ Cached => /\ ~job.overlap
                 /\ name \in Inodes /\ ~inode[name].zipped
                 /\ file[cell.fd].ino = name /\ file[cell.fd].off = 0

LEMMA RestIsFine ==
    TypeOK /\ Sound(job) /\ MarksOK /\ CellOK /\ SavedOK /\ AtRest => DInv
<1> SUFFICES ASSUME TypeOK, Sound(job), MarksOK, CellOK, SavedOK, AtRest PROVE DInv
  OBVIOUS
<1>1. \A c \in Clients : ~Busy(c) /\ ~Fetching(c)
                         /\ \A l \in {"stat", "get", "fill", "put", "setattr"} : ~At(c, l)
  BY DEF AtRest, Busy, Fetching, At
<1>2. \A c \in Clients : RequestOK(c) /\ FillOK(c) /\ PutOK(c)
  BY <1>1 DEF AtRest, RequestOK, FillOK, PutOK, At
<1>3. InTurn
  BY <1>1 DEF AtRest, InTurn
<1>4. Together
  BY <1>1 DEF AtRest, Together
<1> QED
  BY <1>2, <1>3, <1>4 DEF DInv

\* Requests that are not on their way.
LEMMA OthersRest ==
    ASSUME DInv, NEW c \in Clients, th[c].pc \in {"idle", "held"}
    PROVE  /\ th[c].pc = "held" => th[c].ask \in job.asks \intersect {"read", "write", "append"}
           /\ th[c].fd = NoFd /\ th[c].ino = NoInode
BY DEF DInv, RequestOK, At

\* open_creat: whatever the cache path named, it is an empty file now.
LEMMA Truncated ==
    ASSUME Room, DInv, NEW e \in Cell, NEW attr \in Attrs, Truncate(e, attr)
    PROVE  /\ name' \in Inodes /\ inode' \in [Inodes -> CacheFile]
           /\ inode'[name'].data = <<>> /\ ~inode'[name'].zipped
           /\ cell' \in Cell /\ cell'.fd # NoFd /\ cell'.ondisk = "local"
           /\ cell'.pinned = e.pinned /\ cell'.usermd = e.usermd
           /\ file' \in [Fds -> Description]
           /\ file'[cell'.fd].ino = name' /\ file'[cell'.fd].off = 0
<1> DEFINE i == IF name = NoInode THEN NewInode ELSE name
           x == [data |-> <<>>, zipped |-> FALSE, attr |-> attr]
           d == [ino |-> i, off |-> 0, rw |-> TRUE]
<1>1. i \in Inodes /\ NewFd \in Fds /\ NewFd # NoFd
  BY InodeLeft, FdLeft DEF DInv, TypeOK
<1>2. x \in CacheFile /\ x.data = <<>> /\ ~x.zipped
  BY EmptyContents DEF CacheFile
<1>3. d \in Description /\ d.ino = i /\ d.off = 0
  BY <1>1, MaxBlocksNat DEF Description
<1>4. /\ name' = i /\ inode' = [inode EXCEPT ![i] = x]
      /\ file' = [file EXCEPT ![NewFd] = d]
      /\ cell' = [e EXCEPT !.mem = TRUE, !.fd = NewFd, !.ondisk = "local"]
  BY DEF Truncate, Opened
<1> HIDE DEF i, x, d
<1>5. cell' \in Cell /\ cell'.fd = NewFd /\ cell'.ondisk = "local"
      /\ cell'.pinned = e.pinned /\ cell'.usermd = e.usermd
  BY <1>1, <1>4 DEF Cell
<1>6. inode' \in [Inodes -> CacheFile] /\ inode'[i] = x
  BY <1>1, <1>2, <1>4 DEF DInv, TypeOK
<1>7. file' \in [Fds -> Description] /\ file'[NewFd] = d
  BY <1>1, <1>3, <1>4 DEF DInv, TypeOK
<1> QED
  BY <1>1, <1>2, <1>3, <1>4, <1>5, <1>6, <1>7

LEMMA CacheAttrIs == ASSUME DInv PROVE CacheAttr \in Attrs
BY DEF CacheAttr, DInv, TypeOK, CacheFile, Attrs

LEMMA HoldIs ==
    ASSUME TypeOK, NEW c \in Clients, NEW a \in Asks, Hold(c, a)
    PROVE  /\ th'[c] \in Request /\ th'[c].pc = "held" /\ th'[c].ask = a
           /\ th'[c].fd = NoFd /\ th'[c].ino = NoInode
           /\ th' \in [Clients -> Request]
           /\ \A d \in Clients \ {c} : th'[d] = th[d]
<1> DEFINE r == [Idle EXCEPT !.pc = "held", !.ask = a]
<1>1. r \in Request /\ r.pc = "held" /\ r.ask = a /\ r.fd = NoFd /\ r.ino = NoInode
  BY IdleIs DEF Request
<1> HIDE DEF r
<1> QED
  BY <1>1 DEF Hold, TypeOK, r

\* The request of c comes to rest, the others are.
LEMMA ComesToRest ==
    ASSUME DInv, NEW c \in Clients, job' = job,
           \A d \in Clients \ {c} : th[d].pc \in {"idle", "held"} /\ th'[d] = th[d],
           th'[c].pc \in {"idle", "held"},
           th'[c].pc = "held" => th'[c].ask \in job.asks \intersect {"read", "write", "append"},
           th'[c].fd = NoFd, th'[c].ino = NoInode,
           \A d \in Clients : Writing(d)' => Cached' \/ job.overlap,
           Cached' => /\ ~job.overlap
                      /\ name' \in Inodes /\ ~inode'[name'].zipped
                      /\ file'[cell'.fd].ino = name' /\ file'[cell'.fd].off = 0
    PROVE  AtRest'
BY OthersRest DEF AtRest

LEMMA OpenCreatKeeps ==
    ASSUME Room, DInv, NEW c \in Clients, OpenCreat(c)
    PROVE  DInv' /\ Promised
<1> USE DEF OpenCreat, MayAsk, At
<1>1. ~job.overlap /\ Quiet /\ "write" \in job.asks /\ known /\ cell \in Cell
  BY ReadersOnly DEF DInv, TypeOK
<1>2. /\ name' \in Inodes /\ inode' \in [Inodes -> CacheFile]
      /\ inode'[name'].data = <<>> /\ ~inode'[name'].zipped
      /\ cell' \in Cell /\ cell'.fd # NoFd /\ cell'.ondisk = "local"
      /\ cell'.pinned = cell.pinned /\ cell'.usermd = cell.usermd
      /\ file' \in [Fds -> Description]
      /\ file'[cell'.fd].ino = name' /\ file'[cell'.fd].off = 0
  BY <1>1, CacheAttrIs, Truncated
<1>3. /\ th'[c].pc = "held" /\ th'[c].ask = "write" /\ th'[c].fd = NoFd /\ th'[c].ino = NoInode
      /\ th' \in [Clients -> Request]
      /\ \A d \in Clients \ {c} : th'[d] = th[d]
  BY HoldIs DEF DInv, Asks
<1>4. TypeOK' /\ Sound(job)'
  BY <1>2, <1>3 DEF DInv, TypeOK, Sound
<1>5. Writing(c)' /\ Cached' /\ \A d \in Clients \ {c} : Writing(d)' <=> Writing(d)
  BY <1>2, <1>3 DEF Writing, Cached
<1>6. known => Cached \/ obj # NoFile
  BY DEF DInv, CellOK
<1>7. CellOK'
  <2>1. cell'.pinned \/ obj # NoFile
    BY <1>1, <1>2 DEF DInv, CellOK
  <2> QED
    BY <1>2, <1>5, <2>1 DEF CellOK
<1>8. MarksOK'
  BY <1>1, <1>2, <1>3 DEF DInv, MarksOK, Quiet
<1>9. SavedOK'
  BY <1>5 DEF SavedOK, NobodyWrites
<1>10. AtRest'
  BY <1>1, <1>2, <1>3, <1>5, ComesToRest DEF Quiet
<1>11. DInv'
  BY <1>4, <1>7, <1>8, <1>9, <1>10, RestIsFine, PTL
<1>12. Seen' = <<>> /\ Decode(obj)' = Decode(obj) /\ Seen # NoFile
  BY <1>1, <1>2, <1>5, SeenIs DEF Seen, Decode
<1> QED
  BY <1>5, <1>11, <1>12, OpensToWrite

LEMMA CreateKeeps ==
    ASSUME Room, DInv, NEW c \in Clients, Create(c)
    PROVE  DInv' /\ Promised
<1> USE DEF MayAsk, At
<1>1. /\ ~job.overlap /\ Quiet /\ "write" \in job.asks /\ ~known /\ obj = NoFile /\ cell \in Cell
      /\ ~Cached /\ th[c].pc = "idle" /\ job' = job /\ wanted' = wanted
  BY ReadersOnly DEF DInv, TypeOK, CellOK, Create
<1> DEFINE attr == IF job.field = "mode" THEN Own ELSE CacheAttr
           made == NewObject
<1>2. attr \in Attrs
  BY CacheAttrIs DEF Attrs
<1> HIDE DEF attr
<1>3. PICK pinned \in {FALSE} \union (IF Fails("mknod") THEN {TRUE} ELSE {}) :
          /\ Truncate([cell EXCEPT !.usermd = CreatedMd(attr), !.pinned = pinned \/ @], attr)
          /\ IF pinned THEN obj' \in {obj, made} /\ unsaved' = TRUE /\ UNCHANGED <<known, th>>
             ELSE /\ obj' = made
                  /\ known' = TRUE
                  /\ Hold(c, "write")
                  /\ UNCHANGED unsaved
  BY DEF Create, attr
<1> DEFINE e == [cell EXCEPT !.usermd = CreatedMd(attr), !.pinned = pinned \/ @]
<1>4. e \in Cell /\ e.pinned = (pinned \/ cell.pinned) /\ e.usermd = CreatedMd(attr)
  BY <1>1, <1>2, Metadata DEF Cell
<1>5. Truncate(e, attr)
  BY <1>3
<1> HIDE DEF e
<1>6. /\ name' \in Inodes /\ inode' \in [Inodes -> CacheFile]
      /\ inode'[name'].data = <<>> /\ ~inode'[name'].zipped
      /\ cell' \in Cell /\ cell'.fd # NoFd /\ cell'.ondisk = "local"
      /\ cell'.pinned = e.pinned /\ cell'.usermd = e.usermd
      /\ file' \in [Fds -> Description]
      /\ file'[cell'.fd].ino = name' /\ file'[cell'.fd].off = 0
  BY <1>2, <1>4, <1>5, Truncated
<1>7. Cached' /\ Seen' = <<>> /\ Seen = NoFile /\ Decode(obj) = NoFile
  BY <1>1, <1>6, Decoded DEF Cached, Seen
<1>8. ~cell'.usermd.mark
  BY <1>2, <1>4, <1>6, Metadata
<1>9. Sound(job)' /\ \A d \in Clients : ~Writing(d) /\ th[d].pc \in {"idle", "held"}
  BY <1>1 DEF DInv, Sound, InTurn, Quiet
<1>10. /\ made \in Object /\ made.md.mark = FALSE /\ made.zipped = FALSE
       /\ made # NoFile /\ Decode(made) = <<>>
  <2>1. made \in Object /\ made.md.mark = FALSE /\ made.zipped = FALSE /\ made.data = <<>>
    BY EmptyContents, Metadata DEF NewObject, Object
  <2>2. made # NoFile
    BY <2>1, NoFileAssumption
  <2> QED
    BY <2>1, <2>2 DEF Decode
<1> HIDE DEF made
<1>11. CASE pinned
  <2>1. unsaved' = TRUE /\ obj' \in {obj, made} /\ known' = known /\ th' = th /\ Fails("mknod")
    BY <1>3, <1>11
  <2>2. TypeOK'
    BY <1>1, <1>6, <1>10, <2>1 DEF DInv, TypeOK
  <2>3. MarksOK' /\ CellOK'
    BY <1>1, <1>4, <1>6, <1>8, <1>9, <1>10, <1>11, <2>1 DEF MarksOK, CellOK
  <2>4. \A d \in Clients : ~Writing(d)'
    BY <1>9, <2>1 DEF Writing
  <2>5. SavedOK'
    BY <1>1, <2>1 DEF SavedOK, Fails
  <2>6. AtRest'
    BY <1>1, <1>6, <1>9, <2>1, <2>4, OthersRest, ComesToRest
  <2>7. DInv'
    BY <1>9, <2>2, <2>3, <2>5, <2>6, RestIsFine, PTL
  <2>8. File!Create(c)
    <3>1. {d \in Clients : Writing(d)}' = {d \in Clients : Writing(d)}
      BY <1>9, <2>4
    <3>2. Decode(obj)' \in {Decode(obj), <<>>}
      BY <1>10, <2>1 DEF Decode
    <3> QED
      BY <1>7, <2>1, <2>7, <3>1, <3>2, ContentStep DEF File!Create
  <2> QED
    BY <2>7, <2>8 DEF Promised, File!Next
<1>12. CASE ~pinned
  <2>1. unsaved' = unsaved /\ obj' = made /\ known' = TRUE /\ Hold(c, "write")
    BY <1>3, <1>12
  <2>2. /\ th'[c].pc = "held" /\ th'[c].ask = "write" /\ th'[c].fd = NoFd /\ th'[c].ino = NoInode
        /\ th' \in [Clients -> Request]
        /\ \A d \in Clients \ {c} : th'[d] = th[d]
    BY <2>1, HoldIs DEF DInv, Asks
  <2>3. TypeOK'
    BY <1>1, <1>6, <1>10, <1>12, <2>1, <2>2 DEF DInv, TypeOK
  <2>4. MarksOK' /\ CellOK'
    BY <1>1, <1>4, <1>6, <1>8, <1>9, <1>10, <1>12, <2>1, <2>2 DEF MarksOK, CellOK
  <2>5. Writing(c)' /\ \A d \in Clients \ {c} : Writing(d)' <=> Writing(d)
    BY <2>2 DEF Writing
  <2>6. SavedOK'
    BY <2>5 DEF SavedOK, NobodyWrites
  <2>7. AtRest'
    BY <1>1, <1>6, <1>7, <1>9, <2>2, <2>5, ComesToRest
  <2>8. DInv'
    BY <1>9, <2>3, <2>4, <2>6, <2>7, RestIsFine, PTL
  <2>9. File!Create(c)
    <3>1. {d \in Clients : Writing(d)}' = {d \in Clients : Writing(d)} \union {c}
      BY <2>5
    <3>2. Decode(obj)' = <<>>
      BY <1>10, <1>12, <2>1 DEF Decode
    <3> QED
      BY <1>7, <2>1, <2>8, <3>1, <3>2, ContentStep DEF File!Create
  <2> QED
    BY <2>8, <2>9 DEF Promised, File!Next
<1> QED
  BY <1>3, <1>11, <1>12

-----------------------------------------------------------------------------
(* Steps that drop the local copies.                                        *)

\* All requests are back, and the cell is gone.
LEMMA Dropped ==
    ASSUME DInv, Forget, UNCHANGED <<job, obj, file, inode, wanted>>,
           name' \in {name, NoInode}, known' \in BOOLEAN, known' => obj # NoFile,
           \A c \in Clients : (th[c].pc = "idle" /\ th'[c] = th[c]) \/ th'[c] = Idle,
           th' \in [Clients -> Request]
    PROVE  /\ DInv'
           /\ Content' = Decode(obj) /\ Decode(obj)' = Decode(obj)
           /\ {c \in Clients : Writing(c)}' = {}
           /\ unsaved' = FALSE
<1>1. cell' \in Cell /\ ~Cached' /\ cell'.ondisk = "unset" /\ cell'.usermd = NoMd /\ unsaved' = FALSE
  BY NoCellIs DEF Forget, NoCell, Cached
<1>2. \A c \in Clients : th'[c].pc = "idle" /\ th'[c].fd = NoFd /\ th'[c].ino = NoInode
  BY IdleIs, OthersRest
<1>3. \A c \in Clients : ~Writing(c)'
  BY <1>2 DEF Writing
<1>4. Decode(obj)' = Decode(obj) /\ Seen' = Decode(obj)
  BY <1>1 DEF Seen, Decode
<1>5. TypeOK' /\ Sound(job)'
  BY <1>1 DEF DInv, TypeOK, Sound
<1>6. MarksOK' /\ CellOK'
  BY <1>1, <1>2 DEF DInv, MarksOK, CellOK, At
<1>7. SavedOK'
  BY <1>1, <1>4 DEF SavedOK
<1>8. AtRest'
  BY <1>1, <1>2, <1>3 DEF AtRest
<1>9. DInv'
  BY <1>5, <1>6, <1>7, <1>8, RestIsFine, PTL
<1> QED
  BY <1>1, <1>3, <1>4, <1>9, ContentStep

\* When nobody writes, what is read is saved, or that it is not is remembered.
LEMMA DropKeeps ==
    ASSUME DInv, AllIdle, DInv', Content' = Decode(obj), Decode(obj)' = Decode(obj),
           {c \in Clients : Writing(c)}' = {}, unsaved' = FALSE
    PROVE  Promised
<1>1. \A c \in Clients : ~Writing(c)
  BY DEF AllIdle, At, Writing
<1>2. {c \in Clients : Writing(c)} = {}
  BY <1>1
<1>3. CASE unsaved
  <2>1. File!Drop
    BY <1>2, <1>3 DEF File!Drop
  <2> QED
    BY <2>1 DEF Promised, File!Next
<1>4. CASE ~unsaved
  <2>1. Content = Decode(obj)
    BY <1>1, <1>4, ContentStep DEF DInv, SavedOK, NobodyWrites
  <2>2. unsaved = FALSE
    BY <1>4 DEF DInv, TypeOK
  <2> QED
    BY <1>2, <2>1, <2>2 DEF Promised, File!vars
<1> QED
  BY <1>3, <1>4

LEMMA CollectKeeps == ASSUME DInv, Collect PROVE DInv' /\ Promised
<1>1. known => obj # NoFile
  BY DEF DInv, CellOK, Collect
<1>2. known' \in BOOLEAN /\ th' \in [Clients -> Request] /\ \A c \in Clients : th[c].pc = "idle"
  BY DEF DInv, TypeOK, Collect, AllIdle, At
<1> QED
  BY <1>1, <1>2, Dropped, DropKeeps DEF Collect

LEMMA RemountKeeps == ASSUME DInv, Remount PROVE DInv' /\ Promised
<1>1. th' \in [Clients -> Request] /\ \A c \in Clients : th[c].pc = "idle"
  BY DEF DInv, TypeOK, Remount, AllIdle, At
<1> QED
  BY <1>1, Dropped, DropKeeps DEF Remount

LEMMA CrashKeeps == ASSUME DInv, Crash PROVE DInv' /\ Promised
<1>1. th' \in [Clients -> Request] /\ \A c \in Clients : th'[c] = Idle
  BY IdleIs DEF Crash
<1>2. /\ DInv' /\ Content' = Decode(obj) /\ Decode(obj)' = Decode(obj)
      /\ {c \in Clients : Writing(c)}' = {} /\ unsaved' = FALSE
  BY <1>1, Dropped DEF Crash
<1>3. File!Crash
  BY <1>2 DEF File!Crash
<1> QED
  BY <1>2, <1>3 DEF Promised, File!Next

-----------------------------------------------------------------------------
(* dfs_get_local_copy.                                                      *)

LEMMA GetFailsKeeps == ASSUME DInv, NEW c \in Clients, GetFails(c) PROVE DInv' /\ Promised
<1> USE DEF GetFails, Return
<1>1. /\ th[c].pc \in {"get", "fill"} /\ obj # NoFile /\ Fails("get") /\ ~job.overlap /\ cell \in Cell
      /\ ~Cached /\ job \in Jobs
  BY DEF DInv, RequestOK, Sound, Fails, Fetching, TypeOK, InTurn
<1>2. /\ cell' \in Cell /\ cell'.fd = NoFd /\ cell'.pinned = TRUE
      /\ cell'.ondisk = cell.ondisk /\ cell'.usermd = cell.usermd
  BY <1>1 DEF Cell
<1>3. th'[c] = Idle /\ th' \in [Clients -> Request]
      /\ \A d \in Clients \ {c} : th'[d] = th[d] /\ th[d].pc \in {"idle", "held"}
  BY <1>1, IdleIs, OthersWait DEF DInv, TypeOK, Busy
<1>4. ~Cached' /\ Seen' = Seen /\ Decode(obj)' = Decode(obj)
  BY <1>1, <1>2 DEF Cached, Seen, Decode
<1>5. \A d \in Clients : ~Writing(d)
  BY <1>1 DEF DInv, InTurn
<1>6. \A d \in Clients : ~Writing(d)'
  BY <1>3, <1>5, IdleIs DEF Writing
<1>7. TypeOK' /\ Sound(job)'
  BY <1>2, <1>3 DEF DInv, TypeOK, Sound
<1>8. MarksOK' /\ CellOK'
  BY <1>1, <1>2, <1>3, <1>4, IdleIs DEF DInv, MarksOK, CellOK, At
<1>9. SavedOK'
  BY <1>4, <1>5, StaysSaved
<1>10. AtRest'
  BY <1>3, <1>4, <1>6, IdleIs, ComesToRest
<1>11. DInv'
  BY <1>7, <1>8, <1>9, <1>10, RestIsFine, PTL
<1> QED
  BY <1>4, <1>5, <1>6, <1>11, Nothing

\* What a download knows at its end.
LEMMA FillIs ==
    ASSUME DInv, NEW c \in Clients, At(c, "fill")
    PROVE  /\ th[c].src = obj /\ obj \in Object /\ obj # NoFile /\ obj.data \in Contents
           /\ Decode(obj) = obj.data /\ obj.md.mark = obj.zipped
           /\ th[c].ino \in Inodes /\ th[c].pos \in 1..Len(obj.data) + 1
           /\ inode[th[c].ino] \in CacheFile
           /\ inode[th[c].ino].data = SubSeq(obj.data, 1, th[c].pos - 1)
           /\ inode[th[c].ino].zipped = obj.zipped
           /\ th[c].ask \in {"read", "append"} /\ th[c].ask \in job.asks
           /\ Len(obj.data) \in 0..MaxBlocks
           /\ th[c].pos > Len(obj.data) => inode[th[c].ino].data = obj.data
<1>1. /\ th[c].src = obj /\ obj \in Object /\ obj # NoFile /\ obj.data \in Contents
      /\ Decode(obj) = obj.data /\ obj.md.mark = obj.zipped
  BY Decoded DEF DInv, RequestOK, MarksOK, At
<1>2. th[c].ino \in Inodes /\ th[c].ask \in {"read", "append"} /\ th[c].ask \in job.asks
  BY DEF DInv, RequestOK, At
<1>3. inode[th[c].ino] \in CacheFile /\ th[c].pos \in 1..MaxBlocks + 1
  BY <1>2, TypedRequest DEF DInv, TypeOK
<1>4. Len(obj.data) \in 0..MaxBlocks /\ SubSeq(obj.data, 1, Len(obj.data)) = obj.data
  BY <1>1, WholeIs
<1>5. /\ th[c].pos <= Len(obj.data) + 1
      /\ inode[th[c].ino].data = SubSeq(obj.data, 1, th[c].pos - 1)
      /\ inode[th[c].ino].zipped = obj.zipped
  BY DEF DInv, FillOK
<1>6. th[c].pos \in 1..Len(obj.data) + 1
  BY <1>3, <1>4, <1>5, MaxBlocksNat
<1>7. th[c].pos > Len(obj.data) => th[c].pos - 1 = Len(obj.data)
  BY <1>4, <1>6
<1> QED
  BY <1>1, <1>2, <1>3, <1>4, <1>5, <1>6, <1>7

LEMMA GetOpensIs ==
    ASSUME Room, DInv, NEW c \in Clients, At(c, "fill"), NEW i \in Inodes, GetOpens(c, i)
    PROVE  /\ cell' \in Cell /\ cell'.fd # NoFd /\ cell'.ondisk = "local"
           /\ cell'.pinned = cell.pinned /\ cell'.usermd = cell.usermd
           /\ file' \in [Fds -> Description]
           /\ file'[cell'.fd].ino = i /\ file'[cell'.fd].off = 0
           /\ th'[c].pc = "held" /\ th'[c].ask = th[c].ask
           /\ th'[c].fd = NoFd /\ th'[c].ino = NoInode
           /\ th' \in [Clients -> Request]
           /\ \A d \in Clients \ {c} : th'[d] = th[d]
<1> USE DEF GetOpens
<1> DEFINE d == [ino |-> i, off |-> 0, rw |-> th[c].ask # "read"]
<1>1. d \in Description /\ d.ino = i /\ d.off = 0
  BY MaxBlocksNat DEF Description
<1>2. NewFd \in Fds /\ NewFd # NoFd /\ file' = [file EXCEPT ![NewFd] = d]
  BY FdLeft DEF Opened
<1> HIDE DEF d
<1>3. file' \in [Fds -> Description] /\ file'[NewFd] = d
  BY <1>1, <1>2 DEF DInv, TypeOK
<1>4. /\ cell' \in Cell /\ cell'.fd = NewFd /\ cell'.ondisk = "local"
      /\ cell'.pinned = cell.pinned /\ cell'.usermd = cell.usermd
  BY <1>2 DEF DInv, TypeOK, Cell
<1>5. th[c].ask \in Asks
  BY TypedRequest DEF DInv
<1> QED
  BY <1>1, <1>2, <1>3, <1>4, <1>5, HoldIs DEF DInv

\* The end of a download that was alone: the new copy is what was read before.
LEMMA Fetched ==
    ASSUME Room, DInv, NEW c \in Clients, At(c, "fill"), ~job.overlap,
           name' \in Inodes, inode' \in [Inodes -> CacheFile],
           inode'[name'].data = obj.data, ~inode'[name'].zipped,
           GetOpens(c, name'),
           UNCHANGED <<job, obj, known, unsaved, wanted>>
    PROVE  DInv' /\ Promised
<1>1. /\ obj \in Object /\ obj # NoFile /\ Decode(obj) = obj.data /\ Decode(obj) # NoFile
      /\ th[c].ask \in {"read", "append"} /\ th[c].ask \in job.asks /\ th[c].pc = "fill" /\ ~Cached
  BY FillIs, Decoded DEF DInv, InTurn, Fetching, At
<1>2. /\ cell' \in Cell /\ cell'.fd # NoFd /\ cell'.ondisk = "local"
      /\ cell'.pinned = cell.pinned /\ cell'.usermd = cell.usermd
      /\ file' \in [Fds -> Description]
      /\ file'[cell'.fd].ino = name' /\ file'[cell'.fd].off = 0
      /\ th'[c].pc = "held" /\ th'[c].ask = th[c].ask
      /\ th'[c].fd = NoFd /\ th'[c].ino = NoInode
      /\ th' \in [Clients -> Request]
      /\ \A d \in Clients \ {c} : th'[d] = th[d]
  BY GetOpensIs
<1>3. \A d \in Clients \ {c} : th[d].pc \in {"idle", "held"}
  BY <1>1, OthersWait DEF Busy
<1>4. Cached' /\ Seen = Decode(obj) /\ Seen' = Decode(obj) /\ Decode(obj)' = Decode(obj)
  BY <1>1, <1>2 DEF Cached, Seen, Decode
<1>5. \A d \in Clients : ~Writing(d)
  BY <1>1 DEF DInv, InTurn
<1>6. TypeOK' /\ Sound(job)'
  BY <1>2 DEF DInv, TypeOK, Sound
<1>7. MarksOK' /\ CellOK'
  BY <1>1, <1>2, <1>3, <1>4 DEF DInv, MarksOK, CellOK, At
<1>8. SavedOK'
  BY <1>4, <1>5, StaysSaved
<1>9. AtRest'
  BY <1>1, <1>2, <1>3, <1>4, ComesToRest
<1>10. DInv'
  BY <1>6, <1>7, <1>8, <1>9, RestIsFine, PTL
<1>11. \A d \in Clients \ {c} : Writing(d)' <=> Writing(d)
  BY <1>2 DEF Writing
<1>12. CASE th[c].ask = "append"
  <2>1. Writing(c)'
    BY <1>2, <1>12 DEF Writing
  <2> QED
    BY <1>1, <1>4, <1>10, <1>11, <2>1, OpensToWrite
<1>13. CASE th[c].ask = "read"
  <2>1. ~Writing(c)'
    BY <1>2, <1>13 DEF Writing
  <2>2. \A d \in Clients : Writing(d)' <=> Writing(d)
    BY <1>5, <1>11, <2>1
  <2> QED
    BY <1>4, <1>10, <2>2, Nothing
<1> QED
  BY <1>1, <1>12, <1>13

LEMMA GetUnzipsKeeps == ASSUME Room, DInv, NEW c \in Clients, GetUnzips(c) PROVE DInv' /\ Promised
<1> USE DEF GetUnzips
<1> DEFINE x == [data |-> inode[name].data, zipped |-> FALSE, attr |-> Own]
<1>1. At(c, "fill") /\ obj # NoFile /\ obj.zipped /\ obj.data \in Contents /\ inode[name].data = obj.data
  BY FillIs
<1>2. ~job.overlap
  BY <1>1 DEF DInv, MarksOK
<1>3. x \in CacheFile /\ x.data = obj.data /\ ~x.zipped
  BY <1>1 DEF CacheFile, Attrs
<1>4. NewInode \in Inodes /\ name' = NewInode /\ inode' = [inode EXCEPT ![NewInode] = x]
  BY InodeLeft
<1> HIDE DEF x
<1>5. inode' \in [Inodes -> CacheFile] /\ inode'[name'] = x
  BY <1>3, <1>4 DEF DInv, TypeOK
<1>6. GetOpens(c, name') /\ UNCHANGED <<job, obj, known, unsaved, wanted>>
  BY <1>4 DEF GetOpens
<1> HIDE DEF GetUnzips
<1> QED
  BY <1>1, <1>2, <1>3, <1>4, <1>5, <1>6, Fetched

LEMMA GetPlainKeeps == ASSUME Room, DInv, NEW c \in Clients, GetPlain(c) PROVE DInv' /\ Promised
<1> USE DEF GetPlain
<1>1. /\ At(c, "fill") /\ obj # NoFile /\ ~obj.zipped /\ th[c].ino \in Inodes
      /\ inode[th[c].ino].data = obj.data /\ ~inode[th[c].ino].zipped
  BY FillIs
<1>2. CASE ~job.overlap
  <2>1. name = th[c].ino /\ inode \in [Inodes -> CacheFile]
    BY <1>1, <1>2 DEF DInv, InTurn, TypeOK
  <2>2. name' = name /\ inode' = inode /\ GetOpens(c, name') /\ UNCHANGED <<job, obj, known, unsaved, wanted>>
    BY DEF GetOpens
  <2> HIDE DEF GetPlain
  <2> QED
    BY <1>1, <1>2, <2>1, <2>2, Fetched
<1>3. CASE job.overlap
  <2>1. /\ \A d, e \in Clients : At(d, "fill") /\ At(e, "fill") /\ th[d].ino = th[e].ino => d = e
        /\ name \in Inodes /\ Copies(name)
    <3>1. Together /\ \A d \in Clients : At(d, "fill") => th[d].ino \in Inodes
      BY DEF DInv, RequestOK
    <3>2. \/ Cached /\ name = file[cell.fd].ino
          \/ \E d \in Clients : At(d, "fill") /\ th[d].ino = name
      BY <1>1, <1>3, <3>1 DEF Together
    <3> QED
      BY <1>3, <3>1, <3>2 DEF Together, Copies
  <2>2. /\ cell' \in Cell /\ cell'.fd # NoFd /\ cell'.ondisk = "local"
        /\ cell'.pinned = cell.pinned /\ cell'.usermd = cell.usermd
        /\ file' \in [Fds -> Description]
        /\ file'[cell'.fd].ino = name /\ file'[cell'.fd].off = 0
        /\ th'[c].pc = "held" /\ th'[c].ask = th[c].ask
        /\ th'[c].fd = NoFd /\ th'[c].ino = NoInode
        /\ th' \in [Clients -> Request]
        /\ \A d \in Clients \ {c} : th'[d] = th[d]
    BY <1>1, <2>1, GetOpensIs
  <2>3. Cached' /\ Seen' = Seen /\ Decode(obj)' = Decode(obj)
    BY <1>3, <2>2 DEF Cached, Seen, Decode
  <2>4. \A d \in Clients : ~Writing(d) /\ th[d].pc \notin {"put", "setattr"}
    BY <1>3, ReadersOnly
  <2>5. \A d \in Clients : th'[d].pc \notin {"put", "setattr"}
    BY <2>2, <2>4
  <2>6. th[c].ask \in {"read"} /\ th[c].ask \in job.asks
    BY <1>1, <1>3, FillIs, ReadersOnly
  <2>7. \A d \in Clients : ~Writing(d)'
    BY <2>2, <2>4, <2>6 DEF Writing
  <2>8. TypeOK' /\ Sound(job)'
    BY <2>2 DEF DInv, TypeOK, Sound
  <2>9. MarksOK' /\ CellOK'
    BY <1>1, <2>2, <2>3, <2>5 DEF DInv, MarksOK, CellOK, At
  <2>10. SavedOK'
    BY <2>3, <2>4, StaysSaved
  <2>11. \A d \in Clients : RequestOK(d)'
    <3> SUFFICES ASSUME NEW d \in Clients PROVE RequestOK(d)'
      OBVIOUS
    <3>1. RequestOK(d)
      BY DEF DInv
    <3> QED
      BY <2>2, <2>5, <2>6, <3>1 DEF RequestOK, At
  <2>12. \A d \in Clients : FillOK(d)' /\ PutOK(d)'
    BY <2>2, <2>5 DEF DInv, FillOK, PutOK, At
  <2>13. Copies(name)'
    BY <1>1, <2>1, <2>2 DEF Copies, At
  <2>14. ~Fetching(c)'
    BY <2>2 DEF Fetching
  <2>15. \A d \in Clients : At(d, "fill")' => At(d, "fill") /\ th'[d] = th[d]
    BY <2>2 DEF At
  <2>16. Together'
    BY <1>1, <1>3, <2>1, <2>2, <2>3, <2>13, <2>14, <2>15 DEF Together
  <2>17. DInv'
    BY <1>3, <2>8, <2>9, <2>10, <2>11, <2>12, <2>16 DEF DInv, InTurn
  <2> QED
    BY <2>3, <2>4, <2>7, <2>17, Nothing
<1> QED
  BY <1>2, <1>3

LEMMA GetStartKeeps == ASSUME Room, DInv, NEW c \in Clients, GetStart(c) PROVE DInv' /\ Promised
<1> USE DEF GetStart
<1> DEFINE x == [data |-> <<>>, zipped |-> obj.zipped,
                 attr |-> IF job.field = "mode" /\ obj.md.attr # None THEN obj.md.attr ELSE Own]
           n == NewInode
<1>1. /\ th[c].pc = "get" /\ obj # NoFile /\ obj \in Object /\ obj.md \in Md /\ cell \in Cell
      /\ th[c].pos = 1 /\ th[c].ask \in {"read", "append"} /\ th[c].ask \in job.asks
      /\ th[c].fd = NoFd /\ th[c] \in Request
  BY DEF DInv, TypeOK, Object, RequestOK, At
<1>2. x \in CacheFile /\ x.data = <<>> /\ x.zipped = obj.zipped
  BY <1>1, EmptyContents DEF CacheFile, Attrs, Object, Md
<1>3. n \in Inodes /\ FreeInode(n) /\ name' = n /\ inode' = [inode EXCEPT ![n] = x]
  BY InodeLeft
<1> HIDE DEF x, n
<1>4. inode' \in [Inodes -> CacheFile] /\ inode'[n] = x /\ \A i \in Inodes \ {n} : inode'[i] = inode[i]
  BY <1>2, <1>3 DEF DInv, TypeOK
<1>5. /\ cell' \in Cell /\ cell'.fd = cell.fd /\ cell'.pinned = cell.pinned
      /\ cell'.ondisk = cell.ondisk /\ cell'.usermd = obj.md
  BY <1>1 DEF Cell
<1>6. /\ th'[c] \in Request /\ th'[c].pc = "fill" /\ th'[c].src = obj /\ th'[c].ino = n
      /\ th'[c].pos = 1 /\ th'[c].ask = th[c].ask /\ th'[c].fd = NoFd
      /\ th' \in [Clients -> Request]
      /\ \A d \in Clients \ {c} : th'[d] = th[d]
  BY <1>1, <1>3 DEF DInv, TypeOK, Request, n
<1>7. Cached' = Cached /\ \A d \in Clients : th[d].ino # n
  BY <1>3, <1>5 DEF Cached, FreeInode
<1>8. Cached => file[cell.fd].ino # n /\ cell.fd \in Fds
  <2>1. Cached => cell.fd \in Fds /\ ~FreeFd(cell.fd)
    BY <1>1 DEF Cached, Cell, FreeFd
  <2> QED
    BY <1>3, <2>1 DEF FreeInode
<1>9. ~job.overlap => ~Cached /\ \A d \in Clients \ {c} : th[d].pc \in {"idle", "held"}
  BY <1>1, OthersWait DEF DInv, InTurn, Fetching, Busy
<1>10. Seen' = Seen /\ Decode(obj)' = Decode(obj)
  BY <1>7, <1>9 DEF Seen, Decode
<1>11. \A d \in Clients : (Writing(d)' <=> Writing(d)) /\ (Fetching(d)' <=> Fetching(d))
                          /\ (Busy(d)' <=> Busy(d))
  BY <1>1, <1>6 DEF Writing, Fetching, Busy
<1>12. \A d \in Clients : th'[d].pc = "put" => th'[d] = th[d] /\ th[d].pc = "put" /\ d # c
  BY <1>6
<1>13. TypeOK' /\ Sound(job)'
  BY <1>3, <1>4, <1>5, <1>6 DEF DInv, TypeOK, Sound
<1>14. MarksOK' /\ CellOK'
  BY <1>1, <1>5, <1>7, <1>12 DEF DInv, MarksOK, CellOK, At
<1>15. SavedOK'
  BY <1>10, <1>11, StaysSaved
<1>16. \A d \in Clients : RequestOK(d)'
  <2> SUFFICES ASSUME NEW d \in Clients PROVE RequestOK(d)'
    OBVIOUS
  <2>1. RequestOK(d)
    BY DEF DInv
  <2>2. CASE d = c
    BY <1>1, <1>3, <1>6, <2>2 DEF RequestOK, At
  <2>3. CASE d # c
    <3>1. th[d].pc # "setattr"
      BY <1>9, <2>3, ReadersOnly
    <3> QED
      BY <1>5, <1>6, <1>7, <2>1, <2>3, <3>1 DEF RequestOK, At
  <2> QED
    BY <2>2, <2>3
<1>17. FillOK(c)'
  <2>1. SubSeq(obj.data, 1, 1 - 1) = <<>> /\ 1 <= Len(obj.data) + 1
    BY <1>1, ContentsAreSeqs, WholeIs DEF Object
  <2> QED
    BY <1>2, <1>4, <1>6, <2>1 DEF FillOK
<1>18. \A d \in Clients \ {c} : FillOK(d)'
  <2> SUFFICES ASSUME NEW d \in Clients \ {c}, At(d, "fill") PROVE FillOK(d)'
    BY <1>6 DEF FillOK, At
  <2>1. th[d].ino \in Inodes \ {n} /\ FillOK(d) /\ th'[d] = th[d]
    BY <1>6, <1>7 DEF DInv, RequestOK
  <2> QED
    BY <1>4, <2>1 DEF FillOK, At
<1>19. \A d \in Clients : PutOK(d)'
  <2> SUFFICES ASSUME NEW d \in Clients, th'[d].pc = "put" PROVE FALSE
    BY DEF PutOK, At
  <2> QED
    BY <1>9, <1>12, ReadersOnly
<1>20. InTurn'
  <2> SUFFICES ASSUME ~job.overlap PROVE InTurn'
    BY DEF InTurn
  <2>1. \A d \in Clients : At(d, "fill")' => d = c
    BY <1>6, <1>9 DEF At
  <2>2. InTurn /\ ~Cached /\ ~Cached'
    BY <1>7, <1>9 DEF DInv
  <2> QED
    BY <1>3, <1>6, <1>11, <2>1, <2>2 DEF InTurn
<1>21. Together'
  <2> SUFFICES ASSUME job.overlap PROVE Together'
    BY DEF Together
  <2>1. Together
    BY DEF DInv
  <2>2. \A d \in Clients : At(d, "fill")' => d = c \/ (At(d, "fill") /\ th'[d] = th[d])
    BY <1>6 DEF At
  <2>3. \A d \in Clients : At(d, "fill") => At(d, "fill")' /\ th'[d] = th[d]
    BY <1>1, <1>6 DEF At
  <2>4. At(c, "fill")' /\ th'[c].ino = name'
    BY <1>3, <1>6 DEF At
  <2>5. \A d, e \in Clients : At(d, "fill")' /\ At(e, "fill")' /\ th'[d].ino = th'[e].ino => d = e
    BY <1>6, <1>7, <2>1, <2>2 DEF Together
  <2>6. ASSUME Cached PROVE Copies(file[cell.fd].ino)'
    <3>1. Copies(file[cell.fd].ino) /\ file[cell.fd].ino \in Inodes \ {n}
      BY <1>8, <2>1, <2>6 DEF Together
    <3>2. inode'[file[cell.fd].ino] = inode[file[cell.fd].ino] /\ cell'.fd = cell.fd
      BY <1>4, <1>5, <3>1
    <3> QED
      BY <2>3, <3>1, <3>2 DEF Copies
  <2> QED
    BY <1>5, <1>7, <1>11, <2>1, <2>4, <2>5, <2>6 DEF Together
<1>22. DInv'
  BY <1>13, <1>14, <1>15, <1>16, <1>17, <1>18, <1>19, <1>20, <1>21 DEF DInv
<1> QED
  BY <1>10, <1>11, <1>22, Nothing

LEMMA GetBlockKeeps == ASSUME DInv, NEW c \in Clients, GetBlock(c) PROVE DInv' /\ Promised
<1> USE DEF GetBlock
<1> DEFINE n == th[c].ino
           k == th[c].pos
           s == inode[n].data
<1>1. /\ th[c].pc = "fill" /\ obj # NoFile /\ obj.data \in Contents /\ n \in Inodes
      /\ k \in 1..Len(obj.data) /\ Len(obj.data) \in 0..MaxBlocks
      /\ inode[n] \in CacheFile /\ s = SubSeq(obj.data, 1, k - 1)
      /\ inode[n].zipped = obj.zipped /\ th[c].src = obj /\ th[c] \in Request
  BY FillIs, TypedRequest DEF At, DInv
<1>2. PutAt(s, k, obj.data[k]) = SubSeq(obj.data, 1, k) /\ SubSeq(obj.data, 1, k) \in Contents
  <2>1. k \in 0..MaxBlocks /\ k <= Len(obj.data)
    BY <1>1, MaxBlocksNat
  <2> QED
    BY <1>1, <2>1, PutAtNextBlock, Parts
<1> DEFINE x == [inode[n] EXCEPT !.data = PutAt(@, k, obj.data[k])]
<1>3. x \in CacheFile /\ x.data = SubSeq(obj.data, 1, k) /\ x.zipped = obj.zipped
  BY <1>1, <1>2 DEF CacheFile
<1>4. inode' = [inode EXCEPT ![n] = x]
  BY <1>1
<1> HIDE DEF x
<1>5. inode' \in [Inodes -> CacheFile] /\ inode'[n] = x /\ \A i \in Inodes \ {n} : inode'[i] = inode[i]
  BY <1>1, <1>3, <1>4 DEF DInv, TypeOK
<1>6. /\ th'[c].pc = "fill" /\ th'[c].pos = k + 1 /\ th'[c].ino = n /\ th'[c].src = obj
      /\ th'[c].ask = th[c].ask /\ th'[c].fd = th[c].fd
      /\ \A d \in Clients \ {c} : th'[d] = th[d]
  BY <1>1 DEF DInv, TypeOK, Request
<1>7. th' \in [Clients -> Request]
  <2>1. k + 1 \in 1..MaxBlocks + 1
    BY <1>1, MaxBlocksNat
  <2> QED
    BY <1>1, <2>1 DEF DInv, TypeOK, Request
<1>8. \A d \in Clients : At(d, "fill") /\ d # c => th[d].ino \in Inodes \ {n}
  BY <1>1, OthersWait DEF DInv, RequestOK, Together, At, Busy
<1>9. ~job.overlap => ~Cached /\ \A d \in Clients \ {c} : th[d].pc \in {"idle", "held"}
  BY <1>1, OthersWait DEF DInv, InTurn, Fetching, Busy
<1>10. Seen' = Seen /\ Decode(obj)' = Decode(obj) /\ Cached' = Cached
  BY <1>9 DEF Seen, Decode, Cached
<1>11. \A d \in Clients : (Writing(d)' <=> Writing(d)) /\ (Fetching(d)' <=> Fetching(d))
                          /\ (Busy(d)' <=> Busy(d)) /\ (\A l : At(d, l)' <=> At(d, l))
                          /\ th'[d].ino = th[d].ino
  BY <1>1, <1>6 DEF Writing, Fetching, Busy, At
<1>12. TypeOK' /\ Sound(job)'
  BY <1>5, <1>7 DEF DInv, TypeOK, Sound
<1>13. MarksOK' /\ CellOK'
  <2>1. \A d \in Clients : th'[d].pc = "put" => th'[d] = th[d] /\ th[d].pc = "put"
    BY <1>6
  <2> QED
    BY <1>10, <2>1 DEF DInv, MarksOK, CellOK, At
<1>14. SavedOK'
  BY <1>10, <1>11, StaysSaved
<1>15. \A d \in Clients : RequestOK(d)'
  <2> SUFFICES ASSUME NEW d \in Clients PROVE RequestOK(d)'
    OBVIOUS
  <2>1. RequestOK(d)
    BY DEF DInv
  <2> QED
    BY <1>1, <1>6, <1>10, <2>1 DEF RequestOK, At
<1>16. FillOK(c)'
  <2>1. k + 1 <= Len(obj.data) + 1 /\ (k + 1) - 1 = k
    BY <1>1
  <2> QED
    BY <1>3, <1>5, <1>6, <2>1 DEF FillOK
<1>17. \A d \in Clients \ {c} : FillOK(d)'
  <2> SUFFICES ASSUME NEW d \in Clients \ {c}, At(d, "fill") PROVE FillOK(d)'
    BY <1>6 DEF FillOK, At
  <2>1. th[d].ino \in Inodes \ {n} /\ FillOK(d) /\ th'[d] = th[d]
    BY <1>6, <1>8 DEF DInv
  <2> QED
    BY <1>5, <2>1 DEF FillOK, At
<1>18. \A d \in Clients : PutOK(d)'
  <2> SUFFICES ASSUME NEW d \in Clients, th'[d].pc = "put" PROVE FALSE
    BY DEF PutOK, At
  <2> QED
    BY <1>1, <1>6, <1>9, ReadersOnly
<1>19. InTurn'
  <2>1. InTurn
    BY DEF DInv
  <2> QED
    BY <1>9, <1>10, <1>11, <2>1 DEF InTurn
<1>20. Together'
  <2> SUFFICES ASSUME job.overlap PROVE Together'
    BY DEF Together
  <2>1. Together
    BY DEF DInv
  <2>2. ASSUME Cached PROVE Copies(file[cell.fd].ino)'
    <3>1. Copies(file[cell.fd].ino) /\ file[cell.fd].ino \in Inodes
      BY <2>1, <2>2 DEF Together
    <3>2. CASE file[cell.fd].ino = n
      BY <1>1, <1>6, <3>2 DEF Copies, At
    <3>3. CASE file[cell.fd].ino # n
      <4>1. inode'[file[cell.fd].ino] = inode[file[cell.fd].ino]
        BY <1>5, <3>1, <3>3
      <4> QED
        BY <1>11, <3>1, <4>1 DEF Copies
    <3> QED
      BY <3>2, <3>3
  <2> QED
    BY <1>10, <1>11, <2>1, <2>2 DEF Together
<1>21. DInv'
  BY <1>12, <1>13, <1>14, <1>15, <1>16, <1>17, <1>18, <1>19, <1>20 DEF DInv
<1> QED
  BY <1>10, <1>11, <1>21, Nothing

-----------------------------------------------------------------------------
(* dfs_write and dfs_release.                                               *)

LEMMA WriterIs ==
    ASSUME DInv, NEW c \in Clients, Writing(c)
    PROVE  /\ ~job.overlap /\ Cached /\ name \in Inodes /\ cell.fd \in Fds
           /\ file[cell.fd].ino = name /\ Behind = inode[name]
           /\ inode[name] \in CacheFile /\ inode[name].data \in Contents /\ ~inode[name].zipped
           /\ \A d \in Clients : ~Fetching(d)
           /\ Seen = inode[name].data /\ Seen # NoFile
<1>1. ~job.overlap
  BY ReadersOnly
<1>2. /\ Cached /\ name \in Inodes /\ file[cell.fd].ino = name /\ ~inode[name].zipped
      /\ \A d \in Clients : ~Fetching(d)
  BY <1>1 DEF DInv, InTurn
<1>3. cell.fd \in Fds /\ Behind = inode[name] /\ inode[name] \in CacheFile
  BY <1>1, <1>2, BehindIs DEF DInv, TypeOK
<1>4. inode[name].data \in Contents
  BY <1>3 DEF CacheFile
<1> QED
  BY <1>1, <1>2, <1>3, <1>4, NoFileAssumption DEF Seen

LEMMA WriteKeeps == ASSUME DInv, NEW c \in Clients, Write(c) PROVE DInv' /\ Promised
<1>1. Writing(c) /\ th[c].pc = "held"
  BY DEF Write, Writing, At
<1>2. /\ ~job.overlap /\ Cached /\ name \in Inodes /\ cell.fd \in Fds
      /\ file[cell.fd].ino = name /\ Behind = inode[name]
      /\ inode[name] \in CacheFile /\ inode[name].data \in Contents /\ ~inode[name].zipped
      /\ \A d \in Clients : ~Fetching(d)
  BY <1>1, WriterIs
<1>3. UNCHANGED <<job, obj, cell, file, name, known, th, unsaved, wanted>>
  BY DEF Write
<1>4. PICK v \in Values, i \in 1..MaxBlocks :
          inode' = [inode EXCEPT ![name].data = PutAt(@, i, v)]
  BY <1>2 DEF Write
<1> DEFINE t == PutAt(inode[name].data, i, v)
           x == [inode[name] EXCEPT !.data = t]
<1>5. t \in Contents /\ Len(t) >= Len(inode[name].data)
  BY <1>2, PutAtContents DEF Block
<1>6. Len(t) \in Nat /\ Len(inode[name].data) \in Nat
  BY <1>2, <1>5, ContentsAreSeqs
<1> HIDE DEF t
<1>7. x \in CacheFile /\ x.data = t /\ ~x.zipped
  BY <1>2, <1>5 DEF CacheFile
<1>8. inode' = [inode EXCEPT ![name] = x]
  BY <1>4 DEF t
<1> HIDE DEF x
<1>9. inode' \in [Inodes -> CacheFile] /\ inode'[name] = x /\ name' = name
  BY <1>2, <1>3, <1>7, <1>8 DEF DInv, TypeOK
<1>10. \A d \in Clients : Writing(d)' <=> Writing(d)
  BY <1>3 DEF Writing
<1>11. Cached' /\ Seen' = t /\ Decode(obj)' = Decode(obj)
  BY <1>2, <1>3, <1>7, <1>9 DEF Cached, Seen, Decode
<1>12. TypeOK' /\ Sound(job)'
  BY <1>3, <1>9 DEF DInv, TypeOK, Sound
<1>13. MarksOK' /\ CellOK'
  BY <1>3, <1>11 DEF DInv, MarksOK, CellOK, At, Cached
<1>14. SavedOK'
  BY <1>1, <1>10 DEF SavedOK, NobodyWrites
<1>15. \A d \in Clients : RequestOK(d)'
  BY <1>3 DEF DInv, RequestOK, At, Cached
<1>16. \A d \in Clients : FillOK(d)'
  BY <1>2, <1>3 DEF FillOK, At, Fetching
<1>17. \A d \in Clients : PutOK(d)'
  <2> SUFFICES ASSUME NEW d \in Clients, At(d, "put") PROVE PutOK(d)'
    BY <1>3 DEF PutOK, At
  <2>1. PutOK(d) /\ d # c /\ Writing(c)' /\ th[d].sent \in Contents
    BY <1>1, <1>10, TypedRequest DEF DInv, At
  <2>2. Len(th[d].sent) \in Nat
    BY <2>1, ContentsAreSeqs
  <2>3. Len(th[d].sent) <= Len(inode[name].data) => Len(th[d].sent) <= Len(t)
    BY <1>5, <1>6, <2>2
  <2> QED
    BY <1>3, <1>7, <1>9, <2>1, <2>3 DEF PutOK, At
<1>18. InTurn' /\ Together'
  BY <1>2, <1>3, <1>7, <1>9, <1>10, <1>11 DEF DInv, InTurn, Together, Busy, At, Fetching
<1>19. DInv'
  BY <1>12, <1>13, <1>14, <1>15, <1>16, <1>17, <1>18 DEF DInv
<1>20. File!Write
  <2>1. {d \in Clients : Writing(d)}' = {d \in Clients : Writing(d)}
    BY <1>10
  <2>2. {d \in Clients : Writing(d)} # {}
    BY <1>1
  <2> QED
    BY <1>3, <1>5, <1>11, <1>19, <2>1, <2>2, ContentStep DEF File!Write
<1> QED
  BY <1>19, <1>20 DEF Promised, File!Next

LEMMA CloseWriterKeeps == ASSUME DInv, NEW c \in Clients, CloseWriter(c) PROVE DInv' /\ Promised
<1>1. /\ th[c].pc = "held" /\ Writing(c) /\ th[c] \in Request
      /\ UNCHANGED <<job, obj, cell, file, inode, name, known, unsaved, wanted>>
  BY DEF CloseWriter, DInv, RequestOK, Writing, At, TypeOK
<1>2. /\ ~job.overlap /\ Cached /\ name \in Inodes /\ cell.fd \in Fds
      /\ file[cell.fd].ino = name /\ Behind = inode[name]
      /\ inode[name] \in CacheFile /\ inode[name].data \in Contents
  BY <1>1, WriterIs
<1>3. Quiet /\ \A d \in Clients : th[d].pc \in {"idle", "held"}
  BY <1>2 DEF CloseWriter, Quiet
<1>4. file[cell.fd].off = 0
  BY <1>2, <1>3 DEF DInv, InTurn, At
<1> DEFINE data == inode[name].data
<1>5. PICK z \in Compressed :
          th' = [th EXCEPT ![c] = [@ EXCEPT
                    !.pc = "put", !.fd = cell.fd, !.zip = z,
                    !.size = Len(data), !.attr = inode[name].attr,
                    !.sent = IF z THEN data ELSE <<>>]]
  BY <1>2 DEF CloseWriter
<1>6. z \in BOOLEAN /\ (z => job.zlib)
  <2>1. job \in Job
    BY JobsAssumption DEF DInv, TypeOK
  <2> QED
    BY <2>1 DEF Compressed, Job
<1>7. (IF z THEN data ELSE <<>>) \in Contents /\ Len(data) \in 0..MaxBlocks /\ inode[name].attr \in Attrs
      /\ Len(<<>>) = 0 /\ SubSeq(data, 1, 0) = <<>>
  BY <1>2, EmptyContents, WholeIs, ContentsAreSeqs DEF CacheFile
<1>8. /\ th'[c] \in Request /\ th'[c].pc = "put" /\ th'[c].fd = cell.fd /\ th'[c].zip = z
      /\ th'[c].size = Len(data) /\ th'[c].sent = (IF z THEN data ELSE <<>>)
      /\ th'[c].ask = th[c].ask /\ th'[c].ino = th[c].ino
      /\ th' \in [Clients -> Request]
      /\ \A d \in Clients \ {c} : th'[d] = th[d]
  <2> DEFINE r == [th[c] EXCEPT
                    !.pc = "put", !.fd = cell.fd, !.zip = z,
                    !.size = Len(data), !.attr = inode[name].attr,
                    !.sent = IF z THEN data ELSE <<>>]
  <2>1. /\ r \in Request /\ r.pc = "put" /\ r.fd = cell.fd /\ r.zip = z
        /\ r.size = Len(data) /\ r.sent = (IF z THEN data ELSE <<>>)
        /\ r.ask = th[c].ask /\ r.ino = th[c].ino
    <3> HIDE DEF data
    <3> QED
      BY <1>1, <1>2, <1>6, <1>7 DEF Request
  <2>2. th' = [th EXCEPT ![c] = r]
    BY <1>5
  <2> HIDE DEF r
  <2> QED
    BY <2>1, <2>2 DEF DInv, TypeOK
<1> HIDE DEF data
<1>9. \A d \in Clients : Writing(d)' <=> Writing(d)
  BY <1>1, <1>8 DEF Writing
<1>10. Cached' /\ Seen' = Seen /\ Decode(obj)' = Decode(obj)
  BY <1>1, <1>2 DEF Cached, Seen, Decode
<1>11. TypeOK' /\ Sound(job)'
  BY <1>1, <1>8 DEF DInv, TypeOK, Sound
<1>12. MarksOK' /\ CellOK'
  BY <1>1, <1>3, <1>6, <1>8, <1>10 DEF DInv, MarksOK, CellOK, At, Cached
<1>13. SavedOK'
  BY <1>1, <1>9, <1>10, StaysSaved
<1>14. \A d \in Clients : RequestOK(d)'
  <2> SUFFICES ASSUME NEW d \in Clients PROVE RequestOK(d)'
    OBVIOUS
  <2>1. RequestOK(d)
    BY DEF DInv
  <2>2. CASE d = c
    BY <1>1, <1>2, <1>8, <1>10, <2>1, <2>2 DEF RequestOK, At, Writing
  <2>3. CASE d # c
    BY <1>1, <1>8, <1>10, <2>1, <2>3 DEF RequestOK, At
  <2> QED
    BY <2>2, <2>3
<1>15. \A d \in Clients : FillOK(d)'
  BY <1>3, <1>8 DEF FillOK, At
<1>16. \A d \in Clients : PutOK(d)'
  <2>1. \A d \in Clients \ {c} : PutOK(d)'
    BY <1>3, <1>8 DEF PutOK, At
  <2>2. inode'[name'].data = data /\ file'[cell'.fd].off = 0 /\ Len(data) \in Nat
    BY <1>1, <1>4, <1>7 DEF data
  <2>3. PutOK(c)'
    <3>1. CASE z
      BY <1>8, <2>2, <3>1 DEF PutOK
    <3>2. CASE ~z
      <4>1. th'[c].sent = <<>> /\ Len(th'[c].sent) = 0 /\ SubSeq(data, 1, Len(th'[c].sent)) = <<>>
        BY <1>7, <1>8, <3>2
      <4> QED
        BY <1>8, <2>2, <3>2, <4>1 DEF PutOK
    <3> QED
      BY <3>1, <3>2
  <2> QED
    BY <2>1, <2>3
<1>17. InTurn'
  <2>1. InTurn /\ \A d \in Clients : Busy(d)' => d = c
    BY <1>3, <1>8 DEF DInv, Busy
  <2>2. \A d \in Clients : ~Fetching(d)' /\ ~At(d, "fill")'
    BY <1>3, <1>8 DEF Fetching, At
  <2>3. At(c, "put")'
    BY <1>8 DEF At
  <2> QED
    BY <1>1, <1>2, <1>10, <2>1, <2>2, <2>3 DEF InTurn
<1>18. Together'
  BY <1>1, <1>2 DEF Together
<1>19. DInv'
  BY <1>11, <1>12, <1>13, <1>14, <1>15, <1>16, <1>17, <1>18 DEF DInv
<1> QED
  BY <1>1, <1>9, <1>10, <1>19, Nothing

\* An upload on its way.
LEMMA PutIs ==
    ASSUME DInv, NEW c \in Clients, At(c, "put")
    PROVE  /\ Writing(c) /\ ~job.overlap /\ Cached /\ name \in Inodes /\ cell.fd \in Fds
           /\ file[cell.fd].ino = name /\ Behind = inode[name] /\ th[c].fd = cell.fd
           /\ inode[name].data \in Contents /\ ~inode[name].zipped
           /\ Seen = inode[name].data
           /\ th[c] \in Request /\ th[c].sent \in Contents /\ th[c].size \in 0..MaxBlocks
           /\ Len(th[c].sent) \in 0..MaxBlocks /\ Len(inode[name].data) \in 0..MaxBlocks
           /\ \A d \in Clients \ {c} : th[d].pc \in {"idle", "held"}
           /\ \A d \in Clients : ~Fetching(d)
           /\ obj # NoFile \/ cell.pinned
           /\ file[cell.fd].off \in 0..MaxBlocks
<1>1. Writing(c) /\ th[c].fd = cell.fd
  BY DEF DInv, RequestOK, Writing, At
<1>2. /\ ~job.overlap /\ Cached /\ name \in Inodes /\ cell.fd \in Fds
      /\ file[cell.fd].ino = name /\ Behind = inode[name]
      /\ inode[name].data \in Contents /\ ~inode[name].zipped
      /\ \A d \in Clients : ~Fetching(d)
      /\ Seen = inode[name].data
  BY <1>1, WriterIs
<1>3. th[c] \in Request /\ th[c].sent \in Contents /\ th[c].size \in 0..MaxBlocks
  BY TypedRequest DEF DInv
<1>4. Len(th[c].sent) \in 0..MaxBlocks /\ Len(inode[name].data) \in 0..MaxBlocks
  BY <1>2, <1>3, WholeIs
<1>5. \A d \in Clients \ {c} : th[d].pc \in {"idle", "held"}
  BY <1>2, OthersWait DEF Busy, At
<1>6. obj # NoFile \/ cell.pinned
  BY <1>2 DEF DInv, CellOK
<1>7. file[cell.fd].off \in 0..MaxBlocks
  BY <1>2 DEF DInv, TypeOK, Description
<1> QED
  BY <1>1, <1>2, <1>3, <1>4, <1>5, <1>6, <1>7

LEMMA PutBlockKeeps == ASSUME DInv, NEW c \in Clients, PutBlock(c) PROVE DInv' /\ Promised
<1> DEFINE data == inode[name].data
           sent == th[c].sent
           n == Len(sent)
<1>1. /\ Writing(c) /\ ~job.overlap /\ Cached /\ name \in Inodes /\ cell.fd \in Fds
      /\ file[cell.fd].ino = name /\ th[c].fd = cell.fd
      /\ data \in Contents /\ th[c] \in Request /\ sent \in Contents
      /\ n \in 0..MaxBlocks /\ Len(data) \in 0..MaxBlocks
      /\ \A d \in Clients \ {c} : th[d].pc \in {"idle", "held"}
      /\ \A d \in Clients : ~Fetching(d)
      /\ th[c].pc = "put"
  BY PutIs DEF PutBlock, At
<1>2. /\ UNCHANGED <<job, obj, cell, inode, name, known, unsaved, wanted>>
      /\ th' = [th EXCEPT ![c].sent = Append(@, data[file[cell.fd].off + 1])]
      /\ file' = [file EXCEPT ![cell.fd].off = @ + 1]
      /\ ~th[c].zip /\ n # MaxBlocks /\ ~(file[cell.fd].off >= Len(data))
  BY <1>1 DEF PutBlock, AtEnd
<1>3. file[cell.fd].off = n /\ PutOK(c)
  BY <1>1, <1>2 DEF DInv, PutOK, At
<1>4. n + 1 <= Len(data) /\ n + 1 \in 1..MaxBlocks /\ n < Len(data) /\ n \in Nat
  BY <1>1, <1>2, <1>3, MaxBlocksNat
<1> DEFINE s == Append(sent, data[n + 1])
<1>5. s \in Contents /\ Len(s) = n + 1
  <2>1. sent \in Seq(Block) /\ data \in Seq(Block)
    BY <1>1, ContentsAreSeqs
  <2>2. data[n + 1] \in Block
    BY <1>1, <1>4, <2>1
  <2>3. s \in Seq(Block) /\ Len(s) = n + 1
    BY <2>1, <2>2
  <2> HIDE DEF s
  <2>4. Len(s) <= MaxBlocks
    BY <1>4, <2>3, MaxBlocksNat
  <2> QED
    BY <2>3, <2>4, ContentsAreSeqs
<1>6. sent = SubSeq(data, 1, n) => s = SubSeq(data, 1, n + 1)
  BY <1>1, <1>4, AppendNextBlock
<1>7. /\ th'[c] \in Request /\ th'[c].pc = "put" /\ th'[c].fd = cell.fd /\ th'[c].zip = th[c].zip
      /\ th'[c].size = th[c].size /\ th'[c].sent = s
      /\ th'[c].ask = th[c].ask /\ th'[c].ino = th[c].ino
      /\ th' \in [Clients -> Request]
      /\ \A d \in Clients \ {c} : th'[d] = th[d]
  <2>1. th' = [th EXCEPT ![c] = [th[c] EXCEPT !.sent = s]]
    BY <1>2, <1>3
  <2> HIDE DEF s
  <2> QED
    BY <1>1, <1>5, <2>1 DEF DInv, TypeOK, Request
<1>8. file' \in [Fds -> Description] /\ file'[cell.fd].ino = name /\ file'[cell.fd].off = n + 1
  <2> DEFINE d == [file[cell.fd] EXCEPT !.off = @ + 1]
  <2>1. file[cell.fd] \in Description /\ n + 1 \in 0..MaxBlocks
    BY <1>1, <1>4, MaxBlocksNat DEF DInv, TypeOK
  <2>2. d \in Description /\ d.ino = name /\ d.off = n + 1
    BY <1>1, <1>3, <2>1 DEF Description
  <2>3. file' = [file EXCEPT ![cell.fd] = d]
    BY <1>2
  <2> HIDE DEF d
  <2> QED
    BY <1>1, <2>2, <2>3 DEF DInv, TypeOK
<1> HIDE DEF s, n, data, sent
<1>9. \A d \in Clients : (Writing(d)' <=> Writing(d)) /\ (Fetching(d)' <=> Fetching(d))
                         /\ (Busy(d)' <=> Busy(d)) /\ (\A l : At(d, l)' <=> At(d, l))
  BY <1>1, <1>7 DEF Writing, Fetching, Busy, At
<1>10. Cached' /\ Seen' = Seen /\ Decode(obj)' = Decode(obj)
  BY <1>1, <1>2 DEF Cached, Seen, Decode
<1>11. TypeOK' /\ Sound(job)'
  BY <1>2, <1>7, <1>8 DEF DInv, TypeOK, Sound
<1>12. MarksOK' /\ CellOK'
  BY <1>1, <1>2, <1>7, <1>10 DEF DInv, MarksOK, CellOK, At, Cached
<1>13. SavedOK'
  BY <1>2, <1>9, <1>10, StaysSaved
<1>14. \A d \in Clients : RequestOK(d)'
  <2> SUFFICES ASSUME NEW d \in Clients PROVE RequestOK(d)'
    OBVIOUS
  <2>1. RequestOK(d)
    BY DEF DInv
  <2> QED
    BY <1>1, <1>2, <1>7, <1>10, <2>1 DEF RequestOK, At
<1>15. \A d \in Clients : FillOK(d)'
  BY <1>1, <1>7 DEF FillOK, At
<1>16. \A d \in Clients : PutOK(d)'
  <2>1. \A d \in Clients \ {c} : PutOK(d)'
    BY <1>1, <1>7 DEF PutOK, At
  <2>2. (\A d \in Clients \ {c} : ~Writing(d)') => \A d \in Clients \ {c} : ~Writing(d)
    BY <1>9
  <2>3. PutOK(c)'
    BY <1>1, <1>2, <1>3, <1>4, <1>5, <1>6, <1>7, <1>8, <2>2 DEF PutOK, At, n, data, sent
  <2> QED
    BY <2>1, <2>3
<1>17. InTurn'
  <2>1. InTurn /\ At(c, "put")
    BY <1>1 DEF DInv, At
  <2>2. \A d \in Clients : ~At(d, "fill")
    BY <1>1 DEF Fetching, At
  <2> QED
    BY <1>2, <1>8, <1>1, <1>9, <1>10, <2>1, <2>2 DEF InTurn
<1>18. Together'
  BY <1>1, <1>2 DEF Together
<1>19. DInv'
  BY <1>11, <1>12, <1>13, <1>14, <1>15, <1>16, <1>17, <1>18 DEF DInv
<1> QED
  BY <1>2, <1>9, <1>10, <1>19, Nothing

\* An upload during which nobody else wrote has sent the whole file.
LEMMA SentAll ==
    ASSUME DInv, NEW c \in Clients, At(c, "put"), AtEnd(c),
           \A d \in Clients \ {c} : ~Writing(d)
    PROVE  /\ Len(th[c].sent) = th[c].size
           /\ Kept(th[c]) = inode[name].data
<1> DEFINE data == inode[name].data
           n == Len(th[c].sent)
<1>1. /\ Cached /\ file[cell.fd].ino = name /\ th[c].fd = cell.fd
      /\ data \in Contents /\ th[c].sent \in Contents
      /\ n \in 0..MaxBlocks /\ Len(data) \in 0..MaxBlocks
  BY PutIs
<1>2. th[c].size = Len(data) /\ PutOK(c)
  BY DEF DInv, PutOK
<1>3. SubSeq(data, 1, Len(data)) = data
  BY <1>1, WholeIs
<1>4. CASE th[c].zip
  BY <1>2, <1>3, <1>4 DEF PutOK, Kept
<1>5. CASE ~th[c].zip
  <2>1. n = MaxBlocks \/ file[cell.fd].off >= Len(data)
    BY <1>1, <1>5 DEF AtEnd
  <2>2. file[cell.fd].off = n /\ n <= Len(data) /\ th[c].sent = SubSeq(data, 1, n)
    BY <1>2, <1>5 DEF PutOK
  <2> HIDE DEF data, n
  <2>3. n = Len(data)
    BY <1>1, <2>1, <2>2, MaxBlocksNat
  <2> QED
    BY <1>2, <1>3, <2>2, <2>3 DEF Kept, n, data
<1> QED
  BY <1>4, <1>5

\* The end of a dfs_release, whatever came of the upload.
LEMMA ReleaseRests ==
    ASSUME DInv, NEW c \in Clients, At(c, "put"), PutReturns(c),
           UNCHANGED <<job, cell, inode, name, known, wanted>>
    PROVE  /\ file' \in [Fds -> Description] /\ th' \in [Clients -> Request]
           /\ AtRest' /\ Cached' /\ Seen' = Seen
           /\ \A d \in Clients : ~At(d, "put")'
           /\ {d \in Clients : Writing(d)}' = {d \in Clients : Writing(d)} \ {c}
           /\ Writing(c) /\ ~Writing(c)'
           /\ \A d \in Clients \ {c} : Writing(d)' <=> Writing(d)
<1>1. /\ Writing(c) /\ ~job.overlap /\ Cached /\ name \in Inodes /\ cell.fd \in Fds
      /\ file[cell.fd].ino = name /\ ~inode[name].zipped
      /\ \A d \in Clients \ {c} : th[d].pc \in {"idle", "held"}
  BY PutIs
<1>2. th'[c] = Idle /\ th' \in [Clients -> Request] /\ \A d \in Clients \ {c} : th'[d] = th[d]
  BY IdleIs DEF PutReturns, Return, DInv, TypeOK
<1> DEFINE x == [file[cell.fd] EXCEPT !.off = 0]
<1>3. file[cell.fd] \in Description
  BY <1>1 DEF DInv, TypeOK
<1>4. x \in Description /\ x.ino = name /\ x.off = 0
  BY <1>1, <1>3, MaxBlocksNat DEF Description
<1>5. file' = [file EXCEPT ![cell.fd] = x]
  BY <1>1 DEF PutReturns
<1> HIDE DEF x
<1>6. file' \in [Fds -> Description] /\ file'[cell.fd].ino = name /\ file'[cell.fd].off = 0
  BY <1>1, <1>4, <1>5 DEF DInv, TypeOK
<1>7. Cached' /\ Seen' = Seen
  BY <1>1 DEF Cached, Seen
<1>8. AtRest'
  BY <1>1, <1>2, <1>6, <1>7, IdleIs, ComesToRest
<1>9. ~Writing(c)' /\ \A d \in Clients \ {c} : Writing(d)' <=> Writing(d)
  BY <1>2, IdleIs DEF Writing
<1>10. {d \in Clients : Writing(d)}' = {d \in Clients : Writing(d)} \ {c}
  BY <1>9
<1>11. \A d \in Clients : ~At(d, "put")'
  BY <1>1, <1>2, IdleIs DEF At
<1> QED
  BY <1>1, <1>2, <1>6, <1>7, <1>8, <1>9, <1>10, <1>11

\* An upload whose data were all sent: what the bucket then keeps.
LEMMA UploadIs ==
    ASSUME DInv, NEW c \in Clients, At(c, "put"), AtEnd(c), Len(th[c].sent) >= th[c].size
    PROVE  /\ Uploaded(th[c]) \in Object /\ Uploaded(th[c]) # NoFile
           /\ Uploaded(th[c]).md.mark = th[c].zip /\ Uploaded(th[c]).zipped = th[c].zip
           /\ Decode(Uploaded(th[c])) = Kept(th[c]) /\ Kept(th[c]) \in Contents
           /\ ~job.zlib => ~th[c].zip
           /\ (\A d \in Clients \ {c} : ~Writing(d)) => Kept(th[c]) = inode[name].data
<1> DEFINE kept == Kept(th[c])
           put == Uploaded(th[c])
<1>1. th[c] \in Request /\ th[c].zip \in BOOLEAN /\ th[c].attr \in Attrs /\ th[c].size \in 0..MaxBlocks
  BY PutIs DEF DInv, TypeOK, Request
<1>2. kept \in Contents
  <2>1. th[c].sent \in Contents
    BY PutIs
  <2> QED
    BY <1>1, <2>1, Parts DEF Kept
<1>3. put \in Object /\ put.md.mark = th[c].zip /\ put.zipped = th[c].zip /\ put.data = kept
  <2> HIDE DEF kept
  <2>1. put = [data |-> kept, zipped |-> th[c].zip,
               md |-> [attr |-> th[c].attr, size |-> th[c].size, mark |-> th[c].zip]]
    BY DEF Uploaded, kept
  <2> HIDE DEF put
  <2> QED
    BY <1>1, <1>2, <2>1 DEF Object, Md
<1> HIDE DEF put
<1>4. put # NoFile
  BY <1>3, NoFileAssumption
<1>5. Decode(put) = kept
  BY <1>3, <1>4 DEF Decode
<1>6. ~job.zlib => ~th[c].zip
  BY DEF DInv, MarksOK
<1>7. (\A d \in Clients \ {c} : ~Writing(d)) => kept = inode[name].data
  BY SentAll
<1> QED
  BY <1>2, <1>3, <1>4, <1>5, <1>6, <1>7 DEF put

\* The object is as it was, or what was sent has replaced it although the call
\* failed.
LEMMA PutFailsKeeps == ASSUME DInv, NEW c \in Clients, PutFails(c) PROVE DInv' /\ Promised
<1>1. /\ At(c, "put") /\ PutReturns(c) /\ unsaved' = TRUE
      /\ UNCHANGED <<job, cell, inode, name, known, wanted>>
      /\ \/ Fails("put") /\ obj' = obj
         \/ /\ Fails("put") /\ AtEnd(c) /\ Len(th[c].sent) >= th[c].size
            /\ obj' = Uploaded(th[c])
         \/ AtEnd(c) /\ Len(th[c].sent) # th[c].size /\ obj' = obj
  BY DEF PutFails
<1>2. /\ file' \in [Fds -> Description] /\ th' \in [Clients -> Request]
      /\ AtRest' /\ Cached' /\ Seen' = Seen
      /\ \A d \in Clients : ~At(d, "put")'
      /\ {d \in Clients : Writing(d)}' = {d \in Clients : Writing(d)} \ {c}
      /\ Writing(c) /\ ~Writing(c)'
      /\ \A d \in Clients \ {c} : Writing(d)' <=> Writing(d)
  BY <1>1, ReleaseRests
<1>3. Cached /\ Seen = inode[name].data /\ ~job.overlap
  BY <1>1, PutIs
<1>4. \/ obj' = obj
      \/ /\ obj' \in Object /\ obj' # NoFile /\ obj'.md.mark = th[c].zip /\ obj'.zipped = th[c].zip
         /\ Decode(obj)' = Kept(th[c]) /\ Kept(th[c]) \in Contents
         /\ ~job.zlib => ~th[c].zip
         /\ (\A d \in Clients \ {c} : ~Writing(d)) => Kept(th[c]) = inode[name].data
  BY <1>1, UploadIs DEF Decode
<1>5. TypeOK' /\ Sound(job)'
  BY <1>1, <1>2, <1>4 DEF DInv, TypeOK, Sound
<1>6. MarksOK' /\ CellOK'
  BY <1>1, <1>2, <1>3, <1>4 DEF DInv, MarksOK, CellOK
<1>7. SavedOK'
  <2> SUFFICES ASSUME NobodyWrites', job.faults = {} PROVE FALSE
    BY <1>1 DEF SavedOK
  <2>1. \A d \in Clients \ {c} : ~Writing(d)
    BY <1>2 DEF NobodyWrites
  <2> QED
    BY <1>1, <2>1, SentAll DEF Fails
<1>8. DInv'
  BY <1>2, <1>5, <1>6, <1>7, RestIsFine, PTL
<1>9. File!Close(c)
  <2>1. Content' = Content /\ Content = inode[name].data
    BY <1>2, <1>3, <1>8, ContentStep
  <2>2. CASE obj' = obj
    <3>1. Decode(obj)' = Decode(obj)
      BY <2>2 DEF Decode
    <3> QED
      BY <1>1, <1>2, <2>1, <3>1 DEF File!Close
  <2>3. CASE obj' # obj
    <3>1. {d \in Clients : Writing(d)}' = {} => Decode(obj)' = inode[name].data
      BY <1>2, <1>4, <2>3
    <3>2. Decode(obj)' \in Contents
      BY <1>4, <2>3
    <3> QED
      BY <1>1, <1>2, <2>1, <3>1, <3>2 DEF File!Close
  <2> QED
    BY <2>2, <2>3
<1> QED
  BY <1>8, <1>9 DEF Promised, File!Next

LEMMA PutEndKeeps == ASSUME DInv, NEW c \in Clients, PutEnd(c) PROVE DInv' /\ Promised
<1> DEFINE data == inode[name].data
           kept == Kept(th[c])
           put == Uploaded(th[c])
<1>1. /\ At(c, "put") /\ AtEnd(c) /\ PutReturns(c) /\ obj' = put
      /\ Len(th[c].sent) >= th[c].size
      /\ unsaved' = (unsaved /\ ~(Cached /\ kept = Behind.data))
      /\ UNCHANGED <<job, cell, inode, name, known, wanted>>
  BY DEF PutEnd
<1>2. /\ file' \in [Fds -> Description] /\ th' \in [Clients -> Request]
      /\ AtRest' /\ Cached' /\ Seen' = Seen
      /\ \A d \in Clients : ~At(d, "put")'
      /\ {d \in Clients : Writing(d)}' = {d \in Clients : Writing(d)} \ {c}
      /\ Writing(c) /\ ~Writing(c)'
      /\ \A d \in Clients \ {c} : Writing(d)' <=> Writing(d)
  BY <1>1, ReleaseRests
<1>3. /\ Cached /\ Behind = inode[name] /\ Seen = data
      /\ ~job.overlap /\ unsaved \in BOOLEAN
  BY <1>1, PutIs DEF DInv, TypeOK
<1>4. /\ put \in Object /\ put # NoFile /\ put.md.mark = th[c].zip /\ put.zipped = th[c].zip
      /\ Decode(put) = kept /\ kept \in Contents
      /\ ~job.zlib => ~th[c].zip
      /\ (\A d \in Clients \ {c} : ~Writing(d)) => kept = data
  BY <1>1, UploadIs
<1> HIDE DEF put, kept, data
<1>5. Decode(obj)' = kept
  BY <1>1, <1>4 DEF Decode
<1>6. unsaved' \in BOOLEAN /\ (kept = data => unsaved' = FALSE) /\ (kept # data => unsaved' = unsaved)
  BY <1>1, <1>3 DEF data
<1>7. TypeOK' /\ Sound(job)'
  BY <1>1, <1>2, <1>4, <1>6 DEF DInv, TypeOK, Sound
<1>8. MarksOK' /\ CellOK'
  BY <1>1, <1>2, <1>3, <1>4 DEF DInv, MarksOK, CellOK
<1>9. NobodyWrites' => kept = data
  BY <1>2, <1>4 DEF NobodyWrites
<1>10. SavedOK'
  BY <1>2, <1>3, <1>5, <1>6, <1>9 DEF SavedOK
<1>11. DInv'
  BY <1>2, <1>7, <1>8, <1>10, RestIsFine, PTL
<1>12. File!Close(c)
  <2>1. Content' = Content /\ Content = data
    BY <1>2, <1>3, <1>11, ContentStep
  <2>2. {d \in Clients : Writing(d)}' = {} => kept = data
    BY <1>9 DEF NobodyWrites
  <2> QED
    BY <1>2, <1>4, <1>5, <1>6, <2>1, <2>2 DEF File!Close
<1> QED
  BY <1>11, <1>12 DEF Promised, File!Next

-----------------------------------------------------------------------------
(* dfs_chmod and dfs_chown.                                                 *)

LEMMA ChattrKeeps == ASSUME DInv, NEW c \in Clients, NEW a \in Attrs, Chattr(c, a) PROVE DInv' /\ Promised
<1> USE DEF Chattr, MayAsk, At
<1>1. /\ ~job.overlap /\ Quiet /\ "chattr" \in job.asks /\ cell \in Cell /\ cell.usermd \in Md
      /\ th[c].pc = "idle" /\ ~job.zlib /\ ~cell.usermd.mark /\ th[c] \in Request
      /\ UNCHANGED <<job, obj, file, name, known, unsaved, wanted>>
  BY ReadersOnly DEF DInv, TypeOK, Cell, Sound, MarksOK
<1> DEFINE m == [cell.usermd EXCEPT !.attr = a]
<1>2. m \in Md /\ ~m.mark
  BY <1>1 DEF Md
<1>3. cell' = [cell EXCEPT !.usermd = m]
  OBVIOUS
<1> HIDE DEF m
<1>4. /\ cell' \in Cell /\ cell'.fd = cell.fd /\ cell'.pinned = cell.pinned
      /\ cell'.ondisk = cell.ondisk /\ cell'.usermd = m
  BY <1>1, <1>2, <1>3 DEF Cell
<1>5. inode' \in [Inodes -> CacheFile]
      /\ \A i \in Inodes : inode'[i].data = inode[i].data /\ inode'[i].zipped = inode[i].zipped
  <2>1. CASE inode' = inode
    BY <2>1 DEF DInv, TypeOK
  <2>2. CASE Cached /\ inode' = [inode EXCEPT ![file[cell.fd].ino].attr = a]
    <3> DEFINE x == [inode[file[cell.fd].ino] EXCEPT !.attr = a]
    <3>1. file[cell.fd].ino \in Inodes /\ inode[file[cell.fd].ino] \in CacheFile
      BY <2>2, BehindIs DEF DInv, TypeOK
    <3>2. x \in CacheFile /\ x.data = inode[file[cell.fd].ino].data
          /\ x.zipped = inode[file[cell.fd].ino].zipped
      BY <3>1 DEF CacheFile
    <3>3. inode' = [inode EXCEPT ![file[cell.fd].ino] = x]
      BY <2>2
    <3> HIDE DEF x
    <3> QED
      BY <3>1, <3>2, <3>3 DEF DInv, TypeOK
  <2> QED
    BY <2>1, <2>2
<1>6. /\ th'[c] \in Request /\ th'[c].pc = "setattr" /\ th'[c].ask = th[c].ask
      /\ th'[c].fd = th[c].fd /\ th'[c].ino = th[c].ino
      /\ th' \in [Clients -> Request] /\ \A d \in Clients \ {c} : th'[d] = th[d]
  BY <1>1 DEF DInv, TypeOK, Request
<1>7. \A d \in Clients : th[d].pc \in {"idle", "held"}
  BY <1>1 DEF Quiet
<1>8. \A d \in Clients : (Writing(d)' <=> Writing(d)) /\ ~Fetching(d)' /\ (Busy(d)' => d = c)
                         /\ th'[d].pc \notin {"stat", "get", "fill", "put"}
  BY <1>1, <1>6, <1>7 DEF Writing, Fetching, Busy
<1>9. Cached' = Cached /\ Seen' = Seen /\ Decode(obj)' = Decode(obj)
  <2>1. Cached' = Cached
    BY <1>4 DEF Cached
  <2>2. Cached => name \in Inodes
    BY <1>1 DEF DInv, InTurn
  <2> QED
    BY <1>1, <1>5, <2>1, <2>2 DEF Seen, Decode
<1>10. TypeOK' /\ Sound(job)'
  BY <1>1, <1>4, <1>5, <1>6 DEF DInv, TypeOK, Sound
<1>11. MarksOK'
  BY <1>1, <1>2, <1>4, <1>8 DEF DInv, MarksOK
<1>12. CellOK'
  BY <1>1, <1>4, <1>9 DEF DInv, CellOK
<1>13. SavedOK'
  BY <1>1, <1>8, <1>9, StaysSaved
<1>14. \A d \in Clients : RequestOK(d)'
  <2> SUFFICES ASSUME NEW d \in Clients PROVE RequestOK(d)'
    OBVIOUS
  <2>1. RequestOK(d)
    BY DEF DInv
  <2>2. cell'.usermd \in Md
    BY <1>2, <1>4
  <2> QED
    BY <1>1, <1>6, <1>7, <2>1, <2>2 DEF RequestOK
<1>15. \A d \in Clients : FillOK(d)' /\ PutOK(d)'
  BY <1>8 DEF FillOK, PutOK
<1>16. InTurn'
  <2>1. InTurn /\ \A d \in Clients : th[d].pc # "put"
    BY <1>7 DEF DInv
  <2> QED
    BY <1>1, <1>4, <1>5, <1>8, <1>9, <2>1 DEF InTurn
<1>17. Together'
  BY <1>1 DEF Together
<1>18. DInv'
  BY <1>10, <1>11, <1>12, <1>13, <1>14, <1>15, <1>16, <1>17 DEF DInv
<1> QED
  BY <1>1, <1>8, <1>9, <1>18, Nothing

LEMMA SetAttrKeeps == ASSUME DInv, NEW c \in Clients, SetAttr(c) PROVE DInv' /\ Promised
<1> USE DEF SetAttr, Return, At
<1>1. /\ th[c].pc = "setattr" /\ ~job.overlap /\ cell.usermd \in Md /\ ~job.zlib
      /\ th[c].attr \in Attrs
      /\ UNCHANGED <<job, cell, file, inode, name, known, unsaved>>
  BY ReadersOnly, TypedRequest DEF DInv, RequestOK, Sound
<1>2. ~cell.usermd.mark
  BY <1>1, NoMdAssumption DEF DInv, MarksOK
<1>3. th'[c] = Idle /\ th' \in [Clients -> Request] /\ \A d \in Clients \ {c} : th'[d] = th[d]
  BY IdleIs DEF DInv, TypeOK
<1>4. \A d \in Clients \ {c} : th[d].pc \in {"idle", "held"}
  BY <1>1, OthersWait DEF Busy
<1>5. \/ obj' = obj
      \/ obj # NoFile /\ obj' = [obj EXCEPT !.md = cell.usermd]
  OBVIOUS
<1>6. /\ obj' \in Object \union {NoFile} /\ (obj' = NoFile <=> obj = NoFile)
      /\ obj # NoFile => obj'.data = obj.data /\ obj'.zipped = obj.zipped
      /\ obj' = obj \/ obj'.md = cell.usermd
  <2>1. CASE obj' = obj
    BY <2>1 DEF DInv, TypeOK
  <2>2. CASE obj # NoFile /\ obj' = [obj EXCEPT !.md = cell.usermd]
    <3>1. obj \in Object
      BY <2>2 DEF DInv, TypeOK
    <3>2. obj' \in Object /\ obj'.data = obj.data /\ obj'.zipped = obj.zipped /\ obj'.md = cell.usermd
      BY <1>1, <2>2, <3>1 DEF Object
    <3> QED
      BY <2>2, <3>2, NoFileAssumption
  <2> QED
    BY <1>5, <2>1, <2>2
<1>7. wanted' \in Attrs \union {None}
  BY <1>1
<1>8. TypeOK' /\ Sound(job)'
  BY <1>1, <1>3, <1>6, <1>7 DEF DInv, TypeOK, Sound
<1>9. \A d \in Clients : th'[d].pc \in {"idle", "held"}
  BY <1>3, <1>4, IdleIs
<1>10. obj # NoFile => /\ obj.zipped = FALSE /\ obj.md.mark = FALSE
                       /\ obj'.zipped = FALSE /\ obj'.md.mark = FALSE
  <2> SUFFICES ASSUME obj # NoFile
               PROVE  /\ obj.zipped = FALSE /\ obj.md.mark = FALSE
                      /\ obj'.zipped = FALSE /\ obj'.md.mark = FALSE
    OBVIOUS
  <2>1. obj.zipped \in BOOLEAN /\ obj.md.mark \in BOOLEAN /\ cell.usermd.mark \in BOOLEAN
    BY <1>1 DEF DInv, TypeOK, Object, Md
  <2>2. ~obj.zipped /\ obj.md.mark = obj.zipped
    BY <1>1 DEF DInv, MarksOK
  <2> QED
    BY <1>2, <1>6, <2>1, <2>2
<1>11. MarksOK'
  <2> HIDE DEF SetAttr
  <2> QED
    BY <1>1, <1>2, <1>6, <1>9, <1>10 DEF MarksOK
<1>12. CellOK'
  BY <1>1, <1>6 DEF DInv, CellOK, Cached
<1>13. Decode(obj)' = Decode(obj)
  <2> HIDE DEF SetAttr
  <2> QED
    BY <1>6, <1>10 DEF Decode
<1>14. Seen' = Seen
  BY <1>1, <1>13 DEF Seen, Cached
<1>15. ~Writing(c) /\ ~Writing(c)' /\ \A d \in Clients \ {c} : Writing(d)' <=> Writing(d)
  BY <1>1, <1>3, IdleIs DEF Writing
<1>16. SavedOK'
  BY <1>1, <1>13, <1>14, <1>15, StaysSaved
<1>17. AtRest'
  <2>1. \A d \in Clients : th[d].pc # "put"
    BY <1>1, <1>4
  <2>2. InTurn
    BY DEF DInv
  <2>3. Cached' => /\ name' \in Inodes /\ ~inode'[name'].zipped
                   /\ file'[cell'.fd].ino = name' /\ file'[cell'.fd].off = 0
    BY <1>1, <2>1, <2>2 DEF InTurn, Cached
  <2>4. \A d \in Clients : Writing(d)' => Cached'
    BY <1>1, <1>15, <2>2 DEF InTurn, Cached
  <2> QED
    BY <1>1, <1>3, <1>4, <2>3, <2>4, IdleIs, ComesToRest
<1>18. DInv'
  BY <1>8, <1>11, <1>12, <1>16, <1>17, RestIsFine, PTL
<1>19. \A d \in Clients : Writing(d)' <=> Writing(d)
  BY <1>15
<1> QED
  BY <1>1, <1>13, <1>14, <1>18, <1>19, Nothing

-----------------------------------------------------------------------------
(* The theorems.                                                            *)

LEMMA InitData == ASSUME SoundJobs, Init PROVE DInv /\ File!Init
<1> USE DEF Init
<1>1. obj = NoFile \/ (obj \in Object /\ ~obj.zipped /\ ~obj.md.mark)
  <2> SUFFICES ASSUME obj # NoFile PROVE obj \in Object /\ ~obj.zipped /\ ~obj.md.mark
    OBVIOUS
  <2>1. PICK n \in 1..MaxBlocks :
            obj = [data |-> [i \in 1..n |-> Zero], zipped |-> FALSE,
                   md |-> IF job.foreign THEN EmptyMd
                          ELSE [attr |-> Own, size |-> Len([i \in 1..n |-> Zero]), mark |-> FALSE]]
    BY DEF FirstObjects
  <2> DEFINE d == [i \in 1..n |-> Zero]
  <2>2. d \in [1..n -> Values \union {Zero}] /\ n \in 0..MaxBlocks
    BY MaxBlocksNat
  <2>3. d \in Contents
    BY <2>2 DEF Contents
  <2>4. Len(d) \in 0..MaxBlocks
    BY <2>3, WholeIs
  <2> DEFINE m == IF job.foreign THEN EmptyMd
                  ELSE [attr |-> Own, size |-> Len(d), mark |-> FALSE]
  <2>5. m \in Md /\ ~m.mark
    <3> HIDE DEF d
    <3> QED
      BY <2>4, Metadata DEF Md, Attrs
  <2>6. obj = [data |-> d, zipped |-> FALSE, md |-> m]
    BY <2>1
  <2> HIDE DEF d, m
  <2> QED
    BY <2>3, <2>5, <2>6 DEF Object
<1>2. TypeOK
  <2>1. [ino |-> NoInode, off |-> 0, rw |-> FALSE] \in Description
    BY MaxBlocksNat DEF Description
  <2>2. [data |-> <<>>, zipped |-> FALSE, attr |-> Own] \in CacheFile
    BY EmptyContents DEF CacheFile, Attrs
  <2> QED
    BY <1>1, <2>1, <2>2, IdleIs, NoCellIs DEF TypeOK
<1>3. cell.fd = NoFd /\ cell.ondisk = "unset" /\ cell.usermd = NoMd
  BY DEF NoCell
<1>4. \A c \in Clients : th[c].pc = "idle" /\ th[c].fd = NoFd /\ th[c].ino = NoInode
  BY IdleIs
<1>5. Sound(job) /\ MarksOK /\ CellOK
  <2>1. obj # NoFile => obj.zipped = FALSE /\ obj.md.mark = FALSE
    BY <1>1 DEF Object, Md
  <2> QED
    BY <1>3, <1>4, <2>1 DEF SoundJobs, MarksOK, CellOK, Cached, At
<1>6. Seen = Decode(obj) /\ unsaved = FALSE
  BY <1>3 DEF Seen, Cached
<1>7. SavedOK /\ AtRest
  BY <1>3, <1>4, <1>6 DEF SavedOK, AtRest, Cached, Writing
<1>8. DInv
  BY <1>2, <1>5, <1>7, RestIsFine
<1>9. {c \in Clients : Writing(c)} = {}
  BY <1>4 DEF Writing
<1>10. File!Init
  BY <1>6, <1>8, <1>9, ContentIs, SeenIs DEF File!Init
<1> QED
  BY <1>8, <1>10

LEMMA NextData == ASSUME Room PROVE DInv /\ [Next]_vars => DInv' /\ Promised
<1> SUFFICES ASSUME DInv, [Next]_vars PROVE DInv' /\ Promised
  OBVIOUS
<1>1. ASSUME NEW c \in Clients, Serve(c) PROVE DInv' /\ Promised
  <2>1. CASE ChattrAborts(c)
    BY <2>1, CrashKeeps DEF ChattrAborts
  <2>2. CASE Stat(c) \/ StatFill(c) \/ Create(c) \/ OpenCreat(c)
    BY <2>2, StatKeeps, StatFillKeeps, CreateKeeps, OpenCreatKeeps
  <2>3. CASE \E a \in Asks : OpenAgain(c, a) \/ OpenFetch(c, a)
    BY <2>3, OpenAgainKeeps, OpenFetchKeeps
  <2>4. CASE GetStart(c) \/ GetBlock(c) \/ GetUnzips(c) \/ GetPlain(c) \/ GetFails(c)
    BY <2>4, GetStartKeeps, GetBlockKeeps, GetUnzipsKeeps, GetPlainKeeps, GetFailsKeeps
  <2>5. CASE Write(c) \/ CloseReader(c) \/ CloseWriter(c)
    BY <2>5, WriteKeeps, CloseReaderKeeps, CloseWriterKeeps
  <2>6. CASE PutBlock(c) \/ PutEnd(c) \/ PutFails(c)
    BY <2>6, PutBlockKeeps, PutEndKeeps, PutFailsKeeps
  <2>7. CASE \E a \in Attrs : Chattr(c, a)
    BY <2>7, ChattrKeeps
  <2>8. CASE SetAttr(c)
    BY <2>8, SetAttrKeeps
  <2> QED
    BY <1>1, <2>1, <2>2, <2>3, <2>4, <2>5, <2>6, <2>7, <2>8 DEF Serve
<1>2. CASE UNCHANGED vars
  <2>1. Seen' = Seen /\ Decode(obj)' = Decode(obj) /\ \A c \in Clients : Writing(c)' <=> Writing(c)
    BY <1>2 DEF vars, Seen, Decode, Cached, Writing
  <2>2. TypeOK' /\ Sound(job)' /\ MarksOK' /\ CellOK'
    BY <1>2 DEF vars, DInv, TypeOK, Sound, MarksOK, CellOK, At, Cached
  <2>3. InTurn' /\ Together'
    BY <1>2 DEF vars, DInv, InTurn, Together, Busy, Cached, At, Writing, Fetching, Copies
  <2>4. SavedOK'
    BY <1>2, <2>1, StaysSaved DEF vars
  <2>5. \A c \in Clients : RequestOK(c)' /\ FillOK(c)' /\ PutOK(c)'
    BY <1>2, <2>1 DEF vars, DInv, RequestOK, FillOK, PutOK, At, Cached
  <2>6. DInv'
    BY <2>2, <2>3, <2>4, <2>5 DEF DInv
  <2> QED
    BY <1>2, <2>1, <2>6, Nothing DEF vars
<1> QED
  BY <1>1, <1>2, ExpireKeeps, CollectKeeps, RemountKeeps, CrashKeeps DEF Next

\* Every step of the copies (open.c, file.c, release.c, gc.c, chmod.c,
\* dfs_destroy) is a step of one shared file, or none that a client sees.
THEOREM Refinement == ASSUME SoundJobs, Room PROVE Spec => ImplementsSharedFile
<1>1. Init => DInv /\ File!Init
  BY InitData
<1>2. DInv /\ [Next]_vars => DInv' /\ [File!Next]_(File!vars)
  BY NextData DEF Promised
<1> QED
  BY <1>1, <1>2, PTL DEF Spec, ImplementsSharedFile, File!Spec

\* The type of every copy of the file and of every request that handles it.
THEOREM TypeCorrect == ASSUME SoundJobs, Room PROVE Spec => []TypeOK
<1>1. Init => DInv
  BY InitData
<1>2. DInv /\ [Next]_vars => DInv'
  BY NextData
<1>3. DInv => TypeOK
  BY DEF DInv
<1> QED
  BY <1>1, <1>2, <1>3, PTL DEF Spec

\* What was written is in the bucket when the last writer has closed
\* (dfs_release), unless the last upload failed.
THEOREM SavedOnClose == ASSUME SoundJobs, Room PROVE Spec => []LastCloseSaves
<1>1. Init => DInv
  BY InitData
<1>2. DInv /\ [Next]_vars => DInv'
  BY NextData
<1>3. DInv => LastCloseSaves
  BY ContentIs DEF DInv, SavedOK, NobodyWrites, LastCloseSaves
<1> QED
  BY <1>1, <1>2, <1>3, PTL DEF Spec

=============================================================================
