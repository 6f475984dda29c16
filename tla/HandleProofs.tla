---------------------------- MODULE HandleProofs ----------------------------
(***************************************************************************)
(* What an open file can rely on, for any number of paths, clients and     *)
(* cells, with the smart cache off.  No freed cell is used and excluded    *)
(* files stay local where nothing is collected or unlinked; an open file   *)
(* stays usable if the storage answers, too.  (With collection they do     *)
(* not: the run gc_open.)                                                  *)
(***************************************************************************)
EXTENDS PathEntryProofs

-----------------------------------------------------------------------------
(* What a step writes into the cell of its request.                         *)

\* The cell of c gets these fields; every other cell is as it was.
Writes(c, f, o, m, x) ==
    /\ \A j \in Cells \ {Cell(c)} : pe'[j] = pe[j]
    /\ pe'[Cell(c)].mem = "live"
    /\ pe'[Cell(c)].fd = f
    /\ pe'[Cell(c)].ondisk = o
    /\ pe'[Cell(c)].usermd = m
    /\ pe'[Cell(c)].exclude = x

\* Only its age, its refcount or its lock changes.
WritesNothing(c) == Writes(c, My(c).fd, My(c).ondisk, My(c).usermd, My(c).exclude)

\* An assignment to the cell writes the fields of the record.
LEMMA SetCellWrites ==
    ASSUME TypeOK, NEW c \in Clients, NEW l, Uses(c, l), NEW e, SetCell(c, e),
           e.mem = My(c).mem
    PROVE  Writes(c, e.fd, e.ondisk, e.usermd, e.exclude)
BY DEF TypeOK, Uses, IsLive, SetCell, Writes, My

\* getattr_unset writes metadata and FILE_REMOTE at once.
LEMMA FillWrites ==
    ASSUME TypeOK, NEW c \in Clients, GetattrFill(c)
    PROVE  Writes(c, My(c).fd, "remote", TRUE, My(c).exclude)
<1> DEFINE e == [My(c) EXCEPT !.usermd = TRUE, !.ondisk = "remote"]
<1>1. Uses(c, "getattr_fill") /\ My(c) \in Entry /\ SetCell(c, e)
  BY UsesTyped DEF GetattrFill
<1>2. /\ e.mem = My(c).mem /\ e.fd = My(c).fd /\ e.exclude = My(c).exclude
      /\ e.ondisk = "remote" /\ e.usermd = TRUE
  BY <1>1 DEF Entry
<1> HIDE DEF e
<1> QED
  BY <1>1, <1>2, SetCellWrites

\* open_creat writes a descriptor for reading and writing, and FILE_LOCAL.
LEMMA CreatWrites ==
    ASSUME TypeOK, NEW c \in Clients, OpenCreat(c)
    PROVE  Writes(c, "rw", "local", My(c).usermd, My(c).exclude)
<1>1. Uses(c, "open_creat") /\ My(c) \in Entry
  BY UsesTyped DEF OpenCreat
<1>2. PICK a \in {0, My(c).age} :
         SetCell(c, [My(c) EXCEPT !.fd = "rw", !.ondisk = "local", !.age = a])
  BY DEF OpenCreat
<1> DEFINE e == [My(c) EXCEPT !.fd = "rw", !.ondisk = "local", !.age = a]
<1>3. /\ e.mem = My(c).mem /\ e.fd = "rw" /\ e.exclude = My(c).exclude
      /\ e.ondisk = "local" /\ e.usermd = My(c).usermd /\ SetCell(c, e)
  BY <1>1, <1>2 DEF Entry
<1> HIDE DEF e
<1> QED
  BY <1>1, <1>3, SetCellWrites

\* open_existing with a descriptor writes FILE_LOCAL.
LEMMA ExistingWrites ==
    ASSUME TypeOK, NEW c \in Clients, OpenExisting(c), My(c).fd # "none"
    PROVE  Writes(c, My(c).fd, "local", My(c).usermd, My(c).exclude)
<1> DEFINE e == [My(c) EXCEPT !.ondisk = "local"]
<1>1. Uses(c, "open_existing") /\ My(c) \in Entry /\ SetCell(c, e)
  BY UsesTyped DEF OpenExisting
<1>2. /\ e.mem = My(c).mem /\ e.fd = My(c).fd /\ e.exclude = My(c).exclude
      /\ e.ondisk = "local" /\ e.usermd = My(c).usermd
  BY <1>1 DEF Entry
<1> HIDE DEF e
<1> QED
  BY <1>1, <1>2, SetCellWrites

\* The three ends of dfs_get_local_copy.
LEMMA GetWrites ==
    ASSUME TypeOK, NEW c \in Clients, OpenGet(c)
    PROVE  \/ /\ GetFails(c)
              /\ \E m \in {My(c).usermd, My(c).usermd \/ Path(c) \in remote} :
                    Writes(c, "none", My(c).ondisk, m, My(c).exclude)
           \/ /\ GetMatches(c)
              /\ Writes(c, My(c).fd, My(c).ondisk, TRUE, My(c).exclude)
           \/ /\ GetDownloads(c)
              /\ \E f \in {"r", "rw"} : Writes(c, f, "local", TRUE, My(c).exclude)
<1>1. Uses(c, "open_get") /\ My(c) \in Entry /\ My(c).usermd \in BOOLEAN
  BY UsesTyped DEF OpenGet, Entry
<1>2. CASE GetFails(c)
  <2>1. PICK md \in {My(c).usermd, Path(c) \in remote} :
           SetCell(c, [My(c) EXCEPT !.fd = "none", !.usermd = @ \/ md])
    BY <1>2 DEF GetFails
  <2> DEFINE m == My(c).usermd \/ md
             e == [My(c) EXCEPT !.fd = "none", !.usermd = m]
  <2>2. SetCell(c, e)
    BY <2>1
  <2>3. m \in {My(c).usermd, My(c).usermd \/ Path(c) \in remote}
    BY <1>1, <2>1, Zenon
  <2> HIDE DEF m
  <2>4. /\ e.mem = My(c).mem /\ e.fd = "none" /\ e.exclude = My(c).exclude
        /\ e.ondisk = My(c).ondisk /\ e.usermd = m
    BY <1>1 DEF Entry
  <2> HIDE DEF e
  <2>5. Writes(c, "none", My(c).ondisk, m, My(c).exclude)
    BY <1>1, <2>2, <2>4, SetCellWrites
  <2> QED
    BY <1>2, <2>3, <2>5
<1>3. CASE GetMatches(c)
  <2> DEFINE e == [My(c) EXCEPT !.usermd = TRUE]
  <2>1. /\ e.mem = My(c).mem /\ e.fd = My(c).fd /\ e.exclude = My(c).exclude
        /\ e.ondisk = My(c).ondisk /\ e.usermd = TRUE /\ SetCell(c, e)
    BY <1>1, <1>3 DEF Entry, GetMatches
  <2> HIDE DEF e
  <2> QED
    BY <1>1, <1>3, <2>1, SetCellWrites
<1>4. CASE GetDownloads(c)
  <2> DEFINE f == IF Intent(c) = "read" THEN "r" ELSE "rw"
             e == [My(c) EXCEPT !.fd = f, !.usermd = TRUE, !.ondisk = "local", !.age = 0]
  <2>1. SetCell(c, e) /\ f \in {"r", "rw"}
    BY <1>4 DEF GetDownloads
  <2> HIDE DEF f
  <2>2. /\ e.mem = My(c).mem /\ e.fd = f /\ e.exclude = My(c).exclude
        /\ e.ondisk = "local" /\ e.usermd = TRUE
    BY <1>1 DEF Entry
  <2> HIDE DEF e
  <2> QED
    BY <1>1, <1>4, <2>1, <2>2, SetCellWrites
<1> QED
  BY <1>2, <1>3, <1>4 DEF OpenGet

\* dfs_create after dfs_open: the flag, and the metadata if there are none.
LEMMA MdWrites ==
    ASSUME TypeOK, NEW c \in Clients, CreateMd(c)
    PROVE  \/ /\ My(c).fd = "none"
              /\ Writes(c, "none", My(c).ondisk, My(c).usermd, Path(c) \in Excluded)
           \/ My(c).fd # "none" /\ My(c).usermd /\ UNCHANGED pe
           \/ /\ My(c).fd # "none" /\ ~My(c).usermd
              /\ Writes(c, My(c).fd, My(c).ondisk, TRUE, Path(c) \in Excluded)
<1> DEFINE ex == Excludes(Path(c))
           e  == [My(c) EXCEPT !.exclude = ex]
           f  == [My(c) EXCEPT !.exclude = ex, !.usermd = TRUE]
<1>1. Uses(c, "create_md") /\ My(c) \in Entry /\ ex = (Path(c) \in Excluded)
  BY UsesTyped DEF CreateMd, Excludes
<1>2. \/ My(c).fd = "none" /\ SetCell(c, e)
      \/ My(c).fd # "none" /\ My(c).usermd /\ UNCHANGED pe
      \/ My(c).fd # "none" /\ ~My(c).usermd /\ SetCell(c, f)
  BY DEF CreateMd
<1> HIDE DEF ex
<1>3. /\ e.mem = My(c).mem /\ e.fd = My(c).fd /\ e.exclude = ex
      /\ e.ondisk = My(c).ondisk /\ e.usermd = My(c).usermd
      /\ f.mem = My(c).mem /\ f.fd = My(c).fd /\ f.exclude = ex
      /\ f.ondisk = My(c).ondisk /\ f.usermd = TRUE
  BY <1>1 DEF Entry
<1> HIDE DEF e, f
<1>4. SetCell(c, e) => Writes(c, My(c).fd, My(c).ondisk, My(c).usermd, ex)
  BY <1>1, <1>3, SetCellWrites
<1>5. SetCell(c, f) => Writes(c, My(c).fd, My(c).ondisk, TRUE, ex)
  BY <1>1, <1>3, SetCellWrites
<1> QED
  BY <1>1, <1>2, <1>4, <1>5

\* The steps that count, lock or age the cell and nothing else.
LEMMA OtherWrites ==
    ASSUME TypeOK, NEW c \in Clients,
           \/ OpenInc(c) \/ Upload(c) \/ ReleaseEnd(c) \/ ReadWrite(c)
           \/ Release(c) /\ My(c).fd # "none"
    PROVE  WritesNothing(c)
<1>1. My(c) \in Entry /\ \E l : Uses(c, l)
  BY UsesTyped DEF OpenInc, Upload, ReleaseEnd, ReadWrite, Release
<1>2. \/ \E n : SetCell(c, [My(c) EXCEPT !.refcount = n])
      \/ \E a : SetCell(c, [My(c) EXCEPT !.age = a])
      \/ SetCell(c, [My(c) EXCEPT !.locked = FALSE])
  BY DEF OpenInc, Upload, ReleaseEnd, ReadWrite, Release
<1>3. ASSUME NEW e, SetCell(c, e), e.mem = My(c).mem, e.fd = My(c).fd,
             e.ondisk = My(c).ondisk, e.usermd = My(c).usermd, e.exclude = My(c).exclude
      PROVE  WritesNothing(c)
  BY <1>1, <1>3, SetCellWrites DEF WritesNothing
<1>4. ASSUME NEW n, SetCell(c, [My(c) EXCEPT !.refcount = n]) PROVE WritesNothing(c)
  <2> DEFINE e == [My(c) EXCEPT !.refcount = n]
  <2>1. /\ e.mem = My(c).mem /\ e.fd = My(c).fd /\ e.ondisk = My(c).ondisk
        /\ e.usermd = My(c).usermd /\ e.exclude = My(c).exclude
    BY <1>1 DEF Entry
  <2> QED
    BY <1>3, <1>4, <2>1
<1>5. ASSUME NEW a, SetCell(c, [My(c) EXCEPT !.age = a]) PROVE WritesNothing(c)
  <2> DEFINE e == [My(c) EXCEPT !.age = a]
  <2>1. /\ e.mem = My(c).mem /\ e.fd = My(c).fd /\ e.ondisk = My(c).ondisk
        /\ e.usermd = My(c).usermd /\ e.exclude = My(c).exclude
    BY <1>1 DEF Entry
  <2> QED
    BY <1>3, <1>5, <2>1
<1>6. SetCell(c, [My(c) EXCEPT !.locked = FALSE]) => WritesNothing(c)
  <2> DEFINE e == [My(c) EXCEPT !.locked = FALSE]
  <2>1. /\ e.mem = My(c).mem /\ e.fd = My(c).fd /\ e.ondisk = My(c).ondisk
        /\ e.usermd = My(c).usermd /\ e.exclude = My(c).exclude
    BY <1>1 DEF Entry
  <2> HIDE DEF e
  <2> QED
    BY <1>3, <2>1 DEF e
<1> QED
  BY <1>2, <1>4, <1>5, <1>6
-----------------------------------------------------------------------------
(* What a mount keeps where nothing is collected or unlinked.               *)

NothingRemoved == ~Collects /\ "unlink" \notin Intents

\* Nobody is in the collector or in dfs_unlink, and nothing freed was used.
Calm == /\ gc.pc = "sleep"
        /\ ub = FALSE
        /\ \A c \in Clients : /\ th[c].intent # "unlink"
                              /\ th[c].pc \notin {"unlink", "unlink_table", "open_new"}
                              /\ th[c].pc = "idle" => dir # c

\* The path has a cell that some dfs_getattr or dfs_open has filled.
Settled(p) == table[p] # NoCell /\ pe[table[p]].ondisk # "unset"

\* What the cell of a path says of it.
CellOK(p) ==
    LET e == pe[table[p]] IN
    table[p] # NoCell =>
        /\ e.ondisk = "unset"  => e.fd = "none" /\ ~e.usermd
        /\ e.ondisk = "remote" => p \in remote
        /\ e.ondisk = "local"  => e.fd # "none" \/ Faults

\* The steps of a dfs_create before the file is open.
CreateSteps == {"create", "open", "open_inc", "open_creat", "open_existing", "open_get"}

\* Nobody else is on the path of c, and the kernel does not know it.
Alone(c) == /\ Path(c) \notin known
            /\ \A d \in Clients \ {c} : th[d].pc = "idle" \/ Path(d) # Path(c)

\* The steps of a dfs_getattr; the kernel owns the directory for it unless the
\* client asked for nothing else.
GetattrSteps == {"getattr", "getattr_new", "getattr_disp", "getattr_ask", "getattr_fill",
                 "getattr_absent"}

\* The steps that are on a path only while it has no filled cell.
UnsettledSteps == {"getattr_new", "getattr_ask", "getattr_fill", "getattr_absent", "create"}

\* What a request knows of its path.  One that does not own the directory is
\* on a path that was settled; a dfs_create is on one that was not.
RequestOK(c) ==
    LET p == Path(c)
        e == pe[table[Path(c)]]
        l == th[c].pc
    IN  l # "idle" =>
        /\ dir # c => Settled(p)
        /\ l \notin {"getattr", "getattr_new"} => table[p] # NoCell
        /\ l = "getattr_new" => table[p] = NoCell
        /\ l \in GetattrSteps /\ Intent(c) # "stat" => dir = c
        /\ l \in UsesCell \/ l = "create_mknod" => Cell(c) = table[p]
        /\ l \in {"getattr_ask", "getattr_fill", "getattr_absent"} => e.ondisk = "unset"
        /\ l = "getattr_fill" => p \in remote
        /\ l = "getattr_absent" => p \notin remote
        /\ l \in OpenFile => e.ondisk = "local"
        /\ l = "open_get" => p \in remote \/ dir = c \/ Faults
        /\ l \in CreateSteps /\ dir = c => e.ondisk = "unset" /\ p \notin remote
        /\ l = "create" => dir = c
        /\ l = "create_md" => ~e.usermd
        /\ l \in {"create_md", "create_mknod"} => /\ dir = c
                                                  /\ e.ondisk = "local"
                                                  /\ Alone(c)

HInv == /\ Inv
        /\ Calm
        /\ \A p \in Paths : CellOK(p)
        /\ \A p \in known : Settled(p)
        /\ \A c \in Clients : RequestOK(c)

\* A path that is excluded has no object; its cell says so once it is local,
\* but for the time between open_creat and the flag that dfs_create sets.
ExcludedOK ==
    /\ remote \intersect Excluded = {}
    /\ \A p \in Excluded :
          table[p] # NoCell /\ pe[table[p]].ondisk = "local" =>
             \/ pe[table[p]].exclude
             \/ \E c \in Clients : th[c].pc = "create_md" /\ Path(c) = p
    /\ \A c \in Clients : th[c].pc \in {"upload", "create_mknod"} => Path(c) \notin Excluded
-----------------------------------------------------------------------------
(* A step of one client touches its own path only.                          *)

\* Cells, objects and dentries of other paths, and other requests, stay.
TouchesOnly(c, p) ==
    /\ \A q \in Paths \ {p} : /\ table'[q] = table[q]
                              /\ table[q] # NoCell => pe'[table[q]] = pe[table[q]]
                              /\ q \in remote' <=> q \in remote
                              /\ q \in known' => q \in known
    /\ \A d \in Clients \ {c} : th'[d] = th[d] /\ (dir' = d <=> dir = d)
    /\ th'[c].pc = "idle" \/ th'[c].path = p

\* The path keeps what other requests on it rely on.
Grows(p) ==
    /\ p \in remote => p \in remote'
    /\ Settled(p) => /\ table'[p] = table[p]
                     /\ pe'[table[p]].ondisk # "unset"
                     /\ pe[table[p]].ondisk = "local" => pe'[table[p]].ondisk = "local"

\* Two requests on one path: the path is settled, and neither is creating it.
LEMMA Together ==
    ASSUME HInv, NEW c \in Clients, NEW d \in Clients \ {c},
           th[c].pc # "idle", th[d].pc # "idle", Path(c) = Path(d)
    PROVE  /\ Settled(Path(c))
           /\ th[d].pc \notin UnsettledSteps \union {"create_md", "create_mknod"}
           /\ th[d].pc \in CreateSteps => dir # d
<1>1. RequestOK(c) /\ RequestOK(d)
  BY DEF HInv
<1>2. dir # c \/ dir # d
  OBVIOUS
<1>3. Settled(Path(c)) /\ Settled(Path(d))
  BY <1>1, <1>2 DEF RequestOK
<1>4. table[Path(d)] # NoCell /\ pe[table[Path(d)]].ondisk # "unset"
  BY <1>3 DEF Settled
<1>5. th[d].pc \notin {"create_md", "create_mknod"}
  BY <1>1 DEF RequestOK, Alone
<1>6. th[d].pc \notin {"getattr_new", "getattr_ask", "getattr_fill", "getattr_absent"}
  BY <1>1, <1>4 DEF RequestOK
<1>7. th[d].pc \in CreateSteps => dir # d
  BY <1>1, <1>4 DEF RequestOK
<1>8. th[d].pc # "create"
  BY <1>1, <1>7 DEF RequestOK, CreateSteps
<1> QED
  BY <1>3, <1>5, <1>6, <1>7, <1>8 DEF UnsettledSteps

\* A step that touches its own path, and keeps what others on it rely on,
\* leaves every other request as it should be.
LEMMA OthersKeep ==
    ASSUME HInv, NEW c \in Clients, NEW p \in Paths, p = Path(c), th[c].pc # "idle",
           TouchesOnly(c, p), Grows(p)
    PROVE  \A d \in Clients \ {c} : RequestOK(d)'
<1> SUFFICES ASSUME NEW d \in Clients \ {c}, th[d].pc # "idle" PROVE RequestOK(d)'
  BY DEF TouchesOnly, RequestOK
<1>1. PICK q \in Paths : q = th[d].path
  BY DEF HInv, Inv, TypeOK, RequestsOK
<1>2. RequestOK(d) /\ th'[d] = th[d] /\ (dir' = d <=> dir = d)
  BY DEF HInv, TouchesOnly
<1>3. CASE q # p
  <2>1. /\ table'[q] = table[q]
        /\ table[q] # NoCell => pe'[table[q]] = pe[table[q]]
        /\ q \in remote' <=> q \in remote
        /\ q \in known' => q \in known
    BY <1>3 DEF TouchesOnly
  <2>2. Settled(q) => Settled(q)'
    BY <2>1 DEF Settled
  <2>3. Alone(d) => Alone(d)'
    BY <1>1, <1>2, <1>3, <2>1 DEF Alone, TouchesOnly, Path
  <2>4. th[d].pc = "getattr_new" \/ table[q] # NoCell \/ th[d].pc = "getattr"
    BY <1>1, <1>2 DEF RequestOK, Path
  <2>5. CASE table[q] = NoCell
    <3>1. th[d].pc \in {"getattr", "getattr_new"} /\ dir = d
      BY <1>1, <1>2, <2>4, <2>5 DEF RequestOK, Path, Settled
    <3> QED
      BY <1>1, <1>2, <2>1, <2>5, <3>1
      DEF RequestOK, Path, Intent, UsesCell, OpenFile, CreateSteps, GetattrSteps
  <2>6. CASE table[q] # NoCell
    BY <1>1, <1>2, <2>1, <2>2, <2>3, <2>6 DEF RequestOK, Path, Cell, Intent
  <2> QED
    BY <2>5, <2>6
<1>4. CASE q = p
  <2>1. /\ Settled(p)
        /\ th[d].pc \notin UnsettledSteps \union {"create_md", "create_mknod"}
        /\ th[d].pc \in CreateSteps => dir # d
    BY <1>1, <1>4, Together DEF Path
  <2>2. /\ Settled(p)' /\ table'[p] = table[p] /\ table[p] # NoCell
        /\ p \in remote => p \in remote'
        /\ pe[table[p]].ondisk = "local" => pe'[table[p]].ondisk = "local"
    BY <2>1 DEF Grows, Settled
  <2> QED
    BY <1>1, <1>2, <1>4, <2>1, <2>2 DEF RequestOK, Path, Cell, Intent, UnsettledSteps
<1> QED
  BY <1>3, <1>4

\* So it is enough to look at the path and at the request of the step.
LEMMA ClientStep ==
    ASSUME HInv, Inv', NEW c \in Clients, NEW p \in Paths, p = Path(c), th[c].pc # "idle",
           TouchesOnly(c, p), Grows(p), Calm', CellOK(p)',
           p \in known' => Settled(p)', RequestOK(c)'
    PROVE  HInv' /\ TouchesOnly(c, p)
<1>1. \A d \in Clients : RequestOK(d)'
  BY OthersKeep
<1>2. ASSUME NEW q \in Paths PROVE CellOK(q)'
  <2>1. CASE q # p
    BY <2>1 DEF HInv, TouchesOnly, CellOK
  <2> QED
    BY <2>1
<1>3. ASSUME NEW q \in known' PROVE Settled(q)'
  <2>1. q \in Paths
    BY DEF Inv, TypeOK
  <2>2. CASE q # p
    BY <2>1, <2>2 DEF HInv, TouchesOnly, Settled
  <2> QED
    BY <2>2, <1>3
<1> QED
  BY <1>1, <1>2, <1>3 DEF HInv

-----------------------------------------------------------------------------
(* The steps of a request.                                                  *)

\* The request of c goes to l with this cell, or ends.
Moved(c, l, k) ==
    /\ th'[c].pc = l /\ th'[c].path = th[c].path
    /\ th'[c].intent = th[c].intent /\ th'[c].cell = k
    /\ \A d \in Clients \ {c} : th'[d] = th[d]

Ended(c) ==
    /\ th'[c].pc = "idle" /\ th'[c].intent = "none" /\ dir' # c
    /\ \A d \in Clients \ {c} : th'[d] = th[d] /\ (dir' = d <=> dir = d)

\* The three ways a request moves.
LEMMA GoMoved ==
    ASSUME RequestsOK, NEW c \in Clients, NEW l, Go(c, l)
    PROVE  Moved(c, l, Cell(c))
BY DEF RequestsOK, Request, Go, Moved, Cell

\* A request that takes a cell as it goes.
LEMMA GoWithMoved ==
    ASSUME RequestsOK, NEW c \in Clients, NEW l, NEW k, GoWith(c, l, k)
    PROVE  Moved(c, l, k)
BY DEF RequestsOK, Request, GoWith, Moved

\* A request that ends gives the directory back.
LEMMA ReturnEnded ==
    ASSUME RequestsOK, NEW c \in Clients, Return(c)
    PROVE  Ended(c)
BY ClientsAssumption DEF RequestsOK, Request, Return, Ended, Idle

\* What every step of a request of c on p is like where nothing is removed.
StepOf(c, p) ==
    /\ \/ Ended(c)
       \/ \E l \in Locations \ {"idle", "unlink", "unlink_table", "open_new"} : \E k : Moved(c, l, k)
    /\ \A d \in Clients \ {c} : dir' = d <=> dir = d
    /\ \/ UNCHANGED <<table, pe>>
       \/ UNCHANGED table /\ \A j \in Cells \ {table[p]} : pe'[j] = pe[j]
       \/ table[p] = NoCell /\ \E k \in Cells : Insert(k, p)
    /\ remote \subseteq remote' /\ remote' \subseteq remote \union {p}
    /\ known' \subseteq known \union {p}
    /\ UNCHANGED <<gc, ub>>

\* Such a step touches its own path only: no two paths share a cell.
LEMMA StepTouches ==
    ASSUME HInv, NEW c \in Clients, NEW p \in Paths, p = Path(c), th[c].pc # "idle",
           StepOf(c, p)
    PROVE  TouchesOnly(c, p) /\ Calm'
<1>1. \A d \in Clients \ {c} : th'[d] = th[d] /\ (dir' = d <=> dir = d)
  BY DEF StepOf, Ended, Moved
<1>2. ASSUME NEW q \in Paths \ {p}
      PROVE  table'[q] = table[q] /\ (table[q] # NoCell => pe'[table[q]] = pe[table[q]])
  <2>1. table[q] # NoCell => table[q] # table[p] /\ IsLive(table[q])
    BY DEF HInv, Inv, TableOwnsCells
  <2>2. CASE UNCHANGED table /\ \A j \in Cells \ {table[p]} : pe'[j] = pe[j]
    BY <2>1, <2>2 DEF IsLive
  <2>3. CASE table[p] = NoCell /\ \E k \in Cells : Insert(k, p)
    <3>1. PICK k \in Cells : Insert(k, p)
      BY <2>3
    <3>2. table'[q] = table[q]
      BY <3>1 DEF Insert, HInv, Inv, TypeOK
    <3>3. table[q] # NoCell => pe'[table[q]] = pe[table[q]]
      BY <2>1, <2>3, <3>1 DEF Insert, IsLive
    <3> QED
      BY <3>2, <3>3
  <2> QED
    BY <2>2, <2>3 DEF StepOf
<1>3. th'[c].pc = "idle" \/ th'[c].path = p
  BY DEF StepOf, Ended, Moved, Path
<1>4. Calm'
  <2>1. /\ th'[c].intent # "unlink"
        /\ th'[c].pc \notin {"unlink", "unlink_table", "open_new"}
        /\ th'[c].pc = "idle" => dir' # c
    BY DEF StepOf, Ended, Moved, HInv, Calm
  <2> QED
    BY <1>1, <2>1 DEF HInv, Calm, StepOf
<1> QED
  BY <1>1, <1>2, <1>3, <1>4 DEF TouchesOnly, StepOf

\* The cell of p says the same of the file after the step.
CellSame(p) ==
    /\ table'[p] = table[p]
    /\ table[p] # NoCell => /\ pe'[table[p]].fd = pe[table[p]].fd
                            /\ pe'[table[p]].ondisk = pe[table[p]].ondisk
                            /\ pe'[table[p]].usermd = pe[table[p]].usermd

\* A step after which the cell says the same is a good one if its request is.
LEMMA SameStep ==
    ASSUME HInv, Inv', NEW c \in Clients, NEW p \in Paths, p = Path(c), th[c].pc # "idle",
           StepOf(c, p), CellSame(p), p \in known' => p \in known \/ Settled(p),
           RequestOK(c)'
    PROVE  HInv' /\ TouchesOnly(c, p)
<1>1. TouchesOnly(c, p) /\ Calm'
  BY StepTouches
<1>2. Grows(p)
  BY DEF Grows, StepOf, CellSame, Settled
<1>3. CellOK(p)'
  BY DEF HInv, CellOK, CellSame, StepOf
<1>4. p \in known' => Settled(p)'
  BY DEF HInv, CellSame, Settled
<1> QED
  BY <1>1, <1>2, <1>3, <1>4, ClientStep

\* The cell a request uses is the one of its path.
LEMMA CellOfPath ==
    ASSUME HInv, NEW c \in Clients, th[c].pc \in UsesCell
    PROVE  /\ Cell(c) = table[Path(c)] /\ My(c) = pe[table[Path(c)]]
           /\ Path(c) \in Paths /\ Cell(c) \in Cells /\ Cell(c) # NoCell
           /\ IsLive(Cell(c)) /\ My(c) \in Entry /\ th[c].pc # "idle"
<1>1. th[c].pc # "idle" /\ th[c].pc \notin {"getattr", "getattr_new"}
  BY DEF UsesCell
<1>2. Path(c) \in Paths
  BY <1>1 DEF HInv, Inv, TypeOK, RequestsOK, Path
<1>3. Cell(c) = table[Path(c)] /\ table[Path(c)] # NoCell
  BY <1>1 DEF HInv, RequestOK
<1>4. IsLive(Cell(c))
  BY <1>2, <1>3 DEF HInv, Inv, TableOwnsCells
<1> QED
  BY <1>1, <1>2, <1>3, <1>4, CellsAssumption DEF My, IsLive, HInv, Inv, TypeOK

\* Counting, locking or aging a cell changes nothing that is said of the file.
LEMMA WritesNothingSame ==
    ASSUME HInv, NEW c \in Clients, th[c].pc \in UsesCell, WritesNothing(c), UNCHANGED table
    PROVE  CellSame(Path(c)) /\ \A j \in Cells \ {table[Path(c)]} : pe'[j] = pe[j]
BY CellOfPath DEF WritesNothing, Writes, CellSame

\* The path of a request that is not idle.
LEMMA PathOf ==
    ASSUME HInv, NEW c \in Clients, th[c].pc # "idle"
    PROVE  /\ Path(c) \in Paths /\ table[Path(c)] \in Cells \union {NoCell}
           /\ RequestsOK /\ RequestOK(c) /\ CellOK(Path(c))
BY DEF HInv, Inv, TypeOK, RequestsOK, Path

\* dfs_getattr answers that the file exists: its path is settled from then on.
LEMMA FoundStep ==
    ASSUME HInv, NEW c \in Clients, th[c].pc \in {"getattr_disp", "getattr_fill"}, Found(c)
    PROVE  /\ \/ Ended(c)
              \/ Moved(c, "open", NoCell) /\ dir' # c
           /\ \A d \in Clients \ {c} : dir' = d <=> dir = d
           /\ known' = known \union {Path(c)}
<1>1. RequestsOK /\ RequestOK(c) /\ Intent(c) # "unlink" /\ NoClient \notin Clients
  BY ClientsAssumption DEF HInv, Inv, TypeOK, Calm, Intent
<1>2. CASE Intent(c) = "stat"
  BY <1>1, <1>2, ReturnEnded DEF Found, Ended
<1>3. CASE Intent(c) # "stat"
  <2>1. dir = c
    BY <1>1, <1>3 DEF RequestOK, GetattrSteps
  <2>2. GoWith(c, "open", NoCell) /\ dir' = NoClient
    BY <1>1, <1>3 DEF Found
  <2> QED
    BY <1>1, <2>1, <2>2, GoWithMoved DEF Found
<1> QED
  BY <1>2, <1>3 DEF Found

\* dfs_getattr, step by step.
LEMMA GetattrLookupKeeps ==
    ASSUME HInv, Inv', NEW c \in Clients, GetattrLookup(c)
    PROVE  HInv' /\ TouchesOnly(c, Path(c))
<1>1. th[c].pc = "getattr"
  BY DEF GetattrLookup, At
<1>2. PICK p \in Paths : p = Path(c)
  BY <1>1, PathOf
<1>3. /\ \/ table[p] = NoCell /\ Moved(c, "getattr_new", table[p])
         \/ table[p] # NoCell /\ Moved(c, "getattr_disp", table[p])
      /\ UNCHANGED <<table, pe, remote, known, dir, gc, ub>>
  BY <1>1, <1>2, PathOf, GoWithMoved DEF GetattrLookup
<1>4. StepOf(c, p) /\ CellSame(p)
  BY <1>3, LocationsTyped DEF StepOf, CellSame
<1>5. RequestOK(c)'
  BY <1>1, <1>2, <1>3, PathOf
  DEF RequestOK, Moved, Path, Cell, Intent, Settled, UsesCell, OpenFile, CreateSteps, GetattrSteps
<1> QED
  BY <1>1, <1>2, <1>3, <1>4, <1>5, SameStep

\* A new cell is inserted where there was none, by the owner of the directory.
LEMMA GetattrNewKeeps ==
    ASSUME HInv, Inv', NEW c \in Clients, GetattrNew(c)
    PROVE  HInv' /\ TouchesOnly(c, Path(c))
<1>1. th[c].pc = "getattr_new"
  BY DEF GetattrNew, At
<1>2. PICK p \in Paths : p = Path(c)
  BY <1>1, PathOf
<1>3. table[p] = NoCell /\ dir = c /\ p \notin known
  BY <1>1, <1>2, PathOf DEF RequestOK, Settled, HInv
<1>4. PICK k \in Cells : Insert(k, p) /\ Moved(c, "getattr_disp", k)
  BY <1>1, <1>2, PathOf, GoWithMoved DEF GetattrNew
<1>5. UNCHANGED <<remote, known, dir, gc, ub>>
  BY DEF GetattrNew
<1>6. /\ table'[p] = k /\ k # NoCell /\ pe'[k].ondisk = "unset"
      /\ pe'[k].fd = "none" /\ pe'[k].usermd = FALSE
  BY <1>4, CellsAssumption DEF Insert, NewEntry, Unused, HInv, Inv, TypeOK
<1>7. StepOf(c, p)
  BY <1>3, <1>4, <1>5, LocationsTyped DEF StepOf
<1>8. TouchesOnly(c, p) /\ Calm'
  BY <1>1, <1>2, <1>7, StepTouches
<1>9. Grows(p) /\ CellOK(p)' /\ (p \in known' => Settled(p)')
  BY <1>3, <1>5, <1>6 DEF Grows, Settled, CellOK
<1>10. RequestOK(c)'
  BY <1>1, <1>2, <1>3, <1>4, <1>5, <1>6
  DEF RequestOK, Moved, Path, Cell, Intent, UsesCell, OpenFile, CreateSteps, GetattrSteps
<1> QED
  BY <1>1, <1>2, <1>8, <1>9, <1>10, ClientStep

\* The answer depends on ondisk; only the owner of the directory finds it unset.
LEMMA GetattrDispatchKeeps ==
    ASSUME HInv, Inv', NEW c \in Clients, GetattrDispatch(c)
    PROVE  HInv' /\ TouchesOnly(c, Path(c))
<1>1. th[c].pc = "getattr_disp" /\ th[c].pc \in UsesCell
  BY DEF GetattrDispatch, Uses, At, UsesCell
<1>2. PICK p \in Paths : p = Path(c)
  BY <1>1, PathOf
<1>3. /\ UNCHANGED <<table, pe, remote, gc, ub>>
      /\ table[p] # NoCell /\ My(c) = pe[table[p]] /\ Cell(c) = table[p]
      /\ RequestsOK /\ RequestOK(c)
  BY <1>1, <1>2, CellOfPath, PathOf DEF GetattrDispatch
<1>4. CellSame(p)
  BY <1>3 DEF CellSame
<1>5. CASE My(c).ondisk # "unset" /\ Found(c)
  <2>1. Settled(p)
    BY <1>3, <1>5 DEF Settled
  <2>2. StepOf(c, p)
    BY <1>1, <1>2, <1>3, <1>5, FoundStep, LocationsTyped DEF StepOf
  <2>3. RequestOK(c)'
    BY <1>1, <1>2, <1>3, <1>5, <2>1, FoundStep
    DEF RequestOK, Moved, Ended, Path, Cell, Intent, Settled, UsesCell, OpenFile, CreateSteps, GetattrSteps
  <2> QED
    BY <1>1, <1>2, <1>4, <2>1, <2>2, <2>3, SameStep
<1>6. CASE Return(c) /\ UNCHANGED known
  <2>1. Ended(c)
    BY <1>3, <1>6, ReturnEnded
  <2>2. StepOf(c, p) /\ RequestOK(c)'
    BY <1>3, <1>6, <2>1 DEF StepOf, Ended, RequestOK
  <2> QED
    BY <1>1, <1>2, <1>4, <1>6, <2>2, SameStep
<1>7. CASE /\ My(c).ondisk = "unset"
           /\ Go(c, "getattr_ask") /\ UNCHANGED <<known, dir>>
  <2>1. Moved(c, "getattr_ask", Cell(c))
    BY <1>3, <1>7, GoMoved
  <2>2. StepOf(c, p)
    BY <1>3, <1>7, <2>1, LocationsTyped DEF StepOf
  <2>3. RequestOK(c)'
    BY <1>1, <1>2, <1>3, <1>7, <2>1
    DEF RequestOK, Moved, Path, Cell, Intent, Settled, UsesCell, OpenFile, CreateSteps, GetattrSteps
  <2> QED
    BY <1>1, <1>2, <1>4, <1>7, <2>2, <2>3, SameStep
<1> QED
  BY <1>2, <1>5, <1>6, <1>7 DEF GetattrDispatch

\* The storage answers, or it does not and the request ends.
LEMMA GetattrAskKeeps ==
    ASSUME HInv, Inv', NEW c \in Clients, GetattrAsk(c)
    PROVE  HInv' /\ TouchesOnly(c, Path(c))
<1>1. th[c].pc = "getattr_ask" /\ th[c].pc \in UsesCell
  BY DEF GetattrAsk, Uses, At, UsesCell
<1>2. PICK p \in Paths : p = Path(c)
  BY <1>1, PathOf
<1>3. /\ UNCHANGED <<table, pe, remote, gc, ub>>
      /\ table[p] # NoCell /\ My(c) = pe[table[p]] /\ Cell(c) = table[p]
      /\ RequestsOK /\ RequestOK(c) /\ My(c).ondisk = "unset"
  BY <1>1, <1>2, CellOfPath, PathOf DEF GetattrAsk, RequestOK
<1>4. CellSame(p)
  BY <1>3 DEF CellSame
<1>5. CASE Return(c) /\ UNCHANGED known
  <2>1. Ended(c)
    BY <1>3, <1>5, ReturnEnded
  <2>2. StepOf(c, p) /\ RequestOK(c)'
    BY <1>3, <1>5, <2>1 DEF StepOf, Ended, RequestOK
  <2> QED
    BY <1>1, <1>2, <1>4, <1>5, <2>2, SameStep
<1>6. ASSUME NEW l \in {"getattr_fill", "getattr_absent"}, Go(c, l), UNCHANGED <<known, dir>>,
             l = "getattr_fill" <=> p \in remote
      PROVE  HInv' /\ TouchesOnly(c, p)
  <2>1. Moved(c, l, Cell(c))
    BY <1>3, <1>6, GoMoved
  <2>2. StepOf(c, p)
    BY <1>3, <1>6, <2>1, LocationsTyped DEF StepOf
  <2>3. RequestOK(c)'
    BY <1>1, <1>2, <1>3, <1>6, <2>1
    DEF RequestOK, Moved, Path, Cell, Intent, Settled, UsesCell, OpenFile, CreateSteps, GetattrSteps
  <2> QED
    BY <1>1, <1>2, <1>4, <1>6, <2>2, <2>3, SameStep
<1> QED
  BY <1>2, <1>5, <1>6 DEF GetattrAsk

\* The file is not there: the owner of the directory creates it, or fails.
LEMMA GetattrAbsentKeeps ==
    ASSUME HInv, Inv', NEW c \in Clients, GetattrAbsent(c)
    PROVE  HInv' /\ TouchesOnly(c, Path(c))
<1>1. th[c].pc = "getattr_absent" /\ th[c].pc \in UsesCell
  BY DEF GetattrAbsent, Uses, At, UsesCell
<1>2. PICK p \in Paths : p = Path(c)
  BY <1>1, PathOf
<1>3. /\ UNCHANGED <<table, pe, remote, gc, ub>>
      /\ table[p] # NoCell /\ My(c) = pe[table[p]] /\ Cell(c) = table[p]
      /\ RequestsOK /\ RequestOK(c) /\ My(c).ondisk = "unset"
  BY <1>1, <1>2, CellOfPath, PathOf DEF GetattrAbsent, RequestOK
<1>4. CellSame(p)
  BY <1>3 DEF CellSame
<1>5. p \notin remote /\ NotFound(c)
  BY <1>1, <1>2, <1>3 DEF GetattrAbsent, RequestOK
<1>6. \/ Ended(c)
      \/ Moved(c, "create", NoCell) /\ dir = c /\ UNCHANGED dir
  BY <1>3, <1>5, ReturnEnded, GoWithMoved DEF NotFound, InCreate
<1>7. StepOf(c, p) /\ UNCHANGED known
  BY <1>3, <1>5, <1>6, LocationsTyped DEF StepOf, NotFound, Ended
<1>8. RequestOK(c)'
  BY <1>1, <1>2, <1>3, <1>5, <1>6
  DEF RequestOK, Moved, Ended, Path, Cell, Intent, UsesCell, OpenFile, CreateSteps, GetattrSteps
<1> QED
  BY <1>1, <1>2, <1>4, <1>7, <1>8, SameStep

\* The metadata received settle the path.
LEMMA GetattrFillKeeps ==
    ASSUME HInv, Inv', NEW c \in Clients, GetattrFill(c)
    PROVE  HInv' /\ TouchesOnly(c, Path(c))
<1>1. th[c].pc = "getattr_fill" /\ th[c].pc \in UsesCell
  BY DEF GetattrFill, Uses, At, UsesCell
<1>2. PICK p \in Paths : p = Path(c)
  BY <1>1, PathOf
<1>3. /\ UNCHANGED <<table, remote, gc, ub>>
      /\ table[p] # NoCell /\ My(c) = pe[table[p]] /\ Cell(c) = table[p]
      /\ pe[table[p]].ondisk = "unset" /\ p \in remote
  BY <1>1, <1>2, CellOfPath, PathOf DEF GetattrFill, RequestOK
<1>4. /\ \A j \in Cells \ {table[p]} : pe'[j] = pe[j]
      /\ pe'[table[p]].ondisk = "remote"
  BY <1>3, FillWrites DEF Writes, HInv, Inv
<1>5. StepOf(c, p)
  BY <1>1, <1>2, <1>3, <1>4, FoundStep, LocationsTyped DEF GetattrFill, StepOf
<1>6. TouchesOnly(c, p) /\ Calm'
  BY <1>1, <1>2, <1>5, StepTouches
<1>7. Grows(p) /\ CellOK(p)' /\ Settled(p)'
  BY <1>3, <1>4 DEF Grows, Settled, CellOK
<1>8. RequestOK(c)'
  BY <1>1, <1>2, <1>3, <1>7, FoundStep
  DEF GetattrFill, RequestOK, Moved, Ended, Path, Cell, Intent, UsesCell, OpenFile, CreateSteps, GetattrSteps
<1> QED
  BY <1>1, <1>2, <1>6, <1>7, <1>8, ClientStep

\* dfs_create before dfs_open, and the lookup of dfs_open.
LEMMA CreateKeeps ==
    ASSUME HInv, Inv', NEW c \in Clients, Create(c)
    PROVE  HInv' /\ TouchesOnly(c, Path(c))
<1>1. th[c].pc = "create" /\ th[c].pc \in CreateSteps
  BY DEF Create, At, CreateSteps
<1>2. PICK p \in Paths : p = Path(c)
  BY <1>1, PathOf
<1>3. /\ (Moved(c, "open", Cell(c)) /\ UNCHANGED dir) \/ Ended(c)
      /\ UNCHANGED <<table, pe, remote, known, gc, ub>>
  BY <1>1, PathOf, GoMoved, ReturnEnded DEF Create
<1>4. StepOf(c, p) /\ CellSame(p)
  BY <1>3, LocationsTyped DEF StepOf, CellSame, Ended
<1>5. RequestOK(c)'
  BY <1>1, <1>2, <1>3, PathOf
  DEF RequestOK, Moved, Ended, Path, Cell, Intent, Settled, UsesCell, OpenFile, CreateSteps, GetattrSteps
<1> QED
  BY <1>1, <1>2, <1>3, <1>4, <1>5, SameStep

\* The path of a dfs_open has a cell.
LEMMA OpenLookupKeeps ==
    ASSUME HInv, Inv', NEW c \in Clients, OpenLookup(c)
    PROVE  HInv' /\ TouchesOnly(c, Path(c))
<1>1. th[c].pc = "open" /\ th[c].pc \in CreateSteps
  BY DEF OpenLookup, At, CreateSteps
<1>2. PICK p \in Paths : p = Path(c)
  BY <1>1, PathOf
<1>3. table[p] # NoCell
  BY <1>1, <1>2, PathOf DEF RequestOK
<1>4. /\ Moved(c, "open_inc", table[p])
      /\ UNCHANGED <<table, pe, remote, known, dir, gc, ub>>
  BY <1>1, <1>2, <1>3, PathOf, GoWithMoved DEF OpenLookup
<1>5. StepOf(c, p) /\ CellSame(p)
  BY <1>4, LocationsTyped DEF StepOf, CellSame
<1>6. RequestOK(c)'
  BY <1>1, <1>2, <1>3, <1>4, PathOf
  DEF RequestOK, Moved, Ended, Path, Cell, Intent, Settled, UsesCell, OpenFile, CreateSteps, GetattrSteps
<1> QED
  BY <1>1, <1>2, <1>4, <1>5, <1>6, SameStep

\* The count goes up.
LEMMA OpenIncKeeps ==
    ASSUME HInv, Inv', NEW c \in Clients, OpenInc(c)
    PROVE  HInv' /\ TouchesOnly(c, Path(c))
<1>1. th[c].pc = "open_inc" /\ th[c].pc \in UsesCell /\ th[c].pc \in CreateSteps
  BY DEF OpenInc, Uses, At, UsesCell, CreateSteps
<1>2. PICK p \in Paths : p = Path(c)
  BY <1>1, PathOf
<1>3. /\ UNCHANGED <<table, remote, known, dir, gc, ub>>
      /\ Moved(c, "open_creat", Cell(c)) \/ Moved(c, "open_existing", Cell(c))
  BY <1>1, PathOf, GoMoved DEF OpenInc
<1>4. /\ CellSame(p) /\ \A j \in Cells \ {table[p]} : pe'[j] = pe[j]
      /\ table[p] # NoCell /\ Cell(c) = table[p]
  BY <1>1, <1>2, <1>3, OtherWrites, WritesNothingSame, CellOfPath DEF HInv, Inv
<1>5. StepOf(c, p)
  BY <1>3, <1>4, LocationsTyped DEF StepOf
<1>6. RequestOK(c)'
  <2>1. Path(c)' = p /\ Intent(c)' = Intent(c) /\ Cell(c)' = table'[p] /\ dir' = dir
    BY <1>2, <1>3, <1>4 DEF Moved, Path, Cell, Intent, CellSame
  <2>2. pe'[table[p]].ondisk = pe[table[p]].ondisk /\ table'[p] = table[p]
    BY <1>4 DEF CellSame
  <2>3. /\ dir # c => Settled(p)
        /\ dir = c => pe[table[p]].ondisk = "unset" /\ p \notin remote
    <3>1. RequestOK(c)
      BY DEF HInv
    <3> QED
      BY <1>1, <1>2, <3>1 DEF RequestOK, CreateSteps
  <2>4. th'[c].pc \in {"open_creat", "open_existing"}
    BY <1>3 DEF Moved
  <2>5. /\ th'[c].pc \notin {"getattr", "getattr_new", "getattr_ask", "getattr_fill",
                             "getattr_absent", "open_get", "create", "create_md", "create_mknod"}
        /\ th'[c].pc \notin GetattrSteps /\ th'[c].pc \notin OpenFile
    BY <2>4 DEF GetattrSteps, OpenFile
  <2>6. pe'[table'[Path(c)']].ondisk = pe[table[p]].ondisk /\ table'[Path(c)'] # NoCell
        /\ Cell(c)' = table'[Path(c)']
    BY <1>4, <2>1, <2>2
  <2>7. /\ dir' # c => pe'[table'[Path(c)']].ondisk # "unset"
        /\ dir' = c => pe'[table'[Path(c)']].ondisk = "unset" /\ Path(c)' \notin remote'
    BY <1>3, <2>1, <2>3, <2>6 DEF Settled
  <2> QED
    BY <2>5, <2>6, <2>7 DEF RequestOK, Settled
<1> QED
  BY <1>1, <1>2, <1>3, <1>4, <1>5, <1>6, SameStep

\* A dfs_create is alone on its path until the file is open.
LEMMA CreatesAlone ==
    ASSUME HInv, NEW c \in Clients, th[c].pc \in CreateSteps, dir = c
    PROVE  /\ pe[table[Path(c)]].ondisk = "unset" /\ Path(c) \notin remote
           /\ Alone(c)
<1>1. th[c].pc # "idle" /\ RequestOK(c)
  BY DEF HInv, CreateSteps
<1>2. pe[table[Path(c)]].ondisk = "unset" /\ Path(c) \notin remote
  BY <1>1 DEF RequestOK
<1>3. ASSUME NEW d \in Clients \ {c}, th[d].pc # "idle", Path(d) = Path(c) PROVE FALSE
  BY <1>1, <1>2, <1>3, Together DEF Settled
<1> QED
  BY <1>2, <1>3 DEF Alone, HInv, Settled

\* dfs_open returns 0 in a dfs_create, which is alone, or in an OPEN.
LEMMA OpenedStep ==
    ASSUME HInv, NEW c \in Clients, Opened(c)
    PROVE  /\ dir = c => Moved(c, "create_md", Cell(c))
           /\ dir # c => Moved(c, "held", Cell(c))
           /\ UNCHANGED dir
BY GoMoved DEF Opened, InCreate, HInv, Inv, TypeOK

\* A file that is open is one whose cell is local, with a descriptor.
LEMMA OpenedOnCell ==
    ASSUME HInv, Inv', NEW c \in Clients, NEW p \in Paths, p = Path(c),
           th[c].pc \in {"open_creat", "open_existing", "open_get"}, Opened(c),
           UNCHANGED <<table, remote, known, gc, ub>>,
           \A j \in Cells \ {table[p]} : pe'[j] = pe[j],
           pe'[table[p]].ondisk = "local", pe'[table[p]].fd # "none",
           dir = c => ~pe'[table[p]].usermd
    PROVE  HInv' /\ TouchesOnly(c, Path(c))
<1>1. /\ th[c].pc \in UsesCell /\ th[c].pc \in CreateSteps /\ th[c].pc # "idle"
      /\ RequestOK(c)
  BY DEF UsesCell, CreateSteps, HInv
<1>2. table[p] # NoCell /\ Cell(c) = table[p]
  BY <1>1, CellOfPath
<1>3. StepOf(c, p)
  BY OpenedStep, LocationsTyped DEF StepOf
<1>4. TouchesOnly(c, p) /\ Calm'
  BY <1>1, <1>3, StepTouches
<1>5. Grows(p) /\ CellOK(p)' /\ Settled(p)'
  BY <1>2 DEF Grows, CellOK, Settled
<1>6. CASE dir = c
  <2>1. Moved(c, "create_md", Cell(c)) /\ UNCHANGED dir /\ Alone(c)
    BY <1>1, <1>6, OpenedStep, CreatesAlone
  <2>2. Alone(c)'
    BY <1>4, <2>1 DEF Alone, Moved, Path
  <2>3. RequestOK(c)'
    BY <1>2, <1>5, <1>6, <2>1, <2>2
    DEF RequestOK, Moved, Path, Cell, Intent, UsesCell, OpenFile, CreateSteps, GetattrSteps
  <2> QED
    BY <1>1, <1>4, <1>5, <2>3, ClientStep
<1>7. CASE dir # c
  <2>1. Moved(c, "held", Cell(c)) /\ UNCHANGED dir
    BY <1>7, OpenedStep
  <2>2. RequestOK(c)'
    BY <1>2, <1>5, <1>7, <2>1
    DEF RequestOK, Moved, Path, Cell, Intent, UsesCell, OpenFile, CreateSteps, GetattrSteps
  <2> QED
    BY <1>1, <1>4, <1>5, <2>2, ClientStep
<1> QED
  BY <1>6, <1>7

\* The descriptor is replaced; a dfs_create has no metadata yet.
LEMMA OpenCreatKeeps ==
    ASSUME HInv, Inv', NEW c \in Clients, OpenCreat(c)
    PROVE  HInv' /\ TouchesOnly(c, Path(c))
<1>1. /\ th[c].pc = "open_creat" /\ th[c].pc \in UsesCell /\ th[c].pc \in CreateSteps
  BY DEF OpenCreat, Uses, At, UsesCell, CreateSteps
<1>2. PICK p \in Paths : p = Path(c)
  BY <1>1, PathOf
<1>3. /\ table[p] # NoCell /\ Cell(c) = table[p] /\ My(c) = pe[table[p]] /\ CellOK(p)
      /\ Opened(c) /\ UNCHANGED <<table, remote, known, gc, ub>>
  BY <1>1, <1>2, CellOfPath DEF OpenCreat, HInv
<1>4. Writes(c, "rw", "local", My(c).usermd, My(c).exclude)
  BY CreatWrites DEF HInv, Inv
<1>5. dir = c => ~My(c).usermd
  BY <1>1, <1>2, <1>3, CreatesAlone DEF CellOK
<1> QED
  BY <1>1, <1>2, <1>3, <1>4, <1>5, OpenedOnCell DEF Writes

\* A local file is opened on the descriptor it has; a dfs_create finds none.
LEMMA OpenExistingKeeps ==
    ASSUME HInv, Inv', NEW c \in Clients, OpenExisting(c)
    PROVE  HInv' /\ TouchesOnly(c, Path(c))
<1>1. /\ th[c].pc = "open_existing" /\ th[c].pc \in UsesCell /\ th[c].pc \in CreateSteps
  BY DEF OpenExisting, Uses, At, UsesCell, CreateSteps
<1>2. PICK p \in Paths : p = Path(c)
  BY <1>1, PathOf
<1>3. /\ table[p] # NoCell /\ Cell(c) = table[p] /\ My(c) = pe[table[p]] /\ CellOK(p)
      /\ RequestOK(c) /\ My(c) \in Entry /\ RequestsOK
      /\ UNCHANGED <<table, remote, known, gc, ub>>
  BY <1>1, <1>2, CellOfPath, PathOf DEF OpenExisting
<1>4. CASE My(c).fd = "none"
  <2>1. Moved(c, "open_get", Cell(c)) /\ UNCHANGED <<pe, dir>>
    BY <1>3, <1>4, GoMoved DEF OpenExisting
  <2>2. p \in remote \/ dir = c \/ Faults
    BY <1>1, <1>2, <1>3, <1>4 DEF RequestOK, Settled, CellOK, Entry
  <2>3. StepOf(c, p) /\ CellSame(p)
    BY <1>3, <2>1, LocationsTyped DEF StepOf, CellSame
  <2>4. RequestOK(c)'
    BY <1>1, <1>2, <1>3, <2>1, <2>2
    DEF RequestOK, Moved, Ended, Path, Cell, Intent, Settled, UsesCell, OpenFile, CreateSteps, GetattrSteps
  <2> QED
    BY <1>1, <1>2, <1>3, <2>3, <2>4, SameStep
<1>5. CASE My(c).fd # "none"
  <2>1. Writes(c, My(c).fd, "local", My(c).usermd, My(c).exclude) /\ Opened(c)
    BY <1>5, ExistingWrites DEF OpenExisting, HInv, Inv
  <2>2. dir # c
    BY <1>1, <1>2, <1>3, <1>5, CreatesAlone DEF CellOK
  <2> QED
    BY <1>1, <1>2, <1>3, <1>5, <2>1, <2>2, OpenedOnCell DEF Writes
<1> QED
  BY <1>4, <1>5

\* Only a dfs_create finds no object, and only an OPEN finds one.
LEMMA OpenGetKeeps ==
    ASSUME HInv, Inv', NEW c \in Clients, OpenGet(c)
    PROVE  HInv' /\ TouchesOnly(c, Path(c))
<1>1. /\ th[c].pc = "open_get" /\ th[c].pc \in UsesCell /\ th[c].pc \in CreateSteps
  BY DEF OpenGet, Uses, At, UsesCell, CreateSteps
<1>2. PICK p \in Paths : p = Path(c)
  BY <1>1, PathOf
<1>3. /\ table[p] # NoCell /\ Cell(c) = table[p] /\ My(c) = pe[table[p]] /\ CellOK(p)
      /\ RequestOK(c) /\ My(c) \in Entry /\ RequestsOK
      /\ UNCHANGED <<table, remote, known, gc, ub>>
  BY <1>1, <1>2, CellOfPath, PathOf DEF OpenGet
<1>4. dir = c => p \notin remote
  BY <1>1, <1>2, CreatesAlone
<1>5. ASSUME GetFails(c),
             NEW m \in {My(c).usermd, My(c).usermd \/ Path(c) \in remote},
             Writes(c, "none", My(c).ondisk, m, My(c).exclude)
      PROVE  HInv' /\ TouchesOnly(c, Path(c))
  <2>1. /\ p \notin remote \/ Faults
        /\ dir = c \/ Faults
    BY <1>1, <1>2, <1>3, <1>5 DEF GetFails, RequestOK
  <2>2. /\ \A j \in Cells \ {table[p]} : pe'[j] = pe[j]
        /\ pe'[table[p]].fd = "none" /\ pe'[table[p]].ondisk = pe[table[p]].ondisk
        /\ pe'[table[p]].usermd = m
    BY <1>3, <1>5 DEF Writes
  <2>3. dir = c => pe[table[p]].ondisk = "unset" /\ p \notin known /\ ~m
    BY <1>1, <1>2, <1>3, <1>4, <1>5, CreatesAlone DEF Alone, CellOK
  <2>4. dir # c => Settled(p)
    BY <1>1, <1>2, <1>3 DEF RequestOK
  <2>5. Ended(c) /\ UNCHANGED <<table, remote, known, gc, ub>>
    BY <1>3, <1>5, ReturnEnded DEF GetFails
  <2>6. StepOf(c, p)
    BY <2>2, <2>5 DEF StepOf, Ended
  <2>7. TouchesOnly(c, p) /\ Calm'
    BY <1>1, <1>2, <2>6, StepTouches
  <2>8. Grows(p) /\ (p \in known' => Settled(p)')
    BY <2>2, <2>3, <2>4, <2>5 DEF Grows, Settled, HInv
  <2>9. CellOK(p)'
    <3>1. CASE dir = c
      BY <1>3, <2>2, <2>3, <2>5, <3>1 DEF CellOK
    <3>2. CASE dir # c
      BY <1>3, <2>1, <2>2, <2>4, <2>5, <3>2 DEF CellOK, Settled
    <3> QED
      BY <3>1, <3>2
  <2>10. RequestOK(c)'
    BY <2>5 DEF Ended, RequestOK
  <2> QED
    BY <1>1, <1>2, <2>7, <2>8, <2>9, <2>10, ClientStep
<1>6. ASSUME GetMatches(c), Writes(c, My(c).fd, My(c).ondisk, TRUE, My(c).exclude)
      PROVE  HInv' /\ TouchesOnly(c, Path(c))
  <2>1. dir # c /\ My(c).ondisk = "local" /\ p \in remote
    BY <1>2, <1>4, <1>6 DEF GetMatches
  <2>2. CASE My(c).fd # "none"
    <3>1. Opened(c)
      BY <1>6, <2>2 DEF GetMatches
    <3> QED
      BY <1>1, <1>2, <1>3, <1>6, <2>1, <2>2, <3>1, OpenedOnCell DEF Writes
  <2>3. CASE My(c).fd = "none"
    <3>1. Ended(c) /\ UNCHANGED <<table, remote, known, gc, ub>>
      BY <1>3, <1>6, <2>3, ReturnEnded DEF GetMatches
    <3>2. /\ \A j \in Cells \ {table[p]} : pe'[j] = pe[j]
          /\ pe'[table[p]].fd = pe[table[p]].fd /\ pe'[table[p]].ondisk = "local"
      BY <1>3, <1>6, <2>1 DEF Writes
    <3>3. StepOf(c, p)
      BY <3>1, <3>2 DEF StepOf, Ended
    <3>4. TouchesOnly(c, p) /\ Calm'
      BY <1>1, <1>2, <3>3, StepTouches
    <3>5. Grows(p) /\ Settled(p)' /\ CellOK(p)'
      BY <1>3, <2>1, <3>1, <3>2 DEF Grows, Settled, CellOK
    <3>6. RequestOK(c)'
      BY <3>1 DEF Ended, RequestOK
    <3> QED
      BY <1>1, <1>2, <3>4, <3>5, <3>6, ClientStep
  <2> QED
    BY <2>2, <2>3
<1>7. ASSUME GetDownloads(c), NEW f \in {"r", "rw"},
             Writes(c, f, "local", TRUE, My(c).exclude)
      PROVE  HInv' /\ TouchesOnly(c, Path(c))
  <2>1. dir # c /\ Opened(c)
    BY <1>2, <1>4, <1>7 DEF GetDownloads
  <2> QED
    BY <1>1, <1>2, <1>3, <1>7, <2>1, OpenedOnCell DEF Writes
<1>8. TypeOK
  BY DEF HInv, Inv
<1> QED
  BY <1>5, <1>6, <1>7, <1>8, GetWrites

\* dfs_create after dfs_open: the cell has its descriptor and no metadata yet.
LEMMA CreateMdKeeps ==
    ASSUME HInv, Inv', NEW c \in Clients, CreateMd(c)
    PROVE  HInv' /\ TouchesOnly(c, Path(c))
<1>1. th[c].pc = "create_md" /\ th[c].pc \in UsesCell
  BY DEF CreateMd, Uses, At, UsesCell
<1>2. PICK p \in Paths : p = Path(c)
  BY <1>1, PathOf
<1>3. /\ table[p] # NoCell /\ Cell(c) = table[p] /\ My(c) = pe[table[p]] /\ CellOK(p)
      /\ RequestsOK /\ UNCHANGED <<table, remote, gc>>
  BY <1>1, <1>2, CellOfPath, PathOf DEF CreateMd
<1>4. dir = c /\ My(c).ondisk = "local" /\ ~My(c).usermd /\ Alone(c)
  BY <1>1, <1>2, <1>3, PathOf DEF RequestOK
<1>5. \E m : Writes(c, My(c).fd, My(c).ondisk, m, Path(c) \in Excluded)
  BY <1>4, MdWrites DEF HInv, Inv
<1>6. /\ \A j \in Cells \ {table[p]} : pe'[j] = pe[j]
      /\ pe'[table[p]].fd = My(c).fd /\ pe'[table[p]].ondisk = "local"
  BY <1>3, <1>4, <1>5 DEF Writes
<1>7. Grows(p) /\ CellOK(p)' /\ Settled(p)'
  BY <1>3, <1>4, <1>6 DEF Grows, CellOK, Settled
<1>8. CASE Go(c, "held") /\ known' = known \union {Path(c)} /\ dir' = NoClient
  <2>1. Moved(c, "held", Cell(c)) /\ NoClient \notin Clients
    BY <1>3, <1>8, GoMoved, ClientsAssumption
  <2>2. StepOf(c, p)
    BY <1>2, <1>3, <1>4, <1>6, <1>8, <2>1, LocationsTyped DEF CreateMd, StepOf
  <2>3. RequestOK(c)'
    BY <1>2, <1>3, <1>6, <1>7, <2>1
    DEF RequestOK, Moved, Path, Cell, Intent, UsesCell, OpenFile, CreateSteps, GetattrSteps
  <2> QED
    BY <1>1, <1>2, <1>7, <2>2, <2>3, StepTouches, ClientStep
<1>9. CASE Go(c, "create_mknod") /\ UNCHANGED <<dir, known>>
  <2>1. Moved(c, "create_mknod", Cell(c))
    BY <1>3, <1>9, GoMoved
  <2>2. StepOf(c, p)
    BY <1>2, <1>3, <1>4, <1>6, <1>9, <2>1, LocationsTyped DEF CreateMd, StepOf
  <2>3. Alone(c)'
    BY <1>4, <1>9, <2>1 DEF Alone, Moved, Path
  <2>4. RequestOK(c)'
    BY <1>2, <1>3, <1>4, <1>6, <1>7, <1>9, <2>1, <2>3
    DEF RequestOK, Moved, Path, Cell, Intent, UsesCell, OpenFile, CreateSteps, GetattrSteps
  <2> QED
    BY <1>1, <1>2, <1>7, <2>2, <2>4, StepTouches, ClientStep
<1>10. CASE Return(c) /\ UNCHANGED <<known, ub>>
  <2>1. Ended(c)
    BY <1>3, <1>10, ReturnEnded
  <2>2. StepOf(c, p) /\ RequestOK(c)'
    BY <1>3, <1>6, <1>10, <2>1 DEF StepOf, Ended, RequestOK
  <2> QED
    BY <1>1, <1>2, <1>7, <2>2, StepTouches, ClientStep
<1> QED
  BY <1>4, <1>8, <1>9, <1>10 DEF CreateMd

\* dfs_create at its end: the object exists when the path becomes known.
LEMMA CreateMknodKeeps ==
    ASSUME HInv, Inv', NEW c \in Clients, CreateMknod(c)
    PROVE  HInv' /\ TouchesOnly(c, Path(c))
<1>1. th[c].pc = "create_mknod"
  BY DEF CreateMknod, At
<1>2. PICK p \in Paths : p = Path(c)
  BY <1>1, PathOf
<1>3. /\ table[p] # NoCell /\ pe[table[p]].ondisk = "local" /\ dir = c
      /\ NoClient \notin Clients
  BY <1>1, <1>2, PathOf, ClientsAssumption DEF RequestOK
<1>4. /\ (Moved(c, "held", Cell(c)) /\ dir' = NoClient) \/ Ended(c)
      /\ remote' \in {remote, remote \union {p}}
      /\ known' \in {known, known \union {p}}
      /\ UNCHANGED <<table, pe, gc, ub>>
  BY <1>1, <1>2, PathOf, GoMoved, ReturnEnded DEF CreateMknod
<1>5. StepOf(c, p) /\ CellSame(p) /\ Settled(p)
  BY <1>3, <1>4, LocationsTyped DEF StepOf, CellSame, Settled, Ended
<1>6. Cell(c) = table[p]
  BY <1>1, <1>2, PathOf DEF RequestOK
<1>7. RequestOK(c)'
  BY <1>2, <1>3, <1>4, <1>5, <1>6
  DEF RequestOK, Moved, Ended, Path, Cell, Intent, Settled, UsesCell, OpenFile, CreateSteps, GetattrSteps
<1> QED
  BY <1>1, <1>2, <1>5, <1>7, SameStep

\* The open file: nothing it does changes what its cell says of the file.
LEMMA OpenFileKeeps ==
    ASSUME HInv, Inv', NEW c \in Clients,
           \/ ReadWrite(c) \/ Close(c) \/ Release(c) \/ Upload(c) \/ ReleaseEnd(c)
    PROVE  HInv' /\ TouchesOnly(c, Path(c))
<1>1. th[c].pc \in OpenFile /\ th[c].pc \in UsesCell
  BY DEF ReadWrite, Close, Release, Upload, ReleaseEnd, Uses, At, OpenFile, UsesCell
<1>2. th[c].pc # "idle"
  BY <1>1 DEF OpenFile
<1>3. PICK p \in Paths : p = Path(c)
  BY <1>2, PathOf
<1>4. /\ table[p] # NoCell /\ Cell(c) = table[p] /\ My(c) = pe[table[p]]
      /\ RequestsOK /\ RequestOK(c) /\ TypeOK
      /\ pe[table[p]].ondisk = "local" /\ Settled(p)
  BY <1>1, <1>2, <1>3, CellOfPath, PathOf DEF RequestOK, Settled, HInv, Inv
<1>5. UNCHANGED <<table, known, gc, ub>>
  BY DEF ReadWrite, Close, Release, Upload, ReleaseEnd
<1>6. CellSame(p) /\ \A j \in Cells \ {table[p]} : pe'[j] = pe[j]
  <2>1. CASE Close(c) \/ (Release(c) /\ My(c).fd = "none")
    BY <2>1 DEF Close, Release, CellSame
  <2>2. CASE ~(Close(c) \/ (Release(c) /\ My(c).fd = "none"))
    BY <1>1, <1>3, <1>4, <1>5, <2>2, OtherWrites, WritesNothingSame
  <2> QED
    BY <2>1, <2>2
<1>7. remote \subseteq remote' /\ remote' \subseteq remote \union {p}
  BY <1>3 DEF ReadWrite, Close, Release, Upload, ReleaseEnd
<1>8. \/ Ended(c)
      \/ \E l \in OpenFile : Moved(c, l, Cell(c)) /\ UNCHANGED dir
  <2>1. CASE Return(c)
    BY <1>4, <2>1, ReturnEnded
  <2>2. CASE ReadWrite(c)
    BY <1>1, <2>2 DEF ReadWrite, Moved, Cell
  <2>3. ASSUME NEW l \in OpenFile, Go(c, l), UNCHANGED dir
        PROVE  \E m \in OpenFile : Moved(c, m, Cell(c)) /\ UNCHANGED dir
    BY <1>4, <2>3, GoMoved
  <2>4. {"release", "released", "upload"} \subseteq OpenFile
    BY DEF OpenFile
  <2> QED
    BY <2>1, <2>2, <2>3, <2>4 DEF Close, Release, Upload, ReleaseEnd
<1>9. OpenFile \subseteq Locations \ {"idle", "unlink", "unlink_table", "open_new"}
  BY LocationsTyped DEF OpenFile
<1>10. StepOf(c, p)
  BY <1>5, <1>6, <1>7, <1>8, <1>9 DEF StepOf, Ended, CellSame
<1>11. RequestOK(c)'
  <2>1. CASE Ended(c)
    BY <2>1 DEF Ended, RequestOK
  <2>2. ASSUME NEW l \in OpenFile, Moved(c, l, Cell(c)), UNCHANGED dir
        PROVE  RequestOK(c)'
    BY <1>3, <1>4, <1>6, <2>2
    DEF CellSame, RequestOK, Moved, Path, Cell, Intent, Settled, UsesCell, OpenFile, CreateSteps, GetattrSteps
  <2> QED
    BY <1>8, <2>1, <2>2
<1> QED
  BY <1>2, <1>3, <1>4, <1>6, <1>10, <1>11, SameStep

\* A client asks for something: for a file that is known, or it owns the
\* directory from now on.
LEMMA BeginKeeps ==
    ASSUME HInv, Inv', "unlink" \notin Intents, NEW c \in Clients, Begin(c)
    PROVE  HInv'
<1>1. th[c].pc = "idle" /\ dir # c /\ NoClient \notin Clients
  BY ClientsAssumption DEF Begin, At, HInv, Calm
<1>2. UNCHANGED <<table, pe, remote, known, gc, ub>>
  BY DEF Begin
<1>3. PICK p \in Paths, i \in Intents :
         /\ IF p \notin known \/ i = "unlink"
            THEN dir = NoClient /\ dir' = c
            ELSE UNCHANGED dir
         /\ th' = [th EXCEPT ![c] =
                      [pc     |-> CASE p \notin known \/ i = "stat" -> "getattr"
                                    [] p \in known /\ i = "unlink" -> "unlink"
                                    [] OTHER -> "open",
                       path   |-> p,
                       intent |-> i,
                       cell   |-> NoCell]]
  BY DEF Begin
<1> DEFINE l == CASE p \notin known \/ i = "stat" -> "getattr"
                  [] p \in known /\ i = "unlink" -> "unlink"
                  [] OTHER -> "open"
<1>4. /\ l \in {"getattr", "open"} /\ i # "unlink"
      /\ l = "open" => p \in known
      /\ l = "getattr" /\ i # "stat" => p \notin known
  OBVIOUS
<1>5. /\ th'[c].pc = l /\ th'[c].path = p /\ th'[c].intent = i
      /\ \A d \in Clients \ {c} : th'[d] = th[d]
  BY <1>3 DEF HInv, Inv, TypeOK, RequestsOK
<1> HIDE DEF l
<1>6. /\ p \notin known => dir = NoClient /\ dir' = c
      /\ p \in known => dir' = dir
      /\ \A d \in Clients \ {c} : dir' = d <=> dir = d
  BY <1>1, <1>3, <1>4
<1>7. Calm'
  BY <1>2, <1>4, <1>5, <1>6 DEF HInv, Calm
<1>8. p \in known => Settled(p)
  BY DEF HInv
<1>9. RequestOK(c)'
  BY <1>1, <1>2, <1>4, <1>5, <1>6, <1>8
  DEF RequestOK, Path, Intent, Settled, UsesCell, OpenFile, CreateSteps, GetattrSteps
<1>10. ASSUME NEW d \in Clients \ {c} PROVE RequestOK(d)'
  <2>1. RequestOK(d) /\ th'[d] = th[d] /\ (dir' = d <=> dir = d)
    BY <1>5, <1>6 DEF HInv
  <2>2. dir = d /\ Alone(d) => Alone(d)'
    BY <1>1, <1>2, <1>5, <1>6, <2>1 DEF Alone, Path
  <2> QED
    BY <1>2, <2>1, <2>2 DEF RequestOK, Path, Cell, Intent, Settled
<1>11. /\ \A q \in Paths : CellOK(q)'
       /\ \A q \in known' : Settled(q)'
  BY <1>2 DEF HInv, CellOK, Settled
<1> QED
  BY <1>7, <1>9, <1>10, <1>11 DEF HInv

\* A dentry that expires takes nothing from a request.
LEMMA ExpireKeeps ==
    ASSUME HInv, Inv', NEW p \in Paths, Expire(p)
    PROVE  HInv'
<1>1. UNCHANGED <<table, pe, remote, dir, th, gc, ub>> /\ known' \subseteq known
  BY DEF Expire
<1>2. ASSUME NEW d \in Clients PROVE RequestOK(d)'
  <2>1. RequestOK(d) /\ (Alone(d) => Alone(d)')
    BY <1>1 DEF HInv, Alone, Path
  <2> QED
    BY <1>1, <2>1 DEF RequestOK, Path, Cell, Intent, Settled
<1> QED
  BY <1>1, <1>2 DEF HInv, Calm, CellOK, Settled

\* Nothing happens.
LEMMA StutterKeeps ==
    ASSUME HInv, Inv', UNCHANGED vars
    PROVE  HInv'
<1>1. UNCHANGED <<table, pe, remote, known, dir, th, gc, ub>>
  BY DEF vars
<1>2. ASSUME NEW d \in Clients PROVE RequestOK(d)'
  <2>1. RequestOK(d) /\ (Alone(d) => Alone(d)')
    BY <1>1 DEF HInv, Alone, Path
  <2> QED
    BY <1>1, <2>1 DEF RequestOK, Path, Cell, Intent, Settled
<1> QED
  BY <1>1, <1>2 DEF HInv, Calm, CellOK, Settled

\* Steps never taken where nothing is removed.
LEMMA NeverTaken ==
    ASSUME HInv, ~Collects
    PROVE  /\ ~Collect /\ \A k \in Cells : ~Age(k)
           /\ \A c \in Clients : /\ ~OpenNew(c) /\ ~UnlinkRemote(c) /\ ~UnlinkHidden(c)
                                 /\ ~UnlinkTable(c) /\ ~UseAfterFree(c)
<1>1. ~Collect /\ \A k \in Cells : ~Age(k)
  BY DEF HInv, Calm, Collect, GcAt, GcStart, GcCheck, GcLock, GcRemove, GcUseAfterFree,
         GcDone, Age
<1>2. ASSUME NEW c \in Clients
      PROVE  /\ ~OpenNew(c) /\ ~UnlinkRemote(c) /\ ~UnlinkHidden(c)
             /\ ~UnlinkTable(c) /\ ~UseAfterFree(c)
  BY CellOfPath DEF HInv, Calm, At, OpenNew, UnlinkRemote, UnlinkHidden, UnlinkTable, UseAfterFree
<1> QED
  BY <1>1, <1>2

\* Every step of a request.
LEMMA RequestKeeps ==
    ASSUME HInv, Inv', ~Collects, NEW c \in Clients,
           Serve(c) \/ ReadWrite(c) \/ Close(c)
    PROVE  HInv' /\ TouchesOnly(c, Path(c))
BY NeverTaken, GetattrLookupKeeps, GetattrNewKeeps, GetattrDispatchKeeps,
   GetattrAskKeeps, GetattrFillKeeps, GetattrAbsentKeeps, CreateKeeps, OpenLookupKeeps, OpenIncKeeps, OpenCreatKeeps,
   OpenExistingKeeps, OpenGetKeeps, CreateMdKeeps, CreateMknodKeeps, OpenFileKeeps
DEF Serve

\* Every step where nothing is removed.
LEMMA NextHandles ==
    ASSUME NothingRemoved
    PROVE  HInv /\ [Next]_vars => HInv'
<1> SUFFICES ASSUME HInv, [Next]_vars PROVE HInv'
  OBVIOUS
<1>1. Inv' /\ ~Collects /\ "unlink" \notin Intents
  BY NextInv DEF HInv, NothingRemoved
<1>2. ASSUME NEW c \in Clients, Serve(c) \/ ReadWrite(c) \/ Close(c) PROVE HInv'
  BY <1>1, <1>2, RequestKeeps
<1>3. ASSUME NEW c \in Clients, Begin(c) PROVE HInv'
  BY <1>1, <1>3, BeginKeeps
<1> QED
  BY <1>1, <1>2, <1>3, NeverTaken, ExpireKeeps, StutterKeeps DEF Next

\* The mount starts in such a state.
LEMMA InitHandles == Init => HInv
<1> SUFFICES ASSUME Init PROVE HInv
  OBVIOUS
<1>1. Inv
  BY InitInv
<1>2. Calm
  BY ClientsAssumption DEF Init, Calm, Idle
<1>3. \A c \in Clients : RequestOK(c)
  BY DEF Init, RequestOK, Idle
<1> QED
  BY <1>1, <1>2, <1>3 DEF HInv, Init, CellOK

\* While nothing is collected or unlinked and the storage answers, an open file
\* can be used until it is closed: whatever else is looked up, created, opened
\* and closed at the same time, its cell stays in the table, local, with an
\* open descriptor (dfs_open, dfs_create, dfs_release).
THEOREM OpenFilesUsable ==
    ASSUME NothingRemoved, ~Faults
    PROVE  Spec => []HandleUsable
<1>1. HInv => HandleUsable
  <2> SUFFICES ASSUME HInv, NEW c \in Clients, th[c].pc \in OpenFile
               PROVE  IsLive(Cell(c)) /\ My(c).fd # "none" /\ My(c).ondisk = "local"
    BY DEF HandleUsable
  <2>1. th[c].pc \in UsesCell /\ th[c].pc # "idle"
    BY DEF OpenFile, UsesCell
  <2>2. /\ IsLive(Cell(c)) /\ My(c) = pe[table[Path(c)]] /\ table[Path(c)] # NoCell
        /\ RequestOK(c) /\ CellOK(Path(c))
    BY <2>1, CellOfPath, PathOf
  <2> QED
    BY <2>1, <2>2 DEF RequestOK, CellOK
<1> QED
  BY <1>1, InitHandles, NextHandles, PTL DEF Spec

\* While nothing is collected or unlinked, with or without faults of the storage,
\* no request uses a path entry that was freed: dfs_getattr inserts a second cell
\* under no path, and dfs_create finds no metadata to free twice.
THEOREM NothingFreedIsUsed ==
    ASSUME NothingRemoved
    PROVE  Spec => []NoUseAfterFree
<1>1. HInv => NoUseAfterFree
  BY DEF HInv, Calm, NoUseAfterFree
<1> QED
  BY <1>1, InitHandles, NextHandles, PTL DEF Spec

-----------------------------------------------------------------------------
(* Excluded files.                                                          *)

\* What a step must show of its own path for an excluded file to stay local.
LEMMA ExcludedStep ==
    ASSUME HInv, ExcludedOK, NEW c \in Clients, NEW p \in Paths, p = Path(c),
           th[c].pc # "idle", TouchesOnly(c, p),
           p \in Excluded =>
              /\ p \notin remote'
              /\ table'[p] # NoCell /\ pe'[table'[p]].ondisk = "local" =>
                    pe'[table'[p]].exclude \/ th'[c].pc = "create_md"
              /\ th'[c].pc \notin {"upload", "create_mknod"},
           TypeOK'
    PROVE  ExcludedOK'
<1>1. th'[c].pc = "idle" \/ Path(c)' = p
  BY DEF TouchesOnly, Path
<1>2. remote' \intersect Excluded = {}
  BY DEF ExcludedOK, TouchesOnly, TypeOK
<1>3. ASSUME NEW d \in Clients, th'[d].pc \in {"upload", "create_mknod"}
      PROVE  Path(d)' \notin Excluded
  BY <1>1, <1>3 DEF ExcludedOK, TouchesOnly, Path
<1>4. ASSUME NEW q \in Excluded, table'[q] # NoCell, pe'[table'[q]].ondisk = "local",
             ~pe'[table'[q]].exclude
      PROVE  \E d \in Clients : th'[d].pc = "create_md" /\ Path(d)' = q
  <2>1. CASE q = p
    BY <1>1, <1>4, <2>1
  <2>2. CASE q # p
    <3>1. q \in Paths
      BY ModesAssumption
    <3>2. PICK d \in Clients : th[d].pc = "create_md" /\ Path(d) = q
      BY <1>4, <2>2, <3>1 DEF ExcludedOK, TouchesOnly
    <3> QED
      BY <2>2, <3>2 DEF TouchesOnly, Path
  <2> QED
    BY <2>1, <2>2
<1> QED
  BY <1>2, <1>3, <1>4 DEF ExcludedOK

\* A file that is local and excluded is marked, but in the dfs_create of it.
LEMMA MarkedOnceLocal ==
    ASSUME HInv, ExcludedOK, NEW c \in Clients, th[c].pc \notin {"idle", "create_md"},
           Path(c) \in Excluded, table[Path(c)] # NoCell,
           pe[table[Path(c)]].ondisk = "local"
    PROVE  pe[table[Path(c)]].exclude
<1>1. ASSUME NEW d \in Clients, th[d].pc = "create_md", Path(d) = Path(c) PROVE FALSE
  <2>1. Alone(d) /\ d # c
    BY <1>1 DEF HInv, RequestOK
  <2> QED
    BY <1>1, <2>1 DEF Alone
<1> QED
  BY <1>1 DEF ExcludedOK

\* Where a step that is not of dfs_release takes the request.
LEMMA NextPlace ==
    ASSUME TypeOK, NEW c \in Clients,
           \/ GetattrLookup(c) \/ GetattrNew(c) \/ GetattrDispatch(c) \/ GetattrAsk(c)
           \/ GetattrFill(c) \/ GetattrAbsent(c)
           \/ Create(c) \/ OpenLookup(c) \/ OpenInc(c) \/ OpenCreat(c) \/ OpenExisting(c)
           \/ OpenGet(c) \/ ReadWrite(c) \/ Close(c) \/ ReleaseEnd(c)
    PROVE  th'[c].pc \notin {"upload", "create_mknod"}
<1>1. RequestsOK
  BY DEF TypeOK
<1>2. CASE Return(c)
  BY <1>1, <1>2, ReturnEnded DEF Ended
<1>3. ASSUME NEW l \in Locations \ {"upload", "create_mknod"}, NEW k, Go(c, l) \/ GoWith(c, l, k)
      PROVE  th'[c].pc = l
  BY <1>1, <1>3, GoMoved, GoWithMoved DEF Moved
<1>4. {"getattr_new", "getattr_disp", "getattr_ask", "getattr_fill", "getattr_absent", "unlink", "open", "create", "open_inc",
       "open_new", "open_creat", "open_existing", "open_get", "create_md", "held", "release"}
         \subseteq Locations \ {"upload", "create_mknod"}
  BY DEF Locations, UsesCell
<1>5. ReadWrite(c) => UNCHANGED th /\ th[c].pc = "held"
  BY DEF ReadWrite, Uses, At
<1>6. CASE GetattrLookup(c) \/ GetattrNew(c) \/ OpenLookup(c)
  BY <1>3, <1>4, <1>6 DEF GetattrLookup, GetattrNew, OpenLookup
<1>7. CASE GetattrDispatch(c) \/ GetattrAsk(c) \/ GetattrFill(c) \/ GetattrAbsent(c)
  BY <1>2, <1>3, <1>4, <1>7
  DEF GetattrDispatch, GetattrAsk, GetattrFill, GetattrAbsent, Found, NotFound
<1>8. CASE Create(c) \/ OpenInc(c) \/ Close(c) \/ ReleaseEnd(c)
  BY <1>2, <1>3, <1>4, <1>8 DEF Create, OpenInc, Close, ReleaseEnd
<1>9. CASE OpenCreat(c) \/ OpenExisting(c) \/ OpenGet(c)
  BY <1>2, <1>3, <1>4, <1>9
  DEF OpenCreat, OpenExisting, OpenGet, GetFails, GetMatches, GetDownloads, Opened
<1> QED
  BY <1>5, <1>6, <1>7, <1>8, <1>9

\* The cell of an excluded path is not local, or marked, after such a step.
LEMMA MarkKept ==
    ASSUME HInv, ExcludedOK, NEW c \in Clients, NEW p \in Paths, p = Path(c),
           p \in Excluded, th[c].pc # "idle",
           \/ GetattrLookup(c) \/ GetattrNew(c) \/ GetattrDispatch(c) \/ GetattrAsk(c)
           \/ GetattrFill(c) \/ GetattrAbsent(c)
           \/ Create(c) \/ OpenLookup(c) \/ OpenInc(c) \/ OpenCreat(c) \/ OpenExisting(c)
           \/ OpenGet(c) \/ ReadWrite(c) \/ Close(c) \/ ReleaseEnd(c) \/ Release(c)
    PROVE  table'[p] # NoCell /\ pe'[table'[p]].ondisk = "local" =>
              pe'[table'[p]].exclude \/ th'[c].pc = "create_md"
<1>1. /\ TypeOK /\ p \notin remote /\ RequestOK(c) /\ CellOK(p)
      /\ table \in [Paths -> Cells \union {NoCell}]
      /\ th[c].pc # "create_md"
  BY DEF HInv, Inv, TypeOK, ExcludedOK, GetattrLookup, GetattrNew, GetattrDispatch,
     GetattrAsk, GetattrFill, GetattrAbsent, Create, OpenLookup, OpenInc, OpenCreat, OpenExisting, OpenGet, ReadWrite,
     Close, ReleaseEnd, Release, Uses, At
<1>2. table[p] # NoCell /\ pe[table[p]].ondisk = "local" => pe[table[p]].exclude
  BY <1>1, MarkedOnceLocal
<1>3. CASE UNCHANGED <<table, pe>>
  BY <1>2, <1>3
<1>4. th[c].pc \in UsesCell => Cell(c) = table[p] /\ My(c) = pe[table[p]] /\ Cell(c) # NoCell
                               /\ My(c) \in Entry
  BY CellOfPath
<1>5. CASE WritesNothing(c) /\ th[c].pc \in UsesCell /\ UNCHANGED table
  BY <1>2, <1>4, <1>5 DEF WritesNothing, Writes
<1>6. CASE OpenInc(c) \/ ReadWrite(c) \/ ReleaseEnd(c) \/ (Release(c) /\ My(c).fd # "none")
  BY <1>1, <1>5, <1>6, OtherWrites DEF OpenInc, ReadWrite, ReleaseEnd, Release, Uses, At, UsesCell
<1>7. CASE GetattrLookup(c) \/ GetattrDispatch(c) \/ GetattrAsk(c) \/ GetattrAbsent(c)
           \/ Create(c) \/ OpenLookup(c) \/ Close(c) \/ (Release(c) /\ My(c).fd = "none")
  BY <1>3, <1>7 DEF GetattrLookup, GetattrDispatch, GetattrAsk, GetattrAbsent, Create, OpenLookup, Close, Release
<1>8. CASE GetattrNew(c)
  BY <1>1, <1>8 DEF GetattrNew, Insert, NewEntry, Unused
<1>9. CASE GetattrFill(c)
  BY <1>1, <1>9 DEF GetattrFill, Uses, At, RequestOK
<1>10. CASE OpenCreat(c)
  <2>1. /\ th[c].pc \in UsesCell /\ UNCHANGED table /\ Opened(c)
        /\ Writes(c, "rw", "local", My(c).usermd, My(c).exclude)
    BY <1>1, <1>10, CreatWrites DEF OpenCreat, Uses, At, UsesCell
  <2>2. CASE dir = c
    BY <2>2, <2>1, OpenedStep DEF Moved
  <2>3. CASE dir # c
    <3>1. My(c).ondisk = "local"
      BY <1>1, <1>4, <2>1, <2>3 DEF RequestOK, Settled, CellOK, Entry
    <3> QED
      BY <1>2, <1>4, <2>1, <3>1 DEF Writes
  <2> QED
    BY <2>2, <2>3
<1>11. CASE OpenExisting(c)
  <2>1. th[c].pc \in UsesCell /\ UNCHANGED table
    BY <1>11 DEF OpenExisting, Uses, At, UsesCell
  <2>2. CASE My(c).fd = "none"
    BY <1>3, <1>11, <2>2 DEF OpenExisting
  <2>3. CASE My(c).fd # "none"
    <3>1. My(c).ondisk = "local"
      BY <1>1, <1>4, <2>1, <2>3 DEF CellOK, Entry
    <3>2. Writes(c, My(c).fd, "local", My(c).usermd, My(c).exclude)
      BY <1>1, <1>11, <2>3, ExistingWrites
    <3> QED
      BY <1>2, <1>4, <2>1, <3>1, <3>2 DEF Writes
  <2> QED
    BY <2>2, <2>3
<1>12. CASE OpenGet(c)
  <2>1. th[c].pc \in UsesCell /\ UNCHANGED table
    BY <1>12 DEF OpenGet, Uses, At, UsesCell
  <2>2. \E m : Writes(c, "none", My(c).ondisk, m, My(c).exclude)
    BY <1>1, <1>12, GetWrites DEF GetMatches, GetDownloads
  <2> QED
    BY <1>2, <1>4, <2>1, <2>2 DEF Writes
<1> QED
  BY <1>6, <1>7, <1>8, <1>9, <1>10, <1>11, <1>12

\* Every step where nothing is removed keeps excluded files local.
LEMMA NextExcluded ==
    ASSUME NothingRemoved
    PROVE  HInv /\ ExcludedOK /\ [Next]_vars => ExcludedOK'
<1> SUFFICES ASSUME HInv, ExcludedOK, [Next]_vars PROVE ExcludedOK'
  OBVIOUS
<1>1. HInv' /\ Inv' /\ TypeOK' /\ TypeOK /\ ~Collects /\ "unlink" \notin Intents
  BY NextHandles, NextInv DEF HInv, Inv, NothingRemoved
<1>2. ASSUME NEW c \in Clients, Serve(c) \/ ReadWrite(c) \/ Close(c) PROVE ExcludedOK'
  <2>1. th[c].pc # "idle"
    BY <1>2 DEF Serve, ReadWrite, Close, GetattrLookup, GetattrNew, GetattrDispatch, GetattrAsk, GetattrFill, GetattrAbsent,
       Create, OpenLookup, OpenNew, OpenInc, OpenCreat, OpenExisting, OpenGet, CreateMd,
       CreateMknod, Release, Upload, ReleaseEnd, UnlinkRemote, UnlinkHidden, UnlinkTable,
       UseAfterFree, Uses, At, UsesCell
  <2>2. PICK p \in Paths : p = Path(c)
    BY <2>1, PathOf
  <2>3. TouchesOnly(c, p)
    BY <1>1, <1>2, <2>2, RequestKeeps
  <2>4. SUFFICES ASSUME p \in Excluded
                 PROVE  /\ p \notin remote'
                        /\ table'[p] # NoCell /\ pe'[table'[p]].ondisk = "local" =>
                              pe'[table'[p]].exclude \/ th'[c].pc = "create_md"
                        /\ th'[c].pc \notin {"upload", "create_mknod"}
    BY <1>1, <2>1, <2>2, <2>3, ExcludedStep
  <2>5. p \notin remote /\ th[c].pc \notin {"upload", "create_mknod"}
    BY <2>2, <2>4 DEF ExcludedOK
  <2>6. CASE CreateMd(c)
    <3>1. th[c].pc = "create_md" /\ th[c].pc \in UsesCell
      BY <2>6 DEF CreateMd, Uses, At, UsesCell
    <3>2. /\ Cell(c) = table[p] /\ My(c) = pe[table[p]] /\ RequestOK(c) /\ CellOK(p)
          /\ table[p] # NoCell /\ RequestsOK
      BY <2>1, <2>2, <3>1, CellOfPath, PathOf
    <3>3. ~My(c).usermd
      BY <2>2, <3>1, <3>2 DEF RequestOK
    <3>4. \E m : Writes(c, My(c).fd, My(c).ondisk, m, TRUE)
      BY <1>1, <2>2, <2>4, <2>6, <3>3, MdWrites
    <3>5. UNCHANGED <<table, remote>> /\ (Go(c, "held") \/ Return(c))
      BY <2>2, <2>4, <2>6, <3>3 DEF CreateMd, Excludes
    <3>6. th'[c].pc \in {"held", "idle"}
      BY <3>2, <3>5, GoMoved, ReturnEnded DEF Moved, Ended
    <3> QED
      BY <2>5, <3>2, <3>4, <3>5, <3>6 DEF Writes
  <2>7. CASE Release(c)
    <3>1. th[c].pc = "release" /\ th[c].pc \in UsesCell /\ th[c].pc \in OpenFile
      BY <2>7 DEF Release, Uses, At, UsesCell, OpenFile
    <3>2. /\ My(c) = pe[table[p]] /\ RequestOK(c) /\ table[p] # NoCell /\ RequestsOK
      BY <2>1, <2>2, <3>1, CellOfPath, PathOf
    <3>3. My(c).exclude
      BY <2>2, <2>4, <3>1, <3>2, MarkedOnceLocal DEF RequestOK
    <3>4. Go(c, "released") \/ Return(c)
      BY <2>7, <3>3 DEF Release
    <3>5. th'[c].pc \notin {"upload", "create_mknod"}
      BY <3>2, <3>4, GoMoved, ReturnEnded DEF Moved, Ended
    <3> QED
      BY <1>1, <2>1, <2>2, <2>4, <2>5, <2>7, <3>5, MarkKept DEF Release
  <2>8. CASE \/ GetattrLookup(c) \/ GetattrNew(c) \/ GetattrDispatch(c) \/ GetattrAsk(c)
             \/ GetattrFill(c) \/ GetattrAbsent(c)
             \/ Create(c) \/ OpenLookup(c) \/ OpenInc(c) \/ OpenCreat(c) \/ OpenExisting(c)
             \/ OpenGet(c) \/ ReadWrite(c) \/ Close(c) \/ ReleaseEnd(c)
    <3>1. UNCHANGED remote
      BY <2>8 DEF GetattrLookup, GetattrNew, GetattrDispatch, GetattrAsk, GetattrFill, GetattrAbsent, Create, OpenLookup,
         OpenInc, OpenCreat, OpenExisting, OpenGet, ReadWrite, Close, ReleaseEnd
    <3> QED
      BY <1>1, <2>1, <2>2, <2>4, <2>5, <2>8, <3>1, NextPlace, MarkKept
  <2>9. ~CreateMknod(c) /\ ~Upload(c)
    BY <2>5 DEF CreateMknod, Upload, Uses, At
  <2> QED
    BY <1>1, <1>2, <2>6, <2>7, <2>8, <2>9, NeverTaken DEF Serve
<1>3. ASSUME NEW c \in Clients, Begin(c) PROVE ExcludedOK'
  <2>1. th[c].pc = "idle" /\ UNCHANGED <<table, pe, remote>>
    BY <1>3 DEF Begin, At
  <2>2. /\ th'[c].pc \in {"getattr", "unlink", "open"}
        /\ \A d \in Clients \ {c} : th'[d] = th[d]
    BY <1>1, <1>3 DEF Begin, TypeOK, RequestsOK
  <2>3. ASSUME NEW q \in Excluded, NEW d \in Clients, th[d].pc = "create_md", Path(d) = q
        PROVE  \E b \in Clients : th'[b].pc = "create_md" /\ Path(b)' = q
    BY <2>1, <2>2, <2>3 DEF Path
  <2>4. \A d \in Clients : th'[d].pc \in {"upload", "create_mknod"} => Path(d)' \notin Excluded
    BY <2>2 DEF ExcludedOK, Path
  <2> QED
    BY <2>1, <2>3, <2>4 DEF ExcludedOK
<1>4. CASE (\E p \in Paths : Expire(p)) \/ UNCHANGED vars
  <2>1. UNCHANGED <<table, pe, remote, th>>
    BY <1>4 DEF Expire, vars
  <2> QED
    BY <2>1 DEF ExcludedOK, Path
<1> QED
  BY <1>1, <1>2, <1>3, <1>4, NeverTaken DEF Next

\* An excluded file stays in the cache (README, "Filename pattern exclusion"):
\* between the open that makes it local and the release that would upload it,
\* dfs_create sets the flag before any other request can have the file open.
\* Nothing is collected or unlinked, the storage may fail, and the bucket holds
\* no excluded object when it is mounted.
THEOREM ExcludedLocal ==
    ASSUME NothingRemoved, \A R \in FirstRemote : R \intersect Excluded = {}
    PROVE  Spec => []ExcludedStayLocal
<1>1. Init => ExcludedOK
  BY ModesAssumption DEF Init, ExcludedOK, Idle
<1>2. ExcludedOK => ExcludedStayLocal
  BY DEF ExcludedOK, ExcludedStayLocal
<1> QED
  BY <1>1, <1>2, InitHandles, NextHandles, NextExcluded, PTL DEF Spec
=============================================================================
