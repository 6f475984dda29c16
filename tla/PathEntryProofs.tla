--------------------------- MODULE PathEntryProofs --------------------------
(***************************************************************************)
(* What holds of the path entries for any number of paths, clients and     *)
(* cells, with or without faults and collection: the types, the ownership  *)
(* of the cells by the hash table, and the refcount that covers the open   *)
(* files.                                                                  *)
(***************************************************************************)
EXTENDS PathEntry, FiniteSetTheorems, TLAPS

(* Types.  First the building blocks of the actions, then the actions.      *)

\* The values a cell can be given are entries.
LEMMA EntriesTyped == Unused \in Entry /\ NewEntry \in Entry /\ FreedEntry \in Entry
<1>1. Unused \in Entry
  BY DEF Entry, Unused
<1>2. QED
  BY <1>1 DEF Entry, NewEntry, FreedEntry

\* g_hash_table_insert and g_hash_table_remove keep the types of table and pe.
LEMMA InsertOK ==
    ASSUME TypeOK, NEW k \in Cells, NEW p \in Paths, Insert(k, p)
    PROVE  table' \in [Paths -> Cells \union {NoCell}] /\ pe' \in [Cells -> Entry]
BY EntriesTyped DEF Insert, TypeOK

LEMMA RemoveOK ==
    ASSUME TypeOK, NEW p \in Paths, Remove(p)
    PROVE  table' \in [Paths -> Cells \union {NoCell}] /\ pe' \in [Cells -> Entry]
BY EntriesTyped DEF Remove, TypeOK

\* The moves of a request, and the assignment to its cell, keep the types.
LEMMA GoOK ==
    ASSUME RequestsOK, NEW c \in Clients, th[c].pc # "idle",
           NEW l \in Locations \ {"idle"}, Go(c, l)
    PROVE  RequestsOK'
BY DEF RequestsOK, Go, Request

LEMMA GoWithOK ==
    ASSUME RequestsOK, NEW c \in Clients, th[c].pc # "idle",
           NEW l \in Locations \ {"idle"}, NEW k \in Cells \union {NoCell},
           GoWith(c, l, k)
    PROVE  RequestsOK'
BY DEF RequestsOK, GoWith, Request

LEMMA ReturnOK ==
    ASSUME TypeOK, NEW c \in Clients, Return(c)
    PROVE  RequestsOK' /\ dir' \in Clients \union {NoClient}
<1>1. Idle \in Request
  BY DEF Idle, Request, Locations, UsesCell
<1>2. QED
  BY <1>1 DEF TypeOK, RequestsOK, Return, Idle

LEMMA SetCellOK ==
    ASSUME TypeOK, NEW c \in Clients, NEW l, Uses(c, l), NEW e \in Entry, SetCell(c, e)
    PROVE  pe' \in [Cells -> Entry]
BY DEF TypeOK, SetCell, Uses, IsLive

\* The cell a request uses is an entry, and its path is a path.
LEMMA UsesTyped ==
    ASSUME TypeOK, NEW c \in Clients, NEW l, l # "idle", Uses(c, l)
    PROVE  My(c) \in Entry /\ Cell(c) \in Cells /\ Path(c) \in Paths /\ th[c].pc # "idle"
BY DEF TypeOK, RequestsOK, Uses, At, IsLive, My, Path

\* Every location but "idle" is one a request can go to.
LEMMA LocationsTyped ==
    {"getattr_disp", "getattr_ask", "getattr_fill", "getattr_absent", "open_inc",
     "open_creat", "open_existing", "open_get", "create_md", "held", "release", "upload", "released", "getattr",
     "getattr_new", "create", "open", "open_new", "create_mknod", "unlink",
     "unlink_table"} \subseteq Locations \ {"idle"}
BY DEF Locations, UsesCell

\* The answer of dfs_getattr to the kernel keeps the types.
LEMMA FoundOK ==
    ASSUME TypeOK, NEW c \in Clients, th[c].pc # "idle", Found(c)
    PROVE  RequestsOK' /\ dir' \in Clients \union {NoClient} /\ known' \subseteq Paths
<1>1. Path(c) \in Paths
  BY DEF TypeOK, RequestsOK, Path
<1>2. known' \subseteq Paths
  BY <1>1 DEF Found, TypeOK
<1>3. CASE Intent(c) = "stat"
  BY <1>2, <1>3, ReturnOK DEF Found
<1>4. CASE Intent(c) = "unlink"
  BY <1>2, <1>4, GoWithOK, LocationsTyped DEF Found, TypeOK
<1>5. CASE Intent(c) \notin {"stat", "unlink"}
  BY <1>2, <1>5, GoWithOK, LocationsTyped DEF Found, TypeOK
<1>6. QED
  BY <1>3, <1>4, <1>5

LEMMA NotFoundOK ==
    ASSUME TypeOK, NEW c \in Clients, th[c].pc # "idle", NotFound(c)
    PROVE  RequestsOK' /\ dir' \in Clients \union {NoClient} /\ known' \subseteq Paths
<1>1. CASE GoWith(c, "create", NoCell) /\ UNCHANGED dir
  BY <1>1, GoWithOK, LocationsTyped DEF NotFound, TypeOK
<1>2. CASE Return(c)
  BY <1>2, ReturnOK DEF NotFound, TypeOK
<1>3. QED
  BY <1>1, <1>2 DEF NotFound

\* dfs_open returns 0, or dfs_get_local_copy fails or not, with types kept.
LEMMA OpenedOK ==
    ASSUME TypeOK, NEW c \in Clients, th[c].pc # "idle", Opened(c)
    PROVE  RequestsOK' /\ dir' \in Clients \union {NoClient}
BY GoOK, LocationsTyped DEF Opened, TypeOK

LEMMA OpenGetOK ==
    ASSUME TypeOK, NEW c \in Clients, OpenGet(c)
    PROVE  TypeOK'
<1>1. Uses(c, "open_get") /\ My(c) \in Entry /\ th[c].pc # "idle"
  BY UsesTyped DEF OpenGet
<1>2. CASE GetFails(c)
  <2>1. PICK md \in {My(c).usermd, Path(c) \in remote} :
           SetCell(c, [My(c) EXCEPT !.fd = "none", !.usermd = @ \/ md])
    BY <1>2 DEF GetFails
  <2>2. (My(c).usermd \/ md) \in BOOLEAN
    OBVIOUS
  <2>3. [My(c) EXCEPT !.fd = "none", !.usermd = @ \/ md] \in Entry
    BY <1>1, <2>2 DEF Entry
  <2>4. pe' \in [Cells -> Entry]
    BY <1>1, <2>1, <2>3, SetCellOK
  <2>5. Return(c)
    BY <1>2 DEF GetFails
  <2>6. RequestsOK' /\ dir' \in Clients \union {NoClient}
    BY <2>5, ReturnOK
  <2>7. QED
    BY <2>4, <2>6 DEF OpenGet, TypeOK, CollectorOK
<1>3. CASE GetMatches(c)
  <2>1. [My(c) EXCEPT !.usermd = TRUE] \in Entry
    BY <1>1 DEF Entry
  <2>2. pe' \in [Cells -> Entry]
    BY <1>1, <1>3, <2>1, SetCellOK DEF GetMatches
  <2>3. RequestsOK' /\ dir' \in Clients \union {NoClient}
    BY <1>1, <1>3, ReturnOK, OpenedOK DEF GetMatches
  <2>4. QED
    BY <2>2, <2>3 DEF OpenGet, TypeOK, CollectorOK
<1>4. CASE GetDownloads(c)
  <2> DEFINE f == IF Intent(c) = "read" THEN "r" ELSE "rw"
  <2>1. f \in {"none", "r", "rw"} /\ 0 \in 0..2
    OBVIOUS
  <2> HIDE DEF f
  <2>2. [My(c) EXCEPT !.fd = f, !.usermd = TRUE, !.ondisk = "local", !.age = 0] \in Entry
    BY <1>1, <2>1 DEF Entry
  <2>3. SetCell(c, [My(c) EXCEPT !.fd = f, !.usermd = TRUE, !.ondisk = "local", !.age = 0])
    BY <1>4 DEF GetDownloads, f
  <2>4. pe' \in [Cells -> Entry]
    BY <1>1, <2>2, <2>3, SetCellOK
  <2>5. QED
    BY <1>1, <1>4, <2>4, OpenedOK DEF GetDownloads, OpenGet, TypeOK, CollectorOK
<1>5. QED
  BY <1>2, <1>3, <1>4 DEF OpenGet

LEMMA CreateMdOK ==
    ASSUME TypeOK, NEW c \in Clients, CreateMd(c)
    PROVE  TypeOK'
<1> DEFINE ex == Excludes(Path(c))
<1>1. Uses(c, "create_md") /\ My(c) \in Entry /\ Path(c) \in Paths /\ th[c].pc # "idle"
  BY UsesTyped DEF CreateMd
<1>2. ex \in BOOLEAN
  BY DEF Excludes
<1>3. CASE My(c).fd = "none"
  <2>1. [My(c) EXCEPT !.exclude = ex] \in Entry
    BY <1>1, <1>2 DEF Entry
  <2>2. SetCell(c, [My(c) EXCEPT !.exclude = ex])
    BY <1>3 DEF CreateMd
  <2>3. pe' \in [Cells -> Entry]
    BY <1>1, <2>1, <2>2, SetCellOK
  <2>4. QED
    BY <1>3, <2>3, ReturnOK DEF CreateMd, TypeOK, CollectorOK
<1>4. CASE My(c).fd # "none" /\ My(c).usermd
  BY <1>4 DEF CreateMd, TypeOK, CollectorOK, RequestsOK
<1>5. CASE My(c).fd # "none" /\ ~My(c).usermd
  <2>1. [My(c) EXCEPT !.exclude = ex, !.usermd = TRUE] \in Entry
    BY <1>1, <1>2 DEF Entry
  <2>2. SetCell(c, [My(c) EXCEPT !.exclude = ex, !.usermd = TRUE])
    BY <1>5 DEF CreateMd
  <2>3. pe' \in [Cells -> Entry]
    BY <1>1, <2>1, <2>2, SetCellOK
  <2>4. RequestsOK'
    BY <1>1, <1>5, GoOK, LocationsTyped DEF CreateMd, TypeOK
  <2>5. dir' \in Clients \union {NoClient} /\ known' \subseteq Paths
    BY <1>1, <1>5 DEF CreateMd, TypeOK
  <2>6. QED
    BY <1>5, <2>3, <2>4, <2>5 DEF CreateMd, TypeOK, CollectorOK
<1>6. QED
  BY <1>3, <1>4, <1>5

\* dfs_release.
LEMMA ReleaseOK ==
    ASSUME TypeOK, NEW c \in Clients, Release(c)
    PROVE  TypeOK'
<1>1. Uses(c, "release") /\ My(c) \in Entry /\ th[c].pc # "idle"
  BY UsesTyped DEF Release
<1>2. CASE My(c).fd = "none"
  <2>1. RequestsOK'
    BY <1>1, <1>2, GoOK, LocationsTyped DEF Release, TypeOK
  <2>2. QED
    BY <1>2, <2>1 DEF Release, TypeOK, CollectorOK
<1>3. CASE My(c).fd # "none"
  <2>1. /\ My(c).refcount > 0
        /\ SetCell(c, [My(c) EXCEPT !.refcount = @ - 1])
    BY <1>3 DEF Release
  <2>2. My(c).refcount - 1 \in Nat
    BY <1>1, <2>1 DEF Entry
  <2>3. [My(c) EXCEPT !.refcount = @ - 1] \in Entry
    BY <1>1, <2>2 DEF Entry
  <2>4. pe' \in [Cells -> Entry]
    BY <1>1, <2>1, <2>3, SetCellOK
  <2>5. CASE Intent(c) = "read"
    <3>1. RequestsOK' /\ dir' \in Clients \union {NoClient}
      BY <1>3, <2>5, ReturnOK DEF Release
    <3>2. QED
      BY <2>4, <3>1 DEF Release, TypeOK, CollectorOK
  <2>6. CASE Intent(c) # "read"
    <3>1. RequestsOK' /\ dir' \in Clients \union {NoClient}
      BY <1>1, <1>3, <2>6, GoOK, LocationsTyped DEF Release, TypeOK
    <3>2. QED
      BY <2>4, <3>1 DEF Release, TypeOK, CollectorOK
  <2>7. QED
    BY <2>5, <2>6
<1>4. QED
  BY <1>2, <1>3

\* One step of the thread of a request keeps the types.
LEMMA ServeOK ==
    ASSUME TypeOK, NEW c \in Clients, Serve(c)
    PROVE  TypeOK'
<1>0. th[c].pc # "idle" => Path(c) \in Paths
  BY DEF TypeOK, RequestsOK, Path
<1>1. CASE GetattrLookup(c)
  <2>1. th[c].pc # "idle" /\ table[Path(c)] \in Cells \union {NoCell}
    BY <1>0, <1>1 DEF GetattrLookup, At, TypeOK
  <2>2. RequestsOK'
    BY <1>1, <2>1, GoWithOK, LocationsTyped DEF GetattrLookup, TypeOK
  <2>3. QED
    BY <1>1, <2>2 DEF GetattrLookup, TypeOK, CollectorOK
<1>2. CASE GetattrNew(c)
  <2>1. PICK k \in Cells : Insert(k, Path(c)) /\ GoWith(c, "getattr_disp", k)
    BY <1>2 DEF GetattrNew
  <2>2. th[c].pc # "idle"
    BY <1>2 DEF GetattrNew, At
  <2>3. RequestsOK'
    BY <2>1, <2>2, GoWithOK, LocationsTyped DEF TypeOK
  <2>4. table' \in [Paths -> Cells \union {NoCell}] /\ pe' \in [Cells -> Entry]
    BY <1>0, <2>1, <2>2, InsertOK
  <2>5. QED
    BY <1>2, <2>3, <2>4 DEF GetattrNew, TypeOK, CollectorOK
<1>3. CASE GetattrDispatch(c)
  <2>1. th[c].pc # "idle"
    BY <1>3 DEF GetattrDispatch, Uses, At
  <2>2. RequestsOK' /\ dir' \in Clients \union {NoClient} /\ known' \subseteq Paths
    <3>1. \/ Found(c)
          \/ Return(c) /\ UNCHANGED known
          \/ Go(c, "getattr_ask") /\ UNCHANGED <<known, dir>>
      BY <1>3 DEF GetattrDispatch
    <3>2. CASE Found(c)
      BY <2>1, <3>2, FoundOK
    <3>3. CASE Return(c) /\ UNCHANGED known
      BY <3>3, ReturnOK DEF TypeOK
    <3>4. CASE Go(c, "getattr_ask") /\ UNCHANGED <<known, dir>>
      BY <2>1, <3>4, GoOK, LocationsTyped DEF TypeOK
    <3>5. QED
      BY <3>1, <3>2, <3>3, <3>4
  <2>3. QED
    BY <1>3, <2>2 DEF GetattrDispatch, TypeOK, CollectorOK
<1>4. CASE GetattrFill(c)
  <2>1. Uses(c, "getattr_fill") /\ My(c) \in Entry /\ th[c].pc # "idle"
    BY <1>4, UsesTyped DEF GetattrFill
  <2>2. [My(c) EXCEPT !.usermd = TRUE, !.ondisk = "remote"] \in Entry
    BY <2>1 DEF Entry
  <2>3. pe' \in [Cells -> Entry]
    BY <1>4, <2>1, <2>2, SetCellOK DEF GetattrFill
  <2>4. RequestsOK' /\ dir' \in Clients \union {NoClient} /\ known' \subseteq Paths
    BY <1>4, <2>1, FoundOK DEF GetattrFill
  <2>5. QED
    BY <1>4, <2>3, <2>4 DEF GetattrFill, TypeOK, CollectorOK
<1>21. CASE GetattrAsk(c)
  <2>1. th[c].pc # "idle"
    BY <1>21 DEF GetattrAsk, Uses, At
  <2>2. RequestsOK' /\ dir' \in Clients \union {NoClient}
    BY <1>21, <2>1, ReturnOK, GoOK, LocationsTyped DEF GetattrAsk, TypeOK
  <2>3. QED
    BY <1>21, <2>2 DEF GetattrAsk, TypeOK, CollectorOK
<1>22. CASE GetattrAbsent(c)
  <2>1. th[c].pc # "idle"
    BY <1>22 DEF GetattrAbsent, Uses, At
  <2>2. RequestsOK' /\ dir' \in Clients \union {NoClient} /\ known' \subseteq Paths
    BY <1>22, <2>1, NotFoundOK DEF GetattrAbsent
  <2>3. QED
    BY <1>22, <2>2 DEF GetattrAbsent, TypeOK, CollectorOK
<1>5. CASE Create(c)
  <2>1. RequestsOK' /\ dir' \in Clients \union {NoClient}
    BY <1>5, ReturnOK, GoOK, LocationsTyped DEF Create, At, TypeOK
  <2>2. QED
    BY <1>5, <2>1 DEF Create, TypeOK, CollectorOK
<1>6. CASE OpenLookup(c)
  <2>1. th[c].pc # "idle" /\ table[Path(c)] \in Cells \union {NoCell}
    BY <1>0, <1>6 DEF OpenLookup, At, TypeOK
  <2>2. RequestsOK'
    BY <1>6, <2>1, GoWithOK, LocationsTyped DEF OpenLookup, TypeOK
  <2>3. QED
    BY <1>6, <2>2 DEF OpenLookup, TypeOK, CollectorOK
<1>7. CASE OpenNew(c)
  <2>1. PICK k \in Cells : Insert(k, Path(c)) /\ GoWith(c, "open_inc", k)
    BY <1>7 DEF OpenNew
  <2>2. th[c].pc # "idle"
    BY <1>7 DEF OpenNew, At
  <2>3. RequestsOK'
    BY <2>1, <2>2, GoWithOK, LocationsTyped DEF TypeOK
  <2>4. table' \in [Paths -> Cells \union {NoCell}] /\ pe' \in [Cells -> Entry]
    BY <1>0, <2>1, <2>2, InsertOK
  <2>5. QED
    BY <1>7, <2>3, <2>4 DEF OpenNew, TypeOK, CollectorOK
<1>8. CASE OpenInc(c)
  <2>1. Uses(c, "open_inc") /\ My(c) \in Entry /\ th[c].pc # "idle"
    BY <1>8, UsesTyped DEF OpenInc
  <2>2. [My(c) EXCEPT !.refcount = @ + 1] \in Entry
    BY <2>1 DEF Entry
  <2>3. pe' \in [Cells -> Entry]
    BY <1>8, <2>1, <2>2, SetCellOK DEF OpenInc
  <2>4. RequestsOK'
    BY <1>8, <2>1, GoOK, LocationsTyped DEF OpenInc, TypeOK
  <2>5. QED
    BY <1>8, <2>3, <2>4 DEF OpenInc, TypeOK, CollectorOK
<1>9. CASE OpenCreat(c)
  <2>1. Uses(c, "open_creat") /\ My(c) \in Entry /\ th[c].pc # "idle"
    BY <1>9, UsesTyped DEF OpenCreat
  <2>2. PICK a \in {0, My(c).age} :
           SetCell(c, [My(c) EXCEPT !.fd = "rw", !.ondisk = "local", !.age = a])
    BY <1>9 DEF OpenCreat
  <2>3. a \in 0..2
    BY <2>1 DEF Entry
  <2>4. [My(c) EXCEPT !.fd = "rw", !.ondisk = "local", !.age = a] \in Entry
    BY <2>1, <2>3 DEF Entry
  <2>5. pe' \in [Cells -> Entry]
    BY <2>1, <2>2, <2>4, SetCellOK
  <2>6. RequestsOK' /\ dir' \in Clients \union {NoClient}
    BY <1>9, <2>1, OpenedOK DEF OpenCreat
  <2>7. QED
    BY <1>9, <2>5, <2>6 DEF OpenCreat, TypeOK, CollectorOK
<1>10. CASE OpenExisting(c)
  <2>1. Uses(c, "open_existing") /\ My(c) \in Entry /\ th[c].pc # "idle"
    BY <1>10, UsesTyped DEF OpenExisting
  <2>2. [My(c) EXCEPT !.ondisk = "local"] \in Entry
    BY <2>1 DEF Entry
  <2>3. pe' \in [Cells -> Entry]
    BY <1>10, <2>1, <2>2, SetCellOK DEF OpenExisting, TypeOK
  <2>4. RequestsOK' /\ dir' \in Clients \union {NoClient}
    BY <1>10, <2>1, OpenedOK, GoOK, LocationsTyped DEF OpenExisting, TypeOK
  <2>5. QED
    BY <1>10, <2>3, <2>4 DEF OpenExisting, TypeOK, CollectorOK
<1>11. CASE OpenGet(c)
  BY <1>11, OpenGetOK
<1>12. CASE CreateMd(c)
  BY <1>12, CreateMdOK
<1>13. CASE CreateMknod(c)
  <2>1. RequestsOK' /\ dir' \in Clients \union {NoClient}
    BY <1>13, ReturnOK, GoOK, LocationsTyped DEF CreateMknod, At, TypeOK
  <2>2. remote' \subseteq Paths /\ known' \subseteq Paths
    BY <1>0, <1>13 DEF CreateMknod, At, TypeOK
  <2>3. QED
    BY <1>13, <2>1, <2>2 DEF CreateMknod, TypeOK, CollectorOK
<1>14. CASE Release(c)
  BY <1>14, ReleaseOK
<1>15. CASE Upload(c)
  <2>1. Uses(c, "upload") /\ My(c) \in Entry /\ th[c].pc # "idle"
    BY <1>15, UsesTyped DEF Upload
  <2>2. PICK a \in {0, My(c).age} : SetCell(c, [My(c) EXCEPT !.age = a])
    BY <1>15 DEF Upload
  <2>3. a \in 0..2
    BY <2>1 DEF Entry
  <2>4. [My(c) EXCEPT !.age = a] \in Entry
    BY <2>1, <2>3 DEF Entry
  <2>5. pe' \in [Cells -> Entry]
    BY <2>1, <2>2, <2>4, SetCellOK
  <2>6. RequestsOK' /\ remote' \subseteq Paths
    BY <1>0, <1>15, <2>1, GoOK, LocationsTyped DEF Upload, TypeOK
  <2>7. QED
    BY <1>15, <2>5, <2>6 DEF Upload, TypeOK, CollectorOK
<1>16. CASE ReleaseEnd(c)
  <2>1. Uses(c, "released") /\ My(c) \in Entry /\ th[c].pc # "idle"
    BY <1>16, UsesTyped DEF ReleaseEnd
  <2>2. [My(c) EXCEPT !.locked = FALSE] \in Entry
    BY <2>1 DEF Entry
  <2>3. pe' \in [Cells -> Entry]
    BY <1>16, <2>1, <2>2, SetCellOK DEF ReleaseEnd
  <2>4. RequestsOK' /\ dir' \in Clients \union {NoClient}
    BY <1>16, ReturnOK DEF ReleaseEnd
  <2>5. QED
    BY <1>16, <2>3, <2>4 DEF ReleaseEnd, TypeOK, CollectorOK
<1>17. CASE UnlinkRemote(c)
  <2>1. RequestsOK' /\ dir' \in Clients \union {NoClient}
    BY <1>17, ReturnOK, GoOK, LocationsTyped DEF UnlinkRemote, At, TypeOK
  <2>2. remote' \subseteq Paths
    BY <1>17 DEF UnlinkRemote, TypeOK
  <2>3. QED
    BY <1>17, <2>1, <2>2 DEF UnlinkRemote, TypeOK, CollectorOK
<1>18. CASE UnlinkHidden(c)
  <2>1. RequestsOK' /\ dir' \in Clients \union {NoClient}
    BY <1>18, ReturnOK DEF UnlinkHidden
  <2>2. QED
    BY <1>18, <2>1 DEF UnlinkHidden, TypeOK, CollectorOK
<1>19. CASE UnlinkTable(c)
  <2>1. RequestsOK' /\ dir' \in Clients \union {NoClient}
    BY <1>19, ReturnOK DEF UnlinkTable
  <2>2. table' \in [Paths -> Cells \union {NoCell}] /\ pe' \in [Cells -> Entry]
    BY <1>0, <1>19, RemoveOK DEF UnlinkTable, At
  <2>3. QED
    BY <1>19, <2>1, <2>2 DEF UnlinkTable, TypeOK, CollectorOK
<1>20. CASE UseAfterFree(c)
  BY <1>20 DEF UseAfterFree, TypeOK, RequestsOK, CollectorOK
<1>23. QED
  BY <1>1, <1>2, <1>3, <1>4, <1>5, <1>6, <1>7, <1>8, <1>9, <1>10, <1>11, <1>12,
     <1>13, <1>14, <1>15, <1>16, <1>17, <1>18, <1>19, <1>20, <1>21, <1>22 DEF Serve

\* One step of the collector keeps the types.
LEMMA CollectOK ==
    ASSUME TypeOK, Collect
    PROVE  TypeOK'
<1>1. CASE GcStart
  <2>1. CollectorOK'
    BY <1>1 DEF GcStart, TypeOK, CollectorOK, Collector
  <2>2. QED
    BY <1>1, <2>1 DEF GcStart, TypeOK, RequestsOK
<1>2. ASSUME NEW p \in Paths, GcCheck(p)
      PROVE  TypeOK'
  <2>1. CollectorOK'
    BY <1>2 DEF GcCheck, TypeOK, CollectorOK, Collector
  <2>2. QED
    BY <1>2, <2>1 DEF GcCheck, TypeOK, RequestsOK
<1>3. CASE GcLock
  <2>1. gc.cell \in Cells /\ pe[gc.cell] \in Entry
    BY <1>3 DEF GcLock, IsLive, TypeOK
  <2>2. [pe[gc.cell] EXCEPT !.locked = TRUE] \in Entry
    BY <2>1 DEF Entry
  <2>3. pe' \in [Cells -> Entry]
    BY <1>3, <2>1, <2>2 DEF GcLock, TypeOK
  <2>4. CollectorOK'
    BY <1>3 DEF GcLock, GcAt, TypeOK, CollectorOK, Collector
  <2>5. QED
    BY <1>3, <2>3, <2>4 DEF GcLock, TypeOK, RequestsOK
<1>4. CASE GcRemove
  <2>1. gc.path \in Paths
    BY <1>4 DEF GcRemove, GcAt, TypeOK, CollectorOK
  <2>2. table' \in [Paths -> Cells \union {NoCell}] /\ pe' \in [Cells -> Entry]
    BY <1>4, <2>1, RemoveOK DEF GcRemove
  <2>3. CollectorOK'
    BY <1>4 DEF GcRemove, TypeOK, CollectorOK, Collector
  <2>4. QED
    BY <1>4, <2>2, <2>3 DEF GcRemove, TypeOK, RequestsOK
<1>5. CASE GcUseAfterFree
  BY <1>5 DEF GcUseAfterFree, TypeOK, RequestsOK, CollectorOK
<1>6. CASE GcDone
  <2>1. CollectorOK'
    BY <1>6 DEF GcDone, TypeOK, CollectorOK, Collector
  <2>2. QED
    BY <1>6, <2>1 DEF GcDone, TypeOK, RequestsOK
<1>7. QED
  BY <1>1, <1>2, <1>3, <1>4, <1>5, <1>6 DEF Collect

\* Every step keeps the types.
LEMMA NextType == TypeOK /\ [Next]_vars => TypeOK'
<1> SUFFICES ASSUME TypeOK, [Next]_vars
             PROVE  TypeOK'
  OBVIOUS
<1>1. ASSUME NEW c \in Clients, Begin(c)
      PROVE  TypeOK'
  <2>1. PICK p \in Paths, i \in Intents :
           th' = [th EXCEPT ![c] =
                    [pc     |-> CASE p \notin known \/ i = "stat" -> "getattr"
                                  [] p \in known /\ i = "unlink" -> "unlink"
                                  [] OTHER -> "open",
                     path   |-> p,
                     intent |-> i,
                     cell   |-> NoCell]]
    BY <1>1 DEF Begin
  <2> DEFINE l == CASE p \notin known \/ i = "stat" -> "getattr"
                    [] p \in known /\ i = "unlink" -> "unlink"
                    [] OTHER -> "open"
  <2>2. l \in Locations \ {"idle"}
    BY LocationsTyped
  <2>3. i \in AllIntents
    BY ModesAssumption
  <2> HIDE DEF l
  <2>4. RequestsOK'
    BY <2>1, <2>2, <2>3 DEF RequestsOK, Request, TypeOK, l
  <2>5. dir' \in Clients \union {NoClient}
    BY <1>1 DEF Begin, TypeOK
  <2>6. QED
    BY <1>1, <2>4, <2>5 DEF Begin, TypeOK, CollectorOK
<1>2. ASSUME NEW c \in Clients, ReadWrite(c)
      PROVE  TypeOK'
  <2>1. Uses(c, "held") /\ My(c) \in Entry
    BY <1>2, UsesTyped DEF ReadWrite
  <2>2. PICK a \in {0, My(c).age} : SetCell(c, [My(c) EXCEPT !.age = a])
    BY <1>2 DEF ReadWrite
  <2>3. [My(c) EXCEPT !.age = a] \in Entry
    BY <2>1 DEF Entry
  <2>4. pe' \in [Cells -> Entry]
    BY <2>1, <2>2, <2>3, SetCellOK
  <2>5. QED
    BY <1>2, <2>4 DEF ReadWrite, TypeOK, RequestsOK, CollectorOK
<1>3. ASSUME NEW c \in Clients, Close(c)
      PROVE  TypeOK'
  <2>1. RequestsOK'
    BY <1>3, GoOK, LocationsTyped DEF Close, At, TypeOK
  <2>2. QED
    BY <1>3, <2>1 DEF Close, TypeOK, CollectorOK
<1>4. ASSUME NEW p \in Paths, Expire(p)
      PROVE  TypeOK'
  BY <1>4 DEF Expire, TypeOK, RequestsOK, CollectorOK
<1>5. ASSUME NEW k \in Cells, Age(k)
      PROVE  TypeOK'
  <2>1. pe[k] \in Entry /\ pe[k].age + 1 \in 0..2
    BY <1>5 DEF Age, TypeOK, Entry
  <2>2. [pe[k] EXCEPT !.age = @ + 1] \in Entry
    BY <2>1 DEF Entry
  <2>3. pe' \in [Cells -> Entry]
    BY <1>5, <2>2 DEF Age, TypeOK
  <2>4. QED
    BY <1>5, <2>3 DEF Age, TypeOK, RequestsOK, CollectorOK
<1>6. CASE UNCHANGED vars
  BY <1>6 DEF vars, TypeOK, RequestsOK, CollectorOK
<1>7. QED
  BY <1>1, <1>2, <1>3, <1>4, <1>5, <1>6, ServeOK, CollectOK DEF Next

LEMMA InitType == Init => TypeOK
<1> SUFFICES ASSUME Init
             PROVE  TypeOK
  OBVIOUS
<1>1. RequestsOK
  BY DEF Init, RequestsOK, Request, Idle, Locations, UsesCell
<1>2. CollectorOK
  BY DEF Init, CollectorOK, Collector
<1>3. remote \subseteq Paths
  BY ModesAssumption DEF Init
<1>4. QED
  BY <1>1, <1>2, <1>3, EntriesTyped DEF Init, TypeOK

\* Types: every variable keeps its type in every behaviour of the mount; in
\* particular no refcount is ever decremented below zero.
THEOREM TypeCorrect == Spec => []TypeOK
BY InitType, NextType, PTL DEF Spec

-----------------------------------------------------------------------------
(* Ownership and counting.  TableOwnsCells, HandleOnItsPath and             *)
(* RefcountCoversHandles are not inductive alone: a cell that was never     *)
(* allocated must not be one a request holds, or the next malloc would give *)
(* a live cell to a request that never looked it up.                        *)

HeldWereAllocated ==
    \A c \in Clients : Cell(c) \in Cells => pe[Cell(c)].mem # "unused"

Inv == /\ TypeOK
       /\ HeldWereAllocated
       /\ TableOwnsCells
       /\ HandleOnItsPath
       /\ RefcountCoversHandles

(* What a step can do to the cells, to the refcounts and to the requests.   *)

CellsKept  == UNCHANGED table /\ \A k \in Cells : pe'[k].mem = pe[k].mem
Inserted   == \E k \in Cells, p \in Paths : Insert(k, p)
Removed    == \E p \in Paths : Remove(p)
CountsKept == \A k \in Cells : pe'[k].refcount >= pe[k].refcount

\* A request keeps its cell and its path, drops its cell, or takes the cell
\* its path has.
Moves == \A c \in Clients :
            \/ th'[c].cell = NoCell
            \/ /\ th'[c].path = th[c].path
               /\ \/ th'[c].cell = th[c].cell
                  \/ th[c].path \in Paths /\ th'[c].cell = table'[th[c].path]

NoNewHolder == \A c \in Clients :
                  th'[c].pc \in Counted
                     => th[c].pc \in Counted /\ th'[c].cell = th[c].cell

\* The table still owns the cells after a step of any of these forms.
LEMMA OwnsStep ==
    ASSUME Inv, CellsKept \/ Inserted \/ Removed
    PROVE  TableOwnsCells'
<1>1. CASE CellsKept
  BY <1>1 DEF Inv, CellsKept, TableOwnsCells, IsLive
<1>2. ASSUME NEW k \in Cells, NEW p \in Paths, Insert(k, p)
      PROVE  TableOwnsCells'
  <2>1. /\ table' = [table EXCEPT ![p] = k]
        /\ \A j \in Cells : pe'[j].mem = IF j = k THEN "live"
                                        ELSE IF j = table[p] THEN "freed" ELSE pe[j].mem
    BY <1>2 DEF Insert, NewEntry, FreedEntry, Unused
  <2>2. table \in [Paths -> Cells \union {NoCell}] /\ NoCell \notin Cells
    BY CellsAssumption DEF Inv, TypeOK
  <2>3. \A q \in Paths : table[q] # k
    BY <1>2, <2>2 DEF Insert, Inv, TableOwnsCells, IsLive
  <2>4. QED
    BY <2>1, <2>2, <2>3 DEF Inv, TableOwnsCells, IsLive
<1>3. ASSUME NEW p \in Paths, Remove(p)
      PROVE  TableOwnsCells'
  <2>1. /\ table' = [table EXCEPT ![p] = NoCell]
        /\ \A j \in Cells : pe'[j].mem = IF j = table[p] THEN "freed" ELSE pe[j].mem
    BY <1>3 DEF Remove, FreedEntry, Unused
  <2>2. table \in [Paths -> Cells \union {NoCell}] /\ NoCell \notin Cells
    BY CellsAssumption DEF Inv, TypeOK
  <2>3. QED
    BY <2>1, <2>2 DEF Inv, TableOwnsCells, IsLive
<1>4. QED
  BY <1>1, <1>2, <1>3 DEF Inserted, Removed

\* A handle still is on its path, and on a cell that was allocated.
LEMMA HandlesStep ==
    ASSUME Inv, CellsKept \/ Inserted \/ Removed, Moves, TypeOK'
    PROVE  HandleOnItsPath' /\ HeldWereAllocated'
<1> USE CellsAssumption
<1>0. TableOwnsCells'
  BY OwnsStep
<1>1. \A k \in Cells : pe'[k].mem = "unused" => pe[k].mem = "unused"
  BY DEF CellsKept, Inserted, Removed, Insert, Remove, NewEntry, FreedEntry, Unused
<1>2. ASSUME NEW c \in Clients, th'[c].cell \in Cells
      PROVE  /\ pe'[th'[c].cell].mem # "unused"
             /\ pe'[th'[c].cell].mem = "live" => table'[th'[c].path] = th'[c].cell
  <2>1. CASE th[c].path \in Paths /\ th'[c].path = th[c].path
                /\ th'[c].cell = table'[th[c].path]
    BY <1>0, <1>2, <2>1 DEF TableOwnsCells, IsLive
  <2>2. CASE th'[c].path = th[c].path /\ th'[c].cell = th[c].cell
    <3> DEFINE k == th[c].cell
    <3>1. k \in Cells /\ pe[k].mem # "unused" /\ (pe[k].mem = "live" => table[th[c].path] = k)
      BY <1>2, <2>2 DEF Inv, HeldWereAllocated, HandleOnItsPath, IsLive, Cell, Path
    <3>2. th[c].path \in Paths
      BY <3>1 DEF Inv, TypeOK, RequestsOK
    <3>3. pe'[k].mem = "live" => pe[k].mem = "live" /\ table'[th[c].path] = table[th[c].path]
      <4>1. CASE CellsKept
        BY <3>1, <4>1 DEF CellsKept
      <4>2. ASSUME NEW j \in Cells, NEW p \in Paths, Insert(j, p), pe'[k].mem = "live"
            PROVE  pe[k].mem = "live" /\ table'[th[c].path] = table[th[c].path]
        <5>1. k # j
          BY <3>1, <4>2 DEF Insert
        <5>2. k # table[p] /\ pe'[k] = pe[k]
          BY <3>1, <4>2, <5>1 DEF Insert, FreedEntry, Unused
        <5>3. QED
          BY <3>1, <3>2, <4>2, <5>2 DEF Insert, Inv, TypeOK
      <4>3. ASSUME NEW p \in Paths, Remove(p), pe'[k].mem = "live"
            PROVE  pe[k].mem = "live" /\ table'[th[c].path] = table[th[c].path]
        <5>1. k # table[p] /\ pe'[k] = pe[k]
          BY <3>1, <4>3 DEF Remove, FreedEntry, Unused
        <5>2. QED
          BY <3>1, <3>2, <4>3, <5>1 DEF Remove, Inv, TypeOK
      <4>4. QED
        BY <4>1, <4>2, <4>3 DEF Inserted, Removed
    <3>4. QED
      BY <1>1, <2>2, <3>1, <3>3
  <2>3. QED
    BY <1>2, <2>1, <2>2 DEF Moves
<1>3. QED
  BY <1>2 DEF HandleOnItsPath, HeldWereAllocated, IsLive, Cell, Path

\* The refcounts still cover the handles when no count goes down and no handle
\* is new: a cell just allocated has none.
LEMMA CountsStep ==
    ASSUME Inv, TypeOK', (CellsKept /\ CountsKept) \/ Inserted \/ Removed, NoNewHolder
    PROVE  RefcountCoversHandles'
<1>1. SUFFICES ASSUME NEW k \in Cells, pe'[k].mem = "live"
               PROVE  pe'[k].refcount >= Cardinality(Holders(k)')
  BY DEF RefcountCoversHandles, IsLive
<1>2. /\ Holders(k)' \subseteq Holders(k)
      /\ IsFiniteSet(Holders(k))
      /\ Cardinality(Holders(k)') <= Cardinality(Holders(k))
      /\ Cardinality(Holders(k)) \in Nat
      /\ Cardinality(Holders(k)') \in Nat
  <2>1. Holders(k)' \subseteq Holders(k)
    BY DEF NoNewHolder, Holders, Cell
  <2>2. IsFiniteSet(Holders(k))
    BY ClientsAssumption, FS_Subset DEF Holders
  <2>3. IsFiniteSet(Holders(k)') /\ Cardinality(Holders(k)') <= Cardinality(Holders(k))
    BY <2>1, <2>2, FS_Subset
  <2>4. QED
    BY <2>1, <2>2, <2>3, FS_CardinalityType
<1>3. pe[k].refcount \in Nat /\ pe'[k].refcount \in Nat
  BY DEF Inv, TypeOK, Entry
<1>4. CASE pe[k].mem = "live" /\ pe'[k].refcount >= pe[k].refcount
  <2>1. pe[k].refcount >= Cardinality(Holders(k))
    BY <1>4 DEF Inv, RefcountCoversHandles, IsLive
  <2>2. QED
    BY <1>2, <1>3, <1>4, <2>1
<1>5. CASE pe[k].mem = "unused"
  <2>1. Holders(k) = {}
    BY <1>5 DEF Holders, Inv, HeldWereAllocated
  <2>2. Cardinality(Holders(k)') = 0
    BY <1>2, <2>1, FS_EmptySet
  <2>3. QED
    BY <1>3, <2>2
<1>6. (pe[k].mem = "live" /\ pe'[k].refcount >= pe[k].refcount) \/ pe[k].mem = "unused"
  BY <1>1, <1>3 DEF CellsKept, CountsKept, Inserted, Removed, Insert, Remove, FreedEntry, Unused
<1>7. QED
  BY <1>4, <1>5, <1>6

(* The moves.                                                               *)

\* A request that only changes its location, or ends, moves as it may.
LEMMA GoMoves ==
    ASSUME TypeOK, NEW c \in Clients, NEW l, Go(c, l) \/ Return(c)
    PROVE  /\ Moves
           /\ l \notin Counted \/ th[c].pc \in Counted => NoNewHolder
BY DEF TypeOK, RequestsOK, Request, Go, Return, Idle, Moves, NoNewHolder, Counted

\* A request that takes a cell which is NULL or that of its path in the table.
LEMMA GoWithMoves ==
    ASSUME TypeOK, NEW c \in Clients, NEW l, NEW k, GoWith(c, l, k),
           l \notin Counted,
           k = NoCell \/ (th[c].path \in Paths /\ k = table'[th[c].path])
    PROVE  Moves /\ NoNewHolder
BY DEF TypeOK, RequestsOK, Request, GoWith, Moves, NoNewHolder

\* A request that ends leaves no handle behind.
LEMMA ReturnMoves ==
    ASSUME TypeOK, NEW c \in Clients, Return(c)
    PROVE  Moves /\ NoNewHolder
BY DEF TypeOK, RequestsOK, Request, Return, Idle, Moves, NoNewHolder, Counted

\* An assignment to fields of a cell that does not lower its refcount.
LEMMA SetCellKeeps ==
    ASSUME TypeOK, NEW c \in Clients, Cell(c) \in Cells, NEW e, SetCell(c, e), UNCHANGED table,
           e.mem = My(c).mem
    PROVE  CellsKept /\ (e.refcount >= My(c).refcount => CountsKept)
<1>1. /\ pe' = [pe EXCEPT ![Cell(c)] = e]
      /\ \A k \in Cells : pe[k].refcount \in Nat
  BY DEF SetCell, TypeOK, Entry
<1>2. QED
  BY <1>1 DEF TypeOK, My, CellsKept, CountsKept

\* A step that leaves table and cells alone.
LEMMA NothingKeeps ==
    ASSUME TypeOK, UNCHANGED <<table, pe>>
    PROVE  CellsKept /\ CountsKept
BY DEF TypeOK, Entry, CellsKept, CountsKept

\* Nobody moves.
LEMMA StillMoves ==
    ASSUME UNCHANGED th
    PROVE  Moves /\ NoNewHolder
BY DEF Moves, NoNewHolder

LEMMA FoundMoves ==
    ASSUME TypeOK, NEW c \in Clients, Found(c) \/ NotFound(c)
    PROVE  Moves /\ NoNewHolder
<1>1. \/ Return(c)
      \/ \E l \in {"unlink", "open", "create"} : GoWith(c, l, NoCell)
  BY DEF Found, NotFound
<1>2. CASE Return(c)
  BY <1>2, ReturnMoves
<1>3. ASSUME NEW l \in {"unlink", "open", "create"}, GoWith(c, l, NoCell)
      PROVE  Moves /\ NoNewHolder
  <2>1. l \notin Counted
    BY DEF Counted
  <2>2. QED
    BY <1>3, <2>1, GoWithMoves
<1>4. QED
  BY <1>1, <1>2, <1>3

LEMMA OpenedMoves ==
    ASSUME TypeOK, NEW c \in Clients, Opened(c), th[c].pc \in Counted
    PROVE  Moves /\ NoNewHolder
<1>1. \E l \in Counted : Go(c, l)
  BY DEF Opened, Counted
<1>2. QED
  BY <1>1, GoMoves

\* A step that cannot lower a count nor make a handle.
Quiet == /\ (CellsKept /\ CountsKept) \/ Inserted \/ Removed
         /\ Moves
         /\ NoNewHolder

\* The assignments of a quiet step to the fields of a cell.
LEMMA FieldsKeep ==
    ASSUME TypeOK, NEW c \in Clients, NEW l, Uses(c, l), NEW e, SetCell(c, e),
           UNCHANGED table, e.mem = My(c).mem, e.refcount = My(c).refcount
    PROVE  CellsKept /\ CountsKept
<1>1. Cell(c) \in Cells /\ My(c).refcount \in Nat
  BY DEF TypeOK, Uses, IsLive, My, Entry
<1>2. QED
  BY <1>1, SetCellKeeps

\* dfs_getattr.
LEMMA GetattrQuiet ==
    ASSUME TypeOK, NEW c \in Clients,
           \/ GetattrLookup(c) \/ GetattrNew(c) \/ GetattrDispatch(c)
           \/ GetattrAsk(c) \/ GetattrFill(c) \/ GetattrAbsent(c)
    PROVE  Quiet
<1>0. /\ th[c].pc # "idle" => Path(c) \in Paths
      /\ {"getattr_new", "getattr_disp", "getattr_ask", "getattr_fill", "getattr_absent"}
             \intersect Counted = {}
  BY DEF TypeOK, RequestsOK, Path, Counted
<1>1. CASE GetattrLookup(c)
  <2> DEFINE l == IF table[Path(c)] = NoCell THEN "getattr_new" ELSE "getattr_disp"
  <2>1. GoWith(c, l, table[Path(c)]) /\ UNCHANGED <<table, pe>> /\ th[c].pc # "idle"
    BY <1>1 DEF GetattrLookup, At
  <2>2. l \notin Counted
    BY <1>0
  <2> HIDE DEF l
  <2>3. Moves /\ NoNewHolder
    BY <1>0, <2>1, <2>2, GoWithMoves DEF Path
  <2>4. QED
    BY <2>1, <2>3, NothingKeeps DEF Quiet
<1>2. CASE GetattrNew(c)
  <2>1. PICK k \in Cells : Insert(k, Path(c)) /\ GoWith(c, "getattr_disp", k)
    BY <1>2 DEF GetattrNew
  <2>2. Path(c) \in Paths /\ table'[Path(c)] = k
    BY <1>0, <1>2, <2>1 DEF GetattrNew, At, Insert, TypeOK
  <2>3. Moves /\ NoNewHolder
    BY <1>0, <2>1, <2>2, GoWithMoves DEF Path
  <2>4. QED
    BY <2>1, <2>2, <2>3 DEF Quiet, Inserted
<1>3. CASE GetattrDispatch(c)
  <2>1. Found(c) \/ Return(c) \/ Go(c, "getattr_ask")
    BY <1>3 DEF GetattrDispatch
  <2>2. Moves /\ NoNewHolder
    BY <1>0, <2>1, FoundMoves, ReturnMoves, GoMoves
  <2>3. QED
    BY <1>3, <2>2, NothingKeeps DEF GetattrDispatch, Quiet
<1>4. CASE GetattrFill(c)
  <2>1. Uses(c, "getattr_fill") /\ My(c) \in Entry
    BY <1>4, UsesTyped DEF GetattrFill
  <2> DEFINE e == [My(c) EXCEPT !.usermd = TRUE, !.ondisk = "remote"]
  <2>2. e.mem = My(c).mem /\ e.refcount = My(c).refcount
    BY <2>1 DEF Entry
  <2>3. SetCell(c, e) /\ UNCHANGED table /\ Found(c)
    BY <1>4 DEF GetattrFill
  <2> HIDE DEF e
  <2>4. QED
    BY <2>1, <2>2, <2>3, FieldsKeep, FoundMoves DEF Quiet
<1>5. CASE GetattrAsk(c) \/ GetattrAbsent(c)
  <2>1. NotFound(c) \/ Return(c) \/ Go(c, "getattr_fill") \/ Go(c, "getattr_absent")
    BY <1>5 DEF GetattrAsk, GetattrAbsent
  <2>2. Moves /\ NoNewHolder
    BY <1>0, <2>1, FoundMoves, ReturnMoves, GoMoves
  <2>3. QED
    BY <1>5, <2>2, NothingKeeps DEF GetattrAsk, GetattrAbsent, Quiet
<1>6. QED
  BY <1>1, <1>2, <1>3, <1>4, <1>5

\* dfs_open and dfs_create, but for the increment.
LEMMA OpenQuiet ==
    ASSUME TypeOK, NEW c \in Clients,
           \/ OpenLookup(c) \/ OpenNew(c) \/ OpenCreat(c) \/ OpenExisting(c)
    PROVE  Quiet
<1>0. /\ th[c].pc # "idle" => Path(c) \in Paths
      /\ {"open_new", "open_inc"} \intersect Counted = {}
      /\ {"open_creat", "open_existing", "open_get"} \subseteq Counted
  BY DEF TypeOK, RequestsOK, Path, Counted
<1>1. CASE OpenLookup(c)
  <2> DEFINE l == IF table[Path(c)] = NoCell THEN "open_new" ELSE "open_inc"
  <2>1. GoWith(c, l, table[Path(c)]) /\ UNCHANGED <<table, pe>> /\ th[c].pc # "idle"
    BY <1>1 DEF OpenLookup, At
  <2>2. l \notin Counted
    BY <1>0
  <2> HIDE DEF l
  <2>3. Moves /\ NoNewHolder
    BY <1>0, <2>1, <2>2, GoWithMoves DEF Path
  <2>4. QED
    BY <2>1, <2>3, NothingKeeps DEF Quiet
<1>2. CASE OpenNew(c)
  <2>1. PICK k \in Cells : Insert(k, Path(c)) /\ GoWith(c, "open_inc", k)
    BY <1>2 DEF OpenNew
  <2>2. Path(c) \in Paths /\ table'[Path(c)] = k
    BY <1>0, <1>2, <2>1 DEF OpenNew, At, Insert, TypeOK
  <2>3. Moves /\ NoNewHolder
    BY <1>0, <2>1, <2>2, GoWithMoves DEF Path
  <2>4. QED
    BY <2>1, <2>2, <2>3 DEF Quiet, Inserted
<1>3. CASE OpenCreat(c)
  <2>1. Uses(c, "open_creat") /\ My(c) \in Entry /\ th[c].pc \in Counted
    BY <1>0, <1>3, UsesTyped DEF OpenCreat, Uses, At
  <2>2. PICK a \in {0, My(c).age} :
           SetCell(c, [My(c) EXCEPT !.fd = "rw", !.ondisk = "local", !.age = a])
    BY <1>3 DEF OpenCreat
  <2> DEFINE e == [My(c) EXCEPT !.fd = "rw", !.ondisk = "local", !.age = a]
  <2>3. e.mem = My(c).mem /\ e.refcount = My(c).refcount
    BY <2>1 DEF Entry
  <2>4. SetCell(c, e) /\ UNCHANGED table /\ Opened(c)
    BY <1>3, <2>2 DEF OpenCreat
  <2> HIDE DEF e
  <2>5. QED
    BY <2>1, <2>3, <2>4, FieldsKeep, OpenedMoves DEF Quiet
<1>4. CASE OpenExisting(c)
  <2>1. Uses(c, "open_existing") /\ My(c) \in Entry /\ th[c].pc \in Counted
    BY <1>0, <1>4, UsesTyped DEF OpenExisting, Uses, At
  <2>2. CASE My(c).fd = "none"
    BY <1>0, <1>4, <2>1, <2>2, GoMoves, NothingKeeps DEF OpenExisting, Quiet
  <2>3. CASE My(c).fd # "none"
    <3> DEFINE e == [My(c) EXCEPT !.ondisk = "local"]
    <3>1. e.mem = My(c).mem /\ e.refcount = My(c).refcount
      BY <2>1 DEF Entry
    <3>2. SetCell(c, e) /\ UNCHANGED table /\ Opened(c)
      BY <1>4, <2>3 DEF OpenExisting
    <3> HIDE DEF e
    <3>3. QED
      BY <2>1, <3>1, <3>2, FieldsKeep, OpenedMoves DEF Quiet
  <2>4. QED
    BY <2>2, <2>3
<1>5. QED
  BY <1>1, <1>2, <1>3, <1>4

\* dfs_get_local_copy.
LEMMA GetQuiet ==
    ASSUME TypeOK, NEW c \in Clients, OpenGet(c)
    PROVE  Quiet
<1>1. Uses(c, "open_get") /\ My(c) \in Entry /\ th[c].pc \in Counted
  BY UsesTyped DEF OpenGet, Uses, At, Counted
<1>2. PICK e \in Entry : /\ SetCell(c, e)
                         /\ e.mem = My(c).mem /\ e.refcount = My(c).refcount
  <2>1. CASE GetFails(c)
    <3>1. PICK md \in {My(c).usermd, Path(c) \in remote} :
             SetCell(c, [My(c) EXCEPT !.fd = "none", !.usermd = @ \/ md])
      BY <2>1 DEF GetFails
    <3>2. (My(c).usermd \/ md) \in BOOLEAN
      OBVIOUS
    <3> DEFINE e == [My(c) EXCEPT !.fd = "none", !.usermd = @ \/ md]
    <3>3. e \in Entry /\ e.mem = My(c).mem /\ e.refcount = My(c).refcount
      BY <1>1, <3>2 DEF Entry
    <3>4. QED
      BY <3>1, <3>3
  <2>2. CASE GetMatches(c)
    <3> DEFINE e == [My(c) EXCEPT !.usermd = TRUE]
    <3>1. e \in Entry /\ e.mem = My(c).mem /\ e.refcount = My(c).refcount
      BY <1>1 DEF Entry
    <3>2. QED
      BY <2>2, <3>1 DEF GetMatches
  <2>3. CASE GetDownloads(c)
    <3> DEFINE f == IF Intent(c) = "read" THEN "r" ELSE "rw"
               e == [My(c) EXCEPT !.fd = f, !.usermd = TRUE, !.ondisk = "local", !.age = 0]
    <3>1. f \in {"none", "r", "rw"} /\ 0 \in 0..2
      OBVIOUS
    <3>2. SetCell(c, e)
      BY <2>3 DEF GetDownloads
    <3> HIDE DEF f
    <3>3. e \in Entry /\ e.mem = My(c).mem /\ e.refcount = My(c).refcount
      BY <1>1, <3>1 DEF Entry
    <3>4. QED
      BY <3>2, <3>3
  <2>4. QED
    BY <2>1, <2>2, <2>3 DEF OpenGet
<1>3. Moves /\ NoNewHolder
  BY <1>1, ReturnMoves, OpenedMoves DEF OpenGet, GetFails, GetMatches, GetDownloads
<1>4. QED
  BY <1>1, <1>2, <1>3, FieldsKeep DEF OpenGet, Quiet

\* dfs_create after dfs_open.
LEMMA CreateQuiet ==
    ASSUME TypeOK, NEW c \in Clients, Create(c) \/ CreateMd(c) \/ CreateMknod(c)
    PROVE  Quiet
<1>0. /\ "open" \notin Counted
      /\ {"create_md", "create_mknod"} \subseteq Counted
  BY DEF Counted
<1>1. CASE Create(c)
  BY <1>0, <1>1, GoMoves, ReturnMoves, NothingKeeps DEF Create, Quiet
<1>2. CASE CreateMd(c)
  <2> DEFINE ex == Excludes(Path(c))
  <2>1. Uses(c, "create_md") /\ My(c) \in Entry /\ th[c].pc \in Counted
    BY <1>0, <1>2, UsesTyped DEF CreateMd, Uses, At
  <2>2. CASE My(c).fd = "none"
    <3> DEFINE e == [My(c) EXCEPT !.exclude = ex]
    <3>1. e.mem = My(c).mem /\ e.refcount = My(c).refcount
      BY <2>1 DEF Entry
    <3>2. SetCell(c, e) /\ UNCHANGED table /\ Return(c)
      BY <1>2, <2>2 DEF CreateMd
    <3> HIDE DEF e
    <3>3. QED
      BY <2>1, <3>1, <3>2, FieldsKeep, ReturnMoves DEF Quiet
  <2>3. CASE My(c).fd # "none" /\ My(c).usermd
    BY <1>2, <2>3, NothingKeeps, StillMoves DEF CreateMd, Quiet
  <2>4. CASE My(c).fd # "none" /\ ~My(c).usermd
    <3> DEFINE e == [My(c) EXCEPT !.exclude = ex, !.usermd = TRUE]
    <3>1. e.mem = My(c).mem /\ e.refcount = My(c).refcount
      BY <2>1 DEF Entry
    <3>2. SetCell(c, e) /\ UNCHANGED table /\ (Go(c, "held") \/ Go(c, "create_mknod"))
      BY <1>2, <2>4 DEF CreateMd
    <3> HIDE DEF e
    <3>3. QED
      BY <2>1, <3>1, <3>2, FieldsKeep, GoMoves DEF Quiet
  <2>5. QED
    BY <2>2, <2>3, <2>4
<1>3. CASE CreateMknod(c)
  <2>1. th[c].pc \in Counted /\ UNCHANGED <<table, pe>> /\ (Go(c, "held") \/ Return(c))
    BY <1>0, <1>3 DEF CreateMknod, At
  <2>2. QED
    BY <2>1, GoMoves, ReturnMoves, NothingKeeps DEF Quiet
<1>4. QED
  BY <1>1, <1>2, <1>3

\* dfs_release after the decrement, dfs_unlink, and the use of a freed cell.
LEMMA EndQuiet ==
    ASSUME TypeOK, NEW c \in Clients,
           \/ Upload(c) \/ ReleaseEnd(c) \/ UnlinkRemote(c) \/ UnlinkHidden(c)
           \/ UnlinkTable(c) \/ UseAfterFree(c)
    PROVE  Quiet
<1>0. "released" \notin Counted /\ "unlink_table" \notin Counted
  BY DEF Counted
<1>1. CASE Upload(c)
  <2>1. Uses(c, "upload") /\ My(c) \in Entry
    BY <1>1, UsesTyped DEF Upload
  <2>2. PICK a \in {0, My(c).age} : SetCell(c, [My(c) EXCEPT !.age = a])
    BY <1>1 DEF Upload
  <2> DEFINE e == [My(c) EXCEPT !.age = a]
  <2>3. e.mem = My(c).mem /\ e.refcount = My(c).refcount
    BY <2>1 DEF Entry
  <2>4. SetCell(c, e) /\ UNCHANGED table /\ Go(c, "released")
    BY <1>1, <2>2 DEF Upload
  <2> HIDE DEF e
  <2>5. QED
    BY <1>0, <2>1, <2>3, <2>4, FieldsKeep, GoMoves DEF Quiet
<1>2. CASE ReleaseEnd(c)
  <2>1. Uses(c, "released") /\ My(c) \in Entry
    BY <1>2, UsesTyped DEF ReleaseEnd
  <2> DEFINE e == [My(c) EXCEPT !.locked = FALSE]
  <2>2. e.mem = My(c).mem /\ e.refcount = My(c).refcount
    BY <2>1 DEF Entry
  <2>3. SetCell(c, e) /\ UNCHANGED table /\ Return(c)
    BY <1>2 DEF ReleaseEnd
  <2> HIDE DEF e
  <2>4. QED
    BY <2>1, <2>2, <2>3, FieldsKeep, ReturnMoves DEF Quiet
<1>3. CASE UnlinkRemote(c)
  BY <1>0, <1>3, GoMoves, ReturnMoves, NothingKeeps DEF UnlinkRemote, Quiet
<1>4. CASE UnlinkHidden(c)
  BY <1>4, ReturnMoves, NothingKeeps DEF UnlinkHidden, Quiet
<1>5. CASE UnlinkTable(c)
  <2>1. Path(c) \in Paths
    BY <1>5 DEF UnlinkTable, At, TypeOK, RequestsOK, Path
  <2>2. QED
    BY <1>5, <2>1, ReturnMoves DEF UnlinkTable, Quiet, Removed
<1>6. CASE UseAfterFree(c)
  BY <1>6, StillMoves, NothingKeeps DEF UseAfterFree, Quiet
<1>7. QED
  BY <1>1, <1>2, <1>3, <1>4, <1>5, <1>6

\* The collector, the clients and time.
LEMMA CollectQuiet ==
    ASSUME TypeOK, Collect
    PROVE  Quiet
<1>1. UNCHANGED th
  BY DEF Collect, GcStart, GcCheck, GcLock, GcRemove, GcUseAfterFree, GcDone
<1>2. CASE GcLock
  <2>1. /\ gc.cell \in Cells /\ pe[gc.cell] \in Entry /\ UNCHANGED table
        /\ \/ pe' = [pe EXCEPT ![gc.cell] = [pe[gc.cell] EXCEPT !.locked = TRUE]]
           \/ UNCHANGED pe
    BY <1>2 DEF GcLock, IsLive, TypeOK
  <2> DEFINE e == [pe[gc.cell] EXCEPT !.locked = TRUE]
  <2>2. e.mem = pe[gc.cell].mem /\ e.refcount = pe[gc.cell].refcount
    BY <2>1 DEF Entry
  <2> HIDE DEF e
  <2>3. CASE pe' = [pe EXCEPT ![gc.cell] = e]
    <3>1. \A k \in Cells : pe[k].refcount \in Nat
      BY DEF TypeOK, Entry
    <3>2. CellsKept /\ CountsKept
      BY <2>1, <2>2, <2>3, <3>1 DEF TypeOK, CellsKept, CountsKept
    <3>3. QED
      BY <1>1, <3>2, StillMoves DEF Quiet
  <2>4. CASE UNCHANGED pe
    BY <1>1, <2>1, <2>4, StillMoves, NothingKeeps DEF Quiet
  <2>5. QED
    BY <2>1, <2>3, <2>4 DEF e
<1>3. CASE GcRemove
  <2>1. gc.path \in Paths
    BY <1>3 DEF GcRemove, GcAt, TypeOK, CollectorOK
  <2>2. QED
    BY <1>1, <1>3, <2>1, StillMoves DEF GcRemove, Quiet, Removed
<1>4. CASE UNCHANGED <<table, pe>>
  BY <1>1, <1>4, StillMoves, NothingKeeps DEF Quiet
<1>5. QED
  BY <1>2, <1>3, <1>4 DEF Collect, GcStart, GcCheck, GcUseAfterFree, GcDone

LEMMA ClientsQuiet ==
    ASSUME TypeOK, NEW c \in Clients, Begin(c) \/ ReadWrite(c) \/ Close(c)
    PROVE  Quiet
<1>0. /\ {"getattr", "unlink", "open"} \intersect Counted = {}
      /\ {"held", "release"} \subseteq Counted
  BY DEF Counted
<1>1. CASE Begin(c)
  <2>1. PICK p \in Paths, i \in Intents :
           th' = [th EXCEPT ![c] =
                    [pc     |-> CASE p \notin known \/ i = "stat" -> "getattr"
                                  [] p \in known /\ i = "unlink" -> "unlink"
                                  [] OTHER -> "open",
                     path   |-> p,
                     intent |-> i,
                     cell   |-> NoCell]]
    BY <1>1 DEF Begin
  <2> DEFINE l == CASE p \notin known \/ i = "stat" -> "getattr"
                    [] p \in known /\ i = "unlink" -> "unlink"
                    [] OTHER -> "open"
  <2>2. l \notin Counted
    BY <1>0
  <2>3. /\ th'[c].pc = l /\ th'[c].cell = NoCell
        /\ \A d \in Clients : d # c => th'[d] = th[d]
    BY <2>1 DEF TypeOK, RequestsOK
  <2> HIDE DEF l
  <2>4. Moves /\ NoNewHolder
    BY <2>2, <2>3 DEF Moves, NoNewHolder
  <2>5. QED
    BY <1>1, <2>4, NothingKeeps DEF Begin, Quiet
<1>2. CASE ReadWrite(c)
  <2>1. Uses(c, "held") /\ My(c) \in Entry
    BY <1>2, UsesTyped DEF ReadWrite
  <2>2. PICK a \in {0, My(c).age} : SetCell(c, [My(c) EXCEPT !.age = a])
    BY <1>2 DEF ReadWrite
  <2> DEFINE e == [My(c) EXCEPT !.age = a]
  <2>3. e.mem = My(c).mem /\ e.refcount = My(c).refcount
    BY <2>1 DEF Entry
  <2>4. SetCell(c, e) /\ UNCHANGED <<table, th>>
    BY <1>2, <2>2 DEF ReadWrite
  <2> HIDE DEF e
  <2>5. QED
    BY <2>1, <2>3, <2>4, FieldsKeep, StillMoves DEF Quiet
<1>3. CASE Close(c)
  BY <1>0, <1>3, GoMoves, NothingKeeps DEF Close, At, Quiet
<1>4. QED
  BY <1>1, <1>2, <1>3

LEMMA TimeQuiet ==
    ASSUME TypeOK,
           (\E p \in Paths : Expire(p)) \/ (\E k \in Cells : Age(k)) \/ UNCHANGED vars
    PROVE  Quiet
<1>1. ASSUME NEW k \in Cells, Age(k)
      PROVE  Quiet
  <2> DEFINE e == [pe[k] EXCEPT !.age = @ + 1]
  <2>1. pe' = [pe EXCEPT ![k] = e] /\ UNCHANGED <<table, th>>
    BY <1>1 DEF Age
  <2>2. \A j \in Cells : pe[j] \in Entry /\ pe[j].refcount \in Nat
    BY DEF TypeOK, Entry
  <2>3. e.mem = pe[k].mem /\ e.refcount = pe[k].refcount
    BY <2>2 DEF Entry
  <2> HIDE DEF e
  <2>4. CellsKept /\ CountsKept
    BY <2>1, <2>2, <2>3 DEF TypeOK, CellsKept, CountsKept
  <2>5. QED
    BY <2>1, <2>4, StillMoves DEF Quiet
<1>2. QED
  BY <1>1, StillMoves, NothingKeeps DEF Expire, vars, Quiet

\* The handles of a cell are finitely many.
LEMMA HoldersFinite ==
    \A k : IsFiniteSet(Holders(k)) /\ Cardinality(Holders(k)) \in Nat
BY ClientsAssumption, FS_Subset, FS_CardinalityType DEF Holders

\* pentry_inc_refcount: one more handle, one more in the count.
LEMMA OpenIncCounts ==
    ASSUME Inv, NEW c \in Clients, OpenInc(c)
    PROVE  CellsKept /\ Moves /\ RefcountCoversHandles'
<1> DEFINE m == Cell(c)
           e == [My(c) EXCEPT !.refcount = @ + 1]
<1>1. /\ Uses(c, "open_inc") /\ My(c) \in Entry /\ m \in Cells
      /\ pe \in [Cells -> Entry] /\ th[c].pc = "open_inc" /\ TypeOK
  BY UsesTyped DEF Inv, OpenInc, Uses, At, TypeOK
<1>2. e.mem = My(c).mem /\ e.refcount = My(c).refcount + 1 /\ My(c).refcount \in Nat
  BY <1>1 DEF Entry
<1>3. /\ SetCell(c, e) /\ UNCHANGED table
      /\ \E l \in {"open_creat", "open_existing"} : Go(c, l)
  BY DEF OpenInc
<1>4. pe' = [pe EXCEPT ![m] = e]
  BY <1>3 DEF SetCell
<1> HIDE DEF e
<1>5. CellsKept /\ Moves
  BY <1>1, <1>2, <1>3, SetCellKeeps, GoMoves
<1>6. \A k \in Cells : Holders(k)' \subseteq IF k = m THEN Holders(k) \union {c}
                                                  ELSE Holders(k)
  BY <1>1, <1>3 DEF Inv, TypeOK, RequestsOK, Request, Go, Holders, Cell
<1>7. ASSUME NEW k \in Cells, pe'[k].mem = "live"
      PROVE  pe'[k].refcount >= Cardinality(Holders(k)')
  <2>1. /\ pe[k].refcount >= Cardinality(Holders(k))
        /\ pe[k].refcount \in Nat
    BY <1>1, <1>5, <1>7 DEF CellsKept, Inv, RefcountCoversHandles, IsLive, Entry
  <2>2. CASE k = m
    <3>1. /\ IsFiniteSet(Holders(k) \union {c})
          /\ Cardinality(Holders(k) \union {c}) <= Cardinality(Holders(k)) + 1
          /\ Cardinality(Holders(k) \union {c}) \in Nat
      <4> DEFINE S == Holders(k)
      <4>1. IsFiniteSet(S) /\ Cardinality(S) \in Nat
        BY HoldersFinite
      <4> HIDE DEF S
      <4>2. /\ IsFiniteSet(S \union {c})
            /\ Cardinality(S \union {c}) = IF c \in S THEN Cardinality(S) ELSE Cardinality(S) + 1
        BY <4>1, FS_AddElement
      <4>3. QED
        BY <4>1, <4>2 DEF S
    <3>2. Cardinality(Holders(k)') <= Cardinality(Holders(k) \union {c})
          /\ Cardinality(Holders(k)') \in Nat
      BY <1>6, <2>2, <3>1, FS_Subset, FS_CardinalityType
    <3>3. pe'[k].refcount = pe[k].refcount + 1
      BY <1>1, <1>2, <1>4, <2>2 DEF My
    <3>4. QED
      BY <2>1, <3>1, <3>2, <3>3, HoldersFinite
  <2>3. CASE k # m
    <3>1. /\ Cardinality(Holders(k)') <= Cardinality(Holders(k))
          /\ Cardinality(Holders(k)') \in Nat
      BY <1>6, <2>3, HoldersFinite, FS_Subset, FS_CardinalityType
    <3>2. pe'[k] = pe[k]
      BY <1>1, <1>4, <2>3
    <3>3. QED
      BY <2>1, <3>1, <3>2, HoldersFinite
  <2>4. QED
    BY <2>2, <2>3
<1>8. QED
  BY <1>5, <1>7 DEF RefcountCoversHandles, IsLive

\* dfs_release: the handle goes, and with an fd, one of the count.
LEMMA ReleaseCounts ==
    ASSUME Inv, NEW c \in Clients, Release(c)
    PROVE  CellsKept /\ Moves /\ RefcountCoversHandles'
<1> DEFINE m == Cell(c)
           e == [My(c) EXCEPT !.refcount = @ - 1]
<1>1. /\ Uses(c, "release") /\ My(c) \in Entry /\ m \in Cells
      /\ pe \in [Cells -> Entry] /\ th[c].pc = "release" /\ TypeOK
      /\ My(c).refcount \in Nat
  BY UsesTyped DEF Inv, Release, Uses, At, TypeOK, Entry
<1>2. {"released", "upload"} \intersect Counted = {}
  BY DEF Counted
<1>3. CASE My(c).fd = "none"
  <2>1. Quiet /\ CellsKept
    BY <1>1, <1>2, <1>3, GoMoves, NothingKeeps DEF Release, Quiet
  <2>2. TypeOK'
    BY <1>1, ReleaseOK
  <2>3. QED
    BY <2>1, <2>2, CountsStep DEF Quiet
<1>4. CASE My(c).fd # "none"
  <2>1. My(c).refcount > 0 /\ SetCell(c, e) /\ UNCHANGED table
    BY <1>4 DEF Release
  <2>2. e.mem = My(c).mem /\ e.refcount = My(c).refcount - 1
    BY <1>1 DEF Entry
  <2>3. pe' = [pe EXCEPT ![m] = e]
    BY <2>1 DEF SetCell
  <2> HIDE DEF e
  <2>4. Moves /\ NoNewHolder
    BY <1>1, <1>2, <1>4, GoMoves, ReturnMoves DEF Release
  <2>5. CellsKept
    BY <1>1, <2>1, <2>2, SetCellKeeps
  <2>6. /\ c \in Holders(m)
        /\ \A k \in Cells : Holders(k)' \subseteq IF k = m THEN Holders(k) \ {c}
                                                    ELSE Holders(k)
    <3>1. th'[c].pc \notin Counted
      <4>1. Return(c) \/ Go(c, "released") \/ Go(c, "upload")
        BY <1>4 DEF Release
      <4>2. th'[c].pc \in {"idle", "released", "upload"}
        BY <1>1, <4>1 DEF TypeOK, RequestsOK, Request, Return, Go, Idle
      <4>3. QED
        BY <4>2 DEF Counted
    <3>2. th[c].pc \in Counted
      BY <1>1 DEF Counted
    <3>3. QED
      BY <2>4, <3>1, <3>2 DEF NoNewHolder, Holders, Cell
  <2>7. ASSUME NEW k \in Cells, pe'[k].mem = "live"
        PROVE  pe'[k].refcount >= Cardinality(Holders(k)')
    <3>1. /\ pe[k].refcount >= Cardinality(Holders(k))
          /\ pe[k].refcount \in Nat
      BY <1>1, <2>5, <2>7 DEF CellsKept, Inv, RefcountCoversHandles, IsLive, Entry
    <3>2. CASE k = m
      <4>1. /\ IsFiniteSet(Holders(k) \ {c})
            /\ Cardinality(Holders(k) \ {c}) = Cardinality(Holders(k)) - 1
            /\ Cardinality(Holders(k) \ {c}) \in Nat
        BY <2>6, <3>2, HoldersFinite, FS_RemoveElement, FS_CardinalityType
      <4>2. /\ Cardinality(Holders(k)') <= Cardinality(Holders(k) \ {c})
            /\ Cardinality(Holders(k)') \in Nat
        BY <2>6, <3>2, <4>1, FS_Subset, FS_CardinalityType
      <4>3. pe'[k].refcount = pe[k].refcount - 1
        BY <1>1, <2>2, <2>3, <3>2 DEF My
      <4>4. QED
        BY <3>1, <4>1, <4>2, <4>3, HoldersFinite
    <3>3. CASE k # m
      <4>1. /\ Cardinality(Holders(k)') <= Cardinality(Holders(k))
            /\ Cardinality(Holders(k)') \in Nat
        BY <2>6, <3>3, HoldersFinite, FS_Subset, FS_CardinalityType
      <4>2. pe'[k] = pe[k]
        BY <1>1, <2>3, <3>3
      <4>3. QED
        BY <3>1, <4>1, <4>2, HoldersFinite
    <3>4. QED
      BY <3>2, <3>3
  <2>8. QED
    BY <2>4, <2>5, <2>7 DEF RefcountCoversHandles, IsLive
<1>5. QED
  BY <1>3, <1>4

\* Every step keeps the invariant.
LEMMA NextInv == Inv /\ [Next]_vars => Inv'
<1> SUFFICES ASSUME Inv, [Next]_vars
             PROVE  Inv'
  OBVIOUS
<1>1. TypeOK /\ TypeOK'
  BY NextType DEF Inv
<1>2. CASE Quiet
  <2>1. CellsKept \/ Inserted \/ Removed
    BY <1>2 DEF Quiet
  <2>2. QED
    BY <1>1, <1>2, <2>1, OwnsStep, HandlesStep, CountsStep DEF Inv, Quiet
<1>3. ASSUME NEW c \in Clients, OpenInc(c) \/ Release(c)
      PROVE  Inv'
  <2>1. CellsKept /\ Moves /\ RefcountCoversHandles'
    BY <1>3, OpenIncCounts, ReleaseCounts
  <2>2. QED
    BY <1>1, <2>1, OwnsStep, HandlesStep DEF Inv
<1>4. Quiet \/ \E c \in Clients : OpenInc(c) \/ Release(c)
  <2>1. ASSUME NEW c \in Clients, Serve(c)
        PROVE  Quiet \/ OpenInc(c) \/ Release(c)
    BY <1>1, <2>1, GetattrQuiet, OpenQuiet, GetQuiet, CreateQuiet, EndQuiet DEF Serve
  <2>2. ASSUME NEW c \in Clients, Begin(c) \/ ReadWrite(c) \/ Close(c)
        PROVE  Quiet
    BY <1>1, <2>2, ClientsQuiet
  <2>3. QED
    BY <1>1, <2>1, <2>2, TimeQuiet, CollectQuiet DEF Next
<1>5. QED
  BY <1>2, <1>3, <1>4

LEMMA InitInv == Init => Inv
<1> SUFFICES ASSUME Init
             PROVE  Inv
  OBVIOUS
<1>1. /\ TypeOK
      /\ \A c \in Clients : Cell(c) \notin Cells
      /\ \A k \in Cells : ~IsLive(k)
  BY InitType, CellsAssumption DEF Init, Cell, Idle, IsLive, Unused
<1>2. \A p \in Paths : table[p] = NoCell
  BY DEF Init
<1>3. QED
  BY <1>1, <1>2 DEF Inv, HeldWereAllocated, TableOwnsCells, HandleOnItsPath,
                    RefcountCoversHandles, IsLive

\* The inductive invariant holds throughout.
THEOREM Invariance == Spec => []Inv
BY InitInv, NextInv, PTL DEF Spec

\* Ownership: for any number of threads that insert into and remove from the
\* hash table without a lock, a cell is live exactly as long as it is in the
\* table, under one path.
THEOREM Ownership == Spec => []TableOwnsCells
<1>1. Inv => TableOwnsCells
  BY DEF Inv
<1>2. QED
  BY <1>1, Invariance, PTL

\* Handles: whatever is collected, unlinked and inserted again meanwhile, a
\* handle on a cell that was not freed is on the cell its path has now.
THEOREM HandlesOnPath == Spec => []HandleOnItsPath
<1>1. Inv => HandleOnItsPath
  BY DEF Inv
<1>2. QED
  BY <1>1, Invariance, PTL

\* Counting: a cell that is live is counted at least once by every handle on
\* it, so what gc_callback reads as zero has no handle, and sem_wait finds the
\* semaphore above zero in dfs_release.
THEOREM Counting == Spec => []RefcountCoversHandles
<1>1. Inv => RefcountCoversHandles
  BY DEF Inv
<1>2. QED
  BY <1>1, Invariance, PTL
=============================================================================
