-------------------------- MODULE NamespaceProofs --------------------------
(***************************************************************************)
(* What the requests of any number of clients do to a tree of any shape    *)
(* and size: they stay inside of what they were asked to change, lose no   *)
(* content, and a rename that says it has moved a directory has moved it.  *)
(***************************************************************************)
EXTENDS Namespace, SequenceTheorems, TLAPS

-----------------------------------------------------------------------------
(* What an inductive invariant says.                                        *)

\* What is printed.
Strings == Seq(Names \union ToSet(CacheDir))

\* Where a request can be in its handler, and what it has there.
Walking == {"enter", "chdir", "opendir", "next"}
Moving == {"copy", "forget"}
NoFile == [old |-> 0, new |-> 0]

StepOK(t) ==
    /\ IF t.pc = "idle" THEN t = Idle
       ELSE [op |-> t.op, path |-> t.path, to |-> t.to] \in Asks
    /\ t.pc \in Ops => t.op = t.pc
    /\ t.pc = "setattr" => t.op = "symlink"
    /\ t.pc = "list" => t.op = "readdir"
    /\ t.pc \in Walking \union Moving => t.op = "rename"
    /\ t.pc \in Walking => t.stack # <<>>
    /\ t.stack # <<>> => t.pc \in Walking \union Moving
    /\ t.stack = <<>> /\ t.pc # "done" => t.tmp = <<>> /\ t.file = NoFile

\* Each call of rename_directory has its two names one after the other, and the
\* first call those of the caller.  rename_file has the last two.
PointersOK(t) ==
    /\ \A k \in 1..Len(t.stack) :
          IF k = 1 THEN t.stack[k].old = 0 /\ t.stack[k].new = 0
          ELSE /\ t.stack[k].old > 0 /\ t.stack[k].new = t.stack[k].old + 1
               /\ t.stack[k].new <= Len(t.tmp)
    /\ t.stack # <<>> /\ t.pc \in Moving =>
          Len(t.tmp) > 1 /\ t.file = [old |-> Len(t.tmp) - 1, new |-> Len(t.tmp)]

\* s is, or is below, a name of the request, or is the name of a cache file.
Below(t, s) == IsPrefix(t.path, s) \/ IsPrefix(t.to, s)
Inside(t, s) == Below(t, s) \/ IsPrefix(CacheDir, s)

\* Whatever a pointer reads is inside.
PrintedOK(t) ==
    /\ t.pc # "done" => \A i \in 1..Len(t.tmp) : Inside(t, t.tmp[i])
    /\ t.stack # <<>> /\ t.pc \in Moving =>
          \A i \in {Len(t.tmp) - 1, Len(t.tmp)} : t.tmp[i] # <<>> /\ Inside(t, Front(t.tmp[i]))

RequestOK(t) == t \in Request /\ StepOK(t) /\ PointersOK(t) /\ PrintedOK(t)
SInv == TypeOK /\ \A c \in Clients : RequestOK(th[c])

\* No path of the bucket is named like a cache file.
CacheApart == \A p \in Paths : ~IsPrefix(CacheDir, p)

\* Nobody has two requests run that libfuse keeps apart.
Apart == \A c, d \in Clients :
             c # d /\ th[c].pc # "idle" /\ th[d].pc # "idle" => ~Conflict(th[c], th[d])

\* The names of a call f of rename_directory or rename_file in the request t.
OldOf(t, f) == IF f.old = 0 THEN t.path ELSE Slot(t.tmp, f.old)
NewOf(t, f) == IF f.new = 0 THEN t.to ELSE Slot(t.tmp, f.new)

\* What is at p, and that nothing is in d, when the bucket is b.
ThingIn(b, p) == IF p \in Paths THEN b[p] ELSE "none"
Nothing(b, d) == \A n \in Names : ThingIn(b, Append(d, n)) = "none"

\* A request that makes something found nothing there.
FreshOK(b, t) ==
    /\ t.pc \in {"mknod", "symlink", "mkdir"} => b[t.path] = "none"
    /\ t.pc = "setattr" => b[t.path] = "empty"

TableKnows == \A p \in Paths : table[p] # "none"

\* The names that t has printed are still in their buffers.
Room(t) == Len(t.tmp) <= TmpstrNb

\* The new name of s, which is below the path of the request.
MovedTo(t, s) == t.to \o SubSeq(s, Len(t.path) + 1, Len(s))
Mirrors(t, f) == IsPrefix(t.path, OldOf(t, f)) /\ NewOf(t, f) = MovedTo(t, OldOf(t, f))

NamesOK(t) == Room(t) => /\ \A k \in 1..Len(t.stack) : Mirrors(t, t.stack[k])
                         /\ t.pc \in Moving => Mirrors(t, t.file)

\* What is unlinked is where it was copied to.
CopiedOK(b, t) ==
    Room(t) /\ t.pc = "forget" =>
        /\ IsFile(ThingIn(b, OldOf(t, t.file)))
        /\ ThingIn(b, NewOf(t, t.file)) = ThingIn(b, OldOf(t, t.file))

LInv == /\ SInv /\ Apart /\ TableKnows
        /\ \A c \in Clients : FreshOK(bucket, th[c]) /\ NamesOK(th[c]) /\ CopiedOK(bucket, th[c])

\* dfs_mkdir has found no cell that says that there is something.
UnknownOK(c) == th[c].pc = "mkdir" => table[th[c].path] \in {"absent", "unset"}

GInv == SInv /\ Apart /\ NoGhostFiles /\ \A c \in Clients : UnknownOK(c)

\* The bucket is a tree, as long as no call was lost.
TreeIn(b) == \A p, q \in Paths : IsStrictPrefix(q, p) /\ b[p] # "none" => b[q] = "dir"

\* The names of the k-th call of rename_directory.
O(t, k) == OldOf(t, t.stack[k])
N(t, k) == NewOf(t, t.stack[k])

\* The entry of its directory that the k-th call is at.
Current(t, k) == IF k < Len(t.stack) THEN O(t, k + 1)
                 ELSE IF t.pc \in Moving THEN OldOf(t, t.file) ELSE <<>>

\* A call has read its directory o: what is to do is there, and not in n; what
\* is done, but for cur, is gone.
OpenAt(b, o, n, todo, cur) ==
    /\ ThingIn(b, o) = "dir" /\ ThingIn(b, n) = "dir"
    /\ \A m \in todo : /\ ThingIn(b, Append(o, m)) # "none"
                       /\ ThingIn(b, Append(n, m)) = "none"
    /\ \A m \in Names \ todo : ThingIn(b, Append(o, m)) # "none" => Append(o, m) = cur

OpenOK(b, t, k) == /\ OpenAt(b, O(t, k), N(t, k), t.stack[k].todo, Current(t, k))
                   /\ t.stack[k].ret = 0

\* The k-th call is for an entry of the one below.
ChildOK(t, k) ==
    \E n \in Names : /\ O(t, k) = Append(O(t, k - 1), n)
                     /\ N(t, k) = Append(N(t, k - 1), n)
                     /\ n \notin t.stack[k - 1].todo

\* If o is a directory it can be moved to n.
Ready(b, o, n) == ThingIn(b, o) = "dir" => ~IsFile(ThingIn(b, n)) /\ Nothing(b, n)

ChainOK(t) ==
    /\ \A k \in 1..Len(t.stack) : /\ Len(O(t, k)) = Len(t.path) + k - 1
                                  /\ Len(N(t, k)) = Len(t.to) + k - 1
    /\ \A k \in 2..Len(t.stack) : ChildOK(t, k)

StackOK(b, t) ==
    /\ ChainOK(t)
    /\ \A k \in 1..Len(t.stack) :
          k < Len(t.stack) \/ t.pc \in {"next"} \union Moving => OpenOK(b, t, k)

\* Before the last call reads its directory.
StartOK(b, w, t) ==
    LET L == Len(t.stack) IN
    t.pc \in {"enter", "chdir", "opendir"} =>
        /\ t.stack[L].ret = 0 /\ Ready(b, O(t, L), N(t, L))
        /\ ThingIn(b, O(t, L)) \in {"dir", "none"}
        /\ L > 1 => ThingIn(b, O(t, L)) = "dir"
        /\ t.pc = "enter" /\ L > 1 => ThingIn(b, N(t, L)) = "none"
        /\ t.pc = "chdir" => ThingIn(b, N(t, L)) # "none"
        /\ t.pc = "opendir" => /\ w = O(t, L)
                               /\ ThingIn(b, O(t, L)) = "dir" /\ ThingIn(b, N(t, L)) = "dir"

\* The file that the last call moves.
FileOK(b, t) ==
    LET L == Len(t.stack) IN
    t.pc \in Moving /\ t.stack # <<>> =>
        \E n \in Names \ t.stack[L].todo :
           /\ OldOf(t, t.file) = Append(O(t, L), n)
           /\ NewOf(t, t.file) = Append(N(t, L), n)
           /\ IsFile(ThingIn(b, OldOf(t, t.file)))
           /\ t.pc = "copy" => ThingIn(b, NewOf(t, t.file)) = "none"

EndOK(b, t) ==
    t.pc = "done" /\ t.ret = 0 =>
        /\ \A p \in Paths : IsPrefix(t.path, p) => b[p] = "none"
        /\ b[t.to] # "none"

Clear(t) == t.op = "rename" /\ ~t.displaces /\ Room(t)

MoveOK(b, w, t) == /\ t.pc \in {"resolve", "rename"} => Ready(b, t.path, t.to)
                   /\ StackOK(b, t) /\ StartOK(b, w, t) /\ FileOK(b, t) /\ EndOK(b, t)

MInv == LInv /\ (faults = 0 => /\ TreeIn(bucket)
                               /\ \A c \in Clients : Clear(th[c]) => MoveOK(bucket, cwd, th[c]))

\* No two requests that use the current directory run at a time.
ListsAlone == \A c, d \in Clients, q, r \in Asks :
    c # d /\ {q.op, r.op} \subseteq {"readdir", "rename"} => Conflict(q, r)

-----------------------------------------------------------------------------
(* Sequences.                                                               *)

\* What Front and Last are of a sequence that is not empty.
LEMMA FrontIs ==
    ASSUME NEW S, NEW s \in Seq(S), s # <<>>
    PROVE  /\ Front(s) \in Seq(S) /\ Len(Front(s)) = Len(s) - 1 /\ Len(s) \in Nat \ {0}
           /\ \A i \in 1..Len(s) - 1 : Front(s)[i] = s[i]
           /\ Last(s) = s[Len(s)] /\ Last(s) \in S
<1>1. Len(s) \in Nat \ {0} /\ \A i \in 1..Len(s) : s[i] \in S
  BY EmptySeq, ElementOfSeq
<1>2. Front(s) = SubSeq(s, 1, Len(s) - 1)
  BY DEF Front
<1>3. /\ Front(s) \in Seq(S)
      /\ Len(Front(s)) = IF 1 <= Len(s) - 1 THEN (Len(s) - 1) - 1 + 1 ELSE 0
      /\ \A i \in 1..(Len(s) - 1) - 1 + 1 : Front(s)[i] = s[1 + i - 1]
  <2>1. 1 \in Int /\ Len(s) - 1 \in Int /\ \A i \in 1..Len(s) - 1 : s[i] \in S
    BY <1>1
  <2> QED
    BY <1>2, <2>1, SubSeqProperties
<1>4. Len(Front(s)) = Len(s) - 1
  <2>1. CASE 1 <= Len(s) - 1
    <3>1. Len(Front(s)) = (Len(s) - 1) - 1 + 1
      BY <1>3, <2>1
    <3> QED
      BY <1>1, <3>1
  <2>2. CASE ~(1 <= Len(s) - 1)
    <3>1. Len(Front(s)) = 0
      BY <1>3, <2>2
    <3> QED
      BY <1>1, <2>2, <3>1
  <2> QED
    BY <2>1, <2>2
<1>5. ASSUME NEW i \in 1..Len(s) - 1
      PROVE  Front(s)[i] = s[i]
  <2>1. i \in 1..(Len(s) - 1) - 1 + 1 /\ 1 + i - 1 = i
    BY <1>1
  <2> QED
    BY <1>3, <2>1
<1>6. Last(s) = s[Len(s)] /\ Last(s) \in S
  BY <1>1 DEF Last
<1> QED
  BY <1>1, <1>3, <1>4, <1>5, <1>6

\* Front of the path of the mount is the path of the mount.
LEMMA FrontOfNothing == Front(<<>>) = <<>>
BY SubSeqEmpty, EmptySeq DEF Front

\* IsPrefix, element by element.
LEMMA PrefixIs ==
    ASSUME NEW S, NEW s \in Seq(S), NEW t \in Seq(S)
    PROVE  IsPrefix(s, t) <=> Len(s) <= Len(t) /\ \A i \in 1..Len(s) : s[i] = t[i]
<1>1. Len(s) \in Nat /\ Len(t) \in Nat /\ \A i \in 1..Len(s) : s[i] \in S
  BY LenProperties, ElementOfSeq
<1>2. SubSeq(s, 1, Len(s)) = s
  BY SubSeqFull
<1>3. CASE Len(s) <= Len(t)
  <2>1. \A i \in 1..Len(s) : t[i] \in S
    BY <1>1, <1>3, ElementOfSeq
  <2>2. /\ SubSeq(t, 1, Len(s)) \in Seq(S)
        /\ Len(SubSeq(t, 1, Len(s))) = IF 1 <= Len(s) THEN Len(s) - 1 + 1 ELSE 0
        /\ \A i \in 1..Len(s) - 1 + 1 : SubSeq(t, 1, Len(s))[i] = t[1 + i - 1]
    BY <1>1, <2>1, SubSeqProperties
  <2>3. /\ SubSeq(t, 1, Len(s)) \in Seq(S) /\ Len(SubSeq(t, 1, Len(s))) = Len(s)
        /\ \A i \in 1..Len(s) : SubSeq(t, 1, Len(s))[i] = t[i]
    BY <1>1, <2>2
  <2>4. s = SubSeq(t, 1, Len(s)) <=> \A i \in 1..Len(s) : s[i] = t[i]
    BY <2>3, SeqEqual
  <2> QED
    BY <1>2, <1>3, <2>4 DEF IsPrefix
<1> QED
  BY <1>3 DEF IsPrefix

\* IsPrefix is an order: it is reflexive,
LEMMA PrefixRefl == ASSUME NEW S, NEW s \in Seq(S) PROVE IsPrefix(s, s)
BY PrefixIs, LenProperties

\* and transitive.
LEMMA PrefixTrans ==
    ASSUME NEW S, NEW s \in Seq(S), NEW t \in Seq(S), NEW u \in Seq(S),
           IsPrefix(s, t), IsPrefix(t, u)
    PROVE  IsPrefix(s, u)
<1>1. /\ Len(s) \in Nat /\ Len(t) \in Nat /\ Len(u) \in Nat
      /\ Len(s) <= Len(t) /\ Len(t) <= Len(u)
      /\ \A i \in 1..Len(s) : s[i] = t[i]
      /\ \A i \in 1..Len(t) : t[i] = u[i]
  BY PrefixIs, LenProperties
<1> QED
  BY <1>1, PrefixIs

\* Two prefixes of the same sequence, the shorter one first.
LEMMA PrefixOrder ==
    ASSUME NEW S, NEW s \in Seq(S), NEW t \in Seq(S), NEW u \in Seq(S),
           IsPrefix(s, u), IsPrefix(t, u), Len(s) <= Len(t)
    PROVE  IsPrefix(s, t)
<1>1. /\ Len(s) \in Nat /\ Len(t) \in Nat /\ Len(u) \in Nat
      /\ \A i \in 1..Len(s) : s[i] = u[i]
      /\ \A i \in 1..Len(t) : t[i] = u[i]
  BY PrefixIs, LenProperties
<1> QED
  BY <1>1, PrefixIs

\* A sequence that goes on as another one, and one that has one more element.
LEMMA PrefixExtends ==
    ASSUME NEW S, NEW t \in Seq(S), NEW u \in Seq(S),
           Len(t) <= Len(u), \A i \in 1..Len(t) : u[i] = t[i]
    PROVE  IsPrefix(t, u)
BY PrefixIs

\* A sequence with one element more than s.
LEMMA OneMore ==
    ASSUME NEW S, NEW s \in Seq(S), NEW u \in Seq(S),
           Len(u) = Len(s) + 1, \A i \in 1..Len(s) : u[i] = s[i]
    PROVE  Front(u) = s /\ Last(u) = u[Len(s) + 1]
<1>1. Len(s) \in Nat
  BY LenProperties
<1>2. u # <<>>
  <2>1. u = <<>> => Len(u) = 0
    BY EmptySeq
  <2> QED
    BY <1>1, <2>1
<1>3. /\ Front(u) \in Seq(S) /\ Len(Front(u)) = Len(s)
      /\ \A i \in 1..Len(s) : Front(u)[i] = s[i]
      /\ Last(u) = u[Len(u)]
  <2>1. /\ Front(u) \in Seq(S) /\ Len(Front(u)) = Len(u) - 1
        /\ \A i \in 1..Len(u) - 1 : Front(u)[i] = u[i]
        /\ Last(u) = u[Len(u)]
    BY <1>2, FrontIs
  <2>2. Len(u) - 1 = Len(s)
    BY <1>1
  <2> QED
    BY <2>1, <2>2
<1>4. Front(u) = s
  BY <1>3, SeqEqual
<1> QED
  BY <1>3, <1>4

\* A directory is a prefix of the names of its entries.
LEMMA AppendExtends ==
    ASSUME NEW S, NEW t \in Seq(S), NEW n \in S
    PROVE  IsPrefix(t, Append(t, n))
<1>1. /\ Append(t, n) \in Seq(S) /\ Len(Append(t, n)) = Len(t) + 1 /\ Len(t) \in Nat
      /\ \A i \in 1..Len(t) : Append(t, n)[i] = t[i]
  BY AppendProperties, LenProperties
<1>2. Len(t) <= Len(Append(t, n))
  BY <1>1
<1> QED
  BY <1>1, <1>2, PrefixExtends

\* What is below a path has its entries below it too.
LEMMA PrefixAppend ==
    ASSUME NEW S, NEW s \in Seq(S), NEW t \in Seq(S), NEW n \in S, IsPrefix(s, t)
    PROVE  IsPrefix(s, Append(t, n))
<1>1. Append(t, n) \in Seq(S)
  BY AppendProperties
<1> QED
  BY <1>1, AppendExtends, PrefixTrans

\* A name that is printed after a directory is below it.
LEMMA PrefixConcat ==
    ASSUME NEW S, NEW s \in Seq(S), NEW t \in Seq(S)
    PROVE  IsPrefix(s, s \o t)
<1>1. Len(s) \in Nat /\ Len(t) \in Nat
  BY LenProperties
<1>2. /\ s \o t \in Seq(S) /\ Len(s \o t) = Len(s) + Len(t)
      /\ \A i \in 1..Len(s) + Len(t) : (s \o t)[i] = IF i <= Len(s) THEN s[i] ELSE t[i - Len(s)]
  BY ConcatProperties
<1>3. Len(s) <= Len(s \o t) /\ \A i \in 1..Len(s) : (s \o t)[i] = s[i]
  BY <1>1, <1>2
<1> QED
  BY <1>2, <1>3, PrefixExtends

\* The directory and the last name of an entry.
LEMMA FrontAppend ==
    ASSUME NEW S, NEW s \in Seq(S), NEW n \in S
    PROVE  Front(Append(s, n)) = s /\ Last(Append(s, n)) = n
<1>1. /\ Append(s, n) \in Seq(S) /\ Len(Append(s, n)) = Len(s) + 1
      /\ \A i \in 1..Len(s) : Append(s, n)[i] = s[i]
      /\ Append(s, n)[Len(s) + 1] = n
  BY AppendProperties
<1> QED
  BY <1>1, OneMore

\* A prefix of s is s, or a prefix of what s is in.
LEMMA PrefixFront ==
    ASSUME NEW S, NEW s \in Seq(S), NEW t \in Seq(S), t # <<>>
    PROVE  /\ IsPrefix(Front(t), t)
           /\ IsPrefix(s, t) => s = t \/ IsPrefix(s, Front(t))
<1>1. /\ Front(t) \in Seq(S) /\ Len(Front(t)) = Len(t) - 1 /\ Len(t) \in Nat \ {0}
      /\ \A i \in 1..Len(t) - 1 : Front(t)[i] = t[i] /\ Len(s) \in Nat
  BY FrontIs, LenProperties
<1>2. IsPrefix(Front(t), t)
  BY <1>1, PrefixIs
<1>3. ASSUME IsPrefix(s, t), s # t
      PROVE  IsPrefix(s, Front(t))
  <2>1. Len(s) <= Len(t) /\ \A i \in 1..Len(s) : s[i] = t[i]
    BY <1>3, PrefixIs
  <2>2. Len(s) # Len(t)
    BY <1>3, <2>1, SeqEqual
  <2>3. Len(s) \in Nat
    BY LenProperties
  <2>4. Len(s) <= Len(Front(t)) /\ \A i \in 1..Len(s) : s[i] = Front(t)[i]
    BY <1>1, <2>1, <2>2, <2>3
  <2> QED
    BY <1>1, <2>4, PrefixIs
<1> QED
  BY <1>2, <1>3

\* The last element replaced.
LEMMA Replace ==
    ASSUME NEW S, NEW s \in Seq(S), s # <<>>, NEW f \in S
    PROVE  /\ Append(Front(s), f) \in Seq(S) /\ Append(Front(s), f) # <<>>
           /\ Len(Append(Front(s), f)) = Len(s)
           /\ Append(Front(s), f)[Len(s)] = f
           /\ \A k \in 1..Len(s) - 1 : Append(Front(s), f)[k] = s[k]
<1>1. /\ Front(s) \in Seq(S) /\ Len(Front(s)) = Len(s) - 1 /\ Len(s) \in Nat \ {0}
      /\ \A i \in 1..Len(s) - 1 : Front(s)[i] = s[i]
  BY FrontIs
<1>2. /\ Append(Front(s), f) \in Seq(S) /\ Append(Front(s), f) # <<>>
      /\ Len(Append(Front(s), f)) = Len(Front(s)) + 1
      /\ \A k \in 1..Len(Front(s)) : Append(Front(s), f)[k] = Front(s)[k]
      /\ Append(Front(s), f)[Len(Front(s)) + 1] = f
  BY <1>1, AppendProperties
<1>3. Len(Front(s)) + 1 = Len(s)
  BY <1>1
<1> QED
  BY <1>1, <1>2, <1>3

\* What a pointer reads: what was printed there, or later.
LEMMA SlotIs ==
    ASSUME NEW t, NEW l \in Nat, Len(t) = l, NEW i \in 1..l
    PROVE  /\ \E j \in i..l : Slot(t, i) = t[j]
           /\ l <= TmpstrNb => Slot(t, i) = t[i]
<1> DEFINE d == l - i
<1>1. d \in Nat /\ TmpstrNb \in Nat \ {0} /\ d < l
  BY NumbersAssumption
<1>2. /\ TmpstrNb * (d \div TmpstrNb) \in 0..d
      /\ d < TmpstrNb => d \div TmpstrNb = 0
  <2> HIDE DEF d
  <2>1. \A n \in Nat \ {0} : n * (d \div n) \in 0..d /\ (d < n => d \div n = 0)
    BY <1>1
  <2> QED
    BY <1>1, <2>1
<1>3. i + TmpstrNb * (d \div TmpstrNb) \in i..l
  BY <1>1, <1>2
<1>4. Slot(t, i) = t[i + TmpstrNb * (d \div TmpstrNb)]
  BY DEF Slot
<1>5. ASSUME l <= TmpstrNb
      PROVE  i + TmpstrNb * (d \div TmpstrNb) = i
  BY <1>1, <1>2, <1>5
<1> QED
  BY <1>3, <1>4, <1>5
-----------------------------------------------------------------------------
(* Requests: what they keep whatever the bucket answers.                    *)

\* OldName and NewName are functions of the request.
LEMMA NamesOf ==
    \A c, f : OldName(c, f) = OldOf(th[c], f) /\ NewName(c, f) = NewOf(th[c], f)
BY DEF OldName, NewName, OldOf, NewOf

\* Paths and the directory of the cache are strings.
LEMMA PathStrings ==
    /\ Paths \subseteq Strings /\ Root \in Strings /\ CacheDir \in Strings /\ Root \notin Paths
    /\ Names \subseteq Names \union ToSet(CacheDir)
<1>1. Paths \subseteq Strings
  BY PathsAssumption, SeqMonotonic DEF Strings
<1>2. CacheDir \in Strings
  BY NumbersAssumption, SeqMonotonic DEF Strings
<1>3. Root \in Strings
  BY EmptySeq DEF Root, Strings
<1> QED
  BY <1>1, <1>2, <1>3, PathsAssumption DEF Strings

\* The type of each field of a request.
LEMMA RequestFields ==
    ASSUME NEW t \in Request
    PROVE  /\ t.pc \in Ops \union {"idle", "resolve", "done", "setattr", "list", "enter",
                                   "chdir", "opendir", "next", "copy", "forget"}
           /\ t.op \in Ops \union {"none"}
           /\ t.path \in Paths \union {Root} /\ t.to \in Paths \union {Root}
           /\ t.path \in Strings /\ t.to \in Strings
           /\ t.ret \in -2..1 /\ t.stack \in Seq(FrameType)
           /\ t.file \in [old : Nat, new : Nat]
           /\ t.tmp \in Seq(Strings) /\ Len(t.tmp) \in Nat /\ Len(t.stack) \in Nat
           /\ t.displaces \in BOOLEAN
<1>1. t.tmp \in Seq(Strings) /\ t.stack \in Seq(FrameType)
  BY DEF Request, Strings
<1>2. Len(t.tmp) \in Nat /\ Len(t.stack) \in Nat
  BY <1>1, LenProperties
<1> QED
  BY <1>1, <1>2, PathStrings DEF Request

\* A request that runs has names that can exist; those of a rename are apart.
LEMMA RunningRequest ==
    ASSUME NEW t, RequestOK(t), t.pc # "idle"
    PROVE  /\ t.path \in Paths /\ t.to \in Paths /\ t.op \in Ops
           /\ t.op = "rename" => ~IsPrefix(t.path, t.to) /\ ~IsPrefix(t.to, t.path)
<1>1. [op |-> t.op, path |-> t.path, to |-> t.to] \in Asks
  BY DEF RequestOK, StepOK
<1> QED
  BY <1>1, AsksAssumption

\* An entry of a directory that is inside is inside.
LEMMA InsideAppend ==
    ASSUME NEW t \in Request, NEW s \in Strings, NEW n \in Names, Inside(t, s)
    PROVE  /\ Append(s, n) \in Strings /\ Inside(t, Append(s, n))
           /\ Append(s, n) # <<>> /\ Front(Append(s, n)) = s
<1>1. t.path \in Strings /\ t.to \in Strings /\ CacheDir \in Strings
      /\ n \in Names \union ToSet(CacheDir)
  BY RequestFields, PathStrings
<1>2. Append(s, n) \in Strings /\ Append(s, n) # <<>> /\ Front(Append(s, n)) = s
  <2> DEFINE S == Names \union ToSet(CacheDir)
  <2>1. n \in S /\ s \in Seq(S)
    BY <1>1 DEF Strings
  <2> HIDE DEF S
  <2>2. Append(s, n) \in Seq(S) /\ Append(s, n) # <<>>
    BY <2>1, AppendProperties
  <2>3. Front(Append(s, n)) = s
    BY <2>1, FrontAppend
  <2> QED
    BY <2>2, <2>3 DEF S, Strings
<1>3. \A p \in Strings : IsPrefix(p, s) => IsPrefix(p, Append(s, n))
  BY <1>1, PrefixAppend DEF Strings
<1> QED
  BY <1>1, <1>2, <1>3 DEF Inside, Below

\* What a pointer into the ring reads is inside, if all that was printed is.
LEMMA ReadPrinted ==
    ASSUME NEW t \in Request, NEW i \in 1..Len(t.tmp), \A j \in 1..Len(t.tmp) : Inside(t, t.tmp[j])
    PROVE  Slot(t.tmp, i) \in Strings /\ Inside(t, Slot(t.tmp, i))
<1>1. t.tmp \in Seq(Strings) /\ Len(t.tmp) \in Nat
  BY RequestFields
<1>2. PICK j \in i..Len(t.tmp) : Slot(t.tmp, i) = t.tmp[j]
  BY <1>1, SlotIs
<1>3. j \in 1..Len(t.tmp)
  BY <1>1
<1> QED
  BY <1>1, <1>2, <1>3, ElementOfSeq

\* A rename reads names inside.
LEMMA FrameNames ==
    ASSUME NEW t, RequestOK(t), NEW k \in 1..Len(t.stack)
    PROVE  /\ OldOf(t, t.stack[k]) \in Strings /\ Inside(t, OldOf(t, t.stack[k]))
           /\ NewOf(t, t.stack[k]) \in Strings /\ Inside(t, NewOf(t, t.stack[k]))
<1> USE DEF RequestOK
<1>1. t.path \in Strings /\ t.to \in Strings /\ Len(t.tmp) \in Nat /\ Len(t.stack) \in Nat
      /\ t.stack[k] \in FrameType
  BY RequestFields, ElementOfSeq
<1>2. Inside(t, t.path) /\ Inside(t, t.to)
  BY <1>1, PrefixRefl DEF Inside, Below, Strings
<1>3. t.pc # "done" /\ \A j \in 1..Len(t.tmp) : Inside(t, t.tmp[j])
  <2>1. t.stack # <<>>
    BY <1>1, EmptySeq
  <2> QED
    BY <2>1 DEF StepOK, PrintedOK, Walking, Moving
<1>4. t.stack[k].old \in 0..Len(t.tmp) /\ t.stack[k].new \in 0..Len(t.tmp)
  BY <1>1 DEF PointersOK, FrameType
<1> QED
  BY <1>1, <1>2, <1>3, <1>4, ReadPrinted DEF OldOf, NewOf

\* The names of rename_file are inside; for a file they are those of the caller.
LEMMA FileNames ==
    ASSUME NEW t, RequestOK(t), t.pc \in Moving
    PROVE  /\ OldOf(t, t.file) \in Strings /\ Inside(t, OldOf(t, t.file))
           /\ NewOf(t, t.file) \in Strings /\ Inside(t, NewOf(t, t.file))
           /\ t.stack = <<>> => OldOf(t, t.file) = t.path /\ NewOf(t, t.file) = t.to /\ t.tmp = <<>>
           /\ t.stack # <<>> => OldOf(t, t.file) # <<>> /\ Inside(t, Front(OldOf(t, t.file)))
<1> USE DEF RequestOK
<1>1. t.path \in Strings /\ t.to \in Strings /\ Len(t.tmp) \in Nat
  BY RequestFields
<1>2. Inside(t, t.path) /\ Inside(t, t.to)
  BY <1>1, PrefixRefl DEF Inside, Below, Strings
<1>3. t.pc # "done" /\ \A j \in 1..Len(t.tmp) : Inside(t, t.tmp[j])
  BY DEF PrintedOK, Moving
<1>4. CASE t.stack = <<>>
  BY <1>1, <1>2, <1>3, <1>4 DEF StepOK, NoFile, OldOf, NewOf
<1>5. CASE t.stack # <<>>
  <2> DEFINE l == Len(t.tmp)
  <2>1. l \in Nat /\ l > 1 /\ t.file.old = l - 1 /\ t.file.new = l
    BY <1>1, <1>5 DEF PointersOK
  <2>2. OldOf(t, t.file) = Slot(t.tmp, l - 1) /\ NewOf(t, t.file) = Slot(t.tmp, l)
    <3> HIDE DEF l
    <3>1. l - 1 # 0 /\ l # 0
      BY <2>1
    <3> QED
      BY <2>1, <3>1 DEF OldOf, NewOf
  <2>3. l - 1 \in 1..l /\ l \in 1..l
    BY <2>1
  <2>4. PICK j \in (l - 1)..l : Slot(t.tmp, l - 1) = t.tmp[j]
    BY <2>1, <2>3, SlotIs
  <2>5. j \in {l - 1, l}
    BY <2>1
  <2>6. t.tmp[j] # <<>> /\ Inside(t, Front(t.tmp[j]))
    BY <1>5, <2>5 DEF PrintedOK
  <2> QED
    <3>1. /\ Slot(t.tmp, l - 1) \in Strings /\ Inside(t, Slot(t.tmp, l - 1))
          /\ Slot(t.tmp, l) \in Strings /\ Inside(t, Slot(t.tmp, l))
      BY <1>3, <2>3, ReadPrinted
    <3>2. OldOf(t, t.file) # <<>> /\ Inside(t, Front(OldOf(t, t.file)))
      BY <2>2, <2>4, <2>6
    <3> HIDE DEF l
    <3> QED
      BY <1>5, <2>2, <3>1, <3>2
<1> QED
  BY <1>4, <1>5

\* A request that calls nothing recursive goes on, or returns.
LEMMA SimpleKeeps ==
    ASSUME NEW t, RequestOK(t), t.stack = <<>>, t.pc \notin {"idle", "done"},
           NEW l, NEW r \in -2..1,
           \/ l \in {"done"} \union Ops /\ (l \in Ops => l = t.op)
           \/ l = "setattr" /\ t.op = "symlink"
           \/ l = "list" /\ t.op = "readdir"
           \/ l \in Moving /\ t.op = "rename"
    PROVE  RequestOK([t EXCEPT !.pc = l, !.ret = r])
<1> DEFINE u == [t EXCEPT !.pc = l, !.ret = r]
<1> USE DEF RequestOK
<1>1. t \in Request /\ t.tmp = <<>> /\ t.file = NoFile /\ Len(t.stack) = 0 /\ Len(t.tmp) = 0
  BY EmptySeq DEF StepOK
<1>2. l \in Ops \union {"done", "setattr", "list", "copy", "forget"}
  BY DEF Moving
<1>3. u \in Request
  BY <1>1, <1>2 DEF Request
<1>4. /\ u.pc = l /\ u.op = t.op /\ u.path = t.path /\ u.to = t.to
      /\ u.stack = <<>> /\ u.tmp = <<>> /\ u.file = NoFile
  BY <1>1 DEF Request
<1>5. StepOK(u)
  BY <1>2, <1>4 DEF StepOK, Walking, Moving, Ops
<1>6. PointersOK(u) /\ PrintedOK(u)
  BY <1>1, <1>4 DEF PointersOK, PrintedOK
<1> QED
  BY <1>3, <1>5, <1>6

\* A client without a request.
LEMMA IdleKeeps == RequestOK(Idle)
<1>1. /\ Idle.pc = "idle" /\ Idle.stack = <<>> /\ Idle.tmp = <<>> /\ Idle.file = NoFile
  BY DEF Idle, NoFile
<1>2. Idle \in Request
  <2>1. <<>> \in Seq(FrameType) /\ <<>> \in Seq(Seq(Names \union ToSet(CacheDir)))
    BY EmptySeq
  <2> QED
    BY <2>1 DEF Idle, Request
<1>3. StepOK(Idle)
  BY <1>1 DEF StepOK, Walking, Moving, Ops
<1>4. PointersOK(Idle) /\ PrintedOK(Idle)
  BY <1>1, EmptySeq DEF PointersOK, PrintedOK
<1> QED
  BY <1>2, <1>3, <1>4 DEF RequestOK

\* A request that has just come.
LEMMA BeginKeeps ==
    ASSUME NEW q \in Asks, NEW b \in BOOLEAN
    PROVE  RequestOK([Idle EXCEPT !.pc = "resolve", !.op = q.op, !.path = q.path, !.to = q.to,
                                  !.displaces = b])
<1> DEFINE u == [Idle EXCEPT !.pc = "resolve", !.op = q.op, !.path = q.path, !.to = q.to,
                             !.displaces = b]
<1>1. q \in [op : Ops, path : Paths, to : Paths]
  BY AsksAssumption
<1>2. q = [op |-> q.op, path |-> q.path, to |-> q.to]
  BY <1>1
<1>3. /\ u.pc = "resolve" /\ u.op = q.op /\ u.path = q.path /\ u.to = q.to
      /\ u.stack = <<>> /\ u.tmp = <<>> /\ u.file = NoFile
  BY DEF Idle, NoFile
<1>4. u \in Request
  <2>1. \A r \in Request : [r EXCEPT !.pc = "resolve", !.op = q.op, !.path = q.path, !.to = q.to,
                                     !.displaces = b] \in Request
    BY <1>1 DEF Request
  <2> QED
    BY <2>1, IdleKeeps DEF RequestOK
<1>5. StepOK(u)
  BY <1>2, <1>3 DEF StepOK, Walking, Moving, Ops
<1>6. PointersOK(u) /\ PrintedOK(u)
  BY <1>3, EmptySeq DEF PointersOK, PrintedOK
<1> QED
  BY <1>4, <1>5, <1>6 DEF RequestOK

\* dfs_rename of a directory.
LEMMA FirstFrame ==
    ASSUME NEW t, RequestOK(t), t.pc = "rename"
    PROVE  RequestOK([t EXCEPT !.pc = "enter", !.stack = <<NewFrame(0, 0)>>])
<1> DEFINE u == [t EXCEPT !.pc = "enter", !.stack = <<NewFrame(0, 0)>>]
<1> USE DEF RequestOK
<1>1. t \in Request /\ t.stack = <<>> /\ t.tmp = <<>> /\ t.file = NoFile /\ Len(t.tmp) = 0
      /\ t.op = "rename"
  BY EmptySeq DEF StepOK, Walking, Moving, Ops
<1>2. NewFrame(0, 0) \in FrameType /\ NewFrame(0, 0).old = 0 /\ NewFrame(0, 0).new = 0
  BY DEF NewFrame, FrameType
<1>3. /\ <<NewFrame(0, 0)>> \in Seq(FrameType) /\ Len(<<NewFrame(0, 0)>>) = 1
      /\ <<NewFrame(0, 0)>>[1] = NewFrame(0, 0) /\ <<NewFrame(0, 0)>> # <<>>
  BY <1>2
<1>4. u \in Request
  BY <1>1, <1>3 DEF Request
<1>5. /\ u.pc = "enter" /\ u.op = "rename" /\ u.path = t.path /\ u.to = t.to
      /\ u.stack = <<NewFrame(0, 0)>> /\ u.tmp = <<>>
  BY <1>1 DEF Request
<1>6. StepOK(u)
  BY <1>1, <1>3, <1>5 DEF StepOK, Walking, Moving, Ops
<1>7. PointersOK(u) /\ PrintedOK(u)
  BY <1>1, <1>2, <1>3, <1>5 DEF PointersOK, PrintedOK, Moving
<1> QED
  BY <1>4, <1>6, <1>7

\* A request that goes on in the same function.
LEMMA GoOn ==
    ASSUME NEW t, RequestOK(t), NEW l,
           \/ t.pc \in Walking /\ l \in Walking
           \/ t.pc \in Moving /\ l \in Moving
    PROVE  RequestOK([t EXCEPT !.pc = l])
<1> DEFINE u == [t EXCEPT !.pc = l]
<1> USE DEF RequestOK
<1>1. t \in Request /\ l \in Walking \union Moving /\ t.op = "rename"
  BY DEF StepOK
<1>2. u \in Request
  BY <1>1 DEF Request, Walking, Moving
<1>3. /\ u.pc = l /\ u.op = t.op /\ u.path = t.path /\ u.to = t.to
      /\ u.stack = t.stack /\ u.tmp = t.tmp /\ u.file = t.file
  BY <1>1 DEF Request
<1>4. StepOK(u)
  BY <1>1, <1>3 DEF StepOK, Walking, Moving, Ops
<1>5. PointersOK(u) /\ PrintedOK(u)
  <2>1. t.pc \in Moving <=> u.pc \in Moving
    BY <1>3 DEF Walking, Moving
  <2>2. t.pc # "done" /\ u.pc # "done"
    BY <1>3 DEF Walking, Moving
  <2>3. \A s : Inside(u, s) <=> Inside(t, s)
    BY <1>3 DEF Inside, Below
  <2> QED
    BY <1>3, <2>1, <2>2, <2>3 DEF PointersOK, PrintedOK
<1> QED
  BY <1>2, <1>4, <1>5

\* The last frame after an assignment to one of its variables.
LEMMA FrameKeeps ==
    ASSUME NEW t, RequestOK(t), t.pc \in Walking, NEW l \in Walking,
           NEW f \in FrameType, f.old = Last(t.stack).old, f.new = Last(t.stack).new
    PROVE  RequestOK([t EXCEPT !.pc = l, !.stack = Append(Front(t.stack), f)])
<1> DEFINE s == Append(Front(t.stack), f)
           u == [t EXCEPT !.pc = l, !.stack = s]
<1> USE DEF RequestOK
<1>1. t \in Request /\ t.stack # <<>> /\ t.op = "rename" /\ t.stack \in Seq(FrameType)
      /\ Len(t.stack) \in Nat
  BY RequestFields DEF StepOK
<1>2. /\ s \in Seq(FrameType) /\ s # <<>> /\ Len(s) = Len(t.stack) /\ s[Len(t.stack)] = f
      /\ \A k \in 1..Len(t.stack) - 1 : s[k] = t.stack[k]
  BY <1>1, Replace
<1>3. Last(t.stack) = t.stack[Len(t.stack)]
  BY <1>1, FrontIs
<1> HIDE DEF s
<1>4. u \in Request
  BY <1>1, <1>2 DEF Request, Walking
<1>5. /\ u.pc = l /\ u.op = t.op /\ u.path = t.path /\ u.to = t.to
      /\ u.stack = s /\ u.tmp = t.tmp /\ u.file = t.file
  BY <1>1 DEF Request
<1> HIDE DEF u
<1>6. StepOK(u)
  BY <1>1, <1>2, <1>5 DEF StepOK, Walking, Moving, Ops
<1>7. PointersOK(u)
  <2>1. u.pc \notin Moving
    BY <1>5 DEF Walking, Moving
  <2>2. ASSUME NEW k \in 1..Len(s)
        PROVE  s[k].old = t.stack[k].old /\ s[k].new = t.stack[k].new
    BY <1>1, <1>2, <1>3
  <2> QED
    BY <1>2, <1>5, <2>1, <2>2 DEF PointersOK
<1>8. PrintedOK(u)
  <2>1. u.pc \notin Moving /\ t.pc # "done"
    BY <1>5 DEF Walking, Moving
  <2>2. \A x : Inside(u, x) <=> Inside(t, x)
    BY <1>5 DEF Inside, Below
  <2> QED
    BY <1>5, <2>1, <2>2 DEF PrintedOK
<1>9. RequestOK(u)
  BY <1>4, <1>6, <1>7, <1>8
<1> QED
  BY <1>9 DEF u, s

\* A call that returns, to dfs_rename or to the rename_directory below.
Told(f, r) == [f EXCEPT !.ret = r]
Ended(t, r, s) == [t EXCEPT !.tmp = s, !.pc = "done", !.stack = <<>>,
                            !.ret = IF r = -1 THEN -1 ELSE 0]
Resumed(t, rest, r, s) == [t EXCEPT !.tmp = s, !.pc = "next", !.ret = 0,
                                    !.stack = Append(Front(rest), Told(Last(rest), r))]

\* Where a call returns to.
LEMMA ReturnedIs ==
    ASSUME NEW c, NEW rest, NEW r, NEW s, Returned(c, rest, r, s)
    PROVE  /\ rest = <<>> => th' = [th EXCEPT ![c] = Ended(th[c], r, s)]
           /\ rest # <<>> => th' = [th EXCEPT ![c] = Resumed(th[c], rest, r, s)]
<1>1. CASE rest = <<>>
  BY <1>1 DEF Returned, Ended
<1>2. CASE rest # <<>>
  BY <1>2 DEF Returned, Resumed, Told
<1> QED
  BY <1>1, <1>2

\* The last call has returned: the request is answered.
LEMMA EndedKeeps ==
    ASSUME NEW t, RequestOK(t), t.pc \in Walking \union Moving,
           NEW r \in -2..1, NEW s \in Seq(Strings)
    PROVE  LET u == Ended(t, r, s) IN
           /\ RequestOK(u)
           /\ u.op = t.op /\ u.path = t.path /\ u.to = t.to /\ u.displaces = t.displaces
           /\ u.tmp = s /\ u.pc = "done" /\ u.stack = <<>> /\ u.ret = IF r = -1 THEN -1 ELSE 0
<1> DEFINE u == Ended(t, r, s)
<1>1. t \in Request /\ t.op = "rename" /\ t.pc # "idle"
  BY DEF RequestOK, StepOK, Walking, Moving
<1>2. /\ u.op = t.op /\ u.path = t.path /\ u.to = t.to /\ u.displaces = t.displaces
      /\ u.tmp = s /\ u.pc = "done" /\ u.stack = <<>> /\ u.ret = IF r = -1 THEN -1 ELSE 0
  BY <1>1 DEF Ended, Request
<1>3. u \in Request
  <2>1. <<>> \in Seq(FrameType)
    BY EmptySeq
  <2>2. \A w \in Request : [w EXCEPT !.pc = "done", !.stack = <<>>] \in Request
    BY <2>1 DEF Request
  <2>3. \A w \in Request, k \in -2..1 : [w EXCEPT !.tmp = s, !.ret = k] \in Request
    BY DEF Request, Strings
  <2>4. u = [[t EXCEPT !.pc = "done", !.stack = <<>>]
                EXCEPT !.tmp = s, !.ret = IF r = -1 THEN -1 ELSE 0]
    BY <1>1 DEF Ended, Request
  <2>5. (IF r = -1 THEN -1 ELSE 0) \in -2..1
    OBVIOUS
  <2> HIDE DEF u
  <2> QED
    BY <1>1, <2>2, <2>3, <2>4, <2>5
<1> HIDE DEF u
<1>4. StepOK(u)
  BY <1>1, <1>2 DEF RequestOK, StepOK, Walking, Moving, Ops
<1>5. PointersOK(u) /\ PrintedOK(u)
  BY <1>2, EmptySeq DEF PointersOK, PrintedOK
<1>6. RequestOK(u)
  BY <1>3, <1>4, <1>5 DEF RequestOK
<1> QED
  BY <1>2, <1>6 DEF u

\* A call has returned to the one below it on the stack.
LEMMA ResumedKeeps ==
    ASSUME NEW t, RequestOK(t), t.pc \in Walking \union Moving,
           NEW rest \in Seq(FrameType), rest # <<>>, NEW r \in -2..1, NEW s \in Seq(Strings),
           Len(rest) <= Len(t.stack), \A k \in 1..Len(rest) : rest[k] = t.stack[k],
           Len(t.tmp) <= Len(s), \A i \in 1..Len(s) : Inside(t, s[i])
    PROVE  LET u == Resumed(t, rest, r, s) IN
           /\ RequestOK(u)
           /\ u.op = t.op /\ u.path = t.path /\ u.to = t.to /\ u.displaces = t.displaces
           /\ u.tmp = s /\ u.pc = "next" /\ u.stack \in Seq(FrameType) /\ u.stack # <<>>
           /\ Len(u.stack) = Len(rest) /\ u.stack[Len(rest)] = Told(rest[Len(rest)], r)
           /\ \A k \in 1..Len(rest) - 1 : u.stack[k] = rest[k]
<1> DEFINE f == Told(Last(rest), r)
           v == Append(Front(rest), f)
           u == Resumed(t, rest, r, s)
<1>1. t \in Request /\ t.op = "rename" /\ t.pc # "idle"
      /\ [op |-> t.op, path |-> t.path, to |-> t.to] \in Asks
  BY DEF RequestOK, StepOK, Walking, Moving
<1>2. t.stack \in Seq(FrameType) /\ Len(t.stack) \in Nat /\ Len(rest) \in Nat
      /\ Len(t.tmp) \in Nat /\ Len(s) \in Nat
  BY <1>1, RequestFields, LenProperties
<1>3. Last(rest) \in FrameType /\ Last(rest) = rest[Len(rest)] /\ Len(rest) > 0
  BY FrontIs
<1>4. f \in FrameType /\ f.old = Last(rest).old /\ f.new = Last(rest).new
  BY <1>3 DEF FrameType, Told
<1> HIDE DEF f
<1>5. /\ v \in Seq(FrameType) /\ v # <<>> /\ Len(v) = Len(rest) /\ v[Len(rest)] = f
      /\ \A k \in 1..Len(rest) - 1 : v[k] = rest[k]
  <2>1. ASSUME NEW g \in FrameType
        PROVE  LET w == Append(Front(rest), g) IN
               /\ w \in Seq(FrameType) /\ w # <<>> /\ Len(w) = Len(rest) /\ w[Len(rest)] = g
               /\ \A k \in 1..Len(rest) - 1 : w[k] = rest[k]
    BY ONLY <2>1, rest \in Seq(FrameType), rest # <<>>, Replace
  <2> QED
    BY <1>4, <2>1
<1>6. u = [t EXCEPT !.tmp = s, !.pc = "next", !.ret = 0, !.stack = v]
  BY DEF Resumed, v, f
<1> HIDE DEF u, v
<1>7. /\ u.op = t.op /\ u.path = t.path /\ u.to = t.to /\ u.displaces = t.displaces
      /\ u.tmp = s /\ u.pc = "next" /\ u.stack = v
  BY <1>1, <1>6 DEF Request
<1>8. u \in Request
  <2> DEFINE First(w) == [w EXCEPT !.tmp = s, !.pc = "next"]
             Then(w, k, x) == [w EXCEPT !.ret = k, !.stack = x]
  <2>1. \A w \in Request : First(w) \in Request
    BY DEF Request, Strings
  <2>2. \A w \in Request, k \in -2..1, x \in Seq(FrameType) : Then(w, k, x) \in Request
    BY DEF Request
  <2>3. u = Then(First(t), 0, v)
    BY <1>6
  <2>4. 0 \in -2..1
    OBVIOUS
  <2> HIDE DEF First, Then
  <2> QED
    BY <1>1, <1>5, <2>1, <2>2, <2>3, <2>4
<1>9. StepOK(u)
  BY <1>1, <1>5, <1>7 DEF StepOK, Walking, Moving, Ops
<1>10. PointersOK(u)
  <2>1. u.pc \notin Moving /\ u.stack = v /\ u.tmp = s
    BY <1>7 DEF Moving
  <2>2. ASSUME NEW k \in 1..Len(v)
        PROVE  IF k = 1 THEN v[k].old = 0 /\ v[k].new = 0
               ELSE v[k].old > 0 /\ v[k].new = v[k].old + 1 /\ v[k].new <= Len(s)
    <3>1. k \in 1..Len(t.stack)
      BY <1>2, <1>5
    <3>2. t.stack[k] \in FrameType
      BY <1>2, <3>1, ElementOfSeq
    <3>3. t.stack[k].old \in Nat /\ t.stack[k].new \in Nat
      BY <3>2 DEF FrameType
    <3>4. v[k].old = t.stack[k].old /\ v[k].new = t.stack[k].new
      <4>1. k = Len(rest) \/ k \in 1..Len(rest) - 1
        BY <1>2, <1>5
      <4>2. rest[k] = t.stack[k]
        BY <1>5
      <4> QED
        BY <1>3, <1>4, <1>5, <4>1, <4>2
    <3>5. IF k = 1 THEN t.stack[k].old = 0 /\ t.stack[k].new = 0
          ELSE /\ t.stack[k].old > 0 /\ t.stack[k].new = t.stack[k].old + 1
               /\ t.stack[k].new <= Len(t.tmp)
      BY <3>1 DEF RequestOK, PointersOK
    <3> QED
      BY <1>2, <3>3, <3>4, <3>5
  <2> QED
    BY <2>1, <2>2 DEF PointersOK
<1>11. PrintedOK(u)
  <2>1. u.pc \notin Moving
    BY <1>7 DEF Moving
  <2>2. \A x : Inside(u, x) <=> Inside(t, x)
    BY <1>7 DEF Inside, Below
  <2> QED
    BY <1>7, <2>1, <2>2 DEF PrintedOK
<1>12. RequestOK(u)
  BY <1>8, <1>9, <1>10, <1>11 DEF RequestOK
<1>13. f = Told(rest[Len(rest)], r)
  BY <1>3 DEF f
<1> QED
  BY <1>5, <1>7, <1>12, <1>13 DEF u

\* The names of an entry n that is printed for, and the request after it.
SrcOf(t, n) == Append(OldOf(t, Last(t.stack)), n)
DirOf(t, n) == IF Last(t.stack).new = 0 THEN t.to
               ELSE Slot(Append(t.tmp, SrcOf(t, n)), Last(t.stack).new)
TmpOf(t, n) == Append(Append(t.tmp, SrcOf(t, n)), Append(DirOf(t, n), n))
EntryOf(t, n) == [old |-> Len(TmpOf(t, n)) - 1, new |-> Len(TmpOf(t, n))]
Left(f, n, y) == [f EXCEPT !.todo = @ \ {n}, !.type = y]
ReadOn(t, n, y) == Append(Front(t.stack), Left(Last(t.stack), n, y))
Entered(t, n) == [t EXCEPT !.tmp = TmpOf(t, n), !.pc = "enter",
                           !.stack = Append(ReadOn(t, n, "dir"),
                                            NewFrame(EntryOf(t, n).old, EntryOf(t, n).new))]
Found(t, n, y) == [t EXCEPT !.tmp = TmpOf(t, n), !.pc = "copy", !.file = EntryOf(t, n),
                            !.stack = ReadOn(t, n, y)]

\* The two names that NextEntry prints are inside, and in the ring.
LEMMA PrintedNames ==
    ASSUME NEW t, RequestOK(t), t.pc = "next", NEW n \in Last(t.stack).todo
    PROVE  /\ n \in Names /\ Last(t.stack) \in FrameType /\ t.stack # <<>>
           /\ Last(t.stack) = t.stack[Len(t.stack)] /\ Len(t.stack) \in 1..Len(t.stack)
           /\ OldOf(t, Last(t.stack)) \in Strings /\ DirOf(t, n) \in Strings
           /\ TmpOf(t, n) \in Seq(Strings) /\ Len(TmpOf(t, n)) = Len(t.tmp) + 2
           /\ \A i \in 1..Len(t.tmp) : TmpOf(t, n)[i] = t.tmp[i]
           /\ TmpOf(t, n)[Len(t.tmp) + 1] = SrcOf(t, n)
           /\ TmpOf(t, n)[Len(t.tmp) + 2] = Append(DirOf(t, n), n)
           /\ \A i \in 1..Len(t.tmp) + 2 : Inside(t, TmpOf(t, n)[i])
           /\ \A i \in {Len(t.tmp) + 1, Len(t.tmp) + 2} :
                 TmpOf(t, n)[i] # <<>> /\ Inside(t, Front(TmpOf(t, n)[i]))
           /\ Len(t.tmp) + 2 <= TmpstrNb => DirOf(t, n) = NewOf(t, Last(t.stack))
<1> DEFINE f == Last(t.stack)
           src == SrcOf(t, n)
           dir == DirOf(t, n)
           dst == Append(dir, n)
           t1 == Append(t.tmp, src)
           u == Append(t1, dst)
           l == Len(t.tmp)
<1>1. t \in Request /\ t.stack # <<>> /\ t.stack \in Seq(FrameType) /\ Len(t.stack) \in Nat
      /\ t.tmp \in Seq(Strings) /\ l \in Nat /\ t.to \in Strings
  BY RequestFields DEF RequestOK, StepOK, Walking
<1>2. f \in FrameType /\ f = t.stack[Len(t.stack)] /\ Len(t.stack) \in 1..Len(t.stack)
  <2>1. Len(t.stack) \in Nat \ {0} /\ f = t.stack[Len(t.stack)] /\ f \in FrameType
    BY <1>1, FrontIs
  <2> HIDE DEF f
  <2> QED
    BY <2>1
<1>3. n \in Names /\ f.new \in Nat
  BY <1>2 DEF FrameType
<1>4. OldOf(t, f) \in Strings /\ Inside(t, OldOf(t, f))
  <2> HIDE DEF f
  <2> QED
    BY <1>2, FrameNames
<1>5. src \in Strings /\ Inside(t, src) /\ src # <<>> /\ Front(src) = OldOf(t, f)
  BY <1>1, <1>3, <1>4, InsideAppend DEF SrcOf
<1>6. Inside(t, t.to) /\ \A i \in 1..l : Inside(t, t.tmp[i])
  BY <1>1, PrefixRefl DEF Inside, Below, Strings, RequestOK, PrintedOK
<1> HIDE DEF src, f
<1>7. /\ t1 \in Seq(Strings) /\ Len(t1) = l + 1 /\ t1[l + 1] = src
      /\ \A i \in 1..l : t1[i] = t.tmp[i]
  BY <1>1, <1>5, AppendProperties
<1>8. \A i \in 1..l + 1 : Inside(t, t1[i])
  BY <1>1, <1>5, <1>6, <1>7
<1>9. f.new \in 0..l
  BY <1>1, <1>2, <1>3 DEF RequestOK, PointersOK, f
<1>10. dir = IF f.new = 0 THEN t.to ELSE Slot(t1, f.new)
  BY DEF DirOf, f, src
<1> HIDE DEF t1, l, dir
<1>11. dir \in Strings /\ Inside(t, dir)
  <2>1. CASE f.new = 0
    BY <1>1, <1>6, <1>10, <2>1
  <2>2. CASE f.new # 0
    <3>1. f.new \in 1..l + 1
      BY <1>1, <1>9, <2>2
    <3>2. PICK j \in f.new..l + 1 : Slot(t1, f.new) = t1[j]
      <4>1. \A m \in Nat : Len(t1) = m => \A i \in 1..m : \E j \in i..m : Slot(t1, i) = t1[j]
        BY SlotIs
      <4>2. l + 1 \in Nat
        BY <1>1
      <4> QED
        BY <1>7, <3>1, <4>1, <4>2
    <3>3. j \in 1..l + 1
      BY <1>1, <3>1
    <3>4. t1[j] \in Strings
      <4>1. \A i \in 1..Len(t1) : t1[i] \in Strings
        BY <1>7, ElementOfSeq
      <4>2. j \in 1..Len(t1)
        BY <1>7, <3>3
      <4> QED
        BY <4>1, <4>2
    <3> QED
      BY <1>8, <1>10, <2>2, <3>2, <3>3, <3>4
  <2> QED
    BY <2>1, <2>2
<1>12. dst \in Strings /\ Inside(t, dst) /\ dst # <<>> /\ Front(dst) = dir
  BY <1>1, <1>3, <1>11, InsideAppend
<1> HIDE DEF dst
<1>13. /\ u \in Seq(Strings) /\ Len(u) = l + 2 /\ u[l + 2] = dst
       /\ \A i \in 1..l + 1 : u[i] = t1[i]
  <2>1. /\ u \in Seq(Strings) /\ Len(u) = Len(t1) + 1 /\ u[Len(t1) + 1] = dst
        /\ \A i \in 1..Len(t1) : u[i] = t1[i]
    BY <1>7, <1>12, AppendProperties
  <2>2. Len(t1) + 1 = l + 2
    BY <1>1, <1>7
  <2> QED
    BY <1>7, <2>1, <2>2
<1>14. u = TmpOf(t, n)
  BY DEF TmpOf, t1, dst, src, dir
<1> HIDE DEF u
<1>15. /\ \A i \in 1..l : u[i] = t.tmp[i]
       /\ u[l + 1] = src
       /\ \A i \in 1..l + 2 : Inside(t, u[i])
       /\ \A i \in {l + 1, l + 2} : u[i] # <<>> /\ Inside(t, Front(u[i]))
  BY <1>1, <1>4, <1>5, <1>7, <1>8, <1>11, <1>12, <1>13
<1>16. ASSUME l + 2 <= TmpstrNb
       PROVE  dir = NewOf(t, f)
  <2>1. CASE f.new = 0
    BY <1>10, <2>1 DEF NewOf
  <2>2. CASE f.new # 0
    <3>1. f.new \in 1..l + 1 /\ f.new \in 1..l /\ l + 1 <= TmpstrNb /\ l <= TmpstrNb
      BY <1>1, <1>9, <1>16, <2>2, NumbersAssumption
    <3>2. Slot(t1, f.new) = t1[f.new]
      BY <1>1, <1>7, <3>1, SlotIs
    <3>3. Slot(t.tmp, f.new) = t.tmp[f.new]
      BY <1>1, <3>1, SlotIs DEF l
    <3> QED
      BY <1>7, <1>10, <2>2, <3>1, <3>2, <3>3 DEF NewOf
  <2> QED
    BY <2>1, <2>2
<1> QED
  BY <1>1, <1>2, <1>3, <1>4, <1>11, <1>13, <1>14, <1>15, <1>16 DEF f, src, dst, dir, l

\* The stack after an entry was taken from the last frame.
LEMMA ReadOnIs ==
    ASSUME NEW t, RequestOK(t), t.pc = "next", NEW n \in Last(t.stack).todo, NEW y \in {"reg", "dir"}
    PROVE  LET s == ReadOn(t, n, y) IN
           /\ s \in Seq(FrameType) /\ Len(s) = Len(t.stack) /\ s # <<>>
           /\ s[Len(t.stack)] = Left(Last(t.stack), n, y)
           /\ \A k \in 1..Len(t.stack) - 1 : s[k] = t.stack[k]
           /\ \A k \in 1..Len(t.stack) : s[k].old = t.stack[k].old /\ s[k].new = t.stack[k].new
           /\ \A k \in 1..Len(t.stack) :
                 IF k = 1 THEN s[k].old = 0 /\ s[k].new = 0
                 ELSE s[k].old > 0 /\ s[k].new = s[k].old + 1 /\ s[k].new <= Len(t.tmp)
<1> DEFINE s == ReadOn(t, n, y)
           f == Left(Last(t.stack), n, y)
<1>1. Last(t.stack) \in FrameType /\ t.stack # <<>> /\ Last(t.stack) = t.stack[Len(t.stack)]
      /\ Len(t.stack) \in 1..Len(t.stack)
  BY PrintedNames
<1>2. t.stack \in Seq(FrameType) /\ Len(t.stack) \in Nat
  BY RequestFields DEF RequestOK
<1>3. f \in FrameType /\ f.old = Last(t.stack).old /\ f.new = Last(t.stack).new
  BY <1>1 DEF Left, FrameType
<1> HIDE DEF f
<1>4. /\ s \in Seq(FrameType) /\ s # <<>> /\ Len(s) = Len(t.stack) /\ s[Len(t.stack)] = f
      /\ \A k \in 1..Len(t.stack) - 1 : s[k] = t.stack[k]
  <2>1. \A g \in FrameType :
           LET w == Append(Front(t.stack), g) IN
           /\ w \in Seq(FrameType) /\ w # <<>> /\ Len(w) = Len(t.stack) /\ w[Len(t.stack)] = g
           /\ \A k \in 1..Len(t.stack) - 1 : w[k] = t.stack[k]
    BY <1>1, <1>2, Replace
  <2>2. s = Append(Front(t.stack), f)
    BY DEF ReadOn, f
  <2> HIDE DEF s
  <2> QED
    BY <1>3, <2>1, <2>2
<1> HIDE DEF s
<1>5. ASSUME NEW k \in 1..Len(t.stack)
      PROVE  s[k].old = t.stack[k].old /\ s[k].new = t.stack[k].new
  <2>1. k = Len(t.stack) \/ k \in 1..Len(t.stack) - 1
    BY <1>2
  <2> QED
    BY <1>1, <1>3, <1>4, <2>1
<1>6. ASSUME NEW k \in 1..Len(t.stack)
      PROVE  IF k = 1 THEN s[k].old = 0 /\ s[k].new = 0
             ELSE s[k].old > 0 /\ s[k].new = s[k].old + 1 /\ s[k].new <= Len(t.tmp)
  BY <1>5 DEF RequestOK, PointersOK
<1> QED
  BY <1>4, <1>5, <1>6 DEF s, f

\* The entry is a file: its names are the last two printed.
LEMMA FoundKeeps ==
    ASSUME NEW t, RequestOK(t), t.pc = "next", NEW n \in Last(t.stack).todo, NEW y \in {"reg", "dir"}
    PROVE  LET u == Found(t, n, y) IN
           /\ RequestOK(u)
           /\ u.op = t.op /\ u.path = t.path /\ u.to = t.to /\ u.displaces = t.displaces
           /\ u.tmp = TmpOf(t, n) /\ u.pc = "copy" /\ u.stack = ReadOn(t, n, y)
           /\ u.file = EntryOf(t, n)
<1> DEFINE u == Found(t, n, y)
           s == ReadOn(t, n, y)
           p == TmpOf(t, n)
           e == EntryOf(t, n)
<1>1. t \in Request /\ Len(t.tmp) \in Nat /\ Len(t.stack) \in Nat /\ t.op = "rename" /\ t.pc # "idle"
      /\ [op |-> t.op, path |-> t.path, to |-> t.to] \in Asks
  BY RequestFields DEF RequestOK, StepOK, Walking, Moving
<1>2. /\ s \in Seq(FrameType) /\ Len(s) = Len(t.stack) /\ s # <<>>
      /\ \A k \in 1..Len(t.stack) :
            IF k = 1 THEN s[k].old = 0 /\ s[k].new = 0
            ELSE s[k].old > 0 /\ s[k].new = s[k].old + 1 /\ s[k].new <= Len(t.tmp)
      /\ \A k \in 1..Len(t.stack) : s[k].old = t.stack[k].old /\ s[k].new = t.stack[k].new
      /\ \A k \in 1..Len(t.stack) : t.stack[k] \in FrameType
  BY <1>1, ReadOnIs, RequestFields, ElementOfSeq
<1>3. /\ p \in Seq(Strings) /\ Len(p) = Len(t.tmp) + 2
      /\ \A i \in 1..Len(t.tmp) + 2 : Inside(t, p[i])
      /\ \A i \in {Len(t.tmp) + 1, Len(t.tmp) + 2} : p[i] # <<>> /\ Inside(t, Front(p[i]))
  BY PrintedNames
<1>4. e = [old |-> Len(p) - 1, new |-> Len(p)]
  BY DEF EntryOf
<1>5. e \in [old : Nat, new : Nat]
  <2> HIDE DEF p
  <2>1. Len(p) - 1 \in Nat /\ Len(p) \in Nat
    BY <1>1, <1>3
  <2> HIDE DEF e
  <2> QED
    BY <1>4, <2>1
<1>6. u = [t EXCEPT !.tmp = p, !.pc = "copy", !.file = e, !.stack = s]
  BY DEF Found
<1> HIDE DEF u, s, p, e
<1>7. /\ u.op = t.op /\ u.path = t.path /\ u.to = t.to /\ u.displaces = t.displaces
      /\ u.tmp = p /\ u.pc = "copy" /\ u.stack = s /\ u.file = e
  BY <1>1, <1>6 DEF Request
<1>8. u \in Request
  <2> DEFINE First(w) == [w EXCEPT !.tmp = p, !.pc = "copy"]
             Then(w) == [w EXCEPT !.file = e, !.stack = s]
  <2>1. \A w \in Request : First(w) \in Request
    BY <1>3 DEF Request, Strings
  <2>2. \A w \in Request : Then(w) \in Request
    BY <1>2, <1>5 DEF Request
  <2>3. u = Then(First(t))
    BY <1>6
  <2> HIDE DEF First, Then
  <2> QED
    BY <1>1, <2>1, <2>2, <2>3
<1>9. StepOK(u)
  BY <1>1, <1>2, <1>7 DEF StepOK, Walking, Moving, Ops
<1>10. PointersOK(u)
  <2>1. ASSUME NEW k \in 1..Len(s)
        PROVE  IF k = 1 THEN s[k].old = 0 /\ s[k].new = 0
               ELSE s[k].old > 0 /\ s[k].new = s[k].old + 1 /\ s[k].new <= Len(p)
    <3>1. s[k].new \in Nat
      BY <1>2 DEF FrameType
    <3> QED
      BY <1>1, <1>2, <1>3, <3>1
  <2>2. Len(p) > 1
    BY <1>1, <1>3
  <2> QED
    BY <1>4, <1>7, <2>1, <2>2 DEF PointersOK
<1>11. PrintedOK(u)
  <2>1. \A x : Inside(u, x) <=> Inside(t, x)
    BY <1>7 DEF Inside, Below
  <2>2. Len(p) - 1 = Len(t.tmp) + 1
    BY <1>1, <1>3
  <2>3. \A i \in 1..Len(p) : Inside(u, p[i])
    BY <1>3, <2>1
  <2>4. \A i \in {Len(p) - 1, Len(p)} : p[i] # <<>> /\ Inside(u, Front(p[i]))
    BY <1>3, <2>1, <2>2
  <2> QED
    BY <1>7, <2>3, <2>4 DEF PrintedOK
<1>12. RequestOK(u)
  BY <1>8, <1>9, <1>10, <1>11 DEF RequestOK
<1> QED
  BY <1>7, <1>12 DEF u, s, p, e

\* The entry is a directory: its frame has the last two names printed.
LEMMA EnteredKeeps ==
    ASSUME NEW t, RequestOK(t), t.pc = "next", NEW n \in Last(t.stack).todo
    PROVE  LET u == Entered(t, n) IN
           /\ RequestOK(u)
           /\ u.op = t.op /\ u.path = t.path /\ u.to = t.to /\ u.displaces = t.displaces
           /\ u.tmp = TmpOf(t, n) /\ u.pc = "enter"
           /\ Len(u.stack) = Len(t.stack) + 1
           /\ u.stack[Len(t.stack) + 1] = NewFrame(EntryOf(t, n).old, EntryOf(t, n).new)
           /\ \A k \in 1..Len(t.stack) : u.stack[k] = ReadOn(t, n, "dir")[k]
<1> DEFINE u == Entered(t, n)
           s == ReadOn(t, n, "dir")
           p == TmpOf(t, n)
           e == EntryOf(t, n)
           g == NewFrame(e.old, e.new)
           v == Append(s, g)
<1>1. t \in Request /\ Len(t.tmp) \in Nat /\ Len(t.stack) \in Nat /\ t.op = "rename" /\ t.pc # "idle"
      /\ t.stack # <<>> /\ [op |-> t.op, path |-> t.path, to |-> t.to] \in Asks
  BY RequestFields DEF RequestOK, StepOK, Walking, Moving
<1>2. /\ s \in Seq(FrameType) /\ Len(s) = Len(t.stack) /\ s # <<>>
      /\ \A k \in 1..Len(t.stack) :
            IF k = 1 THEN s[k].old = 0 /\ s[k].new = 0
            ELSE s[k].old > 0 /\ s[k].new = s[k].old + 1 /\ s[k].new <= Len(t.tmp)
  BY <1>1, ReadOnIs
<1>3. /\ p \in Seq(Strings) /\ Len(p) = Len(t.tmp) + 2
      /\ \A i \in 1..Len(t.tmp) + 2 : Inside(t, p[i])
  BY PrintedNames
<1>4. e.old = Len(t.tmp) + 1 /\ e.new = Len(t.tmp) + 2
  <2>1. e.old = Len(p) - 1 /\ e.new = Len(p)
    BY DEF EntryOf
  <2> HIDE DEF p, e
  <2> QED
    BY <1>1, <1>3, <2>1
<1> HIDE DEF e
<1>5. g \in FrameType /\ g.old = Len(t.tmp) + 1 /\ g.new = Len(t.tmp) + 2
  BY <1>1, <1>4 DEF NewFrame, FrameType
<1>6. u = [t EXCEPT !.tmp = p, !.pc = "enter", !.stack = v]
  BY DEF Entered, e
<1> HIDE DEF u, s, p, g
<1>7. /\ v \in Seq(FrameType) /\ v # <<>> /\ Len(v) = Len(t.stack) + 1
      /\ \A k \in 1..Len(t.stack) : v[k] = s[k]
      /\ v[Len(t.stack) + 1] = g
  BY <1>2, <1>5, AppendProperties
<1> HIDE DEF v
<1>8. /\ u.op = t.op /\ u.path = t.path /\ u.to = t.to /\ u.displaces = t.displaces
      /\ u.tmp = p /\ u.pc = "enter" /\ u.stack = v
  BY <1>1, <1>6 DEF Request
<1>9. u \in Request
  <2> DEFINE First(w) == [w EXCEPT !.tmp = p, !.pc = "enter"]
             Then(w) == [w EXCEPT !.stack = v]
  <2>1. \A w \in Request : First(w) \in Request
    BY <1>3 DEF Request, Strings
  <2>2. \A w \in Request : Then(w) \in Request
    BY <1>7 DEF Request
  <2>3. u = Then(First(t))
    BY <1>6
  <2> HIDE DEF First, Then
  <2> QED
    BY <1>1, <2>1, <2>2, <2>3
<1>10. StepOK(u)
  BY <1>1, <1>7, <1>8 DEF StepOK, Walking, Moving, Ops
<1>11. PointersOK(u)
  <2>1. ASSUME NEW k \in 1..Len(v)
        PROVE  IF k = 1 THEN v[k].old = 0 /\ v[k].new = 0
               ELSE v[k].old > 0 /\ v[k].new = v[k].old + 1 /\ v[k].new <= Len(p)
    <3>1. CASE k \in 1..Len(t.stack)
      <4>1. s[k] \in FrameType /\ v[k] = s[k]
        BY <1>2, <1>7, <3>1, ElementOfSeq
      <4>2. s[k].new \in Nat
        BY <4>1 DEF FrameType
      <4>3. IF k = 1 THEN s[k].old = 0 /\ s[k].new = 0
            ELSE s[k].old > 0 /\ s[k].new = s[k].old + 1 /\ s[k].new <= Len(t.tmp)
        BY <1>2, <3>1
      <4>4. Len(t.tmp) <= Len(p) /\ Len(t.tmp) \in Nat /\ Len(p) \in Nat
        BY <1>1, <1>3
      <4> QED
        BY <4>1, <4>2, <4>3, <4>4
    <3>2. CASE k = Len(t.stack) + 1
      <4>1. k # 1
        <5>1. Len(t.stack) # 0
          BY <1>1, RequestFields, EmptySeq
        <5> QED
          BY <1>1, <3>2, <5>1
      <4> QED
        BY <1>1, <1>3, <1>5, <1>7, <3>2, <4>1, SMTT(30)
    <3> QED
      BY <1>1, <1>7, <3>1, <3>2
  <2>2. u.pc \notin Moving
    BY <1>8 DEF Moving
  <2> QED
    BY <1>8, <2>1, <2>2 DEF PointersOK
<1>12. PrintedOK(u)
  <2>1. \A x : Inside(u, x) <=> Inside(t, x)
    BY <1>8 DEF Inside, Below
  <2>2. u.pc \notin Moving
    BY <1>8 DEF Moving
  <2> QED
    BY <1>3, <1>8, <2>1, <2>2 DEF PrintedOK
<1>13. RequestOK(u)
  BY <1>9, <1>10, <1>11, <1>12 DEF RequestOK
<1> QED
  BY <1>7, <1>8, <1>13 DEF u, s, p, e, g

\* A call of rename_directory or of rename_file that returns keeps what a
\* request is.
LEMMA LeaveKeeps ==
    ASSUME NEW c, RequestOK(th[c]), th[c].pc \in Walking, NEW r \in -2..1,
           NEW s \in Seq(Strings), Len(th[c].tmp) <= Len(s),
           \A i \in 1..Len(s) : Inside(th[c], s[i]), Leave(c, r, s)
    PROVE  \E u : th' = [th EXCEPT ![c] = u] /\ RequestOK(u)
<1> DEFINE t == th[c]
           rest == Front(t.stack)
<1>1. t.stack \in Seq(FrameType) /\ t.stack # <<>> /\ Len(t.stack) \in Nat
  BY RequestFields DEF RequestOK, StepOK
<1>2. /\ rest \in Seq(FrameType) /\ Len(rest) <= Len(t.stack)
      /\ \A k \in 1..Len(rest) : rest[k] = t.stack[k]
  <2>1. /\ rest \in Seq(FrameType) /\ Len(rest) = Len(t.stack) - 1
        /\ \A k \in 1..Len(t.stack) - 1 : rest[k] = t.stack[k]
    BY <1>1, FrontIs
  <2> HIDE DEF rest, t
  <2> QED
    BY <1>1, <2>1
<1>3. /\ rest = <<>> => th' = [th EXCEPT ![c] = Ended(t, r, s)]
      /\ rest # <<>> => th' = [th EXCEPT ![c] = Resumed(t, rest, r, s)]
  BY ReturnedIs DEF Leave
<1>4. RequestOK(Ended(t, r, s))
  BY EndedKeeps
<1>5. rest # <<>> => RequestOK(Resumed(t, rest, r, s))
  <2> HIDE DEF rest, t
  <2>1. RequestOK(t) /\ t.pc \in Walking \union Moving /\ Len(t.tmp) <= Len(s)
        /\ \A i \in 1..Len(s) : Inside(t, s[i])
    BY DEF t
  <2> QED
    BY <1>2, <2>1, ResumedKeeps
<1> QED
  BY <1>3, <1>4, <1>5

\* rename_file returns.
LEMMA FileKeeps ==
    ASSUME NEW c, RequestOK(th[c]), th[c].pc \in Moving, NEW r \in -2..1,
           NEW s \in Seq(Strings), Len(th[c].tmp) <= Len(s),
           th[c].stack # <<>> => \A i \in 1..Len(s) : Inside(th[c], s[i]),
           Returned(c, th[c].stack, r, s)
    PROVE  \E u : th' = [th EXCEPT ![c] = u] /\ RequestOK(u)
<1> DEFINE t == th[c]
           rest == t.stack
<1>1. t.stack \in Seq(FrameType) /\ Len(t.stack) \in Nat
  BY RequestFields DEF RequestOK
<1>2. /\ rest = <<>> => th' = [th EXCEPT ![c] = Ended(t, r, s)]
      /\ rest # <<>> => th' = [th EXCEPT ![c] = Resumed(t, rest, r, s)]
  BY ReturnedIs
<1>3. RequestOK(Ended(t, r, s))
  BY EndedKeeps
<1>4. rest # <<>> => RequestOK(Resumed(t, rest, r, s))
  <2> HIDE DEF t
  <2>1. RequestOK(t) /\ t.pc \in Walking \union Moving /\ Len(t.tmp) <= Len(s)
        /\ (t.stack # <<>> => \A i \in 1..Len(s) : Inside(t, s[i]))
    BY DEF t
  <2> QED
    BY <1>1, <2>1, ResumedKeeps
<1> QED
  BY <1>2, <1>3, <1>4

\* What the names of a request are when it runs.
LEMMA TmpInside ==
    ASSUME NEW t, RequestOK(t), t.pc # "done"
    PROVE  t.tmp \in Seq(Strings) /\ Len(t.tmp) \in Nat /\ \A i \in 1..Len(t.tmp) : Inside(t, t.tmp[i])
BY RequestFields DEF RequestOK, PrintedOK

-----------------------------------------------------------------------------
(* The types, and what a step writes.                                       *)

DataOK == /\ bucket \in [Paths -> Things]
          /\ table \in [Paths -> Things \union {"absent", "unset"}]
          /\ cwd \in Paths \union {Root}
          /\ faults \in 0..MaxFaults

Threads == th \in [Clients -> Request] /\ \A c \in Clients : RequestOK(th[c])

\* The invariant, in its part about the data and its part about the requests.
LEMMA SInvIs == SInv <=> DataOK /\ Threads
<1>1. ASSUME NEW c \in Clients, StepOK(th[c]), ~Renaming(c)
      PROVE  th[c].stack = <<>>
  BY <1>1 DEF StepOK, Renaming, Walking, Moving
<1> QED
  BY <1>1 DEF SInv, TypeOK, DataOK, Threads, RequestOK

\* What the bucket answers about any path.
LEMMA ThingType ==
    ASSUME bucket \in [Paths -> Things], NEW p
    PROVE  /\ Thing(p) \in Things
           /\ p \in Paths => Thing(p) = bucket[p]
           /\ Thing(p) # "none" => p \in Paths
BY DEF Thing, Things

\* What the bucket is after a change of p.
LEMMA PutType ==
    ASSUME bucket \in [Paths -> Things], NEW p, NEW x \in Things
    PROVE  /\ Put(p, x) \in [Paths -> Things]
           /\ \A q \in Paths : Put(p, x)[q] = IF q = p THEN x ELSE bucket[q]
BY DEF Put

\* The number of faults stays below its bound.
LEMMA FaultType ==
    ASSUME faults \in 0..MaxFaults, Fault \/ NoFault
    PROVE  faults' \in 0..MaxFaults
BY NumbersAssumption DEF Fault, NoFault

\* The bucket is as it was but for what p is now.
Only(p) == /\ bucket' \in [Paths -> Things]
           /\ \A q \in Paths : bucket'[q] # bucket[q] => q = p

\* Whatever changes the bucket changes p only: a call that is lost,
LEMMA LostPutOnly ==
    ASSUME bucket \in [Paths -> Things], NEW p, NEW x \in Things, LostPut(p, x)
    PROVE  Only(p)
BY PutType DEF LostPut, Only

\* a call that is answered,
LEMMA PutOnly ==
    ASSUME bucket \in [Paths -> Things], NEW p, NEW x \in Things, bucket' = Put(p, x)
    PROVE  Only(p)
BY PutType DEF Only

\* and a call that changes nothing.
LEMMA SameOnly ==
    ASSUME bucket \in [Paths -> Things], UNCHANGED bucket, NEW p
    PROVE  Only(p)
BY DEF Only

Becomes(c) == \E u : th' = [th EXCEPT ![c] = u] /\ RequestOK(u)
Does(c) == DataOK' /\ Becomes(c) /\ \E p \in Strings : Inside(th[c], p) /\ Only(p)

\* A request without a stack goes on,
LEMMA SimpleGo ==
    ASSUME Threads, NEW c \in Clients, th[c].stack = <<>>, th[c].pc \notin {"idle", "done"}, NEW l,
           \/ l \in Ops /\ l = th[c].op
           \/ l = "setattr" /\ th[c].op = "symlink"
           \/ l = "list" /\ th[c].op = "readdir"
           \/ l \in Moving /\ th[c].op = "rename",
           Go(c, l)
    PROVE  Becomes(c)
<1>1. th[c] \in Request /\ RequestOK(th[c]) /\ th[c].ret \in -2..1
  BY RequestFields DEF Threads
<1>2. RequestOK([th[c] EXCEPT !.pc = l, !.ret = th[c].ret])
  BY <1>1, SimpleKeeps
<1>3. [th[c] EXCEPT !.pc = l, !.ret = th[c].ret] = [th[c] EXCEPT !.pc = l]
  BY <1>1 DEF Request
<1> QED
  BY <1>2, <1>3 DEF Becomes, Go

\* or is answered.
LEMMA SimpleDone ==
    ASSUME Threads, NEW c \in Clients, th[c].stack = <<>>, th[c].pc \notin {"idle", "done"},
           NEW r \in -2..1, Done(c, r)
    PROVE  Becomes(c)
<1>1. RequestOK(th[c])
  BY DEF Threads
<1>2. RequestOK([th[c] EXCEPT !.pc = "done", !.ret = r])
  <2>1. "done" \notin Ops
    BY DEF Ops
  <2> QED
    BY <1>1, <2>1, SimpleKeeps
<1>3. th' = [th EXCEPT ![c] = [th[c] EXCEPT !.pc = "done", !.ret = r]]
  BY DEF Done, Threads
<1> QED
  BY <1>2, <1>3 DEF Becomes

\* The names of a request are inside of it.
LEMMA Self ==
    ASSUME Threads, NEW c \in Clients
    PROVE  /\ th[c].path \in Strings /\ Inside(th[c], th[c].path)
           /\ th[c].to \in Strings /\ Inside(th[c], th[c].to)
<1>1. th[c].path \in Strings /\ th[c].to \in Strings
  BY RequestFields DEF Threads
<1> QED
  BY <1>1, PrefixRefl DEF Inside, Below, Strings

\* There is a stack only in the functions of dfs_rename.
LEMMA SimpleStack ==
    ASSUME Threads, NEW c \in Clients, th[c].pc \notin Walking \union Moving
    PROVE  th[c].stack = <<>>
BY DEF Threads, RequestOK, StepOK

\* Each action keeps the types and writes inside of its request.
LEMMA BeginDoes ==
    ASSUME SInv, NEW c \in Clients, Begin(c)
    PROVE  Does(c)
<1>1. DataOK /\ Threads
  BY SInvIs
<1>2. PICK q \in Asks : th' = [th EXCEPT ![c] = [Idle EXCEPT !.pc = "resolve", !.op = q.op,
                                                  !.path = q.path, !.to = q.to,
                                                  !.displaces = Displaces(q)]]
  BY DEF Begin
<1>3. Displaces(q) \in BOOLEAN
  BY DEF Displaces
<1>4. Becomes(c)
  BY <1>2, <1>3, BeginKeeps DEF Becomes
<1>5. Only(th[c].path) /\ DataOK'
  BY <1>1, SameOnly DEF Begin, DataOK
<1> QED
  BY <1>1, <1>4, <1>5, Self DEF Does

LEMMA FinishDoes ==
    ASSUME SInv, NEW c \in Clients, Finish(c)
    PROVE  Does(c)
<1>1. DataOK /\ Threads
  BY SInvIs
<1>2. Becomes(c)
  BY IdleKeeps DEF Finish, Becomes
<1>3. Only(th[c].path) /\ DataOK'
  BY <1>1, SameOnly DEF Finish, DataOK
<1> QED
  BY <1>1, <1>2, <1>3, Self DEF Does

LEMMA ResolveDoes ==
    ASSUME SInv, NEW c \in Clients, Resolve(c)
    PROVE  Does(c)
<1>1. DataOK /\ Threads
  BY SInvIs
<1>2. th[c].pc = "resolve" /\ th[c].stack = <<>> /\ th[c].op \in Ops
  BY <1>1, SimpleStack, RunningRequest DEF Resolve, At, Walking, Moving, Threads
<1>3. Becomes(c)
  <2>1. Go(c, th[c].op) => Becomes(c)
    BY <1>1, <1>2, SimpleGo
  <2>2. \A r \in -2..1 : Done(c, r) => Becomes(c)
    BY <1>1, <1>2, SimpleDone
  <2>3. Go(c, th[c].op) \/ Done(c, 0) \/ Done(c, -2) \/ Done(c, -1)
    BY DEF Resolve
  <2> QED
    BY <2>1, <2>2, <2>3
<1>4. \A p \in Paths : Answer(p) \in Things \union {"absent", "unset"}
                       /\ Cached(p) \in Things \union {"absent", "unset"}
  BY <1>1 DEF Answer, Cached, DataOK
<1>5. table' \in [Paths -> Things \union {"absent", "unset"}]
  <2>1. CASE table' = [p \in Paths |-> IF p \in Touched(th[c]) THEN Cached(p) ELSE table[p]]
    BY <1>1, <1>4, <2>1 DEF DataOK
  <2>2. CASE table' = [table EXCEPT ![th[c].path] = IF @ = "absent" THEN "unset" ELSE @]
    BY <1>1, <2>2 DEF DataOK
  <2> QED
    BY <2>1, <2>2 DEF Resolve
<1>6. Only(th[c].path) /\ faults' \in 0..MaxFaults /\ UNCHANGED <<bucket, cwd>>
  BY <1>1, SameOnly, FaultType DEF Resolve, DataOK
<1>7. DataOK'
  BY <1>1, <1>5, <1>6 DEF DataOK
<1> QED
  BY <1>1, <1>3, <1>6, <1>7, Self DEF Does

LEMMA MknodDoes ==
    ASSUME SInv, NEW c \in Clients, Mknod(c)
    PROVE  Does(c)
<1> DEFINE p == th[c].path
<1>1. DataOK /\ Threads
  BY SInvIs
<1>2. th[c].pc \in {"mknod", "symlink"} /\ th[c].stack = <<>> /\ th[c].op = th[c].pc
  BY <1>1, SimpleStack DEF Mknod, Walking, Moving, Ops, Threads, RequestOK, StepOK
<1>3. Becomes(c)
  <2>1. th[c].op = "symlink" /\ Go(c, "setattr") => Becomes(c)
    BY <1>1, <1>2, SimpleGo
  <2>2. \A r \in -2..1 : Done(c, r) => Becomes(c)
    BY <1>1, <1>2, SimpleDone
  <2> QED
    BY <1>2, <2>1, <2>2 DEF Mknod, At, Failures
<1>4. Only(p) /\ faults' \in 0..MaxFaults
  BY <1>1, LostPutOnly, PutOnly, SameOnly, FaultType DEF Mknod, Things, DataOK, LostPut
<1>5. DataOK'
  BY <1>1, <1>4 DEF DataOK, Only, Mknod
<1> QED
  BY <1>1, <1>3, <1>4, <1>5, Self DEF Does

LEMMA SetattrDoes ==
    ASSUME SInv, NEW c \in Clients, Setattr(c)
    PROVE  Does(c)
<1>1. DataOK /\ Threads
  BY SInvIs
<1>2. th[c].pc = "setattr" /\ th[c].stack = <<>>
  BY <1>1, SimpleStack DEF Setattr, At, Walking, Moving
<1>3. Becomes(c)
  BY <1>1, <1>2, SimpleDone DEF Setattr
<1>4. Only(th[c].path) /\ faults' \in 0..MaxFaults
  BY <1>1, LostPutOnly, PutOnly, FaultType DEF Setattr, Things, DataOK, LostPut
<1>5. DataOK'
  BY <1>1, <1>4 DEF DataOK, Only, Setattr
<1> QED
  BY <1>1, <1>3, <1>4, <1>5, Self DEF Does

\* dfs_mkdir of p.
LEMMA MkdirsOnly ==
    ASSUME DataOK, NEW p, Mkdirs(p) \/ MkdirFails(p)
    PROVE  /\ Only(p) /\ faults' \in 0..MaxFaults
           /\ table' \in [Paths -> Things \union {"absent", "unset"}]
<1>1. Only(p) /\ faults' \in 0..MaxFaults
  BY LostPutOnly, PutOnly, SameOnly, FaultType DEF Mkdirs, MkdirFails, Things, DataOK, LostPut
<1>2. table' \in [Paths -> Things \union {"absent", "unset"}]
  BY DEF Mkdirs, MkdirFails, DataOK
<1> QED
  BY <1>1, <1>2

LEMMA MkdirDoes ==
    ASSUME SInv, NEW c \in Clients, Mkdir(c)
    PROVE  Does(c)
<1>1. DataOK /\ Threads
  BY SInvIs
<1>2. th[c].pc = "mkdir" /\ th[c].stack = <<>>
  BY <1>1, SimpleStack DEF Mkdir, At, Walking, Moving
<1>3. Becomes(c)
  BY <1>1, <1>2, SimpleDone DEF Mkdir
<1>4. /\ Only(th[c].path) /\ faults' \in 0..MaxFaults
      /\ table' \in [Paths -> Things \union {"absent", "unset"}]
  BY <1>1, MkdirsOnly DEF Mkdir
<1>5. DataOK'
  BY <1>1, <1>4 DEF DataOK, Only, Mkdir
<1> QED
  BY <1>1, <1>3, <1>4, <1>5, Self DEF Does

\* dfs_unlink changes the path it was given.
LEMMA UnlinksOnly ==
    ASSUME DataOK, NEW p, Unlinks(p) \/ UnlinkFails(p)
    PROVE  /\ Only(p) /\ faults' \in 0..MaxFaults
           /\ table' \in [Paths -> Things \union {"absent", "unset"}]
<1>1. Only(p) /\ faults' \in 0..MaxFaults
  BY LostPutOnly, PutOnly, SameOnly, FaultType DEF Unlinks, UnlinkFails, Things, DataOK, LostPut
<1>2. table' \in [Paths -> Things \union {"absent", "unset"}]
  BY DEF Unlinks, UnlinkFails, DataOK
<1> QED
  BY <1>1, <1>2

LEMMA UnlinkDoes ==
    ASSUME SInv, NEW c \in Clients, Unlink(c)
    PROVE  Does(c)
<1>1. DataOK /\ Threads
  BY SInvIs
<1>2. th[c].pc = "unlink" /\ th[c].stack = <<>>
  BY <1>1, SimpleStack DEF Unlink, At, Walking, Moving
<1>3. Becomes(c)
  BY <1>1, <1>2, SimpleDone DEF Unlink
<1>4. /\ Only(th[c].path) /\ faults' \in 0..MaxFaults
      /\ table' \in [Paths -> Things \union {"absent", "unset"}]
  BY <1>1, UnlinksOnly DEF Unlink
<1>5. DataOK'
  BY <1>1, <1>4 DEF DataOK, Only, Unlink
<1> QED
  BY <1>1, <1>3, <1>4, <1>5, Self DEF Does

\* dfs_rmdir changes the path it was given.
LEMMA RmdirsOnly ==
    ASSUME DataOK, NEW p, Rmdirs(p) \/ RmdirFails(p)
    PROVE  Only(p) /\ faults' \in 0..MaxFaults
BY LostPutOnly, PutOnly, SameOnly, FaultType DEF Rmdirs, RmdirFails, Things, DataOK, LostPut

LEMMA RmdirDoes ==
    ASSUME SInv, NEW c \in Clients, Rmdir(c)
    PROVE  Does(c)
<1>1. DataOK /\ Threads
  BY SInvIs
<1>2. th[c].pc = "rmdir" /\ th[c].stack = <<>>
  BY <1>1, SimpleStack DEF Rmdir, At, Walking, Moving
<1>3. Becomes(c)
  BY <1>1, <1>2, SimpleDone DEF Rmdir
<1>4. Only(th[c].path) /\ faults' \in 0..MaxFaults
  BY <1>1, RmdirsOnly DEF Rmdir
<1>5. DataOK'
  BY <1>1, <1>4 DEF DataOK, Only, Rmdir
<1> QED
  BY <1>1, <1>3, <1>4, <1>5, Self DEF Does

LEMMA ReaddirDoes ==
    ASSUME SInv, NEW c \in Clients, Readdir(c)
    PROVE  Does(c)
<1>1. DataOK /\ Threads
  BY SInvIs
<1>2. th[c].pc = "readdir" /\ th[c].stack = <<>> /\ th[c].op = "readdir"
  BY <1>1, SimpleStack DEF Readdir, At, Walking, Moving, Ops, Threads, RequestOK, StepOK
<1>3. Becomes(c)
  <2>1. Go(c, "list") => Becomes(c)
    BY <1>1, <1>2, SimpleGo
  <2>2. \A r \in -2..1 : Done(c, r) => Becomes(c)
    BY <1>1, <1>2, SimpleDone
  <2> QED
    BY <2>1, <2>2 DEF Readdir, Failures
<1>4. cwd' \in Paths \union {Root}
  BY <1>1, ThingType DEF Readdir, DataOK
<1>5. Only(th[c].path) /\ faults' \in 0..MaxFaults
  BY <1>1, SameOnly, FaultType DEF Readdir, DataOK
<1>6. DataOK'
  BY <1>1, <1>4, <1>5 DEF DataOK, Only, Readdir
<1> QED
  BY <1>1, <1>3, <1>5, <1>6, Self DEF Does

LEMMA ListDoes ==
    ASSUME SInv, NEW c \in Clients, List(c)
    PROVE  Does(c)
<1>1. DataOK /\ Threads
  BY SInvIs
<1>2. th[c].pc = "list" /\ th[c].stack = <<>>
  BY <1>1, SimpleStack DEF List, At, Walking, Moving
<1>3. Becomes(c)
  BY <1>1, <1>2, SimpleDone DEF List, Failures
<1>4. Only(th[c].path) /\ faults' \in 0..MaxFaults
  BY <1>1, SameOnly, FaultType DEF List, DataOK
<1>5. DataOK'
  BY <1>1, <1>4 DEF DataOK, Only, List
<1> QED
  BY <1>1, <1>3, <1>4, <1>5, Self DEF Does

LEMMA RenameDoes ==
    ASSUME SInv, NEW c \in Clients, Rename(c)
    PROVE  Does(c)
<1>1. DataOK /\ Threads
  BY SInvIs
<1>2. th[c].pc = "rename" /\ th[c].stack = <<>> /\ th[c].op = "rename"
  BY <1>1, SimpleStack DEF Rename, At, Walking, Moving, Ops, Threads, RequestOK, StepOK
<1>3. Becomes(c)
  <2>1. Go(c, "copy") => Becomes(c)
    BY <1>1, <1>2, SimpleGo DEF Moving
  <2>2. Done(c, -1) => Becomes(c)
    BY <1>1, <1>2, SimpleDone
  <2>3. ASSUME th' = [th EXCEPT ![c].pc = "enter", ![c].stack = <<NewFrame(0, 0)>>]
        PROVE  Becomes(c)
    <3>1. RequestOK([th[c] EXCEPT !.pc = "enter", !.stack = <<NewFrame(0, 0)>>])
      BY <1>1, <1>2, FirstFrame DEF Threads
    <3>2. th' = [th EXCEPT ![c] = [th[c] EXCEPT !.pc = "enter", !.stack = <<NewFrame(0, 0)>>]]
      BY <1>1, <2>3 DEF Threads
    <3> QED
      BY <3>1, <3>2 DEF Becomes
  <2> QED
    BY <2>1, <2>2, <2>3 DEF Rename
<1>4. Only(th[c].path) /\ faults' \in 0..MaxFaults
  BY <1>1, SameOnly, FaultType DEF Rename, DataOK
<1>5. DataOK'
  BY <1>1, <1>4 DEF DataOK, Only, Rename
<1> QED
  BY <1>1, <1>3, <1>4, <1>5, Self DEF Does

\* The frame of the call that runs, and its names.
LEMMA TopFrame ==
    ASSUME Threads, NEW c \in Clients, th[c].pc \in Walking
    PROVE  /\ Frame(c) \in FrameType /\ th[c].stack # <<>> /\ Len(th[c].stack) \in Nat
           /\ th[c].stack \in Seq(FrameType)
           /\ Len(th[c].stack) \in 1..Len(th[c].stack) /\ Frame(c) = th[c].stack[Len(th[c].stack)]
           /\ OldName(c, Frame(c)) \in Strings /\ Inside(th[c], OldName(c, Frame(c)))
           /\ NewName(c, Frame(c)) \in Strings /\ Inside(th[c], NewName(c, Frame(c)))
<1> DEFINE t == th[c]
<1>1. t \in Request /\ RequestOK(t)
  BY DEF Threads
<1>2. t.stack \in Seq(FrameType) /\ t.stack # <<>> /\ Len(t.stack) \in Nat
  BY <1>1, RequestFields DEF RequestOK, StepOK
<1>3. /\ Last(t.stack) \in FrameType /\ Last(t.stack) = t.stack[Len(t.stack)]
      /\ Len(t.stack) \in Nat \ {0}
  BY <1>2, FrontIs
<1> HIDE DEF t
<1>4. Len(t.stack) \in 1..Len(t.stack)
  BY <1>3
<1>5. /\ OldOf(t, t.stack[Len(t.stack)]) \in Strings /\ Inside(t, OldOf(t, t.stack[Len(t.stack)]))
      /\ NewOf(t, t.stack[Len(t.stack)]) \in Strings /\ Inside(t, NewOf(t, t.stack[Len(t.stack)]))
  BY <1>1, <1>4, FrameNames
<1> QED
  BY <1>2, <1>3, <1>4, <1>5, NamesOf DEF Frame, t

\* rename_directory returns an error,
LEMMA FailsBecomes ==
    ASSUME Threads, NEW c \in Clients, th[c].pc \in Walking, NEW R \in SUBSET (-2..1), Fails(c, R)
    PROVE  Becomes(c)
<1>1. PICK r \in R : Leave(c, r, th[c].tmp)
  BY DEF Fails
<1>2. RequestOK(th[c]) /\ th[c].pc # "done"
  BY DEF Threads, Walking
<1>3. th[c].tmp \in Seq(Strings) /\ Len(th[c].tmp) \in Nat
      /\ \A i \in 1..Len(th[c].tmp) : Inside(th[c], th[c].tmp[i])
  BY <1>2, TmpInside
<1>4. Len(th[c].tmp) <= Len(th[c].tmp) /\ r \in -2..1
  BY <1>3
<1> QED
  BY <1>1, <1>2, <1>3, <1>4, LeaveKeeps DEF Becomes

\* goes on,
LEMMA GoWalking ==
    ASSUME Threads, NEW c \in Clients, th[c].pc \in Walking, NEW l \in Walking, Go(c, l)
    PROVE  Becomes(c)
BY GoOn DEF Threads, Becomes, Go

\* or goes on with its variables changed.
LEMMA FrameBecomes ==
    ASSUME Threads, NEW c \in Clients, th[c].pc \in Walking, NEW l \in Walking,
           NEW f \in FrameType, f.old = Frame(c).old, f.new = Frame(c).new,
           th' = [th EXCEPT ![c].pc = l, ![c].stack = SetFrame(c, f)]
    PROVE  /\ Becomes(c)
           /\ th' = [th EXCEPT ![c] = [th[c] EXCEPT !.pc = l, !.stack = SetFrame(c, f)]]
<1>1. RequestOK([th[c] EXCEPT !.pc = l, !.stack = SetFrame(c, f)])
  BY FrameKeeps DEF Threads, Frame, SetFrame
<1>2. th' = [th EXCEPT ![c] = [th[c] EXCEPT !.pc = l, !.stack = SetFrame(c, f)]]
  BY DEF Threads
<1> QED
  BY <1>1, <1>2 DEF Becomes

LEMMA EnterDoes ==
    ASSUME SInv, NEW c \in Clients, Enter(c)
    PROVE  Does(c)
<1> DEFINE new == NewName(c, Frame(c))
           f == [Frame(c) EXCEPT !.type = TypeOf(Thing(new))]
<1>1. DataOK /\ Threads
  BY SInvIs
<1>2. th[c].pc = "enter" /\ th[c].pc \in Walking /\ "chdir" \in Walking
  BY DEF Enter, At, Walking
<1>3. Frame(c) \in FrameType /\ new \in Strings /\ Inside(th[c], new)
  BY <1>1, <1>2, TopFrame
<1>4. Becomes(c)
  <2>1. Go(c, "chdir") => Becomes(c)
    BY <1>1, <1>2, GoWalking
  <2>2. Fails(c, {-1}) => Becomes(c)
    BY <1>1, <1>2, FailsBecomes
  <2>3. ASSUME th' = [th EXCEPT ![c].pc = "chdir", ![c].stack = SetFrame(c, f)]
        PROVE  Becomes(c)
    <3>1. f \in FrameType /\ f.old = Frame(c).old /\ f.new = Frame(c).new
      BY <1>3 DEF FrameType, TypeOf
    <3> HIDE DEF f
    <3> QED
      BY <1>1, <1>2, <2>3, <3>1, FrameBecomes
  <2> QED
    BY <2>1, <2>2, <2>3 DEF Enter
<1>5. /\ Only(new) /\ faults' \in 0..MaxFaults
      /\ table' \in [Paths -> Things \union {"absent", "unset"}]
  <2>1. Mkdirs(new) \/ MkdirFails(new) => 
        /\ Only(new) /\ faults' \in 0..MaxFaults
        /\ table' \in [Paths -> Things \union {"absent", "unset"}]
    BY <1>1, MkdirsOnly
  <2>2. UNCHANGED <<bucket, table>> /\ (Fault \/ NoFault) => 
        /\ Only(new) /\ faults' \in 0..MaxFaults
        /\ table' \in [Paths -> Things \union {"absent", "unset"}]
    BY <1>1, SameOnly, FaultType DEF DataOK
  <2> QED
    BY <2>1, <2>2 DEF Enter
<1>6. DataOK'
  BY <1>1, <1>5 DEF DataOK, Only, Enter
<1> QED
  BY <1>3, <1>4, <1>5, <1>6 DEF Does

LEMMA ChdirDoes ==
    ASSUME SInv, NEW c \in Clients, Chdir(c)
    PROVE  Does(c)
<1>1. DataOK /\ Threads
  BY SInvIs
<1>2. th[c].pc = "chdir" /\ th[c].pc \in Walking /\ "opendir" \in Walking
  BY DEF Chdir, At, Walking
<1>3. Becomes(c)
  <2>1. Go(c, "opendir") => Becomes(c)
    BY <1>1, <1>2, GoWalking
  <2>2. Fails(c, Failures) => Becomes(c)
    BY <1>1, <1>2, FailsBecomes DEF Failures
  <2> QED
    BY <2>1, <2>2 DEF Chdir
<1>4. cwd' \in Paths \union {Root}
  BY <1>1, ThingType DEF Chdir, DataOK
<1>5. Only(th[c].path) /\ faults' \in 0..MaxFaults
  BY <1>1, SameOnly, FaultType DEF Chdir, DataOK
<1>6. DataOK'
  BY <1>1, <1>4, <1>5 DEF DataOK, Only, Chdir
<1> QED
  BY <1>1, <1>3, <1>5, <1>6, Self DEF Does

LEMMA OpendirDoes ==
    ASSUME SInv, NEW c \in Clients, Opendir(c)
    PROVE  Does(c)
<1> DEFINE f == [Frame(c) EXCEPT !.todo = Listing(cwd)]
<1>1. DataOK /\ Threads
  BY SInvIs
<1>2. th[c].pc = "opendir" /\ th[c].pc \in Walking /\ "next" \in Walking
  BY DEF Opendir, At, Walking
<1>3. Frame(c) \in FrameType
  BY <1>1, <1>2, TopFrame
<1>4. Becomes(c)
  <2>1. Fails(c, Failures) => Becomes(c)
    BY <1>1, <1>2, FailsBecomes DEF Failures
  <2>2. ASSUME th' = [th EXCEPT ![c].pc = "next", ![c].stack = SetFrame(c, f)]
        PROVE  Becomes(c)
    <3>1. f \in FrameType /\ f.old = Frame(c).old /\ f.new = Frame(c).new
      BY <1>3 DEF FrameType, Listing
    <3> HIDE DEF f
    <3> QED
      BY <1>1, <1>2, <2>2, <3>1, FrameBecomes
  <2> QED
    BY <2>1, <2>2 DEF Opendir
<1>5. Only(th[c].path) /\ faults' \in 0..MaxFaults
  BY <1>1, SameOnly, FaultType DEF Opendir, DataOK
<1>6. DataOK'
  BY <1>1, <1>5 DEF DataOK, Only, Opendir
<1> QED
  BY <1>1, <1>4, <1>5, <1>6, Self DEF Does

\* NextEntry, in terms of the request after it.
LEMMA NextIs ==
    ASSUME Threads, NEW c \in Clients, NextEntry(c)
    PROVE  /\ UNCHANGED <<bucket, table, cwd>> /\ (Fault \/ NoFault)
           /\ \E n \in Frame(c).todo :
                 \/ /\ NoFault
                    /\ \E y \in IF Thing(SrcOf(th[c], n)) # "none" THEN {TypeOf(Thing(SrcOf(th[c], n)))}
                                ELSE IF Frame(c).type = "unset" THEN Garbage ELSE {Frame(c).type} :
                          \/ y = "dir" /\ th' = [th EXCEPT ![c] = Entered(th[c], n)]
                          \/ y # "dir" /\ th' = [th EXCEPT ![c] = Found(th[c], n, y)]
                 \/ Fault /\ Leave(c, -1, TmpOf(th[c], n))
<1> DEFINE t == th[c]
           f == Frame(c)
           Y(n) == IF Thing(SrcOf(t, n)) # "none" THEN {TypeOf(Thing(SrcOf(t, n)))}
                   ELSE IF f.type = "unset" THEN Garbage ELSE {f.type}
<1>1. t \in Request
  BY DEF Threads
<1>2. \A n : /\ Append(OldName(c, f), n) = SrcOf(t, n)
             /\ (IF f.new = 0 THEN t.to ELSE Slot(Append(t.tmp, SrcOf(t, n)), f.new)) = DirOf(t, n)
  BY NamesOf DEF SrcOf, DirOf, Frame
<1>3. PICK n \in f.todo :
        \/ /\ NoFault
           /\ \E y \in Y(n) :
                 LET st == SetFrame(c, [f EXCEPT !.todo = @ \ {n}, !.type = y]) IN
                 th' = [th EXCEPT ![c].tmp = TmpOf(t, n),
                                  ![c].pc = IF y = "dir" THEN "enter" ELSE "copy",
                                  ![c].file = IF y = "dir" THEN @ ELSE EntryOf(t, n),
                                  ![c].stack = IF y = "dir"
                                               THEN Append(st, NewFrame(EntryOf(t, n).old, EntryOf(t, n).new))
                                               ELSE st]
        \/ Fault /\ Leave(c, -1, TmpOf(t, n))
  BY DEF NextEntry, TmpOf, EntryOf, SrcOf, DirOf, OldOf, OldName, Frame
<1>4. ASSUME NEW y,
             LET st == SetFrame(c, [f EXCEPT !.todo = @ \ {n}, !.type = y]) IN
             th' = [th EXCEPT ![c].tmp = TmpOf(t, n),
                              ![c].pc = IF y = "dir" THEN "enter" ELSE "copy",
                              ![c].file = IF y = "dir" THEN @ ELSE EntryOf(t, n),
                              ![c].stack = IF y = "dir"
                                           THEN Append(st, NewFrame(EntryOf(t, n).old, EntryOf(t, n).new))
                                           ELSE st]
      PROVE  \/ y = "dir" /\ th' = [th EXCEPT ![c] = Entered(t, n)]
             \/ y # "dir" /\ th' = [th EXCEPT ![c] = Found(t, n, y)]
  <2> DEFINE st == SetFrame(c, [f EXCEPT !.todo = @ \ {n}, !.type = y])
             g == NewFrame(EntryOf(t, n).old, EntryOf(t, n).new)
             x == TmpOf(t, n)
             e == EntryOf(t, n)
  <2>0. th' = [th EXCEPT ![c].tmp = x,
                         ![c].pc = IF y = "dir" THEN "enter" ELSE "copy",
                         ![c].file = IF y = "dir" THEN @ ELSE e,
                         ![c].stack = IF y = "dir" THEN Append(st, g) ELSE st]
    BY <1>4
  <2>1. /\ y = "dir" =>
           th' = [th EXCEPT ![c] = [t EXCEPT !.tmp = x, !.pc = "enter", !.stack = Append(st, g)]]
        /\ y # "dir" =>
           th' = [th EXCEPT ![c] = [t EXCEPT !.tmp = x, !.pc = "copy", !.file = e, !.stack = st]]
    <3> HIDE DEF st, g, x, e
    <3>1. CASE y = "dir"
      <4>1. th' = [th EXCEPT ![c] = [t EXCEPT !.tmp = x, !.pc = "enter", !.file = @, !.stack = Append(st, g)]]
        BY <2>0, <3>1 DEF Threads
      <4>2. [t EXCEPT !.tmp = x, !.pc = "enter", !.file = @, !.stack = Append(st, g)]
               = [t EXCEPT !.tmp = x, !.pc = "enter", !.stack = Append(st, g)]
        BY <1>1 DEF Request
      <4> QED
        BY <3>1, <4>1, <4>2
    <3>2. CASE y # "dir"
      BY <2>0, <3>2 DEF Threads
    <3> QED
      BY <3>1, <3>2
  <2>2. st = ReadOn(t, n, y)
    BY DEF SetFrame, ReadOn, Left, Frame
  <2> HIDE DEF st
  <2> QED
    BY <2>1, <2>2 DEF Entered, Found
<1>5. UNCHANGED <<bucket, table, cwd>> /\ (Fault \/ NoFault)
  BY DEF NextEntry
<1> QED
  BY <1>3, <1>4, <1>5

LEMMA NextEntryDoes ==
    ASSUME SInv, NEW c \in Clients, NextEntry(c)
    PROVE  Does(c)
<1> DEFINE t == th[c]
<1>1. DataOK /\ Threads
  BY SInvIs
<1>2. t.pc = "next" /\ t.pc \in Walking /\ RequestOK(t) /\ t.pc # "done"
  BY <1>1 DEF NextEntry, At, Walking, Threads
<1>3. PICK n \in Last(t.stack).todo :
                 \/ \E y \in {"reg", "dir"} :
                          \/ th' = [th EXCEPT ![c] = Entered(t, n)]
                          \/ th' = [th EXCEPT ![c] = Found(t, n, y)]
                 \/ Leave(c, -1, TmpOf(t, n))
  <2>1. Frame(c) \in FrameType
    BY <1>1, <1>2, TopFrame
  <2>2. \A n : (IF Thing(SrcOf(th[c], n)) # "none" THEN {TypeOf(Thing(SrcOf(th[c], n)))}
                ELSE IF Frame(c).type = "unset" THEN Garbage ELSE {Frame(c).type}) \subseteq {"reg", "dir"}
    BY <2>1 DEF TypeOf, Garbage, FrameType
  <2> QED
    BY <1>1, <2>2, NextIs DEF Frame
<1>4. /\ TmpOf(t, n) \in Seq(Strings) /\ Len(TmpOf(t, n)) = Len(t.tmp) + 2
      /\ \A i \in 1..Len(t.tmp) + 2 : Inside(t, TmpOf(t, n)[i])
  BY <1>2, PrintedNames
<1>5. Becomes(c)
  <2>1. RequestOK(Entered(t, n)) /\ \A y \in {"reg", "dir"} : RequestOK(Found(t, n, y))
    BY <1>2, EnteredKeeps, FoundKeeps
  <2>2. Leave(c, -1, TmpOf(t, n)) => Becomes(c)
    <3> DEFINE x == TmpOf(t, n)
    <3>1. Len(t.tmp) \in Nat
      BY <1>2, TmpInside
    <3> HIDE DEF x
    <3>2. /\ x \in Seq(Strings) /\ Len(t.tmp) <= Len(x) /\ -1 \in -2..1
          /\ \A i \in 1..Len(x) : Inside(t, x[i])
      BY <1>4, <3>1 DEF x
    <3>3. Leave(c, -1, x) => Becomes(c)
      BY <1>2, <3>2, LeaveKeeps DEF Becomes
    <3> QED
      BY <3>3 DEF x
  <2> QED
    BY <1>3, <2>1, <2>2 DEF Becomes
<1>6. Only(th[c].path) /\ faults' \in 0..MaxFaults /\ UNCHANGED <<bucket, table, cwd>>
  BY <1>1, SameOnly, FaultType DEF NextEntry, DataOK
<1>7. DataOK'
  BY <1>1, <1>6 DEF DataOK, Only
<1> QED
  BY <1>1, <1>5, <1>6, <1>7, Self DEF Does

\* One more string, that is inside.
LEMMA OneMoreInside ==
    ASSUME NEW t, NEW s \in Seq(Strings), \A i \in 1..Len(s) : Inside(t, s[i]),
           NEW x \in Strings, Inside(t, x)
    PROVE  /\ Append(s, x) \in Seq(Strings) /\ Len(Append(s, x)) = Len(s) + 1
           /\ \A i \in 1..Len(Append(s, x)) : Inside(t, Append(s, x)[i])
<1>1. /\ Append(s, x) \in Seq(Strings) /\ Len(Append(s, x)) = Len(s) + 1 /\ Len(s) \in Nat
      /\ \A i \in 1..Len(s) : Append(s, x)[i] = s[i]
      /\ Append(s, x)[Len(s) + 1] = x
  BY AppendProperties, LenProperties
<1> DEFINE u == Append(s, x)
<1> HIDE DEF u
<1>2. \A i \in 1..Len(s) + 1 : Inside(t, u[i])
  <2>1. \A i \in 1..Len(s) + 1 : i \in 1..Len(s) \/ i = Len(s) + 1
    BY <1>1
  <2>2. u[Len(s) + 1] = x /\ \A i \in 1..Len(s) : u[i] = s[i]
    BY <1>1 DEF u
  <2> QED
    BY <2>1, <2>2
<1> QED
  BY <1>1, <1>2 DEF u

\* The name of a cache file is inside of every request.
LEMMA CacheName ==
    ASSUME NEW t, NEW x \in Strings
    PROVE  CacheDir \o x \in Strings /\ Inside(t, CacheDir \o x)
<1>1. CacheDir \in Strings
  BY PathStrings
<1>2. CacheDir \o x \in Strings
  BY <1>1, ConcatProperties DEF Strings
<1>3. IsPrefix(CacheDir, CacheDir \o x)
  BY <1>1, PrefixConcat DEF Strings
<1> QED
  BY <1>2, <1>3 DEF Inside

\* What rename_file reads when it uses its two names.
LEMMA FileReads ==
    ASSUME Threads, NEW c \in Clients, th[c].pc \in Moving
    PROVE  /\ OldName(c, th[c].file) \in Strings /\ Inside(th[c], OldName(c, th[c].file))
           /\ NewName(c, th[c].file) \in Strings /\ Inside(th[c], NewName(c, th[c].file))
           /\ th[c].stack # <<>> => /\ OldName(c, th[c].file) # <<>>
                                    /\ Inside(th[c], Front(OldName(c, th[c].file)))
           /\ th[c].stack = <<>> => /\ OldName(c, th[c].file) = th[c].path
                                    /\ NewName(c, th[c].file) = th[c].to /\ th[c].tmp = <<>>
           /\ th[c].tmp \in Seq(Strings) /\ Len(th[c].tmp) \in Nat
           /\ \A i \in 1..Len(th[c].tmp) : Inside(th[c], th[c].tmp[i])
<1>1. RequestOK(th[c]) /\ th[c].pc # "done"
  BY DEF Threads, Moving
<1>2. /\ OldOf(th[c], th[c].file) \in Strings /\ Inside(th[c], OldOf(th[c], th[c].file))
      /\ NewOf(th[c], th[c].file) \in Strings /\ Inside(th[c], NewOf(th[c], th[c].file))
  BY <1>1, FileNames
<1>3. th[c].stack # <<>> => /\ OldOf(th[c], th[c].file) # <<>>
                            /\ Inside(th[c], Front(OldOf(th[c], th[c].file)))
  BY <1>1, FileNames
<1>4. th[c].stack = <<>> => /\ OldOf(th[c], th[c].file) = th[c].path
                            /\ NewOf(th[c], th[c].file) = th[c].to /\ th[c].tmp = <<>>
  BY <1>1, FileNames
<1>5. /\ th[c].tmp \in Seq(Strings) /\ Len(th[c].tmp) \in Nat
      /\ \A i \in 1..Len(th[c].tmp) : Inside(th[c], th[c].tmp[i])
  BY <1>1, TmpInside
<1> QED
  BY <1>2, <1>3, <1>4, <1>5, NamesOf

LEMMA CopyDoes ==
    ASSUME SInv, NEW c \in Clients, Copy(c)
    PROVE  Does(c)
<1> DEFINE src == OldName(c, th[c].file)
           dst == NewName(c, th[c].file)
<1>1. DataOK /\ Threads
  BY SInvIs
<1>2. th[c].pc = "copy" /\ th[c].pc \in Moving /\ "forget" \in Moving /\ RequestOK(th[c])
  BY <1>1 DEF Copy, At, Moving, Threads
<1>3. /\ dst \in Strings /\ Inside(th[c], dst)
      /\ th[c].tmp \in Seq(Strings) /\ Len(th[c].tmp) \in Nat
      /\ \A i \in 1..Len(th[c].tmp) : Inside(th[c], th[c].tmp[i])
  BY <1>1, <1>2, FileReads
<1>4. Becomes(c)
  <2>1. Go(c, "forget") => Becomes(c)
    BY <1>2, GoOn DEF Go, Becomes
  <2>2. Returned(c, th[c].stack, -1, th[c].tmp) => Becomes(c)
    <3>1. Len(th[c].tmp) <= Len(th[c].tmp) /\ -1 \in -2..1
      BY <1>3
    <3> QED
      BY <1>2, <1>3, <3>1, FileKeeps DEF Becomes
  <2> QED
    BY <2>1, <2>2 DEF Copy
<1>5. Only(dst) /\ faults' \in 0..MaxFaults
  <2>1. Thing(src) \in Things /\ bucket \in [Paths -> Things]
    BY <1>1, ThingType DEF DataOK
  <2>2. Only(dst)
    <3>1. bucket' = Put(dst, Thing(src)) => Only(dst)
      BY <2>1, PutOnly
    <3>2. LostPut(dst, Thing(src)) => Only(dst)
      BY <2>1, LostPutOnly
    <3>3. UNCHANGED bucket => Only(dst)
      BY <2>1, SameOnly
    <3> QED
      BY <3>1, <3>2, <3>3 DEF Copy
  <2>3. faults' \in 0..MaxFaults
    BY <1>1, FaultType DEF Copy, LostPut, DataOK
  <2> QED
    BY <2>2, <2>3
<1>6. DataOK'
  BY <1>1, <1>5 DEF DataOK, Only, Copy
<1> QED
  BY <1>3, <1>4, <1>5, <1>6 DEF Does

\* What rename_file has printed when it returns.
ForgetTmp(c) ==
    LET old == OldName(c, th[c].file)
        t1  == Append(th[c].tmp, CacheDir \o old)
    IN  IF table[old] = "absent" THEN t1 ELSE Append(t1, Front(old))

\* What dfs_unlink prints is inside.
LEMMA ForgetTmpIs ==
    ASSUME Threads, NEW c \in Clients, th[c].pc \in Moving
    PROVE  /\ ForgetTmp(c) \in Seq(Strings) /\ Len(th[c].tmp) <= Len(ForgetTmp(c))
           /\ th[c].stack # <<>> => \A i \in 1..Len(ForgetTmp(c)) : Inside(th[c], ForgetTmp(c)[i])
<1> DEFINE t == th[c]
           old == OldName(c, t.file)
           t1 == Append(t.tmp, CacheDir \o old)
           t2 == Append(t1, Front(old))
<1>1. /\ old \in Strings /\ t.tmp \in Seq(Strings) /\ Len(t.tmp) \in Nat
      /\ \A i \in 1..Len(t.tmp) : Inside(t, t.tmp[i])
      /\ t.stack # <<>> => old # <<>> /\ Inside(t, Front(old))
  BY FileReads
<1>2. Front(old) \in Strings
  <2> HIDE DEF old
  <2>1. CASE old = <<>>
    BY <2>1, FrontOfNothing, EmptySeq DEF Strings
  <2>2. CASE old # <<>>
    BY <1>1, <2>2, FrontIs DEF Strings
  <2> QED
    BY <2>1, <2>2
<1> HIDE DEF t, old
<1>3. /\ t1 \in Seq(Strings) /\ Len(t1) = Len(t.tmp) + 1 /\ \A i \in 1..Len(t1) : Inside(t, t1[i])
  BY <1>1, CacheName, OneMoreInside
<1> HIDE DEF t1
<1>4. /\ t2 \in Seq(Strings) /\ Len(t2) = Len(t1) + 1
      /\ t.stack # <<>> => \A i \in 1..Len(t2) : Inside(t, t2[i])
  <2>1. t2 \in Seq(Strings) /\ Len(t2) = Len(t1) + 1
    BY <1>2, <1>3, AppendProperties
  <2>2. t.stack # <<>> => \A i \in 1..Len(t2) : Inside(t, t2[i])
    BY <1>1, <1>2, <1>3, OneMoreInside
  <2> QED
    BY <2>1, <2>2
<1> HIDE DEF t2
<1>5. ForgetTmp(c) = IF table[old] = "absent" THEN t1 ELSE t2
  BY DEF ForgetTmp, t2, t1, old, t
<1>6. Len(t.tmp) <= Len(t1) /\ Len(t.tmp) <= Len(t2)
  BY <1>1, <1>3, <1>4
<1>7. CASE table[old] = "absent"
  BY <1>3, <1>5, <1>6, <1>7 DEF t
<1>8. CASE table[old] # "absent"
  BY <1>4, <1>5, <1>6, <1>8 DEF t
<1> QED
  BY <1>7, <1>8

LEMMA ForgetDoes ==
    ASSUME SInv, NEW c \in Clients, Forget(c)
    PROVE  Does(c)
<1> DEFINE old == OldName(c, th[c].file)
<1>1. DataOK /\ Threads
  BY SInvIs
<1>2. th[c].pc = "forget" /\ th[c].pc \in Moving /\ RequestOK(th[c])
  BY <1>1 DEF Forget, At, Moving, Threads
<1>3. /\ old \in Strings /\ Inside(th[c], old)
      /\ th[c].tmp \in Seq(Strings) /\ Len(th[c].tmp) \in Nat
      /\ \A i \in 1..Len(th[c].tmp) : Inside(th[c], th[c].tmp[i])
  BY <1>1, <1>2, FileReads
<1>4. \/ Unlinks(old) /\ Returned(c, th[c].stack, 0, ForgetTmp(c))
      \/ UnlinkFails(old) /\ Returned(c, th[c].stack, 1, th[c].tmp)
  BY DEF Forget, ForgetTmp
<1>5. Becomes(c)
  <2>1. Returned(c, th[c].stack, 0, ForgetTmp(c)) => Becomes(c)
    <3>1. /\ ForgetTmp(c) \in Seq(Strings) /\ Len(th[c].tmp) <= Len(ForgetTmp(c)) /\ 0 \in -2..1
          /\ th[c].stack # <<>> => \A i \in 1..Len(ForgetTmp(c)) : Inside(th[c], ForgetTmp(c)[i])
      BY <1>1, <1>2, ForgetTmpIs
    <3> QED
      BY <1>2, <3>1, FileKeeps DEF Becomes
  <2>2. Returned(c, th[c].stack, 1, th[c].tmp) => Becomes(c)
    <3>1. Len(th[c].tmp) <= Len(th[c].tmp) /\ 1 \in -2..1
      BY <1>3
    <3> QED
      BY <1>2, <1>3, <3>1, FileKeeps DEF Becomes
  <2> QED
    BY <1>4, <2>1, <2>2
<1>6. /\ Only(old) /\ faults' \in 0..MaxFaults
      /\ table' \in [Paths -> Things \union {"absent", "unset"}]
  BY <1>1, <1>4, UnlinksOnly
<1>7. DataOK'
  BY <1>1, <1>6 DEF DataOK, Only, Forget
<1> QED
  BY <1>3, <1>5, <1>6, <1>7 DEF Does

LEMMA LeaveDirDoes ==
    ASSUME SInv, NEW c \in Clients, LeaveDir(c)
    PROVE  Does(c)
<1> DEFINE old == OldName(c, Frame(c))
           s == Append(th[c].tmp, CacheDir \o old)
<1>1. DataOK /\ Threads
  BY SInvIs
<1>2. th[c].pc = "next" /\ th[c].pc \in Walking /\ RequestOK(th[c]) /\ th[c].pc # "done"
  BY <1>1 DEF LeaveDir, At, Walking, Threads
<1>3. old \in Strings /\ Inside(th[c], old)
  BY <1>1, <1>2, TopFrame
<1>4. /\ th[c].tmp \in Seq(Strings) /\ Len(th[c].tmp) \in Nat
      /\ \A i \in 1..Len(th[c].tmp) : Inside(th[c], th[c].tmp[i])
  BY <1>2, TmpInside
<1>5. \/ NoFault /\ Fails(c, {-1}) /\ UNCHANGED bucket
      \/ Rmdirs(old) /\ Leave(c, 0, s)
      \/ RmdirFails(old) /\ Leave(c, 0, th[c].tmp)
  BY DEF LeaveDir
<1>6. Becomes(c)
  <2>1. Fails(c, {-1}) => Becomes(c)
    BY <1>1, <1>2, FailsBecomes
  <2>2. Leave(c, 0, s) => Becomes(c)
    <3> HIDE DEF old
    <3>1. s \in Seq(Strings) /\ Len(s) = Len(th[c].tmp) + 1 /\ \A i \in 1..Len(s) : Inside(th[c], s[i])
      BY <1>3, <1>4, CacheName, OneMoreInside
    <3> HIDE DEF s
    <3>2. Len(th[c].tmp) <= Len(s) /\ 0 \in -2..1
      BY <1>4, <3>1
    <3> QED
      BY <1>2, <3>1, <3>2, LeaveKeeps DEF Becomes
  <2>3. Leave(c, 0, th[c].tmp) => Becomes(c)
    <3>1. Len(th[c].tmp) <= Len(th[c].tmp) /\ 0 \in -2..1
      BY <1>4
    <3> QED
      BY <1>2, <1>4, <3>1, LeaveKeeps DEF Becomes
  <2> QED
    BY <1>5, <2>1, <2>2, <2>3
<1>7. Only(old) /\ faults' \in 0..MaxFaults
  BY <1>1, <1>5, SameOnly, RmdirsOnly, FaultType DEF DataOK
<1>8. DataOK'
  BY <1>1, <1>7 DEF DataOK, Only, LeaveDir
<1> QED
  BY <1>3, <1>6, <1>7, <1>8 DEF Does

\* Every step keeps the types and writes inside of its request.
LEMMA ServeDoes ==
    ASSUME SInv, NEW c \in Clients, Begin(c) \/ Serve(c)
    PROVE  Does(c)
BY BeginDoes, ResolveDoes, MknodDoes, SetattrDoes, MkdirDoes, UnlinkDoes, RmdirDoes, ReaddirDoes,
   ListDoes, RenameDoes, EnterDoes, ChdirDoes, OpendirDoes, NextEntryDoes, CopyDoes, ForgetDoes,
   LeaveDirDoes, FinishDoes DEF Serve

\* What keeps the types of one request keeps those of all.
LEMMA DoesKeeps ==
    ASSUME SInv, NEW c \in Clients, Does(c)
    PROVE  SInv'
<1>1. PICK u : th' = [th EXCEPT ![c] = u] /\ RequestOK(u)
  BY DEF Does, Becomes
<1>2. Threads
  BY SInvIs
<1>3. \A d \in Clients : th'[d] = IF d = c THEN u ELSE th[d]
  BY <1>1, <1>2 DEF Threads
<1>4. \A d \in Clients : RequestOK(th'[d])
  BY <1>1, <1>2, <1>3 DEF Threads
<1>5. th' \in [Clients -> Request]
  BY <1>1, <1>2 DEF Threads, RequestOK
<1>6. \A d \in Clients : ~(th'[d].op = "rename" /\ th'[d].pc \notin {"idle", "done"})
                            => th'[d].stack = <<>>
  BY <1>4 DEF RequestOK, StepOK, Walking, Moving
<1> QED
  BY <1>4, <1>5, <1>6 DEF SInv, TypeOK, Does, DataOK, Renaming

\* The invariant of the types is inductive.
LEMMA SInvStays == SInv /\ [Next]_vars => SInv'
<1> SUFFICES ASSUME SInv, [Next]_vars PROVE SInv'
  OBVIOUS
<1>1. ASSUME NEW c \in Clients, Begin(c) \/ Serve(c)
      PROVE  SInv'
  BY <1>1, ServeDoes, DoesKeeps
<1>2. CASE UNCHANGED vars
  BY <1>2 DEF vars, SInv, TypeOK, Renaming
<1> QED
  BY <1>1, <1>2 DEF Next

\* It holds when the file system is mounted.
LEMMA SInvStarts == Init => SInv
<1> SUFFICES ASSUME Init PROVE SInv
  OBVIOUS
<1>1. DataOK
  BY BucketsAssumption, NumbersAssumption DEF Init, DataOK
<1>2. Threads
  BY IdleKeeps DEF Init, Threads, RequestOK
<1> QED
  BY <1>1, <1>2, SInvIs

\* The types of all variables; a rename that is over has left all directories.
THEOREM TypesAreRight == Spec => []TypeOK
<1>1. SInv => TypeOK
  BY DEF SInv
<1> QED
  BY <1>1, SInvStarts, SInvStays, PTL DEF Spec

\* Only a request that has come is served.
LEMMA RunsThen ==
    ASSUME NEW c \in Clients, Serve(c)
    PROVE  th[c].pc # "idle"
<1>1. Mknod(c) => th[c].pc # "idle"
  BY DEF Mknod
<1> QED
  BY <1>1 DEF Serve, At, Resolve, Setattr, Mkdir, Unlink, Rmdir, Readdir, List, Rename, Enter, Chdir,
              Opendir, NextEntry, Copy, Forget, LeaveDir, Finish

\* What a step of c writes is below a name of c's request.
LEMMA WritesInside ==
    ASSUME SInv, CacheApart, NEW c \in Clients, Begin(c) \/ Serve(c),
           NEW p \in Paths, bucket'[p] # bucket[p]
    PROVE  /\ th[c].pc # "idle" /\ th[c].path \in Paths /\ th[c].to \in Paths
           /\ Below(th[c], p)
<1>1. th[c].pc # "idle"
  BY RunsThen DEF Begin
<1>2. RequestOK(th[c])
  BY SInvIs DEF Threads
<1>3. Inside(th[c], p)
  BY ServeDoes DEF Does, Only
<1> QED
  BY <1>1, <1>2, <1>3, RunningRequest DEF CacheApart, Inside

\* A request writes only to its own path, its target, and what is below them,
\* whatever directory opendir(".") has listed for rename_directory, and even
\* when the names it has printed have lost their buffers: what is in a buffer
\* is another name of the same request, or the name of a cache file.
THEOREM StaysInside ==
    ASSUME CacheApart
    PROVE  Spec => RenameStaysInside
<1> DEFINE Change == \A p \in Paths : bucket'[p] # bucket[p] =>
                        \E c \in Clients : \E q \in Touched(th[c]) : q # Root /\ IsPrefix(q, p)
<1>1. ASSUME SInv, [Next]_vars
      PROVE  [Change]_vars
  <2>1. ASSUME NEW c \in Clients, Begin(c) \/ Serve(c), NEW p \in Paths, bucket'[p] # bucket[p]
        PROVE  \E q \in Touched(th[c]) : q # Root /\ IsPrefix(q, p)
    <3>1. th[c].path \in Paths /\ th[c].to \in Paths /\ Below(th[c], p)
      BY <1>1, <2>1, WritesInside
    <3> QED
      BY <3>1, PathStrings DEF Below, Touched
  <2> QED
    BY <1>1, <2>1 DEF Next
<1>2. Spec => [][Change]_vars
  <2>1. SInv /\ [Next]_vars => [Change]_vars
    BY <1>1
  <2> HIDE DEF Change
  <2> QED
    BY <2>1, SInvStarts, SInvStays, PTL DEF Spec
<1> QED
  BY <1>2 DEF RenameStaysInside

-----------------------------------------------------------------------------
(* The locks of libfuse, and the cells of files.                            *)

\* What a request was asked stays what it is until it is over.
Named(c) == /\ th'[c].op = th[c].op /\ th'[c].path = th[c].path /\ th'[c].to = th[c].to
            /\ th'[c].displaces = th[c].displaces

\* A step changes one request.
LEMMA Others ==
    ASSUME Threads, NEW c \in Clients, Becomes(c), NEW d \in Clients, d # c
    PROVE  th'[d] = th[d]
BY DEF Threads, Becomes

\* A request keeps its operation and its names: when it goes on,
LEMMA FieldNamed ==
    ASSUME Threads, NEW c \in Clients
    PROVE  /\ \A l : Go(c, l) => Named(c)
           /\ \A r : Done(c, r) => Named(c)
           /\ \A l, s : th' = [th EXCEPT ![c].pc = l, ![c].stack = s] => Named(c)
<1>1. th[c] \in Request /\ th \in [Clients -> Request]
  BY DEF Threads
<1>2. ASSUME NEW l, Go(c, l)
      PROVE  Named(c)
  BY <1>1, <1>2 DEF Go, Named, Request
<1>3. ASSUME NEW r, Done(c, r)
      PROVE  Named(c)
  BY <1>1, <1>3 DEF Done, Named, Request
<1>4. ASSUME NEW l, NEW s, th' = [th EXCEPT ![c].pc = l, ![c].stack = s]
      PROVE  Named(c)
  BY <1>1, <1>4 DEF Named, Request
<1> QED
  BY <1>2, <1>3, <1>4

\* when a call returns,
LEMMA ReturnNamed ==
    ASSUME Threads, NEW c \in Clients, NEW rest, NEW r, NEW s, Returned(c, rest, r, s)
    PROVE  Named(c)
<1>1. th[c] \in Request /\ th \in [Clients -> Request]
  BY DEF Threads
<1>2. CASE rest = <<>>
  <2>1. th' = [th EXCEPT ![c] = Ended(th[c], r, s)]
    BY <1>2, ReturnedIs
  <2> QED
    BY <1>1, <2>1 DEF Ended, Named, Request
<1>3. CASE rest # <<>>
  <2>1. th' = [th EXCEPT ![c] = Resumed(th[c], rest, r, s)]
    BY <1>3, ReturnedIs
  <2> QED
    BY <1>1, <2>1 DEF Resumed, Named, Request
<1> QED
  BY <1>2, <1>3

\* and so in every step but the last one.
LEMMA ServeNamed ==
    ASSUME SInv, NEW c \in Clients, Serve(c), ~Finish(c)
    PROVE  Named(c)
<1>1. Threads
  BY SInvIs
<1>2. /\ \A l : Go(c, l) => Named(c)
      /\ \A r : Done(c, r) => Named(c)
  BY <1>1, FieldNamed
<1>3. \A l, s : th' = [th EXCEPT ![c].pc = l, ![c].stack = s] => Named(c)
  BY <1>1, FieldNamed
<1>4. \A r, s : Leave(c, r, s) => Named(c)
  BY <1>1, ReturnNamed DEF Leave
<1>5. \A R : Fails(c, R) => Named(c)
  BY <1>4 DEF Fails
<1>6. Resolve(c) \/ Mknod(c) \/ Setattr(c) \/ Mkdir(c) \/ Unlink(c) \/ Rmdir(c) \/ Readdir(c) \/ List(c)
        => Named(c)
  BY <1>2 DEF Resolve, Mknod, Setattr, Mkdir, Unlink, Rmdir, Readdir, List
<1>7. Rename(c) \/ Enter(c) \/ Chdir(c) \/ Opendir(c) => Named(c)
  BY <1>2, <1>3, <1>5 DEF Rename, Enter, Chdir, Opendir
<1>8. NextEntry(c) => Named(c)
  <2>1. ASSUME NEW n, th' = [th EXCEPT ![c] = Entered(th[c], n)]
        PROVE  Named(c)
    BY <1>1, <2>1 DEF Threads, Entered, Named, Request
  <2>2. ASSUME NEW n, NEW y, th' = [th EXCEPT ![c] = Found(th[c], n, y)]
        PROVE  Named(c)
    BY <1>1, <2>2 DEF Threads, Found, Named, Request
  <2> QED
    BY <1>1, <1>4, <2>1, <2>2, NextIs
<1>9. Copy(c) \/ Forget(c) => Named(c)
  BY <1>1, <1>2, ReturnNamed DEF Copy, Forget
<1>10. LeaveDir(c) => Named(c)
  BY <1>4, <1>5 DEF LeaveDir
<1> QED
  BY <1>6, <1>7, <1>8, <1>9, <1>10 DEF Serve

\* Whether two requests conflict depends on what they ask.
LEMMA ConflictNames ==
    /\ \A q, r : Conflict(q, r) => Conflict(r, q)
    /\ \A q, u, r : q.op = u.op /\ q.path = u.path /\ q.to = u.to =>
                       (Conflict(q, r) <=> Conflict(u, r))
BY DEF Conflict, Touched, Writes

\* The locks of libfuse keep requests apart.
LEMMA ApartStays ==
    ASSUME SInv, Apart, NEW c \in Clients, Begin(c) \/ Serve(c)
    PROVE  Apart'
<1>1. Threads
  BY SInvIs
<1>2. \A d \in Clients : d # c => th'[d] = th[d]
  BY <1>1, ServeDoes, Others DEF Does
<1>3. SUFFICES ASSUME NEW d \in Clients, d # c, th'[c].pc # "idle", th[d].pc # "idle"
               PROVE  ~Conflict(th'[c], th[d])
  BY <1>2, ConflictNames DEF Apart
<1>4. CASE Begin(c)
  <2>1. PICK q \in Asks :
          /\ \A e \in Clients : th[e].pc # "idle" => ~Conflict(q, th[e])
          /\ th' = [th EXCEPT ![c] = [Idle EXCEPT !.pc = "resolve", !.op = q.op,
                                                  !.path = q.path, !.to = q.to,
                                                  !.displaces = Displaces(q)]]
    BY <1>4 DEF Begin
  <2>2. th'[c].op = q.op /\ th'[c].path = q.path /\ th'[c].to = q.to
    BY <1>1, <2>1 DEF Threads, Idle
  <2> QED
    BY <1>3, <2>1, <2>2, ConflictNames
<1>5. CASE Serve(c) /\ ~Finish(c)
  <2>1. Named(c) /\ th[c].pc # "idle"
    BY <1>5, ServeNamed, RunsThen
  <2>2. ~Conflict(th[c], th[d])
    BY <1>3, <2>1 DEF Apart
  <2> QED
    BY <2>1, <2>2, ConflictNames DEF Named
<1>6. CASE Finish(c)
  BY <1>1, <1>3, <1>6 DEF Finish, Threads, Idle
<1> QED
  BY <1>4, <1>5, <1>6

\* What a step does to the table, other than dfs_getattr.
TableKeeps == \A p \in Paths : table'[p] # table[p] => table'[p] \in {"absent", "unset"}

\* Only the LOOKUP before a request puts metadata in a cell.
LEMMA TableOnly ==
    ASSUME SInv, NEW c \in Clients, Begin(c) \/ Serve(c)
    PROVE  \/ TableKeeps
           \/ /\ Resolve(c)
              /\ table' = [p \in Paths |-> IF p \in Touched(th[c]) THEN Cached(p) ELSE table[p]]
<1>1. DataOK
  BY SInvIs
<1>2. UNCHANGED table => TableKeeps
  BY DEF TableKeeps
<1>3. \A p : Mkdirs(p) => TableKeeps
  BY <1>1 DEF Mkdirs, TableKeeps, DataOK
<1>4. \A p : MkdirFails(p) \/ UnlinkFails(p) => TableKeeps
  BY <1>2 DEF MkdirFails, UnlinkFails
<1>5. \A p : Unlinks(p) => TableKeeps
  BY <1>1 DEF Unlinks, TableKeeps, DataOK
<1>6. Resolve(c) =>
        \/ TableKeeps
        \/ table' = [p \in Paths |-> IF p \in Touched(th[c]) THEN Cached(p) ELSE table[p]]
  <2>1. table' = [table EXCEPT ![th[c].path] = IF @ = "absent" THEN "unset" ELSE @] => TableKeeps
    BY <1>1 DEF TableKeeps, DataOK
  <2> QED
    BY <2>1 DEF Resolve
<1>7. Enter(c) => TableKeeps
  BY <1>2, <1>3, <1>4 DEF Enter
<1>8. Mkdir(c) \/ Unlink(c) \/ Forget(c) => TableKeeps
  BY <1>3, <1>4, <1>5 DEF Mkdir, Unlink, Forget
<1>9. Begin(c) \/ Mknod(c) \/ Setattr(c) \/ Rmdir(c) \/ Readdir(c) \/ List(c) \/ Rename(c) \/ Chdir(c)
      \/ Opendir(c) \/ NextEntry(c) \/ Copy(c) \/ LeaveDir(c) \/ Finish(c) => TableKeeps
  BY <1>2 DEF Begin, Mknod, Setattr, Rmdir, Readdir, List, Rename, Chdir, Opendir, NextEntry, Copy,
              LeaveDir, Finish
<1> QED
  BY <1>6, <1>7, <1>8, <1>9 DEF Serve

\* When no call has failed by the end of a step, none had before it.
LEMMA NoFaultBefore ==
    ASSUME SInv, NEW c \in Clients, Begin(c) \/ Serve(c), faults' = 0
    PROVE  faults = 0 /\ ~Fault
<1>1. faults \in Nat
  BY NumbersAssumption DEF SInv, TypeOK
<1>2. Fault => faults' # 0
  BY <1>1 DEF Fault
<1>3. Fault \/ NoFault
  BY DEF Begin, Serve, Resolve, Mknod, LostPut, Setattr, Mkdir, Mkdirs, MkdirFails, Unlink, Unlinks,
         UnlinkFails, Rmdir, Rmdirs, RmdirFails, Readdir, List, Rename, Enter, Chdir, Opendir, NextEntry,
         Copy, Forget, LeaveDir, Finish, NoFault
<1> QED
  BY <1>1, <1>2, <1>3 DEF NoFault

\* What the table may say of a path.
Known(p) == table[p] \in {"absent", "unset", "dir"} \/ IsFile(bucket[p])

\* A cell that says that there is a file tells the truth, after each step;
LEMMA KnownStays ==
    ASSUME GInv, NEW c \in Clients, Begin(c) \/ Serve(c), faults' = 0, NEW p \in Paths
    PROVE  Known(p)'
<1>1. DataOK /\ Threads /\ faults = 0 /\ ~Fault
  BY SInvIs, NoFaultBefore DEF GInv
<1>2. Known(p) /\ \A q : (Thing(q) = "none" \/ Thing(q) = "dir") /\ q \in Paths
                            => table[q] \in {"absent", "unset", "dir"}
  BY <1>1 DEF GInv, NoGhostFiles, Known, Thing, IsFile
<1>3. ASSUME NEW q, NEW x, IsFile(x), bucket' = Put(q, x), TableKeeps
      PROVE  Known(p)'
  BY <1>1, <1>2, <1>3 DEF Known, TableKeeps, Put
<1>4. ASSUME NEW q, NEW x, bucket' = Put(q, x), TableKeeps, table[q] \in {"absent", "unset", "dir"}
      PROVE  Known(p)'
  BY <1>1, <1>2, <1>4 DEF Known, TableKeeps, Put
<1>5. ASSUME UNCHANGED bucket, TableKeeps
      PROVE  Known(p)'
  BY <1>2, <1>5 DEF Known, TableKeeps
<1>6. CASE Resolve(c)
  <2>1. CASE TableKeeps
    BY <1>5, <1>6, <2>1 DEF Resolve
  <2>2. CASE table' = [q \in Paths |-> IF q \in Touched(th[c]) THEN Cached(q) ELSE table[q]]
    <3>1. UNCHANGED bucket
      BY <1>6 DEF Resolve
    <3>2. Cached(p) \in {"absent", "unset", "dir"} \/ IsFile(bucket[p])
      BY <1>2 DEF Cached, Answer, Known, IsFile
    <3> QED
      BY <1>2, <2>2, <3>1, <3>2 DEF Known
  <2> QED
    BY <1>6, <2>1, <2>2, TableOnly DEF GInv
<1>7. CASE ~Resolve(c)
  <2>1. TableKeeps
    BY <1>7, TableOnly DEF GInv
  <2>2. Begin(c) \/ Readdir(c) \/ List(c) \/ Rename(c) \/ Chdir(c) \/ Opendir(c) \/ NextEntry(c)
        \/ Finish(c) => UNCHANGED bucket
    BY DEF Begin, Readdir, List, Rename, Chdir, Opendir, NextEntry, Finish
  <2>3. Mknod(c) => UNCHANGED bucket \/ bucket' = Put(th[c].path, "empty")
    BY <1>1 DEF Mknod, LostPut
  <2>4. Setattr(c) => UNCHANGED bucket \/ bucket' = Put(th[c].path, "link")
    BY <1>1 DEF Setattr, LostPut
  <2>5. IsFile("empty") /\ IsFile("link")
    BY DEF IsFile
  <2>6. Mkdir(c) => Known(p)'
    <3>1. ASSUME Mkdir(c), bucket' = Put(th[c].path, "dir")
          PROVE  Known(p)'
      <4>1. table[th[c].path] \in {"absent", "unset"}
        BY <3>1 DEF GInv, UnknownOK, Mkdir, At
      <4> QED
        BY <1>4, <2>1, <3>1, <4>1
    <3>2. Mkdir(c) => UNCHANGED bucket \/ bucket' = Put(th[c].path, "dir")
      BY <1>1 DEF Mkdir, Mkdirs, MkdirFails, LostPut
    <3> QED
      BY <1>5, <2>1, <3>1, <3>2
  <2>7. ASSUME NEW q, Mkdirs(q) \/ MkdirFails(q), Thing(q) = "none"
        PROVE  Known(p)'
    <3>1. UNCHANGED bucket \/ bucket' = Put(q, "dir")
      BY <1>1, <2>7 DEF Mkdirs, MkdirFails, LostPut
    <3>2. q \in Paths => table[q] \in {"absent", "unset", "dir"}
      BY <1>2, <2>7
    <3>3. q \notin Paths => bucket' = bucket \/ ~(bucket' = Put(q, "dir"))
      BY <1>1 DEF Put, DataOK
    <3> QED
      BY <1>4, <1>5, <2>1, <3>1, <3>2, <3>3
  <2>8. Enter(c) => Known(p)'
    BY <1>1, <1>5, <2>1, <2>7 DEF Enter
  <2>9. ASSUME NEW q, Unlinks(q) \/ UnlinkFails(q)
        PROVE  Known(p)'
    <3>1. CASE UNCHANGED bucket
      BY <1>5, <2>1, <3>1
    <3>2. CASE Unlinks(q)
      BY <1>1, <1>2, <3>2 DEF Unlinks, Known, Put, DataOK
    <3> QED
      BY <1>1, <2>9, <3>1, <3>2 DEF UnlinkFails, LostPut
  <2>10. Unlink(c) \/ Forget(c) => Known(p)'
    BY <2>9 DEF Unlink, Forget
  <2>11. ASSUME NEW q, Rmdirs(q) \/ RmdirFails(q)
         PROVE  Known(p)'
    <3>1. CASE UNCHANGED bucket
      BY <1>5, <2>1, <3>1
    <3>2. CASE Rmdirs(q)
      <4>1. q \in Paths /\ table[q] \in {"absent", "unset", "dir"} /\ bucket' = Put(q, "none")
        BY <1>1, <1>2, <3>2, ThingType DEF Rmdirs, Removable, DataOK
      <4> QED
        BY <1>4, <2>1, <4>1
    <3> QED
      BY <1>1, <2>11, <3>1, <3>2 DEF RmdirFails, LostPut
  <2>12. Rmdir(c) \/ LeaveDir(c) => Known(p)'
    BY <1>5, <2>1, <2>11 DEF Rmdir, LeaveDir
  <2>13. Copy(c) => Known(p)'
    <3>1. Copy(c) => UNCHANGED bucket \/ \E q, x : IsFile(x) /\ bucket' = Put(q, x)
      BY <1>1 DEF Copy, LostPut
    <3> QED
      BY <1>3, <1>5, <2>1, <3>1
  <2> QED
    BY <1>3, <1>5, <1>7, <2>1, <2>2, <2>3, <2>4, <2>5, <2>6, <2>8, <2>10, <2>12, <2>13 DEF Serve
<1> QED
  BY <1>6, <1>7

\* and a path that is being made has no cell that says what it was.
LEMMA UnknownStays ==
    ASSUME GInv, NEW c \in Clients, Begin(c) \/ Serve(c), NEW d \in Clients
    PROVE  UnknownOK(d)'
<1>1. SInv /\ Apart /\ DataOK /\ Threads
  BY SInvIs DEF GInv
<1>2. SInv' /\ Threads'
  <2>1. SInv'
    BY <1>1, ServeDoes, DoesKeeps
  <2>2. Threads'
    BY <2>1 DEF SInv, TypeOK, Threads
  <2> QED
    BY <2>1, <2>2
<1>3. SUFFICES ASSUME th'[d].pc = "mkdir"
               PROVE  table'[th'[d].path] \in {"absent", "unset"}
  BY DEF UnknownOK
<1>4. th'[d].op = "mkdir" /\ th'[d].path \in Paths
  BY <1>2, <1>3, RunningRequest DEF Threads, RequestOK, StepOK, Ops
<1>5. CASE d = c
  <2>1. Resolve(c) /\ Named(c)
    <3>1. ~Begin(c)
      BY <1>1, <1>3, <1>5 DEF Begin, Threads, Idle
    <3>2. ~Finish(c)
      BY <1>1, <1>3, <1>5 DEF Finish, Threads, Idle
    <3>3. Named(c)
      BY <1>1, <3>1, <3>2, ServeNamed
    <3>4. th[c].op = "mkdir"
      BY <1>4, <1>5, <3>3 DEF Named
    <3>5. th[c].pc \in {"idle", "resolve", "mkdir", "done"}
      BY <1>1, <3>4, RequestFields DEF Threads, RequestOK, StepOK, Ops, Walking, Moving
    <3>6. ~Mkdir(c)
      <4>1. \A r : Done(c, r) => th'[c].pc = "done"
        BY <1>1 DEF Done, Threads, Request
      <4> QED
        BY <1>3, <1>5, <4>1 DEF Mkdir
    <3> QED
      BY <3>1, <3>2, <3>3, <3>5, <3>6 DEF Serve, At, Mknod, Setattr, Mkdir, Unlink, Rmdir, Readdir, List,
                                     Rename, Enter, Chdir, Opendir, NextEntry, Copy, Forget, LeaveDir
  <2>2. \A r : ~Done(c, r)
    BY <1>1, <1>3, <1>5 DEF Done, Threads, Request
  <2>3. /\ table' = [p \in Paths |-> IF p \in Touched(th[c]) THEN Cached(p) ELSE table[p]]
        /\ Admits(th[c].op, Answer(th[c].path), Answer(th[c].to))
    BY <2>1, <2>2 DEF Resolve
  <2>4. Answer(th[c].path) = "none"
    BY <1>4, <1>5, <2>1, <2>3 DEF Admits, Named
  <2>5. table'[th[c].path] = "unset"
    BY <1>4, <1>5, <2>1, <2>3, <2>4 DEF Cached, Touched, Named
  <2> QED
    BY <1>5, <2>1, <2>5 DEF Named
<1>6. CASE d # c
  <2>1. th'[d] = th[d]
    BY <1>1, <1>6, ServeDoes, Others DEF Does
  <2>2. table[th[d].path] \in {"absent", "unset"}
    BY <1>3, <2>1 DEF GInv, UnknownOK
  <2>3. Resolve(c) => th[d].path \notin Touched(th[c])
    <3>1. Resolve(c) => ~Conflict(th[d], th[c])
      BY <1>3, <1>6, <2>1 DEF GInv, Apart, Resolve, At
    <3>2. Writes(th[d]) /\ th[d].path \in Touched(th[d])
      BY <1>4, <2>1 DEF Writes, Touched
    <3>3. IsPrefix(th[d].path, th[d].path)
      BY <1>1, Self, PrefixRefl DEF Strings
    <3> QED
      BY <3>1, <3>2, <3>3 DEF Conflict
  <2> QED
    BY <1>1, <1>4, <2>1, <2>2, <2>3, TableOnly DEF TableKeeps
<1> QED
  BY <1>5, <1>6

\* The invariant of the cells is inductive.
LEMMA GInvStays == GInv /\ [Next]_vars => GInv'
<1> SUFFICES ASSUME GInv, [Next]_vars PROVE GInv'
  OBVIOUS
<1>1. ASSUME NEW c \in Clients, Begin(c) \/ Serve(c)
      PROVE  GInv'
  <2>1. SInv'
    BY <1>1, ServeDoes, DoesKeeps DEF GInv
  <2>2. Apart'
    BY <1>1, ApartStays DEF GInv
  <2>3. NoGhostFiles'
    BY <1>1, KnownStays DEF NoGhostFiles, Known
  <2>4. \A d \in Clients : UnknownOK(d)'
    BY <1>1, UnknownStays
  <2> QED
    BY <2>1, <2>2, <2>3, <2>4 DEF GInv
<1>2. CASE UNCHANGED vars
  BY <1>2, SInvStays DEF vars, GInv, Apart, NoGhostFiles, UnknownOK
<1> QED
  BY <1>1, <1>2 DEF Next

\* It holds when the file system is mounted.
LEMMA GInvStarts == Init => GInv
<1> SUFFICES ASSUME Init PROVE GInv
  OBVIOUS
<1>1. \A c \in Clients : th[c].pc = "idle"
  BY DEF Init, Idle
<1>2. Apart /\ \A c \in Clients : UnknownOK(c)
  BY <1>1 DEF Apart, UnknownOK
<1>3. NoGhostFiles
  BY DEF Init, NoGhostFiles
<1> QED
  BY <1>2, <1>3, SInvStarts DEF GInv

\* When no remote call has failed, what dfs_getattr finds in the hash table as a
\* file is a file in the bucket: unlink drops the cell, rename drops that of
\* every old name, and mkdir found none that it would have to replace.
THEOREM GhostsAreGone == Spec => []NoGhostFiles
<1>1. GInv => NoGhostFiles
  BY DEF GInv
<1> QED
  BY <1>1, GInvStarts, GInvStays, PTL DEF Spec

-----------------------------------------------------------------------------
(* What others do to the names of a request: nothing.                       *)

\* A step that changes the bucket is one of a request that writes.
LEMMA WriterWrites ==
    ASSUME SInv, NEW c \in Clients, Begin(c) \/ Serve(c), bucket' # bucket
    PROVE  Writes(th[c])
<1>1. RequestOK(th[c])
  BY SInvIs DEF Threads
<1>2. ~(Begin(c) \/ Resolve(c) \/ Readdir(c) \/ List(c) \/ Rename(c) \/ Chdir(c) \/ Opendir(c)
        \/ NextEntry(c) \/ Finish(c))
  BY DEF Begin, Resolve, Readdir, List, Rename, Chdir, Opendir, NextEntry, Finish
<1>3. Mknod(c) \/ Setattr(c) \/ Mkdir(c) \/ Unlink(c) \/ Rmdir(c) \/ Enter(c) \/ Copy(c) \/ Forget(c)
      \/ LeaveDir(c)
  BY <1>2 DEF Serve
<1>4. th[c].pc \in {"mknod", "symlink", "setattr", "mkdir", "unlink", "rmdir", "enter", "copy", "forget",
                    "next"}
  BY <1>3 DEF Mknod, Setattr, Mkdir, Unlink, Rmdir, Enter, Copy, Forget, LeaveDir, At
<1> QED
  BY <1>1, <1>4 DEF RequestOK, StepOK, Ops, Walking, Moving, Writes

\* p is a name of c's request, or leads to one, or is below one that is changed.
LEMMA OthersLeave ==
    ASSUME SInv, Apart, CacheApart, NEW c \in Clients, NEW d \in Clients, c # d, th[c].pc # "idle",
           Begin(d) \/ Serve(d), NEW p \in Paths,
           \/ \E q \in Touched(th[c]) : IsPrefix(p, q)
           \/ Writes(th[c]) /\ Below(th[c], p)
    PROVE  bucket'[p] = bucket[p]
<1> SUFFICES ASSUME bucket'[p] # bucket[p] PROVE FALSE
  OBVIOUS
<1>1. th[d].pc # "idle" /\ th[d].path \in Paths /\ th[d].to \in Paths /\ Below(th[d], p)
  BY WritesInside
<1>2. Writes(th[d])
  BY WriterWrites
<1>3. PICK s \in Touched(th[d]) : IsPrefix(s, p) /\ s \in Strings
  BY <1>1, PathStrings DEF Below, Touched
<1>4. ~Conflict(th[d], th[c])
  BY <1>1 DEF Apart
<1>5. p \in Strings /\ \A q \in Touched(th[c]) : q \in Strings
  BY Self, SInvIs, PathStrings DEF Touched
<1>6. \A q \in Touched(th[c]) : ~IsPrefix(s, q)
  BY <1>2, <1>3, <1>4 DEF Conflict
<1>7. CASE \E q \in Touched(th[c]) : IsPrefix(p, q)
  BY <1>3, <1>5, <1>6, <1>7, PrefixTrans DEF Strings
<1>8. CASE Writes(th[c]) /\ Below(th[c], p)
  <2>1. PICK q \in Touched(th[c]) : IsPrefix(q, p)
    BY <1>8 DEF Below, Touched
  <2>2. ~IsPrefix(q, s)
    BY <1>3, <1>4, <1>8 DEF Conflict
  <2>3. q \in Strings /\ Len(q) \in Nat /\ Len(s) \in Nat
    BY <1>3, <1>5, LenProperties DEF Strings
  <2>4. Len(s) <= Len(q) => IsPrefix(s, q)
    BY <1>3, <1>5, <2>1, <2>3, PrefixOrder DEF Strings
  <2>5. Len(q) <= Len(s) => IsPrefix(q, s)
    BY <1>3, <1>5, <2>1, <2>3, PrefixOrder DEF Strings
  <2> QED
    BY <1>6, <2>2, <2>3, <2>4, <2>5
<1> QED
  BY <1>7, <1>8

-----------------------------------------------------------------------------
(* The names of a rename are those of the same place below its two names.   *)

\* s goes on after path as x.
LEMMA Rest ==
    ASSUME NEW S, NEW path \in Seq(S), NEW s \in Seq(S), IsPrefix(path, s)
    PROVE  \E x \in Seq(S) : s = path \o x
<1> DEFINE a == Len(path)
           b == Len(s)
           x == SubSeq(s, a + 1, b)
<1>1. a \in Nat /\ b \in Nat /\ a <= b
  BY LenProperties, PrefixIs
<1>2. x \in Seq(S)
  <2>1. a + 1 \in Int /\ b \in Int /\ \A i \in a + 1..b : s[i] \in S
    <3>1. \A i \in a + 1..b : i \in 1..Len(s)
      BY <1>1
    <3> QED
      BY <1>1, <3>1, ElementOfSeq
  <2>2. \A m, n \in Int : (\A i \in m..n : s[i] \in S) => SubSeq(s, m, n) \in Seq(S)
    BY SubSeqProperties
  <2> HIDE DEF a, b
  <2> QED
    BY <2>1, <2>2
<1>3. SubSeq(s, 1, a) \o SubSeq(s, a + 1, b) = SubSeq(s, 1, b)
  <2>1. a \in 1 - 1..Len(s) /\ b \in a..Len(s) /\ 1 \in 1..Len(s) + 1
    BY <1>1
  <2> QED
    BY <2>1, ConcatAdjacentSubSeq
<1>4. SubSeq(s, 1, a) = path /\ SubSeq(s, 1, b) = s
  BY SubSeqFull DEF IsPrefix
<1> QED
  BY <1>2, <1>3, <1>4

\* What is left of a path when its directory is cut off.
LEMMA SuffixOf ==
    ASSUME NEW S, NEW p \in Seq(S), NEW x \in Seq(S)
    PROVE  SubSeq(p \o x, Len(p) + 1, Len(p \o x)) = x
<1>1. Len(p) \in Nat /\ Len(x) \in Nat /\ Len(p \o x) = Len(p) + Len(x)
  BY LenProperties, ConcatProperties
<1> DEFINE a == Len(p)
           b == Len(x)
           n == Len(p \o x)
<1>2. CASE b = 0
  <2>1. x = <<>>
    BY <1>2, EmptySeq
  <2>2. a + 1 \in Int /\ n \in Int /\ n < a + 1
    BY <1>1, <1>2
  <2>3. SubSeq(p \o x, a + 1, n) = <<>>
    BY <2>2, SubSeqEmpty
  <2> QED
    BY <2>1, <2>3
<1>3. CASE b # 0
  <2> HIDE DEF a, b, n
  <2>1. /\ a + 1 \in a + 1..a + b + 1 /\ n \in a + 1 - 1..a + b
        /\ a + 1 - a = 1 /\ n - a = b
    BY <1>1, <1>3 DEF a, b, n
  <2>2. SubSeq(p \o x, a + 1, n) = SubSeq(x, a + 1 - a, n - a)
    BY <2>1, SubSeqOfConcat2 DEF a, b
  <2>3. SubSeq(x, 1, b) = x
    BY SubSeqFull DEF b
  <2> QED
    BY <2>1, <2>2, <2>3 DEF a, n
<1> QED
  BY <1>2, <1>3

\* An entry of a directory that is moved is an entry of where it is moved to.
LEMMA ConcatAppend ==
    ASSUME NEW S, NEW p \in Seq(S), NEW x \in Seq(S), NEW n \in S
    PROVE  Append(x, n) \in Seq(S) /\ p \o Append(x, n) = Append(p \o x, n)
<1>1. Append(x, n) = x \o <<n>> /\ <<n>> \in Seq(S) /\ Append(x, n) \in Seq(S)
  BY AppendIsConcat, AppendProperties
<1>2. p \o x \in Seq(S)
  BY ConcatProperties
<1>3. Append(p \o x, n) = (p \o x) \o <<n>>
  BY <1>2, AppendIsConcat
<1>4. (p \o x) \o <<n>> = p \o (x \o <<n>>)
  BY <1>1, ConcatAssociative
<1> QED
  BY <1>1, <1>3, <1>4

\* MovedTo, of the path of the request and of an entry.
LEMMA MovedIs ==
    ASSUME NEW t, t.path \in Strings, t.to \in Strings, NEW s \in Strings, IsPrefix(t.path, s)
    PROVE  /\ MovedTo(t, s) \in Strings /\ IsPrefix(t.to, MovedTo(t, s))
           /\ \A n \in Names : MovedTo(t, Append(s, n)) = Append(MovedTo(t, s), n)
           /\ s = t.path => MovedTo(t, s) = t.to
<1> DEFINE S == Names \union ToSet(CacheDir)
<1>1. t.path \in Seq(S) /\ t.to \in Seq(S) /\ s \in Seq(S)
  BY DEF Strings
<1>2. PICK x \in Seq(S) : s = t.path \o x
  BY <1>1, Rest
<1>3. \A y \in Seq(S) : MovedTo(t, t.path \o y) = t.to \o y
  BY <1>1, SuffixOf DEF MovedTo
<1>4. MovedTo(t, s) = t.to \o x
  BY <1>2, <1>3
<1>5. t.to \o x \in Seq(S) /\ IsPrefix(t.to, t.to \o x)
  BY <1>1, ConcatProperties, PrefixConcat
<1>6. ASSUME NEW n \in Names
      PROVE  MovedTo(t, Append(s, n)) = Append(MovedTo(t, s), n)
  <2>0. n \in S
    BY PathStrings
  <2>1. Append(x, n) \in Seq(S) /\ t.path \o Append(x, n) = Append(t.path \o x, n)
        /\ t.to \o Append(x, n) = Append(t.to \o x, n)
    <3> HIDE DEF S
    <3>1. ASSUME NEW p \in Seq(S)
          PROVE  Append(x, n) \in Seq(S) /\ p \o Append(x, n) = Append(p \o x, n)
      BY <2>0, ConcatAppend
    <3> QED
      BY <1>1, <3>1
  <2>2. MovedTo(t, t.path \o Append(x, n)) = t.to \o Append(x, n)
    BY <1>3, <2>1
  <2> QED
    BY <1>2, <1>4, <2>1, <2>2
<1>7. ASSUME s = t.path
      PROVE  MovedTo(t, s) = t.to
  <2> DEFINE e == <<>>
  <2>1. e \in Seq(S) /\ t.path \o e = t.path /\ t.to \o e = t.to
    BY <1>1, EmptySeq, ConcatEmptySeq
  <2> HIDE DEF e
  <2>2. MovedTo(t, t.path \o e) = t.to \o e
    BY <1>3, <2>1
  <2> QED
    BY <1>7, <2>1, <2>2
<1> QED
  BY <1>4, <1>5, <1>6, <1>7 DEF Strings

\* What a step makes of the request.
Gone(t, l) == [t EXCEPT !.pc = l]
Answered(t, r) == [t EXCEPT !.pc = "done", !.ret = r]
First(t) == [t EXCEPT !.pc = "enter", !.stack = <<NewFrame(0, 0)>>]
WithFrame(t, l, f) == [t EXCEPT !.pc = l, !.stack = Append(Front(t.stack), f)]
Out(t, rest, r, s) == IF rest = <<>> THEN Ended(t, r, s) ELSE Resumed(t, rest, r, s)

\* The request after an action, from the way the action writes it.
LEMMA NowIs ==
    ASSUME Threads, NEW c \in Clients
    PROVE  /\ \A u : th' = [th EXCEPT ![c] = u] => th'[c] = u
           /\ \A l : Go(c, l) => th'[c] = Gone(th[c], l)
           /\ \A r : Done(c, r) => th'[c] = Answered(th[c], r)
           /\ \A rest, r, s : Returned(c, rest, r, s) => th'[c] = Out(th[c], rest, r, s)
           /\ \A r, s : Leave(c, r, s) => th'[c] = Out(th[c], Front(th[c].stack), r, s)
<1>1. th \in [Clients -> Request]
  BY DEF Threads
<1>2. \A u : th' = [th EXCEPT ![c] = u] => th'[c] = u
  BY <1>1
<1>3. \A l : Go(c, l) => th'[c] = Gone(th[c], l)
  BY <1>1 DEF Go, Gone
<1>4. ASSUME NEW r, Done(c, r)
      PROVE  th'[c] = Answered(th[c], r)
  BY <1>1, <1>4 DEF Done, Answered
<1>5. ASSUME NEW rest, NEW r, NEW s, Returned(c, rest, r, s)
      PROVE  th'[c] = Out(th[c], rest, r, s)
  <2>1. CASE rest = <<>>
    <3>1. th' = [th EXCEPT ![c] = Ended(th[c], r, s)]
      BY <1>5, <2>1, ReturnedIs
    <3> QED
      BY <1>2, <2>1, <3>1 DEF Out
  <2>2. CASE rest # <<>>
    <3>1. th' = [th EXCEPT ![c] = Resumed(th[c], rest, r, s)]
      BY <1>5, <2>2, ReturnedIs
    <3> QED
      BY <1>2, <2>2, <3>1 DEF Out
  <2> QED
    BY <2>1, <2>2
<1> QED
  BY <1>2, <1>3, <1>4, <1>5 DEF Leave

\* The fields of a request that goes on, or is answered.
LEMMA GoneIs ==
    ASSUME NEW t \in Request, NEW l, NEW r
    PROVE  /\ LET u == Gone(t, l) IN
              /\ u.pc = l /\ u.op = t.op /\ u.path = t.path /\ u.to = t.to
              /\ u.stack = t.stack /\ u.file = t.file /\ u.tmp = t.tmp
              /\ u.displaces = t.displaces /\ u.ret = t.ret
           /\ LET u == Answered(t, r) IN
              /\ u.pc = "done" /\ u.op = t.op /\ u.path = t.path /\ u.to = t.to /\ u.stack = t.stack
              /\ u.file = t.file /\ u.tmp = t.tmp /\ u.ret = r /\ u.displaces = t.displaces
BY DEF Gone, Answered, Request

\* Pointers that were printed read the same as long as there is room.
LEMMA SameNames ==
    ASSUME NEW t \in Request, NEW u \in Request, u.path = t.path, u.to = t.to,
           Room(u), Len(t.tmp) <= Len(u.tmp), \A i \in 1..Len(t.tmp) : u.tmp[i] = t.tmp[i],
           NEW f, NEW g, g.old = f.old, g.new = f.new,
           f.old \in 0..Len(t.tmp), f.new \in 0..Len(t.tmp)
    PROVE  /\ OldOf(u, g) = OldOf(t, f) /\ NewOf(u, g) = NewOf(t, f)
           /\ Mirrors(t, f) => Mirrors(u, g)
<1>1. Len(t.tmp) \in Nat /\ Len(u.tmp) \in Nat /\ TmpstrNb \in Nat \ {0}
  BY RequestFields, NumbersAssumption
<1>2. ASSUME NEW i \in 1..Len(t.tmp)
      PROVE  Slot(u.tmp, i) = Slot(t.tmp, i)
  <2>1. \A m \in Nat : Len(t.tmp) = m /\ m <= TmpstrNb /\ i \in 1..m => Slot(t.tmp, i) = t.tmp[i]
    BY SlotIs
  <2>2. \A m \in Nat : Len(u.tmp) = m /\ m <= TmpstrNb /\ i \in 1..m => Slot(u.tmp, i) = u.tmp[i]
    BY SlotIs
  <2>3. Slot(t.tmp, i) = t.tmp[i] /\ Slot(u.tmp, i) = u.tmp[i]
    BY <1>1, <2>1, <2>2 DEF Room
  <2> QED
    BY <2>3
<1>3. OldOf(u, g) = OldOf(t, f) /\ NewOf(u, g) = NewOf(t, f)
  <2>1. f.old # 0 => f.old \in 1..Len(t.tmp)
    BY <1>1
  <2>2. f.new # 0 => f.new \in 1..Len(t.tmp)
    BY <1>1
  <2> QED
    BY <1>2, <2>1, <2>2 DEF OldOf, NewOf
<1> QED
  BY <1>3 DEF Mirrors, MovedTo

\* The pointers of the calls, and of the file, were printed.
LEMMA PointersIn ==
    ASSUME NEW t, RequestOK(t)
    PROVE  /\ t \in Request
           /\ \A k \in 1..Len(t.stack) : t.stack[k].old \in 0..Len(t.tmp) /\ t.stack[k].new \in 0..Len(t.tmp)
           /\ t.pc \in Moving => t.file.old \in 0..Len(t.tmp) /\ t.file.new \in 0..Len(t.tmp)
<1>1. t \in Request /\ Len(t.tmp) \in Nat
  BY RequestFields DEF RequestOK
<1>2. ASSUME NEW k \in 1..Len(t.stack)
      PROVE  t.stack[k].old \in 0..Len(t.tmp) /\ t.stack[k].new \in 0..Len(t.tmp)
  <2>1. t.stack[k].old \in Nat /\ t.stack[k].new \in Nat
    <3>1. t.stack \in Seq(FrameType)
      BY <1>1, RequestFields
    <3>2. t.stack[k] \in FrameType
      BY <3>1, ElementOfSeq
    <3> QED
      BY <3>2 DEF FrameType
  <2>2. IF k = 1 THEN t.stack[k].old = 0 /\ t.stack[k].new = 0
        ELSE /\ t.stack[k].old > 0 /\ t.stack[k].new = t.stack[k].old + 1
             /\ t.stack[k].new <= Len(t.tmp)
    BY DEF RequestOK, PointersOK
  <2> QED
    BY <1>1, <2>1, <2>2
<1>3. ASSUME t.pc \in Moving
      PROVE  t.file.old \in 0..Len(t.tmp) /\ t.file.new \in 0..Len(t.tmp)
  <2>1. CASE t.stack = <<>>
    <3>1. t.file = NoFile
      BY <1>3, <2>1 DEF RequestOK, StepOK, Moving
    <3> QED
      BY <1>1, <3>1 DEF NoFile
  <2>2. CASE t.stack # <<>>
    <3>1. Len(t.tmp) > 1 /\ t.file = [old |-> Len(t.tmp) - 1, new |-> Len(t.tmp)]
      BY <1>3, <2>2 DEF RequestOK, PointersOK
    <3> QED
      BY <1>1, <3>1
  <2> QED
    BY <2>1, <2>2
<1> QED
  BY <1>1, <1>2, <1>3

\* A request that neither makes nor moves anything yet, or any more.
Local(b, t) == FreshOK(b, t) /\ NamesOK(t) /\ CopiedOK(b, t)

\* A request that makes nothing and moves nothing has nothing to keep;
LEMMA LocalSimple ==
    ASSUME NEW b, NEW t, t.stack = <<>>,
           t.pc \notin Moving \union {"mknod", "symlink", "mkdir", "setattr"}
    PROVE  Local(b, t)
<1>1. Len(t.stack) = 0
  BY EmptySeq
<1>2. NamesOK(t)
  BY <1>1 DEF NamesOK
<1> QED
  BY <1>2 DEF Local, FreshOK, CopiedOK, Moving

\* one that has not copied has its names to keep.
LEMMA LocalNames ==
    ASSUME NEW b, NEW t, NamesOK(t), t.pc \in Walking \union {"copy"}
    PROVE  Local(b, t)
BY DEF Local, FreshOK, CopiedOK, Walking

\* A request that goes on keeps its names,
LEMMA NamesGo ==
    ASSUME NEW t, RequestOK(t), NamesOK(t), NEW l,
           \/ t.pc \in Walking /\ l \in Walking
           \/ t.pc \in Moving /\ l \in Moving
    PROVE  /\ NamesOK(Gone(t, l))
           /\ \A f : OldOf(Gone(t, l), f) = OldOf(t, f) /\ NewOf(Gone(t, l), f) = NewOf(t, f)
<1> DEFINE u == Gone(t, l)
<1>1. t \in Request
  BY DEF RequestOK
<1>2. /\ u.pc = l /\ u.op = t.op /\ u.path = t.path /\ u.to = t.to
      /\ u.stack = t.stack /\ u.file = t.file /\ u.tmp = t.tmp
  BY <1>1, GoneIs
<1> HIDE DEF u
<1>3. \A f : OldOf(u, f) = OldOf(t, f) /\ NewOf(u, f) = NewOf(t, f)
  BY <1>2 DEF OldOf, NewOf
<1>4. \A f : Mirrors(t, f) => Mirrors(u, f)
  BY <1>2, <1>3 DEF Mirrors, MovedTo
<1>5. u.pc \in Moving => t.pc \in Moving
  BY <1>2 DEF Walking, Moving
<1>6. NamesOK(u)
  BY <1>2, <1>4, <1>5 DEF NamesOK, Room
<1> QED
  BY <1>3, <1>6 DEF u

\* one that starts with a file or a directory has those of the caller,
LEMMA NamesStart ==
    ASSUME NEW t, RequestOK(t), t.pc = "rename"
    PROVE  /\ NamesOK(Gone(t, "copy")) /\ NamesOK(First(t))
           /\ OldOf(Gone(t, "copy"), t.file) = t.path /\ NewOf(Gone(t, "copy"), t.file) = t.to
           /\ LET u == First(t) IN
              /\ u.pc = "enter" /\ u.op = t.op /\ u.path = t.path /\ u.to = t.to
              /\ u.stack = <<NewFrame(0, 0)>> /\ u.file = t.file /\ u.tmp = t.tmp
              /\ u.displaces = t.displaces
              /\ Len(u.stack) = 1 /\ u.stack[1] = NewFrame(0, 0)
              /\ O(u, 1) = t.path /\ N(u, 1) = t.to
<1> DEFINE f == NewFrame(0, 0)
           v == First(t)
           u == Gone(t, "copy")
<1>1. t \in Request /\ t.path \in Strings /\ t.to \in Strings
  BY RequestFields DEF RequestOK
<1>2. t.stack = <<>> /\ t.file = NoFile
  BY DEF RequestOK, StepOK, Walking, Moving
<1>3. IsPrefix(t.path, t.path) /\ MovedTo(t, t.path) = t.to
  BY <1>1, PrefixRefl, MovedIs DEF Strings
<1>4. /\ u.pc = "copy" /\ u.path = t.path /\ u.to = t.to /\ u.stack = t.stack /\ u.file = t.file
  BY <1>1, GoneIs
<1>5. /\ v.pc = "enter" /\ v.op = t.op /\ v.path = t.path /\ v.to = t.to
      /\ v.stack = <<f>> /\ v.file = t.file /\ v.tmp = t.tmp /\ v.displaces = t.displaces
  BY <1>1 DEF First, Request
<1>6. f.old = 0 /\ f.new = 0
  BY DEF NewFrame
<1>7. Len(<<f>>) = 1 /\ <<f>>[1] = f
  OBVIOUS
<1> HIDE DEF f, u, v
<1>8. /\ OldOf(v, f) = t.path /\ NewOf(v, f) = t.to /\ MovedTo(v, t.path) = t.to
  BY <1>3, <1>5, <1>6 DEF OldOf, NewOf, MovedTo
<1>9. NamesOK(v)
  <2>1. \A k \in 1..Len(v.stack) : Mirrors(v, v.stack[k])
    <3>1. \A k \in 1..Len(v.stack) : k = 1
      BY <1>5, <1>7
    <3>2. Mirrors(v, f)
      BY <1>3, <1>5, <1>8 DEF Mirrors
    <3> QED
      BY <1>5, <1>7, <3>1, <3>2
  <2> QED
    BY <1>5, <2>1 DEF NamesOK, Moving
<1>10. OldOf(u, t.file) = t.path /\ NewOf(u, t.file) = t.to /\ MovedTo(u, t.path) = t.to
  <2>1. t.file.old = 0 /\ t.file.new = 0
    BY <1>2 DEF NoFile
  <2>2. OldOf(u, t.file) = t.path /\ NewOf(u, t.file) = t.to
    BY <1>4, <2>1 DEF OldOf, NewOf
  <2>3. MovedTo(u, t.path) = MovedTo(t, t.path)
    BY <1>4 DEF MovedTo
  <2> QED
    BY <1>3, <2>2, <2>3
<1>11. NamesOK(u)
  <2>1. Len(u.stack) = 0
    BY <1>2, <1>4, EmptySeq
  <2> QED
    BY <1>2, <1>3, <1>4, <1>10, <2>1 DEF NamesOK, Mirrors
<1> QED
  BY <1>5, <1>7, <1>8, <1>9, <1>10, <1>11 DEF u, v, f, O, N

\* and one whose variables change keeps them.
LEMMA NamesFrame ==
    ASSUME NEW t, RequestOK(t), NamesOK(t), t.pc \in Walking, NEW l \in Walking,
           NEW f \in FrameType, f.old = Last(t.stack).old, f.new = Last(t.stack).new
    PROVE  LET u == WithFrame(t, l, f) IN
           /\ NamesOK(u)
           /\ u.pc = l /\ u.op = t.op /\ u.path = t.path /\ u.to = t.to
           /\ u.file = t.file /\ u.tmp = t.tmp /\ u.displaces = t.displaces
           /\ Len(u.stack) = Len(t.stack) /\ u.stack[Len(t.stack)] = f
           /\ \A k \in 1..Len(t.stack) - 1 : u.stack[k] = t.stack[k]
           /\ \A k \in 1..Len(t.stack) : O(u, k) = O(t, k) /\ N(u, k) = N(t, k)
<1> DEFINE u == WithFrame(t, l, f)
<1>1. t \in Request /\ t.stack \in Seq(FrameType) /\ t.stack # <<>> /\ Len(t.stack) \in Nat
  BY RequestFields DEF RequestOK, StepOK
<1>2. /\ Append(Front(t.stack), f) \in Seq(FrameType)
      /\ Len(Append(Front(t.stack), f)) = Len(t.stack)
      /\ Append(Front(t.stack), f)[Len(t.stack)] = f
      /\ \A k \in 1..Len(t.stack) - 1 : Append(Front(t.stack), f)[k] = t.stack[k]
  BY <1>1, Replace
<1>3. /\ u.pc = l /\ u.op = t.op /\ u.path = t.path /\ u.to = t.to
      /\ u.stack = Append(Front(t.stack), f) /\ u.file = t.file /\ u.tmp = t.tmp
      /\ u.displaces = t.displaces
  BY <1>1 DEF WithFrame, Request
<1>4. Last(t.stack) = t.stack[Len(t.stack)]
  BY <1>1, FrontIs
<1> HIDE DEF u
<1>5. /\ Len(u.stack) = Len(t.stack) /\ u.stack[Len(t.stack)] = f
      /\ \A k \in 1..Len(t.stack) - 1 : u.stack[k] = t.stack[k]
  BY <1>2, <1>3
<1>6. ASSUME NEW k \in 1..Len(t.stack)
      PROVE  u.stack[k].old = t.stack[k].old /\ u.stack[k].new = t.stack[k].new
  <2>1. k = Len(t.stack) \/ k \in 1..Len(t.stack) - 1
    BY <1>1
  <2> QED
    BY <1>4, <1>5, <2>1
<1>7. \A k \in 1..Len(t.stack) : O(u, k) = O(t, k) /\ N(u, k) = N(t, k)
  BY <1>3, <1>6 DEF O, N, OldOf, NewOf
<1>8. NamesOK(u)
  <2>1. \A k \in 1..Len(t.stack) : Mirrors(t, t.stack[k]) => Mirrors(u, u.stack[k])
    BY <1>3, <1>7 DEF O, N, Mirrors, MovedTo
  <2>2. u.pc \notin Moving
    BY <1>3 DEF Walking, Moving
  <2> QED
    BY <1>3, <1>5, <2>1, <2>2 DEF NamesOK, Room
<1> QED
  BY <1>3, <1>5, <1>7, <1>8 DEF u

\* The call returns to the one below: the names of the calls that are left.
LEMMA NamesOut ==
    ASSUME NEW t, RequestOK(t), NamesOK(t), t.pc \in Walking \union Moving,
           NEW rest \in Seq(FrameType), Len(rest) <= Len(t.stack),
           \A k \in 1..Len(rest) : rest[k] = t.stack[k],
           NEW r \in -2..1, NEW s \in Seq(Strings), Len(t.tmp) <= Len(s),
           \A i \in 1..Len(t.tmp) : s[i] = t.tmp[i],
           rest # <<>> => \A i \in 1..Len(s) : Inside(t, s[i])
    PROVE  LET u == Out(t, rest, r, s) IN
           /\ NamesOK(u) /\ u.pc \in {"done", "next"}
           /\ u.op = t.op /\ u.path = t.path /\ u.to = t.to /\ u.displaces = t.displaces
           /\ u.tmp = s /\ (Room(u) => Room(t)) /\ Len(u.stack) = Len(rest)
           /\ rest = <<>> => u.pc = "done" /\ u.stack = <<>> /\ u.ret = IF r = -1 THEN -1 ELSE 0
           /\ rest # <<>> => /\ u.pc = "next" /\ u.stack[Len(rest)] = Told(rest[Len(rest)], r)
                             /\ \A k \in 1..Len(rest) - 1 : u.stack[k] = rest[k]
           /\ Room(u) => \A k \in 1..Len(rest) : O(u, k) = O(t, k) /\ N(u, k) = N(t, k)
<1> DEFINE u == Out(t, rest, r, s)
<1>1. t \in Request /\ Len(t.tmp) \in Nat /\ Len(s) \in Nat /\ TmpstrNb \in Nat /\ Len(rest) \in Nat
      /\ Len(t.stack) \in Nat
  BY RequestFields, NumbersAssumption, LenProperties DEF RequestOK
<1>2. CASE rest = <<>>
  <2>1. /\ u.op = t.op /\ u.path = t.path /\ u.to = t.to /\ u.displaces = t.displaces
        /\ u.tmp = s /\ u.pc = "done" /\ u.stack = <<>> /\ u.ret = IF r = -1 THEN -1 ELSE 0
    BY <1>2, EndedKeeps DEF Out
  <2>2. Len(rest) = 0 /\ Len(u.stack) = 0
    BY <1>2, <2>1, EmptySeq
  <2> HIDE DEF u
  <2>3. NamesOK(u) /\ (Room(u) => Room(t))
    BY <1>1, <2>1, <2>2 DEF NamesOK, Room, Moving
  <2> QED
    BY <1>2, <2>1, <2>2, <2>3 DEF u
<1>3. CASE rest # <<>>
  <2>1. /\ RequestOK(u)
        /\ u.op = t.op /\ u.path = t.path /\ u.to = t.to /\ u.displaces = t.displaces
        /\ u.tmp = s /\ u.pc = "next" /\ u.stack \in Seq(FrameType) /\ u.stack # <<>>
        /\ Len(u.stack) = Len(rest) /\ u.stack[Len(rest)] = Told(rest[Len(rest)], r)
        /\ \A k \in 1..Len(rest) - 1 : u.stack[k] = rest[k]
    BY <1>3, ResumedKeeps DEF Out
  <2> HIDE DEF u
  <2>2. u \in Request
    BY <2>1 DEF RequestOK
  <2>3. ASSUME NEW k \in 1..Len(rest)
        PROVE  u.stack[k].old = t.stack[k].old /\ u.stack[k].new = t.stack[k].new
    <3>1. k = Len(rest) \/ k \in 1..Len(rest) - 1
      BY <1>1
    <3>2. rest[Len(rest)] \in FrameType
      BY <1>1, <2>3, ElementOfSeq
    <3>3. Told(rest[Len(rest)], r).old = rest[Len(rest)].old /\ Told(rest[Len(rest)], r).new = rest[Len(rest)].new
      BY <3>2 DEF Told, FrameType
    <3> QED
      BY <2>1, <3>1, <3>3
  <2>4. Room(u) => Room(t)
    BY <1>1, <2>1 DEF Room
  <2>5. ASSUME Room(u), NEW k \in 1..Len(rest)
        PROVE  O(u, k) = O(t, k) /\ N(u, k) = N(t, k) /\ (Mirrors(t, t.stack[k]) => Mirrors(u, u.stack[k]))
    <3> DEFINE f == t.stack[k]
               g == u.stack[k]
    <3>1. k \in 1..Len(t.stack)
      BY <1>1
    <3>2. f.old \in 0..Len(t.tmp) /\ f.new \in 0..Len(t.tmp) /\ g.old = f.old /\ g.new = f.new
      BY <2>3, <3>1, PointersIn
    <3> HIDE DEF f, g
    <3>3. /\ OldOf(u, g) = OldOf(t, f) /\ NewOf(u, g) = NewOf(t, f)
          /\ Mirrors(t, f) => Mirrors(u, g)
      BY <1>1, <2>1, <2>2, <2>5, <3>2, SameNames
    <3> QED
      BY <3>3 DEF O, N, f, g
  <2>6. NamesOK(u)
    <3>1. Room(u) => \A k \in 1..Len(rest) : Mirrors(t, t.stack[k])
      BY <1>1, <2>4 DEF NamesOK
    <3> QED
      BY <2>1, <2>5, <3>1 DEF NamesOK, Moving
  <2> QED
    BY <1>3, <2>1, <2>4, <2>5, <2>6 DEF u
<1> QED
  BY <1>2, <1>3

\* The names of the entry n, and those of the calls that were there before.
LEMMA NamesNext ==
    ASSUME NEW t, RequestOK(t), NamesOK(t), t.pc = "next", NEW n \in Last(t.stack).todo,
           NEW u \in Request, u.path = t.path, u.to = t.to, u.tmp = TmpOf(t, n), Room(u)
    PROVE  /\ Room(t)
           /\ \A k \in 1..Len(t.stack) : \A g :
                 g.old = t.stack[k].old /\ g.new = t.stack[k].new =>
                     OldOf(u, g) = O(t, k) /\ NewOf(u, g) = N(t, k) /\ Mirrors(u, g)
           /\ \A g : g.old = EntryOf(t, n).old /\ g.new = EntryOf(t, n).new =>
                 /\ OldOf(u, g) = Append(O(t, Len(t.stack)), n)
                 /\ NewOf(u, g) = Append(N(t, Len(t.stack)), n)
                 /\ Mirrors(u, g)
<1> DEFINE L == Len(t.stack)
           l == Len(t.tmp)
           x == TmpOf(t, n)
           a == Append(O(t, L), n)
           b == Append(N(t, L), n)
<1>1. t \in Request /\ l \in Nat /\ TmpstrNb \in Nat \ {0} /\ t.path \in Strings /\ t.to \in Strings
  BY RequestFields, NumbersAssumption DEF RequestOK
<1>2. /\ n \in Names /\ t.stack # <<>> /\ Last(t.stack) = t.stack[L] /\ L \in 1..L
      /\ x \in Seq(Strings) /\ Len(x) = l + 2
      /\ \A i \in 1..l : x[i] = t.tmp[i]
      /\ x[l + 1] = SrcOf(t, n) /\ x[l + 2] = Append(DirOf(t, n), n)
      /\ l + 2 <= TmpstrNb => DirOf(t, n) = NewOf(t, Last(t.stack))
  BY PrintedNames
<1>3. EntryOf(t, n).old = l + 1 /\ EntryOf(t, n).new = l + 2
  BY <1>1, <1>2 DEF EntryOf
<1>4. Len(u.tmp) = l + 2 /\ l + 2 <= TmpstrNb /\ Room(t)
  BY <1>1, <1>2 DEF Room
<1>5. SrcOf(t, n) = a /\ Append(DirOf(t, n), n) = b
  BY <1>2, <1>4 DEF SrcOf, O, N
<1> HIDE DEF x, l, a, b, L
<1>6. ASSUME NEW k \in 1..L, NEW g, g.old = t.stack[k].old, g.new = t.stack[k].new
      PROVE  OldOf(u, g) = O(t, k) /\ NewOf(u, g) = N(t, k) /\ Mirrors(u, g)
  <2> DEFINE f == t.stack[k]
  <2>1. f.old \in 0..l /\ f.new \in 0..l /\ Mirrors(t, f)
    BY <1>4, PointersIn DEF L, l, NamesOK
  <2>2. Len(t.tmp) <= Len(u.tmp) /\ \A i \in 1..Len(t.tmp) : u.tmp[i] = t.tmp[i]
    BY <1>1, <1>2, <1>4 DEF x, l
  <2>3. g.old = f.old /\ g.new = f.new
    BY <1>6
  <2>4. O(t, k) = OldOf(t, f) /\ N(t, k) = NewOf(t, f)
    BY DEF O, N
  <2> HIDE DEF f
  <2>5. /\ OldOf(u, g) = OldOf(t, f) /\ NewOf(u, g) = NewOf(t, f)
        /\ Mirrors(t, f) => Mirrors(u, g)
    BY <1>1, <2>1, <2>2, <2>3, SameNames DEF l
  <2> QED
    BY <2>1, <2>4, <2>5
<1>7. ASSUME NEW g, g.old = EntryOf(t, n).old, g.new = EntryOf(t, n).new
      PROVE  OldOf(u, g) = a /\ NewOf(u, g) = b /\ Mirrors(u, g)
  <2>1. g.old = l + 1 /\ g.new = l + 2 /\ g.old # 0 /\ g.new # 0
    BY <1>1, <1>3, <1>7
  <2>2. \A m \in Nat : Len(u.tmp) = m /\ m <= TmpstrNb =>
            \A i \in 1..m : Slot(u.tmp, i) = u.tmp[i]
    BY SlotIs
  <2>3. l + 2 \in Nat /\ l + 1 \in 1..l + 2 /\ l + 2 \in 1..l + 2
    BY <1>1
  <2>4. Slot(u.tmp, l + 1) = u.tmp[l + 1] /\ Slot(u.tmp, l + 2) = u.tmp[l + 2]
    BY <1>4, <2>2, <2>3
  <2>5. OldOf(u, g) = a
    BY <1>2, <1>5, <2>1, <2>4 DEF OldOf, x
  <2>6. NewOf(u, g) = b
    BY <1>2, <1>5, <2>1, <2>4 DEF NewOf, x
  <2>7. Mirrors(t, t.stack[L]) /\ O(t, L) \in Strings
    BY <1>2, <1>4, FrameNames DEF NamesOK, O, L
  <2>8. IsPrefix(t.path, O(t, L)) /\ N(t, L) = MovedTo(t, O(t, L))
    BY <2>7 DEF Mirrors, O, N
  <2>9. b = MovedTo(t, a)
    BY <1>1, <1>2, <2>7, <2>8, MovedIs DEF a, b
  <2>10. IsPrefix(t.path, a)
    <3>1. n \in Names \union ToSet(CacheDir)
      BY <1>2, PathStrings
    <3> QED
      BY <1>1, <2>7, <2>8, <3>1, PrefixAppend DEF Strings, a
  <2>11. MovedTo(u, a) = MovedTo(t, a)
    BY DEF MovedTo
  <2> QED
    BY <2>5, <2>6, <2>9, <2>10, <2>11 DEF Mirrors
<1> QED
  BY <1>4, <1>6, <1>7 DEF L, a, b

\* So does one that enters a directory, and the directory has the names printed;
LEMMA NamesEntered ==
    ASSUME NEW t, RequestOK(t), NamesOK(t), t.pc = "next", NEW n \in Last(t.stack).todo
    PROVE  LET u == Entered(t, n) IN
           /\ NamesOK(u) /\ (Room(u) => Room(t))
           /\ Room(u) => /\ \A k \in 1..Len(t.stack) : O(u, k) = O(t, k) /\ N(u, k) = N(t, k)
                         /\ O(u, Len(t.stack) + 1) = Append(O(t, Len(t.stack)), n)
                         /\ N(u, Len(t.stack) + 1) = Append(N(t, Len(t.stack)), n)
<1> DEFINE u == Entered(t, n)
           L == Len(t.stack)
<1>1. /\ RequestOK(u) /\ u.path = t.path /\ u.to = t.to /\ u.tmp = TmpOf(t, n) /\ u.pc = "enter"
      /\ Len(u.stack) = L + 1
      /\ u.stack[L + 1] = NewFrame(EntryOf(t, n).old, EntryOf(t, n).new)
      /\ \A k \in 1..L : u.stack[k] = ReadOn(t, n, "dir")[k]
  BY EnteredKeeps
<1>2. \A k \in 1..L : ReadOn(t, n, "dir")[k].old = t.stack[k].old /\ ReadOn(t, n, "dir")[k].new = t.stack[k].new
  BY ReadOnIs
<1>3. u \in Request /\ L \in Nat
  BY <1>1, RequestFields DEF RequestOK
<1>4. NewFrame(EntryOf(t, n).old, EntryOf(t, n).new).old = EntryOf(t, n).old
      /\ NewFrame(EntryOf(t, n).old, EntryOf(t, n).new).new = EntryOf(t, n).new
  BY DEF NewFrame
<1> HIDE DEF u, L
<1>5. ASSUME Room(u)
      PROVE  /\ Room(t)
             /\ \A k \in 1..L : O(u, k) = O(t, k) /\ N(u, k) = N(t, k) /\ Mirrors(u, u.stack[k])
             /\ O(u, L + 1) = Append(O(t, L), n) /\ N(u, L + 1) = Append(N(t, L), n)
             /\ Mirrors(u, u.stack[L + 1])
  <2>1. /\ Room(t)
        /\ \A k \in 1..L : \A g :
              g.old = t.stack[k].old /\ g.new = t.stack[k].new =>
                  OldOf(u, g) = O(t, k) /\ NewOf(u, g) = N(t, k) /\ Mirrors(u, g)
        /\ \A g : g.old = EntryOf(t, n).old /\ g.new = EntryOf(t, n).new =>
              /\ OldOf(u, g) = Append(O(t, L), n)
              /\ NewOf(u, g) = Append(N(t, L), n)
              /\ Mirrors(u, g)
    BY <1>1, <1>3, <1>5, NamesNext DEF L
  <2>2. \A k \in 1..L : u.stack[k].old = t.stack[k].old /\ u.stack[k].new = t.stack[k].new
    BY <1>1, <1>2
  <2>3. \A k \in 1..L : O(u, k) = O(t, k) /\ N(u, k) = N(t, k) /\ Mirrors(u, u.stack[k])
    BY <2>1, <2>2 DEF O, N
  <2>4. u.stack[L + 1].old = EntryOf(t, n).old /\ u.stack[L + 1].new = EntryOf(t, n).new
    BY <1>1, <1>4
  <2>5. /\ O(u, L + 1) = Append(O(t, L), n) /\ N(u, L + 1) = Append(N(t, L), n)
        /\ Mirrors(u, u.stack[L + 1])
    BY <2>1, <2>4 DEF O, N
  <2> QED
    BY <2>1, <2>3, <2>5
<1>6. NamesOK(u)
  <2>1. ASSUME Room(u), NEW k \in 1..Len(u.stack)
        PROVE  Mirrors(u, u.stack[k])
    <3>1. k \in 1..L \/ k = L + 1
      BY <1>1, <1>3
    <3> QED
      BY <1>5, <2>1, <3>1
  <2> QED
    BY <1>1, <2>1 DEF NamesOK, Moving
<1> QED
  BY <1>5, <1>6 DEF u, L

\* and one that finds a file.
LEMMA NamesFound ==
    ASSUME NEW t, RequestOK(t), NamesOK(t), t.pc = "next", NEW n \in Last(t.stack).todo,
           NEW y \in {"reg", "dir"}
    PROVE  LET u == Found(t, n, y) IN
           /\ NamesOK(u) /\ (Room(u) => Room(t))
           /\ Room(u) => /\ \A k \in 1..Len(t.stack) : O(u, k) = O(t, k) /\ N(u, k) = N(t, k)
                         /\ OldOf(u, u.file) = Append(O(t, Len(t.stack)), n)
                         /\ NewOf(u, u.file) = Append(N(t, Len(t.stack)), n)
<1> DEFINE u == Found(t, n, y)
           L == Len(t.stack)
<1>1. /\ RequestOK(u) /\ u.path = t.path /\ u.to = t.to /\ u.tmp = TmpOf(t, n) /\ u.pc = "copy"
      /\ u.stack = ReadOn(t, n, y) /\ u.file = EntryOf(t, n)
  BY FoundKeeps
<1>2. \A k \in 1..L : ReadOn(t, n, y)[k].old = t.stack[k].old /\ ReadOn(t, n, y)[k].new = t.stack[k].new
  BY ReadOnIs
<1>3. u \in Request /\ L \in Nat /\ Len(ReadOn(t, n, y)) = L
  BY <1>1, RequestFields, ReadOnIs DEF RequestOK
<1> HIDE DEF u, L
<1>4. ASSUME Room(u)
      PROVE  /\ Room(t)
             /\ \A k \in 1..L : O(u, k) = O(t, k) /\ N(u, k) = N(t, k) /\ Mirrors(u, u.stack[k])
             /\ OldOf(u, u.file) = Append(O(t, L), n) /\ NewOf(u, u.file) = Append(N(t, L), n)
             /\ Mirrors(u, u.file)
  <2>1. /\ Room(t)
        /\ \A k \in 1..L : \A g :
              g.old = t.stack[k].old /\ g.new = t.stack[k].new =>
                  OldOf(u, g) = O(t, k) /\ NewOf(u, g) = N(t, k) /\ Mirrors(u, g)
        /\ \A g : g.old = EntryOf(t, n).old /\ g.new = EntryOf(t, n).new =>
              /\ OldOf(u, g) = Append(O(t, L), n)
              /\ NewOf(u, g) = Append(N(t, L), n)
              /\ Mirrors(u, g)
    BY <1>1, <1>3, <1>4, NamesNext DEF L
  <2>2. \A k \in 1..L : u.stack[k].old = t.stack[k].old /\ u.stack[k].new = t.stack[k].new
    BY <1>1, <1>2
  <2>3. \A k \in 1..L : O(u, k) = O(t, k) /\ N(u, k) = N(t, k) /\ Mirrors(u, u.stack[k])
    BY <2>1, <2>2 DEF O, N
  <2>4. u.file.old = EntryOf(t, n).old /\ u.file.new = EntryOf(t, n).new
    BY <1>1
  <2> QED
    BY <2>1, <2>3, <2>4
<1>5. Len(u.stack) = L
  BY <1>1, <1>3
<1>6. NamesOK(u)
  BY <1>4, <1>5 DEF NamesOK
<1> QED
  BY <1>4, <1>6 DEF u, L

\* What t has printed, and more.
More(t, s) == /\ s \in Seq(Strings) /\ Len(t.tmp) <= Len(s)
              /\ \A i \in 1..Len(t.tmp) : s[i] = t.tmp[i]
              /\ t.stack # <<>> => \A i \in 1..Len(s) : Inside(t, s[i])

\* The request t goes on as u with the first m of its calls, the last of which
\* is told r.
Back(t, u, m, r, s) ==
    /\ NamesOK(u) /\ u.pc \in {"done", "next"}
    /\ u.op = t.op /\ u.path = t.path /\ u.to = t.to /\ u.displaces = t.displaces
    /\ u.tmp = s /\ (Room(u) => Room(t)) /\ Len(u.stack) = m
    /\ m = 0 => u.pc = "done" /\ u.stack = <<>> /\ u.ret = IF r = -1 THEN -1 ELSE 0
    /\ m > 0 => /\ u.pc = "next" /\ u.stack[m] = Told(t.stack[m], r)
                /\ \A k \in 1..m - 1 : u.stack[k] = t.stack[k]
    /\ Room(u) => \A k \in 1..m : O(u, k) = O(t, k) /\ N(u, k) = N(t, k)

\* What Returned does is what Back says.
LEMMA OutBack ==
    ASSUME NEW t, RequestOK(t), NamesOK(t), t.pc \in Walking \union Moving,
           NEW rest \in Seq(FrameType), Len(rest) <= Len(t.stack),
           \A k \in 1..Len(rest) : rest[k] = t.stack[k],
           NEW r \in -2..1, NEW s, More(t, s)
    PROVE  Back(t, Out(t, rest, r, s), Len(rest), r, s)
<1> DEFINE u == Out(t, rest, r, s)
<1>1. Len(rest) \in Nat /\ (rest = <<>> <=> Len(rest) = 0)
  BY EmptySeq, LenProperties
<1>2. Len(t.stack) \in Nat /\ t \in Request
  BY RequestFields DEF RequestOK
<1>3. rest # <<>> => t.stack # <<>>
  <2>1. t.stack = <<>> => Len(t.stack) = 0
    BY EmptySeq
  <2> QED
    BY <1>1, <1>2, <2>1
<1>4. /\ NamesOK(u) /\ u.pc \in {"done", "next"}
      /\ u.op = t.op /\ u.path = t.path /\ u.to = t.to /\ u.displaces = t.displaces
      /\ u.tmp = s /\ (Room(u) => Room(t)) /\ Len(u.stack) = Len(rest)
      /\ rest = <<>> => u.pc = "done" /\ u.stack = <<>> /\ u.ret = IF r = -1 THEN -1 ELSE 0
      /\ rest # <<>> => /\ u.pc = "next" /\ u.stack[Len(rest)] = Told(rest[Len(rest)], r)
                        /\ \A k \in 1..Len(rest) - 1 : u.stack[k] = rest[k]
      /\ Room(u) => \A k \in 1..Len(rest) : O(u, k) = O(t, k) /\ N(u, k) = N(t, k)
  BY <1>3, NamesOut, SMTT(30) DEF More
<1> HIDE DEF u
<1>5. Len(rest) > 0 => /\ u.stack[Len(rest)] = Told(t.stack[Len(rest)], r)
                       /\ \A k \in 1..Len(rest) - 1 : u.stack[k] = t.stack[k]
  BY <1>1, <1>4
<1> QED
  BY <1>1, <1>4, <1>5 DEF Back, u

\* rename_directory returns,
LEMMA LeaveBack ==
    ASSUME Threads, NEW c \in Clients, NamesOK(th[c]), th[c].pc \in Walking,
           NEW r \in -2..1, NEW s, More(th[c], s), Leave(c, r, s)
    PROVE  Back(th[c], th'[c], Len(th[c].stack) - 1, r, s)
<1> DEFINE t == th[c]
           rest == Front(t.stack)
<1>1. RequestOK(t) /\ t.stack \in Seq(FrameType) /\ t.stack # <<>> /\ Len(t.stack) \in Nat
  BY RequestFields DEF Threads, RequestOK, StepOK
<1>2. /\ rest \in Seq(FrameType) /\ Len(rest) = Len(t.stack) - 1
      /\ \A k \in 1..Len(t.stack) - 1 : rest[k] = t.stack[k]
  BY <1>1, FrontIs
<1>3. th'[c] = Out(t, rest, r, s)
  BY NowIs
<1> HIDE DEF rest, t
<1>4. Len(rest) <= Len(t.stack) /\ \A k \in 1..Len(rest) : rest[k] = t.stack[k]
  BY <1>1, <1>2
<1>5. NamesOK(t) /\ More(t, s) /\ t.pc \in Walking \union Moving
  BY DEF t
<1>6. Back(t, Out(t, rest, r, s), Len(rest), r, s)
  BY <1>1, <1>2, <1>4, <1>5, OutBack
<1> QED
  BY <1>2, <1>3, <1>6 DEF t

\* or rename_file does.
LEMMA ReturnBack ==
    ASSUME Threads, NEW c \in Clients, NamesOK(th[c]), th[c].pc \in Moving,
           NEW r \in -2..1, NEW s, More(th[c], s), Returned(c, th[c].stack, r, s)
    PROVE  Back(th[c], th'[c], Len(th[c].stack), r, s)
<1> DEFINE t == th[c]
<1>1. RequestOK(t) /\ t.stack \in Seq(FrameType) /\ Len(t.stack) \in Nat
  BY RequestFields DEF Threads, RequestOK
<1>2. th'[c] = Out(t, t.stack, r, s)
  BY NowIs
<1> HIDE DEF t
<1>3. NamesOK(t) /\ More(t, s) /\ t.pc \in Walking \union Moving
  BY DEF t
<1>4. Back(t, Out(t, t.stack, r, s), Len(t.stack), r, s)
  BY <1>1, <1>3, OutBack
<1> QED
  BY <1>2, <1>4 DEF t

\* A call that returns leaves nothing to keep but the names.
LEMMA BackLocal ==
    ASSUME NEW t, NEW u, NEW m \in Nat, NEW r, NEW s, Back(t, u, m, r, s), NEW b
    PROVE  Local(b, u)
<1>1. m = 0 \/ m > 0
  OBVIOUS
<1>2. NamesOK(u) /\ u.pc \in {"done", "next"}
  BY <1>1 DEF Back
<1> QED
  BY <1>2 DEF Local, FreshOK, CopiedOK

\* A request has printed what it has printed.
LEMMA SameTmp ==
    ASSUME NEW t, RequestOK(t), t.pc # "done"
    PROVE  More(t, t.tmp)
BY TmpInside DEF More

\* rename_directory fails.
LEMMA FailsBack ==
    ASSUME Threads, NEW c \in Clients, NamesOK(th[c]), th[c].pc \in Walking,
           NEW R \in SUBSET (-2..1), Fails(c, R)
    PROVE  \E r \in R : Back(th[c], th'[c], Len(th[c].stack) - 1, r, th[c].tmp)
<1>1. PICK r \in R : Leave(c, r, th[c].tmp)
  BY DEF Fails
<1>2. r \in -2..1 /\ RequestOK(th[c]) /\ th[c].pc # "done"
  BY DEF Threads, Walking
<1>3. Back(th[c], th'[c], Len(th[c].stack) - 1, r, th[c].tmp)
  BY <1>1, <1>2, SameTmp, LeaveBack
<1> QED
  BY <1>3

\* What a request of one path keeps about itself.
LEMMA SimpleLocal ==
    ASSUME LInv, NEW c \in Clients,
           Begin(c) \/ Finish(c) \/ Resolve(c) \/ Mknod(c) \/ Setattr(c) \/ Mkdir(c) \/ Unlink(c)
           \/ Rmdir(c) \/ Readdir(c) \/ List(c)
    PROVE  Local(bucket', th'[c])
<1> DEFINE t == th[c]
<1>1. DataOK /\ Threads
  BY SInvIs DEF LInv
<1>2. RequestOK(t) /\ t \in Request
  BY <1>1 DEF Threads
<1>3. CASE Begin(c)
  <2>1. PICK q \in Asks : th' = [th EXCEPT ![c] = [Idle EXCEPT !.pc = "resolve", !.op = q.op,
                                                  !.path = q.path, !.to = q.to,
                                                  !.displaces = Displaces(q)]]
    BY <1>3 DEF Begin
  <2>2. th'[c] = [Idle EXCEPT !.pc = "resolve", !.op = q.op, !.path = q.path, !.to = q.to,
                              !.displaces = Displaces(q)]
    BY <1>1, <2>1, NowIs
  <2>3. th'[c].pc = "resolve" /\ th'[c].stack = <<>>
    BY <2>2 DEF Idle
  <2>4. th'[c].pc \notin Moving \union {"mknod", "symlink", "mkdir", "setattr"}
    BY <2>3 DEF Moving
  <2> QED
    BY <2>3, <2>4, LocalSimple
<1>4. CASE Finish(c)
  <2>1. th' = [th EXCEPT ![c] = Idle]
    BY <1>4 DEF Finish
  <2>2. th'[c] = Idle
    BY <1>1, <2>1, NowIs
  <2>3. th'[c].pc = "idle" /\ th'[c].stack = <<>>
    BY <2>2 DEF Idle
  <2>4. th'[c].pc \notin Moving \union {"mknod", "symlink", "mkdir", "setattr"}
    BY <2>3 DEF Moving
  <2> QED
    BY <2>3, <2>4, LocalSimple
<1>5. ASSUME t.stack = <<>>, NEW r, Done(c, r)
      PROVE  Local(bucket', th'[c])
  <2>1. th'[c].pc = "done" /\ th'[c].stack = <<>>
    <3>1. th'[c] = Answered(t, r)
      BY <1>1, <1>5, NowIs
    <3>2. Answered(t, r).pc = "done" /\ Answered(t, r).stack = t.stack
      BY <1>2, GoneIs
    <3> QED
      BY <1>5, <3>1, <3>2
  <2>2. th'[c].pc \notin Moving \union {"mknod", "symlink", "mkdir", "setattr"}
    BY <2>1 DEF Moving
  <2> QED
    BY <2>1, <2>2, LocalSimple
<1>6. ASSUME t.pc \notin Walking \union Moving
      PROVE  t.stack = <<>>
  BY <1>1, <1>6, SimpleStack
<1>0. ASSUME t.stack = <<>>, NEW l, Go(c, l)
      PROVE  th'[c].pc = l /\ th'[c].stack = <<>> /\ th'[c].path = t.path
  <2>1. th'[c] = Gone(t, l)
    BY <1>1, <1>0, NowIs
  <2>2. Gone(t, l).pc = l /\ Gone(t, l).stack = <<>> /\ Gone(t, l).path = t.path
    BY <1>2, <1>0, GoneIs
  <2> QED
    BY <2>1, <2>2
<1>7. CASE Resolve(c)
  <2>1. t.pc = "resolve" /\ t.stack = <<>> /\ UNCHANGED bucket
    BY <1>6, <1>7 DEF Resolve, At, Walking, Moving
  <2>2. CASE \E r : Done(c, r)
    BY <1>5, <2>1, <2>2
  <2>3. CASE Admits(t.op, Answer(t.path), Answer(t.to)) /\ Go(c, t.op)
    <3>1. th'[c].pc = t.op /\ th'[c].stack = <<>> /\ th'[c].path = t.path
      BY <1>0, <2>1, <2>3
    <3>2. t.op \in Ops /\ t.path \in Paths
      BY <1>2, <2>1, RunningRequest
    <3>3. CASE t.op \in {"mknod", "symlink", "mkdir"}
      <4>1. Answer(t.path) = "none"
        BY <2>3, <3>3 DEF Admits
      <4>2. bucket[t.path] = "none"
        BY <3>2, <4>1 DEF LInv, TableKnows, Answer
      <4>3. NamesOK(th'[c])
        BY <3>1, EmptySeq, <3>3 DEF NamesOK, Moving
      <4> QED
        BY <2>1, <3>1, <3>3, <4>2, <4>3 DEF Local, FreshOK, CopiedOK
    <3>4. CASE t.op \notin {"mknod", "symlink", "mkdir"}
      <4>1. th'[c].pc \notin Moving \union {"mknod", "symlink", "mkdir", "setattr"}
        BY <3>1, <3>2, <3>4 DEF Ops, Moving
      <4> QED
        BY <3>1, <4>1, LocalSimple
    <3> QED
      BY <3>3, <3>4
  <2> QED
    BY <1>7, <2>2, <2>3 DEF Resolve
<1>8. CASE Mknod(c)
  <2>1. t.pc \in {"mknod", "symlink"} /\ t.stack = <<>> /\ t.path \in Paths
    BY <1>2, <1>6, <1>8, RunningRequest DEF Mknod, Walking, Moving
  <2>2. CASE \E r : Done(c, r)
    BY <1>5, <2>1, <2>2
  <2>3. CASE bucket' = Put(t.path, "empty") /\ Go(c, "setattr")
    <3>1. th'[c].pc = "setattr" /\ th'[c].stack = <<>> /\ th'[c].path = t.path
      BY <1>0, <2>1, <2>3
    <3>2. bucket'[t.path] = "empty"
      BY <2>1, <2>3 DEF Put
    <3>3. NamesOK(th'[c])
      BY <3>1, EmptySeq DEF NamesOK, Moving
    <3> QED
      BY <3>1, <3>2, <3>3 DEF Local, FreshOK, CopiedOK
  <2> QED
    BY <1>8, <2>2, <2>3 DEF Mknod
<1>9. CASE Setattr(c) \/ Mkdir(c) \/ Unlink(c) \/ Rmdir(c) \/ List(c)
  <2>1. t.stack = <<>>
    BY <1>6, <1>9 DEF Setattr, Mkdir, Unlink, Rmdir, List, At, Walking, Moving
  <2>2. \E r : Done(c, r)
    BY <1>9 DEF Setattr, Mkdir, Unlink, Rmdir, List
  <2> QED
    BY <1>5, <2>1, <2>2
<1>10. CASE Readdir(c)
  <2>1. t.stack = <<>>
    BY <1>6, <1>10 DEF Readdir, At, Walking, Moving
  <2>2. CASE \E r : Done(c, r)
    BY <1>5, <2>1, <2>2
  <2>3. CASE Go(c, "list")
    <3>1. th'[c].pc = "list" /\ th'[c].stack = <<>>
      BY <1>0, <2>1, <2>3
    <3> QED
      BY <3>1, LocalSimple DEF Moving
  <2> QED
    BY <1>10, <2>2, <2>3 DEF Readdir
<1> QED
  BY <1>3, <1>4, <1>7, <1>8, <1>9, <1>10

\* What is below the old name, and what is below the new one.
LEMMA TwoTrees ==
    ASSUME NEW t, RequestOK(t), t.op = "rename", t.pc # "idle"
    PROVE  /\ \A s \in Strings : ~(IsPrefix(t.path, s) /\ IsPrefix(t.to, s))
           /\ \A s \in Paths : IsPrefix(t.path, s) => MovedTo(t, s) \in Paths
           /\ \A s \in Strings : IsPrefix(t.path, s) => IsPrefix(t.to, MovedTo(t, s)) /\ MovedTo(t, s) \in Strings
<1>1. /\ t.path \in Strings /\ t.to \in Strings /\ t.path \in Paths /\ t.to \in Paths
      /\ ~IsPrefix(t.path, t.to) /\ ~IsPrefix(t.to, t.path)
  BY RunningRequest, PathStrings
<1>2. [op |-> t.op, path |-> t.path, to |-> t.to] \in Asks
  BY DEF RequestOK, StepOK
<1>3. ASSUME NEW s \in Strings, IsPrefix(t.path, s), IsPrefix(t.to, s)
      PROVE  FALSE
  <2>1. Len(t.path) \in Nat /\ Len(t.to) \in Nat
    BY <1>1, LenProperties DEF Strings
  <2>2. Len(t.path) <= Len(t.to) => IsPrefix(t.path, t.to)
    BY <1>1, <1>3, PrefixOrder DEF Strings
  <2>3. Len(t.to) <= Len(t.path) => IsPrefix(t.to, t.path)
    BY <1>1, <1>3, PrefixOrder DEF Strings
  <2> QED
    BY <1>1, <2>1, <2>2, <2>3
<1>4. ASSUME NEW s \in Paths, IsPrefix(t.path, s)
      PROVE  MovedTo(t, s) \in Paths
  <2> DEFINE q == [op |-> t.op, path |-> t.path, to |-> t.to]
  <2>1. q \in Asks /\ q.op = "rename" /\ q.path = t.path /\ q.to = t.to
    BY <1>2
  <2> HIDE DEF q
  <2>2. q.to \o SubSeq(s, Len(q.path) + 1, Len(s)) \in Paths
    BY <1>4, <2>1, TargetsAssumption
  <2> QED
    BY <2>1, <2>2 DEF MovedTo
<1>5. \A s \in Strings : IsPrefix(t.path, s) => IsPrefix(t.to, MovedTo(t, s)) /\ MovedTo(t, s) \in Strings
  BY <1>1, MovedIs
<1> QED
  BY <1>3, <1>4, <1>5

\* What is printed is more than before: one string more,
LEMMA MoreAppend ==
    ASSUME NEW t, NEW s, NEW x \in Strings, More(t, s), Len(t.tmp) \in Nat,
           t.stack # <<>> => Inside(t, x)
    PROVE  More(t, Append(s, x))
<1>1. s \in Seq(Strings) /\ Len(s) \in Nat /\ Len(t.tmp) <= Len(s)
  BY LenProperties DEF More
<1>2. /\ Append(s, x) \in Seq(Strings) /\ Len(Append(s, x)) = Len(s) + 1
      /\ \A i \in 1..Len(s) : Append(s, x)[i] = s[i]
  BY <1>1, AppendProperties
<1> DEFINE v == Append(s, x)
<1>3. t.stack # <<>> => \A i \in 1..Len(v) : Inside(t, v[i])
  <2>1. t.stack # <<>> => \A i \in 1..Len(s) : Inside(t, s[i])
    BY DEF More
  <2> QED
    BY <1>1, <2>1, OneMoreInside
<1> HIDE DEF v
<1>4. \A i \in 1..Len(t.tmp) : v[i] = s[i] /\ s[i] = t.tmp[i]
  BY <1>1, <1>2 DEF More, v
<1> QED
  BY <1>1, <1>2, <1>3, <1>4 DEF More, v

\* the names of an entry,
LEMMA MoreNext ==
    ASSUME NEW t, RequestOK(t), t.pc = "next", NEW n \in Last(t.stack).todo
    PROVE  More(t, TmpOf(t, n))
<1> DEFINE x == TmpOf(t, n)
<1>1. Len(t.tmp) \in Nat
  BY TmpInside
<1>2. /\ x \in Seq(Strings) /\ Len(x) = Len(t.tmp) + 2
      /\ \A i \in 1..Len(t.tmp) : x[i] = t.tmp[i]
      /\ \A i \in 1..Len(t.tmp) + 2 : Inside(t, x[i])
  BY PrintedNames
<1> HIDE DEF x
<1> QED
  BY <1>1, <1>2 DEF More, x

\* those that dfs_unlink prints,
LEMMA MoreForget ==
    ASSUME Threads, NEW c \in Clients, th[c].pc \in Moving
    PROVE  More(th[c], ForgetTmp(c))
<1> DEFINE t == th[c]
           old == OldName(c, t.file)
           t1 == Append(t.tmp, CacheDir \o old)
<1>1. /\ old \in Strings /\ Len(t.tmp) \in Nat
      /\ t.stack # <<>> => old # <<>> /\ Inside(t, Front(old))
  BY FileReads
<1>2. More(t, t.tmp)
  BY SameTmp DEF Threads, Moving
<1>3. More(t, t1)
  <2>1. CacheDir \o old \in Strings /\ Inside(t, CacheDir \o old)
    BY <1>1, CacheName
  <2> QED
    BY <1>1, <1>2, <2>1, MoreAppend
<1>4. Front(old) \in Strings
  <2>1. old # <<>> => Front(old) \in Strings
    BY <1>1, FrontIs DEF Strings
  <2>2. old = <<>> => Front(old) \in Strings
    BY FrontOfNothing, <1>1
  <2> QED
    BY <2>1, <2>2
<1>5. More(t, Append(t1, Front(old)))
  BY <1>1, <1>3, <1>4, MoreAppend
<1> HIDE DEF t1
<1>6. ForgetTmp(c) = IF table[old] = "absent" THEN t1 ELSE Append(t1, Front(old))
  BY DEF ForgetTmp, t1
<1> QED
  BY <1>3, <1>5, <1>6

\* and the one that dfs_rmdir prints.
LEMMA MoreLeave ==
    ASSUME Threads, NEW c \in Clients, th[c].pc \in Walking
    PROVE  More(th[c], Append(th[c].tmp, CacheDir \o OldName(c, Frame(c))))
<1>1. RequestOK(th[c]) /\ th[c].pc # "done"
  BY DEF Threads, Walking
<1>2. More(th[c], th[c].tmp) /\ Len(th[c].tmp) \in Nat
  BY <1>1, SameTmp, TmpInside
<1>3. CacheDir \o OldName(c, Frame(c)) \in Strings /\ Inside(th[c], CacheDir \o OldName(c, Frame(c)))
  <2>1. OldName(c, Frame(c)) \in Strings
    BY TopFrame
  <2> QED
    BY <2>1, CacheName
<1> QED
  BY <1>2, <1>3, MoreAppend

\* dpl_fcopy from src to dst.
Copies(c) ==
    LET src == OldName(c, th[c].file)
        dst == NewName(c, th[c].file)
    IN  /\ IsFile(Thing(src)) /\ HasParent(dst) /\ Thing(dst) # "dir"
        /\ NoFault /\ bucket' = Put(dst, Thing(src)) /\ Go(c, "forget")

\* After the copy, what is unlinked is where it was copied to.
LEMMA CopiesLocal ==
    ASSUME LInv, NEW c \in Clients, th[c].pc = "copy", Copies(c)
    PROVE  Local(bucket', th'[c])
<1> DEFINE t == th[c]
           u == Gone(t, "forget")
           src == OldOf(t, t.file)
           dst == NewOf(t, t.file)
<1>1. DataOK /\ Threads /\ NamesOK(t)
  BY SInvIs DEF LInv
<1>2. RequestOK(t) /\ t \in Request /\ t.pc \in Moving /\ t.op = "rename" /\ t.pc # "idle"
  BY <1>1 DEF Threads, RequestOK, StepOK, Moving
<1>3. th'[c] = u
  BY <1>1, NowIs DEF Copies
<1>4. /\ NamesOK(u) /\ OldOf(u, t.file) = src /\ NewOf(u, t.file) = dst
      /\ u.pc = "forget" /\ u.file = t.file /\ u.tmp = t.tmp
  <2>1. "forget" \in Moving
    BY DEF Moving
  <2> QED
    BY <1>1, <1>2, <2>1, NamesGo, GoneIs
<1>5. IsFile(Thing(src)) /\ bucket' = Put(dst, Thing(src))
  BY NamesOf DEF Copies
<1>6. src \in Paths /\ Thing(src) = bucket[src] /\ bucket \in [Paths -> Things]
  BY <1>1, <1>5, ThingType DEF IsFile, DataOK
<1> HIDE DEF u, src, dst
<1>7. CopiedOK(bucket', u)
  <2> SUFFICES ASSUME Room(u)
               PROVE  /\ IsFile(ThingIn(bucket', src))
                      /\ ThingIn(bucket', dst) = ThingIn(bucket', src)
    BY <1>4 DEF CopiedOK
  <2>1. Mirrors(t, t.file)
    BY <1>1, <1>2, <1>4 DEF NamesOK, Room
  <2>2. IsPrefix(t.path, src) /\ dst = MovedTo(t, src)
    BY <2>1 DEF Mirrors, src, dst
  <2>3. dst \in Paths /\ dst # src
    <3>1. src \in Strings
      BY <1>6, PathStrings
    <3> QED
      BY <1>2, <1>6, <2>2, <3>1, TwoTrees
  <2>4. bucket'[dst] = bucket[src] /\ bucket'[src] = bucket[src]
    BY <1>5, <1>6, <2>3 DEF Put
  <2> QED
    BY <1>5, <1>6, <2>3, <2>4 DEF ThingIn
<1>8. FreshOK(bucket', u)
  BY <1>4 DEF FreshOK
<1> QED
  BY <1>3, <1>4, <1>7, <1>8 DEF Local

\* The request after its frame has changed.
LEMMA FrameNow ==
    ASSUME Threads, NEW c \in Clients, NEW l, NEW f,
           th' = [th EXCEPT ![c].pc = l, ![c].stack = SetFrame(c, f)]
    PROVE  th'[c] = WithFrame(th[c], l, f)
BY DEF Threads, WithFrame, SetFrame

\* The names of the last call.
LEMMA TopNames ==
    ASSUME Threads, NEW c \in Clients, th[c].pc \in Walking
    PROVE  /\ OldName(c, Frame(c)) = O(th[c], Len(th[c].stack))
           /\ NewName(c, Frame(c)) = N(th[c], Len(th[c].stack))
           /\ Len(th[c].stack) \in Nat \ {0} /\ Len(th[c].stack) - 1 \in Nat
<1>1. Frame(c) = th[c].stack[Len(th[c].stack)]
      /\ Len(th[c].stack) \in Nat /\ Len(th[c].stack) \in 1..Len(th[c].stack)
  BY TopFrame
<1>2. Len(th[c].stack) \in Nat \ {0} /\ Len(th[c].stack) - 1 \in Nat
  BY <1>1
<1> QED
  BY <1>1, <1>2, NamesOf DEF O, N

\* Each action of dfs_rename, in terms of the names of the call that runs.
LEMMA EnterIs ==
    ASSUME Threads, NEW c \in Clients, NamesOK(th[c]), Enter(c)
    PROVE  LET t == th[c]
               u == th'[c]
               L == Len(t.stack)
               f == [Frame(c) EXCEPT !.type = TypeOf(Thing(N(t, L)))]
           IN  \/ Thing(N(t, L)) # "none" /\ NoFault /\ UNCHANGED bucket /\ u = WithFrame(t, "chdir", f)
               \/ /\ Thing(N(t, L)) = "none" /\ HasParent(N(t, L)) /\ NoFault
                  /\ bucket' = Put(N(t, L), "dir") /\ u = Gone(t, "chdir")
               \/ /\ Back(t, u, L - 1, -1, t.tmp) /\ Thing(N(t, L)) = "none"
                  /\ \/ ~HasParent(N(t, L)) /\ NoFault /\ UNCHANGED bucket
                     \/ LostPut(N(t, L), "dir")
               \/ Back(t, u, L - 1, -1, t.tmp) /\ Fault /\ UNCHANGED bucket
<1> DEFINE t == th[c]
           u == th'[c]
           L == Len(t.stack)
           f == [Frame(c) EXCEPT !.type = TypeOf(Thing(N(t, L)))]
<1>1. th[c].pc = "enter" /\ th[c].pc \in Walking
  BY DEF Enter, At, Walking
<1>2. NewName(c, Frame(c)) = N(t, L)
  BY <1>1, TopNames
<1>3. Go(c, "chdir") => u = Gone(t, "chdir")
  BY NowIs
<1>4. Fails(c, {-1}) => Back(t, u, L - 1, -1, t.tmp)
  BY <1>1, FailsBack
<1>5. th' = [th EXCEPT ![c].pc = "chdir", ![c].stack = SetFrame(c, f)] => u = WithFrame(t, "chdir", f)
  BY FrameNow
<1> QED
  BY <1>2, <1>3, <1>4, <1>5 DEF Enter, Mkdirs, MkdirFails

LEMMA ChdirIs ==
    ASSUME Threads, NEW c \in Clients, NamesOK(th[c]), Chdir(c)
    PROVE  LET t == th[c]
               u == th'[c]
               L == Len(t.stack)
           IN  /\ UNCHANGED bucket
               /\ \/ Thing(O(t, L)) = "dir" /\ NoFault /\ cwd' = O(t, L) /\ u = Gone(t, "opendir")
                  \/ /\ (Thing(O(t, L)) # "dir" /\ NoFault) \/ Fault
                     /\ \E r \in Failures : Back(t, u, L - 1, r, t.tmp)
<1> DEFINE t == th[c]
           u == th'[c]
           L == Len(t.stack)
<1>1. th[c].pc = "chdir" /\ th[c].pc \in Walking
  BY DEF Chdir, At, Walking
<1>2. OldName(c, Frame(c)) = O(t, L)
  BY <1>1, TopNames
<1>3. Go(c, "opendir") => u = Gone(t, "opendir")
  BY NowIs
<1>4. Fails(c, Failures) => \E r \in Failures : Back(t, u, L - 1, r, t.tmp)
  BY <1>1, FailsBack DEF Failures
<1> QED
  BY <1>2, <1>3, <1>4 DEF Chdir

LEMMA OpendirIs ==
    ASSUME Threads, NEW c \in Clients, NamesOK(th[c]), Opendir(c)
    PROVE  LET t == th[c]
               u == th'[c]
           IN  /\ UNCHANGED bucket
               /\ \/ NoFault /\ u = WithFrame(t, "next", [Frame(c) EXCEPT !.todo = Listing(cwd)])
                  \/ Fault /\ \E r \in Failures : Back(t, u, Len(t.stack) - 1, r, t.tmp)
<1> DEFINE t == th[c]
           u == th'[c]
           f == [Frame(c) EXCEPT !.todo = Listing(cwd)]
<1>1. th[c].pc = "opendir" /\ th[c].pc \in Walking
  BY DEF Opendir, At, Walking
<1>2. Fails(c, Failures) => \E r \in Failures : Back(t, u, Len(t.stack) - 1, r, t.tmp)
  BY <1>1, FailsBack DEF Failures
<1>3. th' = [th EXCEPT ![c].pc = "next", ![c].stack = SetFrame(c, f)] => u = WithFrame(t, "next", f)
  BY FrameNow
<1> QED
  BY <1>2, <1>3 DEF Opendir

LEMMA EntryIs ==
    ASSUME Threads, NEW c \in Clients, NamesOK(th[c]), NextEntry(c)
    PROVE  LET t == th[c]
               u == th'[c]
               x(n) == Thing(SrcOf(t, n))
           IN  /\ UNCHANGED bucket
               /\ \E n \in Last(t.stack).todo :
                     \/ /\ NoFault
                        /\ \E y \in {"reg", "dir"} :
                              /\ x(n) # "none" => y = TypeOf(x(n))
                              /\ \/ y = "dir" /\ u = Entered(t, n)
                                 \/ y # "dir" /\ u = Found(t, n, y)
                     \/ Fault /\ Back(t, u, Len(t.stack) - 1, -1, TmpOf(t, n))
<1> DEFINE t == th[c]
           u == th'[c]
           x(n) == Thing(SrcOf(t, n))
           Y(n) == IF x(n) # "none" THEN {TypeOf(x(n))}
                   ELSE IF Frame(c).type = "unset" THEN Garbage ELSE {Frame(c).type}
<1>1. th[c].pc = "next" /\ th[c].pc \in Walking /\ RequestOK(th[c])
  BY DEF NextEntry, At, Walking, Threads
<1>2. /\ UNCHANGED bucket
      /\ \E n \in Last(t.stack).todo :
            \/ /\ NoFault
               /\ \E y \in Y(n) :
                     \/ y = "dir" /\ th' = [th EXCEPT ![c] = Entered(t, n)]
                     \/ y # "dir" /\ th' = [th EXCEPT ![c] = Found(t, n, y)]
            \/ Fault /\ Leave(c, -1, TmpOf(t, n))
  BY NextIs DEF Frame
<1>3. \A n : Y(n) \subseteq {"reg", "dir"} /\ (x(n) # "none" => \A y \in Y(n) : y = TypeOf(x(n)))
  <2>1. Frame(c) \in FrameType
    BY <1>1, TopFrame
  <2> QED
    BY <2>1 DEF TypeOf, Garbage, FrameType
<1>4. ASSUME NEW n \in Last(t.stack).todo, Leave(c, -1, TmpOf(t, n))
      PROVE  Back(t, u, Len(t.stack) - 1, -1, TmpOf(t, n))
  <2>1. More(t, TmpOf(t, n)) /\ -1 \in -2..1
    BY <1>1, MoreNext
  <2> QED
    BY <1>1, <1>4, <2>1, LeaveBack
<1>5. /\ \A n : th' = [th EXCEPT ![c] = Entered(t, n)] => u = Entered(t, n)
      /\ \A n, y : th' = [th EXCEPT ![c] = Found(t, n, y)] => u = Found(t, n, y)
  BY NowIs
<1> HIDE DEF Y, x
<1> QED
  BY <1>2, <1>3, <1>4, <1>5 DEF x

LEMMA RenameIs ==
    ASSUME Threads, NEW c \in Clients, Rename(c)
    PROVE  LET t == th[c]
               u == th'[c]
               x == Thing(t.path)
           IN  /\ UNCHANGED bucket
               /\ \E y \in Garbage \union {"other"} :
                     /\ (NoFault /\ (x = "none" \/ y = TypeOf(x))) \/ Fault
                     /\ \/ y = "other" /\ u = Answered(t, -1)
                        \/ y = "reg" /\ u = Gone(t, "copy")
                        \/ y = "dir" /\ u = First(t)
<1> DEFINE t == th[c]
           u == th'[c]
<1>1. /\ \A l : Go(c, l) => u = Gone(t, l)
      /\ \A r : Done(c, r) => u = Answered(t, r)
  BY NowIs
<1>2. th' = [th EXCEPT ![c].pc = "enter", ![c].stack = <<NewFrame(0, 0)>>] => u = First(t)
  BY DEF Threads, First
<1> QED
  BY <1>1, <1>2 DEF Rename

LEMMA CopyBack ==
    ASSUME Threads, NEW c \in Clients, NamesOK(th[c]), Copy(c)
    PROVE  LET t == th[c]
               src == OldOf(t, t.file)
               dst == NewOf(t, t.file)
               able == IsFile(Thing(src)) /\ HasParent(dst) /\ Thing(dst) # "dir"
           IN  \/ Copies(c)
               \/ /\ Back(t, th'[c], Len(t.stack), -1, t.tmp)
                  /\ \/ ~able /\ NoFault /\ UNCHANGED bucket
                     \/ able /\ LostPut(dst, Thing(src))
<1> DEFINE t == th[c]
<1>1. t.pc = "copy" /\ t.pc \in Moving /\ t.pc # "done" /\ RequestOK(t)
  BY DEF Copy, At, Moving, Threads
<1>2. Returned(c, t.stack, -1, t.tmp) => Back(t, th'[c], Len(t.stack), -1, t.tmp)
  <2>1. More(t, t.tmp) /\ -1 \in -2..1
    BY <1>1, SameTmp
  <2> QED
    BY <1>1, <2>1, ReturnBack
<1>3. OldName(c, t.file) = OldOf(t, t.file) /\ NewName(c, t.file) = NewOf(t, t.file)
  BY NamesOf
<1> QED
  BY <1>2, <1>3 DEF Copy, Copies

LEMMA ForgetIs ==
    ASSUME Threads, NEW c \in Clients, NamesOK(th[c]), Forget(c)
    PROVE  LET t == th[c]
               old == OldOf(t, t.file)
           IN  \/ /\ IsFile(Thing(old)) /\ NoFault /\ bucket' = Put(old, "none")
                  /\ Back(t, th'[c], Len(t.stack), 0, ForgetTmp(c))
               \/ /\ \/ ~IsFile(Thing(old)) /\ NoFault /\ UNCHANGED bucket
                     \/ IsFile(Thing(old)) /\ LostPut(old, "none")
                  /\ Back(t, th'[c], Len(t.stack), 1, t.tmp)
<1> DEFINE t == th[c]
           old == OldOf(t, t.file)
<1>1. t.pc = "forget" /\ t.pc \in Moving /\ t.pc # "done" /\ RequestOK(t)
  BY DEF Forget, At, Moving, Threads
<1>2. OldName(c, t.file) = old
  BY NamesOf
<1>3. \/ Unlinks(old) /\ Returned(c, t.stack, 0, ForgetTmp(c))
      \/ UnlinkFails(old) /\ Returned(c, t.stack, 1, t.tmp)
  BY <1>2 DEF Forget, ForgetTmp
<1>4. Returned(c, t.stack, 1, t.tmp) => Back(t, th'[c], Len(t.stack), 1, t.tmp)
  <2>1. More(t, t.tmp) /\ 1 \in -2..1
    BY <1>1, SameTmp
  <2> QED
    BY <1>1, <2>1, ReturnBack
<1>5. Returned(c, t.stack, 0, ForgetTmp(c)) => Back(t, th'[c], Len(t.stack), 0, ForgetTmp(c))
  <2>1. More(t, ForgetTmp(c)) /\ 0 \in -2..1
    BY <1>1, MoreForget
  <2> QED
    BY <1>1, <2>1, ReturnBack
<1> QED
  BY <1>3, <1>4, <1>5 DEF Unlinks, UnlinkFails

LEMMA LeaveDirIs ==
    ASSUME Threads, NEW c \in Clients, NamesOK(th[c]), LeaveDir(c)
    PROVE  LET t == th[c]
               L == Len(t.stack)
               old == O(t, L)
           IN  /\ t.stack[L].todo = {}
               /\ \/ /\ t.stack[L].ret = -1 /\ NoFault /\ UNCHANGED bucket
                     /\ Back(t, th'[c], L - 1, -1, t.tmp)
                  \/ /\ Removable(old) /\ NoFault /\ bucket' = Put(old, "none")
                     /\ Back(t, th'[c], L - 1, 0, Append(t.tmp, CacheDir \o old))
                  \/ /\ \/ ~Removable(old) /\ NoFault /\ UNCHANGED bucket
                        \/ Removable(old) /\ LostPut(old, "none")
                     /\ Back(t, th'[c], L - 1, 0, t.tmp)
<1> DEFINE t == th[c]
           L == Len(t.stack)
           old == O(t, L)
           s == Append(t.tmp, CacheDir \o old)
<1>1. t.pc = "next" /\ t.pc \in Walking /\ t.pc # "done" /\ RequestOK(t)
  BY DEF LeaveDir, At, Walking, Threads
<1>2. OldName(c, Frame(c)) = old /\ Frame(c) = t.stack[L]
  BY <1>1, TopNames, TopFrame
<1>3. /\ Frame(c).todo = {}
      /\ \/ Frame(c).ret = -1 /\ NoFault /\ Fails(c, {-1}) /\ UNCHANGED bucket
         \/ Rmdirs(old) /\ Leave(c, 0, s)
         \/ RmdirFails(old) /\ Leave(c, 0, t.tmp)
  BY <1>2 DEF LeaveDir
<1>4. Fails(c, {-1}) => Back(t, th'[c], L - 1, -1, t.tmp)
  BY <1>1, FailsBack
<1>5. Leave(c, 0, t.tmp) => Back(t, th'[c], L - 1, 0, t.tmp)
  <2>1. More(t, t.tmp) /\ 0 \in -2..1
    BY <1>1, SameTmp
  <2> QED
    BY <1>1, <2>1, LeaveBack
<1>6. Leave(c, 0, s) => Back(t, th'[c], L - 1, 0, s)
  <2>1. More(t, s) /\ 0 \in -2..1
    BY <1>1, <1>2, MoreLeave
  <2> QED
    BY <1>1, <2>1, LeaveBack
<1> QED
  BY <1>2, <1>3, <1>4, <1>5, <1>6 DEF Rmdirs, RmdirFails

\* What dfs_rename keeps about itself.
LEMMA WalkLocal ==
    ASSUME LInv, NEW c \in Clients,
           Rename(c) \/ Enter(c) \/ Chdir(c) \/ Opendir(c) \/ NextEntry(c) \/ Copy(c) \/ Forget(c)
           \/ LeaveDir(c)
    PROVE  Local(bucket', th'[c])
<1> DEFINE t == th[c]
           L == Len(t.stack)
<1>1. DataOK /\ Threads /\ NamesOK(t) /\ RequestOK(t) /\ t \in Request
  BY SInvIs DEF LInv, Threads, RequestOK
<1>2. ASSUME NEW m \in Nat, NEW r, NEW s, Back(t, th'[c], m, r, s)
      PROVE  Local(bucket', th'[c])
  BY <1>2, BackLocal
<1>3. L \in Nat /\ (t.pc \in Walking => L - 1 \in Nat)
  BY <1>1, TopNames, RequestFields
<1>4. ASSUME t.pc \in Walking, NEW l \in Walking
      PROVE  Local(bucket', Gone(t, l))
  <2>1. NamesOK(Gone(t, l)) /\ Gone(t, l).pc = l
    BY <1>1, <1>4, NamesGo, GoneIs
  <2> QED
    BY <1>4, <2>1, LocalNames
<1>5. ASSUME t.pc \in Walking, NEW l \in Walking, NEW f \in FrameType,
             f.old = Last(t.stack).old, f.new = Last(t.stack).new
      PROVE  Local(bucket', WithFrame(t, l, f))
  <2>1. NamesOK(WithFrame(t, l, f)) /\ WithFrame(t, l, f).pc = l
    BY <1>1, <1>5, NamesFrame
  <2> QED
    BY <1>5, <2>1, LocalNames
<1>6. CASE Rename(c)
  <2>1. t.pc = "rename" /\ t.stack = <<>>
    BY <1>1, <1>6, SimpleStack DEF Rename, At, Walking, Moving
  <2>2. th'[c] = Answered(t, -1) \/ th'[c] = Gone(t, "copy") \/ th'[c] = First(t)
    BY <1>1, <1>6, RenameIs
  <2>3. Local(bucket', Answered(t, -1))
    <3>1. Answered(t, -1).pc = "done" /\ Answered(t, -1).stack = <<>>
      BY <1>1, <2>1, GoneIs
    <3> QED
      BY <3>1, LocalSimple DEF Moving
  <2>4. Local(bucket', Gone(t, "copy")) /\ Local(bucket', First(t))
    <3>1. Gone(t, "copy").pc = "copy"
      BY <1>1, GoneIs
    <3>2. NamesOK(Gone(t, "copy")) /\ NamesOK(First(t)) /\ First(t).pc = "enter"
      BY <1>1, <2>1, NamesStart
    <3> QED
      BY <3>1, <3>2, LocalNames DEF Walking
  <2> QED
    BY <2>2, <2>3, <2>4
<1>7. CASE Enter(c)
  <2> DEFINE f == [Frame(c) EXCEPT !.type = TypeOf(Thing(N(t, L)))]
  <2>1. t.pc \in Walking /\ "chdir" \in Walking
    BY <1>7 DEF Enter, At, Walking
  <2>2. Frame(c) \in FrameType
    BY <1>1, <2>1, TopFrame
  <2>3. f \in FrameType /\ f.old = Last(t.stack).old /\ f.new = Last(t.stack).new
    BY <2>2 DEF FrameType, TypeOf, Frame
  <2>4. \/ th'[c] = WithFrame(t, "chdir", f) \/ th'[c] = Gone(t, "chdir")
        \/ Back(t, th'[c], L - 1, -1, t.tmp)
    BY <1>1, <1>7, EnterIs
  <2> HIDE DEF f
  <2> QED
    BY <1>2, <1>3, <1>4, <1>5, <2>1, <2>3, <2>4
<1>8. CASE Chdir(c)
  <2>1. t.pc \in Walking /\ "opendir" \in Walking
    BY <1>8 DEF Chdir, At, Walking
  <2>2. th'[c] = Gone(t, "opendir") \/ \E r : Back(t, th'[c], L - 1, r, t.tmp)
    BY <1>1, <1>8, ChdirIs
  <2> QED
    BY <1>2, <1>3, <1>4, <2>1, <2>2
<1>9. CASE Opendir(c)
  <2> DEFINE f == [Frame(c) EXCEPT !.todo = Listing(cwd)]
  <2>1. t.pc \in Walking /\ "next" \in Walking
    BY <1>9 DEF Opendir, At, Walking
  <2>2. Frame(c) \in FrameType
    BY <1>1, <2>1, TopFrame
  <2>3. f \in FrameType /\ f.old = Last(t.stack).old /\ f.new = Last(t.stack).new
    BY <2>2 DEF FrameType, Listing, Frame
  <2>4. th'[c] = WithFrame(t, "next", f) \/ \E r : Back(t, th'[c], L - 1, r, t.tmp)
    BY <1>1, <1>9, OpendirIs
  <2> HIDE DEF f
  <2> QED
    BY <1>2, <1>3, <1>5, <2>1, <2>3, <2>4
<1>10. CASE NextEntry(c)
  <2>1. t.pc = "next" /\ t.pc \in Walking
    BY <1>10 DEF NextEntry, At, Walking
  <2>2. PICK n \in Last(t.stack).todo :
          \/ \E y \in {"reg", "dir"} : th'[c] = Entered(t, n) \/ th'[c] = Found(t, n, y)
          \/ Back(t, th'[c], L - 1, -1, TmpOf(t, n))
    BY <1>1, <1>10, EntryIs
  <2>3. NamesOK(Entered(t, n)) /\ Entered(t, n).pc = "enter"
    BY <1>1, <2>1, NamesEntered, EnteredKeeps
  <2>4. \A y \in {"reg", "dir"} : NamesOK(Found(t, n, y)) /\ Found(t, n, y).pc = "copy"
    BY <1>1, <2>1, NamesFound, FoundKeeps
  <2> QED
    BY <1>2, <1>3, <2>1, <2>2, <2>3, <2>4, LocalNames DEF Walking
<1>11. CASE Copy(c)
  <2>1. t.pc = "copy"
    BY <1>11 DEF Copy, At
  <2>2. Copies(c) \/ Back(t, th'[c], L, -1, t.tmp)
    BY <1>1, <1>11, CopyBack
  <2> QED
    BY <1>2, <1>3, <2>1, <2>2, CopiesLocal
<1>12. CASE Forget(c)
  <2>1. \E r, s : Back(t, th'[c], L, r, s)
    BY <1>1, <1>12, ForgetIs
  <2> QED
    BY <1>2, <1>3, <2>1
<1>13. CASE LeaveDir(c)
  <2>1. \E r, s : Back(t, th'[c], L - 1, r, s)
    BY <1>1, <1>13, LeaveDirIs
  <2>2. t.pc \in Walking
    BY <1>13 DEF LeaveDir, At, Walking
  <2> QED
    BY <1>2, <1>3, <2>1, <2>2
<1> QED
  BY <1>6, <1>7, <1>8, <1>9, <1>10, <1>11, <1>12, <1>13

\* The step of d leaves what is at the names of c's request, and what is below
\* them if c changes that.
LEMMA OthersThing ==
    ASSUME SInv, Apart, CacheApart, NEW c \in Clients, NEW d \in Clients, c # d, th[c].pc # "idle",
           Begin(d) \/ Serve(d), NEW p,
           \/ p \in Touched(th[c])
           \/ Writes(th[c]) /\ Below(th[c], p)
    PROVE  ThingIn(bucket', p) = ThingIn(bucket, p)
<1>1. CASE p \in Paths
  <2>1. p \in Strings
    BY <1>1, PathStrings
  <2>2. IsPrefix(p, p)
    BY <2>1, PrefixRefl DEF Strings
  <2>3. bucket'[p] = bucket[p]
    BY <1>1, <2>2, OthersLeave
  <2> QED
    BY <2>3 DEF ThingIn
<1>2. CASE p \notin Paths
  BY <1>2 DEF ThingIn
<1> QED
  BY <1>1, <1>2

\* What a request knows about itself, others leave it.
LEMMA OtherLocal ==
    ASSUME LInv, CacheApart, NEW c \in Clients, NEW d \in Clients, c # d, Begin(d) \/ Serve(d)
    PROVE  Local(bucket', th[c])
<1> DEFINE t == th[c]
<1>1. /\ SInv /\ Apart /\ Threads /\ RequestOK(t)
      /\ FreshOK(bucket, t) /\ NamesOK(t) /\ CopiedOK(bucket, t)
  BY SInvIs DEF LInv, Threads
<1>2. FreshOK(bucket', t)
  <2>1. CASE t.pc \in {"mknod", "symlink", "mkdir", "setattr"}
    <3>1. t.path \in Paths /\ t.pc # "idle" /\ t.path \in Touched(t)
      BY <1>1, <2>1, RunningRequest DEF Touched
    <3>2. ThingIn(bucket', t.path) = ThingIn(bucket, t.path)
      BY <1>1, <3>1, OthersThing
    <3>3. bucket'[t.path] = bucket[t.path]
      BY <3>1, <3>2 DEF ThingIn
    <3> QED
      BY <1>1, <3>3 DEF FreshOK
  <2>2. CASE t.pc \notin {"mknod", "symlink", "mkdir", "setattr"}
    BY <2>2 DEF FreshOK
  <2> QED
    BY <2>1, <2>2
<1>3. CopiedOK(bucket', t)
  <2> SUFFICES ASSUME Room(t), t.pc = "forget"
               PROVE  /\ IsFile(ThingIn(bucket', OldOf(t, t.file)))
                      /\ ThingIn(bucket', NewOf(t, t.file)) = ThingIn(bucket', OldOf(t, t.file))
    BY DEF CopiedOK
  <2>1. t.op = "rename" /\ t.pc # "idle" /\ Writes(t) /\ t.pc \in Moving
    BY <1>1 DEF RequestOK, StepOK, Writes, Moving
  <2>2. IsPrefix(t.path, OldOf(t, t.file)) /\ NewOf(t, t.file) = MovedTo(t, OldOf(t, t.file))
    BY <1>1, <2>1 DEF NamesOK, Mirrors
  <2>3. OldOf(t, t.file) \in Strings
    BY <1>1, <2>1, FileNames
  <2>4. Below(t, OldOf(t, t.file)) /\ Below(t, NewOf(t, t.file))
    BY <1>1, <2>1, <2>2, <2>3, TwoTrees DEF Below
  <2>5. /\ ThingIn(bucket', OldOf(t, t.file)) = ThingIn(bucket, OldOf(t, t.file))
        /\ ThingIn(bucket', NewOf(t, t.file)) = ThingIn(bucket, NewOf(t, t.file))
    BY <1>1, <2>1, <2>4, OthersThing
  <2> QED
    BY <1>1, <2>5 DEF CopiedOK
<1> QED
  BY <1>1, <1>2, <1>3 DEF Local

\* No cell says that there is nothing.
LEMMA TableKnowsStays ==
    ASSUME SInv, TableKnows, NEW c \in Clients, Begin(c) \/ Serve(c)
    PROVE  TableKnows'
<1>1. SUFFICES ASSUME NEW p \in Paths
               PROVE  table'[p] # "none"
  BY DEF TableKnows
<1>2. CASE TableKeeps
  BY <1>2 DEF TableKeeps, TableKnows
<1>3. CASE table' = [q \in Paths |-> IF q \in Touched(th[c]) THEN Cached(q) ELSE table[q]]
  <2>1. table'[p] = IF p \in Touched(th[c]) THEN Cached(p) ELSE table[p]
    BY <1>3
  <2>2. Cached(p) # "none"
    BY DEF Cached
  <2> QED
    BY <2>1, <2>2 DEF TableKnows
<1> QED
  BY <1>2, <1>3, TableOnly

\* The invariant of the names is inductive.
LEMMA LInvStays ==
    ASSUME CacheApart
    PROVE  LInv /\ [Next]_vars => LInv'
<1> SUFFICES ASSUME LInv, [Next]_vars PROVE LInv'
  OBVIOUS
<1>1. SInv /\ Apart /\ TableKnows
  BY DEF LInv
<1>2. CASE Next
  <2>1. PICK c \in Clients : Begin(c) \/ Serve(c)
    BY <1>2 DEF Next
  <2>2. SInv' /\ Apart' /\ TableKnows'
    <3>1. SInv'
      BY <1>1, <1>2, SInvStays
    <3> QED
      BY <1>1, <2>1, <3>1, ApartStays, TableKnowsStays
  <2>3. ASSUME NEW d \in Clients
        PROVE  Local(bucket', th'[d])
    <3>1. CASE d = c
      BY <2>1, <3>1, SimpleLocal, WalkLocal DEF Serve
    <3>2. CASE d # c
      <4>1. th'[d] = th[d]
        <5>1. Threads /\ Becomes(c)
          BY <1>1, <2>1, SInvIs, ServeDoes DEF Does
        <5> QED
          BY <3>2, <5>1, Others
      <4> QED
        BY <2>1, <3>2, <4>1, OtherLocal
    <3> QED
      BY <3>1, <3>2
  <2> QED
    BY <2>2, <2>3 DEF LInv, Local
<1>3. CASE UNCHANGED vars
  BY <1>3 DEF vars, LInv, SInv, TypeOK, Renaming, At, Apart, TableKnows
<1> QED
  BY <1>2, <1>3

\* It holds when the file system is mounted.
LEMMA LInvStarts == Init => LInv
<1> SUFFICES ASSUME Init PROVE LInv
  OBVIOUS
<1>1. SInv
  BY SInvStarts
<1>2. \A c \in Clients : th[c].pc = "idle" /\ th[c].stack = <<>>
  BY DEF Init, Idle
<1>3. Apart
  BY <1>2 DEF Apart
<1>4. TableKnows
  BY DEF Init, TableKnows
<1>5. \A c \in Clients : Local(bucket, th[c])
  BY <1>2, LocalSimple DEF Moving
<1> QED
  BY <1>1, <1>3, <1>4, <1>5 DEF LInv, Local

\* What is lost, and by whom.
LEMMA LostBy ==
    ASSUME LInv, CacheApart, NEW c \in Clients, Begin(c) \/ Serve(c), NEW p \in Paths,
           bucket[p] \in Contents, bucket'[p] # bucket[p]
    PROVE  Ends(c, p) \/ \E q \in Paths : bucket'[q] = bucket[p]
<1> DEFINE t == th[c]
<1>1. DataOK /\ Threads /\ NamesOK(t) /\ RequestOK(t) /\ FreshOK(bucket, t) /\ CopiedOK(bucket, t)
  BY SInvIs DEF LInv, Threads
<1>2. bucket \in [Paths -> Things] /\ bucket[p] \notin {"none", "dir", "empty", "link"}
  BY <1>1, ContentsAssumption DEF DataOK
<1>3. ASSUME NEW q, NEW x \in Things, bucket' = Put(q, x) \/ LostPut(q, x)
      PROVE  q = p
  BY <1>2, <1>3, PutType DEF LostPut
<1>4. Thing(p) = bucket[p]
  BY <1>2, ThingType
<1>5. {"none", "dir", "empty", "link"} \subseteq Things
  BY DEF Things
<1>6. CASE Mknod(c)
  <2>1. t.path = p
    BY <1>2, <1>3, <1>5, <1>6 DEF Mknod
  <2>2. bucket[t.path] = "none"
    BY <1>1, <1>6 DEF Mknod, FreshOK
  <2> QED
    BY <1>2, <2>1, <2>2
<1>7. CASE Setattr(c)
  <2>1. t.path = p
    BY <1>2, <1>3, <1>5, <1>7 DEF Setattr
  <2>2. bucket[t.path] = "empty"
    BY <1>1, <1>7 DEF Setattr, At, FreshOK
  <2> QED
    BY <1>2, <2>1, <2>2
<1>8. CASE Mkdir(c)
  <2>1. t.path = p
    BY <1>2, <1>3, <1>5, <1>8 DEF Mkdir, Mkdirs, MkdirFails
  <2>2. bucket[t.path] = "none"
    BY <1>1, <1>8 DEF Mkdir, At, FreshOK
  <2> QED
    BY <1>2, <2>1, <2>2
<1>9. CASE Unlink(c)
  <2>1. t.path = p
    BY <1>2, <1>3, <1>5, <1>9 DEF Unlink, Unlinks, UnlinkFails
  <2> QED
    BY <1>9, <2>1 DEF Unlink, Ends
<1>10. ASSUME NEW q, Rmdirs(q) \/ RmdirFails(q)
      PROVE  FALSE
  <2>1. q = p /\ Removable(q)
    BY <1>2, <1>3, <1>5, <1>10 DEF Rmdirs, RmdirFails
  <2> QED
    BY <1>2, <1>4, <2>1 DEF Removable
<1>11. CASE Rmdir(c)
  BY <1>10, <1>11 DEF Rmdir
<1>12. CASE Enter(c)
  <2> DEFINE n == N(t, Len(t.stack))
  <2>1. n = p /\ Thing(n) = "none"
    <3>1. \/ UNCHANGED bucket
          \/ Thing(n) = "none" /\ (bucket' = Put(n, "dir") \/ LostPut(n, "dir"))
      BY <1>1, <1>12, EnterIs
    <3> QED
      BY <1>2, <1>3, <1>5, <3>1
  <2> QED
    BY <1>2, <1>4, <2>1
<1>13. CASE Copy(c)
  <2> DEFINE dst == NewName(c, t.file)
             x == Thing(OldName(c, t.file))
  <2>1. bucket' = Put(dst, x) \/ LostPut(dst, x)
    BY <1>2, <1>13 DEF Copy
  <2>2. x \in Things
    BY <1>2, ThingType
  <2>3. dst = p
    BY <1>3, <2>1, <2>2
  <2> QED
    BY <1>13, <2>3 DEF Copy, Ends
<1>14. CASE Forget(c)
  <2> DEFINE old == OldOf(t, t.file)
             new == NewOf(t, t.file)
  <2>1. bucket' = Put(old, "none") \/ LostPut(old, "none")
    BY <1>1, <1>2, <1>14, ForgetIs
  <2>2. old = p
    BY <1>3, <1>5, <2>1
  <2>3. t.pc = "forget" /\ t.pc \in Moving
    BY <1>14 DEF Forget, At, Moving
  <2>4. CASE ~Room(t)
    BY <2>3, <2>4 DEF Ends, At, Fits, Room
  <2>5. CASE Room(t)
    <3>1. ThingIn(bucket, new) = bucket[p] /\ new \in Paths
      BY <1>1, <1>2, <2>2, <2>3, <2>5 DEF CopiedOK, ThingIn
    <3>2. new # p
      <4>1. IsPrefix(t.path, p) /\ new = MovedTo(t, p) /\ t.op = "rename" /\ t.pc # "idle"
        BY <1>1, <2>2, <2>3, <2>5 DEF NamesOK, Mirrors, RequestOK, StepOK
      <4>2. p \in Strings
        BY PathStrings
      <4> QED
        BY <1>1, <4>1, <4>2, TwoTrees
    <3>3. bucket'[new] = bucket[new]
      BY <2>1, <2>2, <3>1, <3>2 DEF Put, LostPut
    <3> QED
      BY <3>1, <3>3 DEF ThingIn
  <2> QED
    BY <2>4, <2>5
<1>15. CASE LeaveDir(c)
  <2> DEFINE old == O(t, Len(t.stack))
  <2>1. \/ UNCHANGED bucket
        \/ Removable(old) /\ (bucket' = Put(old, "none") \/ LostPut(old, "none"))
    BY <1>1, <1>15, LeaveDirIs
  <2>2. old = p /\ Removable(old)
    BY <1>2, <1>3, <1>5, <2>1
  <2> QED
    BY <1>2, <1>4, <2>2 DEF Removable
<1>16. CASE Begin(c) \/ Resolve(c) \/ Readdir(c) \/ List(c) \/ Rename(c) \/ Chdir(c) \/ Opendir(c)
            \/ NextEntry(c) \/ Finish(c)
  BY <1>2, <1>16 DEF Begin, Resolve, Readdir, List, Rename, Chdir, Opendir, NextEntry, Finish
<1> QED
  BY <1>6, <1>7, <1>8, <1>9, <1>11, <1>12, <1>13, <1>14, <1>15, <1>16 DEF Serve

\* The content of a file leaves the bucket only if a client unlinks it or renames
\* a file over it, or if a rename has printed more names than a thread has
\* buffers: rename_file copies before it unlinks, the names of the copy are those
\* of what is unlinked, and no other request is admitted to either name.
THEOREM NothingIsLost ==
    ASSUME CacheApart
    PROVE  Spec => NothingLost
<1>1. ASSUME LInv, [Next]_vars, NEW x \in Contents, Stored(x), ~Stored(x)'
      PROVE  \E c \in Clients, p \in Paths : bucket[p] = x /\ Ends(c, p)
  <2>1. PICK p \in Paths : bucket[p] = x
    BY <1>1 DEF Stored
  <2>2. \A q \in Paths : bucket'[q] # x
    BY <1>1 DEF Stored
  <2>3. PICK c \in Clients : Begin(c) \/ Serve(c)
    BY <1>1, <2>1, <2>2 DEF vars, Next
  <2>4. Ends(c, p)
    BY <1>1, <2>1, <2>2, <2>3, LostBy
  <2> QED
    BY <2>1, <2>4
<1>2. LInv /\ [Next]_vars =>
        [\A x \in Contents : Stored(x) /\ ~Stored(x)' =>
            \E c \in Clients, p \in Paths : bucket[p] = x /\ Ends(c, p)]_vars
  BY <1>1
<1>3. LInv /\ [Next]_vars => LInv'
  BY LInvStays
<1> QED
  BY <1>2, <1>3, LInvStarts, PTL DEF Spec, NothingLost

-----------------------------------------------------------------------------
(* The bucket stays a tree when every call is answered.                     *)

Hangs(b, p) == \A q \in Paths : IsStrictPrefix(q, p) => b[q] = "dir"
Bare(b, p) == \A r \in Paths : IsStrictPrefix(p, r) => b[r] = "none"

\* The bucket stays a tree: something is put where it hangs, or removed where it is bare.
LEMMA TreePut ==
    ASSUME bucket \in [Paths -> Things], TreeIn(bucket), NEW p \in Paths, NEW x \in Things,
           x # "none" => Hangs(bucket, p), x # "dir" => Bare(bucket, p)
    PROVE  TreeIn(Put(p, x))
<1> DEFINE b2 == Put(p, x)
<1>1. \A q \in Paths : b2[q] = IF q = p THEN x ELSE bucket[q]
  BY PutType
<1> HIDE DEF b2
<1>2. SUFFICES ASSUME NEW r \in Paths, NEW q \in Paths, IsStrictPrefix(q, r), b2[r] # "none"
               PROVE  b2[q] = "dir"
  BY DEF TreeIn, b2
<1>3. CASE r = p
  <2>1. x # "none" /\ q # p
    BY <1>1, <1>2, <1>3 DEF IsStrictPrefix
  <2> QED
    BY <1>1, <1>2, <1>3, <2>1 DEF Hangs
<1>4. CASE r # p /\ q = p
  <2>1. bucket[r] # "none"
    BY <1>1, <1>2, <1>4
  <2>2. x = "dir"
    BY <1>2, <1>4, <2>1 DEF Bare
  <2> QED
    BY <1>1, <1>4, <2>2
<1>5. CASE r # p /\ q # p
  BY <1>1, <1>2, <1>5 DEF TreeIn
<1> QED
  BY <1>3, <1>4, <1>5

\* What is made in a directory hangs,
LEMMA ParentHangs ==
    ASSUME bucket \in [Paths -> Things], TreeIn(bucket), NEW p \in Paths, HasParent(p)
    PROVE  Hangs(bucket, p)
<1>1. SUFFICES ASSUME NEW q \in Paths, IsPrefix(q, p), q # p
               PROVE  bucket[q] = "dir"
  BY DEF Hangs, IsStrictPrefix
<1>2. p \in Strings /\ q \in Strings /\ p # <<>> /\ q # <<>>
  BY PathStrings DEF Root
<1>3. IsPrefix(q, Front(p)) /\ Front(p) \in Strings
  BY <1>1, <1>2, PrefixFront, FrontIs DEF Strings
<1>4. Front(p) # <<>>
  <2>1. Len(q) \in Nat \ {0}
    BY <1>2, FrontIs DEF Strings
  <2>2. Len(q) <= Len(Front(p))
    BY <1>3 DEF IsPrefix
  <2>3. Front(p) = <<>> => Len(Front(p)) = 0
    BY EmptySeq
  <2> QED
    BY <2>1, <2>2, <2>3
<1>5. Thing(Front(p)) = "dir"
  BY <1>4 DEF HasParent, Root
<1>6. Front(p) \in Paths /\ bucket[Front(p)] = "dir"
  BY <1>5 DEF Thing
<1> QED
  BY <1>3, <1>6 DEF TreeIn, IsStrictPrefix

\* and so does what is there.
LEMMA ThereHangs ==
    ASSUME TreeIn(bucket), NEW p \in Paths, bucket[p] # "none"
    PROVE  Hangs(bucket, p)
BY DEF TreeIn, Hangs

\* What is no directory has nothing below it,
LEMMA LeafIsBare ==
    ASSUME NEW b, TreeIn(b), NEW p \in Paths, b[p] # "dir"
    PROVE  Bare(b, p)
BY DEF TreeIn, Bare

\* The entry of p that leads to r.
LEMMA EntryOn ==
    ASSUME NEW p \in Strings, NEW r \in Paths, IsStrictPrefix(p, r)
    PROVE  \E n \in Names : /\ Append(p, n) \in Paths
                            /\ IsPrefix(Append(p, n), r)
<1> DEFINE S == Names \union ToSet(CacheDir)
           l == Len(p)
           n == r[l + 1]
           v == SubSeq(r, 1, l + 1)
<1>1. p \in Seq(S) /\ r \in Seq(S) /\ r \in Seq(Names) /\ \A k \in 1..Len(r) : SubSeq(r, 1, k) \in Paths
  BY PathStrings, PathsAssumption DEF Strings
<1>2. l \in Nat /\ Len(r) \in Nat /\ l <= Len(r) /\ \A i \in 1..l : p[i] = r[i]
  BY <1>1, PrefixIs, LenProperties DEF IsStrictPrefix
<1>3. l # Len(r)
  BY <1>1, <1>2, SeqEqual DEF IsStrictPrefix
<1>4. l + 1 \in 1..Len(r) /\ l + 1 \in Nat
  BY <1>2, <1>3
<1>5. n \in Names /\ v \in Paths /\ n \in S
  BY <1>1, <1>4, ElementOfSeq
<1>6. v \in Seq(S) /\ Len(v) = l + 1 /\ \A i \in 1..l + 1 : v[i] = r[i]
  <2>1. \A i \in 1..l + 1 : r[i] \in S
    BY <1>1, <1>2, <1>4, ElementOfSeq
  <2> DEFINE m == l + 1
  <2> HIDE DEF v, l
  <2>2. m \in Int /\ 1 \in Int /\ 1 <= m /\ m - 1 + 1 = m
    BY <1>2
  <2> HIDE DEF m
  <2>3. /\ SubSeq(r, 1, m) \in Seq(S)
        /\ Len(SubSeq(r, 1, m)) = IF 1 <= m THEN m - 1 + 1 ELSE 0
        /\ \A i \in 1..m - 1 + 1 : SubSeq(r, 1, m)[i] = r[1 + i - 1]
    BY <2>1, <2>2, SubSeqProperties DEF m
  <2>4. \A i \in 1..m : SubSeq(r, 1, m)[i] = r[i]
    BY <2>2, <2>3
  <2> QED
    BY <2>2, <2>3, <2>4 DEF m, v
<1> HIDE DEF v, S, n
<1>7. /\ Append(p, n) \in Seq(S) /\ Len(Append(p, n)) = l + 1
      /\ \A i \in 1..l : Append(p, n)[i] = p[i]
      /\ Append(p, n)[l + 1] = n
  BY <1>1, <1>5, AppendProperties
<1> HIDE DEF l
<1>8. \A i \in 1..l + 1 : Append(p, n)[i] = v[i]
  <2>1. \A i \in 1..l + 1 : i \in 1..l \/ i = l + 1
    BY <1>2
  <2> QED
    BY <1>2, <1>4, <1>6, <1>7, <2>1 DEF n, l
<1>9. Append(p, n) = v
  BY <1>6, <1>7, <1>8, SeqEqual
<1>10. IsPrefix(v, r)
  BY <1>1, <1>2, <1>4, <1>6, PrefixIs
<1> QED
  BY <1>5, <1>9, <1>10

\* nor has an empty directory.
LEMMA EmptyIsBare ==
    ASSUME bucket \in [Paths -> Things], TreeIn(bucket), NEW p \in Paths, Listing(p) = {}
    PROVE  Bare(bucket, p)
<1>1. SUFFICES ASSUME NEW r \in Paths, IsStrictPrefix(p, r), bucket[r] # "none"
               PROVE  FALSE
  BY DEF Bare
<1>2. PICK n \in Names : Append(p, n) \in Paths /\ IsPrefix(Append(p, n), r)
  BY <1>1, EntryOn, PathStrings
<1>3. bucket[Append(p, n)] = "none"
  BY <1>2 DEF Listing, Thing
<1>4. Append(p, n) # r
  BY <1>1, <1>3
<1>5. bucket[Append(p, n)] = "dir"
  BY <1>1, <1>2, <1>4 DEF TreeIn, IsStrictPrefix
<1> QED
  BY <1>3, <1>5

\* Every call that is answered keeps the tree.
LEMMA TreeStays ==
    ASSUME LInv, NEW c \in Clients, Begin(c) \/ Serve(c), ~Fault, TreeIn(bucket)
    PROVE  TreeIn(bucket')
<1> DEFINE t == th[c]
<1>1. DataOK /\ Threads /\ NamesOK(t) /\ RequestOK(t) /\ FreshOK(bucket, t)
  BY SInvIs DEF LInv, Threads
<1>2. bucket \in [Paths -> Things] /\ {"none", "dir", "empty", "link"} \subseteq Things
  BY <1>1 DEF DataOK, Things
<1>3. UNCHANGED bucket => TreeIn(bucket')
  OBVIOUS
<1>4. \A p, x : ~LostPut(p, x)
  BY DEF LostPut
<1>5. ASSUME NEW p, p \notin Paths, NEW x, bucket' = Put(p, x)
      PROVE  TreeIn(bucket')
  BY <1>2, <1>5 DEF Put, TreeIn
<1>6. ASSUME NEW p, Thing(p) # "dir", HasParent(p), NEW x \in Things, x # "none", bucket' = Put(p, x)
      PROVE  TreeIn(bucket')
  <2>1. ASSUME p \in Paths
        PROVE  TreeIn(bucket')
    <3>1. Hangs(bucket, p) /\ Bare(bucket, p)
      BY <1>2, <1>6, <2>1, ParentHangs, LeafIsBare DEF Thing
    <3> QED
      BY <1>2, <1>6, <2>1, <3>1, TreePut
  <2> QED
    BY <1>5, <1>6, <2>1
<1>7. ASSUME NEW p, IsFile(Thing(p)), NEW x \in {"link", "none"}, bucket' = Put(p, x)
      PROVE  TreeIn(bucket')
  <2>1. p \in Paths /\ bucket[p] # "none" /\ bucket[p] # "dir"
    BY <1>7 DEF Thing, IsFile
  <2>2. Hangs(bucket, p) /\ Bare(bucket, p)
    BY <2>1, ThereHangs, LeafIsBare
  <2> QED
    BY <1>2, <1>7, <2>1, <2>2, TreePut
<1>8. ASSUME NEW p, Removable(p), bucket' = Put(p, "none")
      PROVE  TreeIn(bucket')
  <2>1. p \in Paths /\ Listing(p) = {}
    BY <1>8 DEF Thing, Removable
  <2>2. Bare(bucket, p)
    BY <1>2, <2>1, EmptyIsBare
  <2> QED
    BY <1>2, <1>8, <2>1, <2>2, TreePut
<1>9. t.pc # "idle" => t.path \in Paths /\ t.path \in Paths /\ Thing(t.path) = bucket[t.path]
  BY <1>1, RunningRequest DEF Thing
<1>10. CASE Mknod(c)
  <2>1. t.pc \in {"mknod", "symlink"} /\ bucket[t.path] = "none" /\ Thing(t.path) # "dir"
    BY <1>1, <1>9, <1>10 DEF Mknod, FreshOK
  <2>2. UNCHANGED bucket \/ (HasParent(t.path) /\ bucket' = Put(t.path, "empty"))
    BY <1>4, <1>10 DEF Mknod
  <2> QED
    BY <1>2, <1>3, <1>6, <2>1, <2>2
<1>11. CASE Setattr(c)
  <2>1. t.pc = "setattr" /\ bucket[t.path] = "empty" /\ IsFile(Thing(t.path))
    BY <1>1, <1>9, <1>11 DEF Setattr, At, FreshOK, IsFile
  <2>2. bucket' = Put(t.path, "link")
    BY <1>4, <1>11 DEF Setattr
  <2> QED
    BY <1>7, <2>1, <2>2
<1>12. CASE Mkdir(c)
  <2>1. t.pc = "mkdir" /\ bucket[t.path] = "none" /\ Thing(t.path) # "dir"
    BY <1>1, <1>9, <1>12 DEF Mkdir, At, FreshOK
  <2>2. UNCHANGED bucket \/ (HasParent(t.path) /\ bucket' = Put(t.path, "dir"))
    BY <1>4, <1>12 DEF Mkdir, Mkdirs, MkdirFails
  <2> QED
    BY <1>2, <1>3, <1>6, <2>1, <2>2
<1>13. CASE Unlink(c)
  <2>1. UNCHANGED bucket \/ (IsFile(Thing(t.path)) /\ bucket' = Put(t.path, "none"))
    BY <1>4, <1>13 DEF Unlink, Unlinks, UnlinkFails
  <2> QED
    BY <1>3, <1>7, <2>1
<1>14. CASE Rmdir(c)
  <2>1. UNCHANGED bucket \/ (Removable(t.path) /\ bucket' = Put(t.path, "none"))
    BY <1>4, <1>14 DEF Rmdir, Rmdirs, RmdirFails
  <2> QED
    BY <1>3, <1>8, <2>1
<1>15. CASE Enter(c)
  <2> DEFINE n == N(t, Len(t.stack))
  <2>1. UNCHANGED bucket \/ (Thing(n) = "none" /\ HasParent(n) /\ bucket' = Put(n, "dir"))
    BY <1>1, <1>4, <1>15, EnterIs
  <2> HIDE DEF n
  <2> QED
    BY <1>2, <1>3, <1>6, <2>1
<1>16. CASE Copy(c)
  <2> DEFINE dst == NewOf(t, t.file)
             x == Thing(OldOf(t, t.file))
  <2>1. UNCHANGED bucket
        \/ (IsFile(x) /\ HasParent(dst) /\ Thing(dst) # "dir" /\ bucket' = Put(dst, x))
    BY <1>1, <1>4, <1>16, CopyBack, NamesOf DEF Copies
  <2>2. x \in Things
    BY <1>2, ThingType
  <2> HIDE DEF dst, x
  <2> QED
    BY <1>3, <1>6, <2>1, <2>2 DEF IsFile
<1>17. CASE Forget(c)
  <2> DEFINE old == OldOf(t, t.file)
  <2>1. UNCHANGED bucket \/ (IsFile(Thing(old)) /\ bucket' = Put(old, "none"))
    BY <1>1, <1>4, <1>17, ForgetIs
  <2> HIDE DEF old
  <2> QED
    BY <1>3, <1>7, <2>1
<1>18. CASE LeaveDir(c)
  <2> DEFINE old == O(t, Len(t.stack))
  <2>1. UNCHANGED bucket \/ (Removable(old) /\ bucket' = Put(old, "none"))
    BY <1>1, <1>4, <1>18, LeaveDirIs
  <2> HIDE DEF old
  <2> QED
    BY <1>3, <1>8, <2>1
<1>19. CASE Begin(c) \/ Resolve(c) \/ Readdir(c) \/ List(c) \/ Rename(c) \/ Chdir(c) \/ Opendir(c)
            \/ NextEntry(c) \/ Finish(c)
  BY <1>3, <1>19 DEF Begin, Resolve, Readdir, List, Rename, Chdir, Opendir, NextEntry, Finish
<1> QED
  BY <1>10, <1>11, <1>12, <1>13, <1>14, <1>15, <1>16, <1>17, <1>18, <1>19 DEF Serve

-----------------------------------------------------------------------------
(* The names of the calls of rename_directory, while they can be read.      *)

\* The names of a call are below those of the caller, at the same place.
LEMMA CallNames ==
    ASSUME NEW t, RequestOK(t), NamesOK(t), Room(t), t.op = "rename", t.pc # "idle",
           NEW k \in 1..Len(t.stack)
    PROVE  /\ O(t, k) \in Strings /\ IsPrefix(t.path, O(t, k))
           /\ N(t, k) \in Strings /\ IsPrefix(t.to, N(t, k))
           /\ N(t, k) = MovedTo(t, O(t, k))
           /\ O(t, k) \in Paths => N(t, k) \in Paths
           /\ \A m \in Names : /\ Append(O(t, k), m) \in Strings /\ IsPrefix(t.path, Append(O(t, k), m))
                               /\ Append(N(t, k), m) \in Strings /\ IsPrefix(t.to, Append(N(t, k), m))
<1>1. t.path \in Strings /\ t.to \in Strings
  BY RunningRequest, PathStrings
<1>2. O(t, k) \in Strings /\ Mirrors(t, t.stack[k])
  BY FrameNames DEF NamesOK, O
<1>3. IsPrefix(t.path, O(t, k)) /\ N(t, k) = MovedTo(t, O(t, k))
  BY <1>2 DEF Mirrors, O, N
<1>4. N(t, k) \in Strings /\ IsPrefix(t.to, N(t, k)) /\ (O(t, k) \in Paths => N(t, k) \in Paths)
  BY <1>2, <1>3, TwoTrees
<1>5. ASSUME NEW m \in Names, NEW s \in Strings, NEW p \in Strings, IsPrefix(p, s)
      PROVE  Append(s, m) \in Strings /\ IsPrefix(p, Append(s, m))
  <2>1. m \in Names \union ToSet(CacheDir)
    BY PathStrings
  <2> QED
    BY <1>5, <2>1, PrefixAppend, AppendProperties DEF Strings
<1> QED
  BY <1>1, <1>2, <1>3, <1>4, <1>5

\* Entries of one directory differ in their last name.
LEMMA AppendLen ==
    ASSUME NEW s \in Strings, NEW m \in Names
    PROVE  /\ Len(s) \in Nat /\ Len(Append(s, m)) = Len(s) + 1
           /\ \A k \in Names : Append(s, m) = Append(s, k) => m = k
<1> DEFINE S == Names \union ToSet(CacheDir)
<1>1. m \in S /\ s \in Seq(S) /\ Names \subseteq S
  BY PathStrings DEF Strings
<1> HIDE DEF S
<1>2. Len(s) \in Nat /\ Len(Append(s, m)) = Len(s) + 1
  BY <1>1, AppendProperties, LenProperties
<1>3. \A k \in S : Last(Append(s, k)) = k
  BY <1>1, FrontAppend
<1> QED
  BY <1>1, <1>2, <1>3

\* An entry n that is not to do in the j-th call is, in either tree, in no other
\* place that the j-th call or one below it knows of.
LEMMA Elsewhere ==
    ASSUME NEW t, RequestOK(t), NamesOK(t), Room(t), t.op = "rename", t.pc # "idle", ChainOK(t),
           NEW j \in 1..Len(t.stack), NEW n \in Names, n \notin t.stack[j].todo,
           NEW k \in 1..j
    PROVE  /\ Append(O(t, j), n) # O(t, k) /\ Append(O(t, j), n) # N(t, k)
           /\ Append(N(t, j), n) # O(t, k) /\ Append(N(t, j), n) # N(t, k)
           /\ \A m \in Names : /\ Append(O(t, j), n) # Append(N(t, k), m)
                               /\ Append(N(t, j), n) # Append(O(t, k), m)
           /\ \A m \in Names : m \in t.stack[k].todo \/ k < j =>
                               /\ Append(O(t, j), n) # Append(O(t, k), m)
                               /\ Append(N(t, j), n) # Append(N(t, k), m)
<1> DEFINE o == O(t, k)
           w == N(t, k)
           p == Append(O(t, j), n)
           q == Append(N(t, j), n)
<1>1. Len(t.stack) \in Nat /\ k \in 1..Len(t.stack)
  BY RequestFields DEF RequestOK
<1>2. /\ o \in Strings /\ IsPrefix(t.path, o) /\ w \in Strings /\ IsPrefix(t.to, w)
      /\ \A m \in Names : /\ Append(o, m) \in Strings /\ IsPrefix(t.path, Append(o, m))
                          /\ Append(w, m) \in Strings /\ IsPrefix(t.to, Append(w, m))
  BY <1>1, CallNames
<1>3. /\ p \in Strings /\ IsPrefix(t.path, p) /\ q \in Strings /\ IsPrefix(t.to, q)
      /\ O(t, j) \in Strings /\ N(t, j) \in Strings
  BY CallNames
<1>4. \A s \in Strings : ~(IsPrefix(t.path, s) /\ IsPrefix(t.to, s))
  BY TwoTrees
<1>5. /\ Len(o) = Len(t.path) + k - 1 /\ Len(w) = Len(t.to) + k - 1
      /\ Len(O(t, j)) = Len(t.path) + j - 1 /\ Len(N(t, j)) = Len(t.to) + j - 1
      /\ Len(t.path) \in Nat /\ Len(t.to) \in Nat
  <2>1. t.path \in Strings /\ t.to \in Strings
    BY RunningRequest, PathStrings
  <2> QED
    BY <1>1, <2>1, LenProperties DEF ChainOK, Strings
<1>6. /\ Len(p) = Len(t.path) + j /\ Len(q) = Len(t.to) + j
      /\ \A m \in Names : Len(Append(o, m)) = Len(t.path) + k /\ Len(Append(w, m)) = Len(t.to) + k
  <2>1. Len(p) = Len(O(t, j)) + 1 /\ Len(q) = Len(N(t, j)) + 1
    BY <1>3, AppendLen
  <2>2. \A m \in Names : Len(Append(o, m)) = Len(o) + 1 /\ Len(Append(w, m)) = Len(w) + 1
    BY <1>2, AppendLen
  <2> HIDE DEF p, q, o, w
  <2>3. Len(p) = Len(t.path) + j /\ Len(q) = Len(t.to) + j
    BY <1>5, <2>1
  <2>4. \A m \in Names : Len(Append(o, m)) = Len(t.path) + k /\ Len(Append(w, m)) = Len(t.to) + k
    BY <1>1, <1>5, <2>2
  <2> QED
    BY <2>3, <2>4
<1> HIDE DEF p, q, o, w
<1>7. p # o /\ q # w
  <2>1. k \in Nat /\ j \in Nat /\ k <= j
    BY <1>1
  <2>2. Len(p) = Len(t.path) + j /\ Len(q) = Len(t.to) + j
    BY <1>6
  <2>3. Len(p) # Len(o) /\ Len(q) # Len(w)
    BY ONLY <1>5, <2>1, <2>2, SMTT(30)
  <2> QED
    BY <2>3
<1>8. p # w /\ q # o /\ \A m \in Names : p # Append(w, m) /\ q # Append(o, m)
  <2>1. p # w /\ q # o
    BY <1>2, <1>3, <1>4
  <2>2. ASSUME NEW m \in Names
        PROVE  p # Append(w, m) /\ q # Append(o, m)
    <3>1. /\ Append(o, m) \in Strings /\ IsPrefix(t.path, Append(o, m))
          /\ Append(w, m) \in Strings /\ IsPrefix(t.to, Append(w, m))
      BY <1>2, <2>2
    <3> QED
      BY <1>3, <1>4, <3>1
  <2> QED
    BY <2>1, <2>2
<1>9. ASSUME k < j
      PROVE  \A m \in Names : p # Append(o, m) /\ q # Append(w, m)
  BY <1>1, <1>5, <1>6, <1>9
<1>10. ASSUME k = j, NEW m \in Names, m \in t.stack[k].todo
       PROVE  p # Append(o, m) /\ q # Append(w, m)
  <2>1. m # n
    BY <1>10
  <2>2. O(t, j) = o /\ N(t, j) = w
    BY <1>10 DEF o, w
  <2> QED
    BY <1>3, <2>1, <2>2, AppendLen DEF p, q
<1>11. k < j \/ k = j
  BY <1>1
<1> QED
  BY <1>7, <1>8, <1>9, <1>10, <1>11 DEF p, q, o, w

\* What can be moved can be moved as long as neither name changes.
LEMMA ReadySame ==
    ASSUME NEW b, NEW b2, NEW o, NEW n, Ready(b, o, n),
           ThingIn(b2, o) = ThingIn(b, o), ThingIn(b2, n) = ThingIn(b, n),
           \A m \in Names : ThingIn(b2, Append(n, m)) = ThingIn(b, Append(n, m))
    PROVE  Ready(b2, o, n)
BY DEF Ready, Nothing

\* What is left to read are names.
LEMMA TodoNames ==
    ASSUME NEW t, RequestOK(t), NEW k \in 1..Len(t.stack)
    PROVE  t.stack[k] \in FrameType /\ t.stack[k].todo \in SUBSET Names
<1>1. t.stack \in Seq(FrameType)
  BY RequestFields DEF RequestOK
<1>2. t.stack[k] \in FrameType
  BY <1>1, ElementOfSeq
<1> QED
  BY <1>2 DEF FrameType

\* A rename that goes on does not notice what does not change its two trees.
LEMMA SameMove ==
    ASSUME NEW t, RequestOK(t), NamesOK(t), Clear(t), NEW b, NEW b2, NEW w, NEW w2,
           \A p : Below(t, p) => ThingIn(b2, p) = ThingIn(b, p),
           t.pc = "opendir" => w2 = w,
           MoveOK(b, w, t)
    PROVE  MoveOK(b2, w2, t)
<1> DEFINE L == Len(t.stack)
<1>1. t.op = "rename" /\ Room(t) /\ t.pc # "idle"
  BY DEF Clear, RequestOK, StepOK, Idle
<1>2. /\ t.path \in Paths /\ t.to \in Paths /\ t.path \in Strings /\ t.to \in Strings
      /\ IsPrefix(t.path, t.path) /\ IsPrefix(t.to, t.to)
  BY <1>1, RunningRequest, PathStrings, PrefixRefl DEF Strings
<1>3. ASSUME NEW k \in 1..L
      PROVE  /\ ThingIn(b2, O(t, k)) = ThingIn(b, O(t, k))
             /\ ThingIn(b2, N(t, k)) = ThingIn(b, N(t, k))
             /\ \A m \in Names : /\ ThingIn(b2, Append(O(t, k), m)) = ThingIn(b, Append(O(t, k), m))
                                 /\ ThingIn(b2, Append(N(t, k), m)) = ThingIn(b, Append(N(t, k), m))
  BY <1>1, <1>3, CallNames DEF Below
<1>4. t.pc \in {"resolve", "rename"} => Ready(b2, t.path, t.to)
  <2>1. \A m \in Names : ThingIn(b2, Append(t.to, m)) = ThingIn(b, Append(t.to, m))
    <3>1. ASSUME NEW m \in Names
          PROVE  IsPrefix(t.to, Append(t.to, m))
      <4>1. m \in Names \union ToSet(CacheDir)
        BY PathStrings
      <4> QED
        BY <1>2, <4>1, AppendExtends DEF Strings
    <3> QED
      BY <3>1 DEF Below
  <2>2. ThingIn(b2, t.path) = ThingIn(b, t.path) /\ ThingIn(b2, t.to) = ThingIn(b, t.to)
    BY <1>2 DEF Below
  <2>3. t.pc \in {"resolve", "rename"} => Ready(b, t.path, t.to)
    BY DEF MoveOK
  <2> QED
    BY <2>1, <2>2, <2>3, ReadySame
<1>5. StackOK(b2, t)
  <2>1. StackOK(b, t)
    BY DEF MoveOK
  <2>2. ASSUME NEW k \in 1..L, OpenOK(b, t, k)
        PROVE  OpenOK(b2, t, k)
    <3> DEFINE todo == t.stack[k].todo
    <3>1. OpenAt(b, O(t, k), N(t, k), todo, Current(t, k)) /\ t.stack[k].ret = 0
      BY <2>2 DEF OpenOK
    <3>2. todo \in SUBSET Names
      BY TodoNames
    <3>3. OpenAt(b2, O(t, k), N(t, k), todo, Current(t, k))
      <4> DEFINE o == O(t, k)
                 n == N(t, k)
                 cur == Current(t, k)
      <4>1. /\ ThingIn(b2, o) = ThingIn(b, o) /\ ThingIn(b2, n) = ThingIn(b, n)
            /\ \A m \in Names : /\ ThingIn(b2, Append(o, m)) = ThingIn(b, Append(o, m))
                                /\ ThingIn(b2, Append(n, m)) = ThingIn(b, Append(n, m))
        BY <1>3
      <4>2. OpenAt(b, o, n, todo, cur)
        BY <3>1
      <4> HIDE DEF todo, o, n, cur
      <4>3. /\ \A m \in todo : /\ ThingIn(b2, Append(o, m)) = ThingIn(b, Append(o, m))
                               /\ ThingIn(b2, Append(n, m)) = ThingIn(b, Append(n, m))
            /\ \A m \in Names \ todo : ThingIn(b2, Append(o, m)) # "none" =>
                               /\ ThingIn(b, Append(o, m)) # "none"
                               /\ Append(o, m) = cur => Append(o, m) = cur
        BY <3>2, <4>1
      <4>4. OpenAt(b2, o, n, todo, cur)
        BY <4>1, <4>2, <4>3 DEF OpenAt
      <4> QED
        BY <4>4 DEF o, n, cur
    <3> QED
      BY <3>1, <3>3 DEF OpenOK
  <2> QED
    BY <2>1, <2>2 DEF StackOK
<1>6. StartOK(b2, w2, t)
  <2> SUFFICES ASSUME t.pc \in {"enter", "chdir", "opendir"}
               PROVE  StartOK(b2, w2, t)
    BY DEF StartOK
  <2>1. L \in 1..L
    <3>1. t.stack # <<>> /\ t.stack \in Seq(FrameType)
      BY RequestFields DEF RequestOK, StepOK, Walking
    <3>2. L \in Nat \ {0}
      BY <3>1, FrontIs
    <3> QED
      BY <3>2
  <2>2. StartOK(b, w, t)
    BY DEF MoveOK
  <2>3. Ready(b2, O(t, L), N(t, L))
    <3>1. Ready(b, O(t, L), N(t, L))
      BY <2>2 DEF StartOK
    <3> QED
      BY <1>3, <2>1, <3>1, ReadySame
  <2>4. /\ ThingIn(b2, O(t, L)) = ThingIn(b, O(t, L))
        /\ ThingIn(b2, N(t, L)) = ThingIn(b, N(t, L))
    BY <1>3, <2>1
  <2> QED
    BY <2>2, <2>3, <2>4 DEF StartOK
<1>7. FileOK(b2, t)
  <2> SUFFICES ASSUME t.pc \in Moving, t.stack # <<>>
               PROVE  FileOK(b2, t)
    BY DEF FileOK
  <2>1. L \in 1..L
    <3>1. t.stack \in Seq(FrameType)
      BY RequestFields DEF RequestOK
    <3>2. L \in Nat \ {0}
      BY <3>1, FrontIs
    <3> QED
      BY <3>2
  <2>2. PICK n \in Names \ t.stack[L].todo :
           /\ OldOf(t, t.file) = Append(O(t, L), n)
           /\ NewOf(t, t.file) = Append(N(t, L), n)
           /\ IsFile(ThingIn(b, OldOf(t, t.file)))
           /\ t.pc = "copy" => ThingIn(b, NewOf(t, t.file)) = "none"
    BY DEF MoveOK, FileOK
  <2>3. /\ ThingIn(b2, OldOf(t, t.file)) = ThingIn(b, OldOf(t, t.file))
        /\ ThingIn(b2, NewOf(t, t.file)) = ThingIn(b, NewOf(t, t.file))
    BY <1>3, <2>1, <2>2
  <2> QED
    BY <2>2, <2>3 DEF FileOK
<1>8. EndOK(b2, t)
  <2> SUFFICES ASSUME t.pc = "done", t.ret = 0
               PROVE  EndOK(b2, t)
    BY DEF EndOK
  <2>1. \A p \in Paths : Below(t, p) => b2[p] = b[p]
    BY DEF ThingIn
  <2>2. EndOK(b, t)
    BY DEF MoveOK
  <2> QED
    BY <1>2, <2>1, <2>2 DEF EndOK, Below
<1> QED
  BY <1>4, <1>5, <1>6, <1>7, <1>8 DEF MoveOK

\* The current directory is changed by nobody else while a rename goes by it.
LEMMA OthersMove ==
    ASSUME LInv, CacheApart, ListsAlone, NEW c \in Clients, NEW d \in Clients, c # d,
           Begin(d) \/ Serve(d), Clear(th[c]), MoveOK(bucket, cwd, th[c])
    PROVE  MoveOK(bucket', cwd', th[c])
<1> DEFINE t == th[c]
<1>1. SInv /\ Apart /\ DataOK /\ Threads /\ RequestOK(t) /\ NamesOK(t) /\ RequestOK(th[d])
  BY SInvIs DEF LInv, Threads
<1>2. t.op = "rename" /\ t.pc # "idle" /\ Writes(t)
  BY <1>1 DEF Clear, RequestOK, StepOK, Idle, Writes
<1>3. \A p : Below(t, p) => ThingIn(bucket', p) = ThingIn(bucket, p)
  BY <1>1, <1>2, OthersThing
<1>4. cwd' = cwd
  <2> SUFFICES ASSUME cwd' # cwd PROVE FALSE
    OBVIOUS
  <2>1. Readdir(d) \/ Chdir(d)
    BY DEF Begin, Serve, Resolve, Mknod, Setattr, Mkdir, Unlink, Rmdir, List, Rename, Enter,
           Opendir, NextEntry, Copy, Forget, LeaveDir, Finish
  <2>2. th[d].pc # "idle" /\ th[d].op \in {"readdir", "rename"}
    BY <1>1, <2>1 DEF Readdir, Chdir, At, RequestOK, StepOK, Walking, Ops
  <2> DEFINE q == [op |-> t.op, path |-> t.path, to |-> t.to]
             r == [op |-> th[d].op, path |-> th[d].path, to |-> th[d].to]
  <2>3. q \in Asks /\ r \in Asks
    BY <1>1, <1>2, <2>2 DEF RequestOK, StepOK
  <2>4. /\ q.op = t.op /\ q.path = t.path /\ q.to = t.to
        /\ r.op = th[d].op /\ r.path = th[d].path /\ r.to = th[d].to
    OBVIOUS
  <2> HIDE DEF q, r
  <2>5. Conflict(q, r)
    BY <1>2, <2>2, <2>3, <2>4 DEF ListsAlone
  <2>6. Conflict(t, th[d])
    BY <2>4, <2>5 DEF Conflict, Touched, Writes
  <2> QED
    BY <1>1, <1>2, <2>2, <2>6 DEF Apart
<1> QED
  BY <1>1, <1>3, <1>4, SameMove

-----------------------------------------------------------------------------
(* What a step of the rename itself leaves.                                 *)

\* A request that has no call on the stack has no entry to account for.
LEMMA MoveSimple ==
    ASSUME NEW b, NEW w, NEW u, u.stack = <<>>, u.pc \notin Walking, EndOK(b, u),
           u.pc \in {"resolve", "rename"} => Ready(b, u.path, u.to)
    PROVE  MoveOK(b, w, u)
<1>1. Len(u.stack) = 0
  BY EmptySeq
<1>2. ChainOK(u) /\ StackOK(b, u)
  BY <1>1 DEF ChainOK, StackOK
<1>3. StartOK(b, w, u) /\ FileOK(b, u)
  BY DEF StartOK, FileOK, Walking
<1> QED
  BY <1>2, <1>3 DEF MoveOK

\* The first m calls, with the same names and no more to do.
LEMMA ChainSame ==
    ASSUME NEW t, ChainOK(t), NEW u, u.path = t.path, u.to = t.to,
           Len(t.stack) \in Nat, Len(u.stack) \in 0..Len(t.stack),
           \A k \in 1..Len(u.stack) : O(u, k) = O(t, k) /\ N(u, k) = N(t, k),
           \A k \in 1..Len(u.stack) - 1 : u.stack[k].todo \subseteq t.stack[k].todo
    PROVE  ChainOK(u)
<1> DEFINE m == Len(u.stack)
<1>1. \A k \in 1..m : k \in 1..Len(t.stack)
  OBVIOUS
<1>2. \A k \in 1..m : Len(O(u, k)) = Len(u.path) + k - 1 /\ Len(N(u, k)) = Len(u.to) + k - 1
  BY <1>1 DEF ChainOK
<1>3. ASSUME NEW k \in 2..m
      PROVE  ChildOK(u, k)
  <2>1. k \in 2..Len(t.stack) /\ k - 1 \in 1..m - 1 /\ k - 1 \in 1..m /\ k \in 1..m
    OBVIOUS
  <2>2. PICK n \in Names : /\ O(t, k) = Append(O(t, k - 1), n)
                           /\ N(t, k) = Append(N(t, k - 1), n)
                           /\ n \notin t.stack[k - 1].todo
    BY <2>1 DEF ChainOK, ChildOK
  <2>3. n \notin u.stack[k - 1].todo
    BY <2>1, <2>2
  <2>4. O(u, k) = O(t, k) /\ N(u, k) = N(t, k) /\ O(u, k - 1) = O(t, k - 1) /\ N(u, k - 1) = N(t, k - 1)
    BY <2>1
  <2> QED
    BY <2>2, <2>3, <2>4 DEF ChildOK
<1> QED
  BY <1>2, <1>3 DEF ChainOK

\* The k-th call, when the entry it is at is cur.
Open(b, t, k, cur) == OpenAt(b, O(t, k), N(t, k), t.stack[k].todo, cur) /\ t.stack[k].ret = 0

\* A call that was told 0 by the one above it goes on with the next entry.
LEMMA BackMove ==
    ASSUME NEW t, RequestOK(t), ChainOK(t), NEW m \in 0..Len(t.stack),
           NEW u, NEW r, NEW s, Back(t, u, m, r, s), Room(u), NEW b, NEW w,
           m = 0 => EndOK(b, u),
           m > 0 => /\ r = 0
                    /\ \A k \in 1..m - 1 : Open(b, t, k, O(t, k + 1))
                    /\ OpenAt(b, O(t, m), N(t, m), t.stack[m].todo, <<>>)
    PROVE  MoveOK(b, w, u)
<1>1. Len(t.stack) \in Nat
  BY RequestFields DEF RequestOK
<1>2. CASE m = 0
  <2>1. u.pc = "done" /\ u.stack = <<>>
    BY <1>2 DEF Back
  <2> QED
    BY <1>2, <2>1, MoveSimple DEF Walking
<1>3. CASE m > 0
  <2>1. /\ u.path = t.path /\ u.to = t.to /\ Len(u.stack) = m /\ u.pc = "next"
        /\ u.stack[m] = Told(t.stack[m], 0)
        /\ \A k \in 1..m - 1 : u.stack[k] = t.stack[k]
        /\ \A k \in 1..m : O(u, k) = O(t, k) /\ N(u, k) = N(t, k)
    BY <1>3 DEF Back
  <2>2. m \in 1..Len(t.stack) /\ m \in 1..m
    BY <1>1, <1>3
  <2>3. u.stack[m].todo = t.stack[m].todo /\ u.stack[m].ret = 0
    <3>1. t.stack[m] \in FrameType
      BY <2>2, TodoNames
    <3> QED
      BY <2>1, <3>1 DEF Told, FrameType
  <2>4. ChainOK(u)
    <3>1. \A k \in 1..Len(u.stack) - 1 : u.stack[k].todo \subseteq t.stack[k].todo
      BY <2>1
    <3> QED
      BY <1>1, <2>1, <3>1, ChainSame
  <2>5. ASSUME NEW k \in 1..m
        PROVE  OpenOK(b, u, k)
    <3>1. CASE k = m
      <4>1. Current(u, m) = <<>>
        BY <2>1 DEF Current, Moving
      <4>2. OpenAt(b, O(u, m), N(u, m), u.stack[m].todo, Current(u, m))
        BY <1>3, <2>1, <2>2, <2>3, <4>1
      <4> QED
        BY <2>3, <3>1, <4>2 DEF OpenOK
    <3>2. CASE k # m
      <4>1. k \in 1..m - 1 /\ k + 1 \in 1..m /\ k < m
        BY <3>2
      <4>2. Current(u, k) = O(t, k + 1)
        BY <2>1, <4>1 DEF Current
      <4>3. Open(b, t, k, O(t, k + 1))
        BY <1>3, <4>1
      <4>4. O(u, k) = O(t, k) /\ N(u, k) = N(t, k) /\ u.stack[k] = t.stack[k]
        BY <2>1, <4>1
      <4> QED
        BY <4>2, <4>3, <4>4 DEF OpenOK, Open
    <3> QED
      BY <3>1, <3>2
  <2>6. StackOK(b, u)
    BY <2>1, <2>4, <2>5 DEF StackOK
  <2> QED
    BY <2>1, <2>6 DEF MoveOK, StartOK, FileOK, EndOK, Moving
<1> QED
  BY <1>2, <1>3

\* What the bucket answers after a change of p.
LEMMA PutThing ==
    ASSUME bucket \in [Paths -> Things], NEW p, NEW x, bucket' = Put(p, x)
    PROVE  /\ \A q : q # p => ThingIn(bucket', q) = ThingIn(bucket, q)
           /\ p \in Paths => ThingIn(bucket', p) = x
           /\ p \notin Paths => ThingIn(bucket', p) = "none"
BY DEF Put, ThingIn

\* Thing is what the bucket answers now.
LEMMA ThingNow == \A p : Thing(p) = ThingIn(bucket, p)
BY DEF Thing, ThingIn

\* Something is made in the new directory of the j-th call.
LEMMA MadeBelow ==
    ASSUME NEW t, RequestOK(t), NamesOK(t), Room(t), t.op = "rename", t.pc # "idle", ChainOK(t),
           NEW j \in 1..Len(t.stack), NEW n \in Names, n \notin t.stack[j].todo,
           NEW b, NEW b2, \A q : q # Append(N(t, j), n) => ThingIn(b2, q) = ThingIn(b, q),
           NEW k \in 1..j, NEW cur, OpenAt(b, O(t, k), N(t, k), t.stack[k].todo, cur)
    PROVE  OpenAt(b2, O(t, k), N(t, k), t.stack[k].todo, cur)
<1> DEFINE o == O(t, k)
           w == N(t, k)
           p == Append(N(t, j), n)
           todo == t.stack[k].todo
<1>1. /\ p # o /\ p # w /\ \A m \in Names : p # Append(o, m)
      /\ \A m \in Names : m \in todo => p # Append(w, m)
  BY Elsewhere
<1>2. todo \in SUBSET Names
  <2>1. Len(t.stack) \in Nat
    BY RequestFields DEF RequestOK
  <2>2. k \in 1..Len(t.stack)
    BY <2>1
  <2> QED
    BY <2>2, TodoNames
<1>3. \A q : q # p => ThingIn(b2, q) = ThingIn(b, q)
  OBVIOUS
<1>4. OpenAt(b, o, w, todo, cur)
  OBVIOUS
<1> HIDE DEF o, w, p, todo
<1>5. /\ ThingIn(b2, o) = ThingIn(b, o) /\ ThingIn(b2, w) = ThingIn(b, w)
      /\ \A m \in Names : ThingIn(b2, Append(o, m)) = ThingIn(b, Append(o, m))
      /\ \A m \in todo : ThingIn(b2, Append(w, m)) = ThingIn(b, Append(w, m))
  BY <1>1, <1>2, <1>3
<1>6. OpenAt(b2, o, w, todo, cur)
  BY <1>2, <1>4, <1>5 DEF OpenAt
<1> QED
  BY <1>6 DEF o, w, todo

\* The entry n of the old directory of the j-th call is removed.
LEMMA RemovedBelow ==
    ASSUME NEW t, RequestOK(t), NamesOK(t), Room(t), t.op = "rename", t.pc # "idle", ChainOK(t),
           NEW j \in 1..Len(t.stack), NEW n \in Names, n \notin t.stack[j].todo,
           NEW b, NEW b2, \A q : q # Append(O(t, j), n) => ThingIn(b2, q) = ThingIn(b, q),
           ThingIn(b2, Append(O(t, j), n)) = "none",
           NEW k \in 1..j, NEW cur, OpenAt(b, O(t, k), N(t, k), t.stack[k].todo, cur),
           NEW cur2, cur2 = cur \/ cur = Append(O(t, j), n)
    PROVE  OpenAt(b2, O(t, k), N(t, k), t.stack[k].todo, cur2)
<1> DEFINE o == O(t, k)
           w == N(t, k)
           p == Append(O(t, j), n)
           todo == t.stack[k].todo
<1>1. /\ p # o /\ p # w /\ \A m \in Names : p # Append(w, m)
      /\ \A m \in Names : m \in todo => p # Append(o, m)
  BY Elsewhere
<1>2. todo \in SUBSET Names
  <2>1. Len(t.stack) \in Nat
    BY RequestFields DEF RequestOK
  <2>2. k \in 1..Len(t.stack)
    BY <2>1
  <2> QED
    BY <2>2, TodoNames
<1>3. (\A q : q # p => ThingIn(b2, q) = ThingIn(b, q)) /\ ThingIn(b2, p) = "none"
  OBVIOUS
<1>4. OpenAt(b, o, w, todo, cur) /\ (cur2 = cur \/ cur = p)
  OBVIOUS
<1> HIDE DEF o, w, p, todo
<1>5. /\ ThingIn(b2, o) = ThingIn(b, o) /\ ThingIn(b2, w) = ThingIn(b, w)
      /\ \A m \in todo : /\ ThingIn(b2, Append(o, m)) = ThingIn(b, Append(o, m))
                         /\ ThingIn(b2, Append(w, m)) = ThingIn(b, Append(w, m))
  BY <1>1, <1>2, <1>3
<1>6. \A m \in Names \ todo : ThingIn(b2, Append(o, m)) # "none" => Append(o, m) = cur2
  <2>1. ASSUME NEW m \in Names \ todo, ThingIn(b2, Append(o, m)) # "none"
        PROVE  Append(o, m) = cur2
    <3>1. Append(o, m) # p
      BY <1>3, <2>1
    <3>2. ThingIn(b, Append(o, m)) # "none"
      BY <1>3, <2>1, <3>1
    <3>3. Append(o, m) = cur
      BY <1>4, <3>2 DEF OpenAt
    <3> QED
      BY <1>4, <3>1, <3>3
  <2> QED
    BY <2>1
<1>7. OpenAt(b2, o, w, todo, cur2)
  BY <1>4, <1>5, <1>6 DEF OpenAt
<1> QED
  BY <1>7 DEF o, w, todo

\* What a step of c itself is taken from, and where it leads.
Own(c) == /\ LInv /\ LInv' /\ ~Fault /\ TreeIn(bucket) /\ TreeIn(bucket')
          /\ Clear(th'[c]) /\ (Clear(th[c]) => MoveOK(bucket, cwd, th[c]))

\* The parts of that which the steps use.
LEMMA OwnIs ==
    ASSUME NEW c \in Clients, Own(c)
    PROVE  /\ DataOK /\ Threads /\ bucket \in [Paths -> Things] /\ bucket' \in [Paths -> Things]
           /\ RequestOK(th[c]) /\ NamesOK(th[c]) /\ CopiedOK(bucket, th[c]) /\ th[c] \in Request
           /\ RequestOK(th'[c]) /\ NamesOK(th'[c]) /\ th'[c] \in Request
<1>1. SInv /\ SInv'
  BY DEF Own, LInv
<1>2. bucket' \in [Paths -> Things] /\ RequestOK(th'[c])
  BY <1>1 DEF SInv, TypeOK
<1> QED
  BY <1>1, <1>2, SInvIs DEF Own, LInv, DataOK, Threads, RequestOK

\* The fields of a request that goes on.
LEMMA GoneTo ==
    ASSUME NEW t \in Request, NEW l, NEW u, u = Gone(t, l)
    PROVE  /\ u.pc = l /\ u.op = t.op /\ u.path = t.path /\ u.to = t.to /\ u.stack = t.stack
           /\ u.file = t.file /\ u.tmp = t.tmp /\ u.displaces = t.displaces
<1> DEFINE v == Gone(t, l)
<1>1. /\ v.pc = l /\ v.op = t.op /\ v.path = t.path /\ v.to = t.to /\ v.stack = t.stack
      /\ v.file = t.file /\ v.tmp = t.tmp /\ v.displaces = t.displaces
  BY GoneIs
<1>2. u = v
  OBVIOUS
<1> HIDE DEF v
<1> QED
  BY <1>1, <1>2

\* A request that is no rename, and a rename before and after its work.
LEMMA MoveRest ==
    ASSUME NEW c \in Clients, Own(c),
           Begin(c) \/ Finish(c) \/ Resolve(c) \/ Mknod(c) \/ Setattr(c) \/ Mkdir(c) \/ Unlink(c)
           \/ Rmdir(c) \/ Readdir(c) \/ List(c)
    PROVE  MoveOK(bucket', cwd', th'[c])
<1> DEFINE t == th[c]
           u == th'[c]
<1>1. Threads /\ RequestOK(t) /\ t \in Request /\ Clear(u) /\ u \in Request
  BY OwnIs DEF Own
<1>2. CASE Begin(c)
  <2>1. PICK q \in Asks : th' = [th EXCEPT ![c] = [Idle EXCEPT !.pc = "resolve", !.op = q.op,
                                                  !.path = q.path, !.to = q.to,
                                                  !.displaces = Displaces(q)]]
    BY <1>2 DEF Begin
  <2>2. u = [Idle EXCEPT !.pc = "resolve", !.op = q.op, !.path = q.path, !.to = q.to,
                         !.displaces = Displaces(q)]
    BY <1>1, <2>1, NowIs
  <2>3. /\ u.pc = "resolve" /\ u.stack = <<>> /\ u.op = q.op /\ u.path = q.path /\ u.to = q.to
        /\ u.displaces = Displaces(q)
    BY <2>2 DEF Idle
  <2>4. q.op = "rename" /\ ~Displaces(q)
    BY <1>1, <2>3 DEF Clear
  <2>5. Ready(bucket, q.path, q.to)
    BY <2>4 DEF Displaces, Ready, Nothing, Listing, Thing, ThingIn
  <2>6. UNCHANGED bucket
    BY <1>2 DEF Begin
  <2> QED
    BY <2>3, <2>5, <2>6, MoveSimple DEF Walking, EndOK
<1>3. CASE Finish(c)
  <2>1. th' = [th EXCEPT ![c] = Idle]
    BY <1>3 DEF Finish
  <2>2. u = Idle
    BY <1>1, <2>1, NowIs
  <2> QED
    BY <1>1, <2>2 DEF Idle, Clear
<1>4. CASE Mknod(c) \/ Setattr(c) \/ Mkdir(c) \/ Unlink(c) \/ Rmdir(c) \/ Readdir(c) \/ List(c)
  <2>1. Named(c)
    <3>1. Serve(c) /\ ~Finish(c) /\ SInv
      BY <1>4 DEF Serve, Mknod, Setattr, Mkdir, Unlink, Rmdir, Readdir, List, Finish, At, Own, LInv
    <3> QED
      BY <3>1, ServeNamed
  <2>2. t.op # "rename"
    BY <1>1, <1>4 DEF Mknod, Setattr, Mkdir, Unlink, Rmdir, Readdir, List, At, RequestOK, StepOK, Ops
  <2> QED
    BY <1>1, <2>1, <2>2 DEF Named, Clear
<1>5. CASE Resolve(c)
  <2>1. t.pc = "resolve" /\ t.stack = <<>> /\ UNCHANGED bucket
    BY <1>1, <1>5, SimpleStack DEF Resolve, At, Walking, Moving
  <2>2. CASE Go(c, t.op)
    <3>1. u = Gone(t, t.op)
      BY <1>1, <2>2, NowIs
    <3>2. /\ u.pc = t.op /\ u.stack = <<>> /\ u.op = t.op /\ u.path = t.path /\ u.to = t.to
          /\ u.tmp = t.tmp /\ u.displaces = t.displaces
      BY <1>1, <2>1, <3>1, GoneTo
    <3>3. Clear(t)
      BY <1>1, <3>2 DEF Clear, Room
    <3>4. Ready(bucket, t.path, t.to)
      BY <2>1, <3>3 DEF Own, MoveOK
    <3>5. u.pc = "rename"
      BY <3>2, <3>3 DEF Clear
    <3> QED
      BY <2>1, <3>2, <3>4, <3>5, MoveSimple DEF Walking, EndOK
  <2>3. ASSUME NEW r, Done(c, r), r = 0 => t.op = "stat"
        PROVE  MoveOK(bucket', cwd', u)
    <3>1. u = Answered(t, r)
      BY <1>1, <2>3, NowIs
    <3>2. u.pc = "done" /\ u.stack = <<>> /\ u.op = t.op /\ u.ret = r
      BY <1>1, <2>1, <3>1, GoneIs
    <3>3. u.ret # 0
      BY <1>1, <2>3, <3>2 DEF Clear
    <3> QED
      BY <3>2, <3>3, MoveSimple DEF Walking, EndOK
  <2> QED
    BY <1>5, <2>2, <2>3 DEF Resolve
<1> QED
  BY <1>2, <1>3, <1>4, <1>5

\* dfs_rename has asked for the type: it moves a file or a directory.
LEMMA MoveRename ==
    ASSUME NEW c \in Clients, Own(c), Rename(c)
    PROVE  MoveOK(bucket', cwd', th'[c])
<1> DEFINE t == th[c]
           u == th'[c]
           x == Thing(t.path)
<1>1. Threads /\ RequestOK(t) /\ t \in Request /\ Clear(u) /\ u \in Request
  BY OwnIs DEF Own
<1>2. t.pc = "rename" /\ t.stack = <<>>
  BY <1>1, SimpleStack DEF Rename, At, Walking, Moving
<1>3. PICK y \in Garbage \union {"other"} :
         /\ x = "none" \/ y = TypeOf(x)
         /\ \/ y = "other" /\ u = Answered(t, -1)
            \/ y = "reg" /\ u = Gone(t, "copy")
            \/ y = "dir" /\ u = First(t)
  BY <1>1, RenameIs DEF Own
<1>4. UNCHANGED bucket
  BY DEF Rename
<1>5. CASE u = Answered(t, -1)
  <2>1. u.pc = "done" /\ u.stack = <<>> /\ u.ret = -1
    BY <1>1, <1>2, <1>5, GoneIs
  <2> QED
    BY <2>1, MoveSimple DEF Walking, EndOK
<1>6. CASE u = Gone(t, "copy")
  <2>1. u.pc = "copy" /\ u.stack = <<>>
    BY <1>1, <1>2, <1>6, GoneTo
  <2> QED
    BY <2>1, MoveSimple DEF Walking, EndOK
<1>7. CASE y = "dir" /\ u = First(t)
  <2> DEFINE v == First(t)
  <2>1. /\ v.pc = "enter" /\ v.op = t.op /\ v.path = t.path /\ v.to = t.to
        /\ v.tmp = t.tmp /\ v.displaces = t.displaces
        /\ Len(v.stack) = 1 /\ v.stack[1] = NewFrame(0, 0)
        /\ O(v, 1) = t.path /\ N(v, 1) = t.to
    BY <1>1, <1>2, NamesStart
  <2>2. u = v
    BY <1>7
  <2> HIDE DEF v
  <2>3. Clear(t)
    BY <1>1, <2>1, <2>2 DEF Clear, Room
  <2>4. Ready(bucket, v.path, v.to)
    BY <1>2, <2>1, <2>3 DEF Own, MoveOK
  <2>5. ThingIn(bucket, v.path) \in {"dir", "none"}
    BY <1>3, <1>7, <2>1 DEF TypeOf, Thing, ThingIn
  <2>6. Len(v.path) \in Int /\ Len(v.to) \in Int
    BY <1>1, <2>2, RequestFields, LenProperties
  <2>7. v.stack[1].ret = 0
    BY <2>1 DEF NewFrame
  <2>8. ChainOK(v)
    BY <2>1, <2>6 DEF ChainOK
  <2>9. StackOK(bucket, v) /\ FileOK(bucket, v) /\ EndOK(bucket, v)
    BY <2>1, <2>8 DEF StackOK, FileOK, EndOK, Moving
  <2>10. StartOK(bucket, cwd', v)
    BY <2>1, <2>4, <2>5, <2>7 DEF StartOK
  <2> QED
    BY <1>4, <2>1, <2>2, <2>9, <2>10 DEF MoveOK
<1> QED
  BY <1>3, <1>5, <1>6, <1>7

\* What is known of a request that is somewhere in rename_directory.
LEMMA WalkIs ==
    ASSUME NEW c \in Clients, Own(c), th[c].pc \in Walking \union Moving, Clear(th[c])
    PROVE  LET t == th[c]
               L == Len(t.stack)
           IN  /\ RequestOK(t) /\ NamesOK(t) /\ Room(t) /\ t.op = "rename" /\ t.pc # "idle"
               /\ ChainOK(t) /\ StackOK(bucket, t) /\ StartOK(bucket, cwd, t) /\ FileOK(bucket, t)
               /\ L \in Nat /\ (t.pc \in Walking => L \in 1..L)
               /\ \A k \in 1..L - 1 : Open(bucket, t, k, O(t, k + 1))
<1> DEFINE t == th[c]
           L == Len(t.stack)
<1>1. RequestOK(t) /\ NamesOK(t) /\ t \in Request /\ Threads
  BY OwnIs
<1>2. MoveOK(bucket, cwd, t)
  BY DEF Own
<1>3. t.op = "rename" /\ t.pc # "idle"
  BY DEF Clear, Walking, Moving
<1>4. L \in Nat /\ (t.pc \in Walking => L \in Nat \ {0})
  BY <1>1, RequestFields, TopNames
<1>5. ASSUME NEW k \in 1..L - 1
      PROVE  Open(bucket, t, k, O(t, k + 1))
  <2>1. k \in 1..L /\ k < L
    BY <1>4
  <2>2. OpenOK(bucket, t, k)
    BY <1>2, <2>1 DEF MoveOK, StackOK
  <2>3. Current(t, k) = O(t, k + 1)
    BY <2>1 DEF Current
  <2> QED
    BY <2>2, <2>3 DEF OpenOK, Open
<1>6. StackOK(bucket, t) /\ StartOK(bucket, cwd, t) /\ FileOK(bucket, t)
  BY <1>2 DEF MoveOK
<1>7. ChainOK(t)
  BY <1>6 DEF StackOK
<1>8. Room(t)
  BY DEF Clear
<1>9. t.pc \in Walking => L \in 1..L
  BY <1>4
<1> HIDE DEF L
<1> QED
  BY <1>1, <1>3, <1>4, <1>5, <1>6, <1>7, <1>8, <1>9 DEF L

\* The calls below one that has not read its directory yet, or has just read it.
LEMMA LowerStack ==
    ASSUME NEW t, NEW u, ChainOK(t), u.path = t.path, u.to = t.to, Len(t.stack) \in Nat,
           Len(u.stack) = Len(t.stack),
           \A k \in 1..Len(t.stack) : O(u, k) = O(t, k) /\ N(u, k) = N(t, k),
           \A k \in 1..Len(t.stack) - 1 : u.stack[k] = t.stack[k],
           NEW b, \A k \in 1..Len(t.stack) - 1 : Open(b, t, k, O(t, k + 1)),
           u.pc \in {"next"} \union Moving => OpenOK(b, u, Len(t.stack))
    PROVE  StackOK(b, u)
<1> DEFINE L == Len(t.stack)
<1>1. ChainOK(u)
  <2>1. \A k \in 1..Len(u.stack) - 1 : u.stack[k].todo \subseteq t.stack[k].todo
    OBVIOUS
  <2> QED
    BY <2>1, ChainSame
<1>2. ASSUME NEW k \in 1..L, k < L
      PROVE  OpenOK(b, u, k)
  <2>1. k \in 1..L - 1 /\ k + 1 \in 1..L
    BY <1>2
  <2>2. Current(u, k) = O(t, k + 1)
    BY <1>2, <2>1 DEF Current
  <2>3. Open(b, t, k, O(t, k + 1))
    BY <2>1
  <2>4. O(u, k) = O(t, k) /\ N(u, k) = N(t, k) /\ u.stack[k] = t.stack[k]
    BY <2>1
  <2> QED
    BY <2>2, <2>3, <2>4 DEF OpenOK, Open
<1> QED
  BY <1>1, <1>2 DEF StackOK

\* A call that ends the whole request with an error.
LEMMA LastFails ==
    ASSUME NEW c \in Clients, NEW r \in {-1}, NEW s, Back(th[c], th'[c], 0, r, s)
    PROVE  MoveOK(bucket', cwd', th'[c])
<1>1. th'[c].pc = "done" /\ th'[c].stack = <<>> /\ th'[c].ret = -1
  BY DEF Back
<1> QED
  BY <1>1, MoveSimple DEF Walking, EndOK

\* What a rename can be held to at the end it could be held to before.
LEMMA BackClear ==
    ASSUME NEW t, NEW u, NEW m, NEW r, NEW s, Back(t, u, m, r, s), Clear(u)
    PROVE  Clear(t) /\ Room(u)
BY DEF Back, Clear

\* The first call has the names of the caller.
LEMMA FirstNames ==
    ASSUME NEW t, RequestOK(t), 1 \in 1..Len(t.stack)
    PROVE  O(t, 1) = t.path /\ N(t, 1) = t.to
<1>1. t.stack[1].old = 0 /\ t.stack[1].new = 0
  BY DEF RequestOK, PointersOK
<1> QED
  BY <1>1 DEF O, N, OldOf, NewOf

\* A call that is not the first one has one below it.
LEMMA Deep ==
    ASSUME NEW l \in Nat, l \in 1..l, l # 1
    PROVE  /\ l > 1 /\ l \in 2..l /\ l - 1 \in 1..l - 1 /\ l - 1 \in 1..l
           /\ l - 1 \in 0..l /\ l - 1 # 0 /\ l - 1 + 1 = l
OBVIOUS

\* rename_directory has found or made its target.
LEMMA MoveEnter ==
    ASSUME NEW c \in Clients, Own(c), Enter(c)
    PROVE  MoveOK(bucket', cwd', th'[c])
<1> DEFINE t == th[c]
           u == th'[c]
           L == Len(t.stack)
           o == O(t, L)
           n == N(t, L)
           f == [Frame(c) EXCEPT !.type = TypeOf(Thing(n))]
<1>1. /\ Threads /\ RequestOK(t) /\ t \in Request /\ NamesOK(t) /\ Clear(u) /\ u \in Request
      /\ bucket \in [Paths -> Things]
  BY OwnIs DEF Own
<1>2. t.pc = "enter" /\ t.pc \in Walking
  BY DEF Enter, At, Walking
<1>3. ASSUME Clear(t)
      PROVE  /\ Room(t) /\ t.op = "rename" /\ t.pc # "idle" /\ ChainOK(t) /\ L \in 1..L /\ L \in Nat
             /\ \A k \in 1..L - 1 : Open(bucket, t, k, O(t, k + 1))
             /\ t.stack[L].ret = 0 /\ Ready(bucket, o, n)
             /\ ThingIn(bucket, o) \in {"dir", "none"}
             /\ L > 1 => ThingIn(bucket, o) = "dir"
  <2>1. /\ Room(t) /\ t.op = "rename" /\ t.pc # "idle" /\ ChainOK(t) /\ L \in 1..L /\ L \in Nat
        /\ StartOK(bucket, cwd, t)
        /\ \A k \in 1..L - 1 : Open(bucket, t, k, O(t, k + 1))
    BY <1>2, <1>3, WalkIs
  <2> QED
    BY <1>2, <2>1 DEF StartOK
<1>4. CASE Thing(n) # "none" /\ UNCHANGED bucket /\ u = WithFrame(t, "chdir", f)
  <2>1. f \in FrameType /\ f.old = Last(t.stack).old /\ f.new = Last(t.stack).new /\ f.ret = t.stack[L].ret
    BY <1>1, <1>2, TopFrame DEF FrameType, TypeOf, Frame
  <2> DEFINE v == WithFrame(t, "chdir", f)
  <2> HIDE DEF f
  <2>2. /\ v.pc = "chdir" /\ v.op = t.op /\ v.path = t.path /\ v.to = t.to
        /\ v.file = t.file /\ v.tmp = t.tmp /\ v.displaces = t.displaces
        /\ Len(v.stack) = L /\ v.stack[L] = f
        /\ \A k \in 1..L - 1 : v.stack[k] = t.stack[k]
        /\ \A k \in 1..L : O(v, k) = O(t, k) /\ N(v, k) = N(t, k)
    BY <1>1, <1>2, <2>1, NamesFrame DEF Walking
  <2>3. u = v
    BY <1>4
  <2> HIDE DEF v
  <2>4. Clear(t)
    BY <1>1, <2>2, <2>3 DEF Clear, Room
  <2>5. StackOK(bucket, v)
    BY <1>3, <2>2, <2>4, LowerStack DEF Moving
  <2>6. O(v, L) = o /\ N(v, L) = n
    BY <1>3, <2>2, <2>4
  <2>7. StartOK(bucket, cwd', v)
    BY <1>3, <1>4, <2>1, <2>2, <2>4, <2>6, ThingNow DEF StartOK
  <2>8. FileOK(bucket, v) /\ EndOK(bucket, v)
    BY <2>2 DEF FileOK, EndOK, Moving
  <2> QED
    BY <1>4, <2>2, <2>3, <2>5, <2>7, <2>8 DEF MoveOK
<1>5. CASE /\ Thing(n) = "none" /\ HasParent(n)
           /\ bucket' = Put(n, "dir") /\ u = Gone(t, "chdir")
  <2>1. /\ u.pc = "chdir" /\ u.op = t.op /\ u.path = t.path /\ u.to = t.to /\ u.stack = t.stack
        /\ u.file = t.file /\ u.tmp = t.tmp /\ u.displaces = t.displaces
    BY <1>1, <1>5, GoneTo
  <2>2. \A k : O(u, k) = O(t, k) /\ N(u, k) = N(t, k)
    BY <2>1 DEF O, N, OldOf, NewOf
  <2>3. Clear(t)
    BY <1>1, <2>1 DEF Clear, Room
  <2>4. /\ o \in Strings /\ IsPrefix(t.path, o) /\ n \in Strings /\ IsPrefix(t.to, n)
        /\ o \in Paths => n \in Paths
        /\ \A m \in Names : Append(n, m) \in Strings /\ IsPrefix(t.to, Append(n, m))
    BY <1>1, <1>3, <2>3, CallNames
  <2>5. o \in Paths
    <3>1. CASE L = 1
      <4>1. o = t.path
        BY <1>1, <1>3, <2>3, <3>1, FirstNames
      <4> QED
        BY <1>1, <1>3, <2>3, <4>1, RunningRequest
    <3>2. CASE L # 1
      <4>1. L > 1
        BY <1>3, <2>3, <3>2, Deep
      <4>2. ThingIn(bucket, o) = "dir"
        BY <1>3, <2>3, <4>1
      <4> HIDE DEF o
      <4> QED
        BY <4>2 DEF ThingIn
    <3> QED
      BY <3>1, <3>2
  <2>6. n \in Paths
    BY <2>4, <2>5
  <2>7. /\ \A q : q # n => ThingIn(bucket', q) = ThingIn(bucket, q)
        /\ ThingIn(bucket', n) = "dir"
    BY <1>1, <1>5, <2>6, PutThing
  <2>8. o # n /\ \A m \in Names : Append(n, m) # n
    <3>1. o # n
      BY <1>1, <1>3, <2>3, <2>4, TwoTrees
    <3>2. \A m \in Names : Len(n) \in Nat /\ Len(Append(n, m)) = Len(n) + 1
      BY <2>4, AppendLen
    <3> HIDE DEF n
    <3>3. \A m \in Names : Append(n, m) # n
      BY <3>2
    <3> QED
      BY <3>1, <3>3
  <2>9. ThingIn(bucket', o) = ThingIn(bucket, o)
    BY <2>7, <2>8
  <2>10. Ready(bucket', o, n)
    <3>1. ThingIn(bucket, o) = "dir" => Nothing(bucket', n)
      <4> HIDE DEF n, o
      <4> QED
        BY <1>3, <2>3, <2>7, <2>8 DEF Ready, Nothing
    <3> QED
      BY <2>7, <2>9, <3>1 DEF Ready, IsFile
  <2>11. StackOK(bucket', u)
    <3>1. ASSUME NEW k \in 1..L - 1
          PROVE  Open(bucket', t, k, O(t, k + 1))
      <4>1. L \in 2..L /\ L - 1 \in 1..L /\ k \in 1..L - 1
        BY <1>3, <2>3
      <4>2. PICK m \in Names : n = Append(N(t, L - 1), m) /\ m \notin t.stack[L - 1].todo
        BY <1>3, <2>3, <4>1 DEF ChainOK, ChildOK
      <4>3. Open(bucket, t, k, O(t, k + 1))
        BY <1>3, <2>3
      <4>4. \A q : q # Append(N(t, L - 1), m) => ThingIn(bucket', q) = ThingIn(bucket, q)
        BY <2>7, <4>2
      <4>5. OpenAt(bucket', O(t, k), N(t, k), t.stack[k].todo, O(t, k + 1))
        <5>1. OpenAt(bucket, O(t, k), N(t, k), t.stack[k].todo, O(t, k + 1))
          BY <4>3 DEF Open
        <5> QED
          BY <1>1, <1>3, <2>3, <4>1, <4>2, <4>4, <5>1, MadeBelow
      <4> QED
        BY <4>3, <4>5 DEF Open
    <3> HIDE DEF o, n
    <3> QED
      BY <1>3, <2>1, <2>2, <2>3, <3>1, LowerStack DEF Moving
  <2>12. StartOK(bucket', cwd', u)
    BY <1>3, <2>1, <2>2, <2>3, <2>7, <2>9, <2>10 DEF StartOK
  <2>13. FileOK(bucket', u) /\ EndOK(bucket', u)
    BY <2>1 DEF FileOK, EndOK, Moving
  <2> QED
    BY <2>1, <2>11, <2>12, <2>13 DEF MoveOK
<1>6. CASE Back(t, u, L - 1, -1, t.tmp) /\ ~HasParent(n)
  <2>1. Clear(t)
    BY <1>1, <1>6, BackClear
  <2>2. L = 1
    <3> SUFFICES ASSUME L # 1 PROVE FALSE
      OBVIOUS
    <3>0. L \in 1..L /\ L \in Nat
      BY <1>3, <2>1
    <3>1. L \in 2..L /\ L - 1 \in 1..L - 1 /\ L - 1 \in 1..L
      BY <3>0, Deep
    <3>2. PICK m \in Names : n = Append(N(t, L - 1), m)
      BY <1>3, <2>1, <3>1 DEF ChainOK, ChildOK
    <3>3. ThingIn(bucket, N(t, L - 1)) = "dir"
      BY <1>3, <2>1, <3>1 DEF Open, OpenAt
    <3>4. N(t, L - 1) \in Strings
      BY <1>1, <1>3, <2>1, <3>1, CallNames
    <3>5. Front(n) = N(t, L - 1)
      <4>1. m \in Names \union ToSet(CacheDir)
        BY PathStrings
      <4> QED
        BY <3>2, <3>4, <4>1, FrontAppend DEF Strings
    <3> QED
      BY <1>6, <3>3, <3>5, ThingNow DEF HasParent
  <2> QED
    BY <1>6, <2>2, LastFails
<1> QED
  <2>1. ~LostPut(n, "dir") /\ ~Fault
    BY DEF Own, LostPut
  <2> QED
    BY <1>1, <1>4, <1>5, <1>6, <2>1, EnterIs

\* rename_directory changes into the old directory, or has nothing to move.
LEMMA MoveChdir ==
    ASSUME NEW c \in Clients, Own(c), Chdir(c)
    PROVE  MoveOK(bucket', cwd', th'[c])
<1> DEFINE t == th[c]
           u == th'[c]
           L == Len(t.stack)
           o == O(t, L)
           n == N(t, L)
<1>1. /\ Threads /\ RequestOK(t) /\ t \in Request /\ NamesOK(t) /\ Clear(u) /\ u \in Request
      /\ bucket \in [Paths -> Things] /\ TreeIn(bucket)
  BY OwnIs DEF Own
<1>2. t.pc = "chdir" /\ t.pc \in Walking /\ UNCHANGED bucket
  BY DEF Chdir, At, Walking
<1>3. ASSUME Clear(t)
      PROVE  /\ t.pc # "idle" /\ ChainOK(t) /\ L \in 1..L /\ L \in Nat
             /\ \A k \in 1..L - 1 : Open(bucket, t, k, O(t, k + 1))
             /\ t.stack[L].ret = 0 /\ Ready(bucket, o, n)
             /\ ThingIn(bucket, o) \in {"dir", "none"} /\ ThingIn(bucket, n) # "none"
             /\ L > 1 => ThingIn(bucket, o) = "dir"
  <2>1. /\ t.pc # "idle" /\ ChainOK(t) /\ L \in 1..L /\ L \in Nat
        /\ StartOK(bucket, cwd, t)
        /\ \A k \in 1..L - 1 : Open(bucket, t, k, O(t, k + 1))
    BY <1>2, <1>3, WalkIs
  <2> QED
    BY <1>2, <2>1 DEF StartOK
<1>4. CASE Thing(o) = "dir" /\ cwd' = o /\ u = Gone(t, "opendir")
  <2>1. /\ u.pc = "opendir" /\ u.op = t.op /\ u.path = t.path /\ u.to = t.to /\ u.stack = t.stack
        /\ u.file = t.file /\ u.tmp = t.tmp /\ u.displaces = t.displaces
    BY <1>1, <1>4, GoneTo
  <2>2. \A k : O(u, k) = O(t, k) /\ N(u, k) = N(t, k)
    BY <2>1 DEF O, N, OldOf, NewOf
  <2>3. Clear(t)
    BY <1>1, <2>1 DEF Clear, Room
  <2>4. StackOK(bucket, u)
    BY <1>3, <2>1, <2>2, <2>3, LowerStack DEF Moving
  <2>5. ThingIn(bucket, o) = "dir" /\ ThingIn(bucket, n) = "dir"
    BY <1>3, <1>4, <2>3, ThingNow DEF Ready, IsFile
  <2>6. StartOK(bucket, cwd', u)
    BY <1>3, <1>4, <2>1, <2>2, <2>3, <2>5 DEF StartOK
  <2>7. FileOK(bucket, u) /\ EndOK(bucket, u)
    BY <2>1 DEF FileOK, EndOK, Moving
  <2> QED
    BY <1>2, <2>1, <2>4, <2>6, <2>7 DEF MoveOK
<1>5. CASE Thing(o) # "dir" /\ \E r \in Failures : Back(t, u, L - 1, r, t.tmp)
  <2>1. PICK r \in Failures : Back(t, u, L - 1, r, t.tmp)
    BY <1>5
  <2>2. Clear(t) /\ Room(u)
    BY <1>1, <2>1, BackClear
  <2>3. L = 1 /\ ThingIn(bucket, o) = "none"
    BY <1>3, <1>5, <2>2, ThingNow, Deep
  <2>4. o = t.path /\ n = t.to /\ t.path \in Paths /\ t.to \in Paths
    BY <1>1, <1>3, <2>2, <2>3, FirstNames, RunningRequest
  <2>5. bucket[t.path] = "none" /\ bucket[t.to] # "none"
    BY <1>3, <2>2, <2>3, <2>4 DEF ThingIn
  <2>6. \A p \in Paths : IsPrefix(t.path, p) => bucket[p] = "none"
    BY <1>1, <2>4, <2>5, LeafIsBare DEF Bare, IsStrictPrefix
  <2>7. u.pc = "done" /\ u.stack = <<>> /\ u.path = t.path /\ u.to = t.to
    BY <2>1, <2>3 DEF Back
  <2> QED
    BY <1>2, <2>5, <2>6, <2>7, MoveSimple DEF Walking, EndOK
<1> QED
  BY <1>1, <1>4, <1>5, ChdirIs DEF Own

\* opendir lists the old directory.
LEMMA MoveOpendir ==
    ASSUME NEW c \in Clients, Own(c), Opendir(c)
    PROVE  MoveOK(bucket', cwd', th'[c])
<1> DEFINE t == th[c]
           L == Len(t.stack)
           o == O(t, L)
           n == N(t, L)
           f == [Frame(c) EXCEPT !.todo = Listing(cwd)]
           u == WithFrame(t, "next", f)
<1>1. /\ Threads /\ RequestOK(t) /\ t \in Request /\ NamesOK(t) /\ Clear(th'[c]) /\ th'[c] \in Request
  BY OwnIs DEF Own
<1>2. t.pc = "opendir" /\ t.pc \in Walking /\ UNCHANGED bucket
  BY DEF Opendir, At, Walking
<1>3. th'[c] = u
  BY <1>1, OpendirIs DEF Own
<1>4. /\ f \in FrameType /\ f.old = Last(t.stack).old /\ f.new = Last(t.stack).new
      /\ f.ret = t.stack[L].ret /\ f.todo = Listing(cwd)
  BY <1>1, <1>2, TopFrame DEF FrameType, Frame, Listing
<1> HIDE DEF f
<1>5. /\ u.pc = "next" /\ u.op = t.op /\ u.path = t.path /\ u.to = t.to
      /\ u.file = t.file /\ u.tmp = t.tmp /\ u.displaces = t.displaces
      /\ Len(u.stack) = L /\ u.stack[L] = f
      /\ \A k \in 1..L - 1 : u.stack[k] = t.stack[k]
      /\ \A k \in 1..L : O(u, k) = O(t, k) /\ N(u, k) = N(t, k)
  BY <1>1, <1>2, <1>4, NamesFrame DEF Walking
<1> HIDE DEF u
<1>6. Clear(t)
  BY <1>1, <1>3, <1>5 DEF Clear, Room
<1>7. /\ ChainOK(t) /\ L \in 1..L /\ L \in Nat /\ StartOK(bucket, cwd, t)
      /\ \A k \in 1..L - 1 : Open(bucket, t, k, O(t, k + 1))
  BY <1>2, <1>6, WalkIs
<1>8. /\ t.stack[L].ret = 0 /\ Ready(bucket, o, n) /\ cwd = o
      /\ ThingIn(bucket, o) = "dir" /\ ThingIn(bucket, n) = "dir"
  BY <1>2, <1>7 DEF StartOK
<1>9. O(u, L) = o /\ N(u, L) = n
  BY <1>5, <1>7
<1>10. OpenAt(bucket, o, n, Listing(o), <<>>)
  <2> HIDE DEF o, n
  <2> QED
    BY <1>8, ThingNow DEF OpenAt, Listing, Ready, Nothing
<1>11. OpenOK(bucket, u, L)
  <2>1. Current(u, L) = <<>>
    BY <1>5 DEF Current, Moving
  <2> QED
    BY <1>4, <1>5, <1>8, <1>9, <1>10, <2>1 DEF OpenOK
<1>12. StackOK(bucket, u)
  BY <1>5, <1>7, <1>11, LowerStack
<1> QED
  BY <1>2, <1>3, <1>5, <1>12 DEF MoveOK, StartOK, FileOK, EndOK, Moving

\* An entry is read: it is the one the call is at.
LEMMA OneRead ==
    ASSUME NEW b, NEW o, NEW n, NEW todo \in SUBSET Names, OpenAt(b, o, n, todo, <<>>), NEW m \in todo,
           \A k \in Names : Append(o, k) # <<>>
    PROVE  OpenAt(b, o, n, todo \ {m}, Append(o, m))
BY DEF OpenAt

\* There is nothing in what is not there.
LEMMA NothingThere ==
    ASSUME NEW b, TreeIn(b), NEW p \in Strings, p # <<>>, ThingIn(b, p) = "none"
    PROVE  Nothing(b, p)
<1> SUFFICES ASSUME NEW m \in Names, ThingIn(b, Append(p, m)) # "none" PROVE FALSE
  BY DEF Nothing
<1> DEFINE r == Append(p, m)
<1>1. r \in Paths /\ b[r] # "none"
  BY DEF ThingIn
<1>2. Len(p) \in Nat \ {0} /\ Len(r) = Len(p) + 1 /\ m \in Names \union ToSet(CacheDir)
  BY AppendLen, EmptySeq, LenProperties, PathStrings DEF Strings
<1>3. SubSeq(r, 1, Len(p)) = p
  <2>1. Front(r) = SubSeq(r, 1, Len(r) - 1)
    BY DEF Front
  <2>2. Front(r) = p
    BY <1>2, FrontAppend DEF Strings
  <2> QED
    BY <1>2, <2>1, <2>2
<1>4. p \in Paths
  <2>1. Len(p) \in 1..Len(r)
    BY <1>2
  <2> HIDE DEF r
  <2> QED
    BY <1>1, <1>3, <2>1, PathsAssumption
<1>5. IsStrictPrefix(p, r)
  <2>1. IsPrefix(p, r)
    BY <1>2, AppendExtends DEF Strings
  <2>2. p # r
    BY <1>2
  <2> QED
    BY <2>1, <2>2 DEF IsStrictPrefix
<1>6. b[p] = "dir"
  BY <1>1, <1>4, <1>5 DEF TreeIn
<1> QED
  BY <1>4, <1>6 DEF ThingIn

\* What is known of a rename_directory that reads the entry n.
LEMMA ReadingIs ==
    ASSUME NEW c \in Clients, Own(c), th[c].pc = "next", Clear(th[c])
    PROVE  LET t == th[c]
               L == Len(t.stack)
           IN  /\ t.stack[L] \in FrameType /\ t.stack[L].ret = 0 /\ Last(t.stack) = t.stack[L]
               /\ OpenAt(bucket, O(t, L), N(t, L), t.stack[L].todo, <<>>)
               /\ O(t, L) \in Strings /\ N(t, L) \in Strings
<1> DEFINE t == th[c]
           L == Len(t.stack)
<1>1. /\ RequestOK(t) /\ NamesOK(t) /\ Room(t) /\ t.op = "rename" /\ t.pc # "idle"
      /\ StackOK(bucket, t) /\ L \in 1..L
  BY WalkIs DEF Walking
<1>2. OpenOK(bucket, t, L)
  BY <1>1 DEF StackOK
<1>3. Current(t, L) = <<>>
  BY <1>1 DEF Current, Moving
<1>4. t.stack[L] \in FrameType
  BY <1>1, TodoNames
<1>5. O(t, L) \in Strings /\ N(t, L) \in Strings
  BY <1>1, CallNames
<1>6. Last(t.stack) = t.stack[L]
  BY DEF Last
<1> QED
  BY <1>2, <1>3, <1>4, <1>5, <1>6 DEF OpenOK

\* The frame of the call that reads n, and what it then has to do.
LEMMA ReadFrame ==
    ASSUME NEW c \in Clients, Own(c), th[c].pc = "next", Clear(th[c]),
           NEW n \in Last(th[c].stack).todo, NEW f,
           f = Left(Last(th[c].stack), n, "reg") \/ f = Left(Last(th[c].stack), n, "dir")
    PROVE  LET t == th[c]
               L == Len(t.stack)
           IN  /\ f.ret = 0 /\ n \in Names \ f.todo /\ f.todo \subseteq t.stack[L].todo
               /\ OpenAt(bucket, O(t, L), N(t, L), f.todo, Append(O(t, L), n))
               /\ ThingIn(bucket, Append(O(t, L), n)) # "none"
               /\ ThingIn(bucket, Append(N(t, L), n)) = "none"
<1> DEFINE t == th[c]
           L == Len(t.stack)
           o == O(t, L)
           w == N(t, L)
<1>1. /\ t.stack[L] \in FrameType /\ t.stack[L].ret = 0 /\ Last(t.stack) = t.stack[L]
      /\ OpenAt(bucket, o, w, t.stack[L].todo, <<>>)
      /\ o \in Strings /\ w \in Strings
  BY ReadingIs
<1> DEFINE g == t.stack[L]
<1>2. f.ret = 0 /\ f.todo = g.todo \ {n} /\ g.todo \in SUBSET Names /\ n \in g.todo
  BY <1>1 DEF Left, FrameType
<1>3. \A k \in Names : Append(o, k) # <<>>
  <2>1. ASSUME NEW k \in Names
        PROVE  Append(o, k) # <<>>
    <3>1. k \in Names \union ToSet(CacheDir)
      OBVIOUS
    <3> QED
      BY <1>1, <3>1, AppendProperties DEF Strings
  <2> QED
    BY <2>1
<1> HIDE DEF o, w, g
<1>4. OpenAt(bucket, o, w, g.todo, <<>>)
  BY <1>1 DEF g
<1>5. OpenAt(bucket, o, w, g.todo \ {n}, Append(o, n))
  BY <1>2, <1>3, <1>4, OneRead
<1>6. ThingIn(bucket, Append(o, n)) # "none" /\ ThingIn(bucket, Append(w, n)) = "none"
  BY <1>2, <1>4 DEF OpenAt
<1> QED
  BY <1>2, <1>5, <1>6 DEF o, w, g

\* The entry is a file.
LEMMA MoveFound ==
    ASSUME NEW c \in Clients, Own(c), th[c].pc = "next", UNCHANGED bucket,
           NEW n \in Last(th[c].stack).todo, NEW y \in {"reg", "dir"}, y # "dir",
           Thing(SrcOf(th[c], n)) # "none" => y = TypeOf(Thing(SrcOf(th[c], n))),
           th'[c] = Found(th[c], n, y)
    PROVE  MoveOK(bucket', cwd', th'[c])
<1> DEFINE t == th[c]
           L == Len(t.stack)
           o == O(t, L)
           w == N(t, L)
           u == Found(t, n, y)
           f == Left(Last(t.stack), n, y)
<1>0. f = Left(Last(t.stack), n, "reg") \/ f = Left(Last(t.stack), n, "dir")
  OBVIOUS
<1>1. RequestOK(t) /\ t \in Request /\ NamesOK(t) /\ Clear(th'[c])
  BY OwnIs DEF Own
<1>2. /\ u.op = t.op /\ u.path = t.path /\ u.to = t.to /\ u.displaces = t.displaces
      /\ u.pc = "copy" /\ u.stack = ReadOn(t, n, y)
  BY <1>1, FoundKeeps
<1>3. /\ Room(u) => Room(t)
      /\ Room(u) => /\ \A k \in 1..L : O(u, k) = O(t, k) /\ N(u, k) = N(t, k)
                    /\ OldOf(u, u.file) = Append(o, n)
                    /\ NewOf(u, u.file) = Append(w, n)
  BY <1>1, NamesFound
<1>4. /\ Len(u.stack) = L /\ u.stack[L] = f
      /\ \A k \in 1..L - 1 : u.stack[k] = t.stack[k]
  BY <1>1, <1>2, ReadOnIs
<1>5. th'[c] = u
  OBVIOUS
<1> HIDE DEF u
<1>6. Clear(u) /\ Room(u) /\ Clear(t)
  BY <1>1, <1>2, <1>3, <1>5 DEF Clear
<1>7. /\ ChainOK(t) /\ L \in 1..L /\ L \in Nat
      /\ \A k \in 1..L - 1 : Open(bucket, t, k, O(t, k + 1))
  BY <1>6, WalkIs DEF Walking
<1> HIDE DEF f
<1>8. /\ f.ret = 0 /\ n \in Names \ f.todo /\ f.todo \subseteq t.stack[L].todo
      /\ OpenAt(bucket, o, w, f.todo, Append(o, n))
      /\ ThingIn(bucket, Append(o, n)) # "none" /\ ThingIn(bucket, Append(w, n)) = "none"
  BY <1>0, <1>6, ReadFrame
<1>9. O(u, L) = o /\ N(u, L) = w
  BY <1>3, <1>6, <1>7
<1>10. OpenOK(bucket, u, L)
  <2>1. Current(u, L) = Append(o, n)
    BY <1>2, <1>3, <1>4, <1>6 DEF Current, Moving
  <2> QED
    BY <1>4, <1>8, <1>9, <2>1 DEF OpenOK
<1>11. StackOK(bucket, u)
  BY <1>2, <1>3, <1>4, <1>6, <1>7, <1>10, LowerStack
<1>12. IsFile(ThingIn(bucket, Append(o, n)))
  <2>1. SrcOf(t, n) = Append(o, n)
    BY DEF SrcOf, O, Last
  <2>2. ThingIn(bucket, Append(o, n)) # "dir"
    BY <1>8, <2>1, ThingNow DEF TypeOf
  <2> QED
    BY <1>8, <2>2 DEF IsFile
<1>13. FileOK(bucket, u)
  BY <1>3, <1>4, <1>6, <1>8, <1>9, <1>12 DEF FileOK
<1> QED
  BY <1>2, <1>5, <1>11, <1>13 DEF MoveOK, StartOK, EndOK

\* The entry is a directory.
LEMMA MoveEntered ==
    ASSUME NEW c \in Clients, Own(c), th[c].pc = "next", UNCHANGED bucket,
           NEW n \in Last(th[c].stack).todo,
           Thing(SrcOf(th[c], n)) # "none" => TypeOf(Thing(SrcOf(th[c], n))) = "dir",
           th'[c] = Entered(th[c], n)
    PROVE  MoveOK(bucket', cwd', th'[c])
<1> DEFINE t == th[c]
           L == Len(t.stack)
           o == O(t, L)
           w == N(t, L)
           u == Entered(t, n)
           f == Left(Last(t.stack), n, "dir")
<1>0. f = Left(Last(t.stack), n, "dir")
  OBVIOUS
<1>1. RequestOK(t) /\ t \in Request /\ NamesOK(t) /\ Clear(th'[c]) /\ TreeIn(bucket)
  BY OwnIs DEF Own
<1>2. /\ u.op = t.op /\ u.path = t.path /\ u.to = t.to /\ u.displaces = t.displaces
      /\ u.pc = "enter" /\ Len(u.stack) = L + 1
      /\ u.stack[L + 1] = NewFrame(EntryOf(t, n).old, EntryOf(t, n).new)
      /\ \A k \in 1..L : u.stack[k] = ReadOn(t, n, "dir")[k]
  BY <1>1, EnteredKeeps
<1>3. /\ Room(u) => Room(t)
      /\ Room(u) => /\ \A k \in 1..L : O(u, k) = O(t, k) /\ N(u, k) = N(t, k)
                    /\ O(u, L + 1) = Append(o, n)
                    /\ N(u, L + 1) = Append(w, n)
  BY <1>1, NamesEntered
<1>5. th'[c] = u
  OBVIOUS
<1> HIDE DEF u
<1>6. Clear(u) /\ Room(u) /\ Clear(t)
  BY <1>1, <1>2, <1>3, <1>5 DEF Clear
<1>7. /\ ChainOK(t) /\ L \in 1..L /\ L \in Nat
      /\ \A k \in 1..L - 1 : Open(bucket, t, k, O(t, k + 1))
  BY <1>6, WalkIs DEF Walking
<1>4. u.stack[L] = f /\ \A k \in 1..L - 1 : u.stack[k] = t.stack[k]
  <2>1. /\ ReadOn(t, n, "dir")[L] = f
        /\ \A k \in 1..L - 1 : ReadOn(t, n, "dir")[k] = t.stack[k]
    BY <1>1, ReadOnIs
  <2>2. \A k \in 1..L - 1 : k \in 1..L
    BY <1>7
  <2>3. u.stack[L] = f
    BY <1>2, <1>7, <2>1
  <2>4. ASSUME NEW k \in 1..L - 1
        PROVE  u.stack[k] = t.stack[k]
    <3>1. k \in 1..L
      BY <2>2
    <3>2. u.stack[k] = ReadOn(t, n, "dir")[k]
      BY <1>2, <3>1
    <3> QED
      BY <2>1, <3>2
  <2> QED
    BY <2>3, <2>4
<1> HIDE DEF f
<1>8. /\ f.ret = 0 /\ n \in Names \ f.todo /\ f.todo \subseteq t.stack[L].todo
      /\ OpenAt(bucket, o, w, f.todo, Append(o, n))
      /\ ThingIn(bucket, Append(o, n)) # "none" /\ ThingIn(bucket, Append(w, n)) = "none"
  BY <1>0, <1>6, ReadFrame, SMTT(60)
<1>9. O(u, L) = o /\ N(u, L) = w /\ o \in Strings /\ w \in Strings
  BY <1>3, <1>6, <1>7, ReadingIs
<1>10. u.stack[L + 1].ret = 0
  BY <1>2 DEF NewFrame
<1>11. \A k \in 1..L + 1 : k \in 1..L \/ k = L + 1
  BY <1>7
<1>12. ASSUME NEW k \in 1..L + 1
       PROVE  Len(O(u, k)) = Len(u.path) + k - 1 /\ Len(N(u, k)) = Len(u.to) + k - 1
  <2>1. ASSUME NEW i \in 1..L
        PROVE  Len(O(u, i)) = Len(u.path) + i - 1 /\ Len(N(u, i)) = Len(u.to) + i - 1
    BY <1>2, <1>3, <1>6, <1>7 DEF ChainOK
  <2>2. /\ Len(O(u, L + 1)) = Len(o) + 1 /\ Len(N(u, L + 1)) = Len(w) + 1
        /\ Len(o) \in Nat /\ Len(w) \in Nat
    BY <1>3, <1>6, <1>9, <1>8, AppendLen
  <2>3. Len(u.path) \in Nat /\ Len(u.to) \in Nat
    BY <1>1, <1>2, RequestFields, LenProperties
  <2>4. Len(o) = Len(u.path) + L - 1 /\ Len(w) = Len(u.to) + L - 1
    BY <1>7, <1>9, <2>1
  <2>5. CASE k = L + 1
    <3> HIDE DEF L, o, w
    <3>1. L \in Nat
      BY <1>7
    <3> QED
      BY <2>2, <2>3, <2>4, <2>5, <3>1
  <2> QED
    BY <1>11, <2>1, <2>5
<1>13. ASSUME NEW k \in 2..L + 1
       PROVE  ChildOK(u, k)
  <2>1. CASE k = L + 1
    <3>1. /\ O(u, k) = Append(O(u, k - 1), n) /\ N(u, k) = Append(N(u, k - 1), n)
          /\ n \notin u.stack[k - 1].todo /\ n \in Names
      BY <1>3, <1>4, <1>6, <1>7, <1>8, <1>9, <2>1
    <3> QED
      BY <3>1 DEF ChildOK
  <2>2. CASE k # L + 1
    <3>1. k \in 2..L /\ k - 1 \in 1..L - 1 /\ k - 1 \in 1..L /\ k \in 1..L
      BY <1>7, <2>2
    <3>2. ChildOK(t, k)
      BY <1>7, <3>1 DEF ChainOK
    <3>3. /\ O(u, k) = O(t, k) /\ N(u, k) = N(t, k) /\ O(u, k - 1) = O(t, k - 1)
          /\ N(u, k - 1) = N(t, k - 1) /\ u.stack[k - 1] = t.stack[k - 1]
      BY <1>3, <1>4, <1>6, <3>1
    <3> QED
      BY <3>2, <3>3 DEF ChildOK
  <2> QED
    BY <2>1, <2>2
<1>14. ChainOK(u)
  BY <1>2, <1>12, <1>13 DEF ChainOK
<1>15. ASSUME NEW k \in 1..L
       PROVE  OpenOK(bucket, u, k)
  <2>1. Current(u, k) = O(u, k + 1)
    BY <1>2, <1>7 DEF Current
  <2>2. CASE k = L
    <3>1. OpenAt(bucket, O(u, k), N(u, k), u.stack[k].todo, Current(u, k)) /\ u.stack[k].ret = 0
      BY <1>3, <1>4, <1>6, <1>8, <1>9, <2>1, <2>2
    <3> QED
      BY <3>1 DEF OpenOK
  <2>3. CASE k # L
    <3>1. k \in 1..L - 1 /\ k + 1 \in 1..L
      BY <1>7, <2>3
    <3>2. /\ O(u, k) = O(t, k) /\ N(u, k) = N(t, k) /\ u.stack[k] = t.stack[k]
          /\ Current(u, k) = O(t, k + 1)
      BY <1>3, <1>4, <1>6, <2>1, <3>1
    <3>3. Open(bucket, t, k, O(t, k + 1))
      BY <1>7, <3>1
    <3> QED
      BY <3>2, <3>3 DEF Open, OpenOK
  <2> QED
    BY <2>2, <2>3
<1>16. StackOK(bucket, u)
  <2>1. \A k \in 1..L + 1 : k < L + 1 => k \in 1..L
    BY <1>7
  <2> QED
    BY <1>2, <1>14, <1>15, <2>1 DEF StackOK, Moving
<1>17. ThingIn(bucket, Append(o, n)) = "dir"
  <2>1. SrcOf(t, n) = Append(o, n)
    BY DEF SrcOf, O, Last
  <2> QED
    BY <1>8, <2>1, ThingNow DEF TypeOf
<1>18. Nothing(bucket, Append(w, n))
  <2>1. Append(w, n) \in Strings /\ Append(w, n) # <<>>
    <3>1. Len(w) \in Nat /\ Len(Append(w, n)) = Len(w) + 1 /\ n \in Names \union ToSet(CacheDir)
      BY <1>8, <1>9, AppendLen, PathStrings
    <3>2. Append(w, n) \in Strings
      BY <1>9, <3>1, AppendProperties DEF Strings
    <3>3. Len(<<>>) = 0
      BY EmptySeq
    <3> QED
      BY <3>1, <3>2, <3>3
  <2> QED
    BY <1>1, <1>8, <2>1, NothingThere
<1>19. StartOK(bucket, cwd', u)
  <2>1. Ready(bucket, O(u, L + 1), N(u, L + 1))
    BY <1>3, <1>6, <1>8, <1>18 DEF Ready, IsFile
  <2>2. ThingIn(bucket, O(u, L + 1)) = "dir" /\ ThingIn(bucket, N(u, L + 1)) = "none"
    BY <1>3, <1>6, <1>8, <1>17
  <2> QED
    BY <1>2, <1>10, <2>1, <2>2 DEF StartOK
<1> QED
  BY <1>2, <1>5, <1>16, <1>19 DEF MoveOK, FileOK, EndOK, Moving

\* NextEntry finds a file or enters a directory.
LEMMA MoveNext ==
    ASSUME NEW c \in Clients, Own(c), NextEntry(c)
    PROVE  MoveOK(bucket', cwd', th'[c])
<1>1. Threads /\ NamesOK(th[c]) /\ th[c].pc = "next" /\ ~Fault
  BY OwnIs DEF Own, NextEntry, At
<1>2. /\ UNCHANGED bucket
      /\ \E n \in Last(th[c].stack).todo :
            \E y \in {"reg", "dir"} :
               /\ Thing(SrcOf(th[c], n)) # "none" => y = TypeOf(Thing(SrcOf(th[c], n)))
               /\ \/ y = "dir" /\ th'[c] = Entered(th[c], n)
                  \/ y # "dir" /\ th'[c] = Found(th[c], n, y)
  BY <1>1, EntryIs
<1> QED
  BY <1>1, <1>2, MoveFound, MoveEntered

\* What is known of a rename_file of an entry.
LEMMA MovingIs ==
    ASSUME NEW c \in Clients, Own(c), th[c].pc \in Moving, Clear(th[c]), th[c].stack # <<>>
    PROVE  LET t == th[c]
               L == Len(t.stack)
           IN  /\ L \in 1..L /\ L \in Nat
               /\ OpenAt(bucket, O(t, L), N(t, L), t.stack[L].todo, OldOf(t, t.file))
               /\ t.stack[L].ret = 0
               /\ \E n \in Names : /\ n \notin t.stack[L].todo
                                   /\ OldOf(t, t.file) = Append(O(t, L), n)
                                   /\ NewOf(t, t.file) = Append(N(t, L), n)
               /\ IsFile(ThingIn(bucket, OldOf(t, t.file)))
               /\ t.pc = "copy" => ThingIn(bucket, NewOf(t, t.file)) = "none"
<1> DEFINE t == th[c]
           L == Len(t.stack)
<1>1. StackOK(bucket, t) /\ FileOK(bucket, t) /\ t \in Request
  BY WalkIs, OwnIs
<1>2. L \in 1..L /\ L \in Nat
  <2>1. t.stack \in Seq(FrameType)
    BY <1>1, RequestFields
  <2>2. L \in Nat \ {0}
    BY <2>1, EmptySeq, LenProperties
  <2> QED
    BY <2>2
<1>3. OpenOK(bucket, t, L)
  BY <1>1, <1>2 DEF StackOK
<1>4. Current(t, L) = OldOf(t, t.file)
  BY <1>2 DEF Current
<1>5. \E n \in Names \ t.stack[L].todo :
         /\ OldOf(t, t.file) = Append(O(t, L), n)
         /\ NewOf(t, t.file) = Append(N(t, L), n)
         /\ IsFile(ThingIn(bucket, OldOf(t, t.file)))
         /\ t.pc = "copy" => ThingIn(bucket, NewOf(t, t.file)) = "none"
  BY <1>1 DEF FileOK
<1> QED
  BY <1>2, <1>3, <1>4, <1>5 DEF OpenOK

\* rename_file has copied.
LEMMA MoveCopies ==
    ASSUME NEW c \in Clients, Own(c), th[c].pc = "copy", Copies(c)
    PROVE  MoveOK(bucket', cwd', th'[c])
<1> DEFINE t == th[c]
           u == th'[c]
           L == Len(t.stack)
           src == OldOf(t, t.file)
           dst == NewOf(t, t.file)
<1>1. /\ Threads /\ RequestOK(t) /\ t \in Request /\ NamesOK(t) /\ Clear(u)
      /\ bucket \in [Paths -> Things] /\ t.stack \in Seq(FrameType)
  BY OwnIs, RequestFields DEF Own
<1>2. u = Gone(t, "forget") /\ bucket' = Put(dst, Thing(src))
  BY <1>1, NowIs, NamesOf DEF Copies
<1>3. /\ u.pc = "forget" /\ u.op = t.op /\ u.path = t.path /\ u.to = t.to /\ u.stack = t.stack
      /\ u.file = t.file /\ u.tmp = t.tmp /\ u.displaces = t.displaces
  BY <1>1, <1>2, GoneTo
<1>4. Clear(t)
  BY <1>1, <1>3 DEF Clear, Room
<1>5. CASE t.stack = <<>>
  BY <1>3, <1>5, MoveSimple DEF Walking, EndOK
<1>6. CASE t.stack # <<>>
  <2>1. /\ Room(t) /\ t.op = "rename" /\ t.pc # "idle" /\ ChainOK(t)
        /\ \A k \in 1..L - 1 : Open(bucket, t, k, O(t, k + 1))
    BY <1>4, WalkIs DEF Moving
  <2>2. /\ L \in 1..L /\ L \in Nat /\ t.stack[L].ret = 0
        /\ OpenAt(bucket, O(t, L), N(t, L), t.stack[L].todo, src)
        /\ IsFile(ThingIn(bucket, src))
    BY <1>4, <1>6, MovingIs DEF Moving
  <2>3. PICK n \in Names : /\ n \notin t.stack[L].todo
                           /\ src = Append(O(t, L), n) /\ dst = Append(N(t, L), n)
    BY <1>4, <1>6, MovingIs DEF Moving
  <2>4. \A q : q # dst => ThingIn(bucket', q) = ThingIn(bucket, q)
    BY <1>1, <1>2, PutThing
  <2>5. \A f : OldOf(u, f) = OldOf(t, f) /\ NewOf(u, f) = NewOf(t, f)
    BY <1>3 DEF OldOf, NewOf
  <2>6. \A k : O(u, k) = O(t, k) /\ N(u, k) = N(t, k)
    BY <1>3, <2>5 DEF O, N
  <2>7. ASSUME NEW k \in 1..L, NEW cur, OpenAt(bucket, O(t, k), N(t, k), t.stack[k].todo, cur)
        PROVE  OpenAt(bucket', O(t, k), N(t, k), t.stack[k].todo, cur)
    <3>1. \A q : q # Append(N(t, L), n) => ThingIn(bucket', q) = ThingIn(bucket, q)
      BY <2>3, <2>4
    <3> QED
      BY <1>1, <2>1, <2>2, <2>3, <2>7, <3>1, MadeBelow
  <2>8. ASSUME NEW k \in 1..L - 1
        PROVE  Open(bucket', t, k, O(t, k + 1))
    <3>1. Open(bucket, t, k, O(t, k + 1)) /\ k \in 1..L
      BY <2>1, <2>2
    <3> QED
      BY <2>7, <3>1 DEF Open
  <2>9. OpenOK(bucket', u, L)
    <3>1. OpenAt(bucket', O(t, L), N(t, L), t.stack[L].todo, src)
      BY <2>2, <2>7
    <3>2. Current(u, L) = src
      BY <1>3, <2>2, <2>5 DEF Current, Moving
    <3> QED
      BY <1>3, <2>2, <2>6, <3>1, <3>2 DEF OpenOK
  <2>10. StackOK(bucket', u)
    BY <1>3, <2>1, <2>2, <2>6, <2>8, <2>9, LowerStack
  <2>11. src # dst
    <3>1. /\ Append(O(t, L), n) \in Strings /\ IsPrefix(t.path, Append(O(t, L), n))
          /\ IsPrefix(t.to, Append(N(t, L), n))
      BY <1>1, <2>1, <2>2, CallNames
    <3> QED
      BY <1>1, <2>1, <2>3, <3>1, TwoTrees
  <2>12. FileOK(bucket', u)
    <3>1. IsFile(ThingIn(bucket', src))
      BY <2>2, <2>4, <2>11
    <3>2. /\ OldOf(u, u.file) = src /\ NewOf(u, u.file) = dst
          /\ O(u, L) = O(t, L) /\ N(u, L) = N(t, L) /\ u.stack[L].todo = t.stack[L].todo
          /\ Len(u.stack) = L
      BY <1>3, <2>5, <2>6
    <3> HIDE DEF L, src, dst
    <3> QED
      BY <1>3, <2>3, <3>1, <3>2 DEF FileOK
  <2> QED
    BY <1>3, <2>10, <2>12 DEF MoveOK, StartOK, EndOK
<1> QED
  BY <1>5, <1>6

\* rename_file copies: the copy cannot fail but for a fault.
LEMMA MoveCopy ==
    ASSUME NEW c \in Clients, Own(c), Copy(c)
    PROVE  MoveOK(bucket', cwd', th'[c])
<1> DEFINE t == th[c]
           u == th'[c]
           L == Len(t.stack)
           src == OldOf(t, t.file)
           dst == NewOf(t, t.file)
           able == IsFile(Thing(src)) /\ HasParent(dst) /\ Thing(dst) # "dir"
<1>1. /\ Threads /\ RequestOK(t) /\ t \in Request /\ NamesOK(t) /\ Clear(u) /\ t.pc = "copy"
      /\ t.stack \in Seq(FrameType)
  BY OwnIs, RequestFields DEF Own, Copy, At
<1>2. CASE Back(t, u, L, -1, t.tmp) /\ ~able
  <2>1. Clear(t)
    BY <1>1, <1>2, BackClear
  <2>2. CASE t.stack = <<>>
    <3>1. L = 0
      BY <2>2, EmptySeq
    <3> QED
      BY <1>2, <3>1, LastFails
  <2>3. CASE t.stack # <<>>
    <3>1. /\ Room(t) /\ t.op = "rename" /\ t.pc # "idle"
      BY <1>1, <2>1, WalkIs DEF Moving
    <3>2. /\ L \in 1..L /\ ThingIn(bucket, N(t, L)) = "dir"
          /\ IsFile(ThingIn(bucket, src)) /\ ThingIn(bucket, dst) = "none"
      BY <1>1, <2>1, <2>3, MovingIs DEF Moving, OpenAt
    <3>3. PICK n \in Names : dst = Append(N(t, L), n)
      BY <1>1, <2>1, <2>3, MovingIs DEF Moving
    <3>4. N(t, L) \in Strings
      BY <1>1, <3>1, <3>2, CallNames
    <3>5. Front(dst) = N(t, L)
      <4>1. n \in Names \union ToSet(CacheDir)
        BY PathStrings
      <4> QED
        BY <3>3, <3>4, <4>1, FrontAppend DEF Strings
    <3>6. HasParent(dst)
      BY <3>2, <3>5, ThingNow DEF HasParent
    <3> QED
      BY <1>2, <3>2, <3>6, ThingNow
  <2> QED
    BY <2>2, <2>3
<1> QED
  <2>1. ~LostPut(dst, Thing(src))
    BY DEF Own, LostPut
  <2>2. Copies(c) \/ (Back(t, u, L, -1, t.tmp) /\ ~able)
    BY <1>1, <2>1, CopyBack
  <2> QED
    BY <1>1, <1>2, <2>2, MoveCopies

\* The old name is gone, and nothing else has changed.
LEMMA EndsWell ==
    ASSUME NEW t, RequestOK(t), t.op = "rename", t.pc # "idle",
           NEW b \in [Paths -> Things], NEW b2 \in [Paths -> Things], TreeIn(b2),
           \A q : q # t.path => ThingIn(b2, q) = ThingIn(b, q),
           ThingIn(b2, t.path) = "none", ThingIn(b, t.to) # "none",
           NEW u, u.path = t.path, u.to = t.to
    PROVE  EndOK(b2, u)
<1>1. t.path \in Paths /\ t.to \in Paths /\ ~IsPrefix(t.path, t.to)
  BY RunningRequest
<1>2. t.path # t.to
  BY <1>1, PathStrings, PrefixRefl DEF Strings
<1>3. b2[t.path] = "none" /\ b2[t.to] # "none"
  BY <1>1, <1>2 DEF ThingIn
<1>4. \A p \in Paths : IsPrefix(t.path, p) => b2[p] = "none"
  BY <1>1, <1>3, LeafIsBare DEF Bare, IsStrictPrefix
<1> QED
  BY <1>3, <1>4 DEF EndOK

\* rename_file has unlinked the old name.
LEMMA MoveForget ==
    ASSUME NEW c \in Clients, Own(c), Forget(c)
    PROVE  MoveOK(bucket', cwd', th'[c])
<1> DEFINE t == th[c]
           u == th'[c]
           L == Len(t.stack)
           old == OldOf(t, t.file)
<1>1. /\ Threads /\ RequestOK(t) /\ t \in Request /\ NamesOK(t) /\ Clear(u) /\ t.pc = "forget"
      /\ t.stack \in Seq(FrameType) /\ bucket \in [Paths -> Things] /\ CopiedOK(bucket, t)
      /\ bucket' \in [Paths -> Things] /\ TreeIn(bucket')
  BY OwnIs, RequestFields DEF Own, Forget, At
<1>2. \/ /\ IsFile(Thing(old)) /\ bucket' = Put(old, "none")
         /\ Back(t, u, L, 0, ForgetTmp(c))
      \/ ~IsFile(Thing(old)) /\ Back(t, u, L, 1, t.tmp)
  BY <1>1, ForgetIs DEF Own, LostPut
<1>3. Clear(t) /\ Room(u)
  BY <1>1, <1>2, BackClear
<1>4. Room(t) /\ t.op = "rename" /\ t.pc # "idle" /\ ChainOK(t) /\ L \in Nat
      /\ \A k \in 1..L - 1 : Open(bucket, t, k, O(t, k + 1))
  BY <1>1, <1>3, WalkIs DEF Moving
<1>5. /\ IsFile(ThingIn(bucket, old)) /\ ThingIn(bucket, NewOf(t, t.file)) = ThingIn(bucket, old)
  BY <1>1, <1>4 DEF CopiedOK
<1>6. bucket' = Put(old, "none") /\ Back(t, u, L, 0, ForgetTmp(c))
  BY <1>2, <1>5, ThingNow
<1>7. /\ \A q : q # old => ThingIn(bucket', q) = ThingIn(bucket, q)
      /\ ThingIn(bucket', old) = "none"
  BY <1>1, <1>6, PutThing
<1>8. CASE t.stack = <<>>
  <2>1. old = t.path /\ NewOf(t, t.file) = t.to
    BY <1>1, <1>8, FileNames DEF Moving
  <2>2. L = 0
    BY <1>8, EmptySeq
  <2>3. u.path = t.path /\ u.to = t.to
    BY <1>6 DEF Back
  <2>4. ThingIn(bucket, t.to) # "none" /\ ThingIn(bucket', t.path) = "none"
    BY <1>5, <1>7, <2>1 DEF IsFile
  <2>5. \A q : q # t.path => ThingIn(bucket', q) = ThingIn(bucket, q)
    BY <1>7, <2>1
  <2>6. EndOK(bucket', u)
    BY <1>1, <1>4, <2>3, <2>4, <2>5, EndsWell
  <2>7. u.pc = "done" /\ u.stack = <<>>
    BY <1>6, <2>2 DEF Back
  <2> QED
    BY <2>6, <2>7, MoveSimple DEF Walking
<1>9. CASE t.stack # <<>>
  <2>1. /\ L \in 1..L /\ L \in Nat
        /\ OpenAt(bucket, O(t, L), N(t, L), t.stack[L].todo, old)
    BY <1>1, <1>3, <1>9, MovingIs DEF Moving
  <2>2. PICK n \in Names : n \notin t.stack[L].todo /\ old = Append(O(t, L), n)
    BY <1>1, <1>3, <1>9, MovingIs DEF Moving
  <2>3. ASSUME NEW k \in 1..L, NEW cur, OpenAt(bucket, O(t, k), N(t, k), t.stack[k].todo, cur),
               NEW cur2, cur2 = cur \/ cur = old
        PROVE  OpenAt(bucket', O(t, k), N(t, k), t.stack[k].todo, cur2)
    <3>1. /\ \A q : q # Append(O(t, L), n) => ThingIn(bucket', q) = ThingIn(bucket, q)
          /\ ThingIn(bucket', Append(O(t, L), n)) = "none"
          /\ cur2 = cur \/ cur = Append(O(t, L), n)
      BY <1>7, <2>2, <2>3
    <3> QED
      BY <1>1, <1>4, <2>1, <2>2, <2>3, <3>1, RemovedBelow
  <2>4. ASSUME NEW k \in 1..L - 1
        PROVE  Open(bucket', t, k, O(t, k + 1))
    <3>1. Open(bucket, t, k, O(t, k + 1)) /\ k \in 1..L
      BY <1>4
    <3> QED
      BY <2>3, <3>1 DEF Open
  <2>5. OpenAt(bucket', O(t, L), N(t, L), t.stack[L].todo, <<>>)
    BY <2>1, <2>3
  <2>6. L \in 0..L /\ L # 0
    BY <2>1
  <2> QED
    BY <1>1, <1>3, <1>4, <1>6, <2>4, <2>5, <2>6, BackMove
<1> QED
  BY <1>8, <1>9

\* rename_directory has moved all entries and removes the old directory.
LEMMA MoveLeaveDir ==
    ASSUME NEW c \in Clients, Own(c), LeaveDir(c)
    PROVE  MoveOK(bucket', cwd', th'[c])
<1> DEFINE t == th[c]
           u == th'[c]
           L == Len(t.stack)
           o == O(t, L)
           s == Append(t.tmp, CacheDir \o o)
<1>1. /\ Threads /\ RequestOK(t) /\ t \in Request /\ NamesOK(t) /\ Clear(u) /\ t.pc = "next"
      /\ bucket \in [Paths -> Things] /\ bucket' \in [Paths -> Things] /\ TreeIn(bucket')
  BY OwnIs DEF Own, LeaveDir, At
<1>2. /\ t.stack[L].todo = {}
      /\ \/ t.stack[L].ret = -1 /\ Back(t, u, L - 1, -1, t.tmp)
         \/ bucket' = Put(o, "none") /\ Back(t, u, L - 1, 0, s)
         \/ ~Removable(o) /\ Back(t, u, L - 1, 0, t.tmp)
  BY <1>1, LeaveDirIs DEF Own, LostPut
<1>3. Clear(t) /\ Room(u)
  BY <1>1, <1>2, BackClear
<1>4. Room(t) /\ t.op = "rename" /\ t.pc # "idle" /\ ChainOK(t) /\ L \in Nat /\ L \in 1..L
      /\ \A k \in 1..L - 1 : Open(bucket, t, k, O(t, k + 1))
  BY <1>1, <1>3, WalkIs DEF Walking
<1>5. /\ t.stack[L].ret = 0 /\ o \in Strings
      /\ OpenAt(bucket, o, N(t, L), {}, <<>>)
  BY <1>1, <1>2, <1>3, ReadingIs
<1>6. Removable(o)
  <2>1. \A n \in Names : Append(o, n) # <<>>
    <3>1. \A n \in Names : n \in Names \union ToSet(CacheDir)
      OBVIOUS
    <3> QED
      BY <1>5, <3>1, AppendProperties DEF Strings
  <2> HIDE DEF o
  <2> QED
    BY <1>5, <2>1, ThingNow DEF Removable, Listing, OpenAt
<1>7. bucket' = Put(o, "none") /\ Back(t, u, L - 1, 0, s)
  BY <1>2, <1>5, <1>6
<1> HIDE DEF s
<1>8. /\ \A q : q # o => ThingIn(bucket', q) = ThingIn(bucket, q)
      /\ ThingIn(bucket', o) = "none"
  BY <1>1, <1>7, PutThing
<1>9. CASE L = 1
  <2>1. o = t.path /\ N(t, L) = t.to
    BY <1>1, <1>4, <1>9, FirstNames
  <2>2. ThingIn(bucket, t.to) # "none" /\ ThingIn(bucket', t.path) = "none"
    BY <1>5, <1>8, <2>1 DEF OpenAt
  <2>3. u.path = t.path /\ u.to = t.to
    BY <1>7 DEF Back
  <2>4. \A q : q # t.path => ThingIn(bucket', q) = ThingIn(bucket, q)
    BY <1>8, <2>1
  <2>5. EndOK(bucket', u)
    BY <1>1, <1>4, <2>2, <2>3, <2>4, EndsWell
  <2>6. u.pc = "done" /\ u.stack = <<>>
    BY <1>7, <1>9 DEF Back
  <2> QED
    BY <2>5, <2>6, MoveSimple DEF Walking
<1>10. CASE L # 1
  <2> DEFINE m == L - 1
  <2>1. /\ L > 1 /\ L \in 2..L /\ m \in 1..m /\ m \in 1..L
        /\ m \in 0..L /\ m # 0 /\ m + 1 = L
    BY <1>4, <1>10, Deep
  <2>2. PICK n \in Names : o = Append(O(t, m), n) /\ n \notin t.stack[m].todo
    BY <1>4, <2>1 DEF ChainOK, ChildOK
  <2>3. ASSUME NEW k \in 1..m, NEW cur, OpenAt(bucket, O(t, k), N(t, k), t.stack[k].todo, cur),
               NEW cur2, cur2 = cur \/ cur = o
        PROVE  OpenAt(bucket', O(t, k), N(t, k), t.stack[k].todo, cur2)
    <3>1. /\ \A q : q # Append(O(t, m), n) => ThingIn(bucket', q) = ThingIn(bucket, q)
          /\ ThingIn(bucket', Append(O(t, m), n)) = "none"
          /\ cur2 = cur \/ cur = Append(O(t, m), n)
      BY <1>8, <2>2, <2>3
    <3> HIDE DEF m
    <3> QED
      BY <1>1, <1>4, <2>1, <2>2, <2>3, <3>1, RemovedBelow
  <2>4. ASSUME NEW k \in 1..m - 1
        PROVE  Open(bucket', t, k, O(t, k + 1))
    <3>1. k \in 1..m /\ k \in 1..L - 1
      BY <1>4
    <3>2. Open(bucket, t, k, O(t, k + 1))
      BY <1>4, <3>1
    <3> QED
      BY <2>3, <3>1, <3>2 DEF Open
  <2>5. OpenAt(bucket', O(t, m), N(t, m), t.stack[m].todo, <<>>)
    <3>1. Open(bucket, t, m, O(t, L))
      BY <1>4, <2>1
    <3>2. OpenAt(bucket, O(t, m), N(t, m), t.stack[m].todo, o)
      BY <3>1 DEF Open
    <3> QED
      BY <2>1, <2>3, <3>2
  <2>7. Back(t, u, m, 0, s)
    BY <1>7
  <2> HIDE DEF m
  <2> QED
    BY <1>1, <1>3, <1>4, <2>1, <2>4, <2>5, <2>7, BackMove
<1> QED
  BY <1>9, <1>10

\* Every step of the rename leaves what it has moved moved, and the rest to be read.
LEMMA OwnMove ==
    ASSUME NEW c \in Clients, Own(c), Begin(c) \/ Serve(c)
    PROVE  MoveOK(bucket', cwd', th'[c])
BY MoveRest, MoveRename, MoveEnter, MoveChdir, MoveOpendir, MoveNext, MoveCopy, MoveForget,
   MoveLeaveDir DEF Serve

\* The invariant of the move is inductive.
LEMMA MInvStays ==
    ASSUME CacheApart, ListsAlone
    PROVE  MInv /\ [Next]_vars => MInv'
<1> SUFFICES ASSUME MInv, [Next]_vars PROVE MInv'
  OBVIOUS
<1>1. LInv /\ SInv /\ LInv'
  BY LInvStays DEF MInv, LInv
<1>2. CASE Next
  <2>1. PICK c \in Clients : Begin(c) \/ Serve(c)
    BY <1>2 DEF Next
  <2>2. ASSUME faults' = 0
        PROVE  /\ TreeIn(bucket')
               /\ \A d \in Clients : Clear(th'[d]) => MoveOK(bucket', cwd', th'[d])
    <3>1. faults = 0 /\ ~Fault
      BY <1>1, <2>1, <2>2, NoFaultBefore
    <3>2. TreeIn(bucket) /\ \A d \in Clients : Clear(th[d]) => MoveOK(bucket, cwd, th[d])
      BY <3>1 DEF MInv
    <3>3. TreeIn(bucket')
      BY <1>1, <2>1, <3>1, <3>2, TreeStays
    <3>4. ASSUME NEW d \in Clients, Clear(th'[d])
          PROVE  MoveOK(bucket', cwd', th'[d])
      <4>1. CASE d = c
        <5>1. Own(c)
          BY <1>1, <3>1, <3>2, <3>3, <3>4, <4>1 DEF Own
        <5> QED
          BY <2>1, <4>1, <5>1, OwnMove
      <4>2. CASE d # c
        <5>1. th'[d] = th[d]
          <6>1. Threads /\ Becomes(c)
            BY <1>1, <2>1, SInvIs, ServeDoes DEF Does
          <6> QED
            BY <4>2, <6>1, Others
        <5>2. Clear(th[d]) /\ MoveOK(bucket, cwd, th[d])
          BY <3>2, <3>4, <5>1
        <5>3. MoveOK(bucket', cwd', th[d])
          BY <1>1, <2>1, <4>2, <5>2, OthersMove
        <5> QED
          BY <5>1, <5>3
      <4> QED
        BY <4>1, <4>2
    <3> QED
      BY <3>3, <3>4
  <2> QED
    BY <1>1, <2>2 DEF MInv
<1>3. CASE UNCHANGED vars
  <2>1. bucket' = bucket /\ cwd' = cwd /\ th' = th /\ faults' = faults
    BY <1>3 DEF vars
  <2> QED
    BY <1>1, <2>1 DEF MInv
<1> QED
  BY <1>2, <1>3

\* It holds when the file system is mounted.
LEMMA MInvStarts == Init => MInv
<1> SUFFICES ASSUME Init PROVE MInv
  OBVIOUS
<1>1. LInv
  BY LInvStarts
<1>2. TreeIn(bucket)
  BY BucketsAssumption DEF Init, TreeIn
<1>3. \A c \in Clients : ~Clear(th[c])
  BY DEF Init, Idle, Clear
<1> QED
  BY <1>1, <1>2, <1>3 DEF MInv

\* It says of a rename that is answered what RenameMoves says.
LEMMA MInvMoves == MInv => RenameMoves
<1> SUFFICES ASSUME MInv, NEW c \in Clients,
                    faults = 0, At(c, "done"), th[c].op = "rename", th[c].ret = 0,
                    ~th[c].displaces, Fits(c)
             PROVE  /\ \A p \in Paths : IsPrefix(th[c].path, p) => bucket[p] = "none"
                    /\ bucket[th[c].to] # "none"
  BY DEF RenameMoves
<1>1. Clear(th[c])
  BY DEF Clear, Fits, Room
<1>2. EndOK(bucket, th[c])
  BY <1>1 DEF MInv, MoveOK
<1> QED
  BY <1>2 DEF EndOK, At

\* When no remote call has failed, a dfs_rename that answers 0 has moved all there
\* was: nothing is left at the old name or below, and the new one is there.  This
\* needs that no directory is read or renamed while another one is, because they
\* share the current directory of the context (ListsAlone), and it is said of a
\* rename that had enough buffers for its names and displaced nothing.
THEOREM RenameHasMoved ==
    ASSUME CacheApart, ListsAlone
    PROVE  Spec => []RenameMoves
<1>1. Init => MInv
  BY MInvStarts
<1>2. MInv /\ [Next]_vars => MInv'
  BY MInvStays
<1>3. MInv => RenameMoves
  BY MInvMoves
<1> QED
  BY <1>1, <1>2, <1>3, PTL DEF Spec

=============================================================================
