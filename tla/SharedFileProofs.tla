-------------------------- MODULE SharedFileProofs --------------------------
(* What the promise of SharedFile implies, for any clients and contents. *)
EXTENDS SharedFile, TLAPS

\* Saved is inductive: a step that leaves nobody writing and nothing unsaved
\* has made the two contents equal, or has found them so.  (dfs_release, the
\* collector and a crash, as SharedFile promises them.)
THEOREM SavedWhenClosed == Spec => []Saved
<1>1. Init => Saved
  BY DEF Init, Saved
<1>2. Saved /\ [Next]_vars => Saved'
  <2> SUFFICES ASSUME Saved, [Next]_vars PROVE Saved'
    OBVIOUS
  <2>1. ASSUME NEW c \in Clients, Create(c) PROVE Saved'
    BY <2>1 DEF Saved, Create
  <2>2. ASSUME NEW c \in Clients, OpenToWrite(c) PROVE Saved'
    BY <2>2 DEF Saved, OpenToWrite
  <2>3. ASSUME NEW c \in Clients, Close(c) PROVE Saved'
    BY <2>3 DEF Saved, Close
  <2>4. CASE Write
    BY <2>4 DEF Saved, Write
  <2>5. CASE Drop
    BY <2>5 DEF Saved, Drop
  <2>6. CASE Crash
    BY <2>6 DEF Saved, Crash
  <2>7. CASE UNCHANGED vars
    BY <2>7 DEF Saved, vars
  <2> QED
    BY <2>1, <2>2, <2>3, <2>4, <2>5, <2>6, <2>7 DEF Next
<1> QED
  BY <1>1, <1>2, PTL DEF Spec

\* A client that reads sees the content change only while somebody has the
\* file open for writing, when a creation failed, or because it falls back to
\* what is saved (Drop and Crash: the collector, a mount, a crash).
THEOREM ContentIsStable == Spec => OnlyWritersChange
<1>1. [Next]_vars => [content' # content => \/ writers # {} \/ writers' # {}
                                            \/ content' = stored
                                            \/ unsaved']_vars
  BY DEF Next, vars, Create, OpenToWrite, Write, Close, Drop, Crash
<1> QED
  BY <1>1, PTL DEF Spec, OnlyWritersChange
=============================================================================
