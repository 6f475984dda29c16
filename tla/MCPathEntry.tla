---------------------------- MODULE MCPathEntry -----------------------------
(* Instances of PathEntry for TLC. *)
EXTENDS PathEntry, TLC

CONSTANTS p1, p2, c1, c2, k1, k2, k3

OnePath    == {p1}
TwoPaths   == {p1, p2}
OneClient  == {c1}
TwoClients == {c1, c2}
TwoCells   == {k1, k2}
ThreeCells == {k1, k2, k3}

\* The paths that match the exclusion pattern.
None == {}
P2   == {p2}

\* What the bucket holds at mount time: the first file, or maybe nothing.
HasP1     == {{p1}}
EmptyOrP1 == {{}, {p1}}

NoUnlink      == {"read", "write", "append", "stat"}
ReadOrWrite   == {"read", "write"}
NoAppend      == {"read", "write", "stat", "unlink"}
ReadOnly      == {"read"}

Interchangeable == Permutations(Clients) \union Permutations(Cells)
=============================================================================
