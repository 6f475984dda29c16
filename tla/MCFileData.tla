----------------------------- MODULE MCFileData -----------------------------
(* Instances of FileData for TLC. *)
EXTENDS FileData, TLC

CONSTANTS c1, c2, f1, f2, f3, i1, i2, i3

TwoClients  == {c1, c2}
ThreeFds    == {f1, f2, f3}
ThreeInodes == {i1, i2, i3}
OneValue    == {"x"}

\* Requests one at a time, nothing fails: what the jobs below start from.
Plainly == [zlib |-> FALSE, field |-> "mode", root |-> FALSE, asks |-> {"stat"},
            overlap |-> FALSE, foreign |-> FALSE, faults |-> {}]

\* Contents, without and with compression, while calls fail.
DataJobs ==
    {[Plainly EXCEPT !.asks = {"write", "append"}, !.faults = {"put"}],
     [Plainly EXCEPT !.asks = {"write", "read", "stat"}, !.faults = {"get", "mknod", "put", "stat"}],
     [Plainly EXCEPT !.asks = {"write", "read", "stat"}, !.zlib = TRUE],
     [Plainly EXCEPT !.asks = {"append", "stat"}, !.faults = {"zip", "put"}, !.zlib = TRUE]}

\* An object that another program has put.
ForeignJobs == {[Plainly EXCEPT !.asks = {"read", "append", "stat"}, !.faults = {"get"},
                                !.foreign = TRUE]}

\* chmod without truncation; chown; chmod with truncation.
ModeJobs ==
    {[Plainly EXCEPT !.asks = {"append", "stat", "chattr"}],
     [Plainly EXCEPT !.asks = {"read", "stat", "chattr"}, !.faults = {"setattr", "get"}],
     [Plainly EXCEPT !.asks = {"write", "stat", "chattr"}],
     [Plainly EXCEPT !.asks = {"stat", "chattr"}, !.foreign = TRUE]}
OwnerJobs == {[Plainly EXCEPT !.field = "owner", !.root = r, !.asks = {"stat", "chattr"},
                              !.faults = {"setattr"}] : r \in BOOLEAN}

\* Two clients whose opens overlap.
ReadersJobs == {[Plainly EXCEPT !.asks = {"read", "stat"}, !.overlap = TRUE]}

AllJobs == DataJobs \union ForeignJobs \union ModeJobs \union OwnerJobs \union ReadersJobs

\* Two clients whose closes overlap.
WritersJobs == {[Plainly EXCEPT !.asks = {"write", "stat"}, !.overlap = TRUE]}

Interchangeable == Permutations(Clients)
=============================================================================
