---------------------------- MODULE MCNamespace -----------------------------
(* Small trees and the requests that are made in them. *)
EXTENDS Namespace

\* A bucket with the things of f at their paths and nothing elsewhere.
Holding(f) == [p \in Paths |-> IF p \in DOMAIN f THEN f[p] ELSE "none"]

Ask(op, p) == [op |-> op, path |-> p, to |-> p]
Move(p, q) == [op |-> "rename", path |-> p, to |-> q]

Cache == <<"cache">>

\* Two places for a directory with a file and a subdirectory, and a directory
\* apart that has a file of the same name or none.
Trees == {<<"d">>, <<"d", "s">>, <<"d", "s", "x">>, <<"d", "x">>,
          <<"n">>, <<"n", "s">>, <<"n", "s", "x">>, <<"n", "x">>,
          <<"e">>, <<"e", "x">>}
TreeNames == {"d", "e", "n", "s", "x"}
Full == (<<"d">> :> "dir") @@ (<<"d", "s">> :> "dir") @@ (<<"d", "s", "x">> :> "f")
        @@ (<<"d", "x">> :> "g") @@ (<<"e">> :> "dir")
TreeBuckets == {Holding(Full), Holding(Full @@ (<<"e", "x">> :> "h")),
                Holding(Full @@ (<<"n">> :> "dir") @@ (<<"n", "x">> :> "h"))}

\* The directory is renamed there and back; the other one is listed.
Renames == {Move(<<"d">>, <<"n">>), Move(<<"n">>, <<"d">>), Ask("readdir", <<"e">>)}

\* A directory with a file and a subdirectory that has a file, the place where
\* it can be renamed to, with or without something that is in the way, and every
\* kind of request.
Twins == {<<t>> \o q : t \in {"d", "e"}, q \in {<<>>, <<"s">>, <<"s", "x">>, <<"x">>}}
TwinNames == {"d", "e", "s", "x"}
Twin == (<<"d">> :> "dir") @@ (<<"d", "s">> :> "dir") @@ (<<"d", "s", "x">> :> "f")
        @@ (<<"d", "x">> :> "g")
TwinBuckets == {Holding(Twin), Holding(Twin @@ (<<"e">> :> "dir") @@ (<<"e", "s">> :> "f"))}
AllAsks == {Move(<<"d">>, <<"e">>), Move(<<"d", "x">>, <<"d", "s", "x">>),
            Ask("mkdir", <<"e">>), Ask("rmdir", <<"e">>), Ask("rmdir", <<"d">>),
            Ask("unlink", <<"d", "s", "x">>), Ask("mknod", <<"d", "x">>),
            Ask("symlink", <<"d", "x">>), Ask("stat", <<"d", "x">>), Ask("readdir", <<"d">>)}
=============================================================================
