----------------------------- MODULE CloudStore -----------------------------
(***************************************************************************)
(* The remote storage behind libdroplet, as the code under src/src uses    *)
(* it.  libdroplet itself is an external library: what is kept of it is    *)
(* the set of objects that exist, the effect of each request on that set,  *)
(* and the statuses the callers tell apart.  A request may be lost before  *)
(* it is served, or its reply after: both look like "failure".             *)
(***************************************************************************)
CONSTANT Objects      \* the names an object of the bucket can have

\* The statuses dplfs distinguishes; every other one is "failure".
Status == {"success", "enoent", "eisdir", "einval", "failure"}

\* The requests that go through a retrying wrapper (timeout.h).
Ops == {"getattr", "setattr", "mknod", "mkdir", "unlink", "rmdir", "fcopy",
        "chdir", "opendir", "namei", "head_all"}

Creating == {"mknod", "mkdir"}
Removing == {"unlink", "rmdir"}

\* A request: only fcopy has a second name.
Requests == {q \in [op : Ops, obj : Objects, to : Objects] :
                q.op # "fcopy" => q.to = q.obj}

\* The request finds what it needs.
Possible(q, st) == q.op \in Creating \/ q.obj \in st

\* The objects that exist once the request is served.
Effect(q, st) ==
    CASE q.op \in Creating                  -> st \union {q.obj}
      [] q.op \in Removing                  -> st \ {q.obj}
      [] q.op = "fcopy" /\ q.obj \in st     -> st \union {q.to}
      [] OTHER                              -> st

\* What a request about a name without an object is answered.
AbsentStatus(q) ==
    CASE q.op = "chdir"                  -> {"einval"}
      [] q.op \in {"getattr", "setattr"} -> {"enoent", "eisdir"}
      [] OTHER                           -> {"enoent"}

\* Every way one request can end: the status and the objects that exist then.
Replies(q, st) ==
    {r \in [rc : Status, store : {st, Effect(q, st)}] :
        \/ r.rc = "success" /\ Possible(q, st) /\ r.store = Effect(q, st)
        \/ r.rc \in AbsentStatus(q) /\ ~Possible(q, st) /\ r.store = st
        \/ r.rc = "failure"}
=============================================================================
