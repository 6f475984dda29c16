----------------------------- MODULE RemoteCall -----------------------------
(***************************************************************************)
(* What a caller may rely on when one of the retrying wrappers of          *)
(* timeout.c returns, with no mention of tries or delays: the request was  *)
(* served zero, one or more times, and the status is that of its last      *)
(* attempt.  Other threads and other clients of the bucket change the      *)
(* store at any moment.                                                    *)
(***************************************************************************)
EXTENDS CloudStore

VARIABLES store,    \* the objects that exist
          request,  \* the request of the current or last call
          rc,       \* the status of its last attempt
          busy      \* the call has not returned

vars == <<store, request, rc, busy>>

Init == /\ store \in SUBSET Objects
        /\ request \in Requests
        /\ rc = "success"
        /\ busy = FALSE

\* A thread calls the wrapper.
Call == /\ ~busy
        /\ busy' = TRUE
        /\ request' \in Requests
        /\ UNCHANGED <<store, rc>>

\* The request is sent once more; the call may end with its answer.
Serve == /\ busy
         /\ \E r \in Replies(request, store) :
               /\ store' = r.store
               /\ rc' = r.rc
         /\ busy' \in BOOLEAN
         /\ UNCHANGED request

\* Somebody else creates or removes objects.
Elsewhere == /\ store' \in SUBSET Objects
             /\ UNCHANGED <<request, rc, busy>>

Next == Call \/ Serve \/ Elsewhere

Spec == Init /\ [][Next]_vars
=============================================================================
