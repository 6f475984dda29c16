------------------------------ MODULE Timeout -------------------------------
(***************************************************************************)
(* The wrappers of timeout.c: a request to the remote storage is repeated, *)
(* with a delay that doubles, until its status is one the wrapper takes    *)
(* for an answer or max_retry repetitions are spent.  All wrappers have    *)
(* one shape and differ in the statuses they take for an answer; tries,    *)
(* delay and rc are their locals, so one call at a time stands for any     *)
(* number of threads, whose effect on the store is the action Elsewhere.   *)
(***************************************************************************)
EXTENDS CloudStore, Integers

CONSTANT MaxRetry       \* conf->max_retry

ASSUME MaxRetryAssumption == MaxRetry \in Nat

VARIABLES store,    \* the objects that exist remotely
          request,  \* the arguments of the call
          rc,       \* the local rc: status of the last attempt
          tries,    \* the local tries
          delay,    \* the local delay, in seconds
          waited,   \* history: seconds slept in this call
          pc        \* where the calling thread is

vars == <<store, request, rc, tries, delay, waited, pc>>

\* Mutant of Final: one list of statuses for every wrapper.
FinalForAll(op) == {"success", "enoent"}

\* The statuses after which the wrapper returns at once.
Final(op) ==
    CASE op = "getattr" -> {"success", "eisdir", "enoent"}
      [] op = "setattr" -> {"success", "eisdir"}
      [] op = "mknod"   -> {"success"}
      [] op = "chdir"   -> {"success", "einval"}
      [] OTHER          -> {"success", "enoent"}

\* Mutants of Retries: one retry too many, one too few.
RetriesOnceMore(op, status, n) == status \notin Final(op) /\ n <= MaxRetry
RetriesOnceLess(op, status, n) == status \notin Final(op) /\ n + 1 < MaxRetry

\* if (final(rc)) return; if (tries < conf->max_retry) retry
Retries(op, status, n) == status \notin Final(op) /\ n < MaxRetry

-----------------------------------------------------------------------------
Init == /\ store \in SUBSET Objects
        /\ request \in Requests
        /\ rc = "success"
        /\ tries = 0
        /\ delay = 1
        /\ waited = 0
        /\ pc = "idle"

\* dfs_*_timeout is entered: tries = 0, delay = 1.
Begin == /\ pc = "idle"
         /\ request' \in Requests
         /\ tries' = 0
         /\ delay' = 1
         /\ waited' = 0
         /\ pc' = "send"
         /\ UNCHANGED <<store, rc>>

\* Mutant of Attempt: the status of a repeated request is dropped.
AttemptKeepsFirst ==
    /\ pc = "send"
    /\ \E r \in Replies(request, store) :
          /\ store' = r.store
          /\ rc' = IF tries = 0 THEN r.rc ELSE rc
          /\ pc' = IF Retries(request.op, r.rc, tries) THEN "sleep" ELSE "idle"
    /\ UNCHANGED <<request, tries, delay, waited>>

\* retry: rc = dpl_*(...), then the test that returns or goes to ERR_TIMEOUT.
Attempt == /\ pc = "send"
           /\ \E r \in Replies(request, store) :
                 /\ store' = r.store
                 /\ rc' = r.rc
                 /\ pc' = IF Retries(request.op, r.rc, tries) THEN "sleep" ELSE "idle"
           /\ UNCHANGED <<request, tries, delay, waited>>

\* Mutants of Backoff: the delay doubles before the sleep; tries++ is missing.
BackoffDoublesFirst ==
    /\ pc = "sleep"
    /\ tries' = tries + 1
    /\ waited' = waited + delay * 2
    /\ delay' = delay * 2
    /\ pc' = "send"
    /\ UNCHANGED <<store, request, rc>>

BackoffForgetsTry ==
    /\ pc = "sleep"
    /\ UNCHANGED <<tries, waited, delay, store, request, rc>>
    /\ pc' = "send"

\* ERR_TIMEOUT: tries++, sleep(delay), delay *= 2, goto retry.
Backoff == /\ pc = "sleep"
           /\ tries' = tries + 1
           /\ waited' = waited + delay
           /\ delay' = delay * 2
           /\ pc' = "send"
           /\ UNCHANGED <<store, request, rc>>

\* Other threads, and other clients of the bucket.
Elsewhere == /\ store' \in SUBSET Objects
             /\ UNCHANGED <<request, rc, tries, delay, waited, pc>>

Next == Begin \/ Attempt \/ Backoff \/ Elsewhere

\* The thread that made the call keeps running: a request is answered or
\* fails, and sleep() returns.
Fairness == WF_vars(Attempt) /\ WF_vars(Backoff)

Spec == Init /\ [][Next]_vars
FairSpec == Spec /\ Fairness

-----------------------------------------------------------------------------
\* The type of every variable.
TypeOK == /\ store \in SUBSET Objects
          /\ request \in Requests
          /\ rc \in Status
          /\ tries \in 0..MaxRetry
          /\ delay \in Nat
          /\ waited \in Nat
          /\ pc \in {"idle", "send", "sleep"}

\* The seconds slept by ERR_TIMEOUT are those of the retries made, and no more
\* than max_retry of them are: what a caller waits is a function of the tries.
BoundedBackoff == waited = delay - 1 /\ tries <= MaxRetry

\* The back-off of ERR_TIMEOUT is exponential: n retries cost 2^n - 1 seconds,
\* and a call blocks its file system operation for 2^max_retry - 1 at most.
BackoffSchedule == BoundedBackoff /\ delay = 2 ^ tries

\* A wrapper never gives up early: it returns a status that is not final only
\* when every retry was spent.
GivesUpLate == [][pc = "send" /\ pc' = "idle" /\ rc' \notin Final(request.op)
                     => tries = MaxRetry]_vars

\* The list of final statuses of each wrapper holds every answer the storage
\* can give to its request (Replies of CloudStore): what is repeated is a
\* request of which the wrapper knows nothing, never one that was answered.
\* dfs_setattr_timeout alone repeats an answer, ENOENT (timeout.c:66).
OnlyLostRepeated == pc = "sleep" /\ request.op # "setattr" => rc = "failure"

\* The abstract call, with a wrapper that has not returned seen as busy.
RC == INSTANCE RemoteCall WITH busy <- pc # "idle"

\* Every behaviour of a wrapper of timeout.c is one of the abstract call: the
\* status it returns is that of its last attempt, the store changed only by
\* requests that were served, and the retries are invisible to the caller.
ImplementsRemoteCall == RC!Spec

\* A call returns, whatever the storage answers.
CallReturns == pc = "send" ~> pc = "idle"
=============================================================================
