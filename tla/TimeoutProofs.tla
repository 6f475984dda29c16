--------------------------- MODULE TimeoutProofs ----------------------------
(***************************************************************************)
(* What holds of the wrappers of timeout.c for every set of objects and    *)
(* every value of max_retry.                                               *)
(***************************************************************************)
EXTENDS Timeout, TLAPS

\* The inductive invariant.  A thread sleeps only with a retry left, which is
\* what bounds tries; the status it sleeps on is no answer of the storage.
Inv == /\ TypeOK
       /\ delay >= 1
       /\ BoundedBackoff
       /\ pc = "sleep" => tries < MaxRetry
       /\ OnlyLostRepeated

\* Serving a request of timeout.c leaves a set of objects and a known status.
LEMMA RepliesTyped ==
    ASSUME NEW q \in Requests, NEW st \in SUBSET Objects, NEW r \in Replies(q, st)
    PROVE  r.rc \in Status /\ r.store \in SUBSET Objects
<1>1. q.obj \in Objects /\ q.to \in Objects
  BY DEF Requests
<1>2. Effect(q, st) \in SUBSET Objects
  BY <1>1 DEF Effect
<1>3. QED
  BY <1>2 DEF Replies

\* Each wrapper of timeout.c but dfs_setattr_timeout takes for an answer all
\* that the storage may answer its request.
LEMMA RepliesFinal ==
    ASSUME NEW q \in Requests, NEW st \in SUBSET Objects, NEW r \in Replies(q, st),
           q.op # "setattr", r.rc # "failure"
    PROVE  r.rc \in Final(q.op)
<1>1. CASE r.rc = "success"
  BY <1>1 DEF Final
<1>2. CASE r.rc # "success"
  <2>1. r.rc \in AbsentStatus(q) /\ ~ Possible(q, st)
    BY <1>2 DEF Replies
  <2>2. q.op \in Ops /\ q.op # "mknod"
    BY <2>1 DEF Possible, Creating, Requests
  <2>3. QED
    BY <2>1, <2>2 DEF AbsentStatus, Final, Ops
<1>3. QED
  BY <1>1, <1>2

\* The initial state of a wrapper satisfies the invariant.
LEMMA InitInv == Init => Inv
BY MaxRetryAssumption
   DEF Init, Inv, TypeOK, BoundedBackoff, OnlyLostRepeated, Status

\* Every step of a wrapper, or around it, preserves the invariant.
LEMMA NextInv == Inv /\ [Next]_vars => Inv'
<1> SUFFICES ASSUME Inv, [Next]_vars PROVE Inv'
  OBVIOUS
<1> USE MaxRetryAssumption
<1>1. CASE Begin
  BY <1>1 DEF Inv, TypeOK, BoundedBackoff, OnlyLostRepeated, Begin
<1>2. CASE Attempt
  <2>1. PICK r \in Replies(request, store) :
           /\ store' = r.store
           /\ rc' = r.rc
           /\ pc' = IF Retries(request.op, r.rc, tries) THEN "sleep" ELSE "idle"
    BY <1>2 DEF Attempt
  <2>2. r.rc \in Status /\ r.store \in SUBSET Objects
    BY RepliesTyped DEF Inv, TypeOK
  <2>3. request.op # "setattr" /\ r.rc # "failure" => ~ Retries(request.op, r.rc, tries)
    BY RepliesFinal DEF Inv, TypeOK, Retries
  <2>4. QED
    BY <1>2, <2>1, <2>2, <2>3
       DEF Inv, TypeOK, BoundedBackoff, OnlyLostRepeated, Attempt, Retries
<1>3. CASE Backoff
  BY <1>3 DEF Inv, TypeOK, BoundedBackoff, OnlyLostRepeated, Backoff
<1>4. CASE Elsewhere
  BY <1>4 DEF Inv, TypeOK, BoundedBackoff, OnlyLostRepeated, Elsewhere
<1>5. CASE UNCHANGED vars
  BY <1>5 DEF Inv, TypeOK, BoundedBackoff, OnlyLostRepeated, vars
<1>6. QED
  BY <1>1, <1>2, <1>3, <1>4, <1>5 DEF Next

\* The invariant of the wrappers of timeout.c.
THEOREM Invariance == Spec => []Inv
BY InitInv, NextInv, PTL DEF Spec

\* Type correctness of the locals of a wrapper: tries stays within max_retry.
THEOREM TypeCorrect == Spec => []TypeOK
<1>1. Inv => TypeOK
  BY DEF Inv
<1>2. QED
  BY <1>1, Invariance, PTL

\* The time a wrapper sleeps is determined by its retries (ERR_TIMEOUT).
THEOREM BackoffIsBounded == Spec => []BoundedBackoff
<1>1. Inv => BoundedBackoff
  BY DEF Inv
<1>2. QED
  BY <1>1, Invariance, PTL

\* A wrapper of timeout.c repeats only what the storage did not answer.
THEOREM LostOnly == Spec => []OnlyLostRepeated
<1>1. Inv => OnlyLostRepeated
  BY DEF Inv
<1>2. QED
  BY <1>1, Invariance, PTL

\* A wrapper returns an error that is not an answer only after max_retry
\* repetitions.
THEOREM ReturnsLate == Spec => GivesUpLate
<1>1. Inv /\ [Next]_vars =>
        [pc = "send" /\ pc' = "idle" /\ rc' \notin Final(request.op)
            => tries = MaxRetry]_vars
  <2> SUFFICES ASSUME Inv, Next,
                      pc = "send", pc' = "idle", rc' \notin Final(request.op)
               PROVE  tries = MaxRetry
    BY DEF vars
  <2>1. Attempt
    BY DEF Next, Begin, Backoff, Elsewhere
  <2>2. PICK r \in Replies(request, store) :
           /\ rc' = r.rc
           /\ pc' = IF Retries(request.op, r.rc, tries) THEN "sleep" ELSE "idle"
    BY <2>1 DEF Attempt
  <2>3. ~ Retries(request.op, rc', tries)
    BY <2>2
  <2>4. QED
    BY <2>3, MaxRetryAssumption DEF Retries, Inv, TypeOK
<1>2. QED
  BY <1>1, Invariance, PTL DEF Spec, GivesUpLate

\* The wrappers of timeout.c implement the abstract remote call: their initial
\* states are its initial states and each of their steps is one of its steps,
\* or changes nothing a caller sees.
THEOREM Refinement == Spec => ImplementsRemoteCall
<1>0. Requests = RC!Requests
  BY DEF Requests, RC!Requests, Ops, RC!Ops
<1>1. Init => RC!Init
  BY <1>0 DEF Init, RC!Init
<1>2. Inv /\ [Next]_vars => [RC!Next]_(RC!vars)
  <2> SUFFICES ASSUME Inv, [Next]_vars PROVE [RC!Next]_(RC!vars)
    OBVIOUS
  <2>1. CASE Begin
    BY <1>0, <2>1 DEF Begin, RC!Next, RC!Call
  <2>2. CASE Attempt
    <3>1. RC!Serve
      BY <2>2 DEF Attempt, RC!Serve, RC!Replies, Replies, RC!Effect, Effect,
                  RC!Possible, Possible, RC!AbsentStatus, AbsentStatus,
                  RC!Status, Status, RC!Creating, Creating, RC!Removing, Removing
    <3>2. QED
      BY <3>1 DEF RC!Next
  <2>3. CASE Backoff
    BY <2>3 DEF Backoff, RC!vars
  <2>4. CASE Elsewhere
    BY <2>4 DEF Elsewhere, RC!Next, RC!Elsewhere
  <2>5. CASE UNCHANGED vars
    BY <2>5 DEF vars, RC!vars
  <2>6. QED
    BY <2>1, <2>2, <2>3, <2>4, <2>5 DEF Next
<1>3. QED
  BY <1>1, <1>2, Invariance, PTL DEF Spec, ImplementsRemoteCall, RC!Spec
=============================================================================
