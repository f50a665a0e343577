---------------------------- MODULE IoLockProofs ----------------------------
(***************************************************************************)
(* For any number of threads, tries, nested requests and early returns:    *)
(* the io lock is owned no more often than it will be unlocked or was left *)
(* behind, and a thread whose outermost request got it keeps it.           *)
(***************************************************************************)
EXTENDS IoLock, TLAPS

USE IoLockAssumption

(* The strengthened form implies what is said of the outermost request. *)
LEMMA NestedImpliesOwned == NestedRequestsLocked => OwnedThroughout
  BY DEF NestedRequestsLocked, OwnedThroughout

LEMMA InitIInv == Init => IInv
  BY DEF Init, IInv, TypeOK, Balanced, NestedRequestsLocked, TriesRemain, Inside

LEMMA RequestIInv ==
  ASSUME IInv, NEW t \in Threads, Request(t)
  PROVE  IInv'
  <1> USE DEF IInv, Request
  <1>1. TypeOK'
    BY DEF TypeOK
  <1>2. Balanced'
    BY DEF Balanced
  <1>3. NestedRequestsLocked'
    BY DEF NestedRequestsLocked, Inside
  <1>4. TriesRemain'
    BY DEF TriesRemain, TypeOK
  <1> QED
    BY <1>1, <1>2, <1>3, <1>4

LEMMA AcquireIInv ==
  ASSUME IInv, NEW t \in Threads, Acquire(t)
  PROVE  IInv'
  <1> USE DEF IInv, Acquire, Return, TypeOK
  <1>1. TypeOK'
    OBVIOUS
  <1>2. Balanced'
    BY DEF Balanced
  <1>3. NestedRequestsLocked'
    <2> SUFFICES ASSUME NEW u \in Threads, (Inside(u) /\ outer[u])'
                 PROVE  (owner = u /\ depth >= nest[u])'
      BY DEF NestedRequestsLocked
    <2>1. CASE u = t
      <3>1. CASE nest[t] = 0
        <4>1. depth \in Nat /\ nest'[t] = 1
          BY <3>1
        <4> QED
          BY <4>1, <2>1
      <3>2. CASE nest[t] # 0
        <4>1. Inside(t) /\ outer[t]
          BY <3>2, <2>1 DEF Inside
        <4>2. depth >= nest[t]
          BY <4>1 DEF NestedRequestsLocked
        <4> QED
          BY <4>2, <2>1
      <3> QED
        BY <3>1, <3>2
    <2>2. CASE u # t
      <3>1. Inside(u) /\ outer[u]
        BY <2>2 DEF Inside
      <3>2. owner = u
        BY <3>1 DEF NestedRequestsLocked
      <3> QED
        BY <3>2, <2>2
    <2> QED
      BY <2>1, <2>2
  <1>4. TriesRemain'
    BY DEF TriesRemain
  <1> QED
    BY <1>1, <1>2, <1>3, <1>4

LEMMA RetryIInv ==
  ASSUME IInv, NEW t \in Threads, Retry(t)
  PROVE  IInv'
  <1> USE DEF IInv, Retry, Return, TypeOK
  <1>1. triesLeft[t] \in 1 .. MaxTries
    BY DEF TriesRemain
  <1>2. TypeOK'
    <2>1. triesLeft' \in [Threads -> 0 .. MaxTries]
      BY <1>1
    <2>2. waiting' \in [Threads -> BOOLEAN] /\ outer' \in [Threads -> BOOLEAN]
      BY ZenonT(30)
    <2>3. nest' \in [Threads -> Nat]
      OBVIOUS
    <2> QED
      BY <2>1, <2>2, <2>3
  <1>3. Balanced'
    BY DEF Balanced
  <1>4. NestedRequestsLocked'
    <2> SUFFICES ASSUME NEW u \in Threads, (Inside(u) /\ outer[u])'
                 PROVE  (owner = u /\ depth >= nest[u])'
      BY DEF NestedRequestsLocked
    <2>1. (nest[u] = nest'[u] /\ outer[u] = outer'[u]) \/ u = t
      OBVIOUS
    <2>2. CASE u = t
      <3>1. Inside(t) /\ outer[t]
        BY <2>2 DEF Inside
      <3>2. owner = t
        BY <3>1 DEF NestedRequestsLocked
      <3> QED
        BY <3>2
    <2>3. CASE u # t
      BY <2>1, <2>3 DEF NestedRequestsLocked, Inside
    <2> QED
      BY <2>2, <2>3
  <1>5. TriesRemain'
    BY <1>1 DEF TriesRemain
  <1> QED
    BY <1>2, <1>3, <1>4, <1>5

LEMMA UnlockIInv ==
  ASSUME IInv, NEW t \in Threads, Unlock(t)
  PROVE  IInv'
  <1> USE DEF IInv, Unlock, TypeOK
  <1>1. owner = t => depth \in Nat \ {0}
    BY DEF Balanced
  <1>2. TypeOK'
    BY <1>1
  <1>3. Balanced'
    BY <1>1 DEF Balanced
  <1>4. NestedRequestsLocked'
    BY <1>1 DEF NestedRequestsLocked, Inside
  <1>5. TriesRemain'
    BY DEF TriesRemain
  <1> QED
    BY <1>2, <1>3, <1>4, <1>5

LEMMA ReturnEarlyIInv ==
  ASSUME IInv, NEW t \in Threads, ReturnEarly(t)
  PROVE  IInv'
  <1> USE DEF IInv, ReturnEarly, TypeOK
  <1>1. TypeOK'
    OBVIOUS
  <1>2. Balanced'
    BY DEF Balanced
  <1>3. NestedRequestsLocked'
    BY DEF NestedRequestsLocked, Inside
  <1>4. TriesRemain'
    BY DEF TriesRemain
  <1> QED
    BY <1>1, <1>2, <1>3, <1>4

LEMMA NextIInv == IInv /\ [Next]_vars => IInv'
  <1> SUFFICES ASSUME IInv, [Next]_vars
               PROVE  IInv'
    OBVIOUS
  <1>1. CASE Next
    <2>1. PICK t \in Threads :
            Request(t) \/ Acquire(t) \/ Retry(t) \/ Unlock(t) \/ ReturnEarly(t)
      BY <1>1 DEF Next
    <2> QED
      BY <2>1, RequestIInv, AcquireIInv, RetryIInv, UnlockIInv, ReturnEarlyIInv
  <1>2. CASE UNCHANGED vars
    BY <1>2 DEF vars, IInv, TypeOK, Balanced, NestedRequestsLocked, TriesRemain,
                Inside
  <1> QED
    BY <1>1, <1>2

(* The inductive invariant holds in every reachable state. *)
THEOREM LockInvariance == Spec => []IInv
  BY InitIInv, NextIInv, PTL DEF Spec

(* rs_io_lock_real() and rs_io_unlock_real() keep their variables typed:   *)
(* tries_left stays within its bounds for every number of tries.           *)
THEOREM LockTypeCorrect == Spec => []TypeOK
  <1>1. IInv => TypeOK
    BY DEF IInv
  <1> QED
    BY LockInvariance, <1>1, PTL

(* The mutex is left owned by an early return of ciff_load_meta() only. *)
THEOREM BalancedCorrect == Spec => []Balanced
  <1>1. IInv => Balanced
    BY DEF IInv
  <1> QED
    BY LockInvariance, <1>1, PTL

(* Who gets the lock in the outermost request of rs_io_lock_real() has it  *)
(* until the matching rs_io_unlock_real(), whoever else gave up.           *)
THEOREM OwnedCorrect == Spec => []OwnedThroughout
  <1>1. IInv => OwnedThroughout
    BY NestedImpliesOwned DEF IInv
  <1> QED
    BY LockInvariance, <1>1, PTL
=============================================================================
