------------------------------- MODULE IoLock -------------------------------
(***************************************************************************)
(* rs_io_lock() and rs_io_unlock() of librawstudio/rs-io.c: a recursive    *)
(* mutex that is polled instead of waited for.  A thread that polled in    *)
(* vain long enough goes on without the mutex; rs_io_unlock() is called in *)
(* either case, and a recursive mutex ignores an unlock by a thread that   *)
(* does not own it.  One caller, the CIFF metadata loader, has an early    *)
(* return between the two.                                                 *)
(***************************************************************************)
EXTENDS Integers

CONSTANTS Threads,
          MaxTries,     \* tries_left, 10*1000 in the code
          MaxNest,      \* bound: how deep a thread nests its requests
          MaxLeaks,     \* bound: early returns of the CIFF loader, per thread
          None

ASSUME IoLockAssumption ==
         /\ None \notin Threads
         /\ MaxTries \in Nat \ {0}
         /\ MaxNest \in Nat
         /\ MaxLeaks \in Nat

VARIABLES owner,        \* the thread that owns io_lock, or None
          depth,        \* how many times it has locked it
          waiting,      \* is the thread in the loop of rs_io_lock_real()?
          triesLeft,    \* tries_left of that loop
          nest,         \* calls of rs_io_lock() a thread has returned from
                        \* and not yet matched with rs_io_unlock()
          outer,        \* history: did the outermost of these calls lock?
          leaks         \* history: early returns so far

vars == <<owner, depth, waiting, triesLeft, nest, outer, leaks>>

Init == /\ owner = None
        /\ depth = 0
        /\ waiting = [t \in Threads |-> FALSE]
        /\ triesLeft = [t \in Threads |-> 0]
        /\ nest = [t \in Threads |-> 0]
        /\ outer = [t \in Threads |-> FALSE]
        /\ leaks = [t \in Threads |-> 0]

Request(t) ==
  /\ ~ waiting[t]
  /\ nest[t] < MaxNest
  /\ waiting' = [waiting EXCEPT ![t] = TRUE]
  /\ triesLeft' = [triesLeft EXCEPT ![t] = MaxTries]
  /\ UNCHANGED <<owner, depth, nest, outer, leaks>>

(* rs_io_lock() returns to t, with or without the mutex. *)
Return(t, locked) ==
  /\ waiting' = [waiting EXCEPT ![t] = FALSE]
  /\ nest' = [nest EXCEPT ![t] = @ + 1]
  /\ outer' = IF nest[t] = 0 THEN [outer EXCEPT ![t] = locked] ELSE outer

(* g_rec_mutex_trylock() succeeds *)
Acquire(t) ==
  /\ waiting[t]
  /\ owner \in {None, t}
  /\ owner' = t
  /\ depth' = depth + 1
  /\ Return(t, TRUE)
  /\ UNCHANGED <<triesLeft, leaks>>

Retry_Forever(t) ==
  /\ waiting[t]
  /\ owner \notin {None, t}
  /\ UNCHANGED vars

Retry_OffByOne(t) ==
  /\ waiting[t]
  /\ owner \notin {None, t}
  /\ triesLeft' = [triesLeft EXCEPT ![t] = @ - 1]
  /\ IF triesLeft[t] <= 0 THEN Return(t, FALSE)
                          ELSE UNCHANGED <<waiting, nest, outer>>
  /\ UNCHANGED <<owner, depth, leaks>>

(* It fails; the last failure gives up. *)
Retry(t) ==
  /\ waiting[t]
  /\ owner \notin {None, t}
  /\ triesLeft' = [triesLeft EXCEPT ![t] = @ - 1]
  /\ IF triesLeft[t] - 1 <= 0 THEN Return(t, FALSE)
                              ELSE UNCHANGED <<waiting, nest, outer>>
  /\ UNCHANGED <<owner, depth, leaks>>

Unlock_Unchecked(t) ==
  /\ ~ waiting[t]
  /\ nest[t] > 0
  /\ nest' = [nest EXCEPT ![t] = @ - 1]
  /\ depth' = IF depth > 0 THEN depth - 1 ELSE 0
  /\ owner' = IF depth <= 1 THEN None ELSE owner
  /\ UNCHANGED <<waiting, triesLeft, outer, leaks>>

Unlock_OutermostOnly(t) ==
  /\ ~ waiting[t]
  /\ nest[t] > 0
  /\ nest' = [nest EXCEPT ![t] = @ - 1]
  /\ IF owner = t /\ nest[t] = 1
       THEN /\ depth' = depth - 1
            /\ owner' = IF depth = 1 THEN None ELSE t
       ELSE UNCHANGED <<owner, depth>>
  /\ UNCHANGED <<waiting, triesLeft, outer, leaks>>

(* rs_io_unlock(): only the owner's call has an effect. *)
Unlock(t) ==
  /\ ~ waiting[t]
  /\ nest[t] > 0
  /\ nest' = [nest EXCEPT ![t] = @ - 1]
  /\ IF owner = t
       THEN /\ depth' = depth - 1
            /\ owner' = IF depth = 1 THEN None ELSE t
       ELSE UNCHANGED <<owner, depth>>
  /\ UNCHANGED <<waiting, triesLeft, outer, leaks>>

(* ciff_load_meta() of a file that is not a CIFF file returns between its  *)
(* rs_io_lock() and its rs_io_unlock(): the caller goes on as if outside.  *)
ReturnEarly(t) ==
  /\ ~ waiting[t]
  /\ nest[t] > 0
  /\ leaks[t] < MaxLeaks
  /\ nest' = [nest EXCEPT ![t] = @ - 1]
  /\ leaks' = [leaks EXCEPT ![t] = @ + 1]
  /\ UNCHANGED <<owner, depth, waiting, triesLeft, outer>>

Next == \E t \in Threads :
          Request(t) \/ Acquire(t) \/ Retry(t) \/ Unlock(t) \/ ReturnEarly(t)

Spec == Init /\ [][Next]_vars

(* A thread in the polling loop runs on.  Nothing is assumed about the     *)
(* owner: it may keep the mutex for as long as it likes.                   *)
Fairness == \A t \in Threads : WF_vars(Acquire(t) \/ Retry(t))

FairSpec == Spec /\ Fairness

-----------------------------------------------------------------------------
TypeOK ==
  /\ owner \in Threads \cup {None}
  /\ depth \in Nat
  /\ waiting \in [Threads -> BOOLEAN]
  /\ triesLeft \in [Threads -> 0 .. MaxTries]
  /\ nest \in [Threads -> Nat]
  /\ outer \in [Threads -> BOOLEAN]
  /\ leaks \in [Threads -> 0 .. MaxLeaks]

Inside(t) == nest[t] > 0

(* The mutex is left behind by an early return only: it is owned as many   *)
(* times at most as its owner will unlock it or has failed to unlock it,   *)
(* whichever of its nested requests gave up.                               *)
Balanced ==
  /\ owner = None <=> depth = 0
  /\ owner # None => depth <= nest[owner] + leaks[owner]

(* A thread whose outermost request got the mutex owns it until the unlock *)
(* that matches, whatever threads that gave up do meanwhile.  Hence two    *)
(* threads are inside together only if one of them gave up.                *)
OwnedThroughout == \A t \in Threads : Inside(t) /\ outer[t] => owner = t

(* The same with its reason: such a thread locked the mutex in every       *)
(* request it nested, since the owner never has to poll.                   *)
NestedRequestsLocked ==
  \A t \in Threads : Inside(t) /\ outer[t] => owner = t /\ depth >= nest[t]

(* A thread polls only while it has tries left. *)
TriesRemain == \A t \in Threads : waiting[t] => triesLeft[t] > 0

(* The inductive invariant. *)
IInv == TypeOK /\ Balanced /\ NestedRequestsLocked /\ TriesRemain

(* What rs_io_unlock() is documented to do at the end of each section:     *)
(* release the lock.  A thread outside all of them does not own it.        *)
ReleasedOutside == \A t \in Threads : ~ Inside(t) => owner # t

(* The point of giving up: a request returns even if the owner never       *)
(* unlocks, so neither an order of locks nor a mutex left behind blocks a  *)
(* thread here for good.                                                   *)
RequestReturns == \A t \in Threads : waiting[t] ~> ~ waiting[t]
=============================================================================
