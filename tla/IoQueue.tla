------------------------------ MODULE IoQueue -------------------------------
(***************************************************************************)
(* The background job queue of librawstudio/rs-io.c: a GAsyncQueue kept    *)
(* sorted by priority, the worker threads that serve it, and the calls the *)
(* rest of the program makes on it (add a job, cancel a job or a class of  *)
(* jobs, pause, ask how much is left).                                     *)
(*                                                                         *)
(* `queue' lists the jobs in the order g_async_queue_pop returns them      *)
(* (GLib keeps them the other way round).  A call that takes and releases  *)
(* a lock around one access is one step; a call that holds a lock over     *)
(* several accesses takes one step per access.  What a job does while it   *)
(* is executed, and the lock held around it, is the business of IoLock.    *)
(*                                                                         *)
(* A definition named X_Y is X with the mistake Y; it is part of no        *)
(* specification and serves to see a property fail.                        *)
(***************************************************************************)
EXTENDS Integers, Sequences, FiniteSets

CONSTANTS Workers,      \* the "io worker" threads, init() starts one
          Clients,      \* the other threads
          Jobs,         \* the RSIoJob objects that may be created
          Kind,         \* [Jobs -> DOMAIN KindPriority]
          Class,        \* idle_class of each job
          Marker,       \* the marker_job of a cancellation
          None          \* no thread, no job

(* The priorities the rs_io_idle_* constructors give their jobs. *)
KindPriority == [metadata |-> 10, prefetch |-> 20, checksum |-> 30, tagging |-> 50]

Priority == [j \in Jobs |-> KindPriority[Kind[j]]]

Threads == Workers \cup Clients

ASSUME IoQueueAssumption ==
         /\ IsFiniteSet(Workers)
         /\ Workers \cap Clients = {}
         /\ None \notin Threads \cup Jobs
         /\ Marker \notin Jobs
         /\ Kind \in [Jobs -> DOMAIN KindPriority]
         /\ DOMAIN Class = Jobs

VARIABLES queue,        \* the GAsyncQueue, next job to pop first
          queueLock,    \* holder of its mutex over several steps
          countLock,    \* holder of count_lock
          pauseQueue,   \* pause_queue
          active,       \* queue_active_count
          wpc,          \* where each worker is in queue_worker()
          inHand,       \* `job' of each worker
          cpc,          \* which call each client is in
          target,       \* the jobs a client's cancellation matches
          left,         \* `left' of a client's rs_io_get_jobs_left()
          finished,     \* jobs whose execution and callback are over
          ticket,       \* history: when a job was added, 0 before that
          clock,        \* history: the next ticket
          fresh,        \* history: jobs others added during that call
          sincePause    \* history: jobs a worker took since the pause began

queueVars  == <<queue, queueLock>>
workerVars == <<wpc, inHand, finished>>
clientVars == <<cpc, target, left, fresh>>
history    == <<ticket, clock>>
vars == <<queueVars, countLock, pauseQueue, active, workerVars, clientVars,
          history, sincePause>>

-----------------------------------------------------------------------------
(* The order of the queue. *)

InsertionPoint_BeforeEquals(s, j) ==
  CHOOSE n \in 0 .. Len(s) :
     /\ n > 0 => Priority[s[n]] < Priority[j]
     /\ \A i \in n + 1 .. Len(s) : Priority[s[i]] >= Priority[j]

(* Number of jobs of s that stay ahead of j when push_sorted inserts it:   *)
(* the walk from the back stops at the first job that is not less urgent.  *)
InsertionPoint(s, j) ==
  CHOOSE n \in 0 .. Len(s) :
     /\ n > 0 => Priority[s[n]] <= Priority[j]
     /\ \A i \in n + 1 .. Len(s) : Priority[s[i]] > Priority[j]

InsertSorted(s, j) ==
  LET n == InsertionPoint(s, j)
  IN  [i \in 1 .. Len(s) + 1 |->
         IF i <= n THEN s[i] ELSE IF i = n + 1 THEN j ELSE s[i - 1]]

(* Where element i of s goes in a stable sort. *)
Rank(s, i) ==
  Cardinality({k \in 1 .. Len(s) : \/ Priority[s[k]] < Priority[s[i]]
                                   \/ Priority[s[k]] = Priority[s[i]] /\ k <= i})

StableSort(s) ==
  [n \in 1 .. Len(s) |-> s[CHOOSE i \in 1 .. Len(s) : Rank(s, i) = n]]

Queued   == {queue[i] : i \in 1 .. Len(queue)} \ {Marker}
InFlight == {inHand[w] : w \in Workers} \ {None}

-----------------------------------------------------------------------------
Init == /\ queue = << >>
        /\ queueLock = None
        /\ countLock = None
        /\ pauseQueue = FALSE
        /\ active = 0
        /\ wpc = [w \in Workers |-> "check"]
        /\ inHand = [w \in Workers |-> None]
        /\ finished = {}
        /\ cpc = [c \in Clients |-> "idle"]
        /\ target = [c \in Clients |-> {}]
        /\ left = [c \in Clients |-> 0]
        /\ fresh = [c \in Clients |-> {}]
        /\ ticket = [j \in Jobs |-> 0]
        /\ clock = 1
        /\ sincePause = [w \in Workers |-> 0]

-----------------------------------------------------------------------------
(* queue_worker() *)

(* The flag is read without a lock and acted upon later.  A worker that    *)
(* finds it set sleeps and reads it again, which changes nothing.          *)
CheckPause(w) ==
  /\ wpc[w] = "check"
  /\ ~ pauseQueue
  /\ wpc' = [wpc EXCEPT ![w] = "poll"]
  /\ UNCHANGED <<queueVars, countLock, pauseQueue, active, inHand, finished,
                 clientVars, history, sincePause>>

LockCount(w) ==
  /\ wpc[w] = "poll"
  /\ countLock = None
  /\ countLock' = w
  /\ wpc' = [wpc EXCEPT ![w] = "pop"]
  /\ UNCHANGED <<queueVars, pauseQueue, active, inHand, finished, clientVars,
                 history, sincePause>>

TakeJob_Uncounted(w, j, rest) ==
  /\ inHand' = [inHand EXCEPT ![w] = j]
  /\ queue' = rest
  /\ wpc' = [wpc EXCEPT ![w] = "execute"]
  /\ UNCHANGED <<active, sincePause>>

(* j goes from the queue into the hands of w, and rest stays. *)
TakeJob(w, j, rest) ==
  /\ inHand' = [inHand EXCEPT ![w] = j]
  /\ queue' = rest
  /\ active' = active + 1
  /\ wpc' = [wpc EXCEPT ![w] = "execute"]
  /\ sincePause' = IF pauseQueue THEN [sincePause EXCEPT ![w] = @ + 1]
                                 ELSE sincePause

FindNothing(w) ==
  /\ wpc' = [wpc EXCEPT ![w] = "check"]
  /\ UNCHANGED <<queue, inHand, active, sincePause>>

TryPop_Newest(w) ==
  /\ wpc[w] = "pop"
  /\ queueLock = None
  /\ \/ queue = << >> /\ FindNothing(w)
     \/ /\ queue # << >>
        /\ TakeJob(w, queue[Len(queue)], SubSeq(queue, 1, Len(queue) - 1))
  /\ countLock' = None
  /\ UNCHANGED <<queueLock, pauseQueue, finished, clientVars, history>>

TryPop(w) ==
  /\ wpc[w] = "pop"
  /\ queueLock = None
  /\ \/ queue = << >> /\ FindNothing(w)
     \/ queue # << >> /\ TakeJob(w, Head(queue), Tail(queue))
  /\ countLock' = None
  /\ UNCHANGED <<queueLock, pauseQueue, finished, clientVars, history>>

(* rs_io_lock(), rs_io_job_execute(), rs_io_unlock() *)
Execute(w) ==
  /\ wpc[w] = "execute"
  /\ wpc' = [wpc EXCEPT ![w] = "callback"]
  /\ UNCHANGED <<queueVars, countLock, pauseQueue, active, inHand, finished,
                 clientVars, history, sincePause>>

(* The queue as rs_io_idle_add_job() leaves it. *)
Insert(j) ==
  /\ queueLock = None
  /\ ticket[j] = 0
  /\ queue' = InsertSorted(queue, j)
  /\ ticket' = [ticket EXCEPT ![j] = clock]
  /\ clock' = clock + 1

(* got_metadata() adds the photo to the library; the library asks for the  *)
(* checksum of a photo it did not know.                                    *)
CallbackAddsJob(w, j) ==
  /\ wpc[w] = "callback"
  /\ Kind[inHand[w]] = "metadata"
  /\ Kind[j] = "checksum"
  /\ Insert(j)
  /\ wpc' = [wpc EXCEPT ![w] = "return"]
  /\ UNCHANGED <<queueLock, countLock, pauseQueue, active, inHand, finished,
                 clientVars, sincePause>>

(* rs_io_job_do_callback() returns *)
EndCallback(w) ==
  /\ wpc[w] \in {"callback", "return"}
  /\ wpc' = [wpc EXCEPT ![w] = "retire"]
  /\ finished' = finished \cup {inHand[w]}
  /\ UNCHANGED <<queueVars, countLock, pauseQueue, active, inHand, clientVars,
                 history, sincePause>>

Retire_Twice(w) ==
  /\ wpc[w] = "retire"
  /\ countLock = None
  /\ active' = active - 2
  /\ inHand' = [inHand EXCEPT ![w] = None]
  /\ wpc' = [wpc EXCEPT ![w] = "check"]
  /\ UNCHANGED <<queueVars, countLock, pauseQueue, finished, clientVars,
                 history, sincePause>>

Retire_IgnoresPause(w) ==
  /\ wpc[w] = "retire"
  /\ countLock = None
  /\ active' = active - 1
  /\ inHand' = [inHand EXCEPT ![w] = None]
  /\ wpc' = [wpc EXCEPT ![w] = "poll"]
  /\ UNCHANGED <<queueVars, countLock, pauseQueue, finished, clientVars,
                 history, sincePause>>

Retire(w) ==
  /\ wpc[w] = "retire"
  /\ countLock = None
  /\ active' = active - 1
  /\ inHand' = [inHand EXCEPT ![w] = None]
  /\ wpc' = [wpc EXCEPT ![w] = "check"]
  /\ UNCHANGED <<queueVars, countLock, pauseQueue, finished, clientVars,
                 history, sincePause>>

-----------------------------------------------------------------------------
(* The calls of the other threads. *)

(* rs_io_idle_add_job(), at the end of every rs_io_idle_* constructor *)
AddJob(c, j) ==
  /\ cpc[c] = "idle"
  /\ Insert(j)
  /\ fresh' = [d \in Clients |->
                 IF cpc[d] \in {"length", "sum"} THEN fresh[d] \cup {j} ELSE fresh[d]]
  /\ UNCHANGED <<queueLock, countLock, pauseQueue, active, workerVars, cpc,
                 target, left, sincePause>>

BeginCancel_MarkerFirst(c, jobs) ==
  /\ cpc[c] = "idle"
  /\ queueLock = None
  /\ queueLock' = c
  /\ queue' = <<Marker>> \o queue
  /\ target' = [target EXCEPT ![c] = jobs]
  /\ cpc' = [cpc EXCEPT ![c] = "rotate"]
  /\ UNCHANGED <<countLock, pauseQueue, active, workerVars, left, fresh,
                 history, sincePause>>

(* rs_io_idle_cancel_class() and rs_io_idle_cancel() rotate the queue once *)
(* around a marker and differ only in the jobs they leave out.             *)
BeginCancel(c, jobs) ==
  /\ cpc[c] = "idle"
  /\ queueLock = None
  /\ queueLock' = c
  /\ queue' = Append(queue, Marker)
  /\ target' = [target EXCEPT ![c] = jobs]
  /\ cpc' = [cpc EXCEPT ![c] = "rotate"]
  /\ UNCHANGED <<countLock, pauseQueue, active, workerVars, left, fresh,
                 history, sincePause>>

CancelClass(c, class) == BeginCancel(c, {j \in Jobs : Class[j] = class})

CancelJob(c, job) == BeginCancel(c, {job})

Rotate(c) ==
  /\ cpc[c] = "rotate"
  /\ Head(queue) # Marker
  /\ queue' = IF Head(queue) \in target[c]
                THEN Tail(queue)
                ELSE Append(Tail(queue), Head(queue))
  /\ UNCHANGED <<queueLock, countLock, pauseQueue, active, workerVars,
                 clientVars, history, sincePause>>

EndCancel_KeepsLock(c) ==
  /\ cpc[c] = "rotate"
  /\ Head(queue) = Marker
  /\ queue' = StableSort(Tail(queue))
  /\ target' = [target EXCEPT ![c] = {}]
  /\ cpc' = [cpc EXCEPT ![c] = "idle"]
  /\ UNCHANGED <<queueLock, countLock, pauseQueue, active, workerVars, left,
                 fresh, history, sincePause>>

EndCancel(c) ==
  /\ cpc[c] = "rotate"
  /\ Head(queue) = Marker
  /\ queue' = StableSort(Tail(queue))
  /\ queueLock' = None
  /\ target' = [target EXCEPT ![c] = {}]
  /\ cpc' = [cpc EXCEPT ![c] = "idle"]
  /\ UNCHANGED <<countLock, pauseQueue, active, workerVars, left, fresh,
                 history, sincePause>>

BeginJobsLeft_Unlocked(c) ==
  /\ cpc[c] = "idle"
  /\ fresh' = [fresh EXCEPT ![c] = {}]
  /\ cpc' = [cpc EXCEPT ![c] = "length"]
  /\ UNCHANGED <<queueVars, countLock, pauseQueue, active, workerVars, target,
                 left, history, sincePause>>

(* rs_io_get_jobs_left() *)
BeginJobsLeft(c) ==
  /\ cpc[c] = "idle"
  /\ countLock = None
  /\ countLock' = c
  /\ fresh' = [fresh EXCEPT ![c] = {}]
  /\ cpc' = [cpc EXCEPT ![c] = "length"]
  /\ UNCHANGED <<queueVars, pauseQueue, active, workerVars, target, left,
                 history, sincePause>>

ReadLength(c) ==
  /\ cpc[c] = "length"
  /\ queueLock = None
  /\ left' = [left EXCEPT ![c] = Len(queue)]
  /\ cpc' = [cpc EXCEPT ![c] = "sum"]
  /\ UNCHANGED <<queueVars, countLock, pauseQueue, active, workerVars, target,
                 fresh, history, sincePause>>

EndJobsLeft(c) ==
  /\ cpc[c] = "sum"
  /\ left' = [left EXCEPT ![c] = @ + active]
  /\ countLock' = None
  /\ cpc' = [cpc EXCEPT ![c] = "idle"]
  /\ UNCHANGED <<queueVars, pauseQueue, active, workerVars, target, fresh,
                 history, sincePause>>

(* rs_io_idle_pause() and rs_io_idle_unpause() *)
Pause(c) ==
  /\ cpc[c] = "idle"
  /\ pauseQueue' = TRUE
  /\ sincePause' = IF pauseQueue THEN sincePause ELSE [w \in Workers |-> 0]
  /\ UNCHANGED <<queueVars, countLock, active, workerVars, clientVars, history>>

Unpause(c) ==
  /\ cpc[c] = "idle"
  /\ pauseQueue' = FALSE
  /\ sincePause' = [w \in Workers |-> 0]
  /\ UNCHANGED <<queueVars, countLock, active, workerVars, clientVars, history>>

-----------------------------------------------------------------------------
WorkerStep(w) ==
  \/ CheckPause(w) \/ LockCount(w) \/ TryPop(w) \/ Execute(w)
  \/ \E j \in Jobs : CallbackAddsJob(w, j)
  \/ EndCallback(w) \/ Retire(w)

ClientStep(c) ==
  \/ \E j \in Jobs : AddJob(c, j) \/ CancelJob(c, j)
  \/ \E j \in Jobs : CancelClass(c, Class[j])
  \/ Rotate(c) \/ EndCancel(c)
  \/ BeginJobsLeft(c) \/ ReadLength(c) \/ EndJobsLeft(c)
  \/ Pause(c) \/ Unpause(c)

Next == (\E w \in Workers : WorkerStep(w)) \/ (\E c \in Clients : ClientStep(c))

Spec == Init /\ [][Next]_vars

(* Every thread runs; a thread that keeps asking for a mutex others take   *)
(* and release gets it in the end.  Nothing forces a client to make a call *)
(* but it completes the call it is in.                                     *)
Fairness ==
  /\ \A w \in Workers : /\ WF_vars(CheckPause(w) \/ Execute(w) \/ EndCallback(w))
                        /\ SF_vars(LockCount(w))
                        /\ SF_vars(TryPop(w))
                        /\ SF_vars(Retire(w))
  /\ \A c \in Clients : /\ WF_vars(Rotate(c) \/ EndCancel(c) \/ EndJobsLeft(c))
                        /\ SF_vars(ReadLength(c))

FairSpec == Spec /\ Fairness

-----------------------------------------------------------------------------
(* Correctness. *)

(* The shape of the state.  The marker is in the queue exactly while a     *)
(* cancellation holds the mutex of the queue.                              *)
TypeOK ==
  /\ queue \in Seq(Jobs \cup {Marker})
  /\ queueLock \in Clients \cup {None}
  /\ countLock \in Threads \cup {None}
  /\ pauseQueue \in BOOLEAN
  /\ active \in Nat
  /\ wpc \in [Workers -> {"check", "poll", "pop", "execute", "callback", "return",
                       "retire"}]
  /\ inHand \in [Workers -> Jobs \cup {None}]
  /\ cpc \in [Clients -> {"idle", "rotate", "length", "sum"}]
  /\ target \in [Clients -> SUBSET Jobs]
  /\ left \in [Clients -> Nat]
  /\ fresh \in [Clients -> SUBSET Jobs]
  /\ finished \in SUBSET Jobs
  /\ ticket \in [Jobs -> Nat]
  /\ clock \in Nat \ {0}
  /\ sincePause \in [Workers -> Nat]

(* Where a job is in its life, read off the queue and the workers. *)
Status(j) == IF ticket[j] = 0 THEN "new"
             ELSE IF j \in Queued THEN "pending"
             ELSE IF j \in finished THEN "done"
             ELSE IF j \in InFlight THEN "running"
             ELSE "dropped"

Board == INSTANCE JobBoard WITH status <- [j \in Jobs |-> Status(j)]

(* The element at i is popped for execution before the one at k: it is     *)
(* ahead of it, and a job the rotation has put behind the marker is ahead  *)
(* of one the rotation has not reached.                                    *)
Precedes(i, k) ==
  \/ i < k /\ \A m \in i .. k : queue[m] # Marker
  \/ k < i /\ \E m \in k .. i : queue[m] = Marker

(* Whatever is added, cancelled or rotated, the queue stays sorted by      *)
(* priority and, among equal priorities, by age; no job is in it twice.    *)
(* The sort at the end of a cancellation therefore has nothing to do.      *)
QueueOrdered ==
  \A i, k \in 1 .. Len(queue) :
    queue[i] # Marker /\ queue[k] # Marker /\ Precedes(i, k)
      => Board!MoreUrgent(queue[i], queue[k])

(* queue_active_count counts the workers that have a job in hand, in every *)
(* state, although it is updated apart from the queue.                     *)
ActiveExact == active = Cardinality({w \in Workers : inHand[w] # None})

(* When rs_io_get_jobs_left() answers 0, as the program waits for before   *)
(* it exits, no job is queued or in the hands of a worker, callback and    *)
(* the job it adds included, but those other clients added meanwhile.      *)
JobsLeftSound ==
  [][\A c \in Clients :
        cpc[c] = "sum" /\ cpc'[c] = "idle" /\ left'[c] = 0
          => Queued' \cup InFlight' \subseteq fresh[c]]_vars

(* A job leaves the queue only into the hands of a worker or because the   *)
(* cancellation under way matches it; when the cancellation is over, no    *)
(* job it matches is left in the queue.                                    *)
CancelExact ==
  [][/\ \A j \in Queued \ Queued' :
           \/ j \in InFlight'
           \/ queueLock # None /\ j \in target[queueLock]
     /\ queueLock # None /\ queueLock' = None
          => Queued' \cap target[queueLock] = {}]_vars

(* rs_io_idle_pause() does not wait for the workers, but a worker takes at *)
(* most one more job (the one it was about to pop) until the pause ends.   *)
PauseBound == pauseQueue => \A w \in Workers : sincePause[w] <= 1

(* The queue implements JobBoard: at most one execution per job, none      *)
(* after a cancellation dropped it, always the most urgent job first.      *)
JobBoardSpec == Board!Spec

(* Unless the queue stays paused, every job added to it is executed or     *)
(* dropped: no lock order blocks the workers and no rotation loses a job.  *)
EveryJobResolved ==
  (<>[] ~ pauseQueue) =>
     \A j \in Jobs : (Status(j) = "pending") ~> (Status(j) \in {"done", "dropped"})

-----------------------------------------------------------------------------
(* The inductive invariant behind these properties (IoQueueProofs). *)

(* Each lock is held by the thread that is at a place where it holds it. *)
LocksHeld ==
  /\ \A w \in Workers : wpc[w] = "pop" <=> countLock = w
  /\ \A c \in Clients : cpc[c] \in {"length", "sum"} <=> countLock = c
  /\ \A c \in Clients : cpc[c] = "rotate" <=> queueLock = c

HandsFull ==
  \A w \in Workers :
    inHand[w] # None <=> wpc[w] \in {"execute", "callback", "return", "retire"}

(* The marker is in the queue, once, while a cancellation goes on; the     *)
(* jobs behind it are those the cancellation keeps.                        *)
MarkerPlaced ==
  /\ queueLock = None => \A i \in 1 .. Len(queue) : queue[i] # Marker
  /\ queueLock # None =>
       \E m \in 1 .. Len(queue) :
         /\ queue[m] = Marker
         /\ \A i \in 1 .. Len(queue) : queue[i] = Marker => i = m
         /\ \A i \in m + 1 .. Len(queue) : queue[i] \notin target[queueLock]

(* A job is new, queued, in one worker's hands, or gone for good. *)
JobsApart ==
  /\ \A j \in Jobs : ticket[j] < clock
  /\ \A j \in Queued \cup InFlight \cup finished : ticket[j] > 0
  /\ Queued \cap (InFlight \cup finished) = {}
  /\ \A v, w \in Workers : v # w /\ inHand[v] # None => inHand[v] # inHand[w]
  /\ \A w \in Workers : inHand[w] # None =>
       (inHand[w] \in finished <=> wpc[w] = "retire")

PauseSeen ==
  pauseQueue => \A w \in Workers :
    /\ sincePause[w] <= 1
    /\ sincePause[w] = 1 => wpc[w] \notin {"poll", "pop"}

(* Once the length was read as 0 and no job is in flight, only the other   *)
(* clients can have put something into the queue.                          *)
LengthStands ==
  \A c \in Clients :
    cpc[c] = "sum" /\ left[c] = 0 /\ active = 0 => Queued \subseteq fresh[c]

IInv == /\ TypeOK
        /\ LocksHeld
        /\ HandsFull
        /\ MarkerPlaced
        /\ QueueOrdered
        /\ JobsApart
        /\ ActiveExact
        /\ PauseSeen
        /\ LengthStands
=============================================================================
