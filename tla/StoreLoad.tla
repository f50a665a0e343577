------------------------------ MODULE StoreLoad ------------------------------
(***************************************************************************)
(* Loading a directory into the store of thumbnails (src/rs-store.c): the  *)
(* main thread appends a row per file and queues a metadata job for it;    *)
(* got_metadata() runs in the io worker, fills the row in and counts the   *)
(* job down; the last one ends the load.  Reloads, tag searches and the    *)
(* tethering thread add and remove rows in between.                        *)
(*                                                                         *)
(* The queue of IoQueue appears here as the sequence of pending jobs of    *)
(* METADATA_CLASS, which all have one priority.  rs_io_idle_pause() only   *)
(* delays the worker and the io lock is given up after a while: neither    *)
(* orders anything here, so the worker may take a job at any time.         *)
(***************************************************************************)
EXTENDS Integers, Sequences, FiniteSets

CONSTANTS Files,
          Dirs,         \* the files a directory or a search may yield
          Rows,         \* names for rows; a job has the name of its row
          FileOf,       \* FULLNAME_COLUMN of the row of that name
          Prios,        \* priorities of photos
          PRIO_U,       \* the one of a photo without a priority
          MaxOps,       \* bound: operations started
          None

ASSUME StoreLoadAssumption ==
         /\ Dirs \subseteq SUBSET Files
         /\ IsFiniteSet(Rows) /\ FileOf \in [Rows -> Files]
         /\ PRIO_U \in Prios
         /\ MaxOps \in Nat
         /\ None \notin Rows
         /\ \A files \in SUBSET Files : files # None

VARIABLES
  rows,         \* the rows of store->store: an iter is valid iff it is here
  prio,         \* PRIORITY_COLUMN, PRIO_U for a name without a row
  labels,       \* the counts on the tabs, None while they read "(-)"
  blocks,       \* how often the handler of "row-changed" is blocked
  counterBlocked,
  jobsToDo,
  pending,      \* metadata jobs in the io queue
  flight,       \* the job the worker has taken, or None
  worker,       \* what it does next: take a job, or a step of got_metadata()
  priority,     \* the local of got_metadata(), PRIO_U while it is not used
  disk,         \* the priority in the sidecar of each file
  op,           \* what the holder of the gdk lock is doing
  opening,      \* what directory_activated() will load after GTK_CATCHUP()
  ops,          \* counts operations, for MaxOps
  counted,      \* history: jobs counted up since jobs_to_do was reset that
                \* are neither counted down nor cancelled
  lost,         \* history: such jobs that were cancelled
  stray,        \* history: count-downs by other jobs since the reset
  undisturbed   \* history: has this load had the worker to itself?

rowVars == <<rows, prio, labels>>
blockVars == <<blocks, counterBlocked>>
jobVars == <<pending, flight, worker, priority>>
history == <<counted, lost, stray, undisturbed>>
vars == <<rowVars, blockVars, jobsToDo, jobVars, disk, op, opening, ops,
          history>>

Idle == [do |-> "nothing", files |-> {}, row |-> None]

(* Nobody holds the gdk lock from one step to the next. *)
GdkLockFree == op = Idle

(* count_priorities() *)
Count(R, p) == [q \in Prios |-> Cardinality({r \in R : p[r] = q})]

(* count_priorities() as a handler of "row-changed" *)
RowChanged == labels' = IF blocks = 0 THEN Count(rows', prio') ELSE labels

InQueue == {pending[i] : i \in DOMAIN pending}

Init ==
  /\ rows = {} /\ prio = [r \in Rows |-> PRIO_U]
  /\ labels = [q \in Prios |-> 0]
  /\ blocks = 0 /\ counterBlocked = FALSE
  /\ jobsToDo = 0
  /\ pending = <<>> /\ flight = None /\ worker = "take" /\ priority = PRIO_U
  /\ disk \in [Files -> Prios]
  /\ op = Idle /\ opening = None /\ ops = 0
  /\ counted = {} /\ lost = 0 /\ stray = 0 /\ undisturbed = FALSE
-----------------------------------------------------------------------------
(* rs_store_remove(store, NULL, NULL): cancels METADATA_CLASS and empties  *)
(* the store; the handler of "row-deleted" is never blocked.               *)
RemoveAll ==
  /\ rows' = {} /\ prio' = [r \in Rows |-> PRIO_U]
  /\ labels' = IF rows = {} THEN labels ELSE Count(rows', prio')
  /\ pending' = <<>>
  /\ counted' = counted \ InQueue
  /\ lost' = lost + Cardinality(counted \cap InQueue)
  /\ undisturbed' = FALSE
  /\ UNCHANGED <<flight, worker, priority, stray>>

StartOperation ==
  /\ GdkLockFree
  /\ ops < MaxOps
  /\ ops' = ops + 1
  /\ UNCHANGED <<blockVars, jobsToDo, disk>>

(* Reload, open and the like remove everything and load a directory. *)
Reload(files) ==
  /\ StartOperation
  /\ RemoveAll
  /\ op' = [do |-> "begin", files |-> files, row |-> None]
  /\ UNCHANGED opening

(* directory_activated(): between the two it lets the main loop run, which *)
(* releases the gdk lock and may start any other operation.                *)
Activate(files) ==
  /\ opening = None
  /\ StartOperation
  /\ RemoveAll
  /\ opening' = files
  /\ UNCHANGED op

ResumeActivate ==
  /\ opening # None
  /\ GdkLockFree
  /\ op' = [do |-> "begin", files |-> opening, row |-> None]
  /\ opening' = None
  /\ UNCHANGED <<rowVars, blockVars, jobsToDo, jobVars, disk, ops, history>>

(* search_changed() adds what it found without a load being begun. *)
Search(files) ==
  /\ StartOperation
  /\ RemoveAll
  /\ op' = [do |-> "add", files |-> files, row |-> None]
  /\ UNCHANGED opening

(* The tethering thread adds a file it received. *)
Tether(f) ==
  /\ StartOperation
  /\ op' = [do |-> "add", files |-> {f}, row |-> None]
  /\ UNCHANGED <<rowVars, jobVars, opening, history>>

(* rs_store_load_directory() up to load_directory() *)
BeginLoad ==
  /\ op.do = "begin"
  /\ jobsToDo' = 0
  /\ labels' = None
  /\ blocks' = blocks + 1            \* g_signal_handler_block() counts
  /\ counterBlocked' = TRUE
  /\ op' = [op EXCEPT !.do = "add"]
  /\ counted' = {} /\ lost' = 0 /\ stray' = 0
  /\ undisturbed' = /\ blocks = 0 /\ op.files # {}
                    /\ pending = <<>> /\ flight = None
  /\ UNCHANGED <<rows, prio, jobVars, disk, opening, ops>>

(* rs_store_load_file(): append a row, queue its job ... *)
AddRow ==
  /\ op.do = "add"
  /\ \E r \in Rows \ (rows \cup InQueue \cup {flight}) :
       /\ FileOf[r] \in op.files
       /\ rows' = rows \cup {r}
       /\ pending' = Append(pending, r)
       /\ op' = [do |-> "count", files |-> op.files \ {FileOf[r]}, row |-> r]
  /\ UNCHANGED prio
  /\ RowChanged
  /\ UNCHANGED <<blockVars, jobsToDo, flight, worker, priority, disk, opening,
                 ops, history>>

(* ... and count the job up, after it was queued. *)
CountUp ==
  /\ op.do = "count"
  /\ jobsToDo' = jobsToDo + 1
  /\ counted' = counted \cup {op.row}
  /\ op' = [op EXCEPT !.do = "add", !.row = None]
  /\ UNCHANGED <<rowVars, blockVars, jobVars, disk, opening, ops, lost, stray,
                 undisturbed>>

EndOperation ==
  /\ op.do = "add" /\ op.files = {}
  /\ op' = Idle
  /\ UNCHANGED <<rowVars, blockVars, jobsToDo, jobVars, disk, opening, ops,
                 history>>

(* rs_store_set_flags(): the row and the sidecar, under the gdk lock. *)
SetFlags(r, p) ==
  /\ GdkLockFree
  /\ r \in rows
  /\ prio' = [prio EXCEPT ![r] = p]
  /\ disk' = [disk EXCEPT ![FileOf[r]] = p]
  /\ UNCHANGED rows
  /\ RowChanged
  /\ UNCHANGED <<blockVars, jobsToDo, jobVars, op, opening, ops, history>>

(* dir_monitor_changed(), or rs_store_remove() of one row: its job stays.  *)
RemoveRow(r) ==
  /\ GdkLockFree
  /\ r \in rows
  /\ rows' = rows \ {r}
  /\ prio' = [prio EXCEPT ![r] = PRIO_U]
  /\ labels' = Count(rows', prio')
  /\ UNCHANGED <<blockVars, jobsToDo, jobVars, disk, op, opening, ops, history>>
-----------------------------------------------------------------------------
(* The io worker. *)
TakeJob ==
  /\ worker = "take" /\ pending # <<>>
  /\ flight' = Head(pending)
  /\ pending' = Tail(pending)
  /\ worker' = "read"
  /\ UNCHANGED <<rowVars, blockVars, jobsToDo, priority, disk, op, opening, ops,
                 history>>

(* rs_cache_load_quick(), outside the gdk lock *)
ReadFlags ==
  /\ worker = "read"
  /\ priority' = disk[FileOf[flight]]
  /\ worker' = "update"
  /\ UNCHANGED <<rowVars, blockVars, jobsToDo, pending, flight, disk, op,
                 opening, ops, history>>

UpdateRow_Unguarded ==
  /\ worker = "update"
  /\ GdkLockFree
  /\ prio' = [prio EXCEPT ![flight] = priority]
  /\ UNCHANGED rows
  /\ RowChanged
  /\ worker' = "count"
  /\ priority' = PRIO_U
  /\ UNCHANGED <<blockVars, jobsToDo, pending, flight, disk, op, opening, ops,
                 history>>

(* The row is written if its iter is still valid. *)
UpdateRow ==
  /\ worker = "update"
  /\ GdkLockFree
  /\ IF flight \in rows
       THEN /\ prio' = [prio EXCEPT ![flight] = priority]
            /\ UNCHANGED rows
            /\ RowChanged
       ELSE UNCHANGED rowVars
  /\ worker' = "count"
  /\ priority' = PRIO_U
  /\ UNCHANGED <<blockVars, jobsToDo, pending, flight, disk, op, opening, ops,
                 history>>

CountDown_TestsFirst ==
  /\ worker = "count"
  /\ jobsToDo' = jobsToDo - 1
  /\ worker' = IF jobsToDo = 0 THEN "finish" ELSE "take"
  /\ flight' = None
  /\ counted' = counted \ {flight}
  /\ stray' = stray + IF flight \in counted THEN 0 ELSE 1
  /\ UNCHANGED <<rowVars, blockVars, pending, priority, disk, op, opening, ops,
                 lost, undisturbed>>

CountDown_KeepsJob ==
  /\ worker = "count"
  /\ jobsToDo' = jobsToDo - 1
  /\ worker' = IF jobsToDo' = 0 THEN "finish" ELSE "take"
  /\ counted' = counted \ {flight}
  /\ stray' = stray + IF flight \in counted THEN 0 ELSE 1
  /\ UNCHANGED <<rowVars, blockVars, pending, flight, priority, disk, op,
                 opening, ops, lost, undisturbed>>

CountDown_LiveRowsOnly ==
  /\ worker = "count"
  /\ jobsToDo' = jobsToDo - IF flight \in rows THEN 1 ELSE 0
  /\ worker' = IF jobsToDo' = 0 THEN "finish" ELSE "take"
  /\ flight' = None
  /\ counted' = counted \ {flight}
  /\ stray' = stray + IF flight \in counted THEN 0 ELSE 1
  /\ UNCHANGED <<rowVars, blockVars, pending, priority, disk, op, opening, ops,
                 lost, undisturbed>>

(* g_atomic_int_dec_and_test(), outside the gdk lock: a job of an earlier  *)
(* load counts down the jobs of this one.                                  *)
CountDown ==
  /\ worker = "count"
  /\ jobsToDo' = jobsToDo - 1
  /\ worker' = IF jobsToDo' = 0 THEN "finish" ELSE "take"
  /\ flight' = None
  /\ counted' = counted \ {flight}
  /\ stray' = stray + IF flight \in counted THEN 0 ELSE 1
  /\ UNCHANGED <<rowVars, blockVars, pending, priority, disk, op, opening, ops,
                 lost, undisturbed>>

Finish_Uncounted ==
  /\ worker = "finish"
  /\ GdkLockFree
  /\ blocks' = IF counterBlocked THEN blocks - 1 ELSE blocks
  /\ counterBlocked' = FALSE
  /\ worker' = "take"
  /\ UNCHANGED <<rowVars, jobsToDo, pending, flight, priority, disk, op,
                 opening, ops, history>>

(* The counter reached zero: unblock once, count, sort. *)
Finish ==
  /\ worker = "finish"
  /\ GdkLockFree
  /\ blocks' = IF counterBlocked THEN blocks - 1 ELSE blocks
  /\ counterBlocked' = FALSE
  /\ labels' = Count(rows, prio)
  /\ worker' = "take"
  /\ UNCHANGED <<rows, prio, jobsToDo, pending, flight, priority, disk, op,
                 opening, ops, history>>

UserStep ==
  \/ \E files \in Dirs : Reload(files) \/ Activate(files) \/ Search(files)
  \/ \E f \in Files : Tether(f)
  \/ \E r \in Rows : (\E p \in Prios : SetFlags(r, p)) \/ RemoveRow(r)

OperationStep == ResumeActivate \/ BeginLoad \/ AddRow \/ CountUp \/ EndOperation

WorkerStep == TakeJob \/ ReadFlags \/ UpdateRow \/ CountDown \/ Finish

Next == UserStep \/ OperationStep \/ WorkerStep

Spec == Init /\ [][Next]_vars

(* What is begun goes on; the user need not do anything.  The gdk lock is  *)
(* released between events, so a worker that waits for it gets it.         *)
Fairness == WF_vars(OperationStep) /\ SF_vars(WorkerStep)

FairSpec == Spec /\ Fairness
-----------------------------------------------------------------------------
TypeOK ==
  /\ rows \subseteq Rows
  /\ prio \in [Rows -> Prios]
  /\ labels \in {None} \cup [Prios -> Nat]
  /\ blocks \in Nat /\ counterBlocked \in BOOLEAN
  /\ jobsToDo \in Int
  /\ pending \in Seq(Rows)
  /\ flight \in {None} \cup Rows
  /\ worker \in {"take", "read", "update", "count", "finish"}
  /\ worker \in {"read", "update", "count"} <=> flight # None
  /\ priority \in Prios
  /\ disk \in [Files -> Prios]
  /\ op \in [do : {"nothing", "begin", "add", "count"}, files : SUBSET Files,
             row : Rows \cup {None}]
  /\ opening \in {None} \cup SUBSET Files
  /\ ops \in 0 .. MaxOps
  /\ counted \subseteq Rows /\ lost \in Nat /\ stray \in Nat
  /\ undisturbed \in BOOLEAN

(* While the handler is not blocked the tabs show what is in the store,    *)
(* whoever last changed a row, and through every load that ended; and the  *)
(* flag that got_metadata() trusts never claims a block that is not there, *)
(* so that g_signal_handler_unblock() is never called in excess.           *)
LabelsFollow ==
  /\ blocks = 0 => labels = Count(rows, prio)
  /\ counterBlocked => blocks > 0

(* What jobs_to_do stands for: the jobs of this load that are still to do, *)
(* plus those cancelled, which never count down, minus the count-down of   *)
(* the one job of an earlier load the worker may have been busy with.  And *)
(* no job is counted down before it was counted up, although it is queued  *)
(* first: got_metadata() waits for the gdk lock of rs_store_load_file().   *)
JobsToDoExact ==
  /\ jobsToDo = Cardinality(counted) + lost - stray
  /\ counted \subseteq InQueue \cup {flight}
  /\ worker = "count" => flight # op.row

(* A row that is removed while its job is under way is not written: what   *)
(* the store holds of it does not come back.                               *)
RemovedStaysRemoved == \A r \in Rows \ rows : prio[r] = PRIO_U

(* A load that starts with the worker free and is not followed by another  *)
(* operation that empties the store lifts the block of the counter.        *)
LoadCompletes == undisturbed ~> (blocks = 0 \/ ~ undisturbed)
-----------------------------------------------------------------------------
(* The tooltips of the tabs say what each counts, "Priority 1 photos" and  *)
(* the like.  With every operation and job done they do.                   *)
Settled == op = Idle /\ opening = None /\ pending = <<>> /\ worker = "take"

LabelsSettle == Settled => labels = Count(rows, prio)

(* rs_store_set_flags() is documented to set the priority of a thumbnail:  *)
(* the thumbnail shows the one that is saved, once it is loaded.           *)
FlagsKept == Settled => \A r \in rows : prio[r] = disk[FileOf[r]]
=============================================================================
