------------------------------- MODULE Export -------------------------------
(***************************************************************************)
(* The two ways photos are exported outside of the main thread.            *)
(*                                                                         *)
(* The batch queue (src/src/rs-batch.c): a list of photos with the setting *)
(* to export, saved in batch-queue.xml at each change and read back at the *)
(* start.  A thread takes the first row, exports it and removes it, until  *)
(* none is left; it lets go of the gdk lock while it renders and wherever  *)
(* it looks for events, and meanwhile the user changes the list.           *)
(*                                                                         *)
(* The job queue (src/librawstudio/rs-job-queue.c): a thread pool, used by *)
(* the export dialog (src/src/rs-save-dialog.c), whose jobs each have a    *)
(* slot in a window.                                                       *)
(*                                                                         *)
(* The gdk lock is recursive; letting go of it without having it does      *)
(* nothing.  A handler of the main thread that takes no other lock and     *)
(* writes no file is one step, made while nobody has that lock.            *)
(***************************************************************************)
EXTENDS Integers, Sequences, FiniteSets, SequencesExt

CONSTANTS Entries,      \* photos with a setting, that may be exported
          Jobs,         \* export dialogs
          Main,
          BatchThreads, \* threads for the batch queue; the program means to have one
          Workers,      \* threads of the pool
          MaxEvents,    \* bound: what the user does, failed writes, ends of the program
          MaxCrashes,   \* bound: ends of the program
          None, Torn

Threads == {Main} \cup BatchThreads \cup Workers

ASSUME ExportAssumption ==
         /\ IsFiniteSet(BatchThreads) /\ IsFiniteSet(Workers)
         /\ Main \notin BatchThreads \cup Workers /\ BatchThreads \cap Workers = {}
         /\ None \notin Threads \cup Entries \cup Jobs
         /\ Torn \notin Seq(Entries)
         /\ MaxEvents \in Nat /\ MaxCrashes \in Nat

VARIABLES
  gdk,          \* the gdk lock: its owner, and how often
  queueLock,    \* the lock of the job queue
  list,         \* rows of the batch queue; a row has an identity of its own
  lastRow,      \* the identity given last
  file,         \* batch-queue.xml
  process,      \* process_thread is not NULL
  batch,        \* of each batch thread: where it is, and its locals
  main,         \* the handler the main thread is in
  pool,         \* jobs that wait for a thread
  work,         \* of each thread of the pool: where it is, and its job
  slots,        \* n_slots
  ops, crashes, \* count: what the user does and failed writes; ends of the program
  owed,         \* history: what the user added, and neither took out nor got exported
  dropped,      \* history: entries given up because their photo cannot be loaded
  unsaved,      \* history: no writer for the file could be made the last time
  again,        \* history: a row was exported whose entry had been before
  stale,        \* history: a row was used that is gone, or without the lock
  cut           \* history: the program ended with the file not as the list was

locks == <<gdk, queueLock>>
batchVars == <<list, lastRow, file, process, batch>>
jobVars == <<pool, work, slots>>
bounds == <<ops, crashes>>
history == <<owed, dropped, unsaved, again, stale, cut>>
vars == <<locks, batchVars, main, jobVars, bounds, history>>

Free == [owner |-> None, depth |-> 0]

Off == [at |-> "off", row |-> 0, entry |-> None, left |-> 0, abort |-> FALSE]

Rest == [at |-> "idle", job |-> None, todo |-> <<>>]

Lazy == [at |-> "idle", job |-> None]

Init ==
  /\ gdk = Free /\ queueLock = None
  /\ list = <<>> /\ lastRow = 0 /\ file = <<>> /\ process = FALSE
  /\ batch = [t \in BatchThreads |-> Off]
  /\ main = Rest
  /\ pool = <<>> /\ work = [w \in Workers |-> Lazy] /\ slots = 0
  /\ ops = 0 /\ crashes = 0
  /\ owed = {} /\ dropped = {} /\ unsaved = FALSE
  /\ again = FALSE /\ stale = FALSE /\ cut = FALSE
-----------------------------------------------------------------------------
(* rs_gdk_lock() and rs_gdk_unlock(), a GRecMutex *)

CanEnter(t) == gdk.owner \in {None, t}

Entered(t) == [owner |-> t, depth |-> gdk.depth + 1]

Left(t) ==
  IF gdk.owner # t THEN gdk
  ELSE IF gdk.depth = 1 THEN Free
  ELSE [gdk EXCEPT !.depth = @ - 1]

Enter(t) == CanEnter(t) /\ gdk' = Entered(t)

Leave(t) == gdk' = Left(t)

(* Enter, do something on the screen, leave: that is, wait for the lock.   *)
Pass(t) == gdk.owner = None /\ UNCHANGED gdk
-----------------------------------------------------------------------------
(* The list and its file *)

Listed == {list[i].entry : i \in DOMAIN list}

RowThere(row) == \E i \in DOMAIN list : list[i].row = row

Content == [i \in DOMAIN list |-> list[i].entry]

RemoveRow(i) == list' = RemoveAt(list, i)

Counted == ops + crashes < MaxEvents /\ ops' = ops + 1

(* batch_queue_save(): without a writer the file stays as it was.  It is   *)
(* written when the writer is freed, to its end or not.                    *)
Opened == file' = Torn /\ UNCHANGED unsaved

NoWriter == unsaved' = TRUE /\ UNCHANGED file

Written ==
  \/ file' = Content /\ unsaved' = FALSE /\ UNCHANGED ops
  \/ file' = Torn /\ UNCHANGED unsaved /\ Counted

(* A batch thread works on the list without the gdk lock. *)
Unguarded ==
  \E t \in BatchThreads : batch[t].at \in {"remove", "save", "top"} /\ gdk.owner # t

(* A handler of the main thread has the list changed, and saves it. *)
Handler ==
  /\ main.at = "idle" /\ CanEnter(Main)
  /\ Counted
  /\ UNCHANGED <<crashes, again, cut>>

Changes ==
  /\ Handler
  /\ \/ Opened /\ Enter(Main) /\ main' = [Rest EXCEPT !.at = "save"]
     \/ NoWriter /\ Pass(Main) /\ UNCHANGED main
  /\ stale' = (stale \/ Unguarded)
  /\ UNCHANGED <<queueLock, process, batch, jobVars>>

(* rs_batch_add_to_queue(): saved even if the entry is there already. *)
AppendRow(e) ==
  IF e \in Listed
  THEN UNCHANGED <<list, lastRow>>
  ELSE /\ lastRow' = lastRow + 1
       /\ list' = Append(list, [entry |-> e, row |-> lastRow'])

AddToQueue(e) ==
  /\ Changes
  /\ AppendRow(e)
  /\ IF e \in Listed
     THEN UNCHANGED <<owed, dropped>>
     ELSE owed' = owed \cup {e} /\ dropped' = dropped \ {e}

(* rs_batch_remove_from_queue() and the button "Remove" *)
RemoveFromQueue(e) ==
  /\ Changes
  /\ IF e \in Listed
     THEN \E i \in DOMAIN list : list[i].entry = e /\ RemoveRow(i)
     ELSE UNCHANGED list
  /\ owed' = owed \ {e}
  /\ UNCHANGED <<lastRow, dropped>>

(* The button "Remove All", which a list without rows disables. *)
RemoveAll ==
  /\ list # <<>>
  /\ Changes
  /\ list' = <<>> /\ owed' = {}
  /\ UNCHANGED <<lastRow, dropped>>

SaveQueue ==
  /\ main.at = "save"
  /\ Written
  /\ Leave(Main)
  /\ main' = Rest
  /\ UNCHANGED <<queueLock, list, lastRow, process, batch, jobVars, crashes, owed, dropped,
                 again, stale, cut>>

(* The view is reorderable: a row that is dragged is inserted anew and then *)
(* removed at its old place.  The file is not saved.                        *)
DragRow(i, to) ==
  /\ Handler
  /\ gdk.owner = None
  /\ i # to
  /\ list' = InsertAt(RemoveAt(list, i), to, [list[i] EXCEPT !.row = lastRow + 1])
  /\ lastRow' = lastRow + 1
  /\ stale' = (stale \/ Unguarded)
  /\ UNCHANGED <<locks, file, process, batch, main, jobVars, owed, dropped, unsaved>>

(* batch_queue_load(), before the main loop runs: each entry is added, and *)
(* with it the file is saved with what was added so far.                   *)
LoadEntry ==
  /\ main.at = "load"
  /\ main.todo # <<>>
  /\ AppendRow(Head(main.todo))
  /\ \/ /\ Opened /\ UNCHANGED ops
        /\ main' = [main EXCEPT !.at = "load_save", !.todo = Tail(@)]
     \/ /\ NoWriter /\ Counted
        /\ main' = [main EXCEPT !.todo = Tail(@)]
  /\ UNCHANGED <<locks, process, batch, jobVars, crashes, owed, dropped, again, stale, cut>>

LoadSave ==
  /\ main.at = "load_save"
  /\ Written
  /\ main' = [main EXCEPT !.at = "load"]
  /\ UNCHANGED <<locks, list, lastRow, process, batch, jobVars, crashes, owed, dropped,
                 again, stale, cut>>

Loaded ==
  /\ main.at = "load" /\ main.todo = <<>>
  /\ main' = Rest
  /\ UNCHANGED <<locks, batchVars, jobVars, bounds, history>>
-----------------------------------------------------------------------------
(* rs_batch_process() *)

BatchUnchanged == UNCHANGED <<queueLock, main, jobVars, bounds>>

Step(t, at) == batch' = [batch EXCEPT ![t].at = at]

Starts ==
  LET t == CHOOSE t \in BatchThreads : batch[t] = Off
  IN  /\ process' = TRUE
      /\ batch' = [batch EXCEPT ![t].at = "start"]

(* The action "ProcessBatch" is sensitive when there are rows. *)
ProcessBatch_Again ==
  /\ Handler
  /\ list # <<>> /\ gdk.owner = None
  /\ \E t \in BatchThreads : batch[t] = Off
  /\ Starts
  /\ UNCHANGED <<locks, list, lastRow, file, main, jobVars, owed, dropped, unsaved,
                 stale>>

ProcessBatch ==
  /\ Handler
  /\ list # <<>> /\ gdk.owner = None
  /\ IF process THEN UNCHANGED <<process, batch>> ELSE Starts
  /\ UNCHANGED <<locks, list, lastRow, file, main, jobVars, owed, dropped, unsaved,
                 stale>>

(* The button "Cancel" of the window of the batch *)
Cancel(t) ==
  /\ Handler
  /\ gdk.owner = None
  /\ batch[t].at \notin {"off", "start", "end"}
  /\ batch' = [batch EXCEPT ![t].abort = TRUE]
  /\ UNCHANGED <<locks, list, lastRow, file, process, main, jobVars, owed, dropped, unsaved,
                 stale>>

BatchStart(t) ==
  /\ batch[t].at = "start"
  /\ Enter(t)
  /\ Step(t, "top")
  /\ BatchUnchanged /\ UNCHANGED <<list, lastRow, file, process, history>>

(* The loop: the first row; then gtk_events_pending() lets go of the lock. *)
BatchTop(t) ==
  /\ batch[t].at = "top"
  /\ IF list = <<>> \/ batch[t].abort
     THEN Step(t, "finish") /\ UNCHANGED gdk
     ELSE /\ batch' = [batch EXCEPT ![t].at = "pending", ![t].row = Head(list).row,
                                    ![t].entry = Head(list).entry, ![t].left = Len(list)]
          /\ Leave(t)
  /\ stale' = (stale \/ (gdk.owner # t /\ main.at = "save"))
  /\ BatchUnchanged /\ UNCHANGED <<list, lastRow, file, process, owed, dropped, unsaved,
                                    again, cut>>

BatchPending(t) ==
  /\ batch[t].at = "pending"
  /\ Pass(t)
  /\ Step(t, "load")
  /\ BatchUnchanged /\ UNCHANGED <<list, lastRow, file, process, history>>

(* A photo that cannot be loaded goes straight to the removal of its row,  *)
(* without the lock.                                                       *)
BatchLoad(t) ==
  /\ batch[t].at = "load"
  /\ \/ Step(t, "preview") /\ UNCHANGED dropped
     \/ Step(t, "remove") /\ dropped' = dropped \cup {batch[t].entry}
     \/ Step(t, "failed") /\ UNCHANGED dropped     \* no output directory
  /\ BatchUnchanged
  /\ UNCHANGED <<gdk, list, lastRow, file, process, owed, unsaved, again, stale, cut>>

(* With the preview rendered, the next row is looked at to prefetch it. *)
BatchPreview(t) ==
  /\ batch[t].at = "preview"
  /\ Pass(t)
  /\ stale' = (stale \/ (batch[t].left > 1 /\ ~ RowThere(batch[t].row)))
  /\ Step(t, "saving")
  /\ BatchUnchanged /\ UNCHANGED <<list, lastRow, file, process, owed, dropped, unsaved,
                                    again, cut>>

BatchSaving(t) ==
  /\ batch[t].at = "saving"
  /\ Pass(t)
  /\ Step(t, "output")
  /\ BatchUnchanged /\ UNCHANGED <<list, lastRow, file, process, history>>

(* rs_output_execute() *)
BatchOutput(t) ==
  /\ batch[t].at = "output"
  /\ \/ /\ Step(t, "exported")
        /\ owed' = owed \ {batch[t].entry}
        /\ again' = (again \/ (RowThere(batch[t].row) /\ batch[t].entry \notin owed))
     \/ Step(t, "failed") /\ UNCHANGED <<owed, again>>
  /\ BatchUnchanged
  /\ UNCHANGED <<gdk, list, lastRow, file, process, dropped, unsaved, stale, cut>>

BatchExported(t) ==
  /\ batch[t].at = "exported"
  /\ Enter(t)
  /\ Step(t, "remove")
  /\ BatchUnchanged /\ UNCHANGED <<list, lastRow, file, process, history>>

BatchFailed_Removes(t) ==
  /\ batch[t].at = "failed"
  /\ Enter(t)
  /\ Step(t, "remove")
  /\ BatchUnchanged /\ UNCHANGED <<list, lastRow, file, process, history>>

(* A failure ends the loop, with the row in the list. *)
BatchFailed(t) ==
  /\ batch[t].at = "failed"
  /\ Enter(t)
  /\ Step(t, "finish")
  /\ BatchUnchanged /\ UNCHANGED <<list, lastRow, file, process, history>>

(* gtk_list_store_remove() of a row that is gone may remove any other. *)
BatchRemove(t) ==
  LET gone == ~ RowThere(batch[t].row)
  IN  /\ batch[t].at = "remove"
      /\ IF gone
         THEN UNCHANGED list \/ \E i \in DOMAIN list : RemoveRow(i)
         ELSE \E i \in DOMAIN list : list[i].row = batch[t].row /\ RemoveRow(i)
      /\ stale' = (stale \/ gone \/ (gdk.owner # t /\ main.at = "save"))
      /\ \/ Opened /\ UNCHANGED ops /\ Step(t, "save")
         \/ NoWriter /\ Counted /\ Step(t, "top")
      /\ UNCHANGED <<locks, main, jobVars, crashes, lastRow, process, owed, dropped,
                     again, cut>>

BatchSave(t) ==
  /\ batch[t].at = "save"
  /\ Written
  /\ Step(t, "top")
  /\ UNCHANGED <<locks, list, lastRow, process, main, jobVars, crashes, owed, dropped,
                 again, stale, cut>>

BatchFinish(t) ==
  /\ batch[t].at = "finish"
  /\ Leave(t)
  /\ Step(t, "end")
  /\ BatchUnchanged /\ UNCHANGED <<list, lastRow, file, process, history>>

BatchEnd(t) ==
  /\ batch[t].at = "end"
  /\ Pass(t)
  /\ process' = FALSE
  /\ batch' = [batch EXCEPT ![t] = Off]
  /\ BatchUnchanged /\ UNCHANGED <<list, lastRow, file, history>>
-----------------------------------------------------------------------------
(* The job queue and the export dialog *)

InUse(j) == main.job = j \/ j \in ToSet(pool) \/ \E w \in Workers : work[w].job = j

(* save_clicked() hides the dialog and adds the job, with the gdk lock. *)
SaveClicked(j) ==
  /\ ~ InUse(j)
  /\ Handler
  /\ Enter(Main)
  /\ main' = [Rest EXCEPT !.at = "add_job", !.job = j]
  /\ UNCHANGED <<queueLock, batchVars, jobVars, owed, dropped, unsaved,
                 stale>>

(* rs_job_queue_add_job() *)
AddJob ==
  /\ main.at = "add_job"
  /\ queueLock = None
  /\ pool' = Append(pool, main.job)
  /\ Leave(Main)
  /\ main' = Rest
  /\ UNCHANGED <<queueLock, batchVars, work, slots, bounds, history>>

JobUnchanged == UNCHANGED <<batchVars, main, bounds, history>>

JobStep(w, at) == work' = [work EXCEPT ![w].at = at]

TakeJob(w) ==
  /\ work[w].at = "idle"
  /\ pool # <<>>
  /\ work' = [work EXCEPT ![w] = [at |-> "slot", job |-> Head(pool)]]
  /\ pool' = Tail(pool)
  /\ JobUnchanged /\ UNCHANGED <<locks, slots>>

LockQueue(w) ==
  /\ work[w].at \in {"slot", "unslot"}
  /\ queueLock = None /\ queueLock' = w
  /\ JobStep(w, IF work[w].at = "slot" THEN "add_slot" ELSE "remove_slot")
  /\ JobUnchanged /\ UNCHANGED <<gdk, pool, slots>>

AddSlot_NotCounted(w) ==
  /\ work[w].at = "add_slot"
  /\ Pass(w)
  /\ queueLock' = None
  /\ JobStep(w, "describe")
  /\ JobUnchanged /\ UNCHANGED <<pool, slots>>

(* rs_job_queue_add_slot() takes the gdk lock with the lock of the queue.  *)
AddSlot(w) ==
  /\ work[w].at = "add_slot"
  /\ Pass(w)
  /\ queueLock' = None
  /\ slots' = slots + 1
  /\ JobStep(w, "describe")
  /\ JobUnchanged /\ UNCHANGED pool

(* job(): without a name for the file it ends at once. *)
Describe(w) ==
  /\ work[w].at = "describe"
  /\ \/ JobStep(w, "unslot") /\ UNCHANGED gdk
     \/ JobStep(w, "begin") /\ Pass(w)
  /\ JobUnchanged /\ UNCHANGED <<queueLock, pool, slots>>

(* Progress and messages, each of them with the gdk lock *)
Show(w) ==
  /\ Pass(w)
  /\ \/ work[w].at = "begin" /\ JobStep(w, "output")
     \/ work[w].at = "error" /\ JobStep(w, "progress")
     \/ work[w].at = "progress" /\ JobStep(w, "destroy")
     \/ work[w].at = "destroy" /\ JobStep(w, "unslot")
  /\ JobUnchanged /\ UNCHANGED <<queueLock, pool, slots>>

Output(w) ==
  /\ work[w].at = "output"
  /\ JobStep(w, "progress") \/ JobStep(w, "error")
  /\ JobUnchanged /\ UNCHANGED <<locks, pool, slots>>

RemoveSlot_KeepsLock(w) ==
  /\ work[w].at = "remove_slot"
  /\ Pass(w)
  /\ slots' = slots - 1
  /\ work' = [work EXCEPT ![w] = Lazy]
  /\ JobUnchanged /\ UNCHANGED <<queueLock, pool>>

(* rs_job_queue_remove_slot(); then the job is freed. *)
RemoveSlot(w) ==
  /\ work[w].at = "remove_slot"
  /\ Pass(w)
  /\ queueLock' = None
  /\ slots' = slots - 1
  /\ work' = [work EXCEPT ![w] = Lazy]
  /\ JobUnchanged /\ UNCHANGED pool
-----------------------------------------------------------------------------
(* The program ends, at once or by "Quit", which waits for neither queue,  *)
(* and is started again.                                                   *)
Restart ==
  /\ crashes < MaxCrashes /\ ops + crashes < MaxEvents
  /\ crashes' = crashes + 1
  /\ cut' = (cut \/ file = Torn \/ unsaved \/ (main.at = "load" /\ main.todo # <<>>))
  /\ gdk' = Free /\ queueLock' = None
  /\ list' = <<>> /\ process' = FALSE
  /\ batch' = [t \in BatchThreads |-> Off]
  /\ main' = [Rest EXCEPT !.at = "load", !.todo = IF file = Torn THEN <<>> ELSE file]
  /\ pool' = <<>> /\ work' = [w \in Workers |-> Lazy] /\ slots' = 0
  /\ UNCHANGED <<lastRow, file, ops, owed, dropped, unsaved, again, stale>>

UserStep ==
  \/ \E e \in Entries : AddToQueue(e) \/ RemoveFromQueue(e)
  \/ \E i, to \in DOMAIN list : DragRow(i, to)
  \/ RemoveAll \/ ProcessBatch
  \/ \E t \in BatchThreads : Cancel(t)
  \/ \E j \in Jobs : SaveClicked(j)

MainStep == SaveQueue \/ LoadEntry \/ LoadSave \/ Loaded \/ AddJob

BatchStep(t) ==
  \/ BatchStart(t) \/ BatchTop(t) \/ BatchPending(t) \/ BatchLoad(t)
  \/ BatchPreview(t) \/ BatchSaving(t) \/ BatchOutput(t)
  \/ BatchExported(t) \/ BatchFailed(t) \/ BatchRemove(t) \/ BatchSave(t)
  \/ BatchFinish(t) \/ BatchEnd(t)

WorkerStep(w) ==
  \/ TakeJob(w) \/ LockQueue(w) \/ AddSlot(w) \/ Describe(w) \/ Show(w)
  \/ Output(w) \/ RemoveSlot(w)

Next == \/ UserStep \/ MainStep \/ Restart
        \/ \E t \in BatchThreads : BatchStep(t)
        \/ \E w \in Workers : WorkerStep(w)

Spec == Init /\ [][Next]_vars

(* Threads go on with what they began; messages are closed by the user.    *)
FairSpec ==
  /\ Spec
  /\ WF_vars(MainStep)
  /\ \A t \in BatchThreads : WF_vars(BatchStep(t))
  /\ \A w \in Workers : WF_vars(WorkerStep(w))
-----------------------------------------------------------------------------
TypeOK ==
  /\ gdk.owner \in Threads \cup {None} /\ gdk.depth \in {0, 1}
  /\ gdk.owner = None <=> gdk.depth = 0
  /\ queueLock \in Workers \cup {None}
  /\ list \in Seq([entry : Entries, row : 1 .. lastRow])
  /\ file = Torn \/ file \in Seq(Entries)
  /\ process \in BOOLEAN
  /\ \A t \in BatchThreads : batch[t].entry \in Entries \cup {None}
  /\ main.todo \in Seq(Entries) /\ pool \in Seq(Jobs)
  /\ slots \in 0 .. Cardinality(Workers)
  /\ owed \cup dropped \subseteq Entries

Sound == ~ stale /\ ~ cut

(* What is still to be exported: all the user added and neither took out   *)
(* nor got exported, but for what the program gave up.                     *)
Due == owed \ dropped

(* What the user puts in the batch queue and does not take out again stays *)
(* there, and in its file, until it was exported, although a thread and    *)
(* the user change the list in turns, an export fails, is cancelled or is  *)
(* cut short by the end of the program.  Excepted are:                     *)
(*   - a photo that cannot be loaded, which is not exported and yet taken  *)
(*     out (dropped);                                                      *)
(*   - rows the user moves or removes while they are being exported (stale); *)
(*   - an end of the program while the file is written or read back, or    *)
(*     when the last writer for it could not be made (cut);                *)
(*   - the file, as long as no writer for it could be made (unsaved).      *)
EntriesKept ==
  Sound =>
    /\ main.at \notin {"load", "load_save"} => Due \subseteq Listed
    /\ main.at \in {"load", "load_save"} => Due \subseteq Listed \cup ToSet(main.todo)
    /\ file # Torn /\ main.at = "idle" /\ ~ unsaved => Due \subseteq ToSet(file)

(* Each is exported once, and its row is gone then, as is the row of a     *)
(* photo that cannot be loaded.  After the end of the program in between   *)
(* it is exported once more.                                               *)
ExportedOnce ==
  Sound /\ crashes = 0 =>
    /\ ~ again
    /\ \A e \in Listed \ Due :
         \E t \in BatchThreads : batch[t].entry = e /\ batch[t].at \in {"exported", "remove"}

(* add_slot() and remove_slot() wait for the gdk lock with the lock of the *)
(* queue, and the main thread for that with the gdk lock: neither goes on. *)
Crossed ==
  main.at = "add_job" /\ \E w \in Workers : work[w].at \in {"add_slot", "remove_slot"}

(* Exports end: no thread waits for a lock for ever, whatever photo could  *)
(* not be loaded or saved, unless these two cross.                         *)
Resting ==
  /\ main = Rest /\ pool = <<>>
  /\ \A t \in BatchThreads : batch[t] = Off
  /\ \A w \in Workers : work[w] = Lazy

ExportsEnd == []<>(Resting \/ Crossed)
=============================================================================
