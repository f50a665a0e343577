------------------------------- MODULE Library -------------------------------
(***************************************************************************)
(* The library of photos and tags (src/librawstudio/rs-library.c): an      *)
(* SQLite database that the io worker, the main thread and the tethering   *)
(* thread use through one connection, and tags.xml, the file beside the    *)
(* photos of a directory that its user can restore the tags from.          *)
(*                                                                         *)
(* Each SQL statement is one step.  Photos and tags are never deleted: a   *)
(* row id is the position of the row, and last_insert_rowid() belongs to   *)
(* the connection, whichever thread and table it was that inserted.  Rows  *)
(* of the database hold what they mean: a photo its file, a tag its name.  *)
(* There is one directory.                                                 *)
(***************************************************************************)
EXTENDS Integers, Sequences, FiniteSets, SequencesExt

CONSTANTS Files,        \* photos of the directory
          Captures,     \* those the camera may still take
          Names,        \* tags
          TetherNames,  \* "tether-tags-for-new-images"
          AutoNames,    \* the tags the metadata of a photo give it
          Io, Main, Tether,     \* the threads
          MaxOps,       \* bound: what users and cameras do
          MaxCrashes,   \* bound: crashes
          MaxFailures,  \* bound: directories and files not to be written
          None, Torn

Threads == {Io, Main, Tether}

(* A tag as a photo carries it: its name, and whether it is automatic. *)
Mark == [name : Names, auto : BOOLEAN]

UserMarks == {m \in Mark : ~ m.auto}

ASSUME LibraryAssumption ==
         /\ Captures \subseteq Files
         /\ IsFiniteSet(Files) /\ IsFiniteSet(Names)
         /\ TetherNames \subseteq Names /\ TetherNames # {}
         /\ AutoNames \in [Files -> SUBSET Names]
         /\ Cardinality(Threads) = 3
         /\ MaxOps \in Nat /\ MaxCrashes \in Nat /\ MaxFailures \in Nat
         /\ None \notin Files \cup Names \cup Threads
         /\ Torn # None /\ \A x \in [Files -> SUBSET Mark] : x \notin {None, Torn}

VARIABLES
  db,           \* tables: photos, their checksums, tags, and phototags
  committed,    \* the database when the open transaction began, or None
  rowid,        \* sqlite3_last_insert_rowid() of the connection
  idLock, backupLock,   \* which thread holds them, or None
  xml,          \* tags.xml: None without the file, Torn while it is written
  disk,         \* the photos that are there
  jobs,         \* what the io queue holds for each priority
  frame,        \* of each thread: the call it is in and its locals
  ops, crashes, failures,       \* count, for the bounds
  lastBackup,   \* history: what the last backup of this session found
  given,        \* history: tags that users gave photos, ever
  promised      \* history: those tags.xml held at first, less those removed

dbVars == <<db, committed, rowid>>
lockVars == <<idLock, backupLock>>
bounds == <<ops, crashes, failures>>
history == <<lastBackup, given, promised>>
vars == <<dbVars, lockVars, xml, disk, jobs, frame, bounds, history>>

Idle == [at |-> "idle", call |-> None, file |-> None, id |-> 0, tag |-> 0,
         todo |-> {}, mark |-> None, more |-> {}]

NoJobs == [metadata |-> <<>>, checksum |-> <<>>, tagging |-> <<>>]

Empty == [photos |-> <<>>, sums |-> <<>>, tags |-> <<>>, marks |-> {}]

FirstOf_MinusOne(rows, value) ==
  IF \E i \in DOMAIN rows : rows[i] = value
  THEN CHOOSE i \in DOMAIN rows : rows[i] = value
  ELSE -1

(* library_find_photo_id(), library_find_tag_id(): the first row, or 0. *)
FirstOf(rows, value) ==
  IF \E i \in DOMAIN rows : rows[i] = value
  THEN CHOOSE i \in DOMAIN rows :
         rows[i] = value /\ \A k \in 1 .. i - 1 : rows[k] # value
  ELSE 0

FindPhotoId(f) == FirstOf(db.photos, f)

FindTagId(name) == FirstOf(db.tags, name)

(* The query of rs_library_backup_tags(). *)
MarksOf(d, f) ==
  {[name |-> d.tags[k.tag], auto |-> k.auto] :
     k \in {k \in d.marks : d.photos[k.photo] = f}}

(* The library with the photos of x, as a session that ended left it. *)
Stored(x) ==
  LET order == SetToSeq({f \in Files : x[f] # {}})
      names == SetToSeq(UNION {{m.name : m \in x[f]} : f \in Files})
  IN  [photos |-> order, sums |-> order, tags |-> names,
       marks |-> {k \in [photo : DOMAIN order, tag : DOMAIN names, auto : BOOLEAN] :
                    [name |-> names[k.tag], auto |-> k.auto] \in x[order[k.photo]]}]

(* What earlier sessions may have left in tags.xml. *)
Left == {x \in [Files -> SUBSET Mark] :
           \A f \in Files :
              /\ f \in Captures => x[f] = {}
              /\ \A m \in x[f] : m.auto <=> m.name \in AutoNames[f]
              /\ x[f] # {} => AutoNames[f] \subseteq {m.name : m \in x[f]}}

Users(x) == UNION {{<<f, m.name>> : m \in x[f] \cap UserMarks} : f \in Files}

Init ==
  /\ \E x \in Left : /\ xml \in {x} \cup (IF x = [f \in Files |-> {}] THEN {None} ELSE {})
                     /\ db \in {Empty, Stored(x)}
                     /\ given = Users(x) /\ promised = Users(x)
  /\ committed = None /\ rowid = 0
  /\ idLock = None /\ backupLock = None
  /\ disk = Files \ Captures
  /\ jobs = NoJobs /\ frame = [t \in Threads |-> Idle]
  /\ ops = 0 /\ crashes = 0 /\ failures = 0
  /\ lastBackup = "none"
-----------------------------------------------------------------------------
(* Jobs: metadata before checksums before tags, each kind in its order.    *)

Queue(kind, job) == jobs' = [jobs EXCEPT ![kind] = Append(@, job)]

Task(what, f, id) == [what |-> what, file |-> f, id |-> id]

Goto(t, step) == frame' = [frame EXCEPT ![t].at = step]

Return(t) == frame' = [frame EXCEPT ![t] = Idle]

At(t, step) == frame[t].at = step

(* The loop over tags: once there are none left, the metadata's transaction *)
(* is committed, and tags.xml is read on.                                   *)
Loop(call, todo) ==
  IF todo # {} THEN "tags" ELSE IF call = "restore" THEN "files" ELSE "commit"

(* The metadata come in a transaction, tags.xml without one. *)
AfterPhoto(call, todo) == IF call = "restore" THEN Loop(call, todo) ELSE "begin"

(* library_add_photo(): insert, ask for the id, unlock, queue a checksum. *)
InsertPhoto(t) ==
  /\ At(t, "insert")
  /\ idLock = None
  /\ idLock' = t
  /\ db' = [db EXCEPT !.photos = Append(@, frame[t].file), !.sums = Append(@, None)]
  /\ rowid' = Len(db.photos) + 1
  /\ Goto(t, "id")
  /\ UNCHANGED <<committed, backupLock, xml, disk, jobs, bounds, history>>

PhotoId(t) ==
  /\ At(t, "id")
  /\ idLock' = None
  /\ Queue("checksum", [file |-> frame[t].file, id |-> rowid])
  /\ frame' = [frame EXCEPT ![t] =
       [@ EXCEPT !.id = rowid, !.at = AfterPhoto(frame[t].call, frame[t].todo)]]
  /\ UNCHANGED <<dbVars, backupLock, xml, disk, bounds, history>>

(* rs_library_add_tag(): look the name up; library_add_tag() if it is new. *)
(* The two are not one step, so two threads may add the same name.         *)
AfterTag(call) == IF call \in {"metadata", "restore"} THEN "mark" ELSE "queue"

FindTag(t, m) ==
  /\ At(t, "tags")
  /\ m \in frame[t].todo
  /\ LET id == FindTagId(m.name)
     IN  frame' = [frame EXCEPT ![t] =
           [@ EXCEPT !.todo = frame[t].todo \ {m}, !.mark = m, !.tag = id,
                     !.at = IF id = 0 THEN "new_tag" ELSE AfterTag(frame[t].call)]]
  /\ UNCHANGED <<dbVars, lockVars, xml, disk, jobs, bounds, history>>

InsertTag(t) ==
  /\ At(t, "new_tag")
  /\ idLock = None
  /\ idLock' = t
  /\ db' = [db EXCEPT !.tags = Append(@, frame[t].mark.name)]
  /\ rowid' = Len(db.tags) + 1
  /\ Goto(t, "tag_id")
  /\ UNCHANGED <<committed, backupLock, xml, disk, jobs, bounds, history>>

TagId(t) ==
  /\ At(t, "tag_id")
  /\ idLock' = None
  /\ frame' = [frame EXCEPT ![t] =
       [@ EXCEPT !.tag = rowid, !.at = AfterTag(frame[t].call)]]
  /\ UNCHANGED <<dbVars, backupLock, xml, disk, jobs, bounds, history>>

AddMark_NoLock(id, tag, auto) ==
  /\ db' = [db EXCEPT !.marks = @ \cup {[photo |-> id, tag |-> tag, auto |-> auto]}]
  /\ rowid' = Cardinality(db'.marks)

(* library_photo_add_tag(): phototags has row ids too. *)
AddMark(id, tag, auto) ==
  /\ idLock = None
  /\ db' = [db EXCEPT !.marks = @ \cup {[photo |-> id, tag |-> tag, auto |-> auto]}]
  /\ rowid' = Cardinality(db'.marks)

InsertMark(t) ==
  /\ At(t, "mark")
  /\ AddMark(frame[t].id, frame[t].tag, frame[t].mark.auto)
  /\ Goto(t, Loop(frame[t].call, frame[t].todo))
  /\ UNCHANGED <<committed, lockVars, xml, disk, jobs, bounds, history>>
-----------------------------------------------------------------------------
(* rs_library_add_photo_with_metadata(): the worker is done with it then;  *)
(* the tethering thread goes on to give a tag of its own.                  *)

Added(t) ==
  IF t # Tether
  THEN Return(t)
  ELSE \E name \in TetherNames :
          frame' = [frame EXCEPT ![t] =
            [Idle EXCEPT !.call = "give", !.at = "tags", !.more = {frame[t].file},
                         !.todo = {[name |-> name, auto |-> FALSE]}]]

KnownPhoto(t) ==
  /\ At(t, "find")
  /\ IF FindPhotoId(frame[t].file) > 0 THEN Added(t) ELSE Goto(t, "insert")
  /\ UNCHANGED <<dbVars, lockVars, xml, disk, jobs, bounds, history>>

(* library_photo_default_tags(): a BEGIN inside of a transaction fails, and *)
(* the first COMMIT ends it for everyone.                                   *)
Begin(t) ==
  /\ At(t, "begin")
  /\ committed' = IF committed = None THEN db ELSE committed
  /\ Goto(t, Loop(frame[t].call, frame[t].todo))
  /\ UNCHANGED <<db, rowid, lockVars, xml, disk, jobs, bounds, history>>

Commit(t) ==
  /\ At(t, "commit")
  /\ committed' = None
  /\ Added(t)
  /\ UNCHANGED <<db, rowid, lockVars, xml, disk, jobs, bounds, history>>
-----------------------------------------------------------------------------
(* rs_library_restore_tags(), which does not take backup_lock *)

Restoring == ~ At(Io, "idle") /\ frame[Io].call = "restore"

ReadXml ==
  /\ At(Io, "read")
  /\ IF xml \in {None, Torn}
     THEN Return(Io)
     ELSE frame' = [frame EXCEPT ![Io] =
            [@ EXCEPT !.at = "files", !.more = {e \in Files \X Mark : e[2] \in xml[e[1]]}]]
  /\ UNCHANGED <<dbVars, lockVars, xml, disk, jobs, bounds, history>>

RestoreFile(f) ==
  LET marks == {e[2] : e \in {e \in frame[Io].more : e[1] = f}}
  IN  /\ At(Io, "files")
      /\ marks # {}
      /\ frame' = [frame EXCEPT ![Io] =
           [@ EXCEPT !.more = {e \in frame[Io].more : e[1] # f}, !.file = f, !.todo = marks,
                     !.at = IF FindPhotoId(f) = 0 /\ f \in disk THEN "add" ELSE "files"]]
      /\ UNCHANGED <<dbVars, lockVars, xml, disk, jobs, bounds, history>>

(* rs_library_add_photo() looks the photo up once more. *)
AddPhoto ==
  /\ At(Io, "add")
  /\ LET id == FindPhotoId(frame[Io].file)
     IN  frame' = [frame EXCEPT ![Io] =
           [@ EXCEPT !.id = id,
                     !.at = IF id = 0 THEN "insert" ELSE Loop("restore", frame[Io].todo)]]
  /\ UNCHANGED <<dbVars, lockVars, xml, disk, jobs, bounds, history>>

FilesDone ==
  /\ At(Io, "files")
  /\ frame[Io].more = {}
  /\ Return(Io)
  /\ UNCHANGED <<dbVars, lockVars, xml, disk, jobs, bounds, history>>
-----------------------------------------------------------------------------
(* rs_library_backup_tags() *)

StartBackup(t) ==
  /\ At(t, "backup")
  /\ backupLock = None
  /\ backupLock' = t
  /\ \/ /\ xml' = Torn                  \* the file is created anew
        /\ Goto(t, "query")
        /\ UNCHANGED <<failures, lastBackup>>
     \/ /\ failures < MaxFailures       \* rs_dotdir_get() returned NULL
        /\ failures' = failures + 1
        /\ lastBackup' = "leaked_lock"
        /\ Return(t)
        /\ UNCHANGED xml
     \/ /\ failures < MaxFailures       \* the file cannot be opened
        /\ failures' = failures + 1
        /\ lastBackup' = "failed"
        /\ Goto(t, "no_writer")
        /\ UNCHANGED xml
  /\ UNCHANGED <<dbVars, idLock, disk, jobs, ops, crashes, given, promised>>

NoWriter_KeepsLock(t) ==
  /\ At(t, "no_writer")
  /\ Return(t)
  /\ UNCHANGED <<dbVars, lockVars, xml, disk, jobs, bounds, history>>

NoWriter(t) ==
  /\ At(t, "no_writer")
  /\ backupLock' = None
  /\ Return(t)
  /\ UNCHANGED <<dbVars, idLock, xml, disk, jobs, bounds, history>>

QueryTags(t) ==
  /\ At(t, "query")
  /\ frame' = [frame EXCEPT ![t] =
       [@ EXCEPT !.at = "write", !.more = {e \in Files \X Mark : e[2] \in MarksOf(db, e[1])}]]
  /\ lastBackup' = IF Restoring THEN "partial" ELSE "written"
  /\ UNCHANGED <<dbVars, lockVars, xml, disk, jobs, bounds, given, promised>>

WriteXml(t) ==
  /\ At(t, "write")
  /\ xml' = [f \in Files |-> {m \in Mark : <<f, m>> \in frame[t].more}]
  /\ backupLock' = None
  /\ Return(t)
  /\ UNCHANGED <<dbVars, idLock, disk, jobs, bounds, history>>
-----------------------------------------------------------------------------
(* The io worker takes the most urgent job. *)

TakeMetadata ==
  /\ At(Io, "idle")
  /\ jobs.metadata # <<>>
  /\ LET f == Head(jobs.metadata)
     IN  frame' = [frame EXCEPT ![Io] =
           [Idle EXCEPT !.call = "metadata", !.at = "find", !.file = f,
                        !.todo = {[name |-> n, auto |-> TRUE] : n \in AutoNames[f]}]]
  /\ jobs' = [jobs EXCEPT !.metadata = Tail(@)]
  /\ UNCHANGED <<dbVars, lockVars, xml, disk, bounds, history>>

(* got_checksum(): the checksum stands for the file it was made from. *)
TakeChecksum ==
  /\ At(Io, "idle")
  /\ jobs.metadata = <<>> /\ jobs.checksum # <<>>
  /\ LET job == Head(jobs.checksum)
     IN  db' = [db EXCEPT !.sums = [i \in DOMAIN @ |-> IF i = job.id THEN job.file ELSE @[i]]]
  /\ jobs' = [jobs EXCEPT !.checksum = Tail(@)]
  /\ UNCHANGED <<committed, rowid, lockVars, xml, disk, frame, bounds, history>>

(* rs_library_photo_add_tag(): unknown photos are left out. *)
GiveTag(job) ==
  LET id == FindPhotoId(job.file)
  IN  IF id > 0 /\ ~ \E k \in db.marks : k.photo = id /\ k.tag = job.id
      THEN AddMark(id, job.id, FALSE)
      ELSE UNCHANGED <<db, rowid>>

TakeTagging ==
  /\ At(Io, "idle")
  /\ jobs.metadata = <<>> /\ jobs.checksum = <<>> /\ jobs.tagging # <<>>
  /\ LET job == Head(jobs.tagging)
     IN  \/ job.what = "backup" /\ Goto(Io, "backup") /\ UNCHANGED <<db, rowid>>
         \/ /\ job.what = "restore"
            /\ frame' = [frame EXCEPT ![Io] = [@ EXCEPT !.call = "restore", !.at = "read"]]
            /\ UNCHANGED <<db, rowid>>
         \/ job.what = "tag" /\ GiveTag(job) /\ UNCHANGED frame
  /\ jobs' = [jobs EXCEPT !.tagging = Tail(@)]
  /\ UNCHANGED <<committed, lockVars, xml, disk, bounds, history>>
-----------------------------------------------------------------------------
(* The main thread and the tethering thread *)

Operation(t) ==
  /\ At(t, "idle")
  /\ ops < MaxOps
  /\ ops' = ops + 1
  /\ UNCHANGED <<crashes, failures>>

(* rs_store_remove() and load_directory(), in any order of the files *)
LoadDirectory ==
  /\ Operation(Main)
  /\ \E order \in SetToSeqs(disk) :
        jobs' = [jobs EXCEPT !.metadata = order,
                             !.tagging = Append(@, Task("restore", None, 0))]
  /\ UNCHANGED <<dbVars, lockVars, xml, disk, frame, history>>

(* search_changed() with rs_library_search() of one name: the insertions    *)
(* into its temporary tables count in last_insert_rowid() too, and are made *)
(* with id_lock held.  What it finds is loaded.                             *)
Search(name) ==
  LET found == {k.photo : k \in {k \in db.marks : db.tags[k.tag] = name}}
  IN  /\ Operation(Main)
      /\ idLock = None
      /\ rowid' = IF found = {} THEN rowid ELSE Cardinality(found)
      /\ jobs' = [jobs EXCEPT
           !.metadata = SetToSeq({db.photos[p] : p \in found} \cap disk)]
      /\ UNCHANGED <<db, committed, lockVars, xml, disk, frame, history>>

(* tag_photo_input_changed() with one tag *)
TagPhotos(files, name) ==
  /\ Operation(Main)
  /\ frame' = [frame EXCEPT ![Main] =
       [Idle EXCEPT !.call = "give", !.at = "tags",
                    !.todo = {[name |-> name, auto |-> FALSE]}, !.more = files]]
  /\ UNCHANGED <<dbVars, lockVars, xml, disk, jobs, history>>

QueueTags_BackupFirst(t) ==
  /\ At(t, "queue")
  /\ LET order == SetToSeq(frame[t].more)
     IN  jobs' = [jobs EXCEPT !.tagging =
           @ \o <<Task("backup", None, 0)>>
             \o [i \in DOMAIN order |-> Task("tag", order[i], frame[t].tag)]]
  /\ given' = given \cup {<<f, frame[t].mark.name>> : f \in frame[t].more}
  /\ Return(t)
  /\ UNCHANGED <<dbVars, lockVars, xml, disk, bounds, lastBackup, promised>>

(* With the id of the tag: a job for each photo, then one for the backup. *)
QueueTags(t) ==
  /\ At(t, "queue")
  /\ LET order == SetToSeq(frame[t].more)
     IN  jobs' = [jobs EXCEPT !.tagging =
           @ \o [i \in DOMAIN order |-> Task("tag", order[i], frame[t].tag)]
             \o <<Task("backup", None, 0)>>]
  /\ given' = given \cup {<<f, frame[t].mark.name>> : f \in frame[t].more}
  /\ Return(t)
  /\ UNCHANGED <<dbVars, lockVars, xml, disk, bounds, lastBackup, promised>>

(* rs_library_photo_remove_tag() of a photo and a tag that are known *)
RemoveTag(f, name) ==
  /\ Operation(Main)
  /\ FindPhotoId(f) > 0 /\ FindTagId(name) > 0
  /\ frame' = [frame EXCEPT ![Main] =
       [@ EXCEPT !.at = "delete", !.file = f, !.id = FindPhotoId(f), !.tag = FindTagId(name)]]
  /\ promised' = promised \ {<<f, name>>}
  /\ UNCHANGED <<dbVars, lockVars, xml, disk, jobs, lastBackup, given>>

DeleteMark ==
  /\ At(Main, "delete")
  /\ idLock = None
  /\ db' = [db EXCEPT !.marks =
       {k \in @ : k.photo # frame[Main].id \/ k.tag # frame[Main].tag}]
  /\ frame' = [frame EXCEPT ![Main] = [Idle EXCEPT !.at = "backup"]]
  /\ UNCHANGED <<committed, rowid, lockVars, xml, disk, jobs, bounds, history>>

(* transfer_file_captured(): the photo is loaded like any other, and the   *)
(* tethering thread adds it to the library itself, with empty metadata.    *)
Capture(f) ==
  /\ Operation(Tether)
  /\ f \in Captures \ disk
  /\ disk' = disk \cup {f}
  /\ Queue("metadata", f)
  /\ frame' = [frame EXCEPT ![Tether] =
       [Idle EXCEPT !.call = "metadata", !.at = "find", !.file = f]]
  /\ UNCHANGED <<dbVars, lockVars, xml, history>>

(* The program ends before its jobs do and is started again: SQLite rolls  *)
(* the open transaction back.                                              *)
Crash ==
  /\ crashes < MaxCrashes
  /\ crashes' = crashes + 1
  /\ db' = IF committed = None THEN db ELSE committed
  /\ committed' = None /\ rowid' = 0
  /\ idLock' = None /\ backupLock' = None
  /\ jobs' = NoJobs /\ frame' = [t \in Threads |-> Idle]
  /\ lastBackup' = "none"
  /\ UNCHANGED <<xml, disk, ops, failures, given, promised>>
-----------------------------------------------------------------------------
UserStep ==
  \/ LoadDirectory
  \/ \E name \in Names : \/ Search(name)
                         \/ \E files \in (SUBSET disk) \ {{}} : TagPhotos(files, name)
                         \/ \E f \in disk : RemoveTag(f, name)
  \/ \E f \in Files : Capture(f)

CallStep(t) ==
  \/ InsertPhoto(t) \/ PhotoId(t)
  \/ (\E m \in Mark : FindTag(t, m)) \/ InsertTag(t) \/ TagId(t)
  \/ InsertMark(t)
  \/ KnownPhoto(t) \/ Begin(t) \/ Commit(t)
  \/ StartBackup(t) \/ NoWriter(t) \/ QueryTags(t) \/ WriteXml(t)
  \/ QueueTags(t)

WorkerStep ==
  \/ TakeMetadata \/ TakeChecksum \/ TakeTagging
  \/ ReadXml \/ (\E f \in Files : RestoreFile(f)) \/ AddPhoto \/ FilesDone

Next == \/ UserStep \/ WorkerStep \/ DeleteMark \/ Crash
        \/ \E t \in Threads : CallStep(t)

Spec == Init /\ [][Next]_vars

(* Threads go on with what they began.  Nothing is said of the order in    *)
(* which those that wait for a mutex get it.                               *)
FairSpec ==
  /\ Spec
  /\ WF_vars(WorkerStep \/ CallStep(Io))
  /\ WF_vars(DeleteMark \/ CallStep(Main))
  /\ WF_vars(CallStep(Tether))
-----------------------------------------------------------------------------
Job == [what : {"tag", "backup", "restore"}, file : Files \cup {None}, id : Nat]

TypeOK ==
  /\ db \in [photos : Seq(Files), sums : Seq(Files \cup {None}), tags : Seq(Names),
             marks : SUBSET [photo : Nat, tag : Nat, auto : BOOLEAN]]
  /\ Len(db.sums) = Len(db.photos)
  /\ rowid \in Nat
  /\ {idLock, backupLock} \subseteq Threads \cup {None}
  /\ xml \in {None, Torn} \cup [Files -> SUBSET Mark]
  /\ disk \subseteq Files
  /\ jobs.metadata \in Seq(Files) /\ jobs.tagging \in Seq(Job)
  /\ jobs.checksum \in Seq([file : Files, id : Nat])
  /\ \A t \in Threads : frame[t].id \in Nat /\ frame[t].tag \in Nat
  /\ lastBackup \in {"none", "written", "partial", "failed", "leaked_lock"}
  /\ given \subseteq Files \X Names /\ promised \subseteq given

(* Every row says what is true: a photo carries a tag only if its metadata *)
(* or a user gave it that tag, and has the checksum of its own file, in    *)
(* whatever order three threads insert rows and ask for the last id.       *)
Attribution ==
  /\ \A k \in db.marks :
        /\ k.photo \in DOMAIN db.photos /\ k.tag \in DOMAIN db.tags
        /\ LET f == db.photos[k.photo]
               name == db.tags[k.tag]
           IN  IF k.auto THEN name \in AutoNames[f] ELSE <<f, name>> \in given
  /\ \A i \in DOMAIN db.photos : db.sums[i] \in {None, db.photos[i]}

(* With all jobs and calls done, tags.xml holds the tags that users gave,  *)
(* as the database has them: no backup is overtaken by a change or by an   *)
(* older backup.  This is from the first backup of a session on, but not   *)
(* of a backup made while tags are restored: restoring takes no            *)
(* backup_lock, and what it has read but not yet added is missing.         *)
Quiet == jobs = NoJobs /\ \A t \in Threads : frame[t] = Idle

BackupCurrent ==
  Quiet /\ lastBackup = "written" =>
    \A f \in Files : xml[f] \cap UserMarks = MarksOf(db, f) \cap UserMarks

(* Every call ends and every job is done, unless a backup that found no    *)
(* directory returned with backup_lock.                                    *)
WorkEnds == []<>(Quiet \/ lastBackup = "leaked_lock")

(* rs_library_init() turns synchronous writes off "since all data is       *)
(* re-creatable by local xml files": once the library knows a photo again, *)
(* it knows the tags that its users gave it.                               *)
Recreatable ==
  Quiet /\ crashes = 0 /\ failures = 0 =>
    \A f \in Files, name \in Names :
       <<f, name>> \in promised /\ FindPhotoId(f) > 0 =>
         \E m \in MarksOf(db, f) : m.name = name
=============================================================================
