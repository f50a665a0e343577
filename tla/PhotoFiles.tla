----------------------------- MODULE PhotoFiles -----------------------------
(***************************************************************************)
(* The files the program keeps beside a photo, and who writes them:        *)
(*                                                                         *)
(*   the sidecar (.cache.xml)     what the user did to the photo           *)
(*   the metacache (.metacache.xml)  its metadata, and whether its         *)
(*                                thumbnail was rendered with the settings *)
(*   the thumbnail (.thumb.jpg)                                            *)
(*                                                                         *)
(* Each is written in place: it is torn from the moment it is opened until *)
(* it is closed.  The main thread opens, edits, closes and flags photos,   *)
(* pastes settings, refreshes thumbnails by a timer and regenerates stale  *)
(* ones in an idle handler; the io worker reads metadata when a directory  *)
(* is loaded, and finds out which thumbnails are stale; the thread of an   *)
(* export dialog flags the photo as exported.                              *)
(*                                                                         *)
(* What the user sets is numbered by the operation that sets it, 0 being   *)
(* what a photo has untouched.  Modification times are in seconds.         *)
(*                                                                         *)
(* A file that cannot be opened for writing stays as it was, and one that  *)
(* cannot be written to its end is torn; the program goes on.              *)
(***************************************************************************)
EXTENDS Integers, Sequences, FiniteSets, SequencesExt

CONSTANTS Photos,
          Main, Io, Exporter,   \* the threads
          MaxEvents,            \* bound: what the user does, crashes, saves that fail
          MaxTime,              \* bound: seconds
          None, Torn,           \* no file, and one that cannot be parsed
          Camera                \* the thumbnail the camera put in the photo

Threads == {Main, Io, Exporter}

(* What a photo looks like: its settings, its orientation and angle, and   *)
(* its crop, of which 0 is none.                                           *)
Look == [settings : Nat, turn : Nat, crop : Nat]

(* What a sidecar holds; one with nothing but a flag is not whole.  What   *)
(* marks a file or a thumbnail is none of that.                            *)
Side == [look : Look, prio : {0, 1}, exported : BOOLEAN, whole : BOOLEAN]

(* The parts of a look a user changes; "uncrop" takes the crop away.       *)
Parts == {"settings", "turn", "crop", "uncrop"}

(* What can be pasted: settings, a transformation, both.  A transformation *)
(* is a turn with the crop of the photo it was copied from, or with none.  *)
Pastes ==
  {{"settings"}, {"turn", "crop"}, {"turn", "uncrop"},
   {"settings", "turn", "crop"}, {"settings", "turn", "uncrop"}}

(* What may go wrong with the files of a photo: its sidecar was not saved, *)
(* its metacache or its thumbnail was not, or the transformation pasted    *)
(* onto it is not what it got.                                             *)
Mishaps == {"unsaved", "uncached", "undone"}

ASSUME PhotoFilesAssumption ==
         /\ Cardinality(Threads) = 3
         /\ MaxEvents \in Nat /\ MaxTime \in Nat
         /\ None \notin Photos \cup Threads
         /\ Cardinality({None, Torn, Camera}) = 3
         /\ \A mark \in {None, Torn, Camera} : mark \notin BOOLEAN \cup Look \cup Side

VARIABLES
  bare,         \* photos whose own file has no thumbnail
  sidecar, meta, thumb,     \* the files of each photo
  open,         \* rs->photo, with what it has in memory
  timer,        \* thumbnail_refresh_timer
  jobs,         \* photos whose metadata job is queued
  regen,        \* rs_thumb_regen_queue
  idleId,       \* rs_thumb_regen_idle is not 0
  sources,      \* idle sources of the main loop with that handler
  ioLock, metaLock,     \* the io lock, and that of rs_metadata_cache_save()
  frame,        \* of each thread: the call it is in and its locals
  now,          \* the clock
  ops, crashes, failures,   \* count, for the bounds
  wanted,       \* history: what the user did to each photo last
  loaded,       \* history: photos whose metadata job ended in this session
  raced,        \* history: two threads were at one file of a photo at once
  mishaps       \* history: what went wrong with each photo in this session

files == <<bare, sidecar, meta, thumb>>
regenVars == <<regen, idleId, sources>>
bounds == <<ops, crashes, failures>>
history == <<wanted, loaded, raced, mishaps>>
vars == <<files, open, timer, jobs, regenVars, ioLock, metaLock, frame, now,
          bounds, history>>

Untouched == [settings |-> 0, turn |-> 0, crop |-> 0]

(* What rs_cache_load() makes of no sidecar or of one that cannot be parsed. *)
Defaults == [look |-> Untouched, prio |-> 0, exported |-> FALSE, whole |-> FALSE]

Readable(file) == file.data \notin {None, Torn}

CacheLoad(f) == IF Readable(sidecar[f]) THEN sidecar[f].data ELSE Defaults

(* It keeps what the photo has and the sidecar does not tell.              *)
Overlaid(f, look) ==
  LET side == CacheLoad(f)
  IN  [side.look EXCEPT !.turn = IF side.whole THEN @ ELSE look.turn,
                        !.crop = IF @ = 0 THEN look.crop ELSE @]

Absent == [data |-> None, time |-> 0, by |-> {}, mixed |-> FALSE]

Saved(data) == [Absent EXCEPT !.data = data]

(* A photo in memory is saved whole. *)
Photo(f, side) == [file |-> f, side |-> [side EXCEPT !.whole = TRUE]]

NoPhoto == Photo(None, Defaults)

Idle == [at |-> "idle", call |-> "none", file |-> None, side |-> Defaults,
         value |-> 0, parts |-> {}, rendered |-> FALSE, thumb |-> Camera,
         new |-> NoPhoto, todo |-> {}]

(* A photo is new to the program, or it was opened and closed before.      *)
Init ==
  /\ bare \in SUBSET Photos
  /\ \E old \in SUBSET Photos :
        /\ sidecar = [f \in Photos |->
             IF f \in old THEN Saved([Defaults EXCEPT !.whole = TRUE]) ELSE Absent]
        /\ meta = [f \in Photos |-> IF f \in old THEN Saved(TRUE) ELSE Absent]
        /\ thumb = [f \in Photos |-> IF f \in old THEN Saved(Untouched) ELSE Absent]
  /\ open = NoPhoto /\ timer = FALSE
  /\ jobs = {}
  /\ regen = <<>> /\ idleId = FALSE /\ sources = 0
  /\ ioLock = None /\ metaLock = None
  /\ frame = [t \in Threads |-> Idle]
  /\ now = 0 /\ ops = 0 /\ crashes = 0 /\ failures = 0
  /\ wanted = [f \in Photos |-> Defaults] /\ loaded = {} /\ raced = FALSE
  /\ mishaps = [f \in Photos |-> {}]
-----------------------------------------------------------------------------
At(t, step) == frame[t].at = step

Goto(t, step) == frame' = [frame EXCEPT ![t].at = step]

Return(t) == frame' = [frame EXCEPT ![t] = Idle]

(* A call ends, or goes on with its next step. *)
GoOn(t, step) == IF step = "idle" THEN Return(t) ELSE Goto(t, step)

Mishap(f, kind) == mishaps' = [mishaps EXCEPT ![f] = @ \cup {kind}]

SaveFails(f, kind) ==
  /\ ops + crashes + failures < MaxEvents
  /\ failures' = failures + 1
  /\ Mishap(f, kind)

(* What was written to the end of a file, or not. *)
Outcome(f, data, kind) ==
  IF data = Torn THEN SaveFails(f, kind) ELSE UNCHANGED <<failures, mishaps>>

(* Opening a file for writing empties it.  When two threads have it open,  *)
(* what they write may be mixed; a file unlinked meanwhile is gone.        *)
Truncated(file, t) ==
  [data |-> Torn, time |-> now, by |-> file.by \cup {t},
   mixed |-> file.mixed \/ file.by # {}]

Written(file, t, data) ==
  IF t \notin file.by
  THEN {file}
  ELSE {[data |-> d, time |-> now, by |-> file.by \ {t},
         mixed |-> file.mixed /\ file.by # {t}] :
          d \in {data} \cup (IF file.mixed THEN {Torn} ELSE {})}

(* rs_metadata_new_from_file(), rs_metadata_load(): the metacache, then the *)
(* thumbnail; if one of them is missing, the photo itself, and a save.     *)
AfterMetadata(call) == IF call = "job" THEN "check" ELSE "load"

(* rs_metadata_load() saves nothing when no loader of metadata knows the   *)
(* photo, rs_metadata_new_from_file() does.                                *)
ReadPhoto(t) ==
  LET fr == frame[t]
  IN  \/ frame' = [frame EXCEPT ![t].at = "save_meta",
                                ![t].thumb = IF fr.file \in bare THEN None ELSE Camera]
      \/ fr.call \in {"open", "regen"} /\ Goto(t, AfterMetadata(fr.call))

ReadMeta(t) ==
  /\ At(t, "meta")
  /\ LET file == meta[frame[t].file]
     IN  IF Readable(file)
         THEN frame' = [frame EXCEPT ![t].rendered = file.data, ![t].at = "thumb"]
         ELSE ReadPhoto(t)
  /\ UNCHANGED <<files, open, timer, jobs, regenVars, ioLock, metaLock, now, bounds, history>>

ReadThumb_Optional(t) ==
  /\ At(t, "thumb")
  /\ LET file == thumb[frame[t].file]
     IN  frame' = [frame EXCEPT
           ![t].thumb = IF Readable(file) THEN file.data ELSE Camera,
           ![t].at = AfterMetadata(frame[t].call)]
  /\ UNCHANGED <<files, open, timer, jobs, regenVars, ioLock, metaLock, now, bounds, history>>

(* Without it the one in the photo is taken, but thumbnail_rendered is kept. *)
ReadThumb(t) ==
  /\ At(t, "thumb")
  /\ LET file == thumb[frame[t].file]
     IN  IF Readable(file)
         THEN frame' = [frame EXCEPT ![t].thumb = file.data,
                                     ![t].at = AfterMetadata(frame[t].call)]
         ELSE ReadPhoto(t)
  /\ UNCHANGED <<files, open, timer, jobs, regenVars, ioLock, metaLock, now, bounds, history>>

(* rs_metadata_cache_save(): the metacache under a lock, the thumbnail not. *)
BeginMeta(t) ==
  /\ At(t, "save_meta")
  /\ metaLock = None
  /\ metaLock' = t
  /\ meta' = [meta EXCEPT ![frame[t].file] = Truncated(@, t)]
  /\ Goto(t, "write_meta")
  /\ UNCHANGED <<bare, sidecar, thumb, open, timer, jobs, regenVars, ioLock, now, bounds,
                 history>>

EndMeta(t) ==
  LET f == frame[t].file
  IN  /\ At(t, "write_meta")
      /\ \E data \in {frame[t].rendered, Torn} :
            /\ \E file \in Written(meta[f], t, data) : meta' = [meta EXCEPT ![f] = file]
            /\ Outcome(f, data, "uncached")
      /\ metaLock' = None
      /\ Goto(t, "save_thumb")
      /\ UNCHANGED <<bare, sidecar, thumb, open, timer, jobs, regenVars, ioLock, now, ops,
                     crashes, wanted, loaded, raced>>

(* There is no writer for the metacache. *)
MetaFails(t) ==
  /\ At(t, "save_meta")
  /\ metaLock = None
  /\ SaveFails(frame[t].file, "uncached")
  /\ Goto(t, "save_thumb")
  /\ UNCHANGED <<files, open, timer, jobs, regenVars, ioLock, metaLock, now, ops, crashes,
                 wanted, loaded, raced>>

BeginThumb(t) ==
  /\ At(t, "save_thumb")
  /\ frame[t].thumb # None
  /\ thumb' = [thumb EXCEPT ![frame[t].file] = Truncated(@, t)]
  /\ raced' = (raced \/ thumb[frame[t].file].by # {})
  /\ Goto(t, "write_thumb")
  /\ UNCHANGED <<bare, sidecar, meta, open, timer, jobs, regenVars, ioLock, metaLock, now,
                 bounds, wanted, loaded, mishaps>>

AfterSave(call) ==
  CASE call = "close" -> "closed"
    [] call = "regen_render" -> "unlock"
    [] call = "timer" -> "idle"
    [] OTHER -> AfterMetadata(call)

EndThumb(t) ==
  LET f == frame[t].file
  IN  /\ At(t, "write_thumb")
      /\ \E data \in {frame[t].thumb, Torn} :
            /\ \E file \in Written(thumb[f], t, data) : thumb' = [thumb EXCEPT ![f] = file]
            /\ Outcome(f, data, "uncached")
      /\ GoOn(t, AfterSave(frame[t].call))
      /\ UNCHANGED <<bare, sidecar, meta, open, timer, jobs, regenVars, ioLock, metaLock,
                     now, ops, crashes, wanted, loaded, raced>>

(* There is no thumbnail to save, or its file cannot be opened. *)
SkipThumb(t) ==
  /\ At(t, "save_thumb")
  /\ IF frame[t].thumb = None
     THEN UNCHANGED <<failures, mishaps>>
     ELSE SaveFails(frame[t].file, "uncached")
  /\ GoOn(t, AfterSave(frame[t].call))
  /\ UNCHANGED <<files, open, timer, jobs, regenVars, ioLock, metaLock, now, ops, crashes,
                 wanted, loaded, raced>>
-----------------------------------------------------------------------------
(* The sidecar: rs_cache_load() and rs_cache_save().  Nothing keeps one    *)
(* thread from loading it, changing what it loaded and saving that, while  *)
(* another does so.                                                        *)

Saving(t, f) == frame[t].file = f /\ frame[t].at \in {"save_side", "write_side"}

Race(t) == raced' = (raced \/ \E u \in Threads \ {t} : Saving(u, frame[t].file))

(* What each caller does with what it loaded. *)
Rendering(fr, side) ==
  [fr EXCEPT !.at = "save_meta", !.call = "regen_render",
             !.rendered = TRUE, !.thumb = side.look]

SaveNext(fr, side) == [fr EXCEPT !.side = side, !.at = "save_side"]

(* A look with some of its parts set. *)
Changed(look, parts, value) ==
  [settings |-> IF "settings" \in parts THEN value ELSE look.settings,
   turn |-> IF "turn" \in parts THEN value ELSE look.turn,
   crop |-> IF "crop" \in parts THEN value ELSE IF "uncrop" \in parts THEN 0 ELSE look.crop]

(* paste_settings transforms the photo, loads its sidecar and sets the     *)
(* settings: what the sidecar tells of a transformation stays.             *)
PastedLook(f, parts, value) ==
  Changed(Overlaid(f, Changed(Untouched, parts, value)), parts \cap {"settings"}, value)

(* The photo that is open gets the transformation itself.                  *)
Undone(f, parts, value) ==
  open.file # f /\ PastedLook(f, parts, value) # Changed(CacheLoad(f).look, parts, value)

(* A flag on a photo without a sidecar makes one with nothing else.        *)
Flag(f, side) == [side EXCEPT !.whole = Readable(sidecar[f])]

LoadSide(t) ==
  LET fr == frame[t]
      f == fr.file
      got == CacheLoad(f)
  IN  /\ At(t, "load")
      /\ Race(t)
      /\ \/ /\ fr.call = "open" /\ open = NoPhoto
            /\ open' = Photo(f, got) /\ Return(t)
         \/ /\ fr.call = "open" /\ open # NoPhoto
            /\ frame' = [frame EXCEPT ![t] =
                 SaveNext([fr EXCEPT !.new = Photo(f, got), !.file = open.file,
                                     !.call = "close"], open.side)]
            /\ UNCHANGED open
         \/ /\ fr.call = "paste"
            /\ frame' = [frame EXCEPT ![t] =
                 SaveNext(fr, [got EXCEPT !.look = PastedLook(f, fr.parts, fr.value),
                                          !.whole = TRUE])]
            /\ UNCHANGED open
         \/ /\ fr.call \in {"flag", "flag_open"}
            /\ frame' = [frame EXCEPT ![t] =
                 SaveNext(fr, Flag(f, [got EXCEPT !.prio = fr.value]))]
            /\ UNCHANGED open
         \/ /\ fr.call = "export"
            /\ frame' = [frame EXCEPT ![t] =
                 SaveNext(fr, Flag(f, [got EXCEPT !.exported = TRUE]))]
            /\ UNCHANGED open
         \/ /\ fr.call = "regen"
            /\ \/ frame' = [frame EXCEPT ![t] = Rendering(fr, got)]
               \/ Goto(t, "unlock")    \* the chain gives no image
            /\ UNCHANGED open
      /\ IF fr.call = "paste" /\ Undone(f, fr.parts, fr.value)
         THEN Mishap(f, "undone")
         ELSE UNCHANGED mishaps
      /\ UNCHANGED <<files, timer, jobs, regenVars, ioLock, metaLock, now, bounds,
                     wanted, loaded>>

BeginSide(t) ==
  /\ At(t, "save_side")
  /\ sidecar' = [sidecar EXCEPT ![frame[t].file] = Truncated(@, t)]
  /\ Race(t)
  /\ Goto(t, "write_side")
  /\ UNCHANGED <<bare, meta, thumb, open, timer, jobs, regenVars, ioLock, metaLock, now,
                 bounds, wanted, loaded, mishaps>>

AfterSide(call) ==
  CASE call = "close" -> "closing"
    [] call = "paste" -> "pasted"
    [] call = "flag"  -> "flagged"
    [] OTHER -> "idle"

EndSide(t) ==
  LET f == frame[t].file
  IN  /\ At(t, "write_side")
      /\ \E data \in {frame[t].side, Torn} :
            /\ \E file \in Written(sidecar[f], t, data) : sidecar' = [sidecar EXCEPT ![f] = file]
            /\ Outcome(f, data, "unsaved")
      /\ GoOn(t, AfterSide(frame[t].call))
      /\ UNCHANGED <<bare, meta, thumb, open, timer, jobs, regenVars, ioLock, metaLock, now,
                     ops, crashes, wanted, loaded, raced>>

(* There is no writer: the user is warned, and the sidecar stays as it was. *)
SideFails(t) ==
  /\ At(t, "save_side")
  /\ SaveFails(frame[t].file, "unsaved")
  /\ GoOn(t, AfterSide(frame[t].call))
  /\ UNCHANGED <<files, open, timer, jobs, regenVars, ioLock, metaLock, now, ops, crashes,
                 wanted, loaded, raced>>
-----------------------------------------------------------------------------
(* What the user does, when the main thread is free *)

Operation(t) == /\ At(t, "idle")
                /\ ops + crashes + failures < MaxEvents
                /\ ops' = ops + 1
                /\ UNCHANGED <<crashes, failures, now, raced, mishaps>>

(* What is set is numbered by the operation that sets it. *)
NewValue == ops + 1

(* open_photo(): the new photo is loaded before the old one is closed. *)
OpenPhoto(f) ==
  /\ Operation(Main)
  /\ open.file # f
  /\ timer' = FALSE
  /\ frame' = [frame EXCEPT ![Main] = [Idle EXCEPT !.at = "meta", !.call = "open", !.file = f]]
  /\ UNCHANGED <<files, open, jobs, regenVars, ioLock, metaLock, wanted, loaded>>

(* Another photo is opened, of which nothing is followed here. *)
OpenOther ==
  /\ Operation(Main)
  /\ open # NoPhoto
  /\ timer' = FALSE
  /\ frame' = [frame EXCEPT ![Main] =
       [Idle EXCEPT !.at = "save_side", !.call = "close", !.file = open.file,
                    !.side = open.side]]
  /\ UNCHANGED <<files, open, jobs, regenVars, ioLock, metaLock, wanted, loaded>>

(* A slider is moved, or the photo turned or cropped, or its crop removed: *)
(* schedule_thumbnail_refresh().                                           *)
Edit ==
  /\ Operation(Main)
  /\ open # NoPhoto
  /\ \E part \in Parts :
        /\ open' = [open EXCEPT !.side.look = Changed(@, {part}, NewValue)]
        /\ wanted' = [wanted EXCEPT ![open.file].look = Changed(@, {part}, NewValue)]
  /\ timer' = TRUE
  /\ UNCHANGED <<files, jobs, regenVars, ioLock, metaLock, frame, loaded>>

(* paste_settings: onto the photo selected, and onto the open one.  Only   *)
(* without a transformation are the metadata read.                         *)
Paste(f) ==
  /\ Operation(Main)
  /\ \E parts \in Pastes :
        /\ frame' = [frame EXCEPT ![Main] =
             [Idle EXCEPT !.at = IF "turn" \in parts THEN "load" ELSE "meta",
                          !.call = "paste", !.file = f, !.value = NewValue,
                          !.parts = parts]]
        /\ wanted' = [g \in Photos |->
             IF g \in {f, open.file}
             THEN [wanted[g] EXCEPT !.look = Changed(@, parts, NewValue)]
             ELSE wanted[g]]
  /\ UNCHANGED <<files, open, timer, jobs, regenVars, ioLock, metaLock, loaded>>

(* gui_setprio() with rs_store_set_flags() and rs_cache_save_flags() *)
SetPrio(f) ==
  /\ Operation(Main)
  /\ LET prio == 1 - wanted[f].prio
     IN  /\ frame' = [frame EXCEPT ![Main] =
              [Idle EXCEPT !.at = "load", !.call = "flag", !.file = f, !.value = prio]]
         /\ wanted' = [wanted EXCEPT ![f].prio = prio]
  /\ UNCHANGED <<files, open, timer, jobs, regenVars, ioLock, metaLock, loaded>>

(* The job of the export dialog of the open photo sets its flag at the end. *)
Export ==
  /\ Operation(Exporter)
  /\ open # NoPhoto
  /\ frame' = [frame EXCEPT ![Exporter] =
       [Idle EXCEPT !.at = "load", !.call = "export", !.file = open.file]]
  /\ UNCHANGED <<files, open, timer, jobs, regenVars, ioLock, metaLock, wanted, loaded>>

(* rs_store_remove() cancels the jobs there are, loading queues new ones. *)
Reload == jobs' = Photos /\ loaded' = {}

LoadDirectory ==
  /\ Operation(Main)
  /\ Reload
  /\ UNCHANGED <<files, open, timer, regenVars, ioLock, metaLock, frame, wanted>>

(* clear_thumb_cache: rs_metadata_delete_cache() of each photo, and reload *)
ClearCache ==
  /\ Operation(Main)
  /\ frame' = [frame EXCEPT ![Main] = [Idle EXCEPT !.at = "unlink", !.todo = Photos]]
  /\ UNCHANGED <<files, open, timer, jobs, regenVars, ioLock, metaLock, wanted, loaded>>

UnlinkMeta(f) ==
  /\ At(Main, "unlink")
  /\ f \in frame[Main].todo
  /\ meta' = [meta EXCEPT ![f] = Absent]
  /\ frame' = [frame EXCEPT ![Main].at = "unlink_thumb", ![Main].file = f,
                            ![Main].todo = @ \ {f}]
  /\ UNCHANGED <<bare, sidecar, thumb, open, timer, jobs, regenVars, ioLock, metaLock, now,
                 bounds, history>>

UnlinkThumb ==
  /\ At(Main, "unlink_thumb")
  /\ thumb' = [thumb EXCEPT ![frame[Main].file] = Absent]
  /\ IF frame[Main].todo = {}
     THEN Reload /\ Return(Main)
     ELSE Goto(Main, "unlink") /\ UNCHANGED <<jobs, loaded>>
  /\ UNCHANGED <<bare, sidecar, meta, open, timer, regenVars, ioLock, metaLock, now, bounds,
                 wanted, raced, mishaps>>
-----------------------------------------------------------------------------
(* The ends of these calls *)

Rendered_Next(fr) ==
  [fr EXCEPT !.at = "save_meta", !.rendered = TRUE, !.thumb = fr.new.side.look]

(* rs_photo_update_thumbnail() renders the photo with what is in memory. *)
Rendered(fr) ==
  [fr EXCEPT !.at = "save_meta", !.rendered = TRUE, !.thumb = open.side.look]

(* rs_photo_close(): the thumbnail, if its chain gives an image *)
Closing ==
  /\ At(Main, "closing")
  /\ \/ frame' = [frame EXCEPT ![Main] = Rendered(@)]
     \/ Goto(Main, "closed")
  /\ UNCHANGED <<files, open, timer, jobs, regenVars, ioLock, metaLock, now, bounds, history>>

Closed ==
  /\ At(Main, "closed")
  /\ open' = frame[Main].new
  /\ Return(Main)
  /\ UNCHANGED <<files, timer, jobs, regenVars, ioLock, metaLock, now, bounds, history>>

Pasted_FileOnly ==
  /\ At(Main, "pasted")
  /\ Return(Main)
  /\ UNCHANGED <<files, open, timer, jobs, regenVars, ioLock, metaLock, now, bounds, history>>

(* No crop in the buffer is a crop whose left end is -1: a photo selected  *)
(* gets none, but the open one gets the rest of a crop copied before.      *)
Pasted ==
  LET fr == frame[Main]
      look == Changed(open.side.look, fr.parts, fr.value)
  IN  /\ At(Main, "pasted")
      /\ \/ open = NoPhoto /\ UNCHANGED <<open, timer, mishaps>>
         \/ /\ open # NoPhoto
            /\ open' = [open EXCEPT !.side.look = look]
            /\ timer' = TRUE
            /\ UNCHANGED mishaps
         \/ /\ open # NoPhoto /\ "uncrop" \in fr.parts
            /\ open' = [open EXCEPT !.side.look = [look EXCEPT !.crop = fr.value]]
            /\ timer' = TRUE
            /\ Mishap(open.file, "undone")
      /\ Return(Main)
      /\ UNCHANGED <<files, jobs, regenVars, ioLock, metaLock, now, bounds, wanted, loaded,
                     raced>>

(* The open photo gets its priority too, and its sidecar is saved again.   *)
Flagged ==
  /\ At(Main, "flagged")
  /\ IF open.file = frame[Main].file
     THEN /\ open' = [open EXCEPT !.side.prio = frame[Main].value]
          /\ frame' = [frame EXCEPT ![Main].at = "load", ![Main].call = "flag_open"]
     ELSE Return(Main) /\ UNCHANGED open
  /\ UNCHANGED <<files, timer, jobs, regenVars, ioLock, metaLock, now, bounds, history>>

(* thumbnail_refresh_timeout() *)
RefreshThumb ==
  /\ At(Main, "idle")
  /\ timer
  /\ timer' = FALSE
  /\ IF open = NoPhoto
     THEN UNCHANGED frame
     ELSE frame' = [frame EXCEPT ![Main] =
            Rendered([Idle EXCEPT !.call = "timer", !.file = open.file])]
  /\ UNCHANGED <<files, open, jobs, regenVars, ioLock, metaLock, now, bounds, history>>
-----------------------------------------------------------------------------
(* The io worker: a metadata job, then got_metadata() without the io lock  *)

TakeJob(f) ==
  /\ At(Io, "idle")
  /\ f \in jobs
  /\ ioLock = None
  /\ ioLock' = Io
  /\ jobs' = jobs \ {f}
  /\ frame' = [frame EXCEPT ![Io] = [Idle EXCEPT !.at = "meta", !.call = "job", !.file = f]]
  /\ UNCHANGED <<files, open, timer, regenVars, metaLock, now, bounds, history>>

(* The tests of the three files are one step. *)
Stale(f, rendered) ==
  /\ sidecar[f].data # None
  /\ ~ rendered \/ thumb[f].data = None \/ sidecar[f].time > thumb[f].time

Check ==
  /\ At(Io, "check")
  /\ ioLock' = None
  /\ IF Stale(frame[Io].file, frame[Io].rendered)
     THEN Goto(Io, "enqueue") /\ UNCHANGED loaded
     ELSE Return(Io) /\ loaded' = loaded \cup {frame[Io].file}
  /\ UNCHANGED <<files, open, timer, jobs, regenVars, metaLock, now, bounds, wanted, raced,
                 mishaps>>

(* rs_thumb_regen_enqueue(), under rs_thumb_regen_lock *)
Enqueue ==
  /\ At(Io, "enqueue")
  /\ regen' = Append(regen, frame[Io].file)
  /\ idleId' = TRUE
  /\ sources' = IF idleId THEN sources ELSE sources + 1
  /\ Return(Io)
  /\ loaded' = loaded \cup {frame[Io].file}
  /\ UNCHANGED <<files, open, timer, jobs, ioLock, metaLock, now, bounds, wanted, raced,
                 mishaps>>

(* rs_thumb_regen_idle_cb(): under that lock, it takes a photo or forgets  *)
(* its own source, which goes once the handler has returned.               *)
TakeRegen_KeepsId ==
  /\ At(Main, "idle")
  /\ sources > 0
  /\ IF regen # <<>>
     THEN /\ regen' = Tail(regen)
          /\ frame' = [frame EXCEPT ![Main] =
               [Idle EXCEPT !.at = "lock", !.call = "regen", !.file = Head(regen)]]
     ELSE Goto(Main, "remove_source") /\ UNCHANGED regen
  /\ UNCHANGED <<files, open, timer, jobs, idleId, sources, ioLock, metaLock, now, bounds,
                 history>>

TakeRegen ==
  /\ At(Main, "idle")
  /\ sources > 0
  /\ IF regen # <<>>
     THEN /\ regen' = Tail(regen)
          /\ frame' = [frame EXCEPT ![Main] =
               [Idle EXCEPT !.at = "lock", !.call = "regen", !.file = Head(regen)]]
          /\ UNCHANGED idleId
     ELSE Goto(Main, "remove_source") /\ idleId' = FALSE /\ UNCHANGED regen
  /\ UNCHANGED <<files, open, timer, jobs, sources, ioLock, metaLock, now, bounds, history>>

RemoveSource_Twice ==
  /\ At(Main, "remove_source")
  /\ sources' = sources - 2
  /\ Return(Main)
  /\ UNCHANGED <<files, open, timer, jobs, regen, idleId, ioLock, metaLock, now, bounds,
                 history>>

RemoveSource ==
  /\ At(Main, "remove_source")
  /\ sources' = sources - 1
  /\ Return(Main)
  /\ UNCHANGED <<files, open, timer, jobs, regen, idleId, ioLock, metaLock, now, bounds,
                 history>>

(* rs_thumb_regen_render(), all of it under the io lock *)
LockIo ==
  /\ At(Main, "lock")
  /\ ioLock = None
  /\ ioLock' = Main
  /\ Goto(Main, "meta")
  /\ UNCHANGED <<files, open, timer, jobs, regenVars, metaLock, now, bounds, history>>

(* The photo cannot be loaded: there is no thumbnail, or nothing is opened. *)
CannotLoad ==
  /\ At(Main, "meta")
  /\ \/ frame[Main].call = "regen" /\ Goto(Main, "unlock")
     \/ frame[Main].call = "open" /\ Return(Main)
  /\ UNCHANGED <<files, open, timer, jobs, regenVars, ioLock, metaLock, now, bounds, history>>

UnlockIo ==
  /\ At(Main, "unlock")
  /\ ioLock' = None
  /\ Return(Main)
  /\ UNCHANGED <<files, open, timer, jobs, regenVars, metaLock, now, bounds, history>>
-----------------------------------------------------------------------------
Tick ==
  /\ now < MaxTime
  /\ now' = now + 1
  /\ UNCHANGED <<files, open, timer, jobs, regenVars, ioLock, metaLock, frame, bounds, history>>

(* The program ends at once and is started again; half a file stays so.    *)
Crash ==
  /\ ops + crashes + failures < MaxEvents
  /\ crashes' = crashes + 1
  /\ LET left(file) == [file EXCEPT !.by = {}, !.mixed = FALSE]
     IN  /\ sidecar' = [f \in Photos |-> left(sidecar[f])]
         /\ meta' = [f \in Photos |-> left(meta[f])]
         /\ thumb' = [f \in Photos |-> left(thumb[f])]
  /\ open' = NoPhoto /\ timer' = FALSE
  /\ jobs' = {} /\ regen' = <<>> /\ idleId' = FALSE /\ sources' = 0
  /\ ioLock' = None /\ metaLock' = None
  /\ frame' = [t \in Threads |-> Idle]
  /\ loaded' = {} /\ mishaps' = [f \in Photos |-> {}]
  /\ UNCHANGED <<bare, now, ops, failures, wanted, raced>>

UserStep ==
  \/ \E f \in Photos : OpenPhoto(f) \/ Paste(f) \/ SetPrio(f)
  \/ OpenOther \/ Edit \/ Export \/ LoadDirectory \/ ClearCache

FileStep(t) ==
  \/ ReadMeta(t) \/ ReadThumb(t)
  \/ BeginMeta(t) \/ EndMeta(t) \/ MetaFails(t)
  \/ BeginThumb(t) \/ EndThumb(t) \/ SkipThumb(t)
  \/ LoadSide(t) \/ BeginSide(t) \/ EndSide(t) \/ SideFails(t)

MainStep ==
  \/ FileStep(Main)
  \/ (\E f \in Photos : UnlinkMeta(f)) \/ UnlinkThumb
  \/ Closing \/ Closed \/ Pasted \/ Flagged \/ RefreshThumb
  \/ TakeRegen \/ RemoveSource \/ LockIo \/ CannotLoad \/ UnlockIo

IoStep == FileStep(Io) \/ (\E f \in Photos : TakeJob(f)) \/ Check \/ Enqueue

Next == UserStep \/ MainStep \/ IoStep \/ FileStep(Exporter) \/ Tick \/ Crash

Spec == Init /\ [][Next]_vars

(* Each thread goes on with what it began, and the main loop comes back to *)
(* its idle sources.                                                       *)
FairSpec == /\ Spec
            /\ WF_vars(MainStep) /\ WF_vars(IoStep) /\ WF_vars(FileStep(Exporter))
-----------------------------------------------------------------------------
File(data) == [data : {None, Torn} \cup data, time : 0 .. MaxTime, by : SUBSET Threads,
               mixed : BOOLEAN]

TypeOK ==
  /\ bare \subseteq Photos
  /\ sidecar \in [Photos -> File(Side)]
  /\ meta \in [Photos -> File(BOOLEAN)]
  /\ thumb \in [Photos -> File(Look \cup {Camera})]
  /\ open.file \in Photos \cup {None} /\ open.side \in Side
  /\ timer \in BOOLEAN /\ idleId \in BOOLEAN
  /\ jobs \subseteq Photos /\ regen \in Seq(Photos)
  /\ sources \in Nat
  /\ {ioLock, metaLock} \subseteq Threads \cup {None}
  /\ wanted \in [Photos -> Side] /\ loaded \subseteq Photos
  /\ mishaps \in [Photos -> SUBSET Mishaps]

Quiet == /\ \A t \in Threads : frame[t] = Idle
         /\ jobs = {} /\ regen = <<>> /\ ~ timer

(* What the user did to a photo last is what the program remembers: in     *)
(* memory while the photo is open, in its sidecar once it is not.  Neither *)
(* a flag saved nor something pasted while it is open undo the other, nor  *)
(* does closing it, unless two threads were at its sidecar at once or the  *)
(* sidecar could not be saved, of which the user is warned.  A turn or a   *)
(* crop is excepted once one was pasted that the photo did not get: onto a *)
(* photo that is not open, for its sidecar is loaded over what was pasted, *)
(* or as no crop onto the one that is open.                                *)
WorkKept ==
  Quiet /\ ~ raced /\ crashes = 0 =>
    \A f \in Photos : "unsaved" \notin mishaps[f] =>
       LET kept == IF open.file = f THEN open.side ELSE CacheLoad(f)
       IN  /\ kept.look.settings = wanted[f].look.settings
           /\ kept.prio = wanted[f].prio
           /\ "undone" \notin mishaps[f] => kept.look = wanted[f].look

(* A thumbnail that does not show the settings, the turn and the crop in   *)
(* the sidecar is found to be stale by the next load of its directory, or  *)
(* it is the camera's own, or cannot be read; a change within the second   *)
(* of the thumbnail is not seen.  That the metacache or the thumbnail      *)
(* could not be saved is no exception, that the sidecar could not is one.  *)
NextLoadStale(f) ==
  \/ ~ Readable(meta[f]) \/ meta[f].data = FALSE \/ ~ Readable(thumb[f])
  \/ sidecar[f].time > thumb[f].time

ThumbCurrent ==
  Quiet /\ ~ raced /\ crashes = 0 =>
    \A f \in Photos \ {open.file} :
       Readable(sidecar[f]) /\ "unsaved" \notin mishaps[f] =>
         \/ NextLoadStale(f)
         \/ thumb[f].data \in {sidecar[f].data.look, Camera}
         \/ sidecar[f].time = thumb[f].time

(* Once a directory is loaded, the metadata and the thumbnail of each      *)
(* photo are readable, whatever a crash left of them, unless one of the    *)
(* two could not be saved.  A photo whose own file has no thumbnail may    *)
(* have none: only its metadata are readable.                              *)
Mended ==
  Quiet /\ ~ raced =>
    \A f \in loaded : "uncached" \notin mishaps[f] =>
       Readable(meta[f]) /\ (Readable(thumb[f]) \/ f \in bare)

(* A thumbnail queued for regeneration is regenerated: the idle source is  *)
(* there whenever the queue is not empty, though one thread adds to the    *)
(* queue while the other finds it empty.                                   *)
Regenerated == \A f \in Photos : f \in ToSet(regen) ~> f \notin ToSet(regen)
=============================================================================
