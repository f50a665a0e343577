-------------------------- MODULE PhotoFilesProofs --------------------------
(***************************************************************************)
(* Theorems about PhotoFiles, for any photos and bounds: the types, that   *)
(* the work of the user is kept, that a wrong thumbnail is found, that a   *)
(* load mends what a crash left, and that the queue of stale thumbnails is *)
(* never left without an idle source.                                      *)
(***************************************************************************)
EXTENDS PhotoFiles, FiniteSetTheorems, SequenceTheorems, TLAPS

(* Which steps belong to which call.                                       *)
SavesThumb == {"save_meta", "write_meta", "save_thumb", "write_thumb"}

Reads == {"meta", "thumb"} \cup SavesThumb

SavesSide == {"save_side", "write_side"}

CallOfMain(call, at) ==
  \/ call = "none" /\ at \in {"idle", "unlink", "unlink_thumb", "remove_source"}
  \/ call = "open" /\ at \in Reads \cup {"load"}
  \/ call = "close" /\ at \in SavesSide \cup SavesThumb \cup {"closing", "closed"}
  \/ call = "paste" /\ at \in Reads \cup SavesSide \cup {"load", "pasted"}
  \/ call = "flag" /\ at \in SavesSide \cup {"load", "flagged"}
  \/ call = "flag_open" /\ at \in SavesSide \cup {"load"}
  \/ call = "timer" /\ at \in SavesThumb
  \/ call = "regen" /\ at \in Reads \cup {"lock", "load", "unlock"}
  \/ call = "regen_render" /\ at \in SavesThumb \cup {"unlock"}

CallOfIo(call, at) ==
  \/ call = "none" /\ at = "idle"
  \/ call = "job" /\ at \in Reads \cup {"check", "enqueue"}

CallOfExporter(call, at) ==
  \/ call = "none" /\ at = "idle"
  \/ call = "export" /\ at \in SavesSide \cup {"load"}

PhotoType == [file : Photos \cup {None}, side : Side]

Calls == {"none", "open", "close", "paste", "flag", "flag_open", "timer", "regen",
          "regen_render", "job", "export"}

Places == Reads \cup SavesSide \cup
          {"idle", "load", "unlink", "unlink_thumb", "remove_source", "lock", "unlock",
           "closing", "closed", "pasted", "flagged", "check", "enqueue"}

FrameType == [at : Places, call : Calls, file : Photos \cup {None}, side : Side,
              value : Nat, parts : SUBSET Parts, rendered : BOOLEAN,
              thumb : Look \cup {Camera, None}, new : PhotoType, todo : SUBSET Photos]

Typed ==
  /\ TypeOK
  /\ open \in PhotoType
  /\ frame \in [Threads -> FrameType]
  /\ now \in 0 .. MaxTime /\ ops \in Nat /\ crashes \in Nat /\ failures \in Nat
  /\ raced \in BOOLEAN

(* Where each thread can be, and what it has in hand there.                *)
Busy(t) ==
  /\ frame[t].call # "none" \/ frame[t].at = "unlink_thumb" => frame[t].file \in Photos
  /\ (/\ frame[t].call \in {"open", "paste", "regen", "job"}
      /\ frame[t].at \in Reads \cup {"lock"}) => frame[t].thumb \in {Camera, None}
  /\ frame[t].at \in SavesThumb /\ frame[t].thumb = None => frame[t].file \in bare
  /\ frame[t].at = "write_thumb" => frame[t].thumb # None

MainPlaced ==
  /\ CallOfMain(frame[Main].call, frame[Main].at)
  /\ Busy(Main)
  /\ open.file = None => open = NoPhoto
  /\ frame[Main].new.file = None => frame[Main].new = NoPhoto
  /\ frame[Main].call \in {"close", "timer", "flag_open"} => frame[Main].file = open.file
  /\ frame[Main].call = "open" => frame[Main].file # open.file
  /\ frame[Main].call = "close" => frame[Main].new.file # open.file
  /\ frame[Main].call \in {"flag", "flag_open"} => frame[Main].value \in {0, 1}

IoPlaced == CallOfIo(frame[Io].call, frame[Io].at) /\ Busy(Io)

ExporterPlaced == CallOfExporter(frame[Exporter].call, frame[Exporter].at) /\ Busy(Exporter)

Placed == MainPlaced /\ IoPlaced /\ ExporterPlaced

(* The idle sources: the one whose id is kept and the one on its way out.  *)
KeepsId == idleId = TRUE

Leaving == At(Main, "remove_source")

Sourced ==
  /\ KeepsId /\ Leaving => sources = 2
  /\ KeepsId /\ ~ Leaving => sources = 1
  /\ ~ KeepsId /\ Leaving => sources = 1
  /\ ~ KeepsId /\ ~ Leaving => sources = 0
  /\ regen # <<>> => KeepsId

Apart == raced = FALSE

Mixed(file) == file.mixed = TRUE

Marked(file) == file.mixed \in BOOLEAN

(* Who has a file open; times do not lie ahead of the clock.               *)
MetaFiles ==
  /\ \A t \in Threads : At(t, "write_meta") => metaLock = t
  /\ \A f \in Photos :
        /\ \A t \in meta[f].by : At(t, "write_meta") /\ frame[t].file = f
        /\ ~ Mixed(meta[f])

ThumbFiles ==
  \A f \in Photos :
     /\ \A t \in thumb[f].by : At(t, "write_thumb") /\ frame[t].file = f
     /\ thumb[f].time <= now
     /\ Apart => ~ Mixed(thumb[f]) /\ \A t, u \in thumb[f].by : t = u

SideFiles ==
  \A f \in Photos :
     /\ \A t \in Threads : t \in sidecar[f].by <=> At(t, "write_side") /\ frame[t].file = f
     /\ Apart => ~ Mixed(sidecar[f])
     /\ Apart /\ Saving(Main, f) /\ Saving(Exporter, f) =>
           frame[Main].call = "close" /\ At(Main, "save_side")

(* What the sidecar of f will hold when it is saved.                       *)
Coming(f) ==
  IF Saving(Main, f) THEN frame[Main].side
  ELSE IF Saving(Exporter, f) THEN frame[Exporter].side
  ELSE CacheLoad(f)

Same(a, b) == a.look = b.look /\ a.prio = b.prio

(* One look of f is the other, but for a transformation that it did not get. *)
Agree(f, a, b) == a.settings = b.settings /\ ("undone" \notin mishaps[f] => a = b)

Unsaved(f) == "unsaved" \in mishaps[f]

Uncached(f) == "uncached" \in mishaps[f]

PastePending(f) ==
  /\ frame[Main].call = "paste"
  /\ \/ open.file = f
     \/ frame[Main].file = f /\ frame[Main].at \in Reads \cup {"load"}

FlagPending(f) ==
  /\ frame[Main].call = "flag" /\ frame[Main].file = f
  /\ open.file = f \/ At(Main, "load")

Holds(f) == IF open.file = f THEN open.side ELSE Coming(f)

(* What f will have once what is being pasted onto it is set.              *)
Pasting(f) ==
  IF PastePending(f) THEN Changed(Holds(f).look, frame[Main].parts, frame[Main].value)
                     ELSE Holds(f).look

(* Each photo has what is wanted, or the main thread is about to set it.   *)
Kept ==
  /\ \A f \in Photos : ~ Unsaved(f) =>
        /\ Agree(f, wanted[f].look, Pasting(f))
        /\ FlagPending(f) => wanted[f].prio = frame[Main].value
        /\ ~ FlagPending(f) => wanted[f].prio = Holds(f).prio
  /\ frame[Main].call = "close" =>
        \A f \in Photos : ~ Unsaved(f) =>
           /\ f = open.file => Same(Coming(f), open.side)
           /\ f = frame[Main].new.file => Same(Coming(f), frame[Main].new.side)

(* Photos whose thumbnail nobody asks to be right: the open one until it   *)
(* is closed, and one whose sidecar is about to get a later time.          *)
Loose(f) ==
  \/ open.file = f /\ frame[Main].call # "close"
  \/ At(Main, "save_side") /\ frame[Main].file = f

Shows(f) ==
  \/ Unsaved(f)
  \/ thumb[f].data \in {None, Torn, Camera, Coming(f).look}
  \/ sidecar[f].time >= thumb[f].time

(* What the main thread renders to save is what the sidecar will hold.     *)
Renders(f) ==
  (/\ frame[Main].call \in {"close", "regen_render"} /\ frame[Main].at \in SavesThumb
   /\ frame[Main].file = f) => Unsaved(f) \/ frame[Main].thumb = Coming(f).look

Shown == \A f \in Photos : (~ Loose(f) => Shows(f)) /\ Renders(f)

(* A metacache or a thumbnail that can be read, or that could not be saved, *)
(* or somebody is about to write it; the job of a photo that will come, or *)
(* come again.                                                             *)
MetaGood(f) ==
  \/ Uncached(f) \/ Readable(meta[f])
  \/ \E t \in Threads : /\ frame[t].file = f
                        /\ At(t, "save_meta") \/ (At(t, "write_meta") /\ t \in meta[f].by)

ThumbGood(f) ==
  \/ f \in bare \/ Uncached(f) \/ Readable(thumb[f])
  \/ \E t \in Threads : /\ frame[t].file = f
                        /\ \/ frame[t].at \in {"save_meta", "write_meta", "save_thumb"}
                           \/ At(t, "write_thumb") /\ t \in thumb[f].by

Again(f) == f \in jobs \/ frame[Main].at \in {"unlink", "unlink_thumb"}

Mending ==
  /\ \A f \in loaded : \/ Again(f)
                       \/ frame[Io].file = f /\ frame[Io].at \in Reads
                       \/ MetaGood(f) /\ ThumbGood(f)
  /\ ~ At(Io, "idle") /\ ~ At(Io, "meta") => Again(frame[Io].file) \/ MetaGood(frame[Io].file)
  /\ frame[Io].at \in {"write_thumb", "check", "enqueue"} =>
        Again(frame[Io].file) \/ ThumbGood(frame[Io].file)

IInv ==
  /\ Typed /\ Placed /\ Sourced /\ MetaFiles /\ ThumbFiles /\ SideFiles
  /\ Apart /\ crashes = 0 => Kept /\ Shown
  /\ Apart => Mending
-----------------------------------------------------------------------------
(* The constants                                                           *)

(* Three values of which a set has three elements are different.           *)
LEMMA ThreeApart ==
  ASSUME NEW a, NEW b, NEW c, Cardinality({a, b, c}) = 3
  PROVE  a # b /\ a # c /\ b # c
<1>1. ASSUME NEW x, NEW y, {a, b, c} = {x, y} PROVE FALSE
  <2>1. IsFiniteSet({}) /\ Cardinality({}) = 0
    BY FS_EmptySet
  <2>2. IsFiniteSet({x}) /\ Cardinality({x}) = 1
    BY FS_Singleton
  <2>3. {x} \cup {y} = {x, y}
    OBVIOUS
  <2>4. Cardinality({x} \cup {y}) \in {1, 2}
    BY <2>2, FS_AddElement
  <2> QED
    BY <1>1, <2>3, <2>4
<1> QED
  <2>1. CASE a = b
    <3>1. {a, b, c} = {a, c}
      BY <2>1
    <3> QED
      BY <1>1, <3>1
  <2>2. CASE a = c
    <3>1. {a, b, c} = {a, b}
      BY <2>2
    <3> QED
      BY <1>1, <3>1
  <2>3. CASE b = c
    <3>1. {a, b, c} = {a, b}
      BY <2>3
    <3> QED
      BY <1>1, <3>1
  <2> QED
    BY <2>1, <2>2, <2>3

LEMMA ThreadsApart == Main # Io /\ Main # Exporter /\ Io # Exporter
BY ThreeApart, PhotoFilesAssumption DEF Threads

LEMMA MarksApart ==
  /\ None # Torn /\ None # Camera /\ Torn # Camera
  /\ \A mark \in {None, Torn, Camera} : mark \notin BOOLEAN \cup Look \cup Side
BY ThreeApart, PhotoFilesAssumption

LEMMA NobodyIsNone == None \notin Photos /\ None \notin Threads
BY PhotoFilesAssumption

LEMMA DefaultsType ==
  /\ Untouched \in Look /\ Defaults \in Side
  /\ Defaults.look = Untouched /\ Defaults.prio = 0
  /\ NoPhoto \in PhotoType /\ NoPhoto.file = None
  /\ NoPhoto.side.look = Untouched /\ NoPhoto.side.prio = 0
<1>1. Untouched \in Look
  BY DEF Untouched, Look
<1>2. Defaults \in Side /\ Defaults.look = Untouched /\ Defaults.prio = 0
  BY <1>1 DEF Defaults, Side
<1> QED
  BY <1>1, <1>2 DEF NoPhoto, Photo, PhotoType, Side

LEMMA PhotoIs ==
  ASSUME NEW f \in Photos \cup {None}, NEW side \in Side
  PROVE  /\ Photo(f, side) \in PhotoType /\ Photo(f, side).file = f
         /\ Photo(f, side).side.look = side.look /\ Photo(f, side).side.prio = side.prio
BY DEF Photo, PhotoType, Side

LEMMA ChangedIs ==
  ASSUME NEW look \in Look, NEW parts, NEW value \in Nat
  PROVE  Changed(look, parts, value) \in Look
BY DEF Changed, Look

LEMMA IdleType ==
  /\ Idle \in FrameType
  /\ Idle.at = "idle" /\ Idle.call = "none" /\ Idle.file = None /\ Idle.new = NoPhoto
  /\ Idle.thumb = Camera
<1>1. Idle \in FrameType
  <2>1. /\ {} \in SUBSET Photos /\ {} \in SUBSET Parts /\ "idle" \in Places
        /\ "none" \in Calls /\ 0 \in Nat
    BY DEF Places, Calls
  <2> QED
    BY <2>1, DefaultsType, Zenon DEF Idle, FrameType
<1> QED
  BY <1>1 DEF Idle

LEMMA AbsentType ==
  ASSUME NEW data
  PROVE  /\ Absent \in File(data)
         /\ Absent.data = None /\ Absent.by = {} /\ ~ Mixed(Absent) /\ Absent.time = 0
BY PhotoFilesAssumption DEF Absent, File, Mixed

LEMMA SavedType ==
  ASSUME NEW S, NEW data \in S
  PROVE  /\ Saved(data) \in File(S)
         /\ Saved(data).data = data /\ Saved(data).by = {} /\ ~ Mixed(Saved(data))
         /\ Saved(data).time = 0
<1>1. Absent \in File(S)
  BY AbsentType
<1> QED
  BY <1>1, AbsentType DEF Saved, File, Mixed
-----------------------------------------------------------------------------
(* Reading and writing files                                               *)

(* What a file is while it is written, and once it is.                     *)
LEMMA TruncatedIs ==
  ASSUME NEW S, NEW file \in File(S), NEW t \in Threads, now \in 0 .. MaxTime
  PROVE  Truncated(file, t) \in File(S)
<1>1. (file.mixed \/ file.by # {}) \in BOOLEAN
  OBVIOUS
<1>2. now \in 0 .. MaxTime /\ Torn \in {None, Torn} \cup S
  OBVIOUS
<1>3. file.by \cup {t} \in SUBSET Threads
  BY DEF File
<1> QED
  BY <1>1, <1>2, <1>3, Zenon DEF Truncated, File

LEMMA WrittenIs ==
  ASSUME NEW S, NEW file \in File(S), NEW t \in Threads, NEW data \in S \cup {Torn},
         now \in 0 .. MaxTime, NEW new \in Written(file, t, data)
  PROVE  new \in File(S)
<1>1. CASE t \notin file.by
  BY <1>1 DEF Written
<1>2. CASE t \in file.by
  <2>1. PICK d \in {data} \cup (IF file.mixed THEN {Torn} ELSE {}) :
           new = [data |-> d, time |-> now, by |-> file.by \ {t},
                  mixed |-> file.mixed /\ file.by # {t}]
    BY <1>2, Zenon DEF Written
  <2>2. (file.mixed /\ file.by # {t}) \in BOOLEAN
    OBVIOUS
  <2>3. d \in {None, Torn} \cup S /\ file.by \ {t} \in SUBSET Threads
    BY DEF File
  <2> QED
    BY <2>1, <2>2, <2>3, Zenon DEF File
<1> QED
  BY <1>1, <1>2

(* The same of a file of any kind.                                         *)
LEMMA TruncatedFile ==
  ASSUME NEW file, NEW t, Marked(file)
  PROVE  /\ Truncated(file, t).data = Torn /\ Truncated(file, t).time = now
         /\ Truncated(file, t).by = file.by \cup {t}
         /\ Mixed(Truncated(file, t)) => Mixed(file) \/ file.by # {}
<1>1. Truncated(file, t).mixed = (file.mixed \/ file.by # {})
  BY Zenon DEF Truncated
<1>2. Mixed(Truncated(file, t)) => Mixed(file) \/ file.by # {}
  BY <1>1, Zenon DEF Mixed, Marked
<1> QED
  BY <1>2 DEF Truncated

LEMMA WrittenFile ==
  ASSUME NEW file, NEW t, NEW data, Marked(file), NEW new \in Written(file, t, data)
  PROVE  /\ t \notin file.by => new = file
         /\ t \in file.by => /\ new.time = now /\ new.by = file.by \ {t}
                             /\ new.data = data \/ (Mixed(file) /\ new.data = Torn)
                             /\ Mixed(new) => Mixed(file)
<1>1. CASE t \notin file.by
  BY <1>1 DEF Written
<1>2. CASE t \in file.by
  <2>1. PICK d \in {data} \cup (IF file.mixed THEN {Torn} ELSE {}) :
           new = [data |-> d, time |-> now, by |-> file.by \ {t},
                  mixed |-> file.mixed /\ file.by # {t}]
    BY <1>2, Zenon DEF Written
  <2>2. d = data \/ (Mixed(file) /\ d = Torn)
    BY Zenon DEF Mixed, Marked
  <2>3. new.mixed = (file.mixed /\ file.by # {t})
    BY <2>1, Zenon
  <2>4. Mixed(new) => Mixed(file)
    BY <2>3, Zenon DEF Mixed, Marked
  <2> QED
    BY <1>2, <2>1, <2>2, <2>4
<1> QED
  BY <1>1, <1>2

(* The files of a kind are files.                                          *)
LEMMA FileFields ==
  ASSUME NEW S, NEW file \in File(S)
  PROVE  /\ Marked(file) /\ file.by \subseteq Threads
         /\ file.time \in 0 .. MaxTime /\ file.data \in {None, Torn} \cup S
BY DEF File, Marked

LEMMA FilesOf ==
  ASSUME Typed, NEW f \in Photos
  PROVE  /\ sidecar[f] \in File(Side) /\ meta[f] \in File(BOOLEAN)
         /\ thumb[f] \in File(Look \cup {Camera})
         /\ Marked(meta[f]) /\ meta[f].by \subseteq Threads
         /\ Marked(thumb[f]) /\ thumb[f].by \subseteq Threads
         /\ thumb[f].time \in 0 .. MaxTime
         /\ Marked(sidecar[f]) /\ sidecar[f].by \subseteq Threads
         /\ sidecar[f].time \in 0 .. MaxTime
<1>1. /\ sidecar[f] \in File(Side) /\ meta[f] \in File(BOOLEAN)
      /\ thumb[f] \in File(Look \cup {Camera})
  BY DEF Typed, TypeOK
<1>2. Marked(sidecar[f]) /\ Marked(meta[f]) /\ Marked(thumb[f])
  BY <1>1, FileFields, Zenon
<1> QED
  BY <1>1, <1>2, FileFields

LEMMA CacheLoadType ==
  ASSUME Typed, NEW f \in Photos
  PROVE  CacheLoad(f) \in Side
BY DefaultsType DEF CacheLoad, Readable, Typed, TypeOK, File
-----------------------------------------------------------------------------
(* The frames: one thread moves, the others stay.                          *)

Others(t) == \A u \in Threads \ {t} : frame'[u] = frame[u]

Frames == frame \in [Threads -> FrameType]

SameCall(t) ==
  /\ frame'[t].call = frame[t].call /\ frame'[t].file = frame[t].file
  /\ frame'[t].side = frame[t].side /\ frame'[t].value = frame[t].value
  /\ frame'[t].parts = frame[t].parts
  /\ frame'[t].rendered = frame[t].rendered /\ frame'[t].thumb = frame[t].thumb
  /\ frame'[t].new = frame[t].new /\ frame'[t].todo = frame[t].todo

LEMMA Going ==
  ASSUME Frames, NEW t \in Threads, NEW step \in Places, Goto(t, step)
  PROVE  Frames' /\ Others(t) /\ frame'[t].at = step /\ SameCall(t)
BY DEF Frames, Goto, Others, SameCall, FrameType

LEMMA Returning ==
  ASSUME Frames, NEW t \in Threads, Return(t)
  PROVE  Frames' /\ Others(t) /\ frame'[t] = Idle
BY IdleType DEF Frames, Return, Others

LEMMA Entering ==
  ASSUME Frames, NEW t \in Threads, NEW fr \in FrameType,
         frame' = [frame EXCEPT ![t] = fr]
  PROVE  Frames' /\ Others(t) /\ frame'[t] = fr
BY DEF Frames, Others
-----------------------------------------------------------------------------
(* What each action does to the frame of its thread, where it does more    *)
(* than go to another place.                                               *)

(* A thread at work on a photo knows which.                                *)
LEMMA FileNamed ==
  ASSUME Typed, Placed, NEW t \in Threads,
         frame[t].at \notin {"idle", "unlink", "remove_source"}
  PROVE  frame[t].file \in Photos
<1>1. CASE t = Main
  BY <1>1 DEF Placed, MainPlaced, IoPlaced, ExporterPlaced, Busy, CallOfMain
<1>2. CASE t = Io
  BY <1>2 DEF Placed, MainPlaced, IoPlaced, ExporterPlaced, Busy, CallOfIo
<1>3. CASE t = Exporter
  BY <1>3 DEF Placed, MainPlaced, IoPlaced, ExporterPlaced, Busy, CallOfExporter
<1> QED
  BY <1>1, <1>2, <1>3 DEF Threads

LEMMA FramesTyped ==
  ASSUME Typed
  PROVE  Frames /\ \A t \in Threads : frame[t] \in FrameType
BY DEF Typed, Frames

(* The photo itself is read.                                               *)
WasRead(t) ==
  \/ /\ frame'[t].at = "save_meta" /\ frame'[t].thumb \in {Camera, None}
     /\ frame'[t].thumb = None => frame[t].file \in bare
  \/ /\ frame[t].call \in {"open", "regen"} /\ frame'[t].at = "load"
     /\ frame'[t].thumb = frame[t].thumb

LEMMA ReadPhotoFrame ==
  ASSUME Typed, NEW t \in Threads, ReadPhoto(t)
  PROVE  /\ Frames' /\ Others(t) /\ WasRead(t)
         /\ frame'[t].call = frame[t].call /\ frame'[t].file = frame[t].file
         /\ frame'[t].value = frame[t].value /\ frame'[t].parts = frame[t].parts
         /\ frame'[t].new = frame[t].new
<1>1. ASSUME frame' = [frame EXCEPT
               ![t].at = "save_meta",
               ![t].thumb = IF frame[t].file \in bare THEN None ELSE Camera]
      PROVE  /\ Frames' /\ Others(t) /\ WasRead(t)
             /\ frame'[t].call = frame[t].call /\ frame'[t].file = frame[t].file
             /\ frame'[t].value = frame[t].value /\ frame'[t].parts = frame[t].parts
             /\ frame'[t].new = frame[t].new
  <2>1. PICK picture \in {Camera, None} :
           /\ frame' = [frame EXCEPT ![t].at = "save_meta", ![t].thumb = picture]
           /\ picture = None => frame[t].file \in bare
    BY <1>1, MarksApart
  <2>2. "save_meta" \in Places
    BY DEF Places, Reads, SavesThumb
  <2> QED
    BY ZenonT(60), <2>1, <2>2, FramesTyped DEF Frames, Others, FrameType, WasRead
<1>2. ASSUME frame[t].call \in {"open", "regen"}, Goto(t, AfterMetadata(frame[t].call))
      PROVE  /\ Frames' /\ Others(t) /\ WasRead(t)
             /\ frame'[t].call = frame[t].call /\ frame'[t].file = frame[t].file
             /\ frame'[t].value = frame[t].value /\ frame'[t].parts = frame[t].parts
             /\ frame'[t].new = frame[t].new
  <2>1. AfterMetadata(frame[t].call) = "load" /\ "load" \in Places
    BY <1>2 DEF AfterMetadata, Places
  <2> QED
    BY <1>2, <2>1, FramesTyped, Going DEF SameCall, WasRead
<1> QED
  BY <1>1, <1>2, Zenon DEF ReadPhoto

LEMMA ReadMetaFrame ==
  ASSUME Typed, Placed, NEW t \in Threads, ReadMeta(t)
  PROVE  /\ Frames' /\ Others(t)
         /\ \/ /\ frame'[t].at = "thumb" /\ Readable(meta[frame[t].file])
               /\ frame'[t].thumb = frame[t].thumb
            \/ WasRead(t)
         /\ frame'[t].call = frame[t].call /\ frame'[t].file = frame[t].file
         /\ frame'[t].value = frame[t].value /\ frame'[t].parts = frame[t].parts
         /\ frame'[t].new = frame[t].new
<1>1. CASE Readable(meta[frame[t].file])
  <2>1. frame[t].file \in Photos
    BY FileNamed DEF ReadMeta, At
  <2>2. meta[frame[t].file].data \in BOOLEAN
    BY <1>1, <2>1 DEF Readable, Typed, TypeOK, File
  <2>3. PICK rendered \in BOOLEAN :
           frame' = [frame EXCEPT ![t].rendered = rendered, ![t].at = "thumb"]
    BY <1>1, <2>2, Zenon DEF ReadMeta
  <2>4. "thumb" \in Places
    BY DEF Places, Reads
  <2>5. [frame[t] EXCEPT !.rendered = rendered, !.at = "thumb"] \in FrameType
    BY <2>4, FramesTyped DEF FrameType
  <2>6. PICK fr \in FrameType :
           /\ frame' = [frame EXCEPT ![t] = fr]
           /\ fr.at = "thumb" /\ fr.call = frame[t].call /\ fr.file = frame[t].file
           /\ fr.value = frame[t].value /\ fr.thumb = frame[t].thumb
           /\ fr.new = frame[t].new /\ fr.parts = frame[t].parts
    BY <2>3, <2>5, FramesTyped DEF FrameType
  <2> QED
    BY <1>1, <2>6, FramesTyped, Entering
<1>2. CASE ~ Readable(meta[frame[t].file])
  <2>1. ReadPhoto(t)
    BY <1>2, Zenon DEF ReadMeta
  <2> QED
    BY <2>1, ReadPhotoFrame, Zenon
<1> QED
  BY <1>1, <1>2, Zenon

LEMMA ReadThumbFrame ==
  ASSUME Typed, Placed, NEW t \in Threads, ReadThumb(t)
  PROVE  /\ Frames' /\ Others(t)
         /\ \/ /\ frame'[t].at = AfterMetadata(frame[t].call)
               /\ Readable(thumb[frame[t].file])
            \/ WasRead(t)
         /\ frame'[t].call = frame[t].call /\ frame'[t].file = frame[t].file
         /\ frame'[t].value = frame[t].value /\ frame'[t].parts = frame[t].parts
         /\ frame'[t].new = frame[t].new
<1>1. CASE Readable(thumb[frame[t].file])
  <2>1. frame[t].file \in Photos
    BY FileNamed DEF ReadThumb, At
  <2>2. AfterMetadata(frame[t].call) \in Places
    BY DEF AfterMetadata, Places
  <2>3. thumb[frame[t].file].data \in Look \cup {Camera}
    BY <1>1, <2>1 DEF Readable, Typed, TypeOK, File
  <2>4. PICK picture \in Look \cup {Camera} :
           frame' = [frame EXCEPT ![t].thumb = picture,
                                  ![t].at = AfterMetadata(frame[t].call)]
    BY <1>1, <2>3, Zenon DEF ReadThumb
  <2> QED
    BY ZenonT(60), <1>1, <2>2, <2>4, FramesTyped DEF Frames, Others, FrameType
<1>2. CASE ~ Readable(thumb[frame[t].file])
  <2>1. ReadPhoto(t)
    BY <1>2, Zenon DEF ReadThumb
  <2> QED
    BY <2>1, ReadPhotoFrame, Zenon
<1> QED
  BY <1>1, <1>2, Zenon

LEMMA RenderingIs ==
  ASSUME NEW fr \in FrameType, NEW side \in Side
  PROVE  /\ Rendering(fr, side) \in FrameType
         /\ Rendering(fr, side).at = "save_meta"
         /\ Rendering(fr, side).call = "regen_render" /\ Rendering(fr, side).file = fr.file
         /\ Rendering(fr, side).thumb = side.look
         /\ Rendering(fr, side).new = fr.new /\ Rendering(fr, side).value = fr.value
         /\ Rendering(fr, side).side = fr.side
BY DEF Rendering, FrameType, Side, Places, Reads, SavesThumb, Calls

LEMMA PastedIs ==
  ASSUME Typed, NEW f \in Photos, NEW parts, NEW value \in Nat
  PROVE  PastedLook(f, parts, value) \in Look
<1>1. CacheLoad(f) \in Side /\ Untouched \in Look
  BY CacheLoadType, DefaultsType
<1>2. PICK look \in Look : look = Changed(Untouched, parts, value)
  BY <1>1, ChangedIs
<1>3. Overlaid(f, look) \in Look
  BY <1>1 DEF Overlaid, Side, Look
<1> QED
  BY <1>2, <1>3, ChangedIs DEF PastedLook

LEMMA FlagIs ==
  ASSUME NEW f \in Photos, NEW side \in Side
  PROVE  Flag(f, side) \in Side /\ Flag(f, side).look = side.look /\ Flag(f, side).prio = side.prio
<1>1. Readable(sidecar[f]) \in BOOLEAN
  BY DEF Readable
<1> QED
  BY <1>1 DEF Flag, Side

LEMMA SaveNextIs ==
  ASSUME NEW fr \in FrameType, NEW side \in Side
  PROVE  /\ SaveNext(fr, side) \in FrameType
         /\ SaveNext(fr, side).at = "save_side"
         /\ SaveNext(fr, side).call = fr.call /\ SaveNext(fr, side).file = fr.file
         /\ SaveNext(fr, side).thumb = fr.thumb
         /\ SaveNext(fr, side).new = fr.new /\ SaveNext(fr, side).value = fr.value
         /\ SaveNext(fr, side).parts = fr.parts
         /\ SaveNext(fr, side).side = side
BY DEF SaveNext, FrameType, Places, SavesSide
(* rs_cache_load() and what each caller goes on with                       *)
LEMMA LoadSideFrame ==
  ASSUME Typed, Placed, NEW t \in Threads, LoadSide(t)
  PROVE  /\ Frames' /\ Others(t)
         /\ \/ /\ frame[t].call = "open" /\ open = NoPhoto
               /\ open' = Photo(frame[t].file, CacheLoad(frame[t].file))
               /\ frame'[t] = Idle
            \/ /\ frame[t].call = "open" /\ open # NoPhoto /\ open' = open
               /\ frame'[t].at = "save_side" /\ frame'[t].call = "close"
               /\ frame'[t].file = open.file /\ frame'[t].side = open.side
               /\ frame'[t].new = Photo(frame[t].file, CacheLoad(frame[t].file))
            \/ /\ frame[t].call = "paste" /\ open' = open
               /\ frame'[t].at = "save_side" /\ frame'[t].call = frame[t].call
               /\ frame'[t].file = frame[t].file /\ frame'[t].new = frame[t].new
               /\ frame'[t].value = frame[t].value /\ frame'[t].parts = frame[t].parts
               /\ frame'[t].side.look =
                    PastedLook(frame[t].file, frame[t].parts, frame[t].value)
               /\ frame'[t].side.prio = CacheLoad(frame[t].file).prio
            \/ /\ frame[t].call \in {"flag", "flag_open"} /\ open' = open
               /\ frame'[t].at = "save_side" /\ frame'[t].call = frame[t].call
               /\ frame'[t].file = frame[t].file /\ frame'[t].new = frame[t].new
               /\ frame'[t].value = frame[t].value
               /\ frame'[t].side.look = CacheLoad(frame[t].file).look
               /\ frame'[t].side.prio = frame[t].value
            \/ /\ frame[t].call = "export" /\ open' = open
               /\ frame'[t].at = "save_side" /\ frame'[t].call = frame[t].call
               /\ frame'[t].file = frame[t].file /\ frame'[t].new = frame[t].new
               /\ Same(frame'[t].side, CacheLoad(frame[t].file))
            \/ /\ frame[t].call = "regen" /\ open' = open
               /\ frame'[t].at = "save_meta" /\ frame'[t].call = "regen_render"
               /\ frame'[t].file = frame[t].file /\ frame'[t].new = frame[t].new
               /\ frame'[t].thumb = CacheLoad(frame[t].file).look
            \/ /\ frame[t].call = "regen" /\ open' = open /\ SameCall(t)
               /\ frame'[t].at = "unlock"
<1> DEFINE fr == frame[t]
           got == CacheLoad(fr.file)
           new == Photo(fr.file, got)
<1>1. fr \in FrameType /\ Frames
  BY FramesTyped
<1>2. fr.file \in Photos
  BY FileNamed DEF LoadSide, At
<1>3. got \in Side
  BY <1>2, CacheLoadType
<1>4. new \in PhotoType
  BY <1>2, <1>3, PhotoIs
<1>5. CASE fr.call = "open" /\ open = NoPhoto /\ open' = new /\ Return(t)
  BY <1>1, <1>5, Returning
<1>6. CASE /\ fr.call = "open" /\ open # NoPhoto /\ UNCHANGED open
           /\ frame' = [frame EXCEPT ![t] =
                SaveNext([fr EXCEPT !.new = new, !.file = open.file, !.call = "close"],
                         open.side)]
  <2>1. open \in PhotoType
    BY DEF Typed
  <2>2. PICK fr2 : fr2 = [fr EXCEPT !.new = new, !.file = open.file, !.call = "close"]
    OBVIOUS
  <2>3. fr2 \in FrameType /\ fr2.new = new /\ fr2.file = open.file /\ fr2.call = "close"
    BY <1>1, <1>4, <2>1, <2>2 DEF FrameType, PhotoType, Calls
  <2>4. SaveNext(fr2, open.side) \in FrameType
    BY <2>1, <2>3, SaveNextIs DEF PhotoType
  <2>5. frame' = [frame EXCEPT ![t] = SaveNext(fr2, open.side)]
    BY <1>6, <2>2, Zenon
  <2>6. Frames' /\ Others(t) /\ frame'[t] = SaveNext(fr2, open.side)
    BY <1>1, <2>4, <2>5, Entering
  <2>7. /\ SaveNext(fr2, open.side).at = "save_side"
        /\ SaveNext(fr2, open.side).call = fr2.call /\ SaveNext(fr2, open.side).file = fr2.file
        /\ SaveNext(fr2, open.side).new = fr2.new /\ SaveNext(fr2, open.side).side = open.side
    BY <2>1, <2>3, SaveNextIs DEF PhotoType
  <2> HIDE DEF fr, got, new
  <2> QED
    BY <1>6, <2>3, <2>6, <2>7 DEF fr, got, new
<1>7. ASSUME NEW side \in Side,
             frame' = [frame EXCEPT ![t] = SaveNext(fr, side)], UNCHANGED open
      PROVE  /\ Frames' /\ Others(t) /\ open' = open
             /\ frame'[t].at = "save_side" /\ frame'[t].call = frame[t].call
             /\ frame'[t].file = frame[t].file /\ frame'[t].new = frame[t].new
             /\ frame'[t].value = frame[t].value /\ frame'[t].parts = frame[t].parts
             /\ frame'[t].side = side
  <2>1. SaveNext(fr, side) \in FrameType
    BY <1>1, SaveNextIs
  <2>2. Frames' /\ Others(t) /\ frame'[t] = SaveNext(fr, side)
    BY <1>1, <1>7, <2>1, Entering
  <2>3. /\ SaveNext(fr, side).at = "save_side" /\ SaveNext(fr, side).call = fr.call
        /\ SaveNext(fr, side).file = fr.file /\ SaveNext(fr, side).new = fr.new
        /\ SaveNext(fr, side).value = fr.value /\ SaveNext(fr, side).parts = fr.parts
        /\ SaveNext(fr, side).side = side
    BY <1>1, SaveNextIs
  <2> HIDE DEF fr
  <2> QED
    BY <1>7, <2>2, <2>3 DEF fr
<1>8. CASE /\ fr.call = "paste" /\ UNCHANGED open
           /\ frame' = [frame EXCEPT ![t] =
                SaveNext(fr, [got EXCEPT !.look = PastedLook(fr.file, fr.parts, fr.value),
                                         !.whole = TRUE])]
  <2>1. PICK side : side = [got EXCEPT !.look = PastedLook(fr.file, fr.parts, fr.value),
                                       !.whole = TRUE]
    OBVIOUS
  <2>4. PastedLook(fr.file, fr.parts, fr.value) \in Look
    BY <1>1, <1>2, PastedIs DEF FrameType
  <2>2. /\ side \in Side /\ side.look = PastedLook(fr.file, fr.parts, fr.value)
        /\ side.prio = got.prio
    BY <1>3, <2>1, <2>4 DEF Side
  <2>3. frame' = [frame EXCEPT ![t] = SaveNext(fr, side)]
    BY <1>8, <2>1, Zenon
  <2> QED
    BY <1>7, <1>8, <2>2, <2>3
<1>9. CASE /\ fr.call \in {"flag", "flag_open"} /\ UNCHANGED open
           /\ frame' = [frame EXCEPT ![t] =
                SaveNext(fr, Flag(fr.file, [got EXCEPT !.prio = fr.value]))]
  <2>1. PICK flagged, side : flagged = [got EXCEPT !.prio = fr.value]
                             /\ side = Flag(fr.file, flagged)
    OBVIOUS
  <2>2. t = Main
    BY <1>9, ThreadsApart
       DEF Placed, MainPlaced, IoPlaced, ExporterPlaced, Busy, CallOfIo, CallOfExporter,
           Threads
  <2>3. fr.value \in {0, 1}
    BY <1>9, <2>2 DEF Placed, MainPlaced, IoPlaced, ExporterPlaced, Busy
  <2>6. flagged \in Side /\ flagged.look = got.look /\ flagged.prio = fr.value
    BY <1>3, <2>1, <2>3 DEF Side
  <2>4. side \in Side /\ side.look = got.look /\ side.prio = fr.value
    BY <1>2, <2>1, <2>6, FlagIs
  <2>5. frame' = [frame EXCEPT ![t] = SaveNext(fr, side)]
    BY <1>9, <2>1, Zenon
  <2> QED
    BY <1>7, <1>9, <2>4, <2>5
<1>10. CASE /\ fr.call = "export" /\ UNCHANGED open
            /\ frame' = [frame EXCEPT ![t] =
                 SaveNext(fr, Flag(fr.file, [got EXCEPT !.exported = TRUE]))]
  <2>1. PICK flagged, side : flagged = [got EXCEPT !.exported = TRUE]
                             /\ side = Flag(fr.file, flagged)
    OBVIOUS
  <2>4. flagged \in Side /\ flagged.look = got.look /\ flagged.prio = got.prio
    BY <1>3, <2>1 DEF Side
  <2>2. side \in Side /\ side.look = got.look /\ side.prio = got.prio
    BY <1>2, <2>1, <2>4, FlagIs
  <2>3. frame' = [frame EXCEPT ![t] = SaveNext(fr, side)]
    BY <1>10, <2>1, Zenon
  <2> QED
    BY <1>7, <1>10, <2>2, <2>3 DEF Same
<1>11. CASE /\ fr.call = "regen" /\ UNCHANGED open
            /\ frame' = [frame EXCEPT ![t] = Rendering(fr, got)]
  <2>1. Rendering(fr, got) \in FrameType
    BY <1>1, <1>3, RenderingIs
  <2>2. Frames' /\ Others(t) /\ frame'[t] = Rendering(fr, got)
    BY <1>1, <1>11, <2>1, Entering
  <2>3. /\ Rendering(fr, got).at = "save_meta" /\ Rendering(fr, got).call = "regen_render"
        /\ Rendering(fr, got).file = fr.file /\ Rendering(fr, got).new = fr.new
        /\ Rendering(fr, got).thumb = got.look
    BY <1>1, <1>3, RenderingIs
  <2> HIDE DEF fr, got
  <2> QED
    BY <1>11, <2>2, <2>3 DEF fr, got
<1>13. CASE fr.call = "regen" /\ UNCHANGED open /\ Goto(t, "unlock")
  <2>1. "unlock" \in Places
    BY DEF Places
  <2> QED
    BY <1>1, <1>13, <2>1, Going
<1> HIDE DEF fr, got, new
<1>12. LoadSide(t)
  OBVIOUS
<1> QED
  BY <1>5, <1>6, <1>8, <1>9, <1>10, <1>11, <1>12, <1>13, Zenon DEF LoadSide, fr, got, new

(* A thread takes up a call.                                               *)
Entered(t, at, call, file) ==
  /\ Frames' /\ Others(t)
  /\ frame'[t].at = at /\ frame'[t].call = call /\ frame'[t].file = file
  /\ frame'[t].new = NoPhoto

LEMMA OpenFrame ==
  ASSUME Typed, NEW f \in Photos, OpenPhoto(f)
  PROVE  Entered(Main, "meta", "open", f) /\ frame'[Main].thumb = Camera
<1>1. PICK fr : fr = [Idle EXCEPT !.at = "meta", !.call = "open", !.file = f]
  OBVIOUS
<1>2. /\ fr \in FrameType /\ fr.at = "meta" /\ fr.call = "open" /\ fr.file = f
      /\ fr.new = NoPhoto /\ fr.thumb = Camera
  BY <1>1, IdleType DEF FrameType, Places, Reads, Calls
<1>3. frame' = [frame EXCEPT ![Main] = fr]
  BY <1>1, Zenon DEF OpenPhoto
<1> QED
  BY <1>2, <1>3, FramesTyped, Entering DEF Entered, Threads

LEMMA OpenOtherFrame ==
  ASSUME Typed, OpenOther
  PROVE  Entered(Main, "save_side", "close", open.file) /\ frame'[Main].side = open.side
<1>1. PICK fr : fr = [Idle EXCEPT !.at = "save_side", !.call = "close", !.file = open.file,
                                  !.side = open.side]
  OBVIOUS
<1>2. open.file \in Photos \cup {None} /\ open.side \in Side
  BY DEF Typed, PhotoType
<1>3. /\ fr \in FrameType /\ fr.at = "save_side" /\ fr.call = "close"
      /\ fr.file = open.file /\ fr.new = NoPhoto /\ fr.side = open.side
  BY <1>1, <1>2, IdleType DEF FrameType, Places, SavesSide, Calls
<1>4. frame' = [frame EXCEPT ![Main] = fr]
  BY <1>1, Zenon DEF OpenOther
<1> QED
  BY <1>3, <1>4, FramesTyped, Entering DEF Entered, Threads

LEMMA PasteFrame ==
  ASSUME Typed, NEW f \in Photos, Paste(f)
  PROVE  \E parts \in Pastes :
           /\ Entered(Main, IF "turn" \in parts THEN "load" ELSE "meta", "paste", f)
           /\ frame'[Main].thumb = Camera
           /\ frame'[Main].value = NewValue /\ frame'[Main].parts = parts
           /\ wanted' = [g \in Photos |->
                IF g \in {f, open.file}
                THEN [wanted[g] EXCEPT !.look = Changed(@, parts, NewValue)]
                ELSE wanted[g]]
<1>1. PICK parts \in Pastes :
        /\ frame' = [frame EXCEPT ![Main] =
             [Idle EXCEPT !.at = IF "turn" \in parts THEN "load" ELSE "meta",
                          !.call = "paste", !.file = f, !.value = NewValue,
                          !.parts = parts]]
        /\ wanted' = [g \in Photos |->
             IF g \in {f, open.file}
             THEN [wanted[g] EXCEPT !.look = Changed(@, parts, NewValue)]
             ELSE wanted[g]]
  BY Zenon DEF Paste
<1>2. PICK at : at = IF "turn" \in parts THEN "load" ELSE "meta"
  OBVIOUS
<1>3. PICK fr : fr = [Idle EXCEPT !.at = at, !.call = "paste", !.file = f,
                                  !.value = NewValue, !.parts = parts]
  OBVIOUS
<1>4. NewValue \in Nat /\ at \in Places /\ parts \in SUBSET Parts
  BY <1>2 DEF NewValue, Typed, Places, Reads, Pastes, Parts
<1>5. /\ fr \in FrameType /\ fr.at = at /\ fr.call = "paste" /\ fr.file = f
      /\ fr.new = NoPhoto /\ fr.thumb = Camera /\ fr.value = NewValue /\ fr.parts = parts
  BY <1>3, <1>4, IdleType DEF FrameType, Calls
<1>6. frame' = [frame EXCEPT ![Main] = fr]
  BY <1>1, <1>2, <1>3, Zenon
<1>7. Frames' /\ Others(Main) /\ frame'[Main] = fr
  BY <1>5, <1>6, FramesTyped, Entering DEF Threads
<1>8. Entered(Main, at, "paste", f)
  BY <1>5, <1>7, Zenon DEF Entered
<1> QED
  BY <1>1, <1>2, <1>5, <1>7, <1>8

LEMMA SetPrioFrame ==
  ASSUME Typed, NEW f \in Photos, SetPrio(f)
  PROVE  /\ Entered(Main, "load", "flag", f)
         /\ frame'[Main].value = 1 - wanted[f].prio /\ frame'[Main].value \in {0, 1}
<1> DEFINE prio == 1 - wanted[f].prio
<1>1. PICK fr : fr = [Idle EXCEPT !.at = "load", !.call = "flag", !.file = f, !.value = prio]
  OBVIOUS
<1>2. prio \in {0, 1} /\ prio \in Nat
  BY DEF Typed, TypeOK, Side
<1>3. frame' = [frame EXCEPT ![Main] = fr]
  BY <1>1, Zenon DEF SetPrio
<1> HIDE DEF prio
<1>4. /\ fr \in FrameType /\ fr.at = "load" /\ fr.call = "flag" /\ fr.file = f
      /\ fr.new = NoPhoto /\ fr.value = prio
  BY <1>1, <1>2, IdleType DEF FrameType, Places, Calls
<1>5. Frames' /\ Others(Main) /\ frame'[Main] = fr
  BY <1>3, <1>4, FramesTyped, Entering DEF Threads
<1>6. Entered(Main, "load", "flag", f)
  BY <1>4, <1>5, Zenon DEF Entered
<1>7. frame'[Main].value = prio
  BY <1>4, <1>5, Zenon
<1> QED
  BY <1>2, <1>6, <1>7, Zenon DEF prio

LEMMA ExportFrame ==
  ASSUME Typed, Export
  PROVE  Entered(Exporter, "load", "export", open.file)
<1>1. PICK fr : fr = [Idle EXCEPT !.at = "load", !.call = "export", !.file = open.file]
  OBVIOUS
<1>2. open.file \in Photos \cup {None}
  BY DEF Typed, PhotoType
<1>3. /\ fr \in FrameType /\ fr.at = "load" /\ fr.call = "export"
      /\ fr.file = open.file /\ fr.new = NoPhoto
  BY <1>1, <1>2, IdleType DEF FrameType, Places, Calls
<1>4. frame' = [frame EXCEPT ![Exporter] = fr]
  BY <1>1, Zenon DEF Export
<1> QED
  BY <1>3, <1>4, FramesTyped, Entering DEF Entered, Threads

LEMMA ClearFrame ==
  ASSUME Typed, ClearCache
  PROVE  Entered(Main, "unlink", "none", None)
<1>1. PICK fr : fr = [Idle EXCEPT !.at = "unlink", !.todo = Photos]
  OBVIOUS
<1>2. /\ fr \in FrameType /\ fr.at = "unlink" /\ fr.call = "none" /\ fr.file = None
      /\ fr.new = NoPhoto
  BY <1>1, IdleType DEF FrameType, Places
<1>3. frame' = [frame EXCEPT ![Main] = fr]
  BY <1>1, Zenon DEF ClearCache
<1> QED
  BY <1>2, <1>3, FramesTyped, Entering DEF Entered, Threads

LEMMA UnlinkFrame ==
  ASSUME Typed, NEW f \in Photos, UnlinkMeta(f)
  PROVE  /\ Frames' /\ Others(Main)
         /\ frame'[Main].at = "unlink_thumb" /\ frame'[Main].file = f
         /\ frame'[Main].call = frame[Main].call /\ frame'[Main].new = frame[Main].new
<1>1. frame' = [frame EXCEPT ![Main].at = "unlink_thumb", ![Main].file = f,
                             ![Main].todo = @ \ {f}]
  BY Zenon DEF UnlinkMeta
<1> QED
  BY <1>1, FramesTyped DEF Frames, Others, FrameType, Places, Threads

LEMMA TakeJobFrame ==
  ASSUME Typed, NEW f \in Photos, TakeJob(f)
  PROVE  Entered(Io, "meta", "job", f) /\ frame'[Io].thumb = Camera
<1>1. PICK fr : fr = [Idle EXCEPT !.at = "meta", !.call = "job", !.file = f]
  OBVIOUS
<1>2. /\ fr \in FrameType /\ fr.at = "meta" /\ fr.call = "job" /\ fr.file = f
      /\ fr.new = NoPhoto /\ fr.thumb = Camera
  BY <1>1, IdleType DEF FrameType, Places, Reads, Calls
<1>3. frame' = [frame EXCEPT ![Io] = fr]
  BY <1>1, Zenon DEF TakeJob
<1> QED
  BY <1>2, <1>3, FramesTyped, Entering DEF Entered, Threads

LEMMA TakeRegenFrame ==
  ASSUME Typed, TakeRegen
  PROVE  \/ /\ regen # <<>> /\ Head(regen) \in Photos
            /\ Entered(Main, "lock", "regen", Head(regen)) /\ frame'[Main].thumb = Camera
         \/ /\ regen = <<>> /\ Frames' /\ Others(Main) /\ SameCall(Main)
            /\ frame'[Main].at = "remove_source"
<1>1. CASE regen # <<>>
  <2>1. PICK fr : fr = [Idle EXCEPT !.at = "lock", !.call = "regen", !.file = Head(regen)]
    OBVIOUS
  <2>2. Head(regen) \in Photos
    BY <1>1 DEF Typed, TypeOK
  <2>3. /\ fr \in FrameType /\ fr.at = "lock" /\ fr.call = "regen" /\ fr.file = Head(regen)
        /\ fr.new = NoPhoto /\ fr.thumb = Camera
    BY <2>1, <2>2, IdleType DEF FrameType, Places, Calls
  <2>4. frame' = [frame EXCEPT ![Main] = fr]
    BY <1>1, <2>1, Zenon DEF TakeRegen
  <2> QED
    BY <1>1, <2>2, <2>3, <2>4, FramesTyped, Entering DEF Entered, Threads
<1>2. CASE regen = <<>>
  <2>1. Goto(Main, "remove_source")
    BY <1>2, Zenon DEF TakeRegen
  <2> QED
    BY <1>2, <2>1, FramesTyped, Going DEF Threads, Places
<1> QED
  BY <1>1, <1>2

LEMMA RenderedIs ==
  ASSUME Typed, NEW fr \in FrameType
  PROVE  /\ Rendered(fr) \in FrameType
         /\ Rendered(fr).at = "save_meta" /\ Rendered(fr).thumb = open.side.look
         /\ Rendered(fr).call = fr.call /\ Rendered(fr).file = fr.file
         /\ Rendered(fr).new = fr.new
<1>1. open.side.look \in Look
  BY DEF Typed, PhotoType, Side
<1> QED
  BY <1>1 DEF Rendered, FrameType, Places, Reads, SavesThumb

LEMMA ClosingFrame ==
  ASSUME Typed, Closing
  PROVE  /\ Frames' /\ Others(Main)
         /\ \/ frame'[Main].at = "save_meta" /\ frame'[Main].thumb = open.side.look
            \/ frame'[Main].at = "closed"
         /\ frame'[Main].call = frame[Main].call /\ frame'[Main].file = frame[Main].file
         /\ frame'[Main].new = frame[Main].new
<1>1. CASE frame' = [frame EXCEPT ![Main] = Rendered(@)]
  <2>1. frame' = [frame EXCEPT ![Main] = Rendered(frame[Main])]
    BY <1>1, FramesTyped DEF Frames, Threads
  <2>2. Main \in Threads /\ frame[Main] \in FrameType
    BY FramesTyped DEF Threads
  <2>3. /\ Rendered(frame[Main]) \in FrameType
        /\ Rendered(frame[Main]).at = "save_meta"
        /\ Rendered(frame[Main]).thumb = open.side.look
        /\ Rendered(frame[Main]).call = frame[Main].call
        /\ Rendered(frame[Main]).file = frame[Main].file
        /\ Rendered(frame[Main]).new = frame[Main].new
    BY <2>2, RenderedIs
  <2> QED
    BY <2>1, <2>2, <2>3, FramesTyped, Entering
<1>2. CASE Goto(Main, "closed")
  BY <1>2, FramesTyped, Going DEF SameCall, Threads, Places
<1> QED
  BY <1>1, <1>2 DEF Closing

LEMMA RefreshFrame ==
  ASSUME Typed, RefreshThumb
  PROVE  \/ open = NoPhoto /\ frame' = frame
         \/ /\ open # NoPhoto
            /\ Entered(Main, "save_meta", "timer", open.file)
            /\ frame'[Main].thumb = open.side.look
<1>1. CASE open = NoPhoto
  BY <1>1, Zenon DEF RefreshThumb
<1>2. CASE open # NoPhoto
  <2>1. PICK fr : fr = [Idle EXCEPT !.call = "timer", !.file = open.file]
    OBVIOUS
  <2>2. open.file \in Photos \cup {None}
    BY DEF Typed, PhotoType
  <2>3. fr \in FrameType /\ fr.call = "timer" /\ fr.file = open.file /\ fr.new = NoPhoto
    BY <2>1, <2>2, IdleType DEF FrameType, Calls
  <2>4. frame' = [frame EXCEPT ![Main] = Rendered(fr)]
    BY <1>2, <2>1, Zenon DEF RefreshThumb
  <2>5. /\ Rendered(fr) \in FrameType
        /\ Rendered(fr).at = "save_meta" /\ Rendered(fr).thumb = open.side.look
        /\ Rendered(fr).call = fr.call /\ Rendered(fr).file = fr.file
        /\ Rendered(fr).new = fr.new
    BY <2>3, RenderedIs
  <2> QED
    BY <1>2, <2>3, <2>4, <2>5, FramesTyped, Entering DEF Entered, Threads
<1> QED
  BY <1>1, <1>2

LEMMA FlaggedFrame ==
  ASSUME Typed, Flagged
  PROVE  \/ /\ open.file = frame[Main].file
            /\ Frames' /\ Others(Main)
            /\ frame'[Main].at = "load" /\ frame'[Main].call = "flag_open"
            /\ frame'[Main].file = frame[Main].file
            /\ frame'[Main].value = frame[Main].value /\ frame'[Main].new = frame[Main].new
         \/ /\ open.file # frame[Main].file /\ open' = open
            /\ Frames' /\ Others(Main) /\ frame'[Main] = Idle
<1>1. CASE open.file = frame[Main].file
  <2>1. frame' = [frame EXCEPT ![Main].at = "load", ![Main].call = "flag_open"]
    BY <1>1, Zenon DEF Flagged
  <2> QED
    BY <1>1, <2>1, FramesTyped DEF Frames, Others, FrameType, Places, Calls, Threads
<1>2. CASE open.file # frame[Main].file
  <2>1. Return(Main) /\ UNCHANGED open
    BY <1>2, Zenon DEF Flagged
  <2> QED
    BY <1>2, <2>1, FramesTyped, Returning DEF Threads
<1> QED
  BY <1>1, <1>2

(* The ends of saving a thumbnail and a sidecar                            *)
LEMMA ThumbFrame ==
  ASSUME Typed, NEW t \in Threads, GoOn(t, AfterSave(frame[t].call))
  PROVE  /\ Frames' /\ Others(t)
         /\ \/ frame'[t] = Idle /\ frame[t].call = "timer"
            \/ frame'[t].at = AfterSave(frame[t].call) /\ SameCall(t)
<1>1. CASE AfterSave(frame[t].call) = "idle"
  <2>1. Return(t)
    BY <1>1, Zenon DEF GoOn
  <2>2. frame[t].call = "timer"
    BY <1>1 DEF AfterSave, AfterMetadata
  <2> QED
    BY <2>1, <2>2, FramesTyped, Returning
<1>2. CASE AfterSave(frame[t].call) # "idle"
  <2>1. Goto(t, AfterSave(frame[t].call))
    BY <1>2, Zenon DEF GoOn
  <2>2. AfterSave(frame[t].call) \in Places
    BY DEF AfterSave, AfterMetadata, Places
  <2> QED
    BY <2>1, <2>2, FramesTyped, Going
<1> QED
  BY <1>1, <1>2

LEMMA EndThumbFrame ==
  ASSUME Typed, NEW t \in Threads, EndThumb(t) \/ SkipThumb(t)
  PROVE  /\ Frames' /\ Others(t)
         /\ \/ frame'[t] = Idle /\ frame[t].call = "timer"
            \/ frame'[t].at = AfterSave(frame[t].call) /\ SameCall(t)
<1>1. GoOn(t, AfterSave(frame[t].call))
  BY Zenon DEF EndThumb, SkipThumb
<1> QED
  BY <1>1, ThumbFrame

LEMMA SideFrame ==
  ASSUME Typed, NEW t \in Threads, GoOn(t, AfterSide(frame[t].call))
  PROVE  /\ Frames' /\ Others(t)
         /\ \/ frame'[t] = Idle /\ frame[t].call \notin {"close", "paste", "flag"}
            \/ /\ frame'[t].at = AfterSide(frame[t].call) /\ SameCall(t)
               /\ frame[t].call \in {"close", "paste", "flag"}
<1>1. CASE AfterSide(frame[t].call) = "idle"
  <2>1. Return(t)
    BY <1>1, Zenon DEF GoOn
  <2>2. frame[t].call \notin {"close", "paste", "flag"}
    BY <1>1 DEF AfterSide
  <2> QED
    BY <2>1, <2>2, FramesTyped, Returning
<1>2. CASE AfterSide(frame[t].call) # "idle"
  <2>1. Goto(t, AfterSide(frame[t].call))
    BY <1>2, Zenon DEF GoOn
  <2>2. AfterSide(frame[t].call) \in Places /\ frame[t].call \in {"close", "paste", "flag"}
    BY <1>2 DEF AfterSide, Places
  <2> QED
    BY <2>1, <2>2, FramesTyped, Going
<1> QED
  BY <1>1, <1>2

LEMMA EndSideFrame ==
  ASSUME Typed, NEW t \in Threads, EndSide(t) \/ SideFails(t)
  PROVE  /\ Frames' /\ Others(t)
         /\ \/ frame'[t] = Idle /\ frame[t].call \notin {"close", "paste", "flag"}
            \/ /\ frame'[t].at = AfterSide(frame[t].call) /\ SameCall(t)
               /\ frame[t].call \in {"close", "paste", "flag"}
<1>1. GoOn(t, AfterSide(frame[t].call))
  BY Zenon DEF EndSide, SideFails
<1> QED
  BY <1>1, SideFrame
-----------------------------------------------------------------------------
(* Types                                                                   *)

(* The frames stay typed.                                                  *)
LEMMA FramesKept ==
  ASSUME Typed, Placed, [Next]_vars
  PROVE  Frames'
<1> USE FramesTyped DEF Threads
<1>1. ASSUME NEW t \in Threads, FileStep(t) PROVE Frames'
  <2>1. CASE BeginMeta(t) \/ EndMeta(t) \/ MetaFails(t) \/ BeginThumb(t) \/ BeginSide(t)
    <3>1. PICK step \in {"write_meta", "save_thumb", "write_thumb", "write_side"} :
             Goto(t, step)
      BY <2>1, Zenon DEF BeginMeta, EndMeta, MetaFails, BeginThumb, BeginSide
    <3>2. step \in Places
      BY DEF Places, Reads, SavesThumb, SavesSide
    <3> QED
      BY <3>1, <3>2, Going
  <2> QED
    BY <1>1, <2>1, ReadMetaFrame, ReadThumbFrame, EndThumbFrame, LoadSideFrame,
       EndSideFrame DEF FileStep
<1>2. CASE UserStep
  <2>1. CASE UNCHANGED frame
    BY <2>1 DEF Frames
  <2> QED
    BY <1>2, <2>1, OpenFrame, PasteFrame, SetPrioFrame, OpenOtherFrame, ExportFrame,
       ClearFrame
       DEF UserStep, Entered, Edit, LoadDirectory
<1>3. ASSUME NEW step \in Places, Goto(Main, step) PROVE Frames'
  BY <1>3, Going
<1>4. Return(Main) => Frames'
  BY Returning
<1>5. CASE (\E f \in Photos : UnlinkMeta(f)) \/ UnlinkThumb
  <2>1. CASE UnlinkThumb
    <3>1. Return(Main) \/ Goto(Main, "unlink")
      BY <2>1, Zenon DEF UnlinkThumb
    <3>2. "unlink" \in Places
      BY DEF Places
    <3> QED
      BY <1>3, <1>4, <3>1, <3>2
  <2> QED
    BY <1>5, <2>1, UnlinkFrame
<1>6. CASE Closing \/ Closed \/ Pasted \/ Flagged \/ RefreshThumb
  <2>1. CASE Closed \/ Pasted
    BY <1>4, <2>1 DEF Closed, Pasted
  <2>2. UNCHANGED frame => Frames'
    BY DEF Frames
  <2> QED
    BY <1>6, <2>1, <2>2, ClosingFrame, FlaggedFrame, RefreshFrame DEF Entered
<1>7. CASE TakeRegen \/ RemoveSource \/ LockIo \/ CannotLoad \/ UnlockIo
  <2>1. CASE RemoveSource \/ LockIo \/ CannotLoad \/ UnlockIo
    BY <1>3, <1>4, <2>1 DEF RemoveSource, LockIo, CannotLoad, UnlockIo, Places, Reads
  <2> QED
    BY <1>7, <2>1, TakeRegenFrame DEF Entered
<1>8. CASE (\E f \in Photos : TakeJob(f)) \/ Check \/ Enqueue
  <2>1. CASE Check \/ Enqueue
    <3>1. Return(Io) \/ Goto(Io, "enqueue")
      BY <2>1, Zenon DEF Check, Enqueue
    <3>2. "enqueue" \in Places
      BY DEF Places
    <3> QED
      BY <3>1, <3>2, Returning, Going
  <2> QED
    BY <1>8, <2>1, TakeJobFrame DEF Entered
<1>9. CASE Tick \/ UNCHANGED vars
  BY <1>9 DEF Tick, vars, Frames
<1>10. CASE Crash
  BY <1>10, IdleType DEF Crash, Frames
<1> QED
  BY <1>1, <1>2, <1>5, <1>6, <1>7, <1>8, <1>9, <1>10 DEF Next, MainStep, IoStep

(* What files may become in a step.                                        *)
LEMMA SidecarStep ==
  ASSUME Typed, Placed, [Next]_vars
  PROVE  \/ sidecar' = sidecar
         \/ \E t \in Threads : BeginSide(t) \/ EndSide(t)
         \/ Crash
<1>1. ASSUME NEW t \in Threads, FileStep(t), ~ BeginSide(t), ~ EndSide(t)
      PROVE  sidecar' = sidecar
  BY <1>1, Zenon
     DEF FileStep, MetaFails, SkipThumb, SideFails, ReadMeta, ReadThumb, BeginMeta,
         EndMeta, BeginThumb, EndThumb, LoadSide, files
<1>2. CASE UserStep
  BY <1>2, Zenon DEF UserStep, OpenPhoto, Paste, SetPrio, OpenOther, Edit, Export,
     LoadDirectory, ClearCache, files
<1>3. CASE (\E f \in Photos : UnlinkMeta(f)) \/ UnlinkThumb \/ Closing \/ Closed \/ Pasted
  BY <1>3, Zenon DEF UnlinkMeta, UnlinkThumb, Closing, Closed, Pasted, files
<1>4. CASE \/ Flagged \/ RefreshThumb \/ TakeRegen
           \/ RemoveSource \/ LockIo \/ CannotLoad \/ UnlockIo
  BY <1>4, Zenon
     DEF Flagged, RefreshThumb, TakeRegen, RemoveSource, LockIo, CannotLoad, UnlockIo,
         files
<1>5. CASE (\E f \in Photos : TakeJob(f)) \/ Check \/ Enqueue \/ Tick \/ UNCHANGED vars
  BY <1>5, Zenon DEF TakeJob, Check, Enqueue, Tick, vars, files
<1> QED
  BY <1>1, <1>2, <1>3, <1>4, <1>5, Zenon DEF Next, MainStep, IoStep, Threads

LEMMA MetaStep ==
  ASSUME Typed, Placed, [Next]_vars
  PROVE  \/ meta' = meta /\ metaLock' = metaLock
         \/ \E t \in Threads : BeginMeta(t) \/ EndMeta(t)
         \/ \E f \in Photos : UnlinkMeta(f)
         \/ Crash
<1>1. ASSUME NEW t \in Threads, FileStep(t), ~ BeginMeta(t), ~ EndMeta(t)
      PROVE  meta' = meta /\ metaLock' = metaLock
  BY <1>1, Zenon
     DEF FileStep, MetaFails, SkipThumb, SideFails, ReadMeta, ReadThumb, BeginThumb,
         EndThumb, LoadSide, BeginSide, EndSide, files
<1>2. CASE UserStep
  BY <1>2, Zenon DEF UserStep, OpenPhoto, Paste, SetPrio, OpenOther, Edit, Export,
     LoadDirectory, ClearCache, files
<1>3. CASE UnlinkThumb \/ Closing \/ Closed \/ Pasted
  BY <1>3, Zenon DEF UnlinkThumb, Closing, Closed, Pasted, files
<1>4. CASE \/ Flagged \/ RefreshThumb \/ TakeRegen
           \/ RemoveSource \/ LockIo \/ CannotLoad \/ UnlockIo
  BY <1>4, Zenon
     DEF Flagged, RefreshThumb, TakeRegen, RemoveSource, LockIo, CannotLoad, UnlockIo,
         files
<1>5. CASE (\E f \in Photos : TakeJob(f)) \/ Check \/ Enqueue \/ Tick \/ UNCHANGED vars
  BY <1>5, Zenon DEF TakeJob, Check, Enqueue, Tick, vars, files
<1> QED
  BY <1>1, <1>2, <1>3, <1>4, <1>5, Zenon DEF Next, MainStep, IoStep, Threads

LEMMA ThumbStep ==
  ASSUME Typed, Placed, [Next]_vars
  PROVE  \/ thumb' = thumb
         \/ \E t \in Threads : BeginThumb(t) \/ EndThumb(t)
         \/ UnlinkThumb
         \/ Crash
<1>1. ASSUME NEW t \in Threads, FileStep(t), ~ BeginThumb(t), ~ EndThumb(t)
      PROVE  thumb' = thumb
  BY <1>1, Zenon
     DEF FileStep, MetaFails, SkipThumb, SideFails, ReadMeta, ReadThumb, BeginMeta,
         EndMeta, LoadSide, BeginSide, EndSide, files
<1>2. CASE UserStep
  BY <1>2, Zenon DEF UserStep, OpenPhoto, Paste, SetPrio, OpenOther, Edit, Export,
     LoadDirectory, ClearCache, files
<1>3. CASE (\E f \in Photos : UnlinkMeta(f)) \/ Closing \/ Closed \/ Pasted
  BY <1>3, Zenon DEF UnlinkMeta, Closing, Closed, Pasted, files
<1>4. CASE \/ Flagged \/ RefreshThumb \/ TakeRegen
           \/ RemoveSource \/ LockIo \/ CannotLoad \/ UnlockIo
  BY <1>4, Zenon
     DEF Flagged, RefreshThumb, TakeRegen, RemoveSource, LockIo, CannotLoad, UnlockIo,
         files
<1>5. CASE (\E f \in Photos : TakeJob(f)) \/ Check \/ Enqueue \/ Tick \/ UNCHANGED vars
  BY <1>5, Zenon DEF TakeJob, Check, Enqueue, Tick, vars, files
<1> QED
  BY <1>1, <1>2, <1>3, <1>4, <1>5, Zenon DEF Next, MainStep, IoStep, Threads

(* The clock, the photo that is open, and what the user wants              *)
LEMMA ClockStep ==
  ASSUME Typed, Placed, [Next]_vars
  PROVE  /\ now' = now \/ Tick
         /\ raced' = raced \/ \E t \in Threads : BeginThumb(t) \/ LoadSide(t) \/ BeginSide(t)
         /\ crashes' = crashes \/ Crash
         /\ ops' = ops \/ (ops' = ops + 1 /\ UserStep)
         /\ bare' = bare
<1>1. ASSUME NEW t \in Threads, FileStep(t)
      PROVE  /\ UNCHANGED <<now, ops, crashes, bare>>
             /\ raced' = raced \/ BeginThumb(t) \/ LoadSide(t) \/ BeginSide(t)
  BY <1>1, Zenon
     DEF FileStep, MetaFails, SkipThumb, SideFails, ReadMeta, ReadThumb, BeginMeta,
         EndMeta, BeginThumb, EndThumb, LoadSide, BeginSide, EndSide, history, bounds,
         files
<1>2. CASE UserStep
  <2>1. (\E t \in Threads : Operation(t)) => UNCHANGED <<now, crashes, raced>> /\ ops' = ops + 1
    BY Zenon DEF Operation
  <2>2. (\E t \in Threads : Operation(t)) /\ bare' = bare
    BY <1>2, Zenon DEF UserStep, OpenPhoto, Paste, SetPrio, OpenOther, Edit, Export,
       LoadDirectory, ClearCache, Threads, files
  <2> QED
    BY <1>2, <2>1, <2>2, Zenon
<1>3. CASE (\E f \in Photos : UnlinkMeta(f)) \/ UnlinkThumb \/ Closing \/ Closed \/ Pasted
  BY <1>3, Zenon DEF UnlinkMeta, UnlinkThumb, Closing, Closed, Pasted, history, bounds,
     files
<1>4. CASE \/ Flagged \/ RefreshThumb \/ TakeRegen
           \/ RemoveSource \/ LockIo \/ CannotLoad \/ UnlockIo
  BY <1>4, Zenon
     DEF Flagged, RefreshThumb, TakeRegen, RemoveSource, LockIo, CannotLoad, UnlockIo,
         history, bounds, files
<1>5. CASE (\E f \in Photos : TakeJob(f)) \/ Check \/ Enqueue \/ Tick \/ UNCHANGED vars
  BY <1>5, Zenon DEF TakeJob, Check, Enqueue, Tick, vars, history, bounds, files
<1>6. CASE Crash
  BY <1>6, Zenon DEF Crash
<1> QED
  BY <1>1, <1>2, <1>3, <1>4, <1>5, <1>6, Zenon
     DEF Next, MainStep, IoStep, Threads, bounds, files

(* What went wrong with the photos: a step adds to it, and the end of the  *)
(* program forgets it.                                                     *)
LEMMA MishapIs ==
  ASSUME Typed, NEW f \in Photos, NEW kind \in Mishaps, Mishap(f, kind)
  PROVE  /\ mishaps' \in [Photos -> SUBSET Mishaps] /\ kind \in mishaps'[f]
         /\ \A g \in Photos : mishaps[g] \subseteq mishaps'[g]
BY DEF Mishap, Typed, TypeOK

LEMMA SaveFailed ==
  ASSUME Typed, NEW f \in Photos, NEW kind \in Mishaps, SaveFails(f, kind)
  PROVE  /\ mishaps' \in [Photos -> SUBSET Mishaps] /\ kind \in mishaps'[f]
         /\ \A g \in Photos : mishaps[g] \subseteq mishaps'[g]
         /\ failures' \in Nat
BY MishapIs DEF SaveFails, Typed

LEMMA OutcomeIs ==
  ASSUME Typed, NEW f \in Photos, NEW kind \in Mishaps, NEW data, Outcome(f, data, kind)
  PROVE  /\ mishaps' \in [Photos -> SUBSET Mishaps]
         /\ data = Torn => kind \in mishaps'[f]
         /\ \A g \in Photos : mishaps[g] \subseteq mishaps'[g]
         /\ failures' \in Nat
<1>1. CASE data = Torn
  BY <1>1, SaveFailed DEF Outcome
<1>2. CASE data # Torn
  BY <1>2 DEF Outcome, Typed, TypeOK
<1> QED
  BY <1>1, <1>2

LEMMA MishapsStep ==
  ASSUME Typed, Placed, [Next]_vars
  PROVE  /\ mishaps' \in [Photos -> SUBSET Mishaps] /\ failures' \in Nat
         /\ Crash \/ \A f \in Photos : mishaps[f] \subseteq mishaps'[f]
<1> USE DEF Mishaps
<1>0. mishaps \in [Photos -> SUBSET Mishaps] /\ failures \in Nat
  BY DEF Typed, TypeOK
<1>1. CASE UNCHANGED <<mishaps, failures>>
  BY <1>0, <1>1
<1>2. ASSUME NEW t \in Threads, FileStep(t)
      PROVE  /\ mishaps' \in [Photos -> SUBSET Mishaps] /\ failures' \in Nat
             /\ \A f \in Photos : mishaps[f] \subseteq mishaps'[f]
  <2>1. CASE ReadMeta(t) \/ ReadThumb(t) \/ BeginMeta(t) \/ BeginThumb(t) \/ BeginSide(t)
    <3>1. UNCHANGED <<mishaps, failures>>
      BY <2>1, Zenon
         DEF ReadMeta, ReadThumb, BeginMeta, BeginThumb, BeginSide, history, bounds
    <3> QED
      BY <1>0, <3>1
  <2>2. CASE EndMeta(t) \/ EndThumb(t)
    <3>1. frame[t].file \in Photos
      BY <2>2, FileNamed DEF EndMeta, EndThumb, At
    <3>2. \E data : Outcome(frame[t].file, data, "uncached")
      BY <2>2, Zenon DEF EndMeta, EndThumb
    <3> QED
      BY <3>1, <3>2, OutcomeIs
  <2>3. CASE EndSide(t)
    <3>1. frame[t].file \in Photos
      BY <2>3, FileNamed DEF EndSide, At
    <3>2. \E data : Outcome(frame[t].file, data, "unsaved")
      BY <2>3, Zenon DEF EndSide
    <3> QED
      BY <3>1, <3>2, OutcomeIs
  <2>4. CASE MetaFails(t) \/ SkipThumb(t) \/ SideFails(t)
    <3>1. frame[t].file \in Photos
      BY <2>4, FileNamed DEF MetaFails, SkipThumb, SideFails, At
    <3>2. \/ UNCHANGED <<mishaps, failures>>
          \/ SaveFails(frame[t].file, "uncached") \/ SaveFails(frame[t].file, "unsaved")
      BY <2>4, Zenon DEF MetaFails, SkipThumb, SideFails
    <3> QED
      BY <1>0, <3>1, <3>2, SaveFailed
  <2>5. CASE LoadSide(t)
    <3>1. frame[t].file \in Photos
      BY <2>5, FileNamed DEF LoadSide, At
    <3>2. failures' = failures /\ (mishaps' = mishaps \/ Mishap(frame[t].file, "undone"))
      BY <2>5, Zenon DEF LoadSide, bounds
    <3> QED
      BY <1>0, <3>1, <3>2, MishapIs
  <2> QED
    BY <1>2, <2>1, <2>2, <2>3, <2>4, <2>5 DEF FileStep
<1>3. CASE UserStep
  <2>1. (\E t \in Threads : Operation(t)) => UNCHANGED <<mishaps, failures>>
    BY Zenon DEF Operation
  <2>2. \E t \in Threads : Operation(t)
    BY <1>3, Zenon DEF UserStep, OpenPhoto, Paste, SetPrio, OpenOther, Edit, Export,
       LoadDirectory, ClearCache, Threads
  <2> QED
    BY <1>1, <2>1, <2>2, Zenon
<1>4. CASE (\E f \in Photos : UnlinkMeta(f)) \/ UnlinkThumb \/ Closing \/ Closed
  BY <1>1, <1>4, Zenon DEF UnlinkMeta, UnlinkThumb, Closing, Closed, history, bounds
<1>5. CASE \/ Flagged \/ RefreshThumb \/ TakeRegen
           \/ RemoveSource \/ LockIo \/ CannotLoad \/ UnlockIo
  BY <1>1, <1>5, Zenon
     DEF Flagged, RefreshThumb, TakeRegen, RemoveSource, LockIo, CannotLoad, UnlockIo,
         history, bounds
<1>6. CASE (\E f \in Photos : TakeJob(f)) \/ Check \/ Enqueue \/ Tick \/ UNCHANGED vars
  BY <1>1, <1>6, Zenon DEF TakeJob, Check, Enqueue, Tick, vars, history, bounds
<1>7. CASE Pasted
  <2>1. /\ failures' = failures
        /\ mishaps' = mishaps \/ (open # NoPhoto /\ Mishap(open.file, "undone"))
    BY <1>7, Zenon DEF Pasted, bounds
  <2>2. open # NoPhoto => open.file \in Photos
    BY DEF Placed, MainPlaced, Typed, TypeOK
  <2> QED
    BY <1>0, <2>1, <2>2, MishapIs
<1>8. CASE Crash
  BY <1>0, <1>8 DEF Crash
<1> QED
  BY <1>2, <1>3, <1>4, <1>5, <1>6, <1>7, <1>8, Zenon DEF Next, MainStep, IoStep, Threads

(* A file as it is opened, closed and unlinked in a step, and after the    *)
(* end of the program.                                                     *)
LEMMA BegunMeta ==
  ASSUME Typed, Placed, NEW t \in Threads, BeginMeta(t)
  PROVE  /\ frame[t].file \in Photos /\ At(t, "save_meta") /\ metaLock = None /\ metaLock' = t
         /\ meta' \in [Photos -> File(BOOLEAN)]
         /\ \A f \in Photos : f # frame[t].file => meta'[f] = meta[f]
         /\ meta'[frame[t].file] = Truncated(meta[frame[t].file], t)
         /\ frame'[t].at = "write_meta" /\ SameCall(t) /\ Others(t)
<1>1. frame[t].file \in Photos
  BY FileNamed DEF BeginMeta, At
<1>2. Truncated(meta[frame[t].file], t) \in File(BOOLEAN)
  BY <1>1, TruncatedIs DEF Typed, TypeOK
<1>3. meta' = [meta EXCEPT ![frame[t].file] = Truncated(meta[frame[t].file], t)]
  BY <1>1 DEF BeginMeta, Typed, TypeOK
<1>4. Goto(t, "write_meta") /\ "write_meta" \in Places
  BY DEF BeginMeta, Places, Reads, SavesThumb
<1> QED
  BY ZenonT(60), <1>1, <1>2, <1>3, <1>4, FramesTyped, Going DEF BeginMeta, Typed, TypeOK

LEMMA EndedMeta ==
  ASSUME Typed, Placed, NEW t \in Threads, EndMeta(t)
  PROVE  /\ frame[t].file \in Photos /\ At(t, "write_meta") /\ metaLock' = None
         /\ meta' \in [Photos -> File(BOOLEAN)]
         /\ \A f \in Photos : f # frame[t].file => meta'[f] = meta[f]
         /\ \E data \in {frame[t].rendered, Torn} :
               /\ meta'[frame[t].file] \in Written(meta[frame[t].file], t, data)
               /\ data = Torn => "uncached" \in mishaps'[frame[t].file]
         /\ frame'[t].at = "save_thumb" /\ SameCall(t) /\ Others(t)
         /\ frame[t].rendered \in BOOLEAN
<1>1. frame[t].file \in Photos /\ frame[t].rendered \in BOOLEAN
  BY FileNamed, FramesTyped DEF EndMeta, At, FrameType
<1>7. PICK data \in {frame[t].rendered, Torn} :
        /\ \E file \in Written(meta[frame[t].file], t, data) :
              meta' = [meta EXCEPT ![frame[t].file] = file]
        /\ Outcome(frame[t].file, data, "uncached")
  BY Zenon DEF EndMeta
<1>8. data = Torn => "uncached" \in mishaps'[frame[t].file]
  BY <1>1, <1>7, OutcomeIs DEF Mishaps
<1>2. PICK file \in Written(meta[frame[t].file], t, data) :
         meta' = [meta EXCEPT ![frame[t].file] = file]
  BY <1>7
<1>3. file \in File(BOOLEAN)
  BY <1>1, WrittenIs DEF Typed, TypeOK
<1>4. Goto(t, "save_thumb") /\ "save_thumb" \in Places
  BY DEF EndMeta, Places, Reads, SavesThumb
<1>5. frame'[t].at = "save_thumb" /\ SameCall(t) /\ Others(t)
  BY <1>4, FramesTyped, Going
<1>6. At(t, "write_meta") /\ metaLock' = None
  BY DEF EndMeta
<1> QED
  BY <1>1, <1>2, <1>3, <1>5, <1>6, <1>8 DEF Typed, TypeOK

LEMMA FailedMeta ==
  ASSUME Typed, Placed, NEW t \in Threads, MetaFails(t)
  PROVE  /\ frame[t].file \in Photos /\ At(t, "save_meta")
         /\ "uncached" \in mishaps'[frame[t].file]
         /\ frame'[t].at = "save_thumb" /\ SameCall(t) /\ Others(t)
<1>1. frame[t].file \in Photos /\ At(t, "save_meta")
  BY FileNamed DEF MetaFails, At
<1>2. SaveFails(frame[t].file, "uncached") /\ Goto(t, "save_thumb")
  BY Zenon DEF MetaFails
<1>3. "save_thumb" \in Places /\ "uncached" \in Mishaps
  BY DEF Places, Reads, SavesThumb, Mishaps
<1> QED
  BY <1>1, <1>2, <1>3, FramesTyped, Going, SaveFailed

LEMMA BegunThumb ==
  ASSUME Typed, Placed, NEW t \in Threads, BeginThumb(t)
  PROVE  /\ frame[t].file \in Photos /\ At(t, "save_thumb")
         /\ thumb' \in [Photos -> File(Look \cup {Camera})]
         /\ \A f \in Photos : f # frame[t].file => thumb'[f] = thumb[f]
         /\ thumb'[frame[t].file] = Truncated(thumb[frame[t].file], t)
         /\ frame'[t].at = "write_thumb" /\ SameCall(t) /\ Others(t)
         /\ raced' = FALSE => thumb[frame[t].file].by = {} /\ raced = FALSE
         /\ raced' \in BOOLEAN
<1>1. frame[t].file \in Photos
  BY FileNamed DEF BeginThumb, At
<1>2. Truncated(thumb[frame[t].file], t) \in File(Look \cup {Camera})
  BY <1>1, TruncatedIs DEF Typed, TypeOK
<1>3. thumb' = [thumb EXCEPT ![frame[t].file] = Truncated(thumb[frame[t].file], t)]
  BY <1>1 DEF BeginThumb, Typed, TypeOK
<1>4. Goto(t, "write_thumb") /\ "write_thumb" \in Places
  BY DEF BeginThumb, Places, Reads, SavesThumb
<1>5. At(t, "save_thumb") /\ raced' = (raced \/ thumb[frame[t].file].by # {})
  BY DEF BeginThumb
<1>6. raced \in BOOLEAN
  BY DEF Typed
<1>7. /\ raced' = FALSE => thumb[frame[t].file].by = {} /\ raced = FALSE
      /\ raced' \in BOOLEAN
  BY <1>5, <1>6, Zenon
<1>8. frame'[t].at = "write_thumb" /\ SameCall(t) /\ Others(t)
  BY <1>4, FramesTyped, Going
<1> QED
  BY <1>1, <1>2, <1>3, <1>5, <1>7, <1>8 DEF Typed, TypeOK

LEMMA EndedThumb ==
  ASSUME Typed, Placed, NEW t \in Threads, EndThumb(t)
  PROVE  /\ frame[t].file \in Photos /\ At(t, "write_thumb")
         /\ thumb' \in [Photos -> File(Look \cup {Camera})]
         /\ \A f \in Photos : f # frame[t].file => thumb'[f] = thumb[f]
         /\ \E data \in {frame[t].thumb, Torn} :
               /\ thumb'[frame[t].file] \in Written(thumb[frame[t].file], t, data)
               /\ data = Torn => "uncached" \in mishaps'[frame[t].file]
         /\ frame[t].thumb \in Look \cup {Camera}
<1>0. frame[t].thumb # None
  <2>1. frame[t].at = "write_thumb"
    BY DEF EndThumb, At
  <2> QED
    BY <2>1 DEF Placed, MainPlaced, IoPlaced, ExporterPlaced, Busy, Threads
<1>1. frame[t].file \in Photos /\ frame[t].thumb \in Look \cup {Camera}
  BY <1>0, FileNamed, FramesTyped DEF EndThumb, At, FrameType
<1>5. PICK data \in {frame[t].thumb, Torn} :
        /\ \E file \in Written(thumb[frame[t].file], t, data) :
              thumb' = [thumb EXCEPT ![frame[t].file] = file]
        /\ Outcome(frame[t].file, data, "uncached")
  BY Zenon DEF EndThumb
<1>6. data = Torn => "uncached" \in mishaps'[frame[t].file]
  BY <1>1, <1>5, OutcomeIs DEF Mishaps
<1>2. PICK file \in Written(thumb[frame[t].file], t, data) :
         thumb' = [thumb EXCEPT ![frame[t].file] = file]
  BY <1>5
<1>3. file \in File(Look \cup {Camera})
  BY <1>1, WrittenIs DEF Typed, TypeOK
<1>4. At(t, "write_thumb")
  BY DEF EndThumb
<1> QED
  BY <1>1, <1>2, <1>3, <1>4, <1>6 DEF Typed, TypeOK

LEMMA BegunSide ==
  ASSUME Typed, Placed, NEW t \in Threads, BeginSide(t)
  PROVE  /\ frame[t].file \in Photos /\ At(t, "save_side")
         /\ sidecar' \in [Photos -> File(Side)]
         /\ \A f \in Photos : f # frame[t].file => sidecar'[f] = sidecar[f]
         /\ sidecar'[frame[t].file] = Truncated(sidecar[frame[t].file], t)
         /\ frame'[t].at = "write_side" /\ SameCall(t) /\ Others(t)
         /\ raced' = FALSE =>
               raced = FALSE /\ \A u \in Threads \ {t} : ~ Saving(u, frame[t].file)
         /\ raced' \in BOOLEAN
<1>1. frame[t].file \in Photos
  BY FileNamed DEF BeginSide, At
<1>2. Truncated(sidecar[frame[t].file], t) \in File(Side)
  BY <1>1, TruncatedIs DEF Typed, TypeOK
<1>3. sidecar' = [sidecar EXCEPT ![frame[t].file] = Truncated(sidecar[frame[t].file], t)]
  BY <1>1 DEF BeginSide, Typed, TypeOK
<1>4. Goto(t, "write_side") /\ "write_side" \in Places
  BY DEF BeginSide, Places, SavesSide
<1>5. At(t, "save_side")
      /\ raced' = (raced \/ \E u \in Threads \ {t} : Saving(u, frame[t].file))
  BY DEF BeginSide, Race
<1>6. raced \in BOOLEAN
  BY DEF Typed
<1>7. /\ raced' = FALSE =>
            raced = FALSE /\ \A u \in Threads \ {t} : ~ Saving(u, frame[t].file)
      /\ raced' \in BOOLEAN
  BY <1>5, <1>6, Zenon
<1>8. frame'[t].at = "write_side" /\ SameCall(t) /\ Others(t)
  BY <1>4, FramesTyped, Going
<1> QED
  BY <1>1, <1>2, <1>3, <1>5, <1>7, <1>8 DEF Typed, TypeOK

LEMMA EndedSide ==
  ASSUME Typed, Placed, NEW t \in Threads, EndSide(t)
  PROVE  /\ frame[t].file \in Photos /\ At(t, "write_side")
         /\ sidecar' \in [Photos -> File(Side)]
         /\ \A f \in Photos : f # frame[t].file => sidecar'[f] = sidecar[f]
         /\ \E data \in {frame[t].side, Torn} :
               /\ sidecar'[frame[t].file] \in Written(sidecar[frame[t].file], t, data)
               /\ data = Torn => "unsaved" \in mishaps'[frame[t].file]
         /\ frame[t].side \in Side
<1>1. frame[t].file \in Photos /\ frame[t].side \in Side
  BY FileNamed, FramesTyped DEF EndSide, At, FrameType
<1>5. PICK data \in {frame[t].side, Torn} :
        /\ \E file \in Written(sidecar[frame[t].file], t, data) :
              sidecar' = [sidecar EXCEPT ![frame[t].file] = file]
        /\ Outcome(frame[t].file, data, "unsaved")
  BY Zenon DEF EndSide
<1>6. data = Torn => "unsaved" \in mishaps'[frame[t].file]
  BY <1>1, <1>5, OutcomeIs DEF Mishaps
<1>2. PICK file \in Written(sidecar[frame[t].file], t, data) :
         sidecar' = [sidecar EXCEPT ![frame[t].file] = file]
  BY <1>5
<1>3. file \in File(Side)
  BY <1>1, WrittenIs DEF Typed, TypeOK
<1>4. At(t, "write_side")
  BY DEF EndSide
<1> QED
  BY <1>1, <1>2, <1>3, <1>4, <1>6 DEF Typed, TypeOK

LEMMA LoadedSide ==
  ASSUME Typed, Placed, NEW t \in Threads, LoadSide(t)
  PROVE  /\ frame[t].file \in Photos /\ At(t, "load") /\ CacheLoad(frame[t].file) \in Side
         /\ raced' = FALSE =>
               raced = FALSE /\ \A u \in Threads \ {t} : ~ Saving(u, frame[t].file)
         /\ raced' \in BOOLEAN
<1>1. frame[t].file \in Photos
  BY FileNamed DEF LoadSide, At
<1>2. At(t, "load") /\ raced' = (raced \/ \E u \in Threads \ {t} : Saving(u, frame[t].file))
  BY DEF LoadSide, Race
<1>3. raced \in BOOLEAN
  BY DEF Typed
<1>4. /\ raced' = FALSE =>
            raced = FALSE /\ \A u \in Threads \ {t} : ~ Saving(u, frame[t].file)
      /\ raced' \in BOOLEAN
  BY <1>2, <1>3, Zenon
<1> QED
  BY <1>1, <1>2, <1>4, CacheLoadType

LEMMA CrashedFiles ==
  ASSUME Typed, Crash
  PROVE  /\ sidecar' \in [Photos -> File(Side)] /\ meta' \in [Photos -> File(BOOLEAN)]
         /\ thumb' \in [Photos -> File(Look \cup {Camera})]
         /\ \A f \in Photos :
               /\ sidecar'[f].by = {} /\ ~ Mixed(sidecar'[f])
               /\ meta'[f].by = {} /\ ~ Mixed(meta'[f])
               /\ thumb'[f].by = {} /\ ~ Mixed(thumb'[f])
               /\ thumb'[f].time = thumb[f].time
<1> DEFINE left(file) == [file EXCEPT !.by = {}, !.mixed = FALSE]
<1>1. ASSUME NEW S, NEW file \in File(S)
      PROVE  /\ left(file) \in File(S) /\ left(file).by = {} /\ ~ Mixed(left(file))
             /\ left(file).time = file.time
  <2>1. left(file).mixed = FALSE
    BY DEF File
  <2>2. ~ Mixed(left(file))
    BY <2>1 DEF Mixed
  <2> QED
    BY <2>2 DEF File
<1>2. /\ sidecar' = [f \in Photos |-> left(sidecar[f])]
      /\ meta' = [f \in Photos |-> left(meta[f])]
      /\ thumb' = [f \in Photos |-> left(thumb[f])]
  BY Zenon DEF Crash
<1>3. \A f \in Photos : /\ sidecar[f] \in File(Side) /\ meta[f] \in File(BOOLEAN)
                        /\ thumb[f] \in File(Look \cup {Camera})
  BY DEF Typed, TypeOK
<1> HIDE DEF left
<1>4. \A f \in Photos : /\ left(sidecar[f]) \in File(Side) /\ left(sidecar[f]).by = {}
                        /\ ~ Mixed(left(sidecar[f]))
  BY <1>1, <1>3
<1>5. \A f \in Photos : /\ left(meta[f]) \in File(BOOLEAN) /\ left(meta[f]).by = {}
                        /\ ~ Mixed(left(meta[f]))
  BY <1>1, <1>3
<1>6. \A f \in Photos : /\ left(thumb[f]) \in File(Look \cup {Camera})
                        /\ left(thumb[f]).by = {} /\ ~ Mixed(left(thumb[f]))
                        /\ left(thumb[f]).time = thumb[f].time
  BY <1>1, <1>3
<1> QED
  BY <1>2, <1>4, <1>5, <1>6

(* The other variables                                                     *)
LEMMA UsersStep ==
  ASSUME Typed, UserStep
  PROVE  /\ open' \in PhotoType /\ timer' \in BOOLEAN /\ idleId' = idleId /\ regen' = regen
         /\ jobs' \subseteq Photos /\ sources' = sources
         /\ {ioLock, metaLock}' \subseteq Threads \cup {None}
         /\ wanted' \in [Photos -> Side] /\ loaded' \subseteq Photos
<1>1. NewValue \in Nat
  BY DEF NewValue, Typed
<1>2. CASE \E f \in Photos : OpenPhoto(f)
  BY <1>2 DEF OpenPhoto, Typed, TypeOK, regenVars
<1>3. CASE OpenOther \/ Export \/ LoadDirectory \/ ClearCache
  BY <1>3
     DEF OpenOther, Export, LoadDirectory, ClearCache, Reload, Typed, TypeOK, regenVars
<1>4. ASSUME NEW f \in Photos, Paste(f)
      PROVE  wanted' \in [Photos -> Side] /\ UNCHANGED <<files, open, timer, jobs, regenVars,
                                                         ioLock, metaLock, loaded>>
  <2>2. PICK parts : wanted' = [g \in Photos |->
                                 IF g \in {f, open.file}
                                 THEN [wanted[g] EXCEPT !.look = Changed(@, parts, NewValue)]
                                 ELSE wanted[g]]
    BY <1>4, Zenon DEF Paste
  <2>5. \A g \in Photos : /\ wanted[g] \in Side
                          /\ Changed(wanted[g].look, parts, NewValue) \in Look
    BY <1>1, ChangedIs DEF Typed, TypeOK, Side
  <2>1. \A g \in Photos :
           [wanted[g] EXCEPT !.look = Changed(wanted[g].look, parts, NewValue)] \in Side
    BY <2>5 DEF Side
  <2>3. wanted \in [Photos -> Side]
    BY DEF Typed, TypeOK
  <2>4. UNCHANGED <<files, open, timer, jobs, regenVars, ioLock, metaLock, loaded>>
    BY <1>4, Zenon DEF Paste
  <2> QED
    BY <2>1, <2>2, <2>3, <2>4
<1>5. CASE \E f \in Photos : Paste(f)
  BY <1>4, <1>5 DEF Typed, TypeOK, regenVars
<1>6. ASSUME NEW f \in Photos, SetPrio(f)
      PROVE  wanted' \in [Photos -> Side] /\ UNCHANGED <<files, open, timer, jobs, regenVars,
                                                         ioLock, metaLock, loaded>>
  <2>1. wanted \in [Photos -> Side] /\ wanted[f] \in Side /\ 1 - wanted[f].prio \in {0, 1}
    BY DEF Typed, TypeOK, Side
  <2>2. [wanted[f] EXCEPT !.prio = 1 - wanted[f].prio] \in Side
    BY <2>1 DEF Side
  <2>3. wanted' = [wanted EXCEPT ![f].prio = 1 - wanted[f].prio]
    BY <1>6, Zenon DEF SetPrio
  <2>4. UNCHANGED <<files, open, timer, jobs, regenVars, ioLock, metaLock, loaded>>
    BY <1>6, Zenon DEF SetPrio
  <2> QED
    BY <2>1, <2>2, <2>3, <2>4
<1>7. CASE \E f \in Photos : SetPrio(f)
  BY <1>6, <1>7 DEF Typed, TypeOK, regenVars
<1>8. CASE Edit
  <2>3. PICK part \in Parts :
          /\ open' = [open EXCEPT !.side.look = Changed(@, {part}, NewValue)]
          /\ wanted' = [wanted EXCEPT ![open.file].look = Changed(@, {part}, NewValue)]
    BY <1>8, Zenon DEF Edit
  <2>1. open' \in PhotoType
    <3>1. open \in PhotoType /\ open.side.look \in Look
      BY DEF Typed, PhotoType, Side
    <3>2. PICK look : look = Changed(open.side.look, {part}, NewValue)
      OBVIOUS
    <3>3. look \in Look
      BY <1>1, <3>1, <3>2, ChangedIs
    <3> QED
      BY <2>3, <3>1, <3>2, <3>3 DEF PhotoType, Side
  <2>2. wanted' \in [Photos -> Side]
    <3>1. wanted \in [Photos -> Side]
      BY DEF Typed, TypeOK
    <3>2. CASE open.file \in Photos
      <4>1. wanted[open.file] \in Side /\ wanted[open.file].look \in Look
        BY <3>1, <3>2 DEF Side
      <4>2. PICK look : look = Changed(wanted[open.file].look, {part}, NewValue)
        OBVIOUS
      <4>3. look \in Look
        BY <1>1, <4>1, <4>2, ChangedIs
      <4>4. [wanted[open.file] EXCEPT !.look = look] \in Side
        BY <4>1, <4>3 DEF Side
      <4> QED
        BY <2>3, <3>1, <3>2, <4>2, <4>4
    <3>3. CASE open.file \notin Photos
      BY <2>3, <3>1, <3>3
    <3> QED
      BY <3>2, <3>3
  <2> QED
    BY <1>8, <2>1, <2>2 DEF Edit, Typed, TypeOK, regenVars
<1> QED
  BY <1>2, <1>3, <1>5, <1>7, <1>8 DEF UserStep

LEMMA OpenKept ==
  ASSUME Typed, Placed, [Next]_vars
  PROVE  open' \in PhotoType
<1>1. open \in PhotoType
  BY DEF Typed
<1>2. ASSUME NEW t \in Threads, FileStep(t) PROVE open' \in PhotoType
  <2>1. CASE LoadSide(t)
    <3>1. Photo(frame[t].file, CacheLoad(frame[t].file)) \in PhotoType
      BY <2>1, LoadedSide, PhotoIs
    <3> QED
      BY <1>1, <2>1, <3>1, LoadSideFrame
  <2>2. CASE ~ LoadSide(t)
    BY <1>1, <1>2, <2>2, Zenon
       DEF FileStep, MetaFails, SkipThumb, SideFails, ReadMeta, ReadThumb, BeginMeta,
           EndMeta, BeginThumb, EndThumb, BeginSide, EndSide
  <2> QED
    BY <2>1, <2>2
<1>3. CASE Closed
  BY <1>3, FramesTyped DEF Closed, FrameType, Threads
<1>4. CASE Pasted
  <2>1. frame[Main].value \in Nat /\ open.side \in Side /\ open.side.look \in Look
    BY <1>1, FramesTyped DEF FrameType, Threads, PhotoType, Side
  <2>2. PICK look : look = Changed(open.side.look, frame[Main].parts, frame[Main].value)
    OBVIOUS
  <2>3. look \in Look /\ [look EXCEPT !.crop = frame[Main].value] \in Look
    BY <2>1, <2>2, ChangedIs DEF Look
  <2>4. \/ open' = open
        \/ \E new \in Look : open' = [open EXCEPT !.side.look = new]
    BY <1>4, <2>2, <2>3, Zenon DEF Pasted
  <2> QED
    BY <1>1, <2>1, <2>4 DEF PhotoType, Side
<1>5. CASE Flagged
  <2>1. CASE open.file = frame[Main].file
    <3>1. frame[Main].value \in {0, 1}
      BY <1>5, ThreadsApart
         DEF Flagged, At, Placed, MainPlaced, IoPlaced, ExporterPlaced, Busy, CallOfMain,
             SavesThumb, SavesSide, Reads
    <3>2. open' = [open EXCEPT !.side.prio = frame[Main].value]
      BY <1>5, <2>1, Zenon DEF Flagged
    <3> QED
      BY <1>1, <3>1, <3>2 DEF PhotoType, Side
  <2>2. CASE open.file # frame[Main].file
    BY <1>1, <1>5, <2>2, FlaggedFrame
  <2> QED
    BY <2>1, <2>2
<1>6. CASE (\E f \in Photos : UnlinkMeta(f)) \/ UnlinkThumb \/ Closing \/ RefreshThumb
  BY <1>1, <1>6, Zenon DEF UnlinkMeta, UnlinkThumb, Closing, RefreshThumb
<1>7. CASE TakeRegen \/ RemoveSource \/ LockIo \/ CannotLoad \/ UnlockIo
  BY <1>1, <1>7, Zenon DEF TakeRegen, RemoveSource, LockIo, CannotLoad, UnlockIo
<1>8. CASE (\E f \in Photos : TakeJob(f)) \/ Check \/ Enqueue \/ Tick \/ UNCHANGED vars
  BY <1>1, <1>8, Zenon DEF TakeJob, Check, Enqueue, Tick, vars
<1>9. CASE Crash
  BY <1>9, DefaultsType, Zenon DEF Crash
<1> QED
  BY <1>2, <1>3, <1>4, <1>5, <1>6, <1>7, <1>8, <1>9, UsersStep
     DEF Next, MainStep, IoStep, Threads

(* Where a step on files leads, and where one of the main thread does.     *)
LEMMA FilePlaces ==
  ASSUME Typed, Placed, NEW t \in Threads, FileStep(t)
  PROVE  /\ frame[t].at \in Reads \cup SavesSide \cup {"load"}
         /\ frame'[t].at \in Reads \cup SavesSide \cup
              {"load", "check", "closed", "unlock", "idle", "closing", "pasted", "flagged"}
         /\ Others(t)
<1> USE IdleType DEF Reads, SavesThumb, SavesSide
<1>1. CASE ReadMeta(t)
  BY <1>1, ReadMetaFrame DEF ReadMeta, At, WasRead
<1>2. CASE ReadThumb(t)
  BY <1>2, ReadThumbFrame DEF ReadThumb, At, AfterMetadata, WasRead
<1>3. CASE BeginMeta(t) \/ EndMeta(t) \/ BeginThumb(t) \/ BeginSide(t)
  BY <1>3, BegunMeta, EndedMeta, BegunThumb, BegunSide DEF At
<1>7. CASE MetaFails(t)
  <2>1. Goto(t, "save_thumb") /\ "save_thumb" \in Places /\ At(t, "save_meta")
    BY <1>7 DEF MetaFails, Places
  <2> QED
    BY <2>1, FramesTyped, Going DEF At
<1>4. CASE EndThumb(t) \/ SkipThumb(t)
  BY SMTT(60), <1>4, EndThumbFrame DEF EndThumb, SkipThumb, At, AfterSave, AfterMetadata
<1>5. CASE LoadSide(t)
  BY <1>5, LoadSideFrame DEF LoadSide, At
<1>6. CASE EndSide(t) \/ SideFails(t)
  BY SMTT(60), <1>6, EndSideFrame DEF EndSide, SideFails, At, AfterSide
<1> QED
  BY <1>1, <1>2, <1>3, <1>4, <1>5, <1>6, <1>7 DEF FileStep

LEMMA UserPlaces ==
  ASSUME Typed, UserStep
  PROVE  \E t \in {Main, Exporter} :
            /\ frame[t].at = "idle" /\ Others(t)
            /\ frame'[t].at \in {"idle", "meta", "save_side", "load", "unlink"}
<1>1. CASE \E f \in Photos : OpenPhoto(f) \/ Paste(f) \/ SetPrio(f)
  BY <1>1, OpenFrame, PasteFrame, SetPrioFrame
     DEF Entered, OpenPhoto, Paste, SetPrio, Operation, At
<1>2. CASE OpenOther \/ ClearCache
  BY <1>2, OpenOtherFrame, ClearFrame DEF Entered, OpenOther, ClearCache, Operation, At
<1>3. CASE Export
  BY <1>3, ExportFrame DEF Entered, Export, Operation, At
<1>4. CASE Edit \/ LoadDirectory
  BY <1>4 DEF Edit, LoadDirectory, Operation, At, Others
<1> QED
  BY <1>1, <1>2, <1>3, <1>4 DEF UserStep

LEMMA MainPlaces ==
  ASSUME Typed, \/ (\E f \in Photos : UnlinkMeta(f)) \/ UnlinkThumb
                \/ Closing \/ Closed \/ Pasted \/ Flagged \/ RefreshThumb
                \/ LockIo \/ CannotLoad \/ UnlockIo
  PROVE  /\ frame[Main].at # "remove_source" /\ Others(Main)
         /\ frame'[Main].at \in {"idle", "unlink", "unlink_thumb", "save_meta", "closed", "load",
                                 "meta", "unlock"}
<1> USE IdleType, FramesTyped DEF Threads
<1>1. CASE (\E f \in Photos : UnlinkMeta(f)) \/ Closing \/ Flagged
  BY <1>1, UnlinkFrame, ClosingFrame, FlaggedFrame DEF UnlinkMeta, Closing, Flagged, At
<1>2. CASE UnlinkThumb
  <2>1. Return(Main) \/ Goto(Main, "unlink")
    BY <1>2, Zenon DEF UnlinkThumb
  <2> QED
    BY <1>2, <2>1, Returning, Going DEF UnlinkThumb, At, Places
<1>3. CASE Closed \/ Pasted \/ UnlockIo
  BY <1>3, Returning DEF Closed, Pasted, UnlockIo, At
<1>4. CASE RefreshThumb
  BY <1>4, RefreshFrame DEF RefreshThumb, At, Entered, Others
<1>5. CASE LockIo
  BY <1>5, Going DEF LockIo, At, Places, Reads
<1>6. CASE CannotLoad
  <2>1. Return(Main) \/ Goto(Main, "unlock")
    BY <1>6, Zenon DEF CannotLoad
  <2> QED
    BY <1>6, <2>1, Returning, Going DEF CannotLoad, At, Places
<1> QED
  BY <1>1, <1>2, <1>3, <1>4, <1>5, <1>6

LEMMA IdleIdStep ==
  ASSUME Typed, [Next]_vars
  PROVE  idleId' \in BOOLEAN
<1>0. idleId \in BOOLEAN
  BY DEF Typed, TypeOK
<1>1. CASE UNCHANGED regenVars
  BY <1>0, <1>1, Zenon DEF regenVars
<1>2. ASSUME NEW t \in Threads, FileStep(t) PROVE UNCHANGED regenVars
  BY <1>2, Zenon
     DEF FileStep, MetaFails, SkipThumb, SideFails, ReadMeta, ReadThumb, BeginMeta,
         EndMeta, BeginThumb, EndThumb, LoadSide, BeginSide, EndSide
<1>3. CASE UserStep
  BY <1>1, <1>3, Zenon DEF UserStep, OpenPhoto, Paste, SetPrio, OpenOther, Edit, Export,
     LoadDirectory, ClearCache
<1>4. CASE (\E f \in Photos : UnlinkMeta(f)) \/ UnlinkThumb \/ Closing \/ Closed \/ Pasted
  BY <1>1, <1>4, Zenon DEF UnlinkMeta, UnlinkThumb, Closing, Closed, Pasted
<1>5. CASE \/ Flagged \/ RefreshThumb \/ LockIo \/ CannotLoad \/ UnlockIo
           \/ (\E f \in Photos : TakeJob(f)) \/ Check
  BY <1>1, <1>5, Zenon
     DEF Flagged, RefreshThumb, LockIo, CannotLoad, UnlockIo, TakeJob, Check
<1>6. CASE TakeRegen
  <2>1. idleId' = idleId \/ idleId' = FALSE
    BY <1>6, Zenon DEF TakeRegen
  <2> QED
    BY <1>0, <2>1
<1>7. CASE RemoveSource \/ Tick \/ UNCHANGED vars
  BY <1>0, <1>7, Zenon DEF RemoveSource, Tick, vars, regenVars
<1>8. CASE Enqueue \/ Crash
  <2>1. idleId' = TRUE \/ idleId' = FALSE
    BY <1>8, Zenon DEF Enqueue, Crash
  <2> QED
    BY <2>1
<1> QED
  BY <1>1, <1>2, <1>3, <1>4, <1>5, <1>6, <1>7, <1>8, Zenon
     DEF Next, MainStep, IoStep, Threads

LEMMA SourcedHolds ==
  ASSUME Typed, Placed, Sourced, [Next]_vars
  PROVE  Sourced' /\ regen' \in Seq(Photos) /\ sources' \in Nat
<1>0. regen \in Seq(Photos) /\ sources \in Nat
  BY DEF Typed, TypeOK
<1>1. ASSUME UNCHANGED regenVars, Leaving' = Leaving
      PROVE  Sourced' /\ regen' \in Seq(Photos) /\ sources' \in Nat
  <2>1. regen' = regen /\ sources' = sources /\ KeepsId' = KeepsId
    BY <1>1, Zenon DEF regenVars, KeepsId
  <2> QED
    BY <1>0, <1>1, <2>1 DEF Sourced
<1>2. ASSUME NEW t \in Threads, FileStep(t)
      PROVE  UNCHANGED regenVars /\ Leaving' = Leaving
  <2>1. UNCHANGED regenVars
    BY <1>2, Zenon
       DEF FileStep, MetaFails, SkipThumb, SideFails, ReadMeta, ReadThumb, BeginMeta,
           EndMeta, BeginThumb, EndThumb, LoadSide, BeginSide, EndSide
  <2>2. Leaving' = Leaving
    BY <1>2, FilePlaces
       DEF Leaving, Leaving, At, Others, Threads, Reads, SavesThumb, SavesSide
  <2> QED
    BY <2>1, <2>2
<1>3. CASE UserStep
  <2>1. UNCHANGED regenVars
    BY <1>3, Zenon DEF UserStep, OpenPhoto, Paste, SetPrio, OpenOther, Edit, Export,
       LoadDirectory, ClearCache
  <2>2. Leaving' = Leaving
    BY <1>3, UserPlaces DEF Leaving, Leaving, At, Others, Threads
  <2> QED
    BY <1>1, <2>1, <2>2
<1>4. CASE \/ (\E f \in Photos : UnlinkMeta(f)) \/ UnlinkThumb
           \/ Closing \/ Closed \/ Pasted \/ Flagged \/ RefreshThumb
           \/ LockIo \/ CannotLoad \/ UnlockIo
  <2>1. UNCHANGED regenVars
    BY <1>4, Zenon
       DEF UnlinkMeta, UnlinkThumb, Closing, Closed, Pasted, Flagged, RefreshThumb,
           LockIo, CannotLoad, UnlockIo, regenVars
  <2>2. Leaving' = Leaving
    BY <1>4, MainPlaces DEF Leaving, Leaving, At, Threads
  <2> QED
    BY <1>1, <2>1, <2>2
<1>5. CASE TakeRegen
  <2>1. CASE regen # <<>>
    <3>1. /\ regen' = Tail(regen) /\ sources' = sources /\ KeepsId' = KeepsId
          /\ At(Main, "idle")
      BY <1>5, <2>1, Zenon DEF TakeRegen, KeepsId
    <3>2. frame'[Main].at = "lock"
      BY <1>5, <2>1, TakeRegenFrame DEF Entered
    <3> QED
      BY <1>0, <2>1, <3>1, <3>2 DEF Leaving, Leaving, At, Sourced
  <2>2. CASE regen = <<>>
    <3>1. /\ regen' = regen /\ sources' = sources /\ ~ KeepsId'
          /\ At(Main, "idle") /\ sources > 0
      BY <1>5, <2>2, Zenon DEF TakeRegen, KeepsId
    <3>2. frame'[Main].at = "remove_source"
      BY <1>5, <2>2, TakeRegenFrame DEF Entered
    <3>3. ~ Leaving /\ Leaving'
      BY <3>1, <3>2 DEF Leaving, At
    <3>4. Sourced'
      BY <1>0, <2>2, <3>1, <3>3 DEF Sourced
    <3> QED
      BY <1>0, <3>1, <3>4
  <2> QED
    BY <2>1, <2>2
<1>6. CASE RemoveSource
  <2>1. /\ sources' = sources - 1 /\ regen' = regen /\ KeepsId' = KeepsId
        /\ Leaving /\ Return(Main)
    BY <1>6, Zenon DEF RemoveSource, KeepsId, Leaving
  <2>2. frame'[Main].at = "idle"
    BY <2>1, FramesTyped, Returning, IdleType DEF Threads
  <2>3. Leaving /\ ~ Leaving'
    BY <2>1, <2>2 DEF Leaving, At
  <2>4. Sourced' /\ sources > 0
    BY <1>0, <2>1, <2>3 DEF Sourced
  <2> QED
    BY <1>0, <2>1, <2>4
<1>7. CASE Enqueue
  <2>1. regen' = Append(regen, frame[Io].file) /\ KeepsId'
    BY <1>7, Zenon DEF Enqueue, KeepsId
  <2>5. /\ KeepsId => sources' = sources
        /\ ~ KeepsId => sources' = sources + 1
    <3>1. idleId = TRUE \/ idleId = FALSE
      BY DEF Typed, TypeOK
    <3> QED
      BY <1>7, <3>1, Zenon DEF Enqueue, KeepsId
  <2>2. frame[Io].file \in Photos
    BY <1>7, FileNamed DEF Enqueue, Leaving, At, Threads
  <2>3. Leaving' = Leaving
    BY <1>7, FramesTyped, Returning, ThreadsApart
       DEF Enqueue, Threads, Others, Leaving, At
  <2>4. regen' \in Seq(Photos)
    BY <1>0, <2>1, <2>2
  <2>6. Sourced'
    BY <1>0, <2>1, <2>3, <2>5 DEF Sourced
  <2> QED
    BY <1>0, <2>4, <2>5, <2>6
<1>8. CASE (\E f \in Photos : TakeJob(f)) \/ Check
  <2>1. UNCHANGED regenVars
    BY <1>8, Zenon DEF TakeJob, Check, regenVars
  <2>2. CASE \E f \in Photos : TakeJob(f)
    BY <1>1, <2>1, <2>2, TakeJobFrame, ThreadsApart
       DEF Entered, Others, Leaving, At, Threads
  <2>3. CASE Check
    <3>1. Return(Io) \/ Goto(Io, "enqueue")
      BY <2>3, Zenon DEF Check
    <3> QED
      BY <1>1, <2>1, <3>1, FramesTyped, Returning, Going, ThreadsApart
         DEF Others, Leaving, At, Threads, Places
  <2> QED
    BY <1>8, <2>2, <2>3
<1>9. CASE Tick \/ UNCHANGED vars
  <2>1. UNCHANGED regenVars /\ frame' = frame
    BY <1>9, Zenon DEF Tick, vars
  <2> QED
    BY <1>1, <2>1 DEF Leaving, At
<1>10. CASE Crash
  <2>1. regen' = <<>> /\ ~ KeepsId' /\ sources' = 0
    BY <1>10, Zenon DEF Crash, KeepsId
  <2>2. frame'[Main].at = "idle"
    BY <1>10, IdleType DEF Crash, Threads
  <2>3. regen' \in Seq(Photos) /\ sources' \in Nat
    BY <2>1
  <2>4. ~ Leaving'
    BY <2>2 DEF Leaving, At
  <2>5. Sourced'
    BY <2>1, <2>4 DEF Sourced
  <2> QED
    BY <2>3, <2>5
<1> QED
  BY <1>1, <1>2, <1>3, <1>4, <1>5, <1>6, <1>7, <1>8, <1>9, <1>10
     DEF Next, MainStep, IoStep, Threads

LEMMA RestTyped ==
  ASSUME Typed, Placed, [Next]_vars
  PROVE  /\ timer' \in BOOLEAN /\ jobs' \subseteq Photos /\ loaded' \subseteq Photos
         /\ {ioLock, metaLock}' \subseteq Threads \cup {None}
         /\ wanted' \in [Photos -> Side]
<1>0. /\ timer \in BOOLEAN /\ jobs \subseteq Photos /\ loaded \subseteq Photos
      /\ {ioLock, metaLock} \subseteq Threads \cup {None}
      /\ wanted \in [Photos -> Side]
  BY DEF Typed, TypeOK
<1>1. ASSUME NEW t \in Threads, FileStep(t)
      PROVE  /\ UNCHANGED <<timer, jobs, ioLock, wanted, loaded>>
             /\ metaLock' \in {metaLock, t, None}
  BY <1>1, Zenon
     DEF FileStep, MetaFails, SkipThumb, SideFails, ReadMeta, ReadThumb, BeginMeta,
         EndMeta, BeginThumb, EndThumb, LoadSide, BeginSide, EndSide, history
<1>8. CASE Pasted
  <2>1. /\ timer' = timer \/ timer' = TRUE
        /\ UNCHANGED <<jobs, ioLock, metaLock, wanted, loaded>>
    BY <1>8, Zenon DEF Pasted
  <2> QED
    BY <1>0, <2>1
<1>2. CASE (\E f \in Photos : UnlinkMeta(f)) \/ Closing \/ Closed
  BY <1>0, <1>2 DEF UnlinkMeta, Closing, Closed, history
<1>3. CASE UnlinkThumb
  BY <1>0, <1>3 DEF UnlinkThumb, Reload
<1>4. CASE \/ Flagged \/ RefreshThumb \/ TakeRegen
           \/ RemoveSource
  BY <1>0, <1>4 DEF Flagged, RefreshThumb, TakeRegen, RemoveSource, history
<1>5. CASE \/ LockIo \/ CannotLoad \/ UnlockIo
           \/ (\E f \in Photos : TakeJob(f)) \/ Tick \/ UNCHANGED vars
  BY <1>0, <1>5 DEF LockIo, CannotLoad, UnlockIo, TakeJob, Tick, vars, history, Threads
<1>6. CASE Check \/ Enqueue
  <2>1. frame[Io].file \in Photos
    BY <1>6, FileNamed DEF Check, Enqueue, At, Threads
  <2> QED
    BY <1>0, <1>6, <2>1 DEF Check, Enqueue
<1>7. CASE Crash
  BY <1>0, <1>7 DEF Crash
<1> QED
  BY <1>0, <1>1, <1>2, <1>3, <1>4, <1>5, <1>6, <1>7, <1>8, UsersStep
     DEF Next, MainStep, IoStep, Threads

LEMMA FilesTyped ==
  ASSUME Typed, Placed, [Next]_vars
  PROVE  /\ sidecar' \in [Photos -> File(Side)]
         /\ meta' \in [Photos -> File(BOOLEAN)]
         /\ thumb' \in [Photos -> File(Look \cup {Camera})]
<1>0. /\ sidecar \in [Photos -> File(Side)]
      /\ meta \in [Photos -> File(BOOLEAN)]
      /\ thumb \in [Photos -> File(Look \cup {Camera})]
  BY DEF Typed, TypeOK
<1>1. Absent \in File(BOOLEAN) /\ Absent \in File(Look \cup {Camera})
  BY AbsentType
<1>2. sidecar' \in [Photos -> File(Side)]
  BY <1>0, SidecarStep, BegunSide, EndedSide, CrashedFiles
<1>3. meta' \in [Photos -> File(BOOLEAN)]
  <2>1. ASSUME NEW f \in Photos, UnlinkMeta(f) PROVE meta' \in [Photos -> File(BOOLEAN)]
    BY <1>0, <1>1, <2>1 DEF UnlinkMeta
  <2> QED
    BY <1>0, <2>1, MetaStep, BegunMeta, EndedMeta, CrashedFiles
<1>4. thumb' \in [Photos -> File(Look \cup {Camera})]
  <2>1. UnlinkThumb => thumb' \in [Photos -> File(Look \cup {Camera})]
    BY <1>0, <1>1 DEF UnlinkThumb
  <2> QED
    BY <1>0, <2>1, ThumbStep, BegunThumb, EndedThumb, CrashedFiles
<1> QED
  BY <1>2, <1>3, <1>4

LEMMA TypedHolds ==
  ASSUME Typed, Placed, Sourced, [Next]_vars
  PROVE  Typed'
<1>1. now' \in 0 .. MaxTime
  BY ClockStep, PhotoFilesAssumption DEF Typed, Tick
<1>2. raced' \in BOOLEAN
  BY ClockStep, BegunThumb, BegunSide, LoadedSide DEF Typed
<1>3. ops' \in Nat /\ crashes' \in Nat /\ failures' \in Nat /\ bare' \subseteq Photos
  <2>1. Crash => crashes' = crashes + 1
    BY DEF Crash
  <2>2. crashes \in Nat /\ ops \in Nat /\ bare \subseteq Photos
    BY DEF Typed, TypeOK
  <2>3. bare' = bare /\ (crashes' = crashes \/ Crash) /\ (ops' = ops \/ ops' = ops + 1)
    BY ClockStep
  <2> QED
    BY <2>1, <2>2, <2>3, MishapsStep
<1>4. open' \in PhotoType
  BY OpenKept
<1>5. open'.file \in Photos \cup {None} /\ open'.side \in Side
  BY <1>4 DEF PhotoType
<1>6. TypeOK'
  BY <1>3, <1>5, RestTyped, FilesTyped, SourcedHolds, IdleIdStep, MishapsStep DEF TypeOK
<1> QED
  BY <1>1, <1>2, <1>3, <1>4, <1>6, FramesKept DEF Typed, Frames
-----------------------------------------------------------------------------
(* Where the threads are                                                   *)

LEMMA MainStays ==
  ASSUME MainPlaced, frame'[Main] = frame[Main], open' = open, bare' = bare
  PROVE  MainPlaced'
BY DEF MainPlaced, Busy

(* A step of another thread on files is none of the main thread's.         *)
LEMMA OpenStays ==
  ASSUME Typed, Placed, NEW t \in Threads, FileStep(t), t # Main \/ ~ LoadSide(t)
  PROVE  open' = open
<1>1. CASE LoadSide(t)
  <2>1. frame[t].call \notin {"open"}
    BY <1>1, ThreadsApart
       DEF Placed, IoPlaced, ExporterPlaced, CallOfIo, CallOfExporter, Threads
  <2> QED
    BY <1>1, <2>1, LoadSideFrame
<1>2. CASE ~ LoadSide(t)
  BY <1>2, Zenon
     DEF FileStep, MetaFails, SkipThumb, SideFails, ReadMeta, ReadThumb, BeginMeta,
         EndMeta, BeginThumb, EndThumb, BeginSide, EndSide
<1> QED
  BY <1>1, <1>2

LEMMA IoFilePlaced ==
  ASSUME Typed, Placed, FileStep(Io), bare' = bare
  PROVE  IoPlaced'
<1> USE IdleType, FramesTyped DEF Threads, Busy, IoPlaced, Placed, CallOfIo, Reads, SavesThumb, SavesSide
<1>0. Typed /\ Placed /\ FileStep(Io)
  OBVIOUS
<1>1. CASE ReadMeta(Io)
  BY <1>1, ReadMetaFrame DEF ReadMeta, At, WasRead
<1>2. CASE ReadThumb(Io)
  <2>1. frame[Io].at = "thumb" /\ frame[Io].call = "job"
    BY <1>2 DEF ReadThumb, At
  <2>2. frame'[Io].call = "job" /\ frame'[Io].file = frame[Io].file
    BY <1>2, <2>1, ReadThumbFrame
  <2>3. \/ frame'[Io].at = "check"
        \/ /\ frame'[Io].at = "save_meta" /\ frame'[Io].thumb \in {Camera, None}
           /\ frame'[Io].thumb = None => frame[Io].file \in bare
    BY <1>2, <2>1, ReadThumbFrame DEF AfterMetadata, WasRead
  <2> QED
    BY <2>1, <2>2, <2>3
<1>3. CASE BeginMeta(Io)
  BY <1>3, BegunMeta DEF At, SameCall
<1>4. CASE EndMeta(Io)
  BY SMTT(60), <1>4, EndedMeta DEF At, SameCall
<1>5. CASE BeginThumb(Io)
  BY <1>5, BegunThumb DEF BeginThumb, At, SameCall
<1>6. CASE EndThumb(Io) \/ SkipThumb(Io)
  BY <1>6, EndThumbFrame DEF EndThumb, SkipThumb, At, AfterSave, AfterMetadata, SameCall
<1>7. CASE LoadSide(Io) \/ BeginSide(Io) \/ EndSide(Io) \/ SideFails(Io)
  BY <1>7 DEF LoadSide, BeginSide, EndSide, SideFails, At
<1>8. CASE MetaFails(Io)
  BY <1>8, FailedMeta DEF At, SameCall
<1> QED
  BY <1>0, <1>1, <1>2, <1>3, <1>4, <1>5, <1>6, <1>7, <1>8 DEF FileStep

LEMMA ExporterFilePlaced ==
  ASSUME Typed, Placed, FileStep(Exporter), bare' = bare
  PROVE  ExporterPlaced'
<1> USE IdleType, FramesTyped
    DEF Threads, Busy, ExporterPlaced, Placed, CallOfExporter, Reads, SavesThumb,
        SavesSide
<1>1. CASE LoadSide(Exporter)
  BY <1>1, LoadSideFrame DEF LoadSide, At
<1>2. CASE BeginSide(Exporter)
  BY <1>2, BegunSide DEF At, SameCall
<1>3. CASE EndSide(Exporter) \/ SideFails(Exporter)
  BY <1>3, EndSideFrame DEF EndSide, SideFails, At, AfterSide, SameCall
<1>4. CASE ReadMeta(Exporter) \/ ReadThumb(Exporter) \/ BeginMeta(Exporter) \/ EndMeta(Exporter)
           \/ MetaFails(Exporter) \/ BeginThumb(Exporter) \/ EndThumb(Exporter)
           \/ SkipThumb(Exporter)
  BY <1>4 DEF ReadMeta, ReadThumb, BeginMeta, EndMeta, MetaFails, BeginThumb, EndThumb,
              SkipThumb, At
<1> QED
  BY SMTT(60), <1>1, <1>2, <1>3, <1>4 DEF FileStep

LEMMA MainFilePlaced ==
  ASSUME Typed, Placed, FileStep(Main), bare' = bare
  PROVE  MainPlaced'
<1>0. Main \in Threads /\ MainPlaced
  BY DEF Threads, Placed
<1>1. CASE ReadMeta(Main)
  <2>1. open' = open
    BY <1>1, Zenon DEF ReadMeta
  <2>2. frame[Main].at = "meta"
    BY <1>1 DEF ReadMeta, At
  <2>3. CallOfMain(frame'[Main].call, frame'[Main].at)
    BY <1>0, <1>1, <2>2, ReadMetaFrame
       DEF MainPlaced, CallOfMain, Reads, SavesThumb, SavesSide, WasRead
  <2> QED
    BY <1>0, <1>1, <2>1, <2>2, <2>3, ReadMetaFrame
       DEF MainPlaced, Busy, CallOfMain, Reads, SavesThumb, SavesSide, WasRead
<1>2. CASE ReadThumb(Main)
  <2>1. open' = open
    BY <1>2, Zenon DEF ReadThumb
  <2>2. frame[Main].at = "thumb"
    BY <1>2 DEF ReadThumb, At
  <2>3. CallOfMain(frame'[Main].call, frame'[Main].at)
    BY <1>0, <1>2, <2>2, ReadThumbFrame
       DEF MainPlaced, CallOfMain, AfterMetadata, Reads, SavesThumb, SavesSide, WasRead
  <2> QED
    BY <1>0, <1>2, <2>1, <2>2, <2>3, ReadThumbFrame
       DEF MainPlaced, Busy, CallOfMain, AfterMetadata, Reads, SavesThumb, SavesSide,
           WasRead
<1>3. ASSUME SameCall(Main), NEW at \in {"write_meta", "save_thumb", "write_thumb"},
             frame'[Main].at = at, frame[Main].at \in SavesThumb, open' = open,
             at = "write_thumb" => frame[Main].thumb # None
      PROVE  MainPlaced'
  <2>1. CallOfMain(frame'[Main].call, frame'[Main].at)
    BY <1>0, <1>3 DEF MainPlaced, CallOfMain, SameCall, Reads, SavesThumb, SavesSide
  <2> QED
    BY <1>0, <1>3, <2>1 DEF MainPlaced, Busy, SameCall, Reads, SavesThumb, SavesSide
<1>4. CASE BeginMeta(Main)
  BY <1>0, <1>3, <1>4, BegunMeta DEF BeginMeta, At, SavesThumb
<1>5. CASE EndMeta(Main)
  BY <1>0, <1>3, <1>5, EndedMeta DEF EndMeta, At, SavesThumb
<1>6. CASE BeginThumb(Main)
  BY <1>0, <1>3, <1>6, BegunThumb DEF BeginThumb, At, SavesThumb
<1>7. CASE EndThumb(Main) \/ SkipThumb(Main)
  <2>1. /\ open' = open /\ frame[Main].at \in {"save_thumb", "write_thumb"}
        /\ GoOn(Main, AfterSave(frame[Main].call))
    BY <1>7, Zenon DEF EndThumb, SkipThumb, At
  <2>2. CASE frame'[Main] = Idle
    BY <1>0, <2>1, <2>2, IdleType
       DEF MainPlaced, Busy, CallOfMain, Reads, SavesThumb, SavesSide
  <2>3. CASE frame'[Main].at = AfterSave(frame[Main].call) /\ SameCall(Main)
             /\ frame[Main].call # "timer"
    <3>1. CallOfMain(frame'[Main].call, frame'[Main].at)
      BY <1>0, <2>1, <2>3
         DEF MainPlaced, CallOfMain, SameCall, Reads, SavesThumb, SavesSide, AfterSave,
             AfterMetadata
    <3>2. frame'[Main].at \notin Reads \cup {"lock", "unlink_thumb"}
      BY <1>0, <2>1, <2>3 DEF MainPlaced, CallOfMain, SavesThumb, SavesSide,
         AfterSave, AfterMetadata, Reads
    <3> QED
      BY <1>0, <2>1, <2>3, <3>1, <3>2
         DEF MainPlaced, Busy, SameCall, Reads, SavesThumb, SavesSide
  <2>4. CASE frame[Main].call = "timer"
    <3>1. AfterSave(frame[Main].call) = "idle"
      BY <2>4 DEF AfterSave
    <3>2. Return(Main)
      BY <2>1, <3>1, Zenon DEF GoOn
    <3> QED
      BY <1>0, <2>2, <3>2, FramesTyped, Returning
  <2> QED
    BY <1>0, <1>7, <2>2, <2>3, <2>4, EndThumbFrame
<1>8. CASE LoadSide(Main)
  <2> DEFINE m == frame[Main]
  <2>1. /\ m.at = "load" /\ m.file \in Photos
        /\ m.call \in {"open", "paste", "flag", "flag_open", "regen"}
    BY <1>0, <1>8, LoadedSide DEF At, MainPlaced, CallOfMain, Reads, SavesThumb, SavesSide
  <2>2. CASE /\ m.call = "open" /\ open = NoPhoto
             /\ open' = Photo(m.file, CacheLoad(m.file)) /\ frame'[Main] = Idle
    <3>1. open'.file # None
      BY <2>1, <2>2, NobodyIsNone DEF Photo
    <3> QED
      BY <2>2, <3>1, IdleType
         DEF MainPlaced, Busy, CallOfMain, Reads, SavesThumb, SavesSide
  <2>3. CASE /\ m.call = "open" /\ open # NoPhoto /\ open' = open
             /\ frame'[Main].at = "save_side" /\ frame'[Main].call = "close"
             /\ frame'[Main].file = open.file /\ frame'[Main].side = open.side
             /\ frame'[Main].new = Photo(m.file, CacheLoad(m.file))
    <3>1. open.file \in Photos
      BY <1>0, <2>3 DEF MainPlaced, Typed, PhotoType
    <3>2. frame'[Main].new.file = m.file /\ m.file # None /\ m.file # open.file
      <4>1. Photo(m.file, CacheLoad(m.file)).file = m.file
        BY DEF Photo
      <4>2. m.file # open.file
        BY <1>0, <2>3 DEF MainPlaced
      <4> QED
        BY <2>1, <2>3, <4>1, <4>2, NobodyIsNone, Zenon
    <3> QED
      BY <1>0, <2>3, <3>1, <3>2
         DEF MainPlaced, Busy, CallOfMain, SavesSide, SavesThumb, Reads
  <2>4. CASE /\ m.call \in {"paste", "flag", "flag_open"} /\ open' = open
             /\ frame'[Main].at = "save_side" /\ frame'[Main].call = m.call
             /\ frame'[Main].file = m.file /\ frame'[Main].new = m.new
             /\ frame'[Main].value = m.value
    <3>1. CallOfMain(frame'[Main].call, frame'[Main].at)
      BY <2>4 DEF CallOfMain, SavesSide
    <3> QED
      BY <1>0, <2>1, <2>4, <3>1 DEF MainPlaced, Busy, Reads, SavesThumb, SavesSide
  <2>5. CASE /\ m.call = "regen" /\ open' = open
             /\ frame'[Main].at = "save_meta" /\ frame'[Main].call = "regen_render"
             /\ frame'[Main].file = m.file /\ frame'[Main].new = m.new
    <3>1. CallOfMain(frame'[Main].call, frame'[Main].at)
      BY <2>5 DEF CallOfMain, SavesThumb
    <3>2. frame'[Main].thumb # None
      BY <1>0, <1>8, <2>1, <2>5, LoadSideFrame, LoadedSide, MarksApart DEF Side
    <3> QED
      BY <1>0, <2>1, <2>5, <3>1, <3>2 DEF MainPlaced, Busy, Reads, SavesThumb, SavesSide
  <2>6. CASE /\ m.call = "regen" /\ open' = open /\ SameCall(Main)
             /\ frame'[Main].at = "unlock"
    BY <1>0, <2>1, <2>6
       DEF MainPlaced, Busy, CallOfMain, SameCall, Reads, SavesThumb, SavesSide
  <2> QED
    BY <1>0, <1>8, <2>1, <2>2, <2>3, <2>4, <2>5, <2>6, LoadSideFrame
<1>9. CASE BeginSide(Main)
  <2>1. open' = open
    BY <1>9, Zenon DEF BeginSide
  <2>2. /\ frame[Main].at = "save_side" /\ frame'[Main].at = "write_side" /\ SameCall(Main)
    BY <1>0, <1>9, BegunSide DEF At
  <2>3. CallOfMain(frame'[Main].call, frame'[Main].at)
    BY <1>0, <2>2 DEF MainPlaced, CallOfMain, SameCall, Reads, SavesThumb, SavesSide
  <2> QED
    BY <1>0, <2>1, <2>2, <2>3 DEF MainPlaced, Busy, SameCall, Reads, SavesThumb, SavesSide
<1>10. CASE EndSide(Main) \/ SideFails(Main)
  <2>1. open' = open /\ frame[Main].at \in {"save_side", "write_side"}
    BY <1>10, Zenon DEF EndSide, SideFails, At
  <2>2. CASE frame'[Main] = Idle
    BY <1>0, <2>1, <2>2, IdleType
       DEF MainPlaced, Busy, CallOfMain, Reads, SavesThumb, SavesSide
  <2>3. CASE /\ frame'[Main].at = AfterSide(frame[Main].call) /\ SameCall(Main)
             /\ frame[Main].call \in {"close", "paste", "flag"}
    <3>1. /\ CallOfMain(frame'[Main].call, frame'[Main].at)
          /\ frame'[Main].at \in {"closing", "pasted", "flagged"}
      BY <2>3 DEF CallOfMain, SameCall, AfterSide
    <3> QED
      BY <1>0, <2>1, <2>3, <3>1
         DEF MainPlaced, Busy, SameCall, Reads, SavesThumb, SavesSide
  <2> QED
    BY <1>0, <1>10, <2>2, <2>3, EndSideFrame
<1>11. CASE MetaFails(Main)
  BY <1>0, <1>3, <1>11, FailedMeta DEF MetaFails, At, SavesThumb
<1> QED
  BY <1>1, <1>2, <1>4, <1>5, <1>6, <1>7, <1>8, <1>9, <1>10, <1>11 DEF FileStep

LEMMA UserPlaced ==
  ASSUME Typed, Placed, UserStep, bare' = bare
  PROVE  Placed'
<1>0. /\ MainPlaced /\ IoPlaced /\ ExporterPlaced /\ Main \in Threads /\ Exporter \in Threads
      /\ Io \in Threads
  BY DEF Placed, Threads
<1>1. ASSUME NEW f \in Photos, OpenPhoto(f)
      PROVE  MainPlaced' /\ frame'[Io] = frame[Io] /\ frame'[Exporter] = frame[Exporter]
  <2>1. open' = open /\ open.file # f
    BY <1>1, Zenon DEF OpenPhoto
  <2> QED
    BY <1>0, <1>1, <2>1, OpenFrame, ThreadsApart
       DEF MainPlaced, Busy, CallOfMain, Entered, Others, Reads, SavesThumb, SavesSide
<1>2. CASE OpenOther
  <2>1. open' = open /\ open # NoPhoto
    BY <1>2, Zenon DEF OpenOther
  <2>2. open.file \in Photos
    BY <1>0, <2>1 DEF MainPlaced, Typed, PhotoType
  <2>3. open'.file # None
    BY <2>1, <2>2, NobodyIsNone
  <2>4. /\ frame'[Main].at = "save_side" /\ frame'[Main].call = "close"
        /\ frame'[Main].file = open.file /\ frame'[Main].new = NoPhoto
        /\ frame'[Io] = frame[Io] /\ frame'[Exporter] = frame[Exporter]
    BY <1>0, <1>2, OpenOtherFrame, ThreadsApart DEF Entered, Others
  <2>5. MainPlaced'
    BY <2>1, <2>2, <2>3, <2>4, DefaultsType
       DEF MainPlaced, Busy, CallOfMain, SavesSide, SavesThumb, Reads
  <2> QED
    BY <1>0, <2>4, <2>5
       DEF Placed, IoPlaced, ExporterPlaced, Busy, Reads, SavesThumb, SavesSide
<1>3. ASSUME NEW f \in Photos, Paste(f)
      PROVE  MainPlaced' /\ frame'[Io] = frame[Io] /\ frame'[Exporter] = frame[Exporter]
  <2>1. open' = open
    BY <1>3, Zenon DEF Paste
  <2>2. PICK parts \in Pastes :
          /\ Entered(Main, IF "turn" \in parts THEN "load" ELSE "meta", "paste", f)
          /\ frame'[Main].thumb = Camera
    BY <1>3, PasteFrame
  <2>3. frame'[Main].at \in {"load", "meta"}
    BY <2>2 DEF Entered
  <2> QED
    BY <1>0, <2>1, <2>2, <2>3, ThreadsApart, MarksApart
       DEF MainPlaced, Busy, CallOfMain, Entered, Others, Reads, SavesThumb, SavesSide
<1>4. ASSUME NEW f \in Photos, SetPrio(f)
      PROVE  MainPlaced' /\ frame'[Io] = frame[Io] /\ frame'[Exporter] = frame[Exporter]
  <2>1. open' = open
    BY <1>4, Zenon DEF SetPrio
  <2> QED
    BY <1>0, <1>4, <2>1, SetPrioFrame, ThreadsApart
       DEF MainPlaced, Busy, CallOfMain, Entered, Others, Reads, SavesThumb, SavesSide
<1>5. CASE ClearCache
  <2>1. open' = open
    BY <1>5, Zenon DEF ClearCache
  <2>2. MainPlaced'
    BY <1>0, <1>5, <2>1, ClearFrame
       DEF MainPlaced, Busy, CallOfMain, Entered, Reads, SavesThumb, SavesSide
  <2>3. frame'[Io] = frame[Io] /\ frame'[Exporter] = frame[Exporter]
    BY <1>0, <1>5, ClearFrame, ThreadsApart DEF Entered, Others
  <2> QED
    BY <1>0, <2>2, <2>3
       DEF Placed, IoPlaced, ExporterPlaced, Busy, Reads, SavesThumb, SavesSide
<1>6. CASE Export
  <2>1. open' = open /\ open # NoPhoto
    BY <1>6, Zenon DEF Export
  <2>2. open.file \in Photos
    BY <1>0, <2>1 DEF MainPlaced, Typed, PhotoType
  <2>3. /\ frame'[Exporter].at = "load" /\ frame'[Exporter].call = "export"
        /\ frame'[Exporter].file = open.file
        /\ frame'[Io] = frame[Io] /\ frame'[Main] = frame[Main]
    BY <1>0, <1>6, ExportFrame, ThreadsApart DEF Entered, Others
  <2>4. ExporterPlaced'
    BY <2>2, <2>3 DEF ExporterPlaced, CallOfExporter, Busy, Reads, SavesThumb, SavesSide
  <2> QED
    BY <1>0, <2>1, <2>3, <2>4, MainStays
       DEF Placed, IoPlaced, Busy, Reads, SavesThumb, SavesSide
<1>7. CASE Edit
  <2>1. frame' = frame
    BY <1>7, Zenon DEF Edit
  <2>2. open # NoPhoto /\ open'.file = open.file
    BY <1>7 DEF Edit, Typed, PhotoType
  <2>3. open'.file = open.file /\ open.file # None
    BY <1>0, <2>2 DEF Typed, PhotoType, MainPlaced
  <2>4. MainPlaced'
    BY <1>0, <2>1, <2>3 DEF MainPlaced, Busy, Reads, SavesThumb, SavesSide
  <2> QED
    BY <1>0, <2>1, <2>4
       DEF Placed, IoPlaced, ExporterPlaced, Busy, Reads, SavesThumb, SavesSide
<1>8. CASE LoadDirectory
  <2>1. open' = open /\ frame' = frame
    BY <1>8, Zenon DEF LoadDirectory
  <2> QED
    BY <1>0, <2>1, MainStays
       DEF Placed, IoPlaced, ExporterPlaced, Busy, Reads, SavesThumb, SavesSide
<1>9. CASE \E f \in Photos : OpenPhoto(f) \/ Paste(f) \/ SetPrio(f)
  <2>1. MainPlaced' /\ frame'[Io] = frame[Io] /\ frame'[Exporter] = frame[Exporter]
    BY <1>1, <1>3, <1>4, <1>9
  <2> QED
    BY <1>0, <2>1 DEF Placed, IoPlaced, ExporterPlaced, Busy, Reads, SavesThumb, SavesSide
<1> QED
  BY <1>2, <1>5, <1>6, <1>7, <1>8, <1>9 DEF UserStep

LEMMA HandlerPlaced ==
  ASSUME Typed, Placed, bare' = bare,
         \/ (\E f \in Photos : UnlinkMeta(f)) \/ UnlinkThumb
         \/ Closing \/ Closed \/ Pasted \/ Flagged \/ RefreshThumb
         \/ TakeRegen \/ RemoveSource \/ LockIo \/ CannotLoad \/ UnlockIo
  PROVE  MainPlaced' /\ Others(Main)
<1>0. MainPlaced /\ Main \in Threads
  BY DEF Placed, Threads
<1>a. open.side.look # None
  BY MarksApart DEF Typed, PhotoType, Side
<1>1. ASSUME NEW f \in Photos, UnlinkMeta(f) PROVE MainPlaced' /\ Others(Main)
  <2>1. open' = open /\ frame[Main].at = "unlink"
    BY <1>1, Zenon DEF UnlinkMeta, At
  <2>2. frame[Main].call = "none"
    BY <1>0, <2>1 DEF MainPlaced, CallOfMain, Reads, SavesThumb, SavesSide
  <2> QED
    BY <1>0, <1>1, <2>1, <2>2, UnlinkFrame
       DEF MainPlaced, Busy, CallOfMain, Reads, SavesThumb, SavesSide
<1>2. ASSUME frame'[Main] = Idle, open' = open PROVE MainPlaced'
  BY <1>0, <1>2, IdleType DEF MainPlaced, Busy, CallOfMain, Reads, SavesThumb, SavesSide
<1>3. CASE UnlinkThumb
  <2>1. open' = open /\ frame[Main].at = "unlink_thumb" /\ (Return(Main) \/ Goto(Main, "unlink"))
    BY <1>3, Zenon DEF UnlinkThumb, At
  <2>2. frame[Main].call = "none"
    BY <1>0, <2>1 DEF MainPlaced, CallOfMain, Reads, SavesThumb, SavesSide
  <2>3. CASE Return(Main)
    BY <1>0, <1>2, <2>1, <2>3, FramesTyped, Returning
  <2>4. CASE Goto(Main, "unlink")
    <3>1. SameCall(Main) /\ frame'[Main].at = "unlink" /\ Others(Main)
      BY <1>0, <2>4, FramesTyped, Going DEF Places
    <3> QED
      BY <1>0, <2>1, <2>2, <3>1
         DEF MainPlaced, Busy, CallOfMain, SameCall, Reads, SavesThumb, SavesSide
  <2> QED
    BY <2>1, <2>3, <2>4
<1>4. CASE Closing
  <2>1. open' = open /\ frame[Main].at = "closing"
    BY <1>4, Zenon DEF Closing, At
  <2>2. frame[Main].call = "close"
    BY <1>0, <2>1 DEF MainPlaced, CallOfMain, Reads, SavesThumb, SavesSide
  <2> QED
    BY <1>0, <1>a, <1>4, <2>1, <2>2, ClosingFrame
       DEF MainPlaced, Busy, CallOfMain, SavesThumb, Reads, SavesSide
<1>5. CASE Closed
  <2>1. open' = frame[Main].new /\ frame'[Main] = Idle /\ Others(Main)
    BY <1>0, <1>5, FramesTyped, Returning DEF Closed
  <2> QED
    BY <1>0, <2>1, IdleType DEF MainPlaced, Busy, CallOfMain, Reads, SavesThumb, SavesSide
<1>6. CASE Pasted
  <2>1. Return(Main) /\ (open = NoPhoto => open' = open)
        /\ (open # NoPhoto => open'.file = open.file)
    BY <1>6 DEF Pasted, Typed, PhotoType
  <2>2. frame'[Main] = Idle /\ Others(Main)
    BY <1>0, <2>1, FramesTyped, Returning
  <2>3. open'.file = None => open' = NoPhoto
    BY <1>0, <2>1 DEF MainPlaced, Typed, PhotoType
  <2> QED
    BY <2>2, <2>3, IdleType DEF MainPlaced, Busy, CallOfMain, Reads, SavesThumb, SavesSide
<1>7. CASE Flagged
  <2>1. frame[Main].call = "flag"
    BY <1>0, <1>7 DEF Flagged, At, MainPlaced, CallOfMain, Reads, SavesThumb, SavesSide
  <2>2. frame[Main].file \in Photos
    BY <1>0, <2>1 DEF MainPlaced, Busy, Reads, SavesThumb, SavesSide
  <2>3. CASE open.file = frame[Main].file
    <3>1. open' = [open EXCEPT !.side.prio = frame[Main].value]
      BY <1>7, <2>3, Zenon DEF Flagged
    <3>2. open'.file = open.file /\ open.file # None
      BY <2>2, <2>3, <3>1, NobodyIsNone DEF Typed, PhotoType
    <3>3. /\ Others(Main) /\ frame'[Main].at = "load" /\ frame'[Main].call = "flag_open"
          /\ frame'[Main].file = frame[Main].file
          /\ frame'[Main].value = frame[Main].value /\ frame'[Main].new = frame[Main].new
      BY <1>7, <2>3, FlaggedFrame
    <3> QED
      BY <1>0, <2>1, <2>2, <2>3, <3>2, <3>3
         DEF MainPlaced, Busy, CallOfMain, Reads, SavesThumb, SavesSide
  <2>4. CASE open.file # frame[Main].file
    BY <1>2, <1>7, <2>4, FlaggedFrame
  <2> QED
    BY <2>3, <2>4
<1>8. CASE RefreshThumb
  <2>1. open' = open
    BY <1>8, Zenon DEF RefreshThumb
  <2>2. CASE frame' = frame
    BY <1>0, <2>1, <2>2, MainStays DEF Others
  <2>3. CASE /\ open # NoPhoto /\ Entered(Main, "save_meta", "timer", open.file)
             /\ frame'[Main].thumb = open.side.look
    <3>1. open.file \in Photos
      BY <1>0, <2>3 DEF MainPlaced, Typed, PhotoType
    <3> QED
      BY <1>0, <1>a, <2>1, <2>3, <3>1, DefaultsType
         DEF Entered, MainPlaced, Busy, CallOfMain, SavesThumb, Reads, SavesSide
  <2> QED
    BY <1>8, <2>2, <2>3, RefreshFrame
<1>9. CASE TakeRegen
  <2>1. open' = open /\ frame[Main].at = "idle"
    BY <1>9, Zenon DEF TakeRegen, At
  <2>2. CASE /\ Head(regen) \in Photos
             /\ Entered(Main, "lock", "regen", Head(regen)) /\ frame'[Main].thumb = Camera
    <3>1. PICK f : f = Head(regen)
      OBVIOUS
    <3> QED
      BY <1>0, <2>1, <2>2, <3>1
         DEF Entered, MainPlaced, Busy, CallOfMain, Reads, SavesThumb, SavesSide
  <2>3. CASE Others(Main) /\ SameCall(Main) /\ frame'[Main].at = "remove_source"
    <3>1. frame[Main].call = "none"
      BY <1>0, <2>1 DEF MainPlaced, CallOfMain, Reads, SavesThumb, SavesSide
    <3> QED
      BY <1>0, <2>1, <2>3, <3>1
         DEF MainPlaced, Busy, CallOfMain, SameCall, Reads, SavesThumb, SavesSide
  <2> QED
    BY <1>9, <2>2, <2>3, TakeRegenFrame
<1>10. CASE RemoveSource \/ UnlockIo
  <2>1. open' = open /\ Return(Main)
    BY <1>10, Zenon DEF RemoveSource, UnlockIo
  <2> QED
    BY <1>0, <1>2, <2>1, FramesTyped, Returning
<1>11. CASE LockIo
  <2>1. open' = open /\ frame[Main].at = "lock" /\ Goto(Main, "meta")
    BY <1>11, Zenon DEF LockIo, At
  <2>2. frame[Main].call = "regen" /\ frame'[Main].at = "meta" /\ SameCall(Main) /\ Others(Main)
    BY <1>0, <2>1, FramesTyped, Going
       DEF MainPlaced, CallOfMain, Reads, SavesThumb, SavesSide, Places
  <2>3. frame[Main].thumb \in {Camera, None}
    BY <1>0, <2>1, <2>2 DEF MainPlaced, Busy, Reads, SavesThumb, SavesSide
  <2> QED
    BY <1>0, <2>1, <2>2, <2>3
       DEF MainPlaced, Busy, CallOfMain, SameCall, Reads, SavesThumb, SavesSide
<1>12. CASE CannotLoad
  <2>1. /\ open' = open /\ frame[Main].at = "meta"
        /\ \/ frame[Main].call = "regen" /\ Goto(Main, "unlock")
           \/ Return(Main)
    BY <1>12, Zenon DEF CannotLoad, At
  <2>2. CASE frame[Main].call = "regen" /\ Goto(Main, "unlock")
    <3>1. frame'[Main].at = "unlock" /\ SameCall(Main) /\ Others(Main)
      BY <1>0, <2>2, FramesTyped, Going DEF Places
    <3> QED
      BY <1>0, <2>1, <2>2, <3>1
         DEF MainPlaced, Busy, CallOfMain, SameCall, Reads, SavesThumb, SavesSide
  <2>3. CASE Return(Main)
    BY <1>0, <1>2, <2>1, <2>3, FramesTyped, Returning
  <2> QED
    BY <2>1, <2>2, <2>3
<1> QED
  BY <1>12, <1>1, <1>3, <1>4, <1>5, <1>6, <1>7, <1>8, <1>9, <1>10, <1>11

LEMMA IoJobPlaced ==
  ASSUME Typed, Placed, (\E f \in Photos : TakeJob(f)) \/ Check \/ Enqueue,
         bare' = bare
  PROVE  IoPlaced' /\ Others(Io) /\ open' = open
<1>0. IoPlaced /\ Io \in Threads
  BY DEF Placed, Threads
<1>1. ASSUME NEW f \in Photos, TakeJob(f) PROVE IoPlaced' /\ Others(Io) /\ open' = open
  <2>1. open' = open
    BY <1>1, Zenon DEF TakeJob
  <2> QED
    BY <1>1, <2>1, TakeJobFrame
       DEF IoPlaced, Busy, CallOfIo, Entered, Reads, SavesThumb, SavesSide
<1>2. CASE Check \/ Enqueue
  <2>1. open' = open /\ frame[Io].at \in {"check", "enqueue"}
        /\ (Return(Io) \/ Goto(Io, "enqueue"))
    BY <1>2, Zenon DEF Check, Enqueue, At
  <2>2. frame[Io].call = "job"
    BY <1>0, <2>1 DEF IoPlaced, CallOfIo
  <2>3. CASE Return(Io)
    BY <1>0, <2>1, <2>3, FramesTyped, Returning, IdleType
       DEF IoPlaced, Busy, CallOfIo, Reads, SavesThumb, SavesSide
  <2>4. CASE Goto(Io, "enqueue")
    <3>1. frame'[Io].at = "enqueue" /\ SameCall(Io) /\ Others(Io)
      BY <1>0, <2>4, FramesTyped, Going DEF Places
    <3> QED
      BY <1>0, <2>1, <2>2, <3>1
         DEF IoPlaced, Busy, CallOfIo, SameCall, Reads, SavesThumb, SavesSide
  <2> QED
    BY <2>1, <2>3, <2>4
<1> QED
  BY <1>1, <1>2

LEMMA PlacedHolds ==
  ASSUME Typed, Placed, [Next]_vars
  PROVE  Placed'
<1>0. MainPlaced /\ IoPlaced /\ ExporterPlaced /\ Main # Io /\ Main # Exporter /\ Io # Exporter
      /\ Main \in Threads /\ Io \in Threads /\ Exporter \in Threads
  BY ThreadsApart DEF Placed, Threads
<1>b. bare' = bare
  BY ClockStep
<1>1. frame'[Io] = frame[Io] => IoPlaced'
  BY <1>0, <1>b DEF IoPlaced, Busy, Reads, SavesThumb, SavesSide
<1>2. frame'[Exporter] = frame[Exporter] => ExporterPlaced'
  BY <1>0, <1>b DEF ExporterPlaced, Busy, Reads, SavesThumb, SavesSide
<1>3. CASE FileStep(Main)
  BY <1>0, <1>b, <1>1, <1>2, <1>3, MainFilePlaced, FilePlaces DEF Others, Placed
<1>4. CASE FileStep(Io)
  BY <1>0, <1>b, <1>2, <1>4, MainStays, IoFilePlaced, FilePlaces, OpenStays
     DEF Others, Placed
<1>5. CASE FileStep(Exporter)
  BY <1>0, <1>b, <1>1, <1>5, MainStays, ExporterFilePlaced, FilePlaces, OpenStays
     DEF Others, Placed
<1>6. CASE \/ (\E f \in Photos : UnlinkMeta(f)) \/ UnlinkThumb
           \/ Closing \/ Closed \/ Pasted \/ Flagged \/ RefreshThumb
           \/ TakeRegen \/ RemoveSource \/ LockIo \/ CannotLoad \/ UnlockIo
  BY <1>0, <1>b, <1>1, <1>2, <1>6, HandlerPlaced DEF Others, Placed
<1>7. CASE (\E f \in Photos : TakeJob(f)) \/ Check \/ Enqueue
  BY <1>0, <1>b, <1>2, <1>7, MainStays, IoJobPlaced DEF Others, Placed
<1>8. CASE Tick \/ UNCHANGED vars
  <2>1. frame' = frame /\ open' = open
    BY <1>8, Zenon DEF Tick, vars
  <2> QED
    BY <1>0, <1>b, <1>1, <1>2, <2>1, MainStays DEF Placed
<1>9. CASE Crash
  <2>1. open' = NoPhoto /\ \A t \in Threads : frame'[t] = Idle
    BY <1>9 DEF Crash
  <2> QED
    BY <1>0, <1>b, <2>1, IdleType, DefaultsType
       DEF Placed, MainPlaced, IoPlaced, ExporterPlaced, Busy, CallOfMain, CallOfIo,
           CallOfExporter, Reads, SavesThumb, SavesSide
<1> QED
  BY <1>b, <1>3, <1>4, <1>5, <1>6, <1>7, <1>8, <1>9, UserPlaced DEF Next, MainStep, IoStep
-----------------------------------------------------------------------------
(* Who has which file open                                                 *)

Writes == {"write_meta", "write_thumb", "write_side"}

(* A thread comes to write a file by opening it, and leaves it by closing it, *)
(* unless the program ends.                                                *)
Began(t, at) ==
  \/ at = "write_meta" /\ BeginMeta(t)
  \/ at = "write_thumb" /\ BeginThumb(t)
  \/ at = "write_side" /\ BeginSide(t)

Ended(t, at) ==
  \/ at = "write_meta" /\ EndMeta(t)
  \/ at = "write_thumb" /\ EndThumb(t)
  \/ at = "write_side" /\ EndSide(t)

LEMMA FileWriters ==
  ASSUME Typed, Placed, NEW t \in Threads, FileStep(t)
  PROVE  /\ frame[t].at \in Writes => Ended(t, frame[t].at)
         /\ frame'[t].at \in Writes => Began(t, frame'[t].at)
<1> USE DEF Writes
<1>1. CASE ReadMeta(t)
  BY <1>1, ReadMetaFrame DEF ReadMeta, At, WasRead
<1>2. CASE ReadThumb(t)
  <2>1. frame[t].at = "thumb"
    BY <1>2 DEF ReadThumb, At
  <2>2. frame'[t].at \in {"check", "load", "save_meta"}
    BY <1>2, ReadThumbFrame DEF AfterMetadata, WasRead
  <2> QED
    BY <2>1, <2>2
<1>3. CASE BeginMeta(t)
  BY <1>3, BegunMeta DEF At, Began
<1>4. CASE EndMeta(t)
  BY <1>4, EndedMeta DEF At, Ended
<1>5. CASE BeginThumb(t)
  BY <1>5, BegunThumb DEF At, Began
<1>6. CASE EndThumb(t) \/ SkipThumb(t)
  BY SMTT(60), <1>6, EndThumbFrame, IdleType
     DEF EndThumb, SkipThumb, At, Ended, AfterSave, AfterMetadata
<1>7. CASE LoadSide(t)
  BY <1>7, LoadSideFrame, IdleType DEF LoadSide, At
<1>8. CASE BeginSide(t)
  BY <1>8, BegunSide DEF At, Began
<1>9. CASE EndSide(t) \/ SideFails(t)
  BY <1>9, EndSideFrame, IdleType DEF EndSide, SideFails, At, Ended, AfterSide
<1>10. CASE MetaFails(t)
  BY <1>10, FailedMeta DEF At
<1> QED
  BY <1>1, <1>2, <1>3, <1>4, <1>5, <1>6, <1>7, <1>8, <1>9, <1>10 DEF FileStep

LEMMA Writers ==
  ASSUME Typed, Placed, [Next]_vars, NEW t \in Threads
  PROVE  \/ frame'[t] = frame[t]
         \/ /\ frame[t].at \in Writes => Ended(t, frame[t].at)
            /\ frame'[t].at \in Writes => Began(t, frame'[t].at)
         \/ Crash
<1> USE DEF Writes
<1>1. ASSUME NEW u \in Threads, FileStep(u)
      PROVE  \/ frame'[t] = frame[t]
             \/ /\ frame[t].at \in Writes => Ended(t, frame[t].at)
                /\ frame'[t].at \in Writes => Began(t, frame'[t].at)
  BY <1>1, FileWriters, FilePlaces DEF Others
<1>2. CASE UserStep
  BY <1>2, UserPlaces DEF Others
<1>3. CASE \/ (\E f \in Photos : UnlinkMeta(f)) \/ UnlinkThumb
           \/ Closing \/ Closed \/ Pasted \/ Flagged \/ RefreshThumb
           \/ TakeRegen \/ RemoveSource \/ LockIo \/ CannotLoad \/ UnlockIo
  <2>1. Others(Main)
    BY <1>3, HandlerPlaced, ClockStep
  <2>2. frame[Main].at \notin Writes
    BY <1>3, Zenon
       DEF UnlinkMeta, UnlinkThumb, Closing, Closed, Pasted, Flagged, RefreshThumb,
           TakeRegen, RemoveSource, LockIo, CannotLoad, UnlockIo, At
  <2>3. frame'[Main].at \notin Writes
    <3>1. CASE TakeRegen
      BY <3>1, TakeRegenFrame DEF Entered
    <3>2. CASE RemoveSource
      BY <3>2, FramesTyped, Returning, IdleType DEF RemoveSource, Threads
    <3> QED
      BY <1>3, <3>1, <3>2, MainPlaces
  <2> QED
    BY <2>1, <2>2, <2>3 DEF Others
<1>4. CASE (\E f \in Photos : TakeJob(f)) \/ Check \/ Enqueue
  <2>1. Others(Io)
    BY <1>4, IoJobPlaced, ClockStep
  <2>2. frame[Io].at \notin Writes
    BY <1>4, Zenon DEF TakeJob, Check, Enqueue, At
  <2>3. frame'[Io].at \notin Writes
    <3>1. CASE \E f \in Photos : TakeJob(f)
      BY <3>1, TakeJobFrame DEF Entered
    <3>2. CASE Check \/ Enqueue
      <4>1. Return(Io) \/ Goto(Io, "enqueue")
        BY <3>2, Zenon DEF Check, Enqueue
      <4> QED
        <5>1. "enqueue" \in Places /\ Io \in Threads
          BY DEF Places, Threads
        <5> QED
          BY <4>1, <5>1, FramesTyped, Returning, Going, IdleType
    <3> QED
      BY <1>4, <3>1, <3>2
  <2> QED
    BY <2>1, <2>2, <2>3 DEF Others
<1>5. CASE Tick \/ UNCHANGED vars
  BY <1>5 DEF Tick, vars
<1> QED
  BY <1>1, <1>2, <1>3, <1>4, <1>5 DEF Next, MainStep, IoStep, Threads

LEMMA MetaFilesHold ==
  ASSUME Typed, Placed, MetaFiles, [Next]_vars
  PROVE  MetaFiles'
<1>1. CASE meta' = meta /\ metaLock' = metaLock
           /\ ~ (\E t \in Threads : BeginMeta(t) \/ EndMeta(t)) /\ ~ Crash
  <2>1. \A t \in Threads : \/ frame'[t] = frame[t]
                           \/ frame[t].at # "write_meta" /\ frame'[t].at # "write_meta"
    BY <1>1, Writers DEF Writes, Began, Ended
  <2>2. \A f \in Photos : meta[f].by \subseteq Threads
    BY DEF Typed, TypeOK, File
  <2> QED
    BY <1>1, <2>1, <2>2 DEF MetaFiles, At
<1>2. ASSUME NEW t \in Threads, BeginMeta(t) PROVE MetaFiles'
  <2> DEFINE g == frame[t].file
  <2>1. /\ g \in Photos /\ metaLock = None /\ metaLock' = t
        /\ \A f \in Photos : f # g => meta'[f] = meta[f]
        /\ meta'[g] = Truncated(meta[g], t)
        /\ frame'[t].at = "write_meta" /\ frame'[t].file = g /\ Others(t)
    BY <1>2, BegunMeta DEF SameCall
  <2>2. \A u \in Threads : ~ At(u, "write_meta")
    BY <2>1, NobodyIsNone DEF MetaFiles
  <2>3. \A f \in Photos : meta[f].by = {} /\ ~ Mixed(meta[f])
    BY <2>2 DEF MetaFiles, Typed, TypeOK, File
  <2>a. Marked(meta[g])
    BY <2>1, FilesOf, Zenon
  <2>b. /\ Truncated(meta[g], t).by = meta[g].by \cup {t}
        /\ Mixed(Truncated(meta[g], t)) => Mixed(meta[g]) \/ meta[g].by # {}
    BY <2>a, TruncatedFile
  <2>4. Truncated(meta[g], t).by = {t} /\ ~ Mixed(Truncated(meta[g], t))
    BY <2>1, <2>3, <2>b
  <2>5. \A u \in Threads : At(u, "write_meta")' => metaLock' = u
    BY <2>1, <2>2 DEF At, Others
  <2>6. ASSUME NEW f \in Photos
        PROVE  (\A u \in meta'[f].by : At(u, "write_meta")' /\ frame'[u].file = f)
               /\ ~ Mixed(meta'[f])
    BY <2>1, <2>3, <2>4 DEF At
  <2> QED
    BY <2>5, <2>6 DEF MetaFiles
<1>3. ASSUME NEW t \in Threads, EndMeta(t) PROVE MetaFiles'
  <2> DEFINE g == frame[t].file
  <2>1. /\ g \in Photos /\ At(t, "write_meta") /\ metaLock' = None
        /\ \A f \in Photos : f # g => meta'[f] = meta[f]
        /\ frame[t].rendered \in BOOLEAN
        /\ frame'[t].at = "save_thumb" /\ Others(t)
    BY <1>3, EndedMeta
  <2>2. \A u \in Threads : At(u, "write_meta") => u = t
    BY <2>1 DEF MetaFiles
  <2>3. \A f \in Photos : meta[f].by \subseteq (IF f = g THEN {t} ELSE {})
    BY <2>1, <2>2 DEF MetaFiles, Typed, TypeOK, File
  <2>4. meta[g] \in File(BOOLEAN) /\ ~ Mixed(meta[g])
    BY <2>1 DEF MetaFiles, Typed, TypeOK
  <2>a. Marked(meta[g])
    BY <2>1, FilesOf, Zenon
  <2>b. PICK data \in {frame[t].rendered, Torn} : meta'[g] \in Written(meta[g], t, data)
    BY <1>3, EndedMeta
  <2>c. /\ t \notin meta[g].by => meta'[g] = meta[g]
        /\ t \in meta[g].by => /\ meta'[g].by = meta[g].by \ {t}
                               /\ Mixed(meta'[g]) => Mixed(meta[g])
    BY <2>a, <2>b, WrittenFile
  <2>5. meta'[g].by = {} /\ ~ Mixed(meta'[g])
    BY <2>1, <2>3, <2>4, <2>c
  <2>6. \A u \in Threads : ~ At(u, "write_meta")'
    BY <2>1, <2>2 DEF At, Others
  <2>7. \A f \in Photos : meta'[f].by = {} /\ ~ Mixed(meta'[f])
    BY <2>1, <2>3, <2>5 DEF MetaFiles
  <2> QED
    BY <2>6, <2>7 DEF MetaFiles
<1>4. ASSUME NEW g \in Photos, UnlinkMeta(g) PROVE MetaFiles'
  <2>1. meta' = [meta EXCEPT ![g] = Absent] /\ metaLock' = metaLock /\ At(Main, "unlink")
    BY <1>4, Zenon DEF UnlinkMeta
  <2>2. Others(Main) /\ frame'[Main].at = "unlink_thumb"
    BY <1>4, UnlinkFrame
  <2>3. \A u \in Threads : \/ frame'[u] = frame[u]
                           \/ frame[u].at # "write_meta" /\ frame'[u].at # "write_meta"
    BY <2>1, <2>2 DEF Others, At
  <2>4. \A f \in Photos : /\ meta'[f].by \subseteq meta[f].by /\ meta[f].by \subseteq Threads
                          /\ ~ Mixed(meta'[f])
    <3>1. Absent.by = {} /\ ~ Mixed(Absent)
      BY AbsentType
    <3> QED
      BY <2>1, <3>1 DEF Typed, TypeOK, MetaFiles, File
  <2>5. \A u \in Threads : At(u, "write_meta")' => metaLock' = u
    BY <2>1, <2>3 DEF MetaFiles, At
  <2>6. ASSUME NEW f \in Photos, NEW u \in meta'[f].by
        PROVE  At(u, "write_meta")' /\ frame'[u].file = f
    <3>1. u \in meta[f].by /\ u \in Threads
      BY <2>4, <2>6
    <3>2. frame[u].at = "write_meta" /\ frame[u].file = f
      BY <3>1 DEF MetaFiles, At
    <3>3. frame'[u] = frame[u]
      BY <2>3, <3>1, <3>2
    <3> QED
      BY <3>2, <3>3 DEF At
  <2> QED
    BY <2>4, <2>5, <2>6 DEF MetaFiles
<1>5. CASE Crash
  <2>1. \A t \in Threads : frame'[t].at = "idle"
    BY <1>5, IdleType DEF Crash
  <2> QED
    BY <1>5, <2>1, CrashedFiles DEF MetaFiles, At
<1> QED
  BY <1>1, <1>2, <1>3, <1>4, <1>5, MetaStep

(* Threads that are not apart stay so; what a step tells if they are.      *)
LEMMA ApartStep ==
  ASSUME Typed, Placed, [Next]_vars, Apart'
  PROVE  /\ Apart
         /\ \A t \in Threads : BeginThumb(t) => thumb[frame[t].file].by = {}
         /\ \A t \in Threads : LoadSide(t) \/ BeginSide(t) =>
               \A u \in Threads \ {t} : ~ Saving(u, frame[t].file)
<1>0. raced' = FALSE
  BY DEF Apart
<1>1. \A t \in Threads : BeginThumb(t) => raced = FALSE /\ thumb[frame[t].file].by = {}
  BY <1>0, BegunThumb
<1>2. \A t \in Threads : LoadSide(t) \/ BeginSide(t) =>
         raced = FALSE /\ \A u \in Threads \ {t} : ~ Saving(u, frame[t].file)
  BY <1>0, LoadedSide, BegunSide
<1>3. raced' = raced \/ \E t \in Threads : BeginThumb(t) \/ LoadSide(t) \/ BeginSide(t)
  BY ClockStep, Zenon
<1>4. raced = FALSE
  BY <1>0, <1>1, <1>2, <1>3, Zenon
<1> QED
  BY <1>1, <1>2, <1>4 DEF Apart

LEMMA Later ==
  ASSUME Typed, Placed, [Next]_vars
  PROVE  now \in Nat /\ now' \in Nat /\ now <= now' /\ (now' = now \/ Tick)
BY ClockStep DEF Typed, Tick

LEMMA ThumbFilesHold ==
  ASSUME Typed, Placed, ThumbFiles, [Next]_vars
  PROVE  ThumbFiles'
<1>0. \A f \in Photos : thumb[f].by \subseteq Threads /\ thumb[f].time \in Nat /\ thumb[f].time <= now
  BY FilesOf DEF ThumbFiles
<1>1. CASE thumb' = thumb /\ ~ (\E t \in Threads : BeginThumb(t) \/ EndThumb(t)) /\ ~ Crash
  <2>1. \A t \in Threads : \/ frame'[t] = frame[t]
                           \/ frame[t].at # "write_thumb" /\ frame'[t].at # "write_thumb"
    BY <1>1, Writers DEF Writes, Began, Ended
  <2>2. \A f \in Photos : thumb[f].time <= now'
    BY <1>0, Later
  <2>3. Apart' => Apart
    BY ApartStep
  <2>4. ASSUME NEW f \in Photos, NEW t \in thumb[f].by
        PROVE  frame'[t].at = "write_thumb" /\ frame'[t].file = f
    BY <1>0, <2>1 DEF ThumbFiles, At
  <2> QED
    BY <1>1, <2>2, <2>3, <2>4 DEF ThumbFiles, At
<1>2. ASSUME NEW t \in Threads, BeginThumb(t) PROVE ThumbFiles'
  <2> DEFINE g == frame[t].file
  <2>1. /\ g \in Photos /\ At(t, "save_thumb")
        /\ \A f \in Photos : f # g => thumb'[f] = thumb[f]
        /\ thumb'[g] = Truncated(thumb[g], t)
        /\ frame'[t].at = "write_thumb" /\ frame'[t].file = g /\ Others(t)
    BY <1>2, BegunThumb DEF SameCall
  <2>2. Marked(thumb[g])
    BY <2>1, FilesOf, Zenon
  <2>3. /\ thumb'[g].by = thumb[g].by \cup {t} /\ thumb'[g].time = now
        /\ Mixed(thumb'[g]) => Mixed(thumb[g]) \/ thumb[g].by # {}
    BY <2>1, <2>2, TruncatedFile
  <2>4. Apart' => Apart /\ thumb[g].by = {}
    BY <1>2, ApartStep
  <2>5. now' = now /\ now \in Nat
    BY <1>2, Later DEF BeginThumb
  <2>6. ASSUME NEW f \in Photos, NEW u \in thumb'[f].by
        PROVE  frame'[u].at = "write_thumb" /\ frame'[u].file = f
    <3>1. CASE u = t
      BY <2>1, <2>6, <3>1 DEF ThumbFiles, At
    <3>2. CASE u # t
      <4>1. u \in thumb[f].by /\ u \in Threads
        BY <1>0, <2>1, <2>3, <2>6, <3>2
      <4> QED
        BY <2>1, <3>2, <4>1 DEF ThumbFiles, At, Others
    <3> QED
      BY <3>1, <3>2
  <2>7. \A f \in Photos : thumb'[f].time <= now'
    BY <1>0, <2>1, <2>3, <2>5
  <2>8. ASSUME NEW f \in Photos, Apart'
        PROVE  ~ Mixed(thumb'[f]) /\ \A u, v \in thumb'[f].by : u = v
    <3>1. CASE f = g
      BY <2>1, <2>3, <2>4, <2>8, <3>1 DEF ThumbFiles
    <3>2. CASE f # g
      BY <2>1, <2>4, <2>8, <3>2 DEF ThumbFiles
    <3> QED
      BY <3>1, <3>2
  <2> QED
    BY <2>6, <2>7, <2>8 DEF ThumbFiles, At
<1>3. ASSUME NEW t \in Threads, EndThumb(t) PROVE ThumbFiles'
  <2> DEFINE g == frame[t].file
  <2>1. /\ g \in Photos /\ At(t, "write_thumb")
        /\ \A f \in Photos : f # g => thumb'[f] = thumb[f]
    BY <1>3, EndedThumb
  <2>a. PICK data \in {frame[t].thumb, Torn} : thumb'[g] \in Written(thumb[g], t, data)
    BY <1>3, EndedThumb
  <2>2. Marked(thumb[g])
    BY <2>1, FilesOf, Zenon
  <2>3. /\ t \notin thumb[g].by => thumb'[g] = thumb[g]
        /\ t \in thumb[g].by => /\ thumb'[g].by = thumb[g].by \ {t} /\ thumb'[g].time = now
                                /\ Mixed(thumb'[g]) => Mixed(thumb[g])
    BY <2>1, <2>2, <2>a, WrittenFile
  <2>4. Apart' => Apart
    BY ApartStep
  <2>5. now' = now /\ now \in Nat
    BY <1>3, Later DEF EndThumb
  <2>6. Others(t)
    BY <1>3, EndThumbFrame, Zenon
  <2>7. ASSUME NEW f \in Photos, NEW u \in thumb'[f].by
        PROVE  frame'[u].at = "write_thumb" /\ frame'[u].file = f
    <3>1. u \in thumb[f].by /\ u # t
      BY <2>1, <2>3, <2>7 DEF ThumbFiles
    <3>2. u \in Threads
      BY <1>0, <3>1
    <3> QED
      BY <2>6, <3>1, <3>2 DEF ThumbFiles, At, Others
  <2>8. \A f \in Photos : thumb'[f].time <= now'
    BY <1>0, <2>1, <2>3, <2>5
  <2>9. ASSUME NEW f \in Photos, Apart'
        PROVE  ~ Mixed(thumb'[f]) /\ \A u, v \in thumb'[f].by : u = v
    BY <2>1, <2>3, <2>4, <2>9 DEF ThumbFiles
  <2> QED
    BY <2>7, <2>8, <2>9 DEF ThumbFiles, At
<1>4. CASE UnlinkThumb
  <2>1. thumb' = [thumb EXCEPT ![frame[Main].file] = Absent] /\ now' = now
        /\ At(Main, "unlink_thumb")
    BY <1>4, Zenon DEF UnlinkThumb
  <2>2. \A u \in Threads : \/ frame'[u] = frame[u]
                           \/ frame[u].at # "write_thumb" /\ frame'[u].at # "write_thumb"
    <3>1. Others(Main) /\ frame'[Main].at \in {"idle", "unlink", "unlink_thumb", "save_meta",
                                               "closed", "load", "meta", "unlock"}
      BY <1>4, MainPlaces
    <3> QED
      BY <2>1, <3>1 DEF Others, At
  <2>3. Absent.by = {} /\ ~ Mixed(Absent) /\ Absent.time = 0
    BY AbsentType
  <2>4. \A f \in Photos : \/ thumb'[f] = thumb[f]
                          \/ thumb'[f] = Absent
    BY <2>1 DEF Typed, TypeOK
  <2>5. Apart' => Apart
    BY ApartStep
  <2>6. ASSUME NEW f \in Photos, NEW u \in thumb'[f].by
        PROVE  frame'[u].at = "write_thumb" /\ frame'[u].file = f
    <3>1. u \in thumb[f].by /\ u \in Threads
      BY <1>0, <2>3, <2>4, <2>6
    <3> QED
      BY <2>2, <3>1 DEF ThumbFiles, At
  <2>7. \A f \in Photos : thumb'[f].time <= now'
    BY <1>0, <2>1, <2>3, <2>4, Later
  <2>8. ASSUME NEW f \in Photos, Apart'
        PROVE  ~ Mixed(thumb'[f]) /\ \A u, v \in thumb'[f].by : u = v
    BY <2>3, <2>4, <2>5, <2>8 DEF ThumbFiles
  <2> QED
    BY <2>6, <2>7, <2>8 DEF ThumbFiles, At
<1>5. CASE Crash
  <2>1. now' = now
    BY <1>5, Zenon DEF Crash
  <2> QED
    BY <1>0, <1>5, <2>1, CrashedFiles DEF ThumbFiles
<1> QED
  BY <1>1, <1>2, <1>3, <1>4, <1>5, ThumbStep

(* A thread comes to save a sidecar by loading it, or by closing a photo.  *)
LEMMA SaveSteps ==
  ASSUME Typed, Placed, [Next]_vars, NEW t \in Threads
  PROVE  \/ frame'[t] = frame[t]
         \/ LoadSide(t) \/ BeginSide(t) \/ EndSide(t) \/ SideFails(t)
         \/ t = Main /\ OpenOther
         \/ frame[t].at \notin SavesSide /\ frame'[t].at \notin SavesSide
         \/ Crash
<1> USE DEF SavesSide
<1>1. ASSUME NEW u \in Threads, FileStep(u)
      PROVE  \/ frame'[t] = frame[t]
             \/ LoadSide(t) \/ BeginSide(t) \/ EndSide(t) \/ SideFails(t)
             \/ frame[t].at \notin SavesSide /\ frame'[t].at \notin SavesSide
  <2>1. CASE u # t
    BY <1>1, <2>1, FilePlaces DEF Others
  <2>2. CASE u = t /\ ~ (LoadSide(t) \/ BeginSide(t) \/ EndSide(t) \/ SideFails(t))
    <3>1. \/ ReadMeta(t) \/ ReadThumb(t)
          \/ BeginMeta(t) \/ EndMeta(t) \/ MetaFails(t)
          \/ BeginThumb(t) \/ EndThumb(t) \/ SkipThumb(t)
      BY <1>1, <2>2, Zenon DEF FileStep
    <3>2. frame[t].at \notin SavesSide
      BY <3>1
         DEF ReadMeta, ReadThumb, BeginMeta, EndMeta, MetaFails, BeginThumb, EndThumb,
             SkipThumb, At
    <3>3. frame'[t].at \notin SavesSide
      <4>1. CASE ReadMeta(t)
        BY <4>1, ReadMetaFrame DEF WasRead
      <4>2. CASE ReadThumb(t)
        BY <4>2, ReadThumbFrame DEF AfterMetadata, WasRead
      <4>3. CASE BeginMeta(t) \/ EndMeta(t) \/ MetaFails(t) \/ BeginThumb(t)
        BY <4>3, BegunMeta, EndedMeta, FailedMeta, BegunThumb
      <4>4. CASE EndThumb(t) \/ SkipThumb(t)
        BY <4>4, EndThumbFrame, IdleType DEF AfterSave, AfterMetadata
      <4> QED
        BY <3>1, <4>1, <4>2, <4>3, <4>4
    <3> QED
      BY <3>2, <3>3
  <2> QED
    BY <2>1, <2>2
<1>2. CASE UserStep /\ ~ OpenOther
  <2>1. CASE LoadDirectory \/ Edit
    BY <2>1, Zenon DEF LoadDirectory, Edit
  <2>2. CASE ClearCache
    BY <2>2, ClearFrame DEF Others, ClearCache, Operation, At
  <2>3. CASE Export
    BY <2>3, ExportFrame DEF Entered, Others, Export, Operation, At
  <2>4. ASSUME NEW f \in Photos, OpenPhoto(f) \/ Paste(f) \/ SetPrio(f)
        PROVE  \/ frame'[t] = frame[t]
               \/ frame[t].at \notin SavesSide /\ frame'[t].at \notin SavesSide
    <3>1. At(Main, "idle")
      BY <2>4, Zenon DEF OpenPhoto, Paste, SetPrio, Operation
    <3>2. Others(Main) /\ frame'[Main].at \in {"meta", "load"}
      BY <2>4, OpenFrame, PasteFrame, SetPrioFrame DEF Entered
    <3> QED
      BY <3>1, <3>2 DEF Others, At
  <2> QED
    BY <1>2, <2>1, <2>2, <2>3, <2>4, Zenon DEF UserStep
<1>3. CASE OpenOther
  BY <1>3, OpenOtherFrame DEF Entered, Others
<1>4. CASE \/ (\E f \in Photos : UnlinkMeta(f)) \/ UnlinkThumb
           \/ Closing \/ Closed \/ Pasted \/ Flagged \/ RefreshThumb
           \/ TakeRegen \/ RemoveSource \/ LockIo \/ CannotLoad \/ UnlockIo
  <2>1. Others(Main)
    BY <1>4, HandlerPlaced, ClockStep
  <2>2. frame[Main].at \notin SavesSide
    BY <1>4, Zenon
       DEF UnlinkMeta, UnlinkThumb, Closing, Closed, Pasted, Flagged, RefreshThumb,
           TakeRegen, RemoveSource, LockIo, CannotLoad, UnlockIo, At
  <2>3. frame'[Main].at \notin SavesSide
    <3>1. CASE TakeRegen
      BY <3>1, TakeRegenFrame DEF Entered
    <3>2. CASE RemoveSource
      BY <3>2, FramesTyped, Returning, IdleType DEF RemoveSource, Threads
    <3> QED
      BY <1>4, <3>1, <3>2, MainPlaces
  <2> QED
    BY <2>1, <2>2, <2>3 DEF Others
<1>5. CASE (\E f \in Photos : TakeJob(f)) \/ Check \/ Enqueue
  <2>1. Others(Io)
    BY <1>5, IoJobPlaced, ClockStep
  <2>2. frame[Io].at \notin SavesSide /\ frame'[Io].at \notin SavesSide
    BY <1>5, IoJobPlaced, ClockStep DEF IoPlaced, CallOfIo, Placed, Reads, SavesThumb
  <2> QED
    BY <2>1, <2>2 DEF Others
<1>6. CASE Tick \/ UNCHANGED vars
  BY <1>6 DEF Tick, vars
<1> QED
  BY <1>1, <1>2, <1>3, <1>4, <1>5, <1>6 DEF Next, MainStep, IoStep, Threads

(* Once a thread has closed the sidecar it saves it no more.               *)
LEMMA SideDone ==
  ASSUME Typed, Placed, NEW t \in Threads, EndSide(t) \/ SideFails(t)
  PROVE  frame'[t].at \in {"idle", "closing", "pasted", "flagged"} /\ Others(t)
BY EndSideFrame, IdleType DEF AfterSide

LEMMA SideFilesHold ==
  ASSUME Typed, Placed, SideFiles, [Next]_vars
  PROVE  SideFiles'
<1>0. \A f \in Photos : sidecar[f].by \subseteq Threads
  BY FilesOf
<1>a. Main \in Threads /\ Exporter \in Threads /\ Main # Exporter
  BY ThreadsApart DEF Threads
<1>b. Apart' => Apart
  BY ApartStep
<1>1. ASSUME NEW f \in Photos, Apart', Saving(Main, f)', Saving(Exporter, f)'
      PROVE  frame'[Main].call = "close" /\ frame'[Main].at = "save_side"
  <2>1. /\ frame'[Main].file = f /\ frame'[Main].at \in SavesSide
        /\ frame'[Exporter].file = f /\ frame'[Exporter].at \in SavesSide
    BY <1>1 DEF Saving, SavesSide
  <2>2. CASE LoadSide(Main)
    <3>1. Saving(Exporter, f)
      BY <1>a, <2>1, <2>2, LoadSideFrame DEF Others, Saving, SavesSide
    <3>2. frame[Main].file # f
      BY <1>1, <1>a, <2>2, <3>1, ApartStep
    <3> QED
      BY <1>a, <2>1, <2>2, <3>2, LoadSideFrame, IdleType DEF SavesSide
  <2>3. CASE BeginSide(Main)
    <3>1. Saving(Exporter, f) /\ frame[Main].file = f
      BY <1>a, <2>1, <2>3, BegunSide DEF Others, Saving, SavesSide, SameCall
    <3> QED
      BY <1>1, <1>a, <2>3, <3>1, ApartStep
  <2>4. CASE EndSide(Main) \/ SideFails(Main)
    BY <1>a, <2>1, <2>4, SideDone DEF SavesSide
  <2>5. CASE OpenOther
    BY <2>5, OpenOtherFrame DEF Entered
  <2>6. CASE frame'[Main] = frame[Main]
    <3>1. Saving(Main, f)
      BY <2>1, <2>6 DEF Saving, SavesSide
    <3>2. CASE LoadSide(Exporter) \/ BeginSide(Exporter)
      <4>1. frame[Exporter].file = f
        <5>1. CASE LoadSide(Exporter)
          <6>1. frame[Exporter].call = "export"
            BY <5>1 DEF LoadSide, At, Placed, ExporterPlaced, CallOfExporter, SavesSide
          <6> QED
            BY <1>a, <2>1, <5>1, <6>1, LoadSideFrame
        <5>2. CASE BeginSide(Exporter)
          BY <1>a, <2>1, <5>2, BegunSide DEF SameCall
        <5> QED
          BY <3>2, <5>1, <5>2
      <4> QED
        BY <1>1, <1>a, <3>1, <3>2, <4>1, ApartStep
    <3>3. CASE EndSide(Exporter) \/ SideFails(Exporter)
      BY <1>a, <2>1, <3>3, SideDone DEF SavesSide
    <3>4. CASE frame'[Exporter] = frame[Exporter]
      <4>1. Saving(Exporter, f)
        BY <2>1, <3>4 DEF Saving, SavesSide
      <4> QED
        BY <1>1, <1>b, <2>6, <3>1, <4>1 DEF SideFiles, At
    <3>5. CASE Crash
      BY <1>a, <2>1, <3>5, IdleType DEF Crash, SavesSide
    <3> QED
      BY <1>a, <2>1, <3>2, <3>3, <3>4, <3>5, SaveSteps
  <2>7. CASE Crash
    BY <1>a, <2>1, <2>7, IdleType DEF Crash, SavesSide
  <2> QED
    BY <1>a, <2>1, <2>2, <2>3, <2>4, <2>5, <2>6, <2>7, SaveSteps
<1>2. SUFFICES ASSUME NEW f \in Photos
               PROVE  /\ \A t \in Threads : t \in sidecar'[f].by <=>
                            frame'[t].at = "write_side" /\ frame'[t].file = f
                      /\ Apart' => ~ Mixed(sidecar'[f])
  BY <1>1 DEF SideFiles, At
<1>3. CASE sidecar' = sidecar /\ ~ (\E t \in Threads : BeginSide(t) \/ EndSide(t)) /\ ~ Crash
  <2>1. \A t \in Threads : \/ frame'[t] = frame[t]
                           \/ frame[t].at # "write_side" /\ frame'[t].at # "write_side"
    BY <1>3, Writers DEF Writes, Began, Ended
  <2> QED
    BY <1>b, <1>3, <2>1 DEF SideFiles, At
<1>4. ASSUME NEW t \in Threads, BeginSide(t)
      PROVE  /\ \A u \in Threads : u \in sidecar'[f].by <=>
                   frame'[u].at = "write_side" /\ frame'[u].file = f
             /\ Apart' => ~ Mixed(sidecar'[f])
  <2> DEFINE g == frame[t].file
  <2>1. /\ g \in Photos /\ At(t, "save_side")
        /\ \A h \in Photos : h # g => sidecar'[h] = sidecar[h]
        /\ sidecar'[g] = Truncated(sidecar[g], t)
        /\ frame'[t].at = "write_side" /\ frame'[t].file = g /\ Others(t)
    BY <1>4, BegunSide DEF SameCall
  <2>2. Marked(sidecar[g])
    BY <2>1, FilesOf, Zenon
  <2>3. /\ sidecar'[g].by = sidecar[g].by \cup {t}
        /\ Mixed(sidecar'[g]) => Mixed(sidecar[g]) \/ sidecar[g].by # {}
    BY <2>1, <2>2, TruncatedFile
  <2>4. Apart' => sidecar[g].by = {}
    <3>1. SUFFICES ASSUME Apart', NEW u \in sidecar[g].by PROVE FALSE
      OBVIOUS
    <3>2. u \in Threads /\ At(u, "write_side") /\ frame[u].file = g
      BY <1>0, <2>1 DEF SideFiles
    <3>3. u # t /\ Saving(u, g)
      BY <2>1, <3>2 DEF At, Saving
    <3> QED
      BY <1>4, <3>1, <3>2, <3>3, ApartStep
  <2>5. ASSUME NEW u \in Threads
        PROVE  u \in sidecar'[f].by <=> frame'[u].at = "write_side" /\ frame'[u].file = f
    <3>1. CASE u = t
      <4>1. t \notin sidecar[f].by
        BY <2>1 DEF SideFiles, At
      <4> QED
        BY <2>1, <2>3, <3>1, <4>1
    <3>2. CASE u # t
      <4>1. u \in sidecar'[f].by <=> u \in sidecar[f].by
        BY <2>1, <2>3, <3>2
      <4> QED
        BY <2>1, <3>2, <4>1 DEF SideFiles, At, Others
    <3> QED
      BY <3>1, <3>2
  <2>6. Apart' => ~ Mixed(sidecar'[f])
    BY <1>b, <2>1, <2>3, <2>4 DEF SideFiles
  <2> QED
    BY <2>5, <2>6
<1>5. ASSUME NEW t \in Threads, EndSide(t)
      PROVE  /\ \A u \in Threads : u \in sidecar'[f].by <=>
                   frame'[u].at = "write_side" /\ frame'[u].file = f
             /\ Apart' => ~ Mixed(sidecar'[f])
  <2> DEFINE g == frame[t].file
  <2>1. /\ g \in Photos /\ At(t, "write_side")
        /\ \A h \in Photos : h # g => sidecar'[h] = sidecar[h]
    BY <1>5, EndedSide
  <2>a. PICK data \in {frame[t].side, Torn} : sidecar'[g] \in Written(sidecar[g], t, data)
    BY <1>5, EndedSide
  <2>2. Marked(sidecar[g])
    BY <2>1, FilesOf, Zenon
  <2>3. t \in sidecar[g].by
    BY <2>1 DEF SideFiles
  <2>4. sidecar'[g].by = sidecar[g].by \ {t} /\ (Mixed(sidecar'[g]) => Mixed(sidecar[g]))
    BY <2>2, <2>3, <2>a, WrittenFile
  <2>5. frame'[t].at # "write_side" /\ Others(t)
    BY <1>5, SideDone
  <2>6. ASSUME NEW u \in Threads
        PROVE  u \in sidecar'[f].by <=> frame'[u].at = "write_side" /\ frame'[u].file = f
    <3>1. CASE u = t
      BY <2>1, <2>4, <2>5, <3>1 DEF SideFiles
    <3>2. CASE u # t
      <4>1. u \in sidecar'[f].by <=> u \in sidecar[f].by
        BY <2>1, <2>4, <3>2
      <4> QED
        BY <2>5, <3>2, <4>1 DEF SideFiles, At, Others
    <3> QED
      BY <3>1, <3>2
  <2> QED
    BY <1>b, <2>1, <2>4, <2>6 DEF SideFiles
<1>6. CASE Crash
  <2>1. \A t \in Threads : frame'[t].at = "idle"
    BY <1>6, IdleType DEF Crash
  <2> QED
    BY <1>6, <2>1, CrashedFiles
<1> QED
  BY <1>3, <1>4, <1>5, <1>6, SidecarStep
-----------------------------------------------------------------------------
(* What a sidecar will hold                                                *)

(* A sidecar closed by the one thread that saved it holds what that saved. *)
LEMMA SideSaved ==
  ASSUME Typed, Placed, SideFiles, Apart, NEW t \in Threads, EndSide(t)
  PROVE  /\ frame[t].file \in Photos /\ Saving(t, frame[t].file)
         /\ sidecar'[frame[t].file].time = now
         /\ \/ "unsaved" \in mishaps'[frame[t].file]
            \/ sidecar'[frame[t].file].data = frame[t].side
         /\ \A f \in Photos :
               IF f = frame[t].file
               THEN Unsaved(f)' \/ CacheLoad(f)' = frame[t].side
               ELSE sidecar'[f] = sidecar[f]
<1> DEFINE g == frame[t].file
<1>1. /\ g \in Photos /\ At(t, "write_side")
      /\ \A h \in Photos : h # g => sidecar'[h] = sidecar[h]
      /\ frame[t].side \in Side
  BY EndedSide
<1>2. PICK data \in {frame[t].side, Torn} :
        /\ sidecar'[g] \in Written(sidecar[g], t, data)
        /\ data = Torn => "unsaved" \in mishaps'[g]
  BY EndedSide
<1>3. Marked(sidecar[g])
  BY <1>1, FilesOf, Zenon
<1>4. t \in sidecar[g].by /\ ~ Mixed(sidecar[g])
  BY <1>1 DEF SideFiles
<1>5. sidecar'[g].data = data /\ sidecar'[g].time = now
  BY <1>2, <1>3, <1>4, WrittenFile
<1>6. frame[t].side \notin {None, Torn}
  BY <1>1, MarksApart
<1>7. "unsaved" \in mishaps'[g] \/ sidecar'[g].data = frame[t].side
  BY <1>2, <1>5
<1>8. \A f \in Photos : f = g => Unsaved(f)' \/ CacheLoad(f)' = frame[t].side
  BY <1>6, <1>7 DEF CacheLoad, Readable, Unsaved
<1> QED
  BY <1>1, <1>5, <1>7, <1>8 DEF At, Saving

(* One that could not be opened is as it was.                              *)
LEMMA FailedSide ==
  ASSUME Typed, Placed, NEW t \in Threads, SideFails(t)
  PROVE  /\ frame[t].file \in Photos /\ At(t, "save_side") /\ sidecar' = sidecar
         /\ \A f \in Photos : f = frame[t].file => Unsaved(f)'
<1>1. frame[t].file \in Photos /\ At(t, "save_side")
  BY FileNamed DEF SideFails, At
<1>2. SaveFails(frame[t].file, "unsaved") /\ sidecar' = sidecar
  BY Zenon DEF SideFails, files
<1>3. "unsaved" \in mishaps'[frame[t].file]
  BY <1>1, <1>2, SaveFailed DEF Mishaps
<1> QED
  BY <1>1, <1>2, <1>3 DEF Unsaved

(* When a sidecar is loaded nobody is about to write another one.          *)
LEMMA ComingLoaded ==
  ASSUME Typed, Placed, [Next]_vars, Apart', NEW t \in Threads, LoadSide(t)
  PROVE  /\ frame[t].file \in Photos
         /\ Coming(frame[t].file) = CacheLoad(frame[t].file)
         /\ \A u \in Threads : ~ Saving(u, frame[t].file)
<1>1. frame[t].file \in Photos /\ frame[t].at = "load"
  BY LoadedSide DEF At
<1>2. \A u \in Threads \ {t} : ~ Saving(u, frame[t].file)
  BY ApartStep
<1>3. \A u \in Threads : ~ Saving(u, frame[t].file)
  BY <1>1, <1>2 DEF Saving
<1> QED
  BY <1>1, <1>3 DEF Coming, Threads

(* Only the main thread changes what a sidecar is about to hold: by loading *)
(* it to change it, and by closing the photo that is open.                 *)
LEMMA ComingStep ==
  ASSUME Typed, Placed, SideFiles, [Next]_vars, Apart', ~ Crash, NEW f \in Photos
  PROVE  \/ Unsaved(f)' \/ Same(Coming(f)', Coming(f))
         \/ LoadSide(Main) /\ frame'[Main].at = "save_side" /\ f = frame'[Main].file
         \/ OpenOther /\ f = open.file
<1>0. Apart /\ Main \in Threads /\ Exporter \in Threads /\ Main # Exporter
  BY ApartStep, ThreadsApart DEF Threads
<1>1. CASE \E t \in Threads : BeginSide(t)
  <2>1. PICK t \in Threads : BeginSide(t)
    BY <1>1
  <2>2. /\ frame[t].at = "save_side" /\ frame'[t].at = "write_side"
        /\ frame'[t].file = frame[t].file /\ frame'[t].side = frame[t].side /\ Others(t)
        /\ \A h \in Photos : h # frame[t].file => sidecar'[h] = sidecar[h]
    BY <2>1, BegunSide DEF At, SameCall
  <2>3. \A u \in Threads : Saving(u, f)' <=> Saving(u, f)
    BY <2>2 DEF Saving, Others
  <2>4. \A u \in Threads : frame'[u].side = frame[u].side
    BY <2>2 DEF Others
  <2>5. CASE f # frame[t].file
    <3>1. CacheLoad(f)' = CacheLoad(f)
      BY <2>2, <2>5 DEF CacheLoad, Readable
    <3> QED
      BY <1>0, <2>3, <2>4, <3>1 DEF Coming, Same
  <2>6. CASE f = frame[t].file
    <3>1. Saving(t, f)
      BY <2>2, <2>6 DEF Saving
    <3>2. t # Io
      BY <2>2 DEF Placed, IoPlaced, CallOfIo, Reads, SavesThumb
    <3> QED
      BY <1>0, <2>3, <2>4, <3>1, <3>2 DEF Coming, Same, Threads
  <2> QED
    BY <2>5, <2>6
<1>2. CASE \E t \in Threads : EndSide(t)
  <2>1. PICK t \in Threads : EndSide(t)
    BY <1>2
  <2>2. /\ frame'[t].at \in {"idle", "closing", "pasted", "flagged"} /\ Others(t)
        /\ frame[t].at = "write_side"
    BY <2>1, SideDone, EndedSide DEF At
  <2>3. /\ Saving(t, frame[t].file) /\ (f = frame[t].file => Unsaved(f)' \/ CacheLoad(f)' = frame[t].side)
        /\ \A h \in Photos : h # frame[t].file => sidecar'[h] = sidecar[h]
    BY <1>0, <2>1, SideSaved
  <2>4. \A u \in Threads \ {t} : (Saving(u, f)' <=> Saving(u, f)) /\ frame'[u].side = frame[u].side
    BY <2>2 DEF Saving, Others
  <2>5. ~ Saving(t, f)'
    BY <2>2 DEF Saving
  <2>6. t # Io
    BY <2>2 DEF Placed, IoPlaced, CallOfIo, Reads, SavesThumb
  <2>7. CASE f # frame[t].file
    <3>1. CacheLoad(f)' = CacheLoad(f) /\ ~ Saving(t, f)
      BY <2>3, <2>7 DEF CacheLoad, Readable, Saving
    <3> QED
      BY <1>0, <2>4, <2>5, <2>6, <3>1 DEF Coming, Same, Threads
  <2>8. CASE f = frame[t].file /\ ~ Unsaved(f)'
    <3>1. CASE t = Main
      <4>1. ~ Saving(Exporter, f)
        BY <1>0, <2>2, <2>3, <2>8, <3>1 DEF SideFiles, At
      <4> QED
        BY <1>0, <2>3, <2>4, <2>5, <2>8, <3>1, <4>1 DEF Coming, Same
    <3>2. CASE t = Exporter
      BY <1>0, <2>3, <2>4, <2>5, <2>8, <3>2 DEF Coming, Same
    <3> QED
      BY <2>6, <3>1, <3>2 DEF Threads
  <2> QED
    BY <2>7, <2>8
<1>3. CASE \E t \in Threads : SideFails(t)
  <2>1. PICK t \in Threads : SideFails(t)
    BY <1>3
  <2>2. /\ frame'[t].at \in {"idle", "closing", "pasted", "flagged"} /\ Others(t)
        /\ frame[t].at = "save_side" /\ sidecar' = sidecar
        /\ f = frame[t].file => Unsaved(f)'
    BY <2>1, SideDone, FailedSide DEF At
  <2>3. \A u \in Threads \ {t} : (Saving(u, f)' <=> Saving(u, f)) /\ frame'[u].side = frame[u].side
    BY <2>2 DEF Saving, Others
  <2>4. ~ Saving(t, f)' /\ (f # frame[t].file => ~ Saving(t, f))
    BY <2>2 DEF Saving
  <2>5. CacheLoad(f)' = CacheLoad(f)
    BY <2>2 DEF CacheLoad, Readable
  <2> QED
    BY <1>0, <2>2, <2>3, <2>4, <2>5 DEF Coming, Same
<1>4. CASE sidecar' = sidecar
  <2>1. CacheLoad(f)' = CacheLoad(f)
    BY <1>4 DEF CacheLoad, Readable
  <2>2. ASSUME NEW t \in Threads,
               \/ frame'[t] = frame[t]
               \/ frame[t].at \notin SavesSide /\ frame'[t].at \notin SavesSide
        PROVE  /\ Saving(t, f)' <=> Saving(t, f)
               /\ Saving(t, f) => frame'[t].side = frame[t].side
    BY <2>2 DEF Saving, SavesSide
  <2>3. \/ ~ BeginSide(Main) /\ ~ EndSide(Main) /\ ~ BeginSide(Exporter) /\ ~ EndSide(Exporter)
        \/ (\E t \in Threads : BeginSide(t) \/ EndSide(t))
    BY <1>0
  <2>4. CASE LoadSide(Main)
    <3>1. frame'[Exporter] = frame[Exporter] /\ frame[Main].at = "load"
      BY <1>0, <2>4, LoadSideFrame DEF Others, LoadSide, At
    <3>2. ~ Saving(Main, f) /\ (Saving(Exporter, f)' <=> Saving(Exporter, f))
      BY <3>1 DEF Saving
    <3>3. CASE Saving(Main, f)'
      <4>1. frame'[Main].at = "save_side"
        BY <1>0, <2>4, <3>3, LoadSideFrame, IdleType DEF Saving
      <4> QED
        BY <2>4, <3>3, <4>1 DEF Saving
    <3>4. CASE ~ Saving(Main, f)'
      BY <2>1, <3>1, <3>2, <3>4 DEF Coming, Same
    <3> QED
      BY SMTT(60), <3>3, <3>4
  <2>5. CASE LoadSide(Exporter)
    <3>1. frame'[Main] = frame[Main] /\ frame[Exporter].at = "load"
      BY <1>0, <2>5, LoadSideFrame DEF Others, LoadSide, At
    <3>2. ~ Saving(Exporter, f) /\ (Saving(Main, f)' <=> Saving(Main, f))
      BY <3>1 DEF Saving
    <3>3. frame[Exporter].call = "export"
      BY <3>1 DEF Placed, ExporterPlaced, CallOfExporter
    <3>4. frame'[Exporter].file = frame[Exporter].file
          /\ Same(frame'[Exporter].side, CacheLoad(frame[Exporter].file))
      BY <1>0, <2>5, <3>3, LoadSideFrame
    <3>5. CASE Saving(Exporter, f)'
      <4>1. f = frame[Exporter].file
        BY <3>4, <3>5 DEF Saving
      <4>2. Coming(f) = CacheLoad(f) /\ ~ Saving(Main, f)
        BY <1>0, <2>5, <4>1, ComingLoaded
      <4> QED
        BY <3>2, <3>4, <3>5, <4>1, <4>2 DEF Coming, Same
    <3>6. CASE ~ Saving(Exporter, f)'
      BY <2>1, <3>1, <3>2, <3>6 DEF Coming, Same
    <3> QED
      BY SMTT(60), <3>5, <3>6
  <2>6. CASE OpenOther
    <3>1. frame'[Exporter] = frame[Exporter] /\ frame[Main].at = "idle"
      BY <1>0, <2>6, OpenOtherFrame DEF Entered, Others, OpenOther, Operation, At
    <3>2. frame'[Main].file = open.file
      BY <2>6, OpenOtherFrame DEF Entered
    <3>3. ~ Saving(Main, f) /\ (Saving(Exporter, f)' <=> Saving(Exporter, f))
      BY <3>1 DEF Saving
    <3>4. CASE Saving(Main, f)'
      BY <2>6, <3>2, <3>4 DEF Saving
    <3>5. CASE ~ Saving(Main, f)'
      BY <2>1, <3>1, <3>3, <3>5 DEF Coming, Same
    <3> QED
      BY <3>4, <3>5
  <2>7. CASE /\ ~ LoadSide(Main) /\ ~ LoadSide(Exporter) /\ ~ OpenOther
             /\ ~ (\E t \in Threads : BeginSide(t) \/ EndSide(t) \/ SideFails(t))
    <3>1. /\ Saving(Main, f)' <=> Saving(Main, f)
          /\ Saving(Main, f) => frame'[Main].side = frame[Main].side
      BY <1>0, <2>2, <2>7, SaveSteps
    <3>2. /\ Saving(Exporter, f)' <=> Saving(Exporter, f)
          /\ Saving(Exporter, f) => frame'[Exporter].side = frame[Exporter].side
      BY <1>0, <2>2, <2>7, SaveSteps
    <3> QED
      BY <2>1, <3>1, <3>2 DEF Coming, Same
  <2> QED
    BY <1>1, <1>2, <1>3, <2>4, <2>5, <2>6, <2>7
<1> QED
  BY <1>1, <1>2, <1>4, SidecarStep
-----------------------------------------------------------------------------
(* The work of the user                                                    *)

(* Nothing the user did, nothing the main thread is about to set.          *)
Unpending(f) == ~ PastePending(f) /\ ~ FlagPending(f)

(* What the photos have, but for those whose sidecar could not be saved.   *)
LEMMA Remembered ==
  ASSUME Typed, Placed, [Next]_vars, ~ Crash, Kept, NEW f \in Photos, ~ Unsaved(f)'
  PROVE  /\ wanted[f].look.settings = Pasting(f).settings
         /\ "undone" \notin mishaps'[f] => wanted[f].look = Pasting(f)
         /\ FlagPending(f) => wanted[f].prio = frame[Main].value
         /\ ~ FlagPending(f) => wanted[f].prio = Holds(f).prio
         /\ frame[Main].call = "close" =>
               /\ f = open.file => Same(Coming(f), open.side)
               /\ f = frame[Main].new.file => Same(Coming(f), frame[Main].new.side)
<1>1. mishaps[f] \subseteq mishaps'[f]
  BY MishapsStep
<1>2. ~ Unsaved(f)
  BY <1>1 DEF Unsaved
<1> QED
  BY <1>1, <1>2 DEF Kept, Agree

(* What is pasted onto a photo depends on what it has, part by part.       *)
LEMMA ChangedAgrees ==
  ASSUME NEW a, NEW b, NEW parts, NEW value, a.settings = b.settings
  PROVE  Changed(a, parts, value).settings = Changed(b, parts, value).settings
BY DEF Changed

LEMMA KeptFollows ==
  ASSUME Typed, Placed, [Next]_vars, ~ Crash, Kept, wanted' = wanted, open' = open,
         \A f \in Photos : /\ Unsaved(f)' \/ Same(Coming(f)', Coming(f))
                           /\ PastePending(f)' <=> PastePending(f)
                           /\ FlagPending(f)' <=> FlagPending(f),
         \/ frame'[Main].value = frame[Main].value /\ frame'[Main].parts = frame[Main].parts
         \/ \A f \in Photos : Unpending(f),
         frame'[Main].call = "close" =>
            frame[Main].call = "close" /\ frame'[Main].new = frame[Main].new
  PROVE  Kept'
<1>1. ASSUME NEW f \in Photos, ~ Unsaved(f)'
      PROVE  Holds(f)'.look = Holds(f).look /\ Holds(f)'.prio = Holds(f).prio
  BY <1>1 DEF Holds, Same
<1>2. ASSUME NEW f \in Photos, ~ Unsaved(f)'
      PROVE  Pasting(f)' = Pasting(f)
  <2>1. Holds(f)'.look = Holds(f).look
    BY <1>1, <1>2
  <2> QED
    BY <2>1 DEF Pasting, Unpending
<1>3. ASSUME NEW f \in Photos, ~ Unsaved(f)'
      PROVE  /\ wanted'[f].look.settings = Pasting(f)'.settings
             /\ "undone" \notin mishaps'[f] => wanted'[f].look = Pasting(f)'
             /\ FlagPending(f)' => wanted'[f].prio = frame'[Main].value
             /\ ~ FlagPending(f)' => wanted'[f].prio = Holds(f)'.prio
  BY <1>1, <1>2, <1>3, Remembered DEF Unpending
<1>4. ASSUME frame'[Main].call = "close", NEW f \in Photos, ~ Unsaved(f)'
      PROVE  /\ f = open'.file => Same(Coming(f)', open'.side)
             /\ f = frame'[Main].new.file => Same(Coming(f)', frame'[Main].new.side)
  BY <1>4, Remembered DEF Same
<1> QED
  BY <1>3, <1>4 DEF Kept, Agree

(* The other threads.                                                      *)
LEMMA KeptByOthers ==
  ASSUME Typed, Placed, SideFiles, [Next]_vars, Apart', ~ Crash, Kept,
         wanted' = wanted, open' = open, frame'[Main] = frame[Main],
         ~ OpenOther
  PROVE  Kept'
<1>1. ~ LoadSide(Main) \/ frame'[Main].at # "save_side"
  BY DEF LoadSide, At
<1>2. \A f \in Photos : Unsaved(f)' \/ Same(Coming(f)', Coming(f))
  BY <1>1, ComingStep
<1>3. \A f \in Photos : /\ PastePending(f)' <=> PastePending(f)
                        /\ FlagPending(f)' <=> FlagPending(f)
  BY DEF PastePending, FlagPending, At
<1> QED
  BY <1>2, <1>3, KeptFollows

LEMMA KeptByFiles ==
  ASSUME Typed, Placed, SideFiles, [Next]_vars, Apart', ~ Crash, Kept,
         FileStep(Main), ~ LoadSide(Main)
  PROVE  Kept'
<1>0. Main \in Threads
  BY DEF Threads
<1>1. wanted' = wanted /\ open' = open
  BY <1>0, OpenStays, Zenon
     DEF FileStep, ReadMeta, ReadThumb, BeginMeta, EndMeta, MetaFails, BeginThumb,
         EndThumb, SkipThumb, BeginSide, EndSide, SideFails, history
<1>2. ~ OpenOther
  <2>1. frame[Main].at # "idle"
    BY <1>0, FilePlaces DEF Reads, SavesThumb, SavesSide
  <2> QED
    BY <2>1 DEF OpenOther, Operation, At
<1>3. \A f \in Photos : Unsaved(f)' \/ Same(Coming(f)', Coming(f))
  BY <1>2, ComingStep
<1>4. CASE \/ frame'[Main] = Idle /\ frame[Main].call \notin {"close", "paste", "flag"}
  <2>1. \A f \in Photos : Unpending(f) /\ Unpending(f)'
    BY <1>4, IdleType DEF Unpending, PastePending, FlagPending
  <2> QED
    BY <1>1, <1>3, <1>4, <2>1, IdleType, KeptFollows DEF Unpending
<1>5. CASE /\ frame'[Main].call = frame[Main].call /\ frame'[Main].file = frame[Main].file
           /\ frame'[Main].value = frame[Main].value /\ frame'[Main].parts = frame[Main].parts
           /\ frame'[Main].new = frame[Main].new
           /\ frame[Main].at # "load"
           /\ frame[Main].at \in Reads <=> frame'[Main].at \in Reads \cup {"load"}
           /\ frame'[Main].at = "load" => frame[Main].call # "flag"
  <2>1. \A f \in Photos : /\ PastePending(f)' <=> PastePending(f)
                          /\ FlagPending(f)' <=> FlagPending(f)
    BY <1>1, <1>5 DEF PastePending, FlagPending, At
  <2> QED
    BY <1>1, <1>3, <1>5, <2>1, KeptFollows
<1>6. CASE ReadMeta(Main)
  <2>1. frame[Main].at = "meta"
    BY <1>6 DEF ReadMeta, At
  <2> QED
    BY <1>0, <1>5, <1>6, <2>1, ReadMetaFrame DEF Reads, SavesThumb, WasRead
<1>7. CASE ReadThumb(Main)
  <2>1. frame[Main].at = "thumb" /\ frame[Main].call \in {"open", "paste", "regen"}
    BY <1>7 DEF ReadThumb, At, Placed, MainPlaced, CallOfMain, SavesSide, SavesThumb
  <2>2. frame'[Main].at \in {"load", "save_meta"}
    BY <1>0, <1>7, <2>1, ReadThumbFrame DEF AfterMetadata, WasRead
  <2> QED
    BY <1>0, <1>5, <1>7, <2>1, <2>2, ReadThumbFrame DEF Reads, SavesThumb
<1>8. CASE BeginMeta(Main) \/ EndMeta(Main) \/ MetaFails(Main) \/ BeginThumb(Main)
  <2>1. frame[Main].at \in SavesThumb /\ frame'[Main].at \in SavesThumb /\ SameCall(Main)
    BY <1>0, <1>8, BegunMeta, EndedMeta, FailedMeta, BegunThumb DEF At, SavesThumb
  <2> QED
    BY <1>5, <2>1 DEF SameCall, Reads, SavesThumb
<1>9. CASE BeginSide(Main)
  <2>1. frame[Main].at = "save_side" /\ frame'[Main].at = "write_side" /\ SameCall(Main)
    BY <1>0, <1>9, BegunSide DEF At
  <2> QED
    BY <1>5, <2>1 DEF SameCall, Reads, SavesThumb
<1>10. CASE EndSide(Main) \/ SideFails(Main)
  <2>1. frame[Main].at \in {"save_side", "write_side"}
    BY <1>10 DEF EndSide, SideFails, At
  <2> QED
    BY <1>0, <1>4, <1>5, <1>10, <2>1, EndSideFrame
       DEF SameCall, Reads, SavesThumb, AfterSide
<1>11. CASE EndThumb(Main) \/ SkipThumb(Main)
  <2>1. frame[Main].at \in {"save_thumb", "write_thumb"}
        /\ frame[Main].call \in {"open", "close", "paste", "timer", "regen", "regen_render"}
    BY <1>11 DEF EndThumb, SkipThumb, At, Placed, MainPlaced, CallOfMain, SavesSide, Reads
  <2>2. CASE frame'[Main] = Idle /\ frame[Main].call = "timer"
    BY <1>4, <2>2
  <2>3. CASE frame'[Main].at = AfterSave(frame[Main].call) /\ SameCall(Main)
    <3>1. \/ frame[Main].call \in {"open", "paste", "regen"} /\ frame'[Main].at = "load"
          \/ frame[Main].call = "close" /\ frame'[Main].at = "closed"
          \/ frame[Main].call = "regen_render" /\ frame'[Main].at = "unlock"
          \/ frame[Main].call = "timer" /\ frame'[Main].at = "idle"
      BY <2>1, <2>3 DEF AfterSave, AfterMetadata
    <3>2. CASE frame[Main].call \in {"open", "paste", "regen"}
      BY <1>5, <2>1, <2>3, <3>1, <3>2 DEF SameCall, Reads, SavesThumb
    <3>3. CASE frame[Main].call \notin {"open", "paste", "regen"}
      <4>1. \A f \in Photos : Unpending(f) /\ Unpending(f)'
        BY <2>1, <2>3, <3>3 DEF SameCall, Unpending, PastePending, FlagPending
      <4> QED
        BY <1>1, <1>3, <2>3, <4>1, KeptFollows DEF Unpending, SameCall
    <3> QED
      BY <3>2, <3>3
  <2> QED
    BY <1>0, <1>11, <2>2, <2>3, EndThumbFrame
<1> QED
  BY <1>6, <1>7, <1>8, <1>9, <1>10, <1>11 DEF FileStep

LEMMA KeptByHandlers ==
  ASSUME Typed, Placed, SideFiles, [Next]_vars, Apart', ~ Crash, Kept,
         \/ (\E f \in Photos : UnlinkMeta(f)) \/ UnlinkThumb \/ Closing \/ RefreshThumb
         \/ TakeRegen \/ RemoveSource \/ LockIo \/ CannotLoad \/ UnlockIo
  PROVE  Kept'
<1>0. Main \in Threads
  BY DEF Threads
<1>1. wanted' = wanted /\ open' = open
  BY Zenon
     DEF UnlinkMeta, UnlinkThumb, Closing, RefreshThumb, TakeRegen, RemoveSource, LockIo,
         CannotLoad, UnlockIo, history
<1>2. /\ frame[Main].at \in {"unlink", "unlink_thumb", "closing", "idle", "remove_source", "lock",
                             "unlock", "meta"}
      /\ frame[Main].at = "meta" => frame[Main].call \in {"open", "regen"}
      /\ frame[Main].at = "closing" \/ ~ Closing
  BY DEF UnlinkMeta, UnlinkThumb, Closing, RefreshThumb, TakeRegen, RemoveSource, LockIo,
     CannotLoad, UnlockIo, At
<1>3. frame[Main].call \notin {"paste", "flag"}
      /\ (frame[Main].call = "close" => frame[Main].at = "closing")
  BY <1>2 DEF Placed, MainPlaced, CallOfMain, Reads, SavesThumb, SavesSide
<1>4. \/ frame' = frame
      \/ frame'[Main].call \in {"none", "timer", "regen"}
      \/ frame'[Main].call = frame[Main].call /\ frame'[Main].new = frame[Main].new
  <2>1. CASE \E f \in Photos : UnlinkMeta(f)
    BY <2>1, UnlinkFrame
  <2>2. CASE UnlinkThumb
    <3>1. Return(Main) \/ Goto(Main, "unlink")
      BY <2>2, Zenon DEF UnlinkThumb
    <3> QED
      BY <1>0, <3>1, FramesTyped, Returning, Going, IdleType DEF SameCall, Places
  <2>3. CASE Closing
    BY <2>3, ClosingFrame
  <2>4. CASE RefreshThumb
    BY <2>4, RefreshFrame DEF Entered
  <2>5. CASE TakeRegen
    BY <2>5, TakeRegenFrame DEF Entered, SameCall
  <2>6. CASE RemoveSource \/ UnlockIo
    BY <1>0, <2>6, FramesTyped, Returning, IdleType DEF RemoveSource, UnlockIo
  <2>7. CASE LockIo
    <3>1. Goto(Main, "meta") /\ "meta" \in Places
      BY <2>7 DEF LockIo, Places, Reads
    <3> QED
      BY <1>0, <3>1, FramesTyped, Going DEF SameCall
  <2>8. CASE CannotLoad
    <3>1. Goto(Main, "unlock") \/ Return(Main)
      BY <2>8, Zenon DEF CannotLoad
    <3> QED
      BY <1>0, <3>1, FramesTyped, Returning, Going, IdleType DEF SameCall, Places
  <2> QED
    BY <2>1, <2>2, <2>3, <2>4, <2>5, <2>6, <2>7, <2>8
<1>5. ops' = ops
  BY Zenon
     DEF UnlinkMeta, UnlinkThumb, Closing, RefreshThumb, TakeRegen, RemoveSource, LockIo,
         CannotLoad, UnlockIo, bounds
<1>6. ~ OpenOther
  BY <1>5 DEF OpenOther, Operation, Typed
<1>7. ~ LoadSide(Main)
  BY <1>2 DEF LoadSide, At
<1>8. \A f \in Photos : Unsaved(f)' \/ Same(Coming(f)', Coming(f))
  BY <1>6, <1>7, ComingStep
<1>9. frame'[Main].call \notin {"paste", "flag"}
  BY <1>3, <1>4
<1>10. \A f \in Photos : Unpending(f) /\ Unpending(f)'
  BY <1>3, <1>9 DEF Unpending, PastePending, FlagPending
<1>11. frame'[Main].call = "close" =>
          frame[Main].call = "close" /\ frame'[Main].new = frame[Main].new
  BY <1>3, <1>4
<1> QED
  BY <1>1, <1>8, <1>10, <1>11, KeptFollows DEF Unpending

(* The steps that change what is open.                                     *)
LEMMA KeptByClosed ==
  ASSUME Typed, Placed, SideFiles, [Next]_vars, Apart', ~ Crash, Kept,
         Closed \/ Pasted \/ Flagged
  PROVE  Kept'
<1>0. Main \in Threads /\ ops' = ops /\ wanted' = wanted
  BY Zenon DEF Threads, Closed, Pasted, Flagged, bounds, history
<1>1. frame[Main].at \in {"closed", "pasted", "flagged"}
  BY DEF Closed, Pasted, Flagged, At
<1>2. ~ OpenOther /\ ~ LoadSide(Main)
  BY <1>0, <1>1 DEF OpenOther, Operation, Typed, LoadSide, At
<1>3. \A f \in Photos : Unsaved(f)' \/ Same(Coming(f)', Coming(f))
  BY <1>2, ComingStep
<1>4. /\ open \in PhotoType /\ (open.file = None => open = NoPhoto)
      /\ None \notin Photos /\ NoPhoto.file = None
  BY NobodyIsNone, DefaultsType DEF Typed, Placed, MainPlaced
<1>5. CASE Closed
  <2>1. /\ open' = frame[Main].new /\ frame'[Main] = Idle /\ frame[Main].call = "close"
        /\ frame[Main].new.file # open.file
    <3>1. Return(Main) /\ open' = frame[Main].new /\ At(Main, "closed")
      BY <1>5, Zenon DEF Closed
    <3>2. frame[Main].call = "close" /\ frame[Main].new.file # open.file
      BY <3>1 DEF At, Placed, MainPlaced, CallOfMain, Reads, SavesThumb, SavesSide
    <3> QED
      BY <1>0, <3>1, <3>2, FramesTyped, Returning
  <2>2. \A f \in Photos : /\ ~ PastePending(f) /\ ~ FlagPending(f)
                          /\ ~ PastePending(f)' /\ ~ FlagPending(f)'
    BY <2>1, IdleType DEF PastePending, FlagPending
  <2>3. ASSUME NEW f \in Photos, ~ Unsaved(f)'
        PROVE  /\ wanted'[f].look.settings = Pasting(f)'.settings
               /\ "undone" \notin mishaps'[f] => wanted'[f].look = Pasting(f)'
               /\ wanted'[f].prio = Holds(f)'.prio
    <3>1. /\ wanted[f].look.settings = Pasting(f).settings
          /\ "undone" \notin mishaps'[f] => wanted[f].look = Pasting(f)
          /\ wanted[f].prio = Holds(f).prio
          /\ f = open.file => Same(Coming(f), open.side)
          /\ f = frame[Main].new.file => Same(Coming(f), frame[Main].new.side)
      BY <2>1, <2>2, <2>3, Remembered
    <3>2. Same(Coming(f)', Coming(f))
      BY <1>3, <2>3
    <3>3. Same(Holds(f)', Holds(f))
      BY <2>1, <3>1, <3>2 DEF Holds, Same
    <3>4. Pasting(f) = Holds(f).look /\ Pasting(f)' = Holds(f)'.look
      BY <2>2 DEF Pasting
    <3> QED
      BY <1>0, <3>1, <3>3, <3>4 DEF Same
  <2> QED
    BY <2>1, <2>2, <2>3, IdleType DEF Kept, Agree
<1>6. CASE Pasted
  <2>1. frame'[Main] = Idle /\ frame[Main].call = "paste" /\ frame[Main].at = "pasted"
    <3>1. Return(Main) /\ At(Main, "pasted")
      BY <1>6, Zenon DEF Pasted
    <3>2. frame[Main].call = "paste"
      BY <3>1 DEF At, Placed, MainPlaced, CallOfMain, Reads, SavesThumb, SavesSide
    <3> QED
      BY <1>0, <3>1, <3>2, FramesTyped, Returning DEF At
  <2> DEFINE m == frame[Main]
             set == Changed(open.side.look, m.parts, m.value)
  <2>2. \/ open = NoPhoto /\ open' = open
        \/ open # NoPhoto /\ open' = [open EXCEPT !.side.look = set]
        \/ /\ open # NoPhoto
           /\ open' = [open EXCEPT !.side.look = [set EXCEPT !.crop = m.value]]
           /\ Mishap(open.file, "undone")
    BY <1>6 DEF Pasted
  <2>3. \A f \in Photos : /\ PastePending(f) <=> open.file = f
                          /\ ~ FlagPending(f)
                          /\ ~ PastePending(f)' /\ ~ FlagPending(f)'
    BY <2>1, IdleType DEF PastePending, FlagPending, Reads, SavesThumb
  <2>4. open'.file = open.file /\ open'.side.prio = open.side.prio
    BY <1>4, <2>2 DEF PhotoType, Side
  <2>a. [set EXCEPT !.crop = m.value].settings = set.settings
    BY DEF Changed
  <2>b. open.file \in Photos =>
          /\ open'.side.look.settings = set.settings
          /\ "undone" \notin mishaps'[open.file] => open'.side.look = set
    <3>1. open.file \in Photos => open # NoPhoto
      BY <1>4
    <3>2. open.file \in Photos /\ Mishap(open.file, "undone") =>
             "undone" \in mishaps'[open.file]
      BY MishapIs DEF Mishaps
    <3> QED
      BY <1>4, <2>2, <2>a, <3>1, <3>2 DEF PhotoType, Side
  <2>5. ASSUME NEW f \in Photos, ~ Unsaved(f)'
        PROVE  /\ wanted'[f].look.settings = Pasting(f)'.settings
               /\ "undone" \notin mishaps'[f] => wanted'[f].look = Pasting(f)'
               /\ wanted'[f].prio = Holds(f)'.prio
    <3>1. /\ wanted[f].look.settings = Pasting(f).settings
          /\ "undone" \notin mishaps'[f] => wanted[f].look = Pasting(f)
          /\ wanted[f].prio = Holds(f).prio
      BY <2>3, <2>5, Remembered
    <3>2. Same(Coming(f)', Coming(f))
      BY <1>3, <2>5
    <3>3. /\ Pasting(f) = IF open.file = f THEN set ELSE Coming(f).look
          /\ Pasting(f)' = IF open.file = f THEN open'.side.look ELSE Coming(f)'.look
      BY <2>3, <2>4 DEF Pasting, Holds
    <3>4. Holds(f)'.prio = Holds(f).prio
      BY <2>4, <3>2 DEF Holds, Same
    <3> QED
      BY <1>0, <2>b, <3>1, <3>2, <3>3, <3>4 DEF Same
  <2> QED
    BY <2>1, <2>3, <2>5, IdleType DEF Kept, Agree
<1>7. CASE Flagged
  <2>1. frame[Main].call = "flag" /\ frame[Main].at = "flagged" /\ frame[Main].file \in Photos
    <3>1. At(Main, "flagged")
      BY <1>7, Zenon DEF Flagged
    <3>2. frame[Main].call = "flag"
      BY <3>1 DEF At, Placed, MainPlaced, CallOfMain, Reads, SavesThumb, SavesSide
    <3> QED
      BY <1>0, <3>1, <3>2, FileNamed DEF At, Placed, MainPlaced, Busy
  <2>2. CASE open.file = frame[Main].file
    <3>1. open' = [open EXCEPT !.side.prio = frame[Main].value]
      BY <1>7, <2>2 DEF Flagged
    <3>2. frame'[Main].call = "flag_open"
      BY <1>7, <2>2, FlaggedFrame
    <3>3. \A f \in Photos : /\ FlagPending(f) <=> open.file = f
                            /\ ~ PastePending(f)
                            /\ ~ PastePending(f)' /\ ~ FlagPending(f)'
      BY <2>1, <2>2, <3>2 DEF PastePending, FlagPending, At
    <3>4. open'.file = open.file /\ open'.side.look = open.side.look
          /\ open'.side.prio = frame[Main].value
      BY <1>4, <3>1 DEF PhotoType, Side
    <3>5. ASSUME NEW f \in Photos, ~ Unsaved(f)'
          PROVE  /\ wanted'[f].look.settings = Pasting(f)'.settings
                 /\ "undone" \notin mishaps'[f] => wanted'[f].look = Pasting(f)'
                 /\ wanted'[f].prio = Holds(f)'.prio
      <4>1. /\ open.file = f => wanted[f].prio = frame[Main].value
            /\ open.file # f => wanted[f].prio = Holds(f).prio
            /\ wanted[f].look.settings = Pasting(f).settings
            /\ "undone" \notin mishaps'[f] => wanted[f].look = Pasting(f)
        BY <3>3, <3>5, Remembered
      <4>2. Same(Coming(f)', Coming(f))
        BY <1>3, <3>5
      <4>3. Pasting(f)' = Pasting(f)
        BY <3>3, <3>4, <4>2 DEF Pasting, Holds, Same
      <4> QED
        BY <1>0, <3>4, <4>1, <4>2, <4>3 DEF Holds, Same
    <3> QED
      BY <3>2, <3>3, <3>5 DEF Kept, Agree
  <2>3. CASE open.file # frame[Main].file
    <3>1. frame'[Main] = Idle /\ open' = open
      BY <1>7, <2>3, FlaggedFrame
    <3>2. \A f \in Photos : Unpending(f) /\ Unpending(f)'
      BY <2>1, <2>3, <3>1, IdleType DEF Unpending, PastePending, FlagPending, At
    <3> QED
      BY <1>0, <1>3, <3>1, <3>2, IdleType, KeptFollows DEF Unpending
  <2> QED
    BY <2>2, <2>3
<1> QED
  BY <1>5, <1>6, <1>7

(* What the user does                                                      *)
LEMMA KeptByUser ==
  ASSUME Typed, Placed, SideFiles, [Next]_vars, Apart', ~ Crash, Kept, UserStep
  PROVE  Kept'
<1>0. Main \in Threads /\ Exporter \in Threads /\ Main # Exporter
  BY ThreadsApart DEF Threads
<1>1. /\ open \in PhotoType /\ (open.file = None => open = NoPhoto)
      /\ None \notin Photos /\ NoPhoto.file = None /\ wanted \in [Photos -> Side]
  BY NobodyIsNone, DefaultsType DEF Typed, TypeOK, Placed, MainPlaced
<1>2. At(Main, "idle") => /\ frame[Main].call = "none"
                          /\ ~ LoadSide(Main)
                          /\ \A f \in Photos : ~ PastePending(f) /\ ~ FlagPending(f)
  BY DEF At, Placed, MainPlaced, CallOfMain, Reads, SavesThumb, SavesSide, LoadSide,
     PastePending, FlagPending
<1>3. NewValue \in Nat
  BY DEF NewValue, Typed
<1>4. ~ OpenOther /\ At(Main, "idle") => \A f \in Photos : Unsaved(f)' \/ Same(Coming(f)', Coming(f))
  BY <1>2, ComingStep
<1>5. ASSUME At(Main, "idle"), wanted' = wanted, open' = open, ~ OpenOther,
             frame'[Main].call \notin {"paste", "flag", "close"}
      PROVE  Kept'
  <2>1. \A f \in Photos : Unpending(f) /\ Unpending(f)'
    BY <1>2, <1>5 DEF Unpending, PastePending, FlagPending
  <2> QED
    BY <1>4, <1>5, <2>1, KeptFollows DEF Unpending
<1>6. ASSUME NEW f \in Photos, OpenPhoto(f), ~ OpenOther PROVE Kept'
  <2>1. At(Main, "idle") /\ wanted' = wanted /\ open' = open
    BY <1>6, Zenon DEF OpenPhoto, Operation
  <2> QED
    BY <1>5, <1>6, <2>1, OpenFrame DEF Entered
<1>7. ASSUME LoadDirectory \/ ClearCache, ~ OpenOther PROVE Kept'
  <2>1. At(Main, "idle") /\ wanted' = wanted /\ open' = open
    BY <1>7, Zenon DEF LoadDirectory, ClearCache, Operation
  <2>2. frame'[Main].call = "none"
    BY <1>2, <1>7, <2>1, ClearFrame DEF Entered, LoadDirectory
  <2> QED
    BY <1>5, <1>7, <2>1, <2>2
<1>8. ASSUME Export, ~ OpenOther PROVE Kept'
  <2>1. wanted' = wanted /\ open' = open
    BY <1>8, Zenon DEF Export
  <2> QED
    BY <1>0, <1>8, <2>1, KeptByOthers, ExportFrame DEF Entered, Others
<1>9. ASSUME NEW g \in Photos, SetPrio(g), ~ OpenOther PROVE Kept'
  <2>1. At(Main, "idle") /\ open' = open
        /\ wanted' = [wanted EXCEPT ![g].prio = 1 - wanted[g].prio]
    BY <1>9, Zenon DEF SetPrio, Operation
  <2>2. /\ frame'[Main].at = "load" /\ frame'[Main].call = "flag" /\ frame'[Main].file = g
        /\ frame'[Main].value = 1 - wanted[g].prio
    BY <1>9, SetPrioFrame DEF Entered
  <2>3. \A f \in Photos : ~ PastePending(f)' /\ (FlagPending(f)' <=> f = g)
    BY <2>2 DEF PastePending, FlagPending, At
  <2>4. \A f \in Photos : /\ wanted'[f].look = wanted[f].look
                          /\ wanted'[f].prio = IF f = g THEN 1 - wanted[f].prio
                                                        ELSE wanted[f].prio
    BY <1>1, <2>1 DEF Side
  <2>5. ASSUME NEW f \in Photos, ~ Unsaved(f)'
        PROVE  /\ wanted'[f].look.settings = Pasting(f)'.settings
               /\ "undone" \notin mishaps'[f] => wanted'[f].look = Pasting(f)'
               /\ f # g => wanted'[f].prio = Holds(f)'.prio
    <3>1. /\ wanted[f].look.settings = Pasting(f).settings
          /\ "undone" \notin mishaps'[f] => wanted[f].look = Pasting(f)
          /\ wanted[f].prio = Holds(f).prio
      BY <1>2, <2>1, <2>5, Remembered
    <3>2. Same(Coming(f)', Coming(f))
      BY <1>4, <1>9, <2>1, <2>5
    <3>3. Pasting(f) = Holds(f).look /\ Pasting(f)' = Holds(f)'.look
      BY <1>2, <2>1, <2>3 DEF Pasting
    <3> QED
      BY <2>1, <2>4, <3>1, <3>2, <3>3 DEF Holds, Same
  <2> QED
    BY <2>2, <2>3, <2>4, <2>5 DEF Kept, Agree
<1>10. ASSUME NEW g \in Photos, Paste(g), ~ OpenOther PROVE Kept'
  <2>1. At(Main, "idle") /\ open' = open
    BY <1>10, Zenon DEF Paste, Operation
  <2>2. PICK parts \in Pastes :
          /\ Entered(Main, IF "turn" \in parts THEN "load" ELSE "meta", "paste", g)
          /\ frame'[Main].value = NewValue /\ frame'[Main].parts = parts
          /\ wanted' = [h \in Photos |->
               IF h \in {g, open.file}
               THEN [wanted[h] EXCEPT !.look = Changed(@, parts, NewValue)]
               ELSE wanted[h]]
    BY <1>10, PasteFrame
  <2>a. /\ frame'[Main].at \in {"meta", "load"} /\ frame'[Main].call = "paste"
        /\ frame'[Main].file = g
    BY <2>2 DEF Entered
  <2>3. \A f \in Photos : ~ FlagPending(f)' /\ (PastePending(f)' <=> f \in {g, open.file})
    BY <2>1, <2>a DEF PastePending, FlagPending, Reads
  <2>4. \A f \in Photos :
          /\ wanted'[f].prio = wanted[f].prio
          /\ wanted'[f].look = IF f \in {g, open.file}
                               THEN Changed(wanted[f].look, parts, NewValue)
                               ELSE wanted[f].look
    BY <1>1, <2>2 DEF Side
  <2>5. ASSUME NEW f \in Photos, ~ Unsaved(f)'
        PROVE  /\ wanted'[f].look.settings = Pasting(f)'.settings
               /\ "undone" \notin mishaps'[f] => wanted'[f].look = Pasting(f)'
               /\ wanted'[f].prio = Holds(f)'.prio
    <3>1. /\ wanted[f].look.settings = Pasting(f).settings
          /\ "undone" \notin mishaps'[f] => wanted[f].look = Pasting(f)
          /\ wanted[f].prio = Holds(f).prio
      BY <1>2, <2>1, <2>5, Remembered
    <3>2. Same(Coming(f)', Coming(f))
      BY <1>4, <1>10, <2>1, <2>5
    <3>3. Holds(f)'.look = Holds(f).look /\ Holds(f)'.prio = Holds(f).prio
      BY <2>1, <3>2 DEF Holds, Same
    <3>4. /\ Pasting(f) = Holds(f).look
          /\ Pasting(f)' = IF f \in {g, open.file}
                           THEN Changed(Holds(f).look, parts, NewValue)
                           ELSE Holds(f).look
      <4>1. Pasting(f) = Holds(f).look
        BY <1>2, <2>1 DEF Pasting
      <4>2. Pasting(f)' = IF PastePending(f)'
                          THEN Changed(Holds(f)'.look, frame'[Main].parts, frame'[Main].value)
                          ELSE Holds(f)'.look
        BY DEF Pasting
      <4> QED
        BY <2>2, <2>3, <3>3, <4>1, <4>2
    <3>5. Changed(wanted[f].look, parts, NewValue).settings =
            Changed(Holds(f).look, parts, NewValue).settings
      BY <3>1, <3>4, ChangedAgrees
    <3> QED
      BY <2>4, <3>1, <3>3, <3>4, <3>5
  <2> QED
    BY <2>a, <2>3, <2>5 DEF Kept, Agree
<1>11. ASSUME Edit, ~ OpenOther PROVE Kept'
  <2>1. /\ At(Main, "idle") /\ open # NoPhoto /\ frame' = frame
    BY <1>11, Zenon DEF Edit, Operation
  <2>2. PICK part \in Parts :
          /\ open' = [open EXCEPT !.side.look = Changed(@, {part}, NewValue)]
          /\ wanted' = [wanted EXCEPT ![open.file].look = Changed(@, {part}, NewValue)]
    BY <1>11, Zenon DEF Edit
  <2>a. /\ open.file \in Photos /\ open'.file = open.file
        /\ open'.side.look = Changed(open.side.look, {part}, NewValue)
        /\ open'.side.prio = open.side.prio
    BY <1>1, <2>1, <2>2 DEF PhotoType, Side
  <2>3. \A f \in Photos :
          /\ wanted'[f].prio = wanted[f].prio
          /\ wanted'[f].look = IF f = open.file
                               THEN Changed(wanted[f].look, {part}, NewValue)
                               ELSE wanted[f].look
    BY <1>1, <2>2, <2>a DEF Side
  <2>b. \A f \in Photos : ~ PastePending(f)' /\ ~ FlagPending(f)'
    BY <1>2, <2>1 DEF PastePending, FlagPending
  <2>4. ASSUME NEW f \in Photos, ~ Unsaved(f)'
        PROVE  /\ wanted'[f].look.settings = Pasting(f)'.settings
               /\ "undone" \notin mishaps'[f] => wanted'[f].look = Pasting(f)'
               /\ wanted'[f].prio = Holds(f)'.prio
    <3>1. /\ wanted[f].look.settings = Pasting(f).settings
          /\ "undone" \notin mishaps'[f] => wanted[f].look = Pasting(f)
          /\ wanted[f].prio = Holds(f).prio
      BY <1>2, <2>1, <2>4, Remembered
    <3>2. Same(Coming(f)', Coming(f))
      BY <1>4, <1>11, <2>1, <2>4
    <3>3. Pasting(f) = Holds(f).look /\ Pasting(f)' = Holds(f)'.look
      BY <1>2, <2>1, <2>b DEF Pasting
    <3>4. /\ Holds(f)'.look = IF f = open.file THEN Changed(Holds(f).look, {part}, NewValue)
                                               ELSE Holds(f).look
          /\ Holds(f)'.prio = Holds(f).prio
      BY <2>a, <3>2 DEF Holds, Same
    <3>5. Changed(wanted[f].look, {part}, NewValue).settings =
            Changed(Holds(f).look, {part}, NewValue).settings
      BY <3>1, <3>3, ChangedAgrees
    <3>6. CASE f = open.file
      <4>1. /\ wanted'[f].look = Changed(wanted[f].look, {part}, NewValue)
            /\ Holds(f)'.look = Changed(Holds(f).look, {part}, NewValue)
        BY <2>3, <3>4, <3>6
      <4>2. "undone" \notin mishaps'[f] => wanted[f].look = Holds(f).look
        BY <3>1, <3>3
      <4>3. wanted'[f].look.settings = Holds(f)'.look.settings
        BY <3>5, <4>1
      <4>4. "undone" \notin mishaps'[f] => wanted'[f].look = Holds(f)'.look
        BY <4>1, <4>2
      <4>5. wanted'[f].prio = Holds(f)'.prio
        BY <2>3, <3>1, <3>4
      <4> QED
        BY <3>3, <4>3, <4>4, <4>5
    <3>7. CASE f # open.file
      BY <2>3, <3>1, <3>3, <3>4, <3>7
    <3> QED
      BY <3>6, <3>7
  <2> QED
    BY <1>2, <2>1, <2>b, <2>4 DEF Kept, Agree
<1>12. CASE OpenOther
  <2>1. /\ At(Main, "idle") /\ wanted' = wanted /\ open' = open
    BY <1>12, Zenon DEF OpenOther, Operation
  <2>2. /\ frame'[Main].at = "save_side" /\ frame'[Main].call = "close"
        /\ frame'[Main].file = open.file /\ frame'[Main].side = open.side
        /\ frame'[Main].new = NoPhoto
    BY <1>12, OpenOtherFrame DEF Entered
  <2>3. \A f \in Photos : ~ PastePending(f)' /\ ~ FlagPending(f)'
    BY <2>2 DEF PastePending, FlagPending
  <2>4. ASSUME NEW f \in Photos, ~ Unsaved(f)'
        PROVE  /\ wanted'[f].look.settings = Pasting(f)'.settings
               /\ "undone" \notin mishaps'[f] => wanted'[f].look = Pasting(f)'
               /\ wanted'[f].prio = Holds(f)'.prio
               /\ f = open.file => Same(Coming(f)', open.side)
    <3>1. /\ wanted[f].look.settings = Pasting(f).settings
          /\ "undone" \notin mishaps'[f] => wanted[f].look = Pasting(f)
          /\ wanted[f].prio = Holds(f).prio
      BY <1>2, <2>1, <2>4, Remembered
    <3>2. f # open.file => Same(Coming(f)', Coming(f))
      BY <1>2, <2>1, <2>4, ComingStep
    <3>3. f = open.file => Coming(f)' = open.side
      BY <2>2 DEF Coming, Saving
    <3>4. Pasting(f) = Holds(f).look /\ Pasting(f)' = Holds(f)'.look
      BY <1>2, <2>1, <2>3 DEF Pasting
    <3> QED
      BY <2>1, <3>1, <3>2, <3>3, <3>4 DEF Holds, Same
  <2> QED
    BY <1>1, <2>1, <2>2, <2>3, <2>4 DEF Kept, Agree
<1> QED
  BY <1>6, <1>7, <1>8, <1>9, <1>10, <1>11, <1>12 DEF UserStep

LEMMA KeptByLoad ==
  ASSUME Typed, Placed, SideFiles, [Next]_vars, Apart', ~ Crash, Kept, LoadSide(Main)
  PROVE  Kept'
<1> DEFINE g == frame[Main].file
<1>0. Main \in Threads /\ wanted' = wanted /\ ops' = ops
  BY Zenon DEF Threads, LoadSide, bounds
<1>1. /\ open \in PhotoType /\ (open.file = None => open = NoPhoto)
      /\ None \notin Photos /\ NoPhoto.file = None
  BY SMTT(60), NobodyIsNone, DefaultsType DEF Typed, Placed, MainPlaced
<1>2. /\ g \in Photos /\ Coming(g) = CacheLoad(g) /\ frame[Main].at = "load"
  BY <1>0, ComingLoaded DEF LoadSide, At
<1>3. ~ OpenOther
  BY <1>2 DEF OpenOther, Operation, At
<1>4. \A f \in Photos : \/ Unsaved(f)' \/ Same(Coming(f)', Coming(f))
                        \/ frame'[Main].at = "save_side" /\ f = frame'[Main].file
  BY <1>3, ComingStep
<1>5. \A f \in Photos : frame'[Main].at = "save_side" /\ f = frame'[Main].file =>
                           Coming(f)' = frame'[Main].side
  BY DEF Coming, Saving
<1>a. \A f \in Photos : ~ Unsaved(f)' /\ ~ PastePending(f) =>
        /\ wanted[f].look.settings = Holds(f).look.settings
        /\ "undone" \notin mishaps'[f] => wanted[f].look = Holds(f).look
        /\ FlagPending(f) => wanted[f].prio = frame[Main].value
        /\ ~ FlagPending(f) => wanted[f].prio = Holds(f).prio
  BY Remembered DEF Pasting
<1>b. \A f \in Photos : ~ PastePending(f)' => Pasting(f)' = Holds(f)'.look
  BY DEF Pasting
<1>6. CASE frame[Main].call = "open"
  <2>1. \A f \in Photos : ~ PastePending(f) /\ ~ FlagPending(f)
    BY <1>6 DEF PastePending, FlagPending
  <2>2. g # open.file
    BY <1>6 DEF Placed, MainPlaced
  <2>3. CASE open = NoPhoto /\ open' = Photo(g, CacheLoad(g)) /\ frame'[Main] = Idle
    <3>1. /\ open'.file = g /\ open'.side.look = CacheLoad(g).look
          /\ open'.side.prio = CacheLoad(g).prio
      BY <1>2, <2>3, PhotoIs, CacheLoadType
    <3>2. \A f \in Photos : Unsaved(f)' \/ Same(Coming(f)', Coming(f))
      BY <1>4, <2>3, IdleType
    <3>3. \A f \in Photos : ~ PastePending(f)' /\ ~ FlagPending(f)'
      BY <2>3, IdleType DEF PastePending, FlagPending
    <3>4. ASSUME NEW f \in Photos, ~ Unsaved(f)'
          PROVE  /\ wanted'[f].look.settings = Pasting(f)'.settings
                 /\ "undone" \notin mishaps'[f] => wanted'[f].look = Pasting(f)'
                 /\ wanted'[f].prio = Holds(f)'.prio
      <4>1. open.file # f
        BY <1>1, <2>3
      <4>2. Same(Holds(f)', Holds(f))
        BY <1>2, <3>1, <3>2, <3>4, <4>1 DEF Holds, Same
      <4> QED
        BY <1>0, <1>a, <1>b, <2>1, <3>3, <3>4, <4>2 DEF Same
    <3> QED
      BY <2>3, <3>3, <3>4, IdleType DEF Kept, Agree
  <2>4. CASE /\ open # NoPhoto /\ open' = open
             /\ frame'[Main].at = "save_side" /\ frame'[Main].call = "close"
             /\ frame'[Main].file = open.file /\ frame'[Main].side = open.side
             /\ frame'[Main].new = Photo(g, CacheLoad(g))
    <3>1. frame'[Main].new.file = g /\ Same(frame'[Main].new.side, CacheLoad(g))
      BY <1>2, <2>4, PhotoIs, CacheLoadType DEF Same
    <3>2. \A f \in Photos : ~ PastePending(f)' /\ ~ FlagPending(f)'
      BY <2>4 DEF PastePending, FlagPending
    <3>3. ASSUME NEW f \in Photos, ~ Unsaved(f)'
          PROVE  /\ wanted'[f].look.settings = Pasting(f)'.settings
                 /\ "undone" \notin mishaps'[f] => wanted'[f].look = Pasting(f)'
                 /\ wanted'[f].prio = Holds(f)'.prio
                 /\ f = open'.file => Same(Coming(f)', open'.side)
                 /\ f = frame'[Main].new.file => Same(Coming(f)', frame'[Main].new.side)
      <4>1. f # open.file => Same(Coming(f)', Coming(f))
        BY <1>4, <2>4, <3>3
      <4>2. f = open.file => Coming(f)' = open.side
        BY <1>5, <2>4
      <4>3. Same(Holds(f)', Holds(f))
        BY <2>4, <4>1, <4>2 DEF Holds, Same
      <4>4. f = open'.file => Same(Coming(f)', open'.side)
        BY <2>4, <4>2 DEF Same
      <4>5. f = g => Same(Coming(f)', CacheLoad(g))
        BY <1>2, <2>2, <4>1
      <4> QED
        BY <1>0, <1>a, <1>b, <2>1, <3>1, <3>2, <3>3, <4>3, <4>4, <4>5 DEF Same
    <3> QED
      BY <2>4, <3>2, <3>3 DEF Kept, Agree
  <2> QED
    BY <1>0, <1>6, <2>3, <2>4, LoadSideFrame
<1>7. CASE frame[Main].call = "paste"
  <2> DEFINE m == frame[Main]
             side == CacheLoad(g)
             got == PastedLook(g, m.parts, m.value)
             asked == Changed(side.look, m.parts, m.value)
  <2>1. /\ open' = open /\ frame'[Main].at = "save_side" /\ frame'[Main].call = "paste"
        /\ frame'[Main].file = g /\ frame'[Main].value = m.value
        /\ frame'[Main].parts = m.parts
        /\ frame'[Main].side.look = got
        /\ frame'[Main].side.prio = side.prio
    BY <1>0, <1>7, LoadSideFrame
  <2>2. \A f \in Photos : /\ PastePending(f) <=> f \in {g, open.file}
                          /\ PastePending(f)' <=> f = open.file
                          /\ ~ FlagPending(f) /\ ~ FlagPending(f)'
    BY <1>2, <1>7, <2>1 DEF PastePending, FlagPending, Reads, SavesThumb
  <2>3. got.settings = asked.settings
    <3>1. Overlaid(g, Changed(Untouched, m.parts, m.value)).settings = side.look.settings
      BY <1>2, CacheLoadType DEF Overlaid, Side, Look
    <3> QED
      BY <3>1 DEF PastedLook, Changed
  <2>4. open.file # g /\ "undone" \notin mishaps'[g] => got = asked
    <3>1. Undone(g, m.parts, m.value) => Mishap(g, "undone")
      BY <1>7, Zenon DEF LoadSide
    <3>2. Mishap(g, "undone") => "undone" \in mishaps'[g]
      BY <1>2, MishapIs DEF Mishaps
    <3> QED
      BY <3>1, <3>2 DEF Undone
  <2>5. ASSUME NEW f \in Photos, ~ Unsaved(f)'
        PROVE  /\ wanted'[f].look.settings = Pasting(f)'.settings
               /\ "undone" \notin mishaps'[f] => wanted'[f].look = Pasting(f)'
               /\ wanted'[f].prio = Holds(f)'.prio
    <3>1. /\ wanted[f].look.settings = Pasting(f).settings
          /\ "undone" \notin mishaps'[f] => wanted[f].look = Pasting(f)
          /\ wanted[f].prio = Holds(f).prio
      BY <2>2, <2>5, Remembered
    <3>2. f # g => Same(Coming(f)', Coming(f))
      BY <1>4, <2>1, <2>5
    <3>3. f = g => Coming(f)' = frame'[Main].side
      BY <1>5, <2>1
    <3>4. CASE f = open.file
      <4>1. Holds(f) = open.side /\ Holds(f)' = open.side
        BY <2>1, <3>4 DEF Holds
      <4>2. Pasting(f)' = Pasting(f)
        BY <2>1, <2>2, <3>4, <4>1 DEF Pasting
      <4> QED
        BY <1>0, <3>1, <4>1, <4>2
    <3>5. CASE f # open.file /\ f = g
      <4>1. Holds(f) = side /\ Holds(f)' = frame'[Main].side
        BY <1>2, <2>1, <3>3, <3>5 DEF Holds
      <4>2. Pasting(f) = asked /\ Pasting(f)' = got
        BY <2>1, <2>2, <3>5, <4>1 DEF Pasting
      <4> QED
        BY <1>0, <2>1, <2>3, <2>4, <3>1, <3>5, <4>1, <4>2
    <3>6. CASE f # open.file /\ f # g
      <4>1. Same(Holds(f)', Holds(f))
        BY <2>1, <3>2, <3>6 DEF Holds
      <4>2. Pasting(f) = Holds(f).look /\ Pasting(f)' = Holds(f)'.look
        BY <2>2, <3>6 DEF Pasting
      <4> QED
        BY <1>0, <3>1, <4>1, <4>2 DEF Same
    <3> QED
      BY <3>4, <3>5, <3>6
  <2> QED
    BY <2>1, <2>2, <2>5 DEF Kept, Agree
<1>8. CASE frame[Main].call \in {"flag", "flag_open"}
  <2>1. /\ open' = open /\ frame'[Main].at = "save_side"
        /\ frame'[Main].call = frame[Main].call
        /\ frame'[Main].file = g /\ frame'[Main].value = frame[Main].value
        /\ frame'[Main].side.look = CacheLoad(g).look
        /\ frame'[Main].side.prio = frame[Main].value
    BY <1>0, <1>8, LoadSideFrame
  <2>2. \A f \in Photos : /\ ~ PastePending(f) /\ ~ PastePending(f)'
                          /\ FlagPending(f) <=> frame[Main].call = "flag" /\ f = g
                          /\ FlagPending(f)' <=> /\ frame[Main].call = "flag" /\ f = g
                                                 /\ f = open.file
    BY <1>2, <1>8, <2>1 DEF PastePending, FlagPending, At
  <2>3. frame[Main].call = "flag_open" => g = open.file
    BY DEF Placed, MainPlaced
  <2>4. ASSUME NEW f \in Photos, ~ Unsaved(f)'
        PROVE  /\ wanted'[f].look.settings = Pasting(f)'.settings
               /\ "undone" \notin mishaps'[f] => wanted'[f].look = Pasting(f)'
               /\ FlagPending(f)' => wanted'[f].prio = frame'[Main].value
               /\ ~ FlagPending(f)' => wanted'[f].prio = Holds(f)'.prio
    <3>1. f # g => Same(Coming(f)', Coming(f))
      BY <1>4, <2>1, <2>4
    <3>2. f = g => Coming(f)' = frame'[Main].side
      BY <1>5, <2>1
    <3>3. Holds(f)'.look = Holds(f).look /\ (f # g => Holds(f)'.prio = Holds(f).prio)
      BY <1>2, <2>1, <3>1, <3>2 DEF Holds, Same
    <3>4. f = g /\ f = open.file => Holds(f)'.prio = Holds(f).prio
      BY <2>1 DEF Holds
    <3>5. f = g /\ f # open.file => Holds(f)'.prio = frame[Main].value
      BY <2>1, <3>2 DEF Holds
    <3>6. /\ wanted'[f].look.settings = Pasting(f)'.settings
          /\ "undone" \notin mishaps'[f] => wanted'[f].look = Pasting(f)'
      BY <1>0, <1>a, <1>b, <2>2, <2>4, <3>3
    <3>7. /\ FlagPending(f) => wanted[f].prio = frame[Main].value
          /\ ~ FlagPending(f) => wanted[f].prio = Holds(f).prio
      BY <1>a, <2>2, <2>4
    <3>8. CASE FlagPending(f)
      BY <1>0, <2>1, <2>2, <3>5, <3>6, <3>7, <3>8
    <3>9. CASE ~ FlagPending(f)
      BY <1>0, <1>8, <2>2, <2>3, <3>3, <3>4, <3>6, <3>7, <3>9
    <3> QED
      BY <3>8, <3>9
  <2> QED
    BY <1>8, <2>1, <2>4 DEF Kept, Agree
<1>9. CASE frame[Main].call = "regen"
  <2>1. /\ open' = open /\ frame'[Main].at # "save_side"
        /\ frame'[Main].call \in {"regen", "regen_render"}
    BY <1>0, <1>9, LoadSideFrame DEF SameCall
  <2>2. \A f \in Photos : Unpending(f) /\ Unpending(f)'
    BY <1>9, <2>1 DEF Unpending, PastePending, FlagPending
  <2> QED
    BY <1>0, <1>4, <2>1, <2>2, KeptFollows DEF Unpending
<1> QED
  <2>1. frame[Main].call # "export"
    BY <1>2 DEF Placed, MainPlaced, CallOfMain
  <2> QED
    BY <1>0, <1>6, <1>7, <1>8, <1>9, <2>1, LoadSideFrame

LEMMA KeptHolds ==
  ASSUME Typed, Placed, SideFiles, [Next]_vars, Apart', ~ Crash, Kept
  PROVE  Kept'
<1>1. CASE UserStep
  BY <1>1, KeptByUser
<1>2. CASE FileStep(Main)
  BY <1>2, KeptByFiles, KeptByLoad
<1>3. CASE Closed \/ Pasted \/ Flagged
  BY <1>3, KeptByClosed
<1>4. CASE \/ (\E f \in Photos : UnlinkMeta(f)) \/ UnlinkThumb \/ Closing \/ RefreshThumb
           \/ TakeRegen \/ RemoveSource \/ LockIo \/ CannotLoad \/ UnlockIo
  BY <1>4, KeptByHandlers
<1>5. CASE IoStep \/ FileStep(Exporter) \/ Tick \/ UNCHANGED vars
  <2>1. wanted' = wanted /\ ops' = ops
    BY <1>5, Zenon
       DEF IoStep, FileStep, MetaFails, SkipThumb, SideFails, ReadMeta, ReadThumb,
           BeginMeta, EndMeta, BeginThumb, EndThumb, LoadSide, BeginSide, EndSide,
           TakeJob, Check, Enqueue, Tick, vars, bounds, history
  <2>2. Main \in Threads /\ Io \in Threads /\ Exporter \in Threads /\ Main # Io
        /\ Main # Exporter
    BY ThreadsApart DEF Threads
  <2>3. open' = open /\ frame'[Main] = frame[Main]
    <3>1. CASE FileStep(Io) \/ FileStep(Exporter)
      BY <2>2, <3>1, OpenStays, FilePlaces DEF Others
    <3>2. CASE (\E f \in Photos : TakeJob(f)) \/ Check \/ Enqueue
      BY <2>2, <3>2, IoJobPlaced, ClockStep DEF Others
    <3>3. CASE Tick \/ UNCHANGED vars
      BY <3>3 DEF Tick, vars
    <3> QED
      BY <1>5, <3>1, <3>2, <3>3 DEF IoStep
  <2>4. ~ OpenOther
    BY <2>1 DEF OpenOther, Operation, Typed
  <2> QED
    BY <2>1, <2>3, <2>4, KeptByOthers
<1> QED
  BY <1>1, <1>2, <1>3, <1>4, <1>5 DEF Next, MainStep
-----------------------------------------------------------------------------
(* The thumbnails                                                          *)

(* Another photo is open only after the last one is closed.                *)
LEMMA OpenStep ==
  ASSUME Typed, Placed, [Next]_vars, ~ Crash
  PROVE  open'.file = open.file \/ Closed \/ (open = NoPhoto /\ LoadSide(Main))
<1>1. CASE UserStep
  <2>1. CASE Edit
    BY <2>1 DEF Edit, Typed, PhotoType
  <2>2. CASE ~ Edit
    BY <1>1, <2>2, Zenon DEF UserStep, OpenPhoto, Paste, SetPrio, OpenOther, Export,
       LoadDirectory, ClearCache
  <2> QED
    BY <2>1, <2>2
<1>2. ASSUME NEW t \in Threads, FileStep(t)
      PROVE  open'.file = open.file \/ (open = NoPhoto /\ LoadSide(Main))
  <2>1. CASE t = Main /\ LoadSide(t)
    BY <2>1, LoadSideFrame
  <2>2. CASE t # Main \/ ~ LoadSide(t)
    BY <1>2, <2>2, OpenStays
  <2> QED
    BY <2>1, <2>2
<1>3. CASE Pasted \/ Flagged
  BY <1>3 DEF Pasted, Flagged, Typed, PhotoType
<1>4. CASE \/ (\E f \in Photos : UnlinkMeta(f)) \/ UnlinkThumb \/ Closing \/ RefreshThumb
           \/ TakeRegen \/ RemoveSource \/ LockIo \/ CannotLoad \/ UnlockIo
           \/ (\E f \in Photos : TakeJob(f)) \/ Check \/ Enqueue \/ Tick \/ UNCHANGED vars
  BY <1>4, Zenon
     DEF UnlinkMeta, UnlinkThumb, Closing, RefreshThumb, TakeRegen, RemoveSource, LockIo,
         CannotLoad, UnlockIo, TakeJob, Check, Enqueue, Tick, vars
<1> QED
  BY <1>1, <1>2, <1>3, <1>4 DEF Next, MainStep, IoStep, Threads

(* Closing the photo begins with its sidecar.                              *)
LEMMA CloseStep ==
  ASSUME Typed, Placed, [Next]_vars, ~ Crash, frame'[Main].call = "close"
  PROVE  \/ frame[Main].call = "close"
         \/ frame'[Main].at = "save_side" /\ frame'[Main].file = open.file
<1>0. Main \in Threads /\ Io \in Threads /\ Exporter \in Threads /\ Main # Io /\ Main # Exporter
  BY ThreadsApart DEF Threads
<1>1. CASE UserStep
  <2>1. CASE OpenOther
    BY <2>1, OpenOtherFrame DEF Entered
  <2>2. CASE LoadDirectory \/ Edit
    BY <2>2, Zenon DEF LoadDirectory, Edit
  <2>3. CASE ClearCache
    BY <2>3, ClearFrame DEF Entered
  <2>4. CASE Export
    BY <1>0, <2>4, ExportFrame DEF Entered, Others
  <2>5. ASSUME NEW f \in Photos, OpenPhoto(f) \/ Paste(f) \/ SetPrio(f)
        PROVE  FALSE
    BY <2>5, OpenFrame, PasteFrame, SetPrioFrame DEF Entered
  <2> QED
    BY <1>1, <2>1, <2>2, <2>3, <2>4, <2>5, Zenon DEF UserStep
<1>2. CASE FileStep(Main)
  <2>1. CASE ReadMeta(Main) \/ ReadThumb(Main)
    BY <1>0, <2>1, ReadMetaFrame, ReadThumbFrame
  <2>2. CASE BeginMeta(Main) \/ EndMeta(Main) \/ MetaFails(Main) \/ BeginThumb(Main)
             \/ BeginSide(Main)
    BY <1>0, <2>2, BegunMeta, EndedMeta, FailedMeta, BegunThumb, BegunSide DEF SameCall
  <2>3. CASE EndThumb(Main) \/ SkipThumb(Main) \/ EndSide(Main) \/ SideFails(Main)
    BY <1>0, <2>3, EndThumbFrame, EndSideFrame, IdleType DEF SameCall
  <2>4. CASE LoadSide(Main)
    BY <1>0, <2>4, LoadSideFrame, IdleType DEF SameCall
  <2> QED
    BY <1>2, <2>1, <2>2, <2>3, <2>4 DEF FileStep
<1>3. CASE FileStep(Io) \/ FileStep(Exporter)
  BY <1>0, <1>3, FilePlaces DEF Others
<1>4. CASE (\E f \in Photos : TakeJob(f)) \/ Check \/ Enqueue
  BY <1>0, <1>4, IoJobPlaced, ClockStep DEF Others
<1>5. CASE Tick \/ UNCHANGED vars
  BY <1>5 DEF Tick, vars
<1>6. CASE \E f \in Photos : UnlinkMeta(f)
  BY <1>6, UnlinkFrame
<1>7. CASE UnlinkThumb
  <2>1. Return(Main) \/ Goto(Main, "unlink")
    BY <1>7, Zenon DEF UnlinkThumb
  <2> QED
    BY <1>0, <2>1, FramesTyped, Returning, Going, IdleType DEF SameCall, Places
<1>8. CASE Closing
  BY <1>8, ClosingFrame
<1>9. CASE RefreshThumb
  BY <1>9, RefreshFrame DEF Entered
<1>10. CASE TakeRegen
  BY <1>10, TakeRegenFrame DEF Entered, SameCall
<1>11. CASE RemoveSource \/ UnlockIo \/ Closed \/ Pasted
  <2>1. Return(Main)
    BY <1>11, Zenon DEF RemoveSource, UnlockIo, Closed, Pasted
  <2> QED
    BY <1>0, <2>1, FramesTyped, Returning, IdleType
<1>12. CASE LockIo
  <2>1. Goto(Main, "meta") /\ "meta" \in Places
    BY <1>12 DEF LockIo, Places, Reads
  <2> QED
    BY <1>0, <2>1, FramesTyped, Going DEF SameCall
<1>13. CASE Flagged
  BY <1>13, FlaggedFrame, IdleType
<1>14. CASE CannotLoad
  <2>1. Goto(Main, "unlock") \/ Return(Main)
    BY <1>14, Zenon DEF CannotLoad
  <2> QED
    BY <1>0, <2>1, FramesTyped, Returning, Going, IdleType DEF SameCall, Places
<1> QED
  BY <1>14, <1>1, <1>2, <1>3, <1>4, <1>5, <1>6, <1>7, <1>8, <1>9, <1>10, <1>11, <1>12,
     <1>13
     DEF Next, MainStep, IoStep

(* Only the saving of a sidecar makes somebody ask for the thumbnail.      *)
LEMMA LooseStays ==
  ASSUME Typed, Placed, [Next]_vars, ~ Crash, ~ BeginSide(Main), NEW f \in Photos, Loose(f)
  PROVE  Loose(f)' \/ Unsaved(f)'
<1>0. Main \in Threads
  BY DEF Threads
<1>1. CASE frame[Main].at = "save_side" /\ frame[Main].file = f
  <2>1. frame'[Main] = frame[Main] \/ SideFails(Main)
    BY <1>0, <1>1, SaveSteps DEF LoadSide, EndSide, OpenOther, Operation, At, SavesSide
  <2> QED
    BY SMTT(60), <1>0, <1>1, <2>1, FailedSide DEF Loose, At
<1>2. CASE open.file = f /\ frame[Main].call # "close"
  <2>1. open # NoPhoto
    BY <1>2, NobodyIsNone, DefaultsType
  <2>2. ~ Closed
    BY <1>2 DEF Closed, At, Placed, MainPlaced, CallOfMain, Reads, SavesThumb, SavesSide
  <2>3. open'.file = f
    BY <1>2, <2>1, <2>2, OpenStep
  <2>4. \/ frame'[Main].call # "close"
        \/ frame'[Main].at = "save_side" /\ frame'[Main].file = f
    BY <1>2, CloseStep
  <2> QED
    BY <2>3, <2>4 DEF Loose, At
<1> QED
  BY <1>1, <1>2 DEF Loose, At

LEMMA RendersHold ==
  ASSUME Typed, Placed, SideFiles, [Next]_vars, Apart', ~ Crash, Kept, Shown, NEW f \in Photos
  PROVE  Renders(f)'
<1>0. Main \in Threads /\ Io \in Threads /\ Exporter \in Threads /\ Main # Io /\ Main # Exporter
  BY ThreadsApart DEF Threads
<1>1. SUFFICES ASSUME frame'[Main].call \in {"close", "regen_render"},
                      frame'[Main].at \in SavesThumb, frame'[Main].file = f,
                      ~ Unsaved(f)'
               PROVE  frame'[Main].thumb = Coming(f)'.look
  BY DEF Renders
<1>2. Coming(f)'.look = Coming(f).look
  <2>1. ~ OpenOther /\ ~ (LoadSide(Main) /\ frame'[Main].at = "save_side")
    BY <1>1, OpenOtherFrame DEF Entered, SavesThumb
  <2> QED
    BY <1>1, <2>1, ComingStep DEF Same
<1>3. CASE /\ frame'[Main].call = frame[Main].call /\ frame'[Main].file = frame[Main].file
           /\ frame'[Main].thumb = frame[Main].thumb /\ frame[Main].at \in SavesThumb
  <2>1. ~ Unsaved(f)
    BY <1>1, MishapsStep DEF Unsaved
  <2> QED
    BY <1>1, <1>2, <1>3, <2>1 DEF Shown, Renders
<1>4. CASE frame'[Main] = frame[Main]
  BY <1>1, <1>3, <1>4
<1>5. CASE UserStep
  <2>1. CASE OpenOther
    BY <1>1, <2>1, OpenOtherFrame DEF Entered, SavesThumb
  <2>2. CASE LoadDirectory \/ Edit
    BY <1>4, <2>2, Zenon DEF LoadDirectory, Edit
  <2>3. CASE ClearCache
    BY <1>1, <2>3, ClearFrame DEF Entered
  <2>4. CASE Export
    BY <1>0, <1>4, <2>4, ExportFrame DEF Entered, Others
  <2>5. ASSUME NEW g \in Photos, OpenPhoto(g) \/ Paste(g) \/ SetPrio(g)
        PROVE  FALSE
    BY <1>1, <2>5, OpenFrame, PasteFrame, SetPrioFrame DEF Entered
  <2> QED
    BY <1>5, <2>1, <2>2, <2>3, <2>4, <2>5, Zenon DEF UserStep
<1>6. CASE FileStep(Main)
  <2>1. CASE ReadMeta(Main) \/ ReadThumb(Main)
    <3>1. frame[Main].at \in {"meta", "thumb"} /\ frame'[Main].call = frame[Main].call
      BY <1>0, <2>1, ReadMetaFrame, ReadThumbFrame DEF ReadMeta, ReadThumb, At
    <3> QED
      BY <1>1, <3>1 DEF Placed, MainPlaced, CallOfMain, SavesThumb, SavesSide
  <2>2. CASE BeginMeta(Main) \/ EndMeta(Main) \/ MetaFails(Main) \/ BeginThumb(Main)
    BY <1>0, <1>3, <2>2, BegunMeta, EndedMeta, FailedMeta, BegunThumb
       DEF SameCall, At, SavesThumb
  <2>3. CASE BeginSide(Main)
    BY <1>0, <1>1, <2>3, BegunSide DEF SavesThumb
  <2>4. CASE EndSide(Main) \/ SideFails(Main)
    BY <1>0, <1>1, <2>4, SideDone DEF SavesThumb
  <2>5. CASE EndThumb(Main) \/ SkipThumb(Main)
    BY <1>0, <1>1, <2>5, EndThumbFrame, IdleType
       DEF SavesThumb, AfterSave, AfterMetadata, SameCall
  <2>6. CASE LoadSide(Main)
    <3>1. frame[Main].call = "regen" /\ frame'[Main].file = frame[Main].file
          /\ frame'[Main].thumb = CacheLoad(frame[Main].file).look
      BY <1>0, <1>1, <2>6, LoadSideFrame, IdleType DEF SavesThumb, SameCall
    <3>2. Coming(f) = CacheLoad(f)
      BY <1>0, <1>1, <2>6, <3>1, ComingLoaded
    <3> QED
      BY <1>1, <1>2, <3>1, <3>2
  <2> QED
    BY <1>6, <2>1, <2>2, <2>3, <2>4, <2>5, <2>6 DEF FileStep
<1>7. CASE FileStep(Io) \/ FileStep(Exporter)
  BY <1>0, <1>4, <1>7, FilePlaces DEF Others
<1>8. CASE (\E g \in Photos : TakeJob(g)) \/ Check \/ Enqueue
  BY <1>0, <1>4, <1>8, IoJobPlaced, ClockStep DEF Others
<1>9. CASE Tick \/ UNCHANGED vars
  BY <1>4, <1>9 DEF Tick, vars
<1>10. CASE Closing
  <2>1. frame[Main].call = "close"
    BY <1>10 DEF Closing, At, Placed, MainPlaced, CallOfMain, Reads, SavesThumb, SavesSide
  <2>2. frame[Main].file = f /\ open.file = f /\ frame'[Main].thumb = open.side.look
    BY <1>1, <1>10, <2>1, ClosingFrame DEF Placed, MainPlaced, SavesThumb
  <2>3. Coming(f).look = open.side.look
    BY <1>1, <2>1, <2>2, Remembered DEF Same
  <2> QED
    BY <1>2, <2>2, <2>3
<1>11. CASE \/ (\E g \in Photos : UnlinkMeta(g)) \/ UnlinkThumb \/ Closed \/ Pasted \/ Flagged
            \/ LockIo \/ CannotLoad \/ UnlockIo
  <2>1. CASE \E g \in Photos : UnlinkMeta(g)
    BY <1>1, <2>1, UnlinkFrame DEF SavesThumb
  <2>2. CASE UnlinkThumb \/ Closed \/ Pasted \/ CannotLoad \/ UnlockIo
    <3>1. Return(Main) \/ Goto(Main, "unlink") \/ Goto(Main, "unlock")
      BY <2>2, Zenon DEF UnlinkThumb, Closed, Pasted, CannotLoad, UnlockIo
    <3> QED
      BY <1>0, <1>1, <3>1, FramesTyped, Returning, Going, IdleType DEF Places, SavesThumb
  <2>3. CASE Flagged
    BY <1>1, <2>3, FlaggedFrame, IdleType DEF SavesThumb
  <2>4. CASE LockIo
    <3>1. Goto(Main, "meta") /\ "meta" \in Places
      BY <2>4 DEF LockIo, Places, Reads
    <3> QED
      BY <1>0, <1>1, <3>1, FramesTyped, Going DEF SavesThumb
  <2> QED
    BY <1>11, <2>1, <2>2, <2>3, <2>4
<1>12. CASE RefreshThumb
  BY <1>1, <1>4, <1>12, RefreshFrame DEF Entered
<1>13. CASE TakeRegen \/ RemoveSource
  <2>1. CASE TakeRegen
    BY <1>1, <2>1, TakeRegenFrame DEF Entered, SavesThumb
  <2>2. CASE RemoveSource
    BY <1>0, <1>1, <2>2, FramesTyped, Returning, IdleType DEF RemoveSource
  <2> QED
    BY <1>13, <2>1, <2>2
<1> QED
  BY <1>5, <1>6, <1>7, <1>8, <1>9, <1>10, <1>11, <1>12, <1>13 DEF Next, MainStep, IoStep

LEMMA ShownHolds ==
  ASSUME Typed, Placed, ThumbFiles, SideFiles, [Next]_vars, Apart', ~ Crash, Kept, Shown
  PROVE  Shown'
<1>0. Main \in Threads /\ Apart
  BY ApartStep DEF Threads
<1> SUFFICES ASSUME NEW f \in Photos, ~ Loose(f)', ~ Unsaved(f)'
             PROVE  Shows(f)'
  BY RendersHold DEF Shown, Shows
<1>u. ~ Unsaved(f)
  BY MishapsStep DEF Unsaved
<1>1. CASE \E t \in Threads : (BeginSide(t) \/ EndSide(t)) /\ frame[t].file = f
  <2>1. PICK t \in Threads : (BeginSide(t) \/ EndSide(t)) /\ frame[t].file = f
    BY <1>1
  <2>2. thumb' = thumb /\ thumb[f].time <= now /\ thumb[f].time \in Nat /\ now \in Nat
    <3>1. thumb' = thumb
      BY <2>1, Zenon DEF BeginSide, EndSide
    <3>2. thumb[f].time <= now /\ thumb[f].time \in Nat
      BY FilesOf DEF ThumbFiles
    <3> QED
      BY <3>1, <3>2 DEF Typed
  <2>3. sidecar'[f].time = now
    <3>1. CASE BeginSide(t)
      <4>1. sidecar'[f] = Truncated(sidecar[f], t)
        BY <2>1, <3>1, BegunSide
      <4> QED
        BY <4>1 DEF Truncated
    <3>2. CASE EndSide(t)
      BY <1>0, <2>1, <3>2, SideSaved
    <3> QED
      BY <2>1, <3>1, <3>2
  <2> QED
    BY <2>2, <2>3 DEF Shows
<1>2. CASE ~ (\E t \in Threads : (BeginSide(t) \/ EndSide(t)) /\ frame[t].file = f)
  <2>1. sidecar'[f] = sidecar[f]
    BY <1>2, SidecarStep, BegunSide, EndedSide
  <2>2. ~ Loose(f)
    <3>1. CASE BeginSide(Main)
      <4>1. frame[Main].file # f /\ frame'[Main].call = frame[Main].call /\ open' = open
        BY <1>0, <1>2, <3>1, BegunSide DEF SameCall, BeginSide
      <4> QED
        BY <4>1 DEF Loose, At
    <3>2. CASE ~ BeginSide(Main)
      BY <3>2, LooseStays
    <3> QED
      BY <3>1, <3>2
  <2>3. Coming(f)'.look = Coming(f).look
    <3>1. ~ (LoadSide(Main) /\ frame'[Main].at = "save_side" /\ f = frame'[Main].file)
      BY DEF Loose, At
    <3>2. ~ (OpenOther /\ f = open.file)
      BY OpenOtherFrame DEF Loose, At, Entered
    <3> QED
      BY <3>1, <3>2, ComingStep DEF Same
  <2>4. CASE thumb'[f] = thumb[f]
    BY <1>u, <2>1, <2>2, <2>3, <2>4 DEF Shown, Shows
  <2>5. ASSUME NEW t \in Threads, BeginThumb(t), frame[t].file = f
        PROVE  Shows(f)'
    <3>1. thumb'[f] = Truncated(thumb[f], t)
      BY <2>5, BegunThumb
    <3>2. thumb'[f].data = Torn
      BY <3>1 DEF Truncated
    <3> QED
      BY <3>2 DEF Shows
  <2>6. ASSUME NEW t \in Threads, EndThumb(t), frame[t].file = f
        PROVE  Shows(f)'
    <3>a. PICK data \in {frame[t].thumb, Torn} : thumb'[f] \in Written(thumb[f], t, data)
      BY <2>6, EndedThumb
    <3>1. frame[t].at = "write_thumb"
      BY <2>6, EndedThumb DEF At
    <3>2. Marked(thumb[f]) /\ ~ Mixed(thumb[f])
      BY <1>0, FilesOf, Zenon DEF ThumbFiles
    <3>3. \/ thumb'[f] = thumb[f]
          \/ thumb'[f].data \in {frame[t].thumb, Torn}
      BY <3>a, <3>2, WrittenFile
    <3>4. CASE frame[t].thumb = Camera \/ frame[t].thumb = Coming(f).look
      BY <2>3, <2>4, <3>3, <3>4 DEF Shows
    <3>5. t # Exporter
      BY <3>1 DEF Placed, ExporterPlaced, CallOfExporter, SavesSide
    <3>6. CASE t = Io
      BY <3>1, <3>4, <3>6
         DEF Placed, IoPlaced, CallOfIo, Busy, Reads, SavesThumb
    <3>7. CASE t = Main
      <4>1. frame[Main].call \in {"open", "paste", "regen", "close", "regen_render", "timer"}
        BY <3>1, <3>7 DEF Placed, MainPlaced, CallOfMain, SavesSide
      <4>2. CASE frame[Main].call \in {"open", "paste", "regen"}
        BY <3>1, <3>4, <3>7, <4>2 DEF Placed, MainPlaced, Busy, Reads, SavesThumb
      <4>3. CASE frame[Main].call \in {"close", "regen_render"}
        BY <1>u, <2>6, <3>1, <3>4, <3>7, <4>3 DEF Shown, Renders, SavesThumb
      <4>4. CASE frame[Main].call = "timer"
        <5>1. open' = open /\ open.file = f
          BY <2>6, <3>7, <4>4, Zenon DEF EndThumb, Placed, MainPlaced
        <5>2. frame'[Main].call # "close"
          BY <1>0, <2>6, <3>7, <4>4, EndThumbFrame, IdleType DEF SameCall
        <5> QED
          BY <5>1, <5>2 DEF Loose
      <4> QED
        BY <4>1, <4>2, <4>3, <4>4
    <3> QED
      BY <3>5, <3>6, <3>7 DEF Threads
  <2>7. CASE UnlinkThumb
    <3>1. thumb' = [thumb EXCEPT ![frame[Main].file] = Absent]
      BY <2>7, Zenon DEF UnlinkThumb
    <3>2. thumb'[f] = thumb[f] \/ thumb'[f].data = None
      BY <3>1, AbsentType DEF Typed, TypeOK
    <3> QED
      BY <2>4, <3>2 DEF Shows
  <2>8. CASE \E t \in Threads : (BeginThumb(t) \/ EndThumb(t)) /\ frame[t].file # f
    BY <2>4, <2>8, BegunThumb, EndedThumb
  <2> QED
    BY <2>4, <2>5, <2>6, <2>7, <2>8, ThumbStep
<1> QED
  BY <1>1, <1>2
-----------------------------------------------------------------------------
(* What a load mends                                                       *)

(* A thread about to save metadata goes on with it.                        *)
LEMMA Metas ==
  ASSUME Typed, Placed, [Next]_vars, NEW t \in Threads
  PROVE  \/ frame'[t] = frame[t]
         \/ BeginMeta(t) \/ EndMeta(t) \/ MetaFails(t)
         \/ BeginThumb(t) \/ EndThumb(t) \/ SkipThumb(t)
         \/ frame[t].at \notin SavesThumb
         \/ Crash
<1> USE DEF SavesThumb
<1>1. ASSUME NEW u \in Threads, FileStep(u)
      PROVE  \/ frame'[t] = frame[t]
             \/ BeginMeta(t) \/ EndMeta(t) \/ MetaFails(t)
             \/ BeginThumb(t) \/ EndThumb(t) \/ SkipThumb(t)
             \/ frame[t].at \notin SavesThumb
  <2>1. CASE u # t
    BY <1>1, <2>1, FilePlaces DEF Others
  <2>2. CASE u = t
    BY <1>1, <2>2
       DEF FileStep, ReadMeta, ReadThumb, LoadSide, BeginSide, EndSide, SideFails, At
  <2> QED
    BY <2>1, <2>2
<1>2. CASE UserStep
  BY <1>2, UserPlaces DEF Others
<1>3. CASE \/ (\E f \in Photos : UnlinkMeta(f)) \/ UnlinkThumb
           \/ Closing \/ Closed \/ Pasted \/ Flagged \/ RefreshThumb
           \/ TakeRegen \/ RemoveSource \/ LockIo \/ CannotLoad \/ UnlockIo
  <2>1. Others(Main)
    BY <1>3, HandlerPlaced, ClockStep
  <2>2. frame[Main].at \notin SavesThumb
    BY <1>3, Zenon
       DEF UnlinkMeta, UnlinkThumb, Closing, Closed, Pasted, Flagged, RefreshThumb,
           TakeRegen, RemoveSource, LockIo, CannotLoad, UnlockIo, At
  <2> QED
    BY <2>1, <2>2 DEF Others
<1>4. CASE (\E f \in Photos : TakeJob(f)) \/ Check \/ Enqueue
  <2>1. Others(Io)
    BY <1>4, IoJobPlaced, ClockStep
  <2>2. frame[Io].at \notin SavesThumb
    BY <1>4, Zenon DEF TakeJob, Check, Enqueue, At
  <2> QED
    BY <2>1, <2>2 DEF Others
<1>5. CASE Tick \/ UNCHANGED vars
  BY <1>5 DEF Tick, vars
<1> QED
  BY <1>1, <1>2, <1>3, <1>4, <1>5 DEF Next, MainStep, IoStep, Threads

LEMMA MetaGoodStays ==
  ASSUME Typed, Placed, MetaFiles, [Next]_vars, ~ Crash, NEW f \in Photos, MetaGood(f)
  PROVE  MetaGood(f)' \/ UnlinkMeta(f)
<1>0. ASSUME Uncached(f) PROVE Uncached(f)'
  BY <1>0, MishapsStep DEF Uncached
<1>1. CASE meta'[f] = meta[f]
  <2>0. CASE Uncached(f)
    BY <1>0, <2>0 DEF MetaGood
  <2>1. CASE Readable(meta[f])
    BY <1>1, <2>1 DEF MetaGood, Readable
  <2>2. ASSUME NEW t \in Threads, frame[t].file = f,
               At(t, "save_meta") \/ (At(t, "write_meta") /\ t \in meta[f].by)
        PROVE  MetaGood(f)'
    <3>1. CASE frame'[t] = frame[t]
      BY <1>1, <2>2, <3>1 DEF MetaGood, At
    <3>2. CASE BeginMeta(t)
      <4>1. meta'[f] = Truncated(meta[f], t) /\ frame'[t].at = "write_meta" /\ frame'[t].file = f
        BY <2>2, <3>2, BegunMeta DEF SameCall
      <4>2. t \in meta'[f].by
        BY <4>1 DEF Truncated
      <4> QED
        BY <4>1, <4>2 DEF MetaGood, At
    <3>3. CASE EndMeta(t)
      <4>1. PICK data \in {frame[t].rendered, Torn} :
               meta'[f] \in Written(meta[f], t, data) /\ t \in meta[f].by
        BY <2>2, <3>3, EndedMeta DEF At
      <4>2. meta'[f].by = meta[f].by \ {t}
        <5>1. Marked(meta[f])
          BY FilesOf, Zenon
        <5> QED
          BY <4>1, <5>1, WrittenFile
      <4> QED
        BY <1>1, <4>1, <4>2
    <3>4. BeginThumb(t) \/ EndThumb(t) \/ SkipThumb(t) => FALSE
      BY <2>2 DEF BeginThumb, EndThumb, SkipThumb, At
    <3>5. CASE MetaFails(t)
      BY <2>2, <3>5, FailedMeta DEF MetaGood, Uncached
    <3> QED
      BY <2>2, <3>1, <3>2, <3>3, <3>4, <3>5, Metas DEF At, SavesThumb
  <2> QED
    BY <2>0, <2>1, <2>2 DEF MetaGood
<1>2. ASSUME NEW t \in Threads, BeginMeta(t), frame[t].file = f PROVE MetaGood(f)'
  <2>1. meta'[f] = Truncated(meta[f], t) /\ frame'[t].at = "write_meta" /\ frame'[t].file = f
    BY <1>2, BegunMeta DEF SameCall
  <2>2. t \in meta'[f].by
    BY <2>1 DEF Truncated
  <2> QED
    BY <2>1, <2>2 DEF MetaGood, At
<1>3. ASSUME NEW t \in Threads, EndMeta(t), frame[t].file = f
      PROVE  MetaGood(f)' \/ UnlinkMeta(f)
  <2>1. PICK data \in {frame[t].rendered, Torn} :
           /\ meta'[f] \in Written(meta[f], t, data)
           /\ data = Torn => "uncached" \in mishaps'[f]
    BY <1>3, EndedMeta
  <2>2. frame[t].rendered \in BOOLEAN
    BY <1>3, EndedMeta, Zenon
  <2>3. Marked(meta[f]) /\ ~ Mixed(meta[f])
    BY FilesOf, Zenon DEF MetaFiles
  <2>4. meta'[f] = meta[f] \/ meta'[f].data = data
    BY <2>1, <2>3, WrittenFile
  <2>5. frame[t].rendered \notin {None, Torn}
    BY <2>2, MarksApart, Zenon
  <2>6. CASE meta'[f].data = frame[t].rendered
    BY <2>5, <2>6 DEF MetaGood, Readable
  <2>7. CASE data = Torn
    BY <2>1, <2>7 DEF MetaGood, Uncached
  <2> QED
    BY <1>1, <2>4, <2>6, <2>7
<1>4. CASE \E t \in Threads : (BeginMeta(t) \/ EndMeta(t)) /\ frame[t].file # f
  BY <1>1, <1>4, BegunMeta, EndedMeta
<1>5. CASE \E g \in Photos : UnlinkMeta(g)
  <2>1. PICK g \in Photos : UnlinkMeta(g)
    BY <1>5
  <2>2. meta' = [meta EXCEPT ![g] = Absent]
    BY <2>1, Zenon DEF UnlinkMeta
  <2>3. g # f => meta'[f] = meta[f]
    BY <2>2 DEF Typed, TypeOK
  <2> QED
    BY <1>1, <2>1, <2>3
<1> QED
  BY <1>1, <1>2, <1>3, <1>4, <1>5, MetaStep

(* The same of the thumbnail.                                              *)
LEMMA ThumbGoodStays ==
  ASSUME Typed, Placed, ThumbFiles, [Next]_vars, ~ Crash, Apart, NEW f \in Photos, ThumbGood(f)
  PROVE  ThumbGood(f)' \/ (UnlinkThumb /\ frame[Main].file = f)
<1>0. ASSUME f \in bare \/ Uncached(f) PROVE (f \in bare \/ Uncached(f))'
  BY <1>0, MishapsStep, ClockStep DEF Uncached
<1>1. CASE thumb'[f] = thumb[f]
  <2>0. CASE f \in bare \/ Uncached(f)
    BY <1>0, <2>0 DEF ThumbGood
  <2>1. CASE Readable(thumb[f])
    BY <1>1, <2>1 DEF ThumbGood, Readable
  <2>2. ASSUME NEW t \in Threads, frame[t].file = f,
               \/ frame[t].at \in {"save_meta", "write_meta", "save_thumb"}
               \/ At(t, "write_thumb") /\ t \in thumb[f].by
        PROVE  ThumbGood(f)'
    <3>1. CASE frame'[t] = frame[t]
      BY <1>1, <2>2, <3>1 DEF ThumbGood, At
    <3>2. CASE BeginMeta(t)
      BY <2>2, <3>2, BegunMeta DEF SameCall, ThumbGood
    <3>3. CASE EndMeta(t)
      BY <2>2, <3>3, EndedMeta DEF SameCall, ThumbGood
    <3>4. CASE BeginThumb(t)
      <4>1. thumb'[f] = Truncated(thumb[f], t) /\ frame'[t].at = "write_thumb" /\ frame'[t].file = f
        BY <2>2, <3>4, BegunThumb DEF SameCall
      <4>2. t \in thumb'[f].by
        BY <4>1 DEF Truncated
      <4> QED
        BY <4>1, <4>2 DEF ThumbGood, At
    <3>5. CASE EndThumb(t)
      <4>1. PICK data \in {frame[t].thumb, Torn} :
               thumb'[f] \in Written(thumb[f], t, data) /\ t \in thumb[f].by
        BY <2>2, <3>5, EndedThumb DEF At
      <4>2. Marked(thumb[f])
        BY FilesOf, Zenon
      <4>3. thumb'[f].by = thumb[f].by \ {t}
        BY <4>1, <4>2, WrittenFile
      <4> QED
        BY <1>1, <4>1, <4>3
    <3>6. CASE MetaFails(t)
      BY <2>2, <3>6, FailedMeta DEF SameCall, ThumbGood
    <3>7. CASE SkipThumb(t)
      <4>1. CASE frame[t].thumb = None
        <5>1. frame[t].at = "save_thumb"
          BY <3>7 DEF SkipThumb, At
        <5>2. f \in bare
          BY <2>2, <4>1, <5>1
             DEF Placed, MainPlaced, IoPlaced, ExporterPlaced, Busy, Threads, SavesThumb
        <5> QED
          BY <1>0, <5>2 DEF ThumbGood
      <4>2. CASE frame[t].thumb # None
        <5>1. SaveFails(f, "uncached")
          BY <2>2, <3>7, <4>2, Zenon DEF SkipThumb
        <5> QED
          BY <5>1, SaveFailed DEF Mishaps, ThumbGood, Uncached
      <4> QED
        BY <4>1, <4>2
    <3> QED
      BY <2>2, <3>1, <3>2, <3>3, <3>4, <3>5, <3>6, <3>7, Metas DEF At, SavesThumb
  <2> QED
    BY <2>0, <2>1, <2>2 DEF ThumbGood
<1>2. ASSUME NEW t \in Threads, BeginThumb(t), frame[t].file = f PROVE ThumbGood(f)'
  <2>1. thumb'[f] = Truncated(thumb[f], t) /\ frame'[t].at = "write_thumb" /\ frame'[t].file = f
    BY <1>2, BegunThumb DEF SameCall
  <2>2. t \in thumb'[f].by
    BY <2>1 DEF Truncated
  <2> QED
    BY <2>1, <2>2 DEF ThumbGood, At
<1>3. ASSUME NEW t \in Threads, EndThumb(t), frame[t].file = f
      PROVE  ThumbGood(f)' \/ (UnlinkThumb /\ frame[Main].file = f)
  <2>1. PICK data \in {frame[t].thumb, Torn} :
           /\ thumb'[f] \in Written(thumb[f], t, data)
           /\ data = Torn => "uncached" \in mishaps'[f]
    BY <1>3, EndedThumb
  <2>2. frame[t].thumb \in Look \cup {Camera}
    BY <1>3, EndedThumb, Zenon
  <2>3. Marked(thumb[f]) /\ ~ Mixed(thumb[f])
    BY FilesOf, Zenon DEF ThumbFiles
  <2>4. thumb'[f] = thumb[f] \/ thumb'[f].data = data
    BY <2>1, <2>3, WrittenFile
  <2>5. frame[t].thumb \notin {None, Torn}
    BY <2>2, MarksApart
  <2>6. CASE thumb'[f].data = frame[t].thumb
    BY <2>5, <2>6 DEF ThumbGood, Readable
  <2>7. CASE data = Torn
    BY <2>1, <2>7 DEF ThumbGood, Uncached
  <2> QED
    BY <1>1, <2>4, <2>6, <2>7
<1>4. CASE \E t \in Threads : (BeginThumb(t) \/ EndThumb(t)) /\ frame[t].file # f
  BY <1>1, <1>4, BegunThumb, EndedThumb
<1>5. CASE UnlinkThumb
  <2>1. thumb' = [thumb EXCEPT ![frame[Main].file] = Absent]
    BY <1>5, Zenon DEF UnlinkThumb
  <2>2. frame[Main].file # f => thumb'[f] = thumb[f]
    BY <2>1 DEF Typed, TypeOK
  <2> QED
    BY <1>1, <1>5, <2>2
<1> QED
  BY <1>1, <1>2, <1>3, <1>4, <1>5, ThumbStep

(* A photo whose files are deleted is loaded again.                        *)
LEMMA AgainStays ==
  ASSUME Typed, Placed, [Next]_vars, ~ Crash, NEW f \in Photos, Again(f)
  PROVE  Again(f)' \/ TakeJob(f)
<1>0. Main \in Threads
  BY DEF Threads
<1>1. CASE jobs' = jobs /\ frame'[Main] = frame[Main]
  BY <1>1 DEF Again
<1>2. CASE UserStep
  <2>1. jobs' = jobs \/ jobs' = Photos
    BY <1>2, Zenon
       DEF UserStep, OpenPhoto, Paste, SetPrio, OpenOther, Edit, Export, LoadDirectory,
           ClearCache, Reload
  <2>2. f \in jobs => Again(f)'
    BY <2>1 DEF Again
  <2>3. CASE frame[Main].at \in {"unlink", "unlink_thumb"}
    <3>1. frame'[Main] = frame[Main]
      BY <1>0, <1>2, <2>3, UserPlaces, ThreadsApart DEF Others
    <3> QED
      BY <2>3, <3>1 DEF Again
  <2> QED
    BY <2>2, <2>3 DEF Again
<1>3. CASE \E t \in Threads : FileStep(t)
  <2>1. PICK t \in Threads : FileStep(t)
    BY <1>3
  <2>2. jobs' = jobs
    BY <2>1, Zenon
       DEF FileStep, MetaFails, SkipThumb, SideFails, ReadMeta, ReadThumb, BeginMeta,
           EndMeta, BeginThumb, EndThumb, LoadSide, BeginSide, EndSide
  <2>3. frame[Main].at \in {"unlink", "unlink_thumb"} => frame'[Main] = frame[Main]
    BY <1>0, <2>1, FilePlaces DEF Others, Reads, SavesThumb, SavesSide
  <2> QED
    BY <2>2, <2>3 DEF Again
<1>4. CASE \E g \in Photos : UnlinkMeta(g)
  BY <1>4, UnlinkFrame DEF Again
<1>5. CASE UnlinkThumb
  <2>1. CASE jobs' = Photos
    BY <2>1 DEF Again
  <2>2. CASE Goto(Main, "unlink") /\ jobs' = jobs
    <3>1. frame'[Main].at = "unlink"
      BY <1>0, <2>2, FramesTyped, Going DEF Places
    <3> QED
      BY <3>1 DEF Again
  <2> QED
    BY <1>5, <2>1, <2>2, Zenon DEF UnlinkThumb, Reload
<1>6. CASE \/ Closing \/ Closed \/ Pasted \/ Flagged \/ RefreshThumb
           \/ TakeRegen \/ RemoveSource \/ LockIo \/ CannotLoad \/ UnlockIo
  <2>1. jobs' = jobs
    BY <1>6, Zenon
       DEF Closing, Closed, Pasted, Flagged, RefreshThumb, TakeRegen, RemoveSource,
           LockIo, CannotLoad, UnlockIo
  <2>2. frame[Main].at \notin {"unlink", "unlink_thumb"}
    BY <1>6, Zenon
       DEF Closing, Closed, Pasted, Flagged, RefreshThumb, TakeRegen, RemoveSource,
           LockIo, CannotLoad, UnlockIo, At
  <2> QED
    BY <2>1, <2>2 DEF Again
<1>7. CASE (\E g \in Photos : TakeJob(g)) \/ Check \/ Enqueue
  <2>1. frame'[Main] = frame[Main]
    BY <1>0, <1>7, IoJobPlaced, ClockStep, ThreadsApart DEF Others
  <2>2. f \in jobs => f \in jobs' \/ TakeJob(f)
    BY <1>7, Zenon DEF TakeJob, Check, Enqueue
  <2> QED
    BY <2>1, <2>2 DEF Again
<1>8. CASE Tick \/ UNCHANGED vars
  BY <1>1, <1>8 DEF Tick, vars
<1> QED
  BY <1>2, <1>3, <1>4, <1>5, <1>6, <1>7, <1>8 DEF Next, MainStep, IoStep, Threads

(* The way of the io worker through the job of a photo.                    *)
IoStepsOn ==
  \/ At(Io, "meta") /\ frame'[Io].at = "thumb" /\ Readable(meta[frame[Io].file]) /\ meta' = meta
  \/ At(Io, "meta") /\ frame'[Io].at = "save_meta"
  \/ At(Io, "thumb") /\ frame'[Io].at = "save_meta"
  \/ At(Io, "thumb") /\ frame'[Io].at = "check" /\ Readable(thumb[frame[Io].file]) /\ thumb' = thumb
  \/ At(Io, "save_meta") /\ frame'[Io].at \in {"write_meta", "save_thumb"}
  \/ At(Io, "write_meta") /\ frame'[Io].at = "save_thumb"
  \/ At(Io, "save_thumb") /\ frame'[Io].at \in {"write_thumb", "check"}
  \/ At(Io, "write_thumb") /\ frame'[Io].at = "check"
  \/ At(Io, "check") /\ frame'[Io].at = "enqueue"

LEMMA IoReads ==
  ASSUME Typed, Placed, FileStep(Io)
  PROVE  IoStepsOn /\ frame'[Io].file = frame[Io].file
<1>0. Io \in Threads
  BY DEF Threads
<1>1. frame[Io].call = "job"
  BY <1>0, FilePlaces DEF Placed, IoPlaced, CallOfIo, Reads, SavesSide, SavesThumb
<1>2. AfterMetadata("job") = "check" /\ AfterSave("job") = "check"
  BY DEF AfterMetadata, AfterSave
<1>3. CASE ReadMeta(Io)
  <2>1. At(Io, "meta") /\ meta' = meta
    BY <1>3, Zenon DEF ReadMeta, files
  <2> QED
    BY <1>0, <1>1, <1>3, <2>1, ReadMetaFrame DEF IoStepsOn, WasRead
<1>4. CASE ReadThumb(Io)
  <2>1. At(Io, "thumb") /\ thumb' = thumb
    BY <1>4, Zenon DEF ReadThumb, files
  <2> QED
    BY <1>0, <1>1, <1>2, <1>4, <2>1, ReadThumbFrame DEF IoStepsOn, WasRead
<1>5. CASE BeginMeta(Io) \/ EndMeta(Io) \/ MetaFails(Io) \/ BeginThumb(Io)
  BY <1>0, <1>5, BegunMeta, EndedMeta, FailedMeta, BegunThumb DEF IoStepsOn, SameCall
<1>6. CASE EndThumb(Io) \/ SkipThumb(Io)
  <2>1. At(Io, "write_thumb") \/ At(Io, "save_thumb")
    BY <1>6 DEF EndThumb, SkipThumb
  <2> QED
    BY <1>0, <1>1, <1>2, <1>6, <2>1, EndThumbFrame DEF IoStepsOn, SameCall
<1>7. CASE LoadSide(Io) \/ BeginSide(Io) \/ EndSide(Io) \/ SideFails(Io)
  BY <1>7
     DEF LoadSide, BeginSide, EndSide, SideFails, At, Placed, IoPlaced, CallOfIo, Reads,
         SavesThumb
<1> QED
  BY <1>3, <1>4, <1>5, <1>6, <1>7 DEF FileStep

LEMMA IoMoves ==
  ASSUME Typed, Placed, [Next]_vars, ~ Crash
  PROVE  \/ frame'[Io] = frame[Io]
         \/ \E f \in Photos : TakeJob(f) /\ frame'[Io].at = "meta" /\ frame'[Io].file = f
         \/ IoStepsOn /\ frame'[Io].file = frame[Io].file
         \/ (Check \/ Enqueue) /\ frame'[Io].at = "idle"
<1>0. Io \in Threads
  BY DEF Threads
<1>1. CASE FileStep(Io)
  BY <1>1, IoReads
<1>2. CASE FileStep(Main) \/ FileStep(Exporter)
  BY <1>0, <1>2, FilePlaces, ThreadsApart DEF Others, Threads
<1>3. CASE UserStep
  BY <1>0, <1>3, UserPlaces, ThreadsApart DEF Others
<1>4. CASE \/ (\E f \in Photos : UnlinkMeta(f)) \/ UnlinkThumb
           \/ Closing \/ Closed \/ Pasted \/ Flagged \/ RefreshThumb
           \/ TakeRegen \/ RemoveSource \/ LockIo \/ CannotLoad \/ UnlockIo
  BY <1>0, <1>4, HandlerPlaced, ClockStep, ThreadsApart DEF Others
<1>5. CASE \E f \in Photos : TakeJob(f)
  BY <1>5, TakeJobFrame DEF Entered
<1>6. CASE Check
  <2>1. At(Io, "check")
    BY <1>6 DEF Check
  <2>2. Goto(Io, "enqueue") \/ Return(Io)
    BY <1>6, Zenon DEF Check
  <2>3. CASE Goto(Io, "enqueue")
    BY <1>0, <2>1, <2>3, FramesTyped, Going DEF Places, SameCall, IoStepsOn
  <2>4. CASE Return(Io)
    BY <1>0, <1>6, <2>4, FramesTyped, Returning, IdleType
  <2> QED
    BY <2>2, <2>3, <2>4
<1>7. CASE Enqueue
  <2>1. Return(Io)
    BY <1>7, Zenon DEF Enqueue
  <2> QED
    BY <1>0, <1>7, <2>1, FramesTyped, Returning, IdleType
<1>8. CASE Tick \/ UNCHANGED vars
  BY <1>8 DEF Tick, vars
<1> QED
  BY <1>1, <1>2, <1>3, <1>4, <1>5, <1>6, <1>7, <1>8 DEF Next, MainStep, IoStep

(* A photo counts as loaded when its job ends.                             *)
LEMMA LoadedStep ==
  ASSUME [Next]_vars, NEW f \in loaded', f \notin loaded
  PROVE  (Check \/ Enqueue) /\ f = frame[Io].file
<1>1. CASE \E t \in Threads : FileStep(t)
  BY <1>1, Zenon
     DEF FileStep, MetaFails, SkipThumb, SideFails, ReadMeta, ReadThumb, BeginMeta,
         EndMeta, BeginThumb, EndThumb, LoadSide, BeginSide, EndSide, history
<1>2. CASE UserStep
  <2>1. loaded' = loaded \/ loaded' = {}
    BY <1>2, Zenon
       DEF UserStep, OpenPhoto, Paste, SetPrio, OpenOther, Edit, Export, LoadDirectory,
           ClearCache, Reload
  <2> QED
    BY <2>1
<1>3. CASE UnlinkThumb
  <2>1. loaded' = loaded \/ loaded' = {}
    BY <1>3, Zenon DEF UnlinkThumb, Reload
  <2> QED
    BY <2>1
<1>4. CASE \/ (\E g \in Photos : UnlinkMeta(g))
           \/ Closing \/ Closed \/ Pasted \/ Flagged \/ RefreshThumb
           \/ TakeRegen \/ RemoveSource \/ LockIo \/ CannotLoad \/ UnlockIo
  BY <1>4, Zenon
     DEF UnlinkMeta, Closing, Closed, Pasted, Flagged, RefreshThumb, TakeRegen,
         RemoveSource, LockIo, CannotLoad, UnlockIo, history
<1>5. CASE \E g \in Photos : TakeJob(g)
  BY <1>5, Zenon DEF TakeJob, history
<1>6. CASE Check \/ Enqueue
  <2>1. loaded' = loaded \/ loaded' = loaded \cup {frame[Io].file}
    BY <1>6, Zenon DEF Check, Enqueue
  <2> QED
    BY <1>6, <2>1
<1>7. CASE Crash
  BY <1>7, Zenon DEF Crash
<1>8. CASE Tick \/ UNCHANGED vars
  BY <1>8, Zenon DEF Tick, vars, history
<1> QED
  BY <1>1, <1>2, <1>3, <1>4, <1>5, <1>6, <1>7, <1>8 DEF Next, MainStep, IoStep, Threads

(* What is readable stays so, or the photo is loaded again.                *)
LEMMA GoodStays ==
  ASSUME Typed, Placed, MetaFiles, ThumbFiles, [Next]_vars, ~ Crash, Apart, NEW f \in Photos
  PROVE  /\ Again(f) \/ MetaGood(f) => Again(f)' \/ MetaGood(f)' \/ TakeJob(f)
         /\ Again(f) \/ ThumbGood(f) => Again(f)' \/ ThumbGood(f)' \/ TakeJob(f)
<1>1. UnlinkMeta(f) => Again(f)
  BY DEF UnlinkMeta, Again, At
<1>2. UnlinkThumb => Again(f)
  BY DEF UnlinkThumb, Again, At
<1> QED
  BY <1>1, <1>2, AgainStays, MetaGoodStays, ThumbGoodStays

LEMMA MendingHolds ==
  ASSUME Typed, Placed, MetaFiles, ThumbFiles, [Next]_vars, Apart', Mending
  PROVE  Mending'
<1>0. Main \in Threads /\ Io \in Threads /\ Apart
  BY ApartStep DEF Threads
<1>1. CASE Crash
  <2>1. loaded' = {} /\ frame' = [t \in Threads |-> Idle]
    BY <1>1, Zenon DEF Crash
  <2>2. frame'[Io].at = "idle"
    BY <1>0, <2>1, IdleType
  <2> QED
    BY <2>1, <2>2 DEF Mending, At
<1>2. CASE ~ Crash
  <2>1. \A f \in Photos :
           /\ Again(f) \/ MetaGood(f) => Again(f)' \/ MetaGood(f)' \/ TakeJob(f)
           /\ Again(f) \/ ThumbGood(f) => Again(f)' \/ ThumbGood(f)' \/ TakeJob(f)
    BY <1>0, <1>2, GoodStays
  <2>2. \A f \in Photos : TakeJob(f) =>
           At(Io, "idle") /\ frame'[Io].at = "meta" /\ frame'[Io].file = f
    BY TakeJobFrame DEF Entered, TakeJob
  <2>3. Check \/ Enqueue => frame[Io].at \in {"check", "enqueue"}
    BY DEF Check, Enqueue, At
  <2>4. frame[Io].at # "idle" => frame[Io].file \in Photos
    BY <1>0, FileNamed DEF Placed, IoPlaced, CallOfIo, Reads, SavesThumb
  <2>5. ASSUME NEW f \in Photos, IoStepsOn, frame[Io].file = f, frame'[Io].file = f
        PROVE  /\ frame'[Io].at \in Reads \/ Again(f)' \/ (MetaGood(f)' /\ ThumbGood(f)')
               /\ Again(f)' \/ MetaGood(f)'
               /\ frame'[Io].at \in {"write_thumb", "check", "enqueue"} =>
                     Again(f)' \/ ThumbGood(f)'
    <3>1. ~ TakeJob(f)
      BY <2>2, <2>5 DEF IoStepsOn, At
    <3>2. Again(f)' \/ MetaGood(f)'
      <4>1. CASE Readable(meta[f]) /\ meta' = meta
        BY <4>1 DEF MetaGood, Readable
      <4>2. CASE frame'[Io].at = "save_meta"
        BY <1>0, <2>5, <4>2 DEF MetaGood, At
      <4>3. CASE ~ At(Io, "meta") /\ ~ At(Io, "idle")
        BY <2>1, <2>5, <3>1, <4>3 DEF Mending
      <4> QED
        BY <2>5, <4>1, <4>2, <4>3 DEF IoStepsOn, At
    <3>3. frame'[Io].at \in {"write_thumb", "check", "enqueue"} => Again(f)' \/ ThumbGood(f)'
      <4>1. CASE Readable(thumb[f]) /\ thumb' = thumb
        BY <4>1 DEF ThumbGood, Readable
      <4>2. CASE At(Io, "save_thumb")
        <5>1. ThumbGood(f)
          BY <1>0, <2>5, <4>2 DEF ThumbGood, At
        <5> QED
          BY <2>1, <3>1, <5>1
      <4>3. CASE frame[Io].at \in {"write_thumb", "check", "enqueue"}
        BY <2>1, <2>5, <3>1, <4>3 DEF Mending
      <4> QED
        BY <2>5, <4>1, <4>2, <4>3 DEF IoStepsOn, At
    <3>4. frame'[Io].at \in Reads \cup {"check", "enqueue"}
      BY <2>5 DEF IoStepsOn, Reads, SavesThumb
    <3> QED
      BY <3>2, <3>3, <3>4
  <2>6. ASSUME NEW f \in loaded'
        PROVE  \/ Again(f)' \/ (MetaGood(f)' /\ ThumbGood(f)')
               \/ frame'[Io].file = f /\ frame'[Io].at \in Reads
    <3>1. f \in Photos
      <4>1. CASE f \in loaded
        BY <4>1 DEF Typed, TypeOK
      <4>2. CASE f \notin loaded
        BY <2>3, <2>4, <4>2, LoadedStep
      <4> QED
        BY <4>1, <4>2
    <3>2. CASE TakeJob(f)
      BY <2>2, <3>1, <3>2 DEF Reads
    <3>3. CASE Again(f) \/ (MetaGood(f) /\ ThumbGood(f))
      BY <2>1, <3>1, <3>2, <3>3
    <3>4. CASE f \notin loaded
      BY <2>3, <3>3, <3>4, LoadedStep DEF Mending, At
    <3>5. CASE frame[Io].file = f /\ frame[Io].at \in Reads
      <4>1. ~ (\E g \in Photos : TakeJob(g)) /\ ~ Check /\ ~ Enqueue
        BY <2>2, <2>3, <3>5 DEF Reads, SavesThumb, At
      <4> QED
        BY <1>2, <2>5, <3>1, <3>5, <4>1, IoMoves
    <3> QED
      BY <3>3, <3>4, <3>5 DEF Mending
  <2>7. ASSUME NEW f \in Photos, frame'[Io].file = f,
               frame'[Io].at # "idle", frame'[Io].at # "meta"
        PROVE  /\ Again(f)' \/ MetaGood(f)'
               /\ frame'[Io].at \in {"write_thumb", "check", "enqueue"} =>
                     Again(f)' \/ ThumbGood(f)'
    <3>1. CASE frame'[Io] = frame[Io]
      BY <2>1, <2>2, <2>7, <3>1 DEF Mending, At
    <3>2. CASE IoStepsOn /\ frame'[Io].file = frame[Io].file
      BY <2>5, <2>7, <3>2
    <3> QED
      BY <1>2, <2>7, <3>1, <3>2, IoMoves
  <2>8. frame'[Io].at # "idle" => frame'[Io].file \in Photos
    <3>1. CASE frame'[Io] = frame[Io]
      BY <2>4, <3>1
    <3>2. CASE IoStepsOn /\ frame'[Io].file = frame[Io].file
      BY <2>4, <3>2 DEF IoStepsOn, At
    <3> QED
      BY <1>2, <3>1, <3>2, IoMoves
  <2>9. (\A f \in loaded : \/ Again(f)
                           \/ frame[Io].file = f /\ frame[Io].at \in Reads
                           \/ MetaGood(f) /\ ThumbGood(f))'
    BY <2>6
  <2>10. ~ At(Io, "idle")' /\ ~ At(Io, "meta")' =>
           (Again(frame[Io].file) \/ MetaGood(frame[Io].file))'
    BY <2>7, <2>8 DEF At
  <2>11. frame'[Io].at \in {"write_thumb", "check", "enqueue"} =>
           (Again(frame[Io].file) \/ ThumbGood(frame[Io].file))'
    BY <2>7, <2>8
  <2> QED
    BY <2>9, <2>10, <2>11 DEF Mending
<1> QED
  BY <1>1, <1>2
-----------------------------------------------------------------------------
(* The invariant                                                           *)

(* The sidecar of a photo that was opened and closed before.               *)
Plain == [Defaults EXCEPT !.whole = TRUE]

LEMMA UntouchedSide ==
  /\ Plain \in Side /\ Plain.look = Untouched /\ Plain.prio = 0
  /\ Saved(Plain) \in File(Side) /\ Saved(Plain).data = Plain
BY DefaultsType, SavedType DEF Plain, Side

(* In the beginning a photo has all three files or none of them.           *)
LEMMA InitFiles ==
  ASSUME Init, NEW f \in Photos
  PROVE  /\ sidecar[f] \in {Absent, Saved(Plain)}
         /\ meta[f] \in {Absent, Saved(TRUE)}
         /\ thumb[f] \in {Absent, Saved(Untouched)}
         /\ Readable(meta[f]) <=> Readable(thumb[f])
         /\ CacheLoad(f).look = Untouched /\ CacheLoad(f).prio = 0
<1>1. PICK old \in SUBSET Photos :
         /\ sidecar = [g \in Photos |-> IF g \in old THEN Saved(Plain) ELSE Absent]
         /\ meta = [g \in Photos |-> IF g \in old THEN Saved(TRUE) ELSE Absent]
         /\ thumb = [g \in Photos |-> IF g \in old THEN Saved(Untouched) ELSE Absent]
  BY Zenon DEF Init, Plain
<1>2. Saved(TRUE).data = TRUE /\ Saved(Untouched).data = Untouched
  BY SavedType
<1>3. Absent.data = None
  BY AbsentType
<1>4. ~ Readable(Absent) /\ Readable(Saved(TRUE)) /\ Readable(Saved(Untouched))
  <2>1. TRUE \notin {None, Torn} /\ Untouched \notin {None, Torn}
    <3>1. TRUE \in BOOLEAN \cup Look \cup Side /\ Untouched \in BOOLEAN \cup Look \cup Side
      BY DefaultsType
    <3> QED
      BY <3>1, MarksApart, Zenon
  <2> QED
    BY <1>2, <1>3, <2>1, Zenon DEF Readable
<1>5. CASE f \in old
  <2>1. /\ sidecar[f] = Saved(Plain) /\ meta[f] = Saved(TRUE)
        /\ thumb[f] = Saved(Untouched)
    BY <1>1, <1>5
  <2>2. CacheLoad(f) \in {Plain, Defaults}
    BY <2>1, UntouchedSide DEF CacheLoad
  <2> QED
    BY <1>4, <2>1, <2>2, UntouchedSide, DefaultsType
<1>6. CASE f \notin old
  <2>1. sidecar[f] = Absent /\ meta[f] = Absent /\ thumb[f] = Absent
    BY <1>1, <1>6
  <2>2. CacheLoad(f) = Defaults
    BY <1>4, <2>1, Zenon DEF CacheLoad, Readable
  <2> QED
    BY <1>4, <2>1, <2>2, DefaultsType
<1> QED
  BY <1>5, <1>6

LEMMA InitTyped ==
  ASSUME Init
  PROVE  Typed
<1>1. PICK old \in SUBSET Photos :
         /\ sidecar = [g \in Photos |-> IF g \in old THEN Saved(Plain) ELSE Absent]
         /\ meta = [g \in Photos |-> IF g \in old THEN Saved(TRUE) ELSE Absent]
         /\ thumb = [g \in Photos |-> IF g \in old THEN Saved(Untouched) ELSE Absent]
  BY Zenon DEF Init, Plain
<1>2. /\ Saved(Plain) \in File(Side) /\ Saved(TRUE) \in File(BOOLEAN)
      /\ Saved(Untouched) \in File(Look \cup {Camera})
  BY SavedType, UntouchedSide, DefaultsType
<1>3. Absent \in File(Side) /\ Absent \in File(BOOLEAN) /\ Absent \in File(Look \cup {Camera})
  BY AbsentType
<1>4. /\ sidecar \in [Photos -> File(Side)] /\ meta \in [Photos -> File(BOOLEAN)]
      /\ thumb \in [Photos -> File(Look \cup {Camera})]
  BY <1>1, <1>2, <1>3
<1>5. /\ open = NoPhoto /\ jobs = {} /\ regen = <<>> /\ sources = 0
      /\ ioLock = None /\ metaLock = None /\ frame = [t \in Threads |-> Idle]
      /\ now = 0 /\ ops = 0 /\ crashes = 0 /\ failures = 0 /\ bare \in SUBSET Photos
      /\ wanted = [f \in Photos |-> Defaults] /\ loaded = {}
      /\ mishaps = [f \in Photos |-> {}]
  BY Zenon DEF Init
<1>6. timer \in BOOLEAN /\ idleId \in BOOLEAN /\ raced \in BOOLEAN
  BY Zenon DEF Init
<1>7. /\ open.file \in Photos \cup {None} /\ open.side \in Side /\ open \in PhotoType
      /\ frame \in [Threads -> FrameType] /\ wanted \in [Photos -> Side]
  <2>1. open.file = None /\ open \in PhotoType
    BY <1>5, DefaultsType
  <2>2. open.side \in Side
    BY <2>1 DEF PhotoType
  <2>3. frame \in [Threads -> FrameType]
    BY <1>5, IdleType
  <2>4. wanted \in [Photos -> Side]
    BY <1>5, DefaultsType
  <2> QED
    BY <2>1, <2>2, <2>3, <2>4
<1>8. now \in 0 .. MaxTime /\ regen \in Seq(Photos)
  BY <1>5, PhotoFilesAssumption
<1> QED
  BY <1>4, <1>5, <1>6, <1>7, <1>8 DEF Typed, TypeOK

LEMMA InitIInv == Init => IInv
<1> SUFFICES ASSUME Init PROVE IInv
  OBVIOUS
<1>1. Typed
  BY InitTyped
<1>2. /\ open = NoPhoto /\ jobs = {} /\ regen = <<>> /\ sources = 0 /\ now = 0
      /\ wanted = [f \in Photos |-> Defaults] /\ loaded = {}
      /\ \A t \in Threads : frame[t] = Idle
  BY Zenon DEF Init
<1>3. \A t \in Threads : /\ frame[t].at = "idle" /\ frame[t].call = "none"
                         /\ frame[t].file = None /\ frame[t].new = NoPhoto
  BY <1>2, IdleType
<1>4. Main \in Threads /\ Io \in Threads /\ Exporter \in Threads
  BY DEF Threads
<1>5. Placed
  BY <1>2, <1>3, <1>4, DefaultsType
     DEF Placed, MainPlaced, IoPlaced, ExporterPlaced, CallOfMain, CallOfIo,
         CallOfExporter, Busy, SavesThumb
<1>6. Sourced
  <2>1. ~ KeepsId
    BY Zenon DEF Init, KeepsId
  <2>2. ~ Leaving
    BY <1>3, <1>4 DEF Leaving, At
  <2> QED
    BY <1>2, <2>1, <2>2 DEF Sourced
<1>7. ASSUME NEW f \in Photos
      PROVE  /\ sidecar[f].by = {} /\ meta[f].by = {} /\ thumb[f].by = {} /\ thumb[f].time = 0
             /\ ~ Mixed(sidecar[f]) /\ ~ Mixed(meta[f]) /\ ~ Mixed(thumb[f])
  <2>1. /\ Saved(Plain).by = {} /\ Saved(TRUE).by = {} /\ Saved(Untouched).by = {}
        /\ ~ Mixed(Saved(Plain)) /\ ~ Mixed(Saved(TRUE)) /\ ~ Mixed(Saved(Untouched))
        /\ Saved(Untouched).time = 0
    BY SavedType, UntouchedSide, DefaultsType
  <2>2. Absent.by = {} /\ ~ Mixed(Absent) /\ Absent.time = 0
    BY AbsentType
  <2> QED
    BY <2>1, <2>2, InitFiles
<1>8. MetaFiles
  BY <1>3, <1>7 DEF MetaFiles, At
<1>9. ThumbFiles
  BY <1>2, <1>7 DEF ThumbFiles
<1>10. SideFiles
  BY <1>3, <1>4, <1>7 DEF SideFiles, At, Saving
<1>11. Kept /\ Shown
  <2>1. ASSUME NEW f \in Photos
        PROVE  /\ ~ PastePending(f) /\ ~ FlagPending(f) /\ Holds(f).look = Untouched
               /\ Holds(f).prio = 0 /\ wanted[f] = Defaults /\ Renders(f)
    <3>1. open.file # f
      BY <1>2, DefaultsType, NobodyIsNone
    <3>2. Coming(f).look = Untouched /\ Coming(f).prio = 0
      BY <1>3, <1>4, InitFiles DEF Coming, Saving
    <3> QED
      BY <1>2, <1>3, <1>4, <3>1, <3>2
         DEF PastePending, FlagPending, Holds, Renders
  <2>2. ASSUME NEW f \in Photos PROVE Shows(f)
    <3>1. Coming(f).look = Untouched
      BY <1>3, <1>4, InitFiles DEF Coming, Saving
    <3>2. thumb[f].data \in {None, Untouched}
      BY InitFiles, SavedType, AbsentType
    <3> QED
      BY <3>1, <3>2, DefaultsType DEF Shows
  <2>3. frame[Main].call # "close"
    BY <1>3, <1>4
  <2> QED
    BY <2>1, <2>2, <2>3, DefaultsType DEF Kept, Shown, Pasting, Agree
<1>12. Mending
  BY <1>2, <1>3, <1>4 DEF Mending, At
<1> QED
  BY <1>1, <1>5, <1>6, <1>8, <1>9, <1>10, <1>11, <1>12 DEF IInv

(* A crash is counted; without one the count stays.                        *)
LEMMA CrashCounted ==
  ASSUME Typed, Placed, [Next]_vars, crashes' = 0
  PROVE  crashes = 0 /\ ~ Crash
<1>1. Crash => crashes' # 0
  <2>1. Crash => crashes' = crashes + 1
    BY Zenon DEF Crash
  <2>2. crashes \in Nat
    BY DEF Typed
  <2> QED
    BY <2>1, <2>2
<1>2. crashes' = crashes \/ Crash
  BY ClockStep
<1> QED
  BY <1>1, <1>2

LEMMA NextIInv == IInv /\ [Next]_vars => IInv'
<1> SUFFICES ASSUME IInv, [Next]_vars PROVE IInv'
  OBVIOUS
<1>1. Typed /\ Placed /\ Sourced /\ MetaFiles /\ ThumbFiles /\ SideFiles
  BY DEF IInv
<1>2. Typed' /\ Placed' /\ Sourced' /\ MetaFiles' /\ ThumbFiles' /\ SideFiles'
  BY <1>1, TypedHolds, PlacedHolds, SourcedHolds, MetaFilesHold, ThumbFilesHold,
     SideFilesHold
<1>3. ASSUME Apart', crashes' = 0 PROVE Kept' /\ Shown'
  <2>1. Apart /\ crashes = 0 /\ ~ Crash
    BY <1>1, <1>3, ApartStep, CrashCounted
  <2>2. Kept /\ Shown
    BY <2>1 DEF IInv
  <2> QED
    BY <1>1, <1>3, <2>1, <2>2, KeptHolds, ShownHolds
<1>4. ASSUME Apart' PROVE Mending'
  BY <1>1, <1>4, ApartStep, MendingHolds DEF IInv
<1> QED
  BY <1>2, <1>3, <1>4 DEF IInv

(* What each thread is at, who has which file open, what the sidecars will *)
(* hold and what somebody still has to mend, as long as the program runs.  *)
THEOREM Inductive == Spec => []IInv
BY InitIInv, NextIInv, PTL DEF Spec
-----------------------------------------------------------------------------
(* What follows from it                                                    *)

(* The files, the open photo, the queue, the locks and what the user did   *)
(* have the types of their fields.                                         *)
THEOREM PhotoTypes == Spec => []TypeOK
<1>1. IInv => TypeOK
  BY DEF IInv, Typed
<1> QED
  BY <1>1, Inductive, PTL

(* No thread at work: nobody saves a sidecar, and none is about to be set. *)
LEMMA NobodyAtWork ==
  ASSUME Quiet
  PROVE  /\ \A t \in Threads : frame[t].at = "idle" /\ frame[t].call = "none"
         /\ Main \in Threads /\ Io \in Threads /\ Exporter \in Threads
         /\ \A f \in Photos : Coming(f) = CacheLoad(f)
<1>1. \A t \in Threads : frame[t].at = "idle" /\ frame[t].call = "none"
  BY IdleType DEF Quiet
<1>2. Main \in Threads /\ Io \in Threads /\ Exporter \in Threads
  BY DEF Threads
<1>3. \A f \in Photos : ~ Saving(Main, f) /\ ~ Saving(Exporter, f)
  BY <1>1, <1>2 DEF Saving
<1>4. \A f \in Photos : Coming(f) = CacheLoad(f)
  BY <1>3, Zenon DEF Coming
<1> QED
  BY <1>1, <1>2, <1>4

(* What the user did to a photo last is what the program remembers, however *)
(* opening, closing, pasting and flagging it, the refresh of its thumbnail, *)
(* loads and exports follow one another, unless two threads were at its     *)
(* sidecar at once or a save of it failed.  Of a turn and a crop this holds *)
(* until a transformation is pasted that the photo does not get.            *)
THEOREM PhotoWork == Spec => []WorkKept
<1>1. IInv => WorkKept
  <2> SUFFICES ASSUME IInv, Quiet, ~ raced, crashes = 0, NEW f \in Photos,
                      "unsaved" \notin mishaps[f]
               PROVE  LET kept == IF open.file = f THEN open.side ELSE CacheLoad(f)
                      IN  /\ kept.look.settings = wanted[f].look.settings
                          /\ kept.prio = wanted[f].prio
                          /\ "undone" \notin mishaps[f] => kept.look = wanted[f].look
    BY Zenon DEF WorkKept
  <2>1. Apart
    <3>1. raced \in BOOLEAN
      BY Zenon DEF IInv, Typed
    <3> QED
      BY <3>1, Zenon DEF Apart
  <2>2. Kept
    BY <2>1 DEF IInv
  <2>3. ~ PastePending(f) /\ ~ FlagPending(f)
    BY NobodyAtWork DEF PastePending, FlagPending
  <2>4. Agree(f, wanted[f].look, Holds(f).look) /\ wanted[f].prio = Holds(f).prio
    BY <2>2, <2>3 DEF Kept, Unsaved, Pasting
  <2>5. Holds(f) = IF open.file = f THEN open.side ELSE CacheLoad(f)
    BY NobodyAtWork DEF Holds
  <2> QED
    BY <2>4, <2>5 DEF Agree
<1> QED
  BY <1>1, Inductive, PTL

(* A thumbnail that does not show the settings, the turn and the crop in   *)
(* the sidecar is found to be stale by the next load of its directory, is  *)
(* the camera's own, or is of the second in which the sidecar was saved.   *)
THEOREM PhotoThumbs == Spec => []ThumbCurrent
<1>1. IInv => ThumbCurrent
  <2> SUFFICES ASSUME IInv, Quiet, ~ raced, crashes = 0, NEW f \in Photos \ {open.file},
                      Readable(sidecar[f]), "unsaved" \notin mishaps[f]
               PROVE  \/ NextLoadStale(f)
                      \/ thumb[f].data \in {sidecar[f].data.look, Camera}
                      \/ sidecar[f].time = thumb[f].time
    BY Zenon DEF ThumbCurrent
  <2>1. Apart
    <3>1. raced \in BOOLEAN
      BY Zenon DEF IInv, Typed
    <3> QED
      BY <3>1, Zenon DEF Apart
  <2>2. Typed /\ Shown
    BY <2>1 DEF IInv
  <2>3. ~ Loose(f)
    BY NobodyAtWork DEF Loose, At
  <2>4. Shows(f)
    BY <2>2, <2>3 DEF Shown
  <2>5. Coming(f) = sidecar[f].data
    BY NobodyAtWork DEF CacheLoad
  <2>6. sidecar[f].time \in Int /\ thumb[f].time \in Int
    BY <2>2, FilesOf
  <2> QED
    BY <2>4, <2>5, <2>6 DEF Shows, Unsaved, NextLoadStale, Readable
<1> QED
  BY <1>1, Inductive, PTL

(* Once a directory is loaded, the metadata of each photo are readable,    *)
(* and its thumbnail is unless its own file has none, whatever any number  *)
(* of crashes left of them, if no save of one of the two failed.           *)
THEOREM PhotoMended == Spec => []Mended
<1>1. IInv => Mended
  <2> SUFFICES ASSUME IInv, Quiet, ~ raced, NEW f \in loaded, "uncached" \notin mishaps[f]
               PROVE  Readable(meta[f]) /\ (Readable(thumb[f]) \/ f \in bare)
    BY Zenon DEF Mended
  <2>1. Apart
    <3>1. raced \in BOOLEAN
      BY Zenon DEF IInv, Typed
    <3> QED
      BY <3>1, Zenon DEF Apart
  <2>2. Mending
    BY <2>1 DEF IInv
  <2>3. ~ Again(f) /\ frame[Io].at \notin Reads
    BY NobodyAtWork DEF Quiet, Again, Reads, SavesThumb
  <2>4. MetaGood(f) /\ ThumbGood(f)
    BY <2>2, <2>3 DEF Mending
  <2> QED
    BY <2>4, NobodyAtWork DEF MetaGood, ThumbGood, Uncached, At
<1> QED
  BY <1>1, Inductive, PTL

(* The queue of stale thumbnails is never left without a source that will  *)
(* look at it: besides the source on its way out there is another.         *)
Served == regen # <<>> => /\ sources > 0
                          /\ At(Main, "remove_source") => sources > 1

(* However the io worker adds to the queue while the handler finds it empty *)
(* and leaves, who is added is served.                                      *)
THEOREM PhotoServed == Spec => []Served
<1>1. IInv => Served
  BY DEF IInv, Sourced, Served, Leaving
<1> QED
  BY <1>1, Inductive, PTL

(* At most one source besides the one on its way out: the idle handler is  *)
(* never installed twice.                                                  *)
OneSource == sources <= 2 /\ (sources = 2 => At(Main, "remove_source"))

(* However often the io worker and the handler meet, one source stays.     *)
THEOREM PhotoSources == Spec => []OneSource
<1>1. IInv => OneSource
  BY DEF IInv, Sourced, OneSource, Leaving
<1> QED
  BY <1>1, Inductive, PTL
=============================================================================
