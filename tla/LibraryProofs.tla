---------------------------- MODULE LibraryProofs ----------------------------
(***************************************************************************)
(* Theorems about Library, for any photos, tags and bounds: the types,     *)
(* that every row says what is true, and that the last backup has the tags *)
(* that users gave.                                                        *)
(***************************************************************************)
EXTENDS Library, FiniteSetTheorems, SequenceTheorems, TLAPS

Calls == {None, "metadata", "restore", "give"}

Places == {"idle", "find", "add", "insert", "id", "begin", "tags", "new_tag", "tag_id", "mark",
           "commit", "queue", "read", "files", "delete", "backup", "query", "write", "no_writer"}

Entry == Files \X Mark

FrameType == [at : Places, call : Calls, file : Files \cup {None}, id : Nat, tag : Nat,
              todo : SUBSET Mark, mark : Mark \cup {None}, more : SUBSET (Files \cup Entry)]

SumJob == [file : Files, id : Nat]

JobsType == [metadata : Seq(Files), checksum : Seq(SumJob), tagging : Seq(Job)]

(* The rows of phototags.                                                  *)
Links == [photo : Nat, tag : Nat, auto : BOOLEAN]

Tables == [photos : Seq(Files), sums : Seq(Files \cup {None}), tags : Seq(Names),
           marks : SUBSET Links]

Tabled(d) == d \in Tables /\ Len(d.sums) = Len(d.photos) /\ IsFiniteSet(d.marks)

Typed ==
  /\ TypeOK
  /\ Tabled(db)
  /\ frame \in [Threads -> FrameType]
  /\ jobs \in JobsType

(* Which steps belong to which call.                                       *)
TagSteps == {"new_tag", "tag_id", "mark"}

Marking == {"begin", "tags"} \cup TagSteps

CallAt(call, at) ==
  \/ at \in {"idle", "delete", "backup", "query", "write", "no_writer"}
  \/ call = "metadata" /\ at \in {"find", "insert", "id", "commit"} \cup Marking
  \/ call = "restore" /\ at \in {"read", "files", "add", "insert", "id", "tags"} \cup TagSteps
  \/ call = "give" /\ at \in {"tags", "new_tag", "tag_id", "queue"}

Adding(t) == /\ frame[t].call \in {"metadata", "restore"}
             /\ frame[t].at \in {"find", "add", "insert", "id"} \cup Marking

(* Restoring, with the file read. *)
Restores(t) == frame[t].call = "restore" /\ (Adding(t) \/ At(t, "files"))

Busy(t) ==
  /\ CallAt(frame[t].call, frame[t].at)
  /\ At(t, "idle") => frame[t] = Idle
  /\ Restores(t) \/ At(t, "read") => t = Io
  /\ Adding(t) \/ At(t, "commit") => frame[t].file \in Files
  /\ frame[t].at \in TagSteps \cup {"queue"} => frame[t].mark \in Mark
  /\ frame[t].call = "give" /\ frame[t].at \in {"tags", "new_tag", "tag_id", "queue"} =>
        frame[t].more \subseteq Files
  /\ Restores(t) \/ At(t, "write") => frame[t].more \subseteq Entry

Placed == \A t \in Threads : Busy(t)

(* Who holds which lock, and when the file is torn.                        *)
Holding(t) ==
  /\ idLock = t <=> frame[t].at \in {"id", "tag_id"}
  /\ frame[t].at \in {"query", "write", "no_writer"} => backupLock = t
  /\ frame[t].at \in {"query", "write"} => xml = Torn

Locked == \A t \in Threads : Holding(t)

(* A photo has a tag by right, from its metadata or from a user.           *)
Automatic(m) == m.auto = TRUE

Right(g, f, name, auto) ==
  /\ auto = TRUE => name \in AutoNames[f]
  /\ auto # TRUE => <<f, name>> \in g

Rightful(g, f, m) == Right(g, f, m.name, m.auto)

Truthful(g, d) ==
  /\ \A k \in d.marks : /\ k.photo \in DOMAIN d.photos /\ k.tag \in DOMAIN d.tags
                        /\ Right(g, d.photos[k.photo], d.tags[k.tag], k.auto)
  /\ \A i \in DOMAIN d.photos : d.sums[i] \in {None, d.photos[i]}

Row(rows, i, value) == i \in DOMAIN rows /\ rows[i] = value

(* The tables, and what is yet to come into them from calls, jobs, a       *)
(* rollback and the file.                                                  *)
Saved == committed # None => Tabled(committed) /\ Truthful(given, committed)

Written == xml \notin {None, Torn} => \A f \in Files : \A m \in xml[f] : Rightful(given, f, m)

Summed ==
  \A i \in DOMAIN jobs.checksum : Row(db.photos, jobs.checksum[i].id, jobs.checksum[i].file)

Tagged ==
  \A i \in DOMAIN jobs.tagging : jobs.tagging[i].what = "tag" =>
     /\ jobs.tagging[i].id \in DOMAIN db.tags /\ jobs.tagging[i].file \in Files
     /\ <<jobs.tagging[i].file, db.tags[jobs.tagging[i].id]>> \in given

Rows == Truthful(given, db) /\ Saved /\ Written /\ Summed /\ Tagged

Honest(t) ==
  /\ At(t, "id") => Row(db.photos, rowid, frame[t].file)
  /\ At(t, "tag_id") => Row(db.tags, rowid, frame[t].mark.name)
  /\ frame[t].at \in {"mark", "queue"} => Row(db.tags, frame[t].tag, frame[t].mark.name)
  /\ Adding(t) =>
        /\ \A m \in frame[t].todo : Rightful(given, frame[t].file, m)
        /\ frame[t].at \in TagSteps => Rightful(given, frame[t].file, frame[t].mark)
        /\ frame[t].at \in Marking => Row(db.photos, frame[t].id, frame[t].file)
  /\ frame[t].call = "metadata" /\ Adding(t) =>
        /\ \A m \in frame[t].todo : Automatic(m)
        /\ frame[t].at \in TagSteps => Automatic(frame[t].mark)
  /\ Restores(t) \/ At(t, "write") =>
        \A f \in Files, m \in Mark : <<f, m>> \in frame[t].more => Rightful(given, f, m)

InHand == \A t \in Threads : Honest(t)

(* A backup that is yet to come, one at work, and one that is right.       *)
Coming ==
  \/ \E i \in DOMAIN jobs.tagging : jobs.tagging[i].what = "backup"
  \/ \E t \in Threads : frame[t].at \in {"delete", "backup", "query"}

Carries(f, m) == m \in MarksOf(db, f)

Writing(t) ==
  /\ At(t, "write")
  /\ \A f \in Files, m \in UserMarks : <<f, m>> \in frame[t].more <=> Carries(f, m)

Synced ==
  /\ xml \notin {None, Torn}
  /\ \A f \in Files, m \in UserMarks : m \in xml[f] <=> Carries(f, m)

Known(f) == \E i \in DOMAIN db.photos : db.photos[i] = f

Followed ==
  \A i \in DOMAIN jobs.tagging : jobs.tagging[i].what = "tag" =>
     \E j \in DOMAIN jobs.tagging : j > i /\ jobs.tagging[j].what = "backup"

(* What a backup is to write belongs to photos the library knows.          *)
WriteKnown ==
  \A t \in Threads : At(t, "write") =>
     \A f \in Files, m \in Mark : <<f, m>> \in frame[t].more => Known(f)

(* Once a backup was written, what users gave and is still in the file or  *)
(* read from it belongs to photos the library knows: restoring adds no     *)
(* such tag.                                                               *)
Owed == Coming \/ Synced \/ \E t \in Threads : Writing(t)

FileKnown ==
  xml \notin {None, Torn} => \A f \in Files : \A m \in xml[f] : ~ Automatic(m) => Known(f)

RestoreKnown ==
  /\ Restores(Io) =>
        \A f \in Files, m \in Mark : <<f, m>> \in frame[Io].more => Automatic(m) \/ Known(f)
  /\ frame[Io].call = "restore" /\ Adding(Io) =>
        /\ \A m \in frame[Io].todo : Automatic(m)
        /\ frame[Io].at \in TagSteps => Automatic(frame[Io].mark)

Settled ==
  /\ Followed /\ WriteKnown
  /\ lastBackup = "written" => Owed /\ FileKnown /\ RestoreKnown

IInv == Typed /\ Placed /\ Locked /\ Rows /\ InHand /\ Settled
-----------------------------------------------------------------------------
(* Constants, sequences and the first row that holds a value               *)

(* Three values of which a set has three elements are different.           *)
LEMMA ThreadsApart == Main # Io /\ Main # Tether /\ Io # Tether
<1>1. ASSUME NEW x, NEW y, Threads = {x, y} PROVE FALSE
  <2>1. IsFiniteSet({x}) /\ Cardinality({x}) = 1
    BY FS_Singleton
  <2>2. Cardinality({x} \cup {y}) \in {1, 2}
    BY <2>1, FS_AddElement
  <2>3. {x} \cup {y} = Threads
    BY <1>1
  <2> QED
    BY <2>2, <2>3, LibraryAssumption
<1>2. CASE Main = Io
  <2>1. Threads = {Io, Tether}
    BY <1>2 DEF Threads
  <2> QED
    BY <1>1, <2>1
<1>3. CASE Main = Tether
  <2>1. Threads = {Io, Tether}
    BY <1>3 DEF Threads
  <2> QED
    BY <1>1, <2>1
<1>4. CASE Io = Tether
  <2>1. Threads = {Io, Main}
    BY <1>4 DEF Threads
  <2> QED
    BY <1>1, <2>1
<1> QED
  BY <1>2, <1>3, <1>4

LEMMA NobodyIsNone == None \notin Files /\ None \notin Names /\ None \notin Threads
BY LibraryAssumption

(* The elements of a finite set, in some order.                            *)
LEMMA SetToSeqType ==
  ASSUME NEW S, IsFiniteSet(S)
  PROVE  SetToSeq(S) \in Seq(S)
<1>1. PICK n \in Nat : ExistsBijection(1 .. n, S)
  BY FS_NatBijection
<1>2. Cardinality(S) = n
  BY <1>1, FS_CountingElements
<1>3. \E f \in [1 .. n -> S] : IsInjective(f)
  BY <1>1 DEF ExistsBijection, Bijection, Injection
<1>4. SetToSeq(S) \in [1 .. n -> S]
  BY <1>2, <1>3 DEF SetToSeq
<1> QED
  BY <1>4

(* A set of natural numbers that is not empty has a least element.         *)
LEMMA LeastNat ==
  ASSUME NEW T \in SUBSET Nat, T # {}
  PROVE  \E n \in T : \A m \in T : n <= m
<1> DEFINE Less == {p \in Nat \X Nat : p[1] < p[2]}
<1>1. IsWellFoundedOn(Less, Nat)
  BY NatLessThanWellFounded DEF OpToRel
<1>2. \E n \in T : \A m \in T : ~ (<<m, n>> \in Less)
  <2> HIDE DEF Less
  <2> QED
    BY <1>1, WFMin
<1>3. \A m, n \in Nat : ~ (<<m, n>> \in Less) => n <= m
  OBVIOUS
<1> QED
  BY <1>2, <1>3

(* The row found holds the value; none is found only where none does.      *)
LEMMA FirstOfIs ==
  ASSUME NEW S, NEW rows \in Seq(S), NEW value
  PROVE  /\ FirstOf(rows, value) \in Nat
         /\ FirstOf(rows, value) = 0 => \A i \in DOMAIN rows : rows[i] # value
         /\ FirstOf(rows, value) # 0 => Row(rows, FirstOf(rows, value), value)
<1> DEFINE T == {i \in DOMAIN rows : rows[i] = value}
<1>0. T \in SUBSET Nat /\ \A i \in T : i # 0
  OBVIOUS
<1>1. CASE \E i \in DOMAIN rows : rows[i] = value
  <2>1. PICK n \in T : \A m \in T : n <= m
    <3>1. T # {}
      BY <1>1
    <3> HIDE DEF T
    <3> QED
      BY <1>0, <3>1, LeastNat
  <2>2. /\ n \in DOMAIN rows /\ rows[n] = value
        /\ \A k \in 1 .. n - 1 : rows[k] # value
    BY <2>1
  <2>3. FirstOf(rows, value) =
          CHOOSE i \in DOMAIN rows :
            rows[i] = value /\ \A k \in 1 .. i - 1 : rows[k] # value
    BY <1>1, Zenon DEF FirstOf
  <2>4. FirstOf(rows, value) \in DOMAIN rows /\ rows[FirstOf(rows, value)] = value
    BY <2>2, <2>3
  <2> QED
    BY <2>4 DEF Row
<1>2. CASE ~ \E i \in DOMAIN rows : rows[i] = value
  <2>1. FirstOf(rows, value) = 0
    BY <1>2 DEF FirstOf
  <2> QED
    BY <1>2, <2>1
<1> QED
  BY <1>1, <1>2

LEMMA IdleType ==
  /\ Idle \in FrameType
  /\ Idle.at = "idle" /\ Idle.file = None /\ Idle.todo = {}
BY DEF Idle, FrameType, Places, Calls
-----------------------------------------------------------------------------
(* The frames: one thread moves, the others stay.                          *)

Others(t) == \A u \in Threads \ {t} : frame'[u] = frame[u]

Frames == frame \in [Threads -> FrameType]

LEMMA FramesTyped ==
  ASSUME Typed
  PROVE  Frames /\ \A t \in Threads : frame[t] \in FrameType
BY DEF Typed, Frames

SameCall(t) ==
  /\ frame'[t].call = frame[t].call /\ frame'[t].file = frame[t].file
  /\ frame'[t].id = frame[t].id /\ frame'[t].tag = frame[t].tag
  /\ frame'[t].todo = frame[t].todo /\ frame'[t].mark = frame[t].mark
  /\ frame'[t].more = frame[t].more

LEMMA Going ==
  ASSUME Frames, NEW t \in Threads, NEW step \in Places, Goto(t, step)
  PROVE  Frames' /\ Others(t) /\ frame'[t].at = step /\ SameCall(t)
BY DEF Frames, Goto, Others, SameCall, FrameType

LEMMA Returning ==
  ASSUME Frames, NEW t \in Threads, Return(t)
  PROVE  Frames' /\ Others(t) /\ frame'[t] = Idle
BY IdleType DEF Frames, Return, Others

LEMMA Entering ==
  ASSUME Frames, NEW t \in Threads, NEW fr \in FrameType,
         frame' = [frame EXCEPT ![t] = fr]
  PROVE  Frames' /\ Others(t) /\ frame'[t] = fr
BY DEF Frames, Others

(* What the next step of a call can be.                                    *)
LEMMA NextSteps ==
  ASSUME NEW call, NEW todo
  PROVE  /\ Loop(call, todo) \in Places /\ AfterPhoto(call, todo) \in Places
         /\ AfterTag(call) \in Places
BY DEF Loop, AfterPhoto, AfterTag, Places
-----------------------------------------------------------------------------
(* What each action does to the frame of its thread, where it does more    *)
(* than go to another place.                                               *)

LEMMA FoundTag ==
  ASSUME Typed, NEW name
  PROVE  /\ FindTagId(name) \in Nat
         /\ FindTagId(name) # 0 => Row(db.tags, FindTagId(name), name)
<1>1. db.tags \in Seq(Names)
  BY DEF Typed, Tabled, Tables
<1> QED
  BY <1>1, FirstOfIs, Zenon DEF FindTagId

LEMMA FoundPhoto ==
  ASSUME Typed, NEW f
  PROVE  /\ FindPhotoId(f) \in Nat
         /\ FindPhotoId(f) = 0 => ~ Known(f)
         /\ FindPhotoId(f) # 0 => Row(db.photos, FindPhotoId(f), f)
<1>1. db.photos \in Seq(Files)
  BY DEF Typed, Tabled, Tables
<1> QED
  BY <1>1, FirstOfIs, Zenon DEF FindPhotoId, Known

LEMMA FindTagFrame ==
  ASSUME Typed, NEW t \in Threads, NEW m \in Mark, FindTag(t, m)
  PROVE  /\ Frames' /\ Others(t) /\ m \in frame[t].todo /\ At(t, "tags")
         /\ frame'[t].todo = frame[t].todo \ {m} /\ frame'[t].mark = m
         /\ \/ frame'[t].at = "new_tag"
            \/ frame'[t].at = AfterTag(frame[t].call) /\ Row(db.tags, frame'[t].tag, m.name)
         /\ frame'[t].call = frame[t].call /\ frame'[t].file = frame[t].file
         /\ frame'[t].id = frame[t].id /\ frame'[t].more = frame[t].more
<1>1. PICK tag \in Nat, at \in Places :
         /\ frame' = [frame EXCEPT ![t] =
              [frame[t] EXCEPT !.todo = frame[t].todo \ {m}, !.mark = m, !.tag = tag, !.at = at]]
         /\ \/ at = "new_tag"
            \/ at = AfterTag(frame[t].call) /\ Row(db.tags, tag, m.name)
  <2>1. CASE FindTagId(m.name) = 0
    <3>1. frame' = [frame EXCEPT ![t] =
            [frame[t] EXCEPT !.todo = frame[t].todo \ {m}, !.mark = m, !.tag = FindTagId(m.name),
                             !.at = "new_tag"]]
      BY <2>1, Zenon DEF FindTag
    <3>2. "new_tag" \in Places
      BY DEF Places
    <3> QED
      BY <3>1, <3>2, FoundTag
  <2>2. CASE FindTagId(m.name) # 0
    <3>1. frame' = [frame EXCEPT ![t] =
            [frame[t] EXCEPT !.todo = frame[t].todo \ {m}, !.mark = m, !.tag = FindTagId(m.name),
                             !.at = AfterTag(frame[t].call)]]
      BY <2>2, Zenon DEF FindTag
    <3> QED
      BY <2>2, <3>1, FoundTag, NextSteps
  <2> QED
    BY <2>1, <2>2
<1>2. m \in frame[t].todo /\ At(t, "tags")
  BY Zenon DEF FindTag
<1> DEFINE todo == frame[t].todo \ {m}
           fr == [frame[t] EXCEPT !.todo = todo, !.mark = m, !.tag = tag, !.at = at]
<1>3. /\ fr \in FrameType
      /\ fr.todo = todo /\ fr.mark = m /\ fr.tag = tag /\ fr.at = at
      /\ fr.call = frame[t].call /\ fr.file = frame[t].file
      /\ fr.id = frame[t].id /\ fr.more = frame[t].more
  <2>1. frame[t] \in FrameType
    BY FramesTyped
  <2>2. todo \in SUBSET Mark
    BY <2>1 DEF FrameType
  <2> HIDE DEF todo
  <2> QED
    BY <2>1, <2>2 DEF FrameType
<1>4. frame' = [frame EXCEPT ![t] = fr]
  BY <1>1
<1> HIDE DEF fr
<1> QED
  BY <1>1, <1>2, <1>3, <1>4, FramesTyped, Entering

LEMMA PhotoIdFrame ==
  ASSUME Typed, NEW t \in Threads, PhotoId(t)
  PROVE  /\ Frames' /\ Others(t) /\ At(t, "id")
         /\ frame'[t].id = rowid /\ frame'[t].at = AfterPhoto(frame[t].call, frame[t].todo)
         /\ frame'[t].call = frame[t].call /\ frame'[t].file = frame[t].file
         /\ frame'[t].todo = frame[t].todo /\ frame'[t].more = frame[t].more
         /\ frame'[t].mark = frame[t].mark
<1>1. PICK at \in Places : /\ frame' = [frame EXCEPT ![t] = [frame[t] EXCEPT !.id = rowid, !.at = at]]
                           /\ at = AfterPhoto(frame[t].call, frame[t].todo)
  BY NextSteps, Zenon DEF PhotoId
<1>2. At(t, "id") /\ rowid \in Nat
  BY DEF PhotoId, Typed, TypeOK
<1> DEFINE fr == [frame[t] EXCEPT !.id = rowid, !.at = at]
<1>3. /\ fr \in FrameType
      /\ fr.id = rowid /\ fr.at = at /\ fr.call = frame[t].call /\ fr.file = frame[t].file
         /\ fr.todo = frame[t].todo /\ fr.more = frame[t].more /\ fr.mark = frame[t].mark
  BY <1>1, <1>2, FramesTyped DEF FrameType
<1>4. frame' = [frame EXCEPT ![t] = fr]
  BY <1>1
<1> HIDE DEF fr
<1> QED
  BY <1>1, <1>2, <1>3, <1>4, FramesTyped, Entering

LEMMA TagIdFrame ==
  ASSUME Typed, NEW t \in Threads, TagId(t)
  PROVE  /\ Frames' /\ Others(t) /\ At(t, "tag_id")
         /\ frame'[t].tag = rowid /\ frame'[t].at = AfterTag(frame[t].call)
         /\ frame'[t].call = frame[t].call /\ frame'[t].file = frame[t].file
         /\ frame'[t].todo = frame[t].todo /\ frame'[t].more = frame[t].more
         /\ frame'[t].mark = frame[t].mark /\ frame'[t].id = frame[t].id
<1>1. PICK at \in Places : /\ frame' = [frame EXCEPT ![t] = [frame[t] EXCEPT !.tag = rowid, !.at = at]]
                           /\ at = AfterTag(frame[t].call)
  BY NextSteps, Zenon DEF TagId
<1>2. At(t, "tag_id") /\ rowid \in Nat
  BY DEF TagId, Typed, TypeOK
<1> DEFINE fr == [frame[t] EXCEPT !.tag = rowid, !.at = at]
<1>3. /\ fr \in FrameType
      /\ fr.tag = rowid /\ fr.at = at /\ fr.call = frame[t].call /\ fr.file = frame[t].file
         /\ fr.todo = frame[t].todo /\ fr.more = frame[t].more /\ fr.mark = frame[t].mark
         /\ fr.id = frame[t].id
  BY <1>1, <1>2, FramesTyped DEF FrameType
<1>4. frame' = [frame EXCEPT ![t] = fr]
  BY <1>1
<1> HIDE DEF fr
<1> QED
  BY <1>1, <1>2, <1>3, <1>4, FramesTyped, Entering

(* A frame made anew to give photos a tag.                                 *)
LEMMA GiveFrame ==
  ASSUME Frames, NEW t \in Threads, NEW files \in SUBSET Files, NEW name \in Names,
         frame' = [frame EXCEPT ![t] =
           [Idle EXCEPT !.call = "give", !.at = "tags", !.more = files,
                        !.todo = {[name |-> name, auto |-> FALSE]}]]
  PROVE  /\ Frames' /\ Others(t)
         /\ frame'[t].call = "give" /\ frame'[t].at = "tags" /\ frame'[t].more = files
<1> DEFINE todo == {[name |-> name, auto |-> FALSE]}
           fr == [Idle EXCEPT !.call = "give", !.at = "tags", !.more = files, !.todo = todo]
<1>1. todo \in SUBSET Mark
  BY DEF Mark
<1> HIDE DEF todo
<1>2. "give" \in Calls /\ "tags" \in Places /\ files \in SUBSET (Files \cup Entry)
  BY DEF Calls, Places
<1>3. /\ fr \in FrameType
      /\ fr.call = "give" /\ fr.at = "tags" /\ fr.more = files
  BY <1>1, <1>2, IdleType DEF FrameType
<1>4. frame' = [frame EXCEPT ![t] = fr]
  BY DEF todo
<1> HIDE DEF fr
<1> QED
  BY <1>3, <1>4, Entering

(* The thread that adds a photo is done with it.                           *)
LEMMA AddedFrame ==
  ASSUME Typed, NEW t \in Threads, Added(t), frame[t].file \in Files
  PROVE  /\ Frames' /\ Others(t)
         /\ \/ frame'[t] = Idle
            \/ /\ t = Tether /\ frame'[t].call = "give" /\ frame'[t].at = "tags"
               /\ frame'[t].more \subseteq Files
<1>1. CASE t # Tether
  BY <1>1, FramesTyped, Returning DEF Added
<1>2. CASE t = Tether
  <2>1. PICK name \in TetherNames :
           frame' = [frame EXCEPT ![t] =
             [Idle EXCEPT !.call = "give", !.at = "tags", !.more = {frame[t].file},
                          !.todo = {[name |-> name, auto |-> FALSE]}]]
    BY <1>2, Zenon DEF Added
  <2>2. name \in Names /\ {frame[t].file} \in SUBSET Files
    BY LibraryAssumption
  <2>3. /\ Frames' /\ Others(t)
        /\ frame'[t].call = "give" /\ frame'[t].at = "tags" /\ frame'[t].more = {frame[t].file}
    BY <2>1, <2>2, FramesTyped, GiveFrame, Zenon
  <2> QED
    BY <1>2, <2>2, <2>3
<1> QED
  BY <1>1, <1>2

LEMMA ReadXmlFrame ==
  ASSUME Typed, ReadXml
  PROVE  /\ Frames' /\ Others(Io) /\ At(Io, "read")
         /\ \/ frame'[Io] = Idle
            \/ /\ xml \notin {None, Torn} /\ frame'[Io].at = "files"
               /\ frame'[Io].more \subseteq Entry
               /\ \A f \in Files, m \in Mark : <<f, m>> \in frame'[Io].more => m \in xml[f]
               /\ frame'[Io].call = frame[Io].call
<1>0. Io \in Threads /\ At(Io, "read")
  BY DEF Threads, ReadXml
<1>1. CASE xml \in {None, Torn}
  BY <1>0, <1>1, FramesTyped, Returning DEF ReadXml
<1>2. CASE xml \notin {None, Torn}
  <2> DEFINE more == {e \in Files \X Mark : e[2] \in xml[e[1]]}
  <2>1. frame' = [frame EXCEPT ![Io] = [frame[Io] EXCEPT !.at = "files", !.more = more]]
    BY <1>2, Zenon DEF ReadXml
  <2>2. /\ more \subseteq Entry
        /\ \A f \in Files, m \in Mark : <<f, m>> \in more => m \in xml[f]
    BY DEF Entry
  <2> HIDE DEF more
  <2>3. "files" \in Places /\ more \in SUBSET (Files \cup Entry)
    BY <2>2 DEF Places
  <2> DEFINE fr == [frame[Io] EXCEPT !.at = "files", !.more = more]
  <2>4. /\ fr \in FrameType
        /\ fr.at = "files" /\ fr.more = more /\ fr.call = frame[Io].call
    BY <1>0, <2>3, FramesTyped DEF FrameType
  <2>5. frame' = [frame EXCEPT ![Io] = fr]
    BY <2>1
  <2> HIDE DEF fr
  <2> QED
    BY <1>0, <1>2, <2>2, <2>4, <2>5, FramesTyped, Entering
<1> QED
  BY <1>1, <1>2

LEMMA RestoreFileFrame ==
  ASSUME Typed, Placed, NEW f \in Files, RestoreFile(f)
  PROVE  /\ Frames' /\ Others(Io) /\ At(Io, "files")
         /\ \/ frame'[Io].at = "files"
            \/ frame'[Io].at = "add" /\ ~ Known(f)
         /\ frame'[Io].file = f /\ frame'[Io].call = frame[Io].call
         /\ frame'[Io].more \subseteq frame[Io].more
         /\ \A m \in frame'[Io].todo : <<f, m>> \in frame[Io].more
<1>0. Io \in Threads /\ At(Io, "files")
  BY Zenon DEF Threads, RestoreFile
<1>1. frame[Io].more \subseteq Entry
  BY <1>0 DEF Placed, Busy, CallAt, Marking, TagSteps, Restores, At
<1> DEFINE marks == {e[2] : e \in {e \in frame[Io].more : e[1] = f}}
           left == {e \in frame[Io].more : e[1] # f}
<1>2. PICK at \in Places :
         /\ frame' = [frame EXCEPT ![Io] =
              [frame[Io] EXCEPT !.more = left, !.file = f, !.todo = marks, !.at = at]]
         /\ at = "files" \/ (at = "add" /\ ~ Known(f))
  <2>1. CASE FindPhotoId(f) = 0 /\ f \in disk
    <3>1. frame' = [frame EXCEPT ![Io] =
            [frame[Io] EXCEPT !.more = left, !.file = f, !.todo = marks, !.at = "add"]]
      BY <2>1, Zenon DEF RestoreFile
    <3>2. "add" \in Places
      BY DEF Places
    <3> QED
      BY <2>1, <3>1, <3>2, FoundPhoto, Zenon
  <2>2. CASE ~ (FindPhotoId(f) = 0 /\ f \in disk)
    <3>1. frame' = [frame EXCEPT ![Io] =
            [frame[Io] EXCEPT !.more = left, !.file = f, !.todo = marks, !.at = "files"]]
      BY <2>2, Zenon DEF RestoreFile
    <3>2. "files" \in Places
      BY DEF Places
    <3> QED
      BY <3>1, <3>2, Zenon
  <2> QED
    BY <2>1, <2>2
<1>3. /\ marks \in SUBSET Mark /\ left \in SUBSET (Files \cup Entry)
      /\ left \subseteq frame[Io].more /\ \A m \in marks : <<f, m>> \in frame[Io].more
  BY <1>1 DEF Entry
<1> HIDE DEF marks, left
<1> DEFINE fr == [frame[Io] EXCEPT !.more = left, !.file = f, !.todo = marks, !.at = at]
<1>4. /\ fr \in FrameType
      /\ fr.more = left /\ fr.file = f /\ fr.todo = marks /\ fr.at = at
         /\ fr.call = frame[Io].call
  BY <1>0, <1>2, <1>3, FramesTyped DEF FrameType
<1>5. frame' = [frame EXCEPT ![Io] = fr]
  BY <1>2
<1> HIDE DEF fr
<1> QED
  BY <1>0, <1>2, <1>3, <1>4, <1>5, FramesTyped, Entering

LEMMA AddPhotoFrame ==
  ASSUME Typed, AddPhoto
  PROVE  /\ Frames' /\ Others(Io) /\ At(Io, "add")
         /\ \/ frame'[Io].at = "insert"
            \/ /\ frame'[Io].at = Loop("restore", frame[Io].todo)
               /\ Row(db.photos, frame'[Io].id, frame[Io].file)
         /\ frame'[Io].call = frame[Io].call /\ frame'[Io].file = frame[Io].file
         /\ frame'[Io].todo = frame[Io].todo /\ frame'[Io].more = frame[Io].more
         /\ frame'[Io].mark = frame[Io].mark
<1>0. Io \in Threads /\ At(Io, "add")
  BY DEF Threads, AddPhoto
<1>1. PICK id \in Nat, at \in Places :
         /\ frame' = [frame EXCEPT ![Io] = [frame[Io] EXCEPT !.id = id, !.at = at]]
         /\ \/ at = "insert"
            \/ at = Loop("restore", frame[Io].todo) /\ Row(db.photos, id, frame[Io].file)
  <2>1. CASE FindPhotoId(frame[Io].file) = 0
    <3>1. frame' = [frame EXCEPT ![Io] =
            [frame[Io] EXCEPT !.id = FindPhotoId(frame[Io].file), !.at = "insert"]]
      BY <2>1, Zenon DEF AddPhoto
    <3>2. "insert" \in Places
      BY DEF Places
    <3> QED
      BY <3>1, <3>2, FoundPhoto
  <2>2. CASE FindPhotoId(frame[Io].file) # 0
    <3>1. frame' = [frame EXCEPT ![Io] =
            [frame[Io] EXCEPT !.id = FindPhotoId(frame[Io].file),
                              !.at = Loop("restore", frame[Io].todo)]]
      BY <2>2, Zenon DEF AddPhoto
    <3> QED
      BY <2>2, <3>1, FoundPhoto, NextSteps
  <2> QED
    BY <2>1, <2>2
<1> DEFINE fr == [frame[Io] EXCEPT !.id = id, !.at = at]
<1>2. /\ fr \in FrameType
      /\ fr.id = id /\ fr.at = at /\ fr.call = frame[Io].call /\ fr.file = frame[Io].file
         /\ fr.todo = frame[Io].todo /\ fr.more = frame[Io].more /\ fr.mark = frame[Io].mark
  BY <1>0, <1>1, FramesTyped DEF FrameType
<1>3. frame' = [frame EXCEPT ![Io] = fr]
  BY <1>1
<1> HIDE DEF fr
<1> QED
  BY <1>0, <1>1, <1>2, <1>3, FramesTyped, Entering

LEMMA QueryTagsFrame ==
  ASSUME Typed, NEW t \in Threads, QueryTags(t)
  PROVE  /\ Frames' /\ Others(t) /\ At(t, "query")
         /\ frame'[t].at = "write" /\ frame'[t].call = frame[t].call
         /\ frame'[t].more \subseteq Entry
         /\ \A f \in Files, m \in Mark : <<f, m>> \in frame'[t].more <=> Carries(f, m)
<1>0. At(t, "query")
  BY Zenon DEF QueryTags
<1> DEFINE more == {e \in Files \X Mark : e[2] \in MarksOf(db, e[1])}
<1>1. frame' = [frame EXCEPT ![t] = [frame[t] EXCEPT !.at = "write", !.more = more]]
  BY Zenon DEF QueryTags
<1>2. /\ more \subseteq Entry
      /\ \A f \in Files, m \in Mark : <<f, m>> \in more <=> Carries(f, m)
  BY DEF Entry, Carries
<1> HIDE DEF more
<1>3. "write" \in Places /\ more \in SUBSET (Files \cup Entry)
  BY <1>2 DEF Places
<1> DEFINE fr == [frame[t] EXCEPT !.at = "write", !.more = more]
<1>4. /\ fr \in FrameType
      /\ fr.at = "write" /\ fr.more = more /\ fr.call = frame[t].call
  BY <1>3, FramesTyped DEF FrameType
<1>5. frame' = [frame EXCEPT ![t] = fr]
  BY <1>1
<1> HIDE DEF fr
<1> QED
  BY <1>0, <1>2, <1>4, <1>5, FramesTyped, Entering

LEMMA CaptureFrame ==
  ASSUME Typed, NEW f \in Files, Capture(f)
  PROVE  /\ Frames' /\ Others(Tether) /\ At(Tether, "idle")
         /\ frame'[Tether].call = "metadata" /\ frame'[Tether].at = "find"
         /\ frame'[Tether].file = f /\ frame'[Tether].todo = {}
<1>0. Tether \in Threads /\ At(Tether, "idle")
  BY DEF Threads, Capture, Operation
<1> DEFINE fr == [Idle EXCEPT !.call = "metadata", !.at = "find", !.file = f]
<1>1. "metadata" \in Calls /\ "find" \in Places /\ f \in Files \cup {None}
  BY DEF Calls, Places
<1>2. /\ fr \in FrameType
      /\ fr.call = "metadata" /\ fr.at = "find" /\ fr.file = f /\ fr.todo = {}
  BY <1>1, IdleType DEF FrameType
<1>3. frame' = [frame EXCEPT ![Tether] = fr]
  BY Zenon DEF Capture
<1> HIDE DEF fr
<1> QED
  BY <1>0, <1>2, <1>3, FramesTyped, Entering

LEMMA TakeMetadataFrame ==
  ASSUME Typed, TakeMetadata
  PROVE  /\ Frames' /\ Others(Io) /\ At(Io, "idle")
         /\ frame'[Io].call = "metadata" /\ frame'[Io].at = "find"
         /\ frame'[Io].file \in Files
         /\ \A m \in frame'[Io].todo : Automatic(m) /\ m.name \in AutoNames[frame'[Io].file]
<1>0. Io \in Threads /\ At(Io, "idle") /\ jobs.metadata # <<>>
  BY DEF Threads, TakeMetadata
<1>1. PICK f \in Files : f = Head(jobs.metadata)
  BY <1>0 DEF Typed, JobsType
<1> DEFINE todo == {[name |-> n, auto |-> TRUE] : n \in AutoNames[f]}
<1>2. frame' = [frame EXCEPT ![Io] =
        [Idle EXCEPT !.call = "metadata", !.at = "find", !.file = f, !.todo = todo]]
  BY <1>1, Zenon DEF TakeMetadata
<1>3. AutoNames[f] \subseteq Names
  BY LibraryAssumption
<1>4. todo \in SUBSET Mark /\ \A m \in todo : Automatic(m) /\ m.name \in AutoNames[f]
  <2>1. ASSUME NEW m \in todo
        PROVE  m \in Mark /\ Automatic(m) /\ m.name \in AutoNames[f]
    <3>1. PICK n \in AutoNames[f] : m = [name |-> n, auto |-> TRUE]
      OBVIOUS
    <3>2. m.auto = TRUE /\ m.name = n
      BY <3>1, Zenon
    <3>3. m \in Mark
      BY <1>3, <3>1 DEF Mark
    <3> QED
      BY <3>2, <3>3 DEF Automatic
  <2> QED
    BY <2>1
<1> HIDE DEF todo
<1> DEFINE fr == [Idle EXCEPT !.call = "metadata", !.at = "find", !.file = f, !.todo = todo]
<1>5. frame' = [frame EXCEPT ![Io] = fr]
  BY <1>2
<1>6. "metadata" \in Calls /\ "find" \in Places /\ f \in Files \cup {None}
  BY DEF Calls, Places
<1>7. /\ fr \in FrameType
      /\ fr.call = "metadata" /\ fr.at = "find" /\ fr.file = f /\ fr.todo = todo
  BY <1>4, <1>6, IdleType DEF FrameType
<1> HIDE DEF fr
<1> QED
  BY <1>0, <1>4, <1>5, <1>7, FramesTyped, Entering

LEMMA TagPhotosFrame ==
  ASSUME Typed, NEW files \in SUBSET disk, NEW name \in Names, TagPhotos(files, name)
  PROVE  /\ Frames' /\ Others(Main) /\ At(Main, "idle")
         /\ frame'[Main].call = "give" /\ frame'[Main].at = "tags" /\ frame'[Main].more = files
<1>1. Main \in Threads /\ At(Main, "idle") /\ files \in SUBSET Files
  BY DEF Threads, TagPhotos, Operation, Typed, TypeOK
<1>2. frame' = [frame EXCEPT ![Main] =
        [Idle EXCEPT !.call = "give", !.at = "tags",
                     !.todo = {[name |-> name, auto |-> FALSE]}, !.more = files]]
  BY Zenon DEF TagPhotos
<1> DEFINE todo == {[name |-> name, auto |-> FALSE]}
           fr == [Idle EXCEPT !.call = "give", !.at = "tags", !.todo = todo, !.more = files]
<1>3. todo \in SUBSET Mark
  BY DEF Mark
<1>4. frame' = [frame EXCEPT ![Main] = fr]
  BY <1>2
<1> HIDE DEF todo
<1>5. "give" \in Calls /\ "tags" \in Places /\ files \in SUBSET (Files \cup Entry)
  BY <1>1 DEF Calls, Places
<1>6. /\ fr \in FrameType
      /\ fr.call = "give" /\ fr.at = "tags" /\ fr.more = files
  BY <1>3, <1>5, IdleType DEF FrameType
<1> HIDE DEF fr
<1> QED
  BY <1>1, <1>4, <1>6, FramesTyped, Entering

LEMMA RemoveTagFrame ==
  ASSUME Typed, NEW f \in Files, NEW name \in Names, RemoveTag(f, name)
  PROVE  /\ Frames' /\ Others(Main) /\ At(Main, "idle")
         /\ frame'[Main].at = "delete" /\ frame'[Main].call = frame[Main].call
<1>1. Main \in Threads /\ At(Main, "idle")
  BY DEF Threads, RemoveTag, Operation
<1>2. PICK id \in Nat, tag \in Nat :
         frame' = [frame EXCEPT ![Main] =
           [frame[Main] EXCEPT !.at = "delete", !.file = f, !.id = id, !.tag = tag]]
  BY FoundPhoto, FoundTag, Zenon DEF RemoveTag
<1> DEFINE fr == [frame[Main] EXCEPT !.at = "delete", !.file = f, !.id = id, !.tag = tag]
<1>3. "delete" \in Places /\ f \in Files \cup {None}
  BY DEF Places
<1>4. /\ fr \in FrameType
      /\ fr.at = "delete" /\ fr.call = frame[Main].call
  BY <1>1, <1>3, FramesTyped DEF FrameType
<1>5. frame' = [frame EXCEPT ![Main] = fr]
  BY <1>2
<1> HIDE DEF fr
<1> QED
  BY <1>1, <1>4, <1>5, FramesTyped, Entering

LEMMA DeleteMarkFrame ==
  ASSUME Typed, DeleteMark
  PROVE  /\ Frames' /\ Others(Main) /\ At(Main, "delete")
         /\ frame'[Main].at = "backup" /\ frame'[Main].call = None
<1>1. Main \in Threads /\ At(Main, "delete")
  BY Zenon DEF Threads, DeleteMark
<1> DEFINE fr == [Idle EXCEPT !.at = "backup"]
<1>2. frame' = [frame EXCEPT ![Main] = fr]
  BY Zenon DEF DeleteMark
<1>3. fr \in FrameType /\ fr.at = "backup" /\ fr.call = None
  BY DEF Idle, FrameType, Places, Calls
<1> HIDE DEF fr
<1> QED
  BY <1>1, <1>2, <1>3, FramesTyped, Entering

(* What the worker does with a job of tagging.                             *)
LEMMA TakeTaggingFrame ==
  ASSUME Typed, Placed, TakeTagging
  PROVE  /\ Frames' /\ Others(Io) /\ At(Io, "idle")
         /\ \/ frame'[Io].at = "backup" /\ frame'[Io].call = None
            \/ frame'[Io].at = "read" /\ frame'[Io].call = "restore"
            \/ frame' = frame
<1>0. Io \in Threads /\ At(Io, "idle")
  BY Zenon DEF Threads, TakeTagging
<1>1. frame[Io].call = None
  BY <1>0 DEF Placed, Busy, Idle
<1>2. CASE Goto(Io, "backup")
  <2>1. "backup" \in Places
    BY DEF Places
  <2> QED
    BY <1>0, <1>1, <1>2, <2>1, FramesTyped, Going DEF SameCall
<1>3. CASE frame' = [frame EXCEPT ![Io] = [frame[Io] EXCEPT !.call = "restore", !.at = "read"]]
  <2> DEFINE fr == [frame[Io] EXCEPT !.call = "restore", !.at = "read"]
  <2>1. "restore" \in Calls /\ "read" \in Places
    BY DEF Calls, Places
  <2>2. fr \in FrameType /\ fr.call = "restore" /\ fr.at = "read"
    BY <1>0, <2>1, FramesTyped DEF FrameType
  <2>3. frame' = [frame EXCEPT ![Io] = fr]
    BY <1>3
  <2> HIDE DEF fr
  <2> QED
    BY <1>0, <2>2, <2>3, FramesTyped, Entering
<1>4. CASE frame' = frame
  BY <1>0, <1>4, FramesTyped DEF Frames, Others
<1> QED
  BY <1>2, <1>3, <1>4, Zenon DEF TakeTagging
-----------------------------------------------------------------------------
(* The tables: rows are added, and what they say stays true.               *)

(* The rows of d are those of e too.                                       *)
Kept(d, e) ==
  /\ \A i \in DOMAIN d.photos : Row(e.photos, i, d.photos[i])
  /\ \A i \in DOMAIN d.tags : Row(e.tags, i, d.tags[i])

LEMMA KeptRow ==
  ASSUME NEW d, NEW e, Kept(d, e), NEW i, NEW v
  PROVE  /\ Row(d.photos, i, v) => Row(e.photos, i, v)
         /\ Row(d.tags, i, v) => Row(e.tags, i, v)
BY DEF Kept, Row

LEMMA KeptSame ==
  ASSUME NEW d
  PROVE  Kept(d, d)
BY DEF Kept, Row

(* Users give more and more.                                               *)
LEMMA RightGrows ==
  ASSUME NEW g, NEW h, g \subseteq h, NEW f, NEW name, NEW auto, Right(g, f, name, auto)
  PROVE  Right(h, f, name, auto)
BY DEF Right

LEMMA TruthGrows ==
  ASSUME NEW g, NEW h, g \subseteq h, NEW d, Truthful(g, d)
  PROVE  Truthful(h, d)
BY DEF Truthful, Right

LEMMA TabledParts ==
  ASSUME NEW d, Tabled(d)
  PROVE  /\ d.photos \in Seq(Files) /\ d.sums \in Seq(Files \cup {None}) /\ d.tags \in Seq(Names)
         /\ d.marks \in SUBSET Links
         /\ Len(d.sums) = Len(d.photos) /\ IsFiniteSet(d.marks)
BY DEF Tabled, Tables

(* A mark of a photo in a library is one in another that has the same rows *)
(* for it, and the other way round.                                        *)
LEMMA SameMarks ==
  ASSUME NEW g, NEW d, NEW e, Truthful(g, d), Kept(d, e), e.marks = d.marks, NEW f
  PROVE  MarksOf(e, f) = MarksOf(d, f)
<1>1. \A k \in d.marks : e.photos[k.photo] = d.photos[k.photo] /\ e.tags[k.tag] = d.tags[k.tag]
  BY DEF Truthful, Kept, Row
<1>2. {k \in e.marks : e.photos[k.photo] = f} = {k \in d.marks : d.photos[k.photo] = f}
  BY <1>1
<1> QED
  BY <1>1, <1>2 DEF MarksOf

WithPhoto(d, f) == [d EXCEPT !.photos = Append(d.photos, f), !.sums = Append(d.sums, None)]

WithTag(d, name) == [d EXCEPT !.tags = Append(d.tags, name)]

WithMark(d, k) == [d EXCEPT !.marks = d.marks \cup {k}]

WithSum(d, id, f) == [d EXCEPT !.sums = [i \in DOMAIN d.sums |-> IF i = id THEN f ELSE d.sums[i]]]

WithMarks(d, marks) == [d EXCEPT !.marks = marks]

LEMMA PhotoAdded ==
  ASSUME NEW g, NEW d, Tabled(d), Truthful(g, d), NEW f \in Files
  PROVE  /\ Tabled(WithPhoto(d, f)) /\ Kept(d, WithPhoto(d, f)) /\ Truthful(g, WithPhoto(d, f)) /\ WithPhoto(d, f).marks = d.marks
         /\ Len(d.photos) + 1 \in Nat /\ Row(WithPhoto(d, f).photos, Len(d.photos) + 1, f)
<1> DEFINE e == WithPhoto(d, f)
<1>0. e = [d EXCEPT !.photos = Append(d.photos, f), !.sums = Append(d.sums, None)]
  BY DEF WithPhoto
<1> HIDE DEF e
<1>1. /\ d.photos \in Seq(Files) /\ d.sums \in Seq(Files \cup {None}) /\ d.tags \in Seq(Names)
      /\ d.marks \in SUBSET Links
      /\ Len(d.sums) = Len(d.photos) /\ IsFiniteSet(d.marks)
  BY TabledParts
<1> DEFINE photos == Append(d.photos, f)
           sums == Append(d.sums, None)
<1>2. /\ photos \in Seq(Files) /\ sums \in Seq(Files \cup {None})
      /\ Len(sums) = Len(photos) /\ Len(photos) = Len(d.photos) + 1
      /\ \A i \in DOMAIN d.photos : i \in DOMAIN photos /\ photos[i] = d.photos[i]
      /\ \A i \in DOMAIN d.photos : i \in DOMAIN d.sums /\ sums[i] = d.sums[i]
      /\ Len(photos) \in DOMAIN photos /\ photos[Len(photos)] = f
      /\ sums[Len(photos)] = None
      /\ \A i \in DOMAIN photos : i \in DOMAIN d.photos \/ i = Len(photos)
  BY <1>1
<1> HIDE DEF photos, sums
<1>3. /\ e.photos = photos /\ e.sums = sums /\ e.tags = d.tags /\ e.marks = d.marks
      /\ e \in Tables
  BY <1>0, <1>1, <1>2 DEF Tabled, Tables, photos, sums
<1>4. Tabled(e)
  BY <1>1, <1>2, <1>3 DEF Tabled
<1>5. Kept(d, e)
  BY <1>2, <1>3 DEF Kept, Row
<1>6. Truthful(g, e)
  <2>1. \A k \in e.marks : /\ k.photo \in DOMAIN e.photos /\ k.tag \in DOMAIN e.tags
                           /\ Right(g, e.photos[k.photo], e.tags[k.tag], k.auto)
    BY <1>2, <1>3 DEF Truthful
  <2>2. \A i \in DOMAIN e.photos : e.sums[i] \in {None, e.photos[i]}
    BY <1>2, <1>3 DEF Truthful
  <2> QED
    BY <2>1, <2>2 DEF Truthful
<1> QED
  BY <1>1, <1>2, <1>3, <1>4, <1>5, <1>6 DEF Row, e

LEMMA TagAdded ==
  ASSUME NEW g, NEW d, Tabled(d), Truthful(g, d), NEW name \in Names
  PROVE  /\ Tabled(WithTag(d, name)) /\ Kept(d, WithTag(d, name)) /\ Truthful(g, WithTag(d, name)) /\ WithTag(d, name).marks = d.marks
         /\ Len(d.tags) + 1 \in Nat /\ Row(WithTag(d, name).tags, Len(d.tags) + 1, name)
<1> DEFINE e == WithTag(d, name)
<1>0. e = [d EXCEPT !.tags = Append(d.tags, name)]
  BY DEF WithTag
<1> HIDE DEF e
<1>1. /\ d.photos \in Seq(Files) /\ d.sums \in Seq(Files \cup {None}) /\ d.tags \in Seq(Names)
      /\ d.marks \in SUBSET Links
      /\ Len(d.sums) = Len(d.photos) /\ IsFiniteSet(d.marks)
  BY TabledParts
<1> DEFINE tags == Append(d.tags, name)
<1>2. /\ tags \in Seq(Names) /\ Len(tags) = Len(d.tags) + 1
      /\ \A i \in DOMAIN d.tags : i \in DOMAIN tags /\ tags[i] = d.tags[i]
      /\ Len(tags) \in DOMAIN tags /\ tags[Len(tags)] = name
  BY <1>1
<1> HIDE DEF tags
<1>3. /\ e.photos = d.photos /\ e.sums = d.sums /\ e.tags = tags /\ e.marks = d.marks
      /\ e \in Tables
  BY <1>0, <1>1, <1>2 DEF Tabled, Tables, tags
<1>4. Tabled(e)
  BY <1>1, <1>2, <1>3 DEF Tabled
<1>5. Kept(d, e)
  BY <1>2, <1>3 DEF Kept, Row
<1>6. Truthful(g, e)
  BY <1>2, <1>3 DEF Truthful
<1> QED
  BY <1>1, <1>2, <1>3, <1>4, <1>5, <1>6 DEF Row, e

LEMMA MarkAdded ==
  ASSUME NEW g, NEW d, Tabled(d), Truthful(g, d), NEW k \in Links, NEW f, NEW name,
         Row(d.photos, k.photo, f), Row(d.tags, k.tag, name), Right(g, f, name, k.auto)
  PROVE  /\ Tabled(WithMark(d, k)) /\ Kept(d, WithMark(d, k)) /\ Truthful(g, WithMark(d, k))
         /\ Cardinality(WithMark(d, k).marks) \in Nat
         /\ k.auto = TRUE => \A x, m : ~ Automatic(m) => (m \in MarksOf(WithMark(d, k), x) <=> m \in MarksOf(d, x))
<1> DEFINE e == WithMark(d, k)
<1>0. e = [d EXCEPT !.marks = d.marks \cup {k}]
  BY DEF WithMark
<1> HIDE DEF e
<1>1. /\ d.photos \in Seq(Files) /\ d.sums \in Seq(Files \cup {None}) /\ d.tags \in Seq(Names)
      /\ d.marks \in SUBSET Links
      /\ Len(d.sums) = Len(d.photos) /\ IsFiniteSet(d.marks)
  BY TabledParts
<1> DEFINE marks == d.marks \cup {k}
<1>4. e = [d EXCEPT !.marks = marks]
  BY <1>0
<1>5. /\ e.photos = d.photos /\ e.sums = d.sums /\ e.tags = d.tags
      /\ e.marks = d.marks \cup {k} /\ e \in Tables
  <2>1. marks \in SUBSET Links
    BY <1>1
  <2>2. marks = d.marks \cup {k}
    OBVIOUS
  <2> HIDE DEF marks
  <2> QED
    BY <1>1, <1>4, <2>1, <2>2 DEF Tabled, Tables
<1>6. IsFiniteSet(e.marks) /\ Cardinality(e.marks) \in Nat
  <2>1. IsFiniteSet(d.marks \cup {k})
    BY <1>1, FS_AddElement, Zenon
  <2>2. IsFiniteSet(e.marks)
    BY <1>5, <2>1, Zenon
  <2> QED
    BY <2>2, FS_CardinalityType, Zenon
<1>7. Tabled(e)
  BY <1>1, <1>5, <1>6 DEF Tabled
<1>8. Kept(d, e)
  BY <1>5 DEF Kept, Row
<1>9. Truthful(g, e)
  <2>1. ASSUME NEW h \in e.marks
        PROVE  /\ h.photo \in DOMAIN e.photos /\ h.tag \in DOMAIN e.tags
               /\ Right(g, e.photos[h.photo], e.tags[h.tag], h.auto)
    <3>1. CASE h \in d.marks
      BY <1>5, <3>1 DEF Truthful
    <3>2. CASE h = k
      BY <1>5, <3>2 DEF Row
    <3> QED
      BY <1>5, <3>1, <3>2
  <2>2. \A i \in DOMAIN e.photos : e.sums[i] \in {None, e.photos[i]}
    BY <1>5 DEF Truthful
  <2> QED
    BY <2>1, <2>2 DEF Truthful
<1>10. ASSUME k.auto = TRUE, NEW x, NEW m, ~ Automatic(m)
       PROVE  m \in MarksOf(e, x) <=> m \in MarksOf(d, x)
  <2>1. ASSUME m \in MarksOf(e, x)
        PROVE  m \in MarksOf(d, x)
    <3>1. PICK h \in e.marks : e.photos[h.photo] = x /\ m = [name |-> e.tags[h.tag], auto |-> h.auto]
      BY <2>1 DEF MarksOf
    <3>2. m.auto = h.auto
      BY <3>1, Zenon
    <3>3. h # k
      BY <1>10, <3>2 DEF Automatic
    <3> QED
      BY <1>5, <3>1, <3>3 DEF MarksOf
  <2>2. ASSUME m \in MarksOf(d, x)
        PROVE  m \in MarksOf(e, x)
    BY <1>5, <2>2 DEF MarksOf
  <2> QED
    BY <2>1, <2>2
<1> QED
  BY <1>6, <1>7, <1>8, <1>9, <1>10 DEF e

LEMMA SumMade ==
  ASSUME NEW g, NEW d, Tabled(d), Truthful(g, d), NEW id, NEW f \in Files, Row(d.photos, id, f)
  PROVE  Tabled(WithSum(d, id, f)) /\ Kept(d, WithSum(d, id, f)) /\ Truthful(g, WithSum(d, id, f)) /\ WithSum(d, id, f).marks = d.marks
<1> DEFINE e == WithSum(d, id, f)
<1>0. e = [d EXCEPT !.sums = [i \in DOMAIN d.sums |-> IF i = id THEN f ELSE d.sums[i]]]
  BY DEF WithSum
<1> HIDE DEF e
<1>1. /\ d.photos \in Seq(Files) /\ d.sums \in Seq(Files \cup {None}) /\ d.tags \in Seq(Names)
      /\ d.marks \in SUBSET Links
      /\ Len(d.sums) = Len(d.photos) /\ IsFiniteSet(d.marks)
  BY TabledParts
<1> DEFINE sums == [i \in DOMAIN d.sums |-> IF i = id THEN f ELSE d.sums[i]]
<1>2. /\ sums \in Seq(Files \cup {None}) /\ Len(sums) = Len(d.photos)
      /\ DOMAIN sums = DOMAIN d.photos
      /\ \A i \in DOMAIN d.sums : sums[i] = d.sums[i] \/ (i = id /\ sums[i] = f)
  <2>1. DOMAIN d.sums = 1 .. Len(d.sums) /\ DOMAIN d.photos = 1 .. Len(d.photos) /\ Len(d.sums) \in Nat
    BY <1>1
  <2>2. ASSUME NEW i \in DOMAIN d.sums
        PROVE  /\ sums[i] = d.sums[i] \/ (i = id /\ sums[i] = f)
               /\ sums[i] \in Files \cup {None}
    <3>1. d.sums[i] \in Files \cup {None}
      BY <1>1
    <3>2. CASE i = id
      BY <3>2
    <3>3. CASE i # id
      BY <3>1, <3>3
    <3> QED
      BY <3>2, <3>3
  <2>3. DOMAIN sums = 1 .. Len(d.sums)
    BY <2>1
  <2>4. sums \in [1 .. Len(d.sums) -> Files \cup {None}]
    <3>1. sums = [i \in DOMAIN sums |-> sums[i]]
      OBVIOUS
    <3> HIDE DEF sums
    <3> QED
      BY <2>1, <2>2, <2>3, <3>1
  <2> HIDE DEF sums
  <2>5. sums \in Seq(Files \cup {None})
    BY <2>1, <2>4
  <2>6. Len(sums) = Len(d.sums)
    BY <2>1, <2>3, <2>5
  <2> QED
    BY <1>1, <2>1, <2>2, <2>3, <2>5, <2>6
<1> HIDE DEF sums
<1>3. e = [d EXCEPT !.sums = sums]
  BY <1>0 DEF sums
<1>4. /\ e.photos = d.photos /\ e.sums = sums /\ e.tags = d.tags /\ e.marks = d.marks
      /\ e \in Tables
  BY <1>1, <1>2, <1>3 DEF Tabled, Tables
<1>5. Tabled(e)
  BY <1>1, <1>2, <1>4 DEF Tabled
<1>6. Kept(d, e)
  BY <1>4 DEF Kept, Row
<1>7. Truthful(g, e)
  <2>1. \A k \in e.marks : /\ k.photo \in DOMAIN e.photos /\ k.tag \in DOMAIN e.tags
                           /\ Right(g, e.photos[k.photo], e.tags[k.tag], k.auto)
    BY <1>4 DEF Truthful
  <2>2. ASSUME NEW i \in DOMAIN e.photos
        PROVE  e.sums[i] \in {None, e.photos[i]}
    <3>1. i \in DOMAIN d.photos /\ i \in DOMAIN d.sums
      BY <1>1, <1>2, <1>4
    <3> QED
      BY <1>2, <1>4, <3>1 DEF Truthful, Row
  <2> QED
    BY <2>1, <2>2 DEF Truthful
<1> QED
  BY <1>4, <1>5, <1>6, <1>7 DEF e

LEMMA MarksTaken ==
  ASSUME NEW g, NEW d, Tabled(d), Truthful(g, d), NEW marks \in SUBSET d.marks
  PROVE  Tabled(WithMarks(d, marks)) /\ Kept(d, WithMarks(d, marks)) /\ Truthful(g, WithMarks(d, marks))
<1> DEFINE e == WithMarks(d, marks)
<1>0. e = [d EXCEPT !.marks = marks]
  BY DEF WithMarks
<1> HIDE DEF e
<1>1. /\ d.photos \in Seq(Files) /\ d.sums \in Seq(Files \cup {None}) /\ d.tags \in Seq(Names)
      /\ d.marks \in SUBSET Links
      /\ Len(d.sums) = Len(d.photos) /\ IsFiniteSet(d.marks)
  BY TabledParts
<1>2. /\ e.photos = d.photos /\ e.sums = d.sums /\ e.tags = d.tags /\ e.marks = marks
      /\ e \in Tables
  BY <1>0, <1>1 DEF Tabled, Tables
<1>3. IsFiniteSet(marks)
  BY <1>1, FS_Subset
<1> QED
  BY <1>1, <1>2, <1>3 DEF Tabled, Kept, Truthful, Row, e
-----------------------------------------------------------------------------
(* What the actions do to the tables.                                      *)

(* In a call of this kind, at this step.                                   *)
LEMMA CallOf ==
  ASSUME Placed, NEW t \in Threads
  PROVE  /\ frame[t].at \in {"find", "add", "insert", "id", "begin", "mark"} => Adding(t)
         /\ frame[t].at \in {"tags", "new_tag", "tag_id"} => Adding(t) \/ frame[t].call = "give"
         /\ frame[t].at = "queue" => frame[t].call = "give"
         /\ frame[t].at = "commit" => frame[t].call = "metadata"
         /\ frame[t].at \in {"find", "begin"} => frame[t].call = "metadata"
         /\ frame[t].at \in {"read", "files", "add"} => frame[t].call = "restore" /\ t = Io
         /\ Adding(t) \/ At(t, "commit") => frame[t].file \in Files
<1>1. CallAt(frame[t].call, frame[t].at)
  BY DEF Placed, Busy
<1>2. Restores(t) \/ At(t, "read") => t = Io
  BY DEF Placed, Busy
<1>3. Adding(t) \/ At(t, "commit") => frame[t].file \in Files
  BY DEF Placed, Busy
<1> QED
  BY <1>1, <1>2, <1>3 DEF CallAt, Marking, TagSteps, Adding, Restores, At

LEMMA UserMarkIs ==
  ASSUME NEW m \in UserMarks
  PROVE  m \in Mark /\ ~ Automatic(m)
<1>1. m \in Mark /\ m.auto = FALSE
  BY DEF UserMarks, Mark
<1>2. m.auto # TRUE
  BY <1>1, Zenon
<1> QED
  BY <1>1, <1>2 DEF Automatic

LEMMA AutomaticOrUser ==
  ASSUME NEW m \in Mark, ~ Automatic(m)
  PROVE  m \in UserMarks
<1>1. m.auto \in BOOLEAN
  BY DEF Mark
<1>2. ~ m.auto
  BY <1>1, Zenon DEF Automatic
<1> QED
  BY <1>2, Zenon DEF UserMarks

(* The tables, the last row id and what users gave, after a step.          *)
Advanced ==
  /\ Tabled(db') /\ Kept(db, db') /\ Truthful(given', db') /\ given \subseteq given'
  /\ rowid' \in Nat /\ (rowid' = rowid \/ idLock = None)

(* The photos have the marks of users that they had.                       *)
Retained == \A f \in Files, m \in UserMarks : m \in MarksOf(db', f) <=> m \in MarksOf(db, f)

LEMMA NothingAdded ==
  ASSUME Typed, Rows, db' = db, rowid' = rowid, given \subseteq given'
  PROVE  Advanced /\ Retained
<1>1. Tabled(db) /\ Truthful(given, db) /\ rowid \in Nat
  BY DEF Typed, TypeOK, Rows
<1>2. Kept(db, db) /\ Truthful(given', db)
  BY <1>1, KeptSame, TruthGrows
<1> QED
  BY <1>1, <1>2 DEF Advanced, Retained

LEMMA InsertPhotoAdds ==
  ASSUME Typed, Placed, Rows, NEW t \in Threads, InsertPhoto(t)
  PROVE  /\ Advanced /\ Retained
         /\ At(t, "insert") /\ idLock = None /\ idLock' = t
         /\ Row(db'.photos, rowid', frame[t].file)
<1>1. /\ At(t, "insert") /\ idLock = None /\ idLock' = t
      /\ db' = WithPhoto(db, frame[t].file)
      /\ rowid' = Len(db.photos) + 1 /\ given' = given
  BY Zenon DEF InsertPhoto, WithPhoto, history
<1>2. frame[t].file \in Files
  BY <1>1, CallOf DEF At
<1>3. Tabled(db) /\ Truthful(given, db)
  BY DEF Typed, Rows
<1>4. /\ Tabled(db') /\ Kept(db, db') /\ Truthful(given, db') /\ db'.marks = db.marks
      /\ Len(db.photos) + 1 \in Nat /\ Row(db'.photos, Len(db.photos) + 1, frame[t].file)
  BY <1>1, <1>2, <1>3, PhotoAdded
<1>5. \A f : MarksOf(db', f) = MarksOf(db, f)
  BY <1>3, <1>4, SameMarks
<1> QED
  BY <1>1, <1>4, <1>5 DEF Advanced, Retained

LEMMA InsertTagAdds ==
  ASSUME Typed, Placed, Rows, NEW t \in Threads, InsertTag(t)
  PROVE  /\ Advanced /\ Retained
         /\ At(t, "new_tag") /\ idLock = None /\ idLock' = t
         /\ Row(db'.tags, rowid', frame[t].mark.name)
<1>1. /\ At(t, "new_tag") /\ idLock = None /\ idLock' = t
      /\ db' = WithTag(db, frame[t].mark.name)
      /\ rowid' = Len(db.tags) + 1 /\ given' = given
  BY Zenon DEF InsertTag, WithTag, history
<1>2. frame[t].mark.name \in Names
  BY <1>1 DEF At, Placed, Busy, TagSteps, Mark
<1>3. Tabled(db) /\ Truthful(given, db)
  BY DEF Typed, Rows
<1>4. /\ Tabled(db') /\ Kept(db, db') /\ Truthful(given, db') /\ db'.marks = db.marks
      /\ Len(db.tags) + 1 \in Nat /\ Row(db'.tags, Len(db.tags) + 1, frame[t].mark.name)
  BY <1>1, <1>2, <1>3, TagAdded
<1>5. \A f : MarksOf(db', f) = MarksOf(db, f)
  BY <1>3, <1>4, SameMarks
<1> QED
  BY <1>1, <1>4, <1>5 DEF Advanced, Retained

(* A mark of the metadata changes nothing of those users gave.             *)
LEMMA InsertMarkAdds ==
  ASSUME Typed, Placed, Rows, InHand, NEW t \in Threads, InsertMark(t)
  PROVE  /\ Advanced /\ At(t, "mark") /\ idLock = None
         /\ Automatic(frame[t].mark) => Retained
<1>1. /\ At(t, "mark") /\ idLock = None /\ given' = given
      /\ db' = [db EXCEPT !.marks =
           db.marks \cup {[photo |-> frame[t].id, tag |-> frame[t].tag, auto |-> frame[t].mark.auto]}]
      /\ rowid' = Cardinality(db'.marks)
  BY Zenon DEF InsertMark, AddMark, history
<1>2. Adding(t) /\ frame[t].at \in TagSteps /\ frame[t].at \in Marking
  BY <1>1, CallOf DEF At, TagSteps, Marking
<1>3. frame[t].mark \in Mark /\ frame[t].id \in Nat /\ frame[t].tag \in Nat
  BY <1>2, FramesTyped DEF Placed, Busy, FrameType
<1>4. /\ Row(db.photos, frame[t].id, frame[t].file)
      /\ Row(db.tags, frame[t].tag, frame[t].mark.name)
      /\ Right(given, frame[t].file, frame[t].mark.name, frame[t].mark.auto)
  BY <1>1, <1>2 DEF InHand, Honest, At, Rightful
<1>5. PICK k \in Links :
         k = [photo |-> frame[t].id, tag |-> frame[t].tag, auto |-> frame[t].mark.auto]
  BY <1>3 DEF Links, Mark
<1>6. k.photo = frame[t].id /\ k.tag = frame[t].tag /\ k.auto = frame[t].mark.auto
  BY <1>5, Zenon
<1>7. db' = WithMark(db, k)
  BY <1>1, <1>5, Zenon DEF WithMark
<1>8. Tabled(db) /\ Truthful(given, db)
  BY DEF Typed, Rows
<1>9. /\ Row(db.photos, k.photo, frame[t].file) /\ Row(db.tags, k.tag, frame[t].mark.name)
      /\ Right(given, frame[t].file, frame[t].mark.name, k.auto)
  BY <1>4, <1>6, Zenon
<1>10. /\ Tabled(db') /\ Kept(db, db') /\ Truthful(given, db')
       /\ Cardinality(db'.marks) \in Nat
       /\ k.auto = TRUE =>
            \A x, m : ~ Automatic(m) => (m \in MarksOf(db', x) <=> m \in MarksOf(db, x))
  BY <1>7, <1>8, <1>9, MarkAdded
<1>11. Advanced
  BY <1>1, <1>10, Zenon DEF Advanced
<1>12. ASSUME Automatic(frame[t].mark)
       PROVE  Retained
  <2>1. k.auto = TRUE
    BY <1>6, <1>12, Zenon DEF Automatic
  <2> QED
    BY <1>10, <2>1, UserMarkIs, Zenon DEF Retained
<1> QED
  BY <1>1, <1>11, <1>12, Zenon

LEMMA TakeChecksumAdds ==
  ASSUME Typed, Rows, TakeChecksum
  PROVE  Advanced /\ Retained /\ frame' = frame
<1>1. /\ jobs.checksum # <<>> /\ rowid' = rowid /\ given' = given /\ frame' = frame
      /\ db' = [db EXCEPT !.sums = [i \in DOMAIN db.sums |->
                  IF i = Head(jobs.checksum).id THEN Head(jobs.checksum).file ELSE db.sums[i]]]
  BY Zenon DEF TakeChecksum, history
<1>2. jobs.checksum \in Seq(SumJob)
  BY DEF Typed, JobsType
<1>3. 1 \in DOMAIN jobs.checksum /\ Head(jobs.checksum) = jobs.checksum[1]
  BY <1>1, <1>2
<1>4. PICK job \in SumJob : job = Head(jobs.checksum) /\ Row(db.photos, job.id, job.file)
  <2>1. Row(db.photos, jobs.checksum[1].id, jobs.checksum[1].file)
    BY <1>3 DEF Rows, Summed
  <2>2. jobs.checksum[1] \in SumJob
    BY <1>2, <1>3
  <2> QED
    BY <1>3, <2>1, <2>2
<1>5. db' = WithSum(db, job.id, job.file)
  BY <1>1, <1>4, Zenon DEF WithSum
<1>6. Tabled(db) /\ Truthful(given, db) /\ job.file \in Files /\ rowid \in Nat
  BY DEF Typed, TypeOK, Rows, SumJob
<1>7. Tabled(db') /\ Kept(db, db') /\ Truthful(given, db') /\ db'.marks = db.marks
  BY <1>4, <1>5, <1>6, SumMade
<1>8. \A f : MarksOf(db', f) = MarksOf(db, f)
  BY <1>6, <1>7, SameMarks
<1> QED
  BY <1>1, <1>6, <1>7, <1>8 DEF Advanced, Retained

LEMMA DeleteMarkAdds ==
  ASSUME Typed, Rows, DeleteMark
  PROVE  Advanced
<1>1. PICK marks \in SUBSET db.marks : db' = WithMarks(db, marks)
  <2> DEFINE marks == {k \in db.marks : k.photo # frame[Main].id \/ k.tag # frame[Main].tag}
  <2>1. db' = WithMarks(db, marks)
    BY Zenon DEF DeleteMark, WithMarks
  <2>2. marks \in SUBSET db.marks
    OBVIOUS
  <2> QED
    BY <2>1, <2>2
<1>2. Tabled(db) /\ Truthful(given, db) /\ rowid \in Nat
  BY DEF Typed, TypeOK, Rows
<1>3. rowid' = rowid /\ given' = given
  BY Zenon DEF DeleteMark, history
<1>4. Tabled(db') /\ Kept(db, db') /\ Truthful(given, db')
  BY <1>1, <1>2, MarksTaken
<1> QED
  BY <1>2, <1>3, <1>4 DEF Advanced

(* The first job of tagging.                                               *)
LEMMA TaggingJob ==
  ASSUME Typed, jobs.tagging # <<>>
  PROVE  /\ 1 \in DOMAIN jobs.tagging /\ Head(jobs.tagging) = jobs.tagging[1]
         /\ Head(jobs.tagging) \in Job
         /\ DOMAIN Tail(jobs.tagging) = {i \in Nat \ {0} : i + 1 \in DOMAIN jobs.tagging}
         /\ \A i \in DOMAIN Tail(jobs.tagging) : Tail(jobs.tagging)[i] = jobs.tagging[i + 1]
         /\ Tail(jobs.tagging) \in Seq(Job)
<1>1. jobs.tagging \in Seq(Job)
  BY DEF Typed, JobsType
<1> QED
  BY <1>1

LEMMA TakeTaggingAdds ==
  ASSUME Typed, Rows, TakeTagging
  PROVE  /\ Advanced
         /\ Head(jobs.tagging).what # "tag" => db' = db
<1>1. /\ jobs.tagging # <<>> /\ given' = given
      /\ \/ Head(jobs.tagging).what = "backup" /\ Goto(Io, "backup") /\ UNCHANGED <<db, rowid>>
         \/ Head(jobs.tagging).what = "restore" /\ UNCHANGED <<db, rowid>>
         \/ Head(jobs.tagging).what = "tag" /\ GiveTag(Head(jobs.tagging)) /\ UNCHANGED frame
  BY Zenon DEF TakeTagging, history
<1>2. CASE UNCHANGED <<db, rowid>>
  BY <1>1, <1>2, NothingAdded
<1>3. CASE Head(jobs.tagging).what = "tag" /\ GiveTag(Head(jobs.tagging)) /\ ~ UNCHANGED <<db, rowid>>
  <2>1. PICK job \in Job : job = Head(jobs.tagging) /\ job = jobs.tagging[1]
    BY <1>1, TaggingJob
  <2>2. job.what = "tag" /\ GiveTag(job)
    BY <1>3, <2>1
  <2>3. /\ job.id \in DOMAIN db.tags /\ job.file \in Files
        /\ <<job.file, db.tags[job.id]>> \in given
    BY <1>1, <2>1, <2>2, TaggingJob DEF Rows, Tagged
  <2>4. /\ db' = [db EXCEPT !.marks = db.marks \cup
                    {[photo |-> FindPhotoId(job.file), tag |-> job.id, auto |-> FALSE]}]
        /\ rowid' = Cardinality(db'.marks) /\ idLock = None /\ FindPhotoId(job.file) > 0
    BY <1>3, <2>2, Zenon DEF GiveTag, AddMark
  <2>5. PICK id \in Nat : id = FindPhotoId(job.file) /\ Row(db.photos, id, job.file)
    BY <2>4, FoundPhoto
  <2>6. job.id \in Nat /\ Row(db.tags, job.id, db.tags[job.id])
    BY <2>3 DEF Job, Row
  <2>7. PICK k \in Links : k = [photo |-> id, tag |-> job.id, auto |-> FALSE]
    BY <2>6 DEF Links
  <2>8. k.photo = id /\ k.tag = job.id /\ k.auto = FALSE
    BY <2>7, Zenon
  <2>9. db' = WithMark(db, k)
    BY <2>4, <2>5, <2>7, Zenon DEF WithMark
  <2>10. k.auto # TRUE
    BY <2>8, Zenon
  <2>11. /\ Row(db.photos, k.photo, job.file) /\ Row(db.tags, k.tag, db.tags[job.id])
         /\ Right(given, job.file, db.tags[job.id], k.auto)
    BY <2>3, <2>5, <2>6, <2>8, <2>10, Zenon DEF Right
  <2>12. Tabled(db) /\ Truthful(given, db)
    BY DEF Typed, Rows
  <2>13. Tabled(db') /\ Kept(db, db') /\ Truthful(given, db') /\ Cardinality(db'.marks) \in Nat
    BY <2>9, <2>11, <2>12, MarkAdded
  <2>14. Advanced
    BY <1>1, <2>4, <2>13, Zenon DEF Advanced
  <2> QED
    BY <1>1, <2>2, <2>1, <2>14, Zenon
<1> QED
  BY <1>1, <1>2, <1>3
-----------------------------------------------------------------------------
(* A thread at work: its place, its locks and what it has in hand.         *)

Fine(t) == Busy(t) /\ Holding(t) /\ Honest(t)

AllFine == \A t \in Threads : Fine(t)

LEMMA FineIs == AllFine <=> Placed /\ Locked /\ InHand
BY DEF AllFine, Fine, Placed, Locked, InHand

(* What a step of one thread may do to the locks and to the file.          *)
LocksMove(t) ==
  /\ idLock' = idLock \/ (idLock \in {None, t} /\ idLock' \in {None, t})
  /\ backupLock' = backupLock \/ (backupLock \in {None, t} /\ backupLock' \in {None, t})
  /\ xml' = xml \/ backupLock \in {None, t}

LEMMA RightfulGrows ==
  ASSUME NEW f, NEW m, given \subseteq given', Rightful(given, f, m)
  PROVE  Rightful(given', f, m)
BY RightGrows DEF Rightful

LEMMA BusyStays ==
  ASSUME NEW u \in Threads, Busy(u), frame'[u] = frame[u]
  PROVE  Busy(u)'
BY DEF Busy, CallAt, Restores, Adding, At

LEMMA HoldingStays ==
  ASSUME NEW t \in Threads, NEW u \in Threads, u # t, Holding(u), frame'[u] = frame[u],
         LocksMove(t)
  PROVE  Holding(u)'
BY NobodyIsNone DEF Holding, LocksMove

LEMMA HonestStays ==
  ASSUME NEW u \in Threads, Holding(u), Honest(u), frame'[u] = frame[u], Advanced
  PROVE  Honest(u)'
<1>1. /\ Kept(db, db') /\ given \subseteq given'
      /\ frame[u].at \in {"id", "tag_id"} => rowid' = rowid
  BY NobodyIsNone DEF Advanced, Holding
<1>2. \A i, v : /\ Row(db.photos, i, v) => Row(db'.photos, i, v)
                /\ Row(db.tags, i, v) => Row(db'.tags, i, v)
  BY <1>1, KeptRow
<1>3. \A f, m : Rightful(given, f, m) => Rightful(given', f, m)
  BY <1>1, RightfulGrows
<1> QED
  BY <1>1, <1>2, <1>3 DEF Honest, At, Adding, Restores

LEMMA OthersFine ==
  ASSUME AllFine, NEW t \in Threads, Others(t), LocksMove(t), Advanced, Fine(t)'
  PROVE  AllFine'
<1>1. ASSUME NEW u \in Threads, u # t
      PROVE  Fine(u)'
  <2>1. frame'[u] = frame[u] /\ Fine(u)
    BY <1>1 DEF Others, AllFine
  <2> QED
    BY <1>1, <2>1, BusyStays, HoldingStays, HonestStays DEF Fine
<1> QED
  BY <1>1 DEF AllFine

(* No thread moves, and no lock or file.                                   *)
LEMMA AllStay ==
  ASSUME AllFine, frame' = frame, idLock' = idLock, backupLock' = backupLock, xml' = xml,
         Advanced
  PROVE  AllFine'
<1>1. ASSUME NEW u \in Threads
      PROVE  Fine(u)'
  <2>1. frame'[u] = frame[u] /\ Fine(u)
    BY DEF AllFine
  <2>2. Holding(u)'
    BY <2>1 DEF Fine, Holding
  <2> QED
    BY <2>1, <2>2, BusyStays, HonestStays DEF Fine
<1> QED
  BY <1>1 DEF AllFine

LEMMA IdleFine ==
  ASSUME NEW t \in Threads, frame'[t] = Idle, idLock' # t
  PROVE  Fine(t)'
<1>1. /\ frame'[t].at = "idle" /\ frame'[t].call = None /\ frame'[t] = Idle
  BY DEF Idle
<1> QED
  BY <1>1 DEF Fine, Busy, CallAt, Adding, Restores, Marking, TagSteps, At, Holding, Honest

LEMMA LoopIs ==
  ASSUME NEW call, NEW todo
  PROVE  /\ call = "restore" => Loop(call, todo) \in {"tags", "files"}
         /\ call # "restore" => Loop(call, todo) \in {"tags", "commit"}
BY DEF Loop
-----------------------------------------------------------------------------
(* One action at a time: the threads stay fine.                            *)

LEMMA InsertPhotoFine ==
  ASSUME Typed, Rows, AllFine, NEW t \in Threads, InsertPhoto(t)
  PROVE  AllFine' /\ Advanced
<1>0. Placed /\ Fine(t) /\ Frames
  BY FineIs, FramesTyped DEF AllFine
<1>1. /\ Advanced /\ At(t, "insert") /\ idLock = None /\ idLock' = t
      /\ Row(db'.photos, rowid', frame[t].file)
  BY <1>0, InsertPhotoAdds
<1>2. Goto(t, "id") /\ backupLock' = backupLock /\ xml' = xml
  BY Zenon DEF InsertPhoto
<1>3. Others(t) /\ frame'[t].at = "id" /\ SameCall(t)
  BY <1>0, <1>2, Going DEF Places
<1>4. Adding(t) /\ frame[t].file \in Files
  BY <1>0, <1>1, CallOf DEF At
<1>5. Busy(t)'
  BY <1>0, <1>1, <1>3, <1>4 DEF Fine, Busy, CallAt, Marking, TagSteps, Adding, Restores, At, SameCall
<1>6. Holding(t)'
  BY <1>1, <1>2, <1>3 DEF Holding
<1>7. Honest(t)'
  <2>1. \A f, m : Rightful(given, f, m) => Rightful(given', f, m)
    BY <1>1, RightfulGrows DEF Advanced
  <2> QED
    BY <1>0, <1>1, <1>3, <1>4, <2>1
    DEF Fine, Honest, Marking, TagSteps, Adding, Restores, At, SameCall
<1> QED
  BY <1>1, <1>2, <1>3, <1>5, <1>6, <1>7, OthersFine DEF Fine, LocksMove

LEMMA PhotoIdFine ==
  ASSUME Typed, Rows, AllFine, NEW t \in Threads, PhotoId(t)
  PROVE  AllFine' /\ Advanced
<1>0. Placed /\ Fine(t)
  BY FineIs DEF AllFine
<1>1. /\ Others(t) /\ At(t, "id")
      /\ frame'[t].id = rowid /\ frame'[t].at = AfterPhoto(frame[t].call, frame[t].todo)
      /\ frame'[t].call = frame[t].call /\ frame'[t].file = frame[t].file
      /\ frame'[t].todo = frame[t].todo /\ frame'[t].more = frame[t].more
      /\ frame'[t].mark = frame[t].mark
  BY PhotoIdFrame
<1>2. /\ idLock' = None /\ backupLock' = backupLock /\ xml' = xml
      /\ db' = db /\ rowid' = rowid /\ given' = given
  BY Zenon DEF PhotoId, dbVars, history
<1>3. Adding(t) /\ frame[t].file \in Files
  BY <1>0, <1>1, CallOf DEF At
<1>4. idLock = t /\ Advanced
  BY <1>0, <1>1, <1>2, NothingAdded DEF Fine, Holding, At
<1>5. \/ frame[t].call = "restore" /\ frame'[t].at \in {"tags", "files"}
      \/ frame[t].call = "metadata" /\ frame'[t].at = "begin"
  BY <1>1, <1>3, LoopIs DEF AfterPhoto, Adding
<1>6. Busy(t)'
  BY <1>0, <1>1, <1>3, <1>5 DEF Fine, Busy, CallAt, Marking, TagSteps, Adding, Restores, At
<1>7. Holding(t)'
  BY <1>1, <1>2, <1>5, NobodyIsNone DEF Holding
<1>8. Honest(t)'
  BY <1>0, <1>1, <1>2, <1>3, <1>5
  DEF Fine, Honest, Marking, TagSteps, Adding, Restores, At
<1> QED
  BY <1>1, <1>2, <1>4, <1>6, <1>7, <1>8, OthersFine DEF Fine, LocksMove

LEMMA FindTagFine ==
  ASSUME Typed, Rows, AllFine, NEW t \in Threads, NEW m \in Mark, FindTag(t, m)
  PROVE  AllFine' /\ Advanced
<1>0. Placed /\ Fine(t)
  BY FineIs DEF AllFine
<1>1. /\ Others(t) /\ m \in frame[t].todo /\ At(t, "tags")
      /\ frame'[t].todo = frame[t].todo \ {m} /\ frame'[t].mark = m
      /\ \/ frame'[t].at = "new_tag"
         \/ frame'[t].at = AfterTag(frame[t].call) /\ Row(db.tags, frame'[t].tag, m.name)
      /\ frame'[t].call = frame[t].call /\ frame'[t].file = frame[t].file
      /\ frame'[t].id = frame[t].id /\ frame'[t].more = frame[t].more
  BY FindTagFrame
<1>2. /\ idLock' = idLock /\ backupLock' = backupLock /\ xml' = xml
      /\ db' = db /\ rowid' = rowid /\ given' = given
  BY Zenon DEF FindTag, dbVars, lockVars, history
<1>3. /\ Adding(t) \/ frame[t].call = "give"
      /\ Adding(t) => frame[t].file \in Files
  BY <1>0, <1>1, CallOf DEF At
<1>4. Advanced
  BY <1>2, NothingAdded
<1>5. \/ frame'[t].at = "new_tag"
      \/ /\ Row(db.tags, frame'[t].tag, m.name)
         /\ \/ Adding(t) /\ frame'[t].at = "mark"
            \/ frame[t].call = "give" /\ frame'[t].at = "queue"
  BY <1>1, <1>3 DEF AfterTag, Adding
<1>6. Busy(t)'
  BY <1>0, <1>1, <1>3, <1>5 DEF Fine, Busy, CallAt, Marking, TagSteps, Adding, Restores, At
<1>7. Holding(t)'
  BY <1>0, <1>1, <1>2, <1>5 DEF Fine, Holding, At
<1>8. Honest(t)'
  BY <1>0, <1>1, <1>2, <1>3, <1>5
  DEF Fine, Honest, Marking, TagSteps, Adding, Restores, At
<1> QED
  BY <1>1, <1>2, <1>4, <1>6, <1>7, <1>8, OthersFine DEF Fine, LocksMove

LEMMA InsertTagFine ==
  ASSUME Typed, Rows, AllFine, NEW t \in Threads, InsertTag(t)
  PROVE  AllFine' /\ Advanced
<1>0. Placed /\ Fine(t) /\ Frames
  BY FineIs, FramesTyped DEF AllFine
<1>1. /\ Advanced /\ At(t, "new_tag") /\ idLock = None /\ idLock' = t
      /\ Row(db'.tags, rowid', frame[t].mark.name)
  BY <1>0, InsertTagAdds
<1>2. Goto(t, "tag_id") /\ backupLock' = backupLock /\ xml' = xml
  BY Zenon DEF InsertTag
<1>3. Others(t) /\ frame'[t].at = "tag_id" /\ SameCall(t)
  BY <1>0, <1>2, Going DEF Places
<1>4. /\ Adding(t) \/ frame[t].call = "give"
      /\ Adding(t) => frame[t].file \in Files
  BY <1>0, <1>1, CallOf DEF At
<1>5. Busy(t)'
  BY <1>0, <1>1, <1>3, <1>4 DEF Fine, Busy, CallAt, Marking, TagSteps, Adding, Restores, At, SameCall
<1>6. Holding(t)'
  BY <1>1, <1>2, <1>3 DEF Holding
<1>7. Honest(t)'
  <2>1. \A f, m : Rightful(given, f, m) => Rightful(given', f, m)
    BY <1>1, RightfulGrows DEF Advanced
  <2>2. \A i, v : Row(db.photos, i, v) => Row(db'.photos, i, v)
    BY <1>1, KeptRow DEF Advanced
  <2> QED
    BY <1>0, <1>1, <1>3, <1>4, <2>1, <2>2
    DEF Fine, Honest, Marking, TagSteps, Adding, Restores, At, SameCall
<1> QED
  BY <1>1, <1>2, <1>3, <1>5, <1>6, <1>7, OthersFine DEF Fine, LocksMove

LEMMA TagIdFine ==
  ASSUME Typed, Rows, AllFine, NEW t \in Threads, TagId(t)
  PROVE  AllFine' /\ Advanced
<1>0. Placed /\ Fine(t)
  BY FineIs DEF AllFine
<1>1. /\ Others(t) /\ At(t, "tag_id")
      /\ frame'[t].tag = rowid /\ frame'[t].at = AfterTag(frame[t].call)
      /\ frame'[t].call = frame[t].call /\ frame'[t].file = frame[t].file
      /\ frame'[t].todo = frame[t].todo /\ frame'[t].more = frame[t].more
      /\ frame'[t].mark = frame[t].mark /\ frame'[t].id = frame[t].id
  BY TagIdFrame
<1>2. /\ idLock' = None /\ backupLock' = backupLock /\ xml' = xml
      /\ db' = db /\ rowid' = rowid /\ given' = given
  BY Zenon DEF TagId, dbVars, history
<1>3. /\ Adding(t) \/ frame[t].call = "give"
      /\ Adding(t) => frame[t].file \in Files
  BY <1>0, <1>1, CallOf DEF At
<1>4. idLock = t /\ Advanced
  BY <1>0, <1>1, <1>2, NothingAdded DEF Fine, Holding, At
<1>5. \/ Adding(t) /\ frame'[t].at = "mark"
      \/ frame[t].call = "give" /\ frame'[t].at = "queue"
  BY <1>1, <1>3 DEF AfterTag, Adding
<1>6. Busy(t)'
  BY <1>0, <1>1, <1>3, <1>5 DEF Fine, Busy, CallAt, Marking, TagSteps, Adding, Restores, At
<1>7. Holding(t)'
  BY <1>1, <1>2, <1>5, NobodyIsNone DEF Holding
<1>8. Honest(t)'
  BY <1>0, <1>1, <1>2, <1>3, <1>5
  DEF Fine, Honest, Marking, TagSteps, Adding, Restores, At
<1> QED
  BY <1>1, <1>2, <1>4, <1>6, <1>7, <1>8, OthersFine DEF Fine, LocksMove

LEMMA InsertMarkFine ==
  ASSUME Typed, Rows, AllFine, NEW t \in Threads, InsertMark(t)
  PROVE  AllFine' /\ Advanced
<1>0. Placed /\ InHand /\ Fine(t) /\ Frames
  BY FineIs, FramesTyped DEF AllFine
<1>1. Advanced /\ At(t, "mark")
  BY <1>0, InsertMarkAdds
<1>2. /\ Goto(t, Loop(frame[t].call, frame[t].todo))
      /\ idLock' = idLock /\ backupLock' = backupLock /\ xml' = xml
  BY Zenon DEF InsertMark, lockVars
<1>3. Others(t) /\ frame'[t].at = Loop(frame[t].call, frame[t].todo) /\ SameCall(t)
  BY <1>0, <1>2, Going, NextSteps
<1>4. Adding(t) /\ frame[t].file \in Files
  BY <1>0, <1>1, CallOf DEF At
<1>5. \/ frame[t].call = "restore" /\ frame'[t].at \in {"tags", "files"}
      \/ frame[t].call = "metadata" /\ frame'[t].at \in {"tags", "commit"}
  BY <1>3, <1>4, LoopIs DEF Adding
<1>6. Busy(t)'
  BY <1>0, <1>1, <1>3, <1>4, <1>5
  DEF Fine, Busy, CallAt, Marking, TagSteps, Adding, Restores, At, SameCall
<1>7. Holding(t)'
  BY <1>0, <1>1, <1>2, <1>5 DEF Fine, Holding, At
<1>8. Honest(t)'
  <2>1. \A f, m : Rightful(given, f, m) => Rightful(given', f, m)
    BY <1>1, RightfulGrows DEF Advanced
  <2>2. \A i, v : Row(db.photos, i, v) => Row(db'.photos, i, v)
    BY <1>1, KeptRow DEF Advanced
  <2> QED
    BY <1>0, <1>1, <1>3, <1>4, <1>5, <2>1, <2>2
    DEF Fine, Honest, Marking, TagSteps, Adding, Restores, At, SameCall
<1> QED
  BY <1>1, <1>2, <1>3, <1>6, <1>7, <1>8, OthersFine DEF Fine, LocksMove

(* Where an added photo leads to.                                          *)
LEMMA AddedFine ==
  ASSUME Typed, Rows, AllFine, NEW t \in Threads, Added(t), frame[t].file \in Files,
         idLock # t, idLock' = idLock, LocksMove(t), Advanced
  PROVE  AllFine' /\ Advanced
<1>1. Others(t)
  BY AddedFrame
<1>2. Fine(t)'
  <2>1. CASE frame'[t] = Idle
    BY <2>1, IdleFine
  <2>2. CASE /\ t = Tether /\ frame'[t].call = "give" /\ frame'[t].at = "tags"
             /\ frame'[t].more \subseteq Files
    BY <2>2, ThreadsApart
    DEF Fine, Busy, Holding, Honest, CallAt, Marking, TagSteps, Adding, Restores, At
  <2> QED
    BY <2>1, <2>2, AddedFrame
<1> QED
  BY <1>1, <1>2, OthersFine

LEMMA KnownPhotoFine ==
  ASSUME Typed, Rows, AllFine, NEW t \in Threads, KnownPhoto(t)
  PROVE  AllFine' /\ Advanced
<1>0. Placed /\ Fine(t) /\ Frames
  BY FineIs, FramesTyped DEF AllFine
<1>1. /\ At(t, "find") /\ (Added(t) \/ Goto(t, "insert"))
      /\ idLock' = idLock /\ backupLock' = backupLock /\ xml' = xml
      /\ db' = db /\ rowid' = rowid /\ given' = given
  BY Zenon DEF KnownPhoto, dbVars, lockVars, history
<1>2. Adding(t) /\ frame[t].file \in Files /\ frame[t].call = "metadata"
  BY <1>0, <1>1, CallOf DEF At
<1>3. Advanced /\ LocksMove(t)
  BY <1>1, NothingAdded DEF LocksMove
<1>4. idLock # t
  BY <1>0, <1>1 DEF Fine, Holding, At
<1>5. CASE Added(t)
  BY <1>1, <1>2, <1>3, <1>4, <1>5, AddedFine
<1>6. CASE Goto(t, "insert")
  <2>1. Others(t) /\ frame'[t].at = "insert" /\ SameCall(t)
    BY <1>0, <1>6, Going DEF Places
  <2>2. Busy(t)'
    BY <1>0, <1>1, <1>2, <2>1
    DEF Fine, Busy, CallAt, Marking, TagSteps, Adding, Restores, At, SameCall
  <2>3. Holding(t)'
    BY <1>1, <1>4, <2>1 DEF Fine, Holding, At
  <2>4. Honest(t)'
    BY <1>0, <1>1, <1>2, <2>1
    DEF Fine, Honest, Marking, TagSteps, Adding, Restores, At, SameCall
  <2> QED
    BY <1>3, <2>1, <2>2, <2>3, <2>4, OthersFine DEF Fine
<1> QED
  BY <1>1, <1>5, <1>6

LEMMA BeginFine ==
  ASSUME Typed, Rows, AllFine, NEW t \in Threads, Begin(t)
  PROVE  AllFine' /\ Advanced
<1>0. Placed /\ Fine(t) /\ Frames
  BY FineIs, FramesTyped DEF AllFine
<1>1. /\ At(t, "begin") /\ Goto(t, Loop(frame[t].call, frame[t].todo))
      /\ idLock' = idLock /\ backupLock' = backupLock /\ xml' = xml
      /\ db' = db /\ rowid' = rowid /\ given' = given
  BY Zenon DEF Begin, lockVars, history
<1>2. Adding(t) /\ frame[t].file \in Files /\ frame[t].call = "metadata"
  BY <1>0, <1>1, CallOf DEF At
<1>3. Advanced /\ LocksMove(t)
  BY <1>1, NothingAdded DEF LocksMove
<1>4. Others(t) /\ frame'[t].at \in {"tags", "commit"} /\ SameCall(t)
  BY <1>0, <1>1, <1>2, Going, NextSteps, LoopIs
<1>5. Busy(t)'
  BY <1>0, <1>1, <1>2, <1>4
  DEF Fine, Busy, CallAt, Marking, TagSteps, Adding, Restores, At, SameCall
<1>6. Holding(t)'
  BY <1>0, <1>1, <1>4 DEF Fine, Holding, At
<1>7. Honest(t)'
  BY <1>0, <1>1, <1>2, <1>4
  DEF Fine, Honest, Marking, TagSteps, Adding, Restores, At, SameCall
<1> QED
  BY <1>3, <1>4, <1>5, <1>6, <1>7, OthersFine DEF Fine

LEMMA CommitFine ==
  ASSUME Typed, Rows, AllFine, NEW t \in Threads, Commit(t)
  PROVE  AllFine' /\ Advanced
<1>0. Placed /\ Fine(t)
  BY FineIs DEF AllFine
<1>1. /\ At(t, "commit") /\ Added(t)
      /\ idLock' = idLock /\ backupLock' = backupLock /\ xml' = xml
      /\ db' = db /\ rowid' = rowid /\ given' = given
  BY Zenon DEF Commit, lockVars, history
<1>2. frame[t].file \in Files /\ idLock # t
  BY <1>0, <1>1, CallOf DEF At, Fine, Holding
<1>3. Advanced /\ LocksMove(t)
  BY <1>1, NothingAdded DEF LocksMove
<1> QED
  BY <1>1, <1>2, <1>3, AddedFine

LEMMA StartBackupFine ==
  ASSUME Typed, Rows, AllFine, NEW t \in Threads, StartBackup(t)
  PROVE  AllFine' /\ Advanced
<1>0. Placed /\ Fine(t) /\ Frames
  BY FineIs, FramesTyped DEF AllFine
<1>1. /\ At(t, "backup") /\ backupLock = None /\ backupLock' = t /\ idLock' = idLock
      /\ db' = db /\ rowid' = rowid /\ given' = given
      /\ \/ Goto(t, "query") /\ xml' = Torn
         \/ Return(t) \/ Goto(t, "no_writer")
  BY Zenon DEF StartBackup, dbVars
<1>2. Advanced /\ LocksMove(t)
  BY <1>1, NothingAdded DEF LocksMove
<1>3. idLock # t
  BY <1>0, <1>1 DEF Fine, Holding, At
<1>4. CASE Return(t)
  <2>1. Others(t) /\ frame'[t] = Idle
    BY <1>0, <1>4, Returning
  <2> QED
    BY <1>1, <1>2, <1>3, <2>1, IdleFine, OthersFine
<1>5. CASE Goto(t, "query") /\ xml' = Torn
  <2>1. Others(t) /\ frame'[t].at = "query" /\ SameCall(t)
    BY <1>0, <1>5, Going DEF Places
  <2>2. Fine(t)'
    BY <1>1, <1>3, <1>5, <2>1
    DEF Fine, Busy, Holding, Honest, CallAt, Marking, TagSteps, Adding, Restores, At
  <2> QED
    BY <1>2, <2>1, <2>2, OthersFine
<1>6. CASE Goto(t, "no_writer")
  <2>1. Others(t) /\ frame'[t].at = "no_writer" /\ SameCall(t)
    BY <1>0, <1>6, Going DEF Places
  <2>2. Fine(t)'
    BY <1>1, <1>3, <2>1
    DEF Fine, Busy, Holding, Honest, CallAt, Marking, TagSteps, Adding, Restores, At
  <2> QED
    BY <1>2, <2>1, <2>2, OthersFine
<1> QED
  BY <1>1, <1>4, <1>5, <1>6

LEMMA NoWriterFine ==
  ASSUME Typed, Rows, AllFine, NEW t \in Threads, NoWriter(t)
  PROVE  AllFine' /\ Advanced
<1>0. Fine(t) /\ Frames
  BY FramesTyped DEF AllFine
<1>1. /\ At(t, "no_writer") /\ Return(t) /\ backupLock' = None /\ idLock' = idLock /\ xml' = xml
      /\ db' = db /\ rowid' = rowid /\ given' = given
  BY Zenon DEF NoWriter, dbVars, history
<1>2. idLock # t /\ backupLock = t
  BY <1>0, <1>1 DEF Fine, Holding, At
<1>3. Advanced /\ LocksMove(t)
  BY <1>1, <1>2, NothingAdded DEF LocksMove
<1>4. Others(t) /\ frame'[t] = Idle
  BY <1>0, <1>1, Returning
<1> QED
  BY <1>1, <1>2, <1>3, <1>4, IdleFine, OthersFine

(* What a backup reads is as true as the database.                         *)
LEMMA MarksRightful ==
  ASSUME Rows, NEW f, NEW m \in MarksOf(db, f)
  PROVE  Rightful(given, f, m) /\ Known(f)
<1>1. PICK k \in db.marks : /\ db.photos[k.photo] = f
                            /\ m = [name |-> db.tags[k.tag], auto |-> k.auto]
  BY DEF MarksOf
<1>2. m.name = db.tags[k.tag] /\ m.auto = k.auto
  BY <1>1, Zenon
<1>3. k.photo \in DOMAIN db.photos /\ Right(given, f, db.tags[k.tag], k.auto)
  BY <1>1 DEF Rows, Truthful
<1> QED
  BY <1>1, <1>2, <1>3, Zenon DEF Rightful, Known

LEMMA QueryTagsFine ==
  ASSUME Typed, Rows, AllFine, NEW t \in Threads, QueryTags(t)
  PROVE  AllFine' /\ Advanced
<1>0. Fine(t)
  BY DEF AllFine
<1>1. /\ Others(t) /\ At(t, "query")
      /\ frame'[t].at = "write" /\ frame'[t].more \subseteq Entry
      /\ \A f \in Files, m \in Mark : <<f, m>> \in frame'[t].more => m \in MarksOf(db, f)
  BY QueryTagsFrame DEF Carries
<1>2. /\ backupLock' = backupLock /\ idLock' = idLock /\ xml' = xml
      /\ db' = db /\ rowid' = rowid /\ given' = given
  BY Zenon DEF QueryTags, dbVars, lockVars
<1>3. Advanced /\ LocksMove(t)
  BY <1>2, NothingAdded DEF LocksMove
<1>4. \A f \in Files, m \in Mark : <<f, m>> \in frame'[t].more => Rightful(given', f, m)
  BY <1>1, <1>2, MarksRightful
<1>5. Fine(t)'
  BY <1>0, <1>1, <1>2, <1>4
  DEF Fine, Busy, Holding, Honest, CallAt, Marking, TagSteps, Adding, Restores, At
<1> QED
  BY <1>1, <1>3, <1>5, OthersFine

LEMMA WriteXmlFine ==
  ASSUME Typed, Rows, AllFine, NEW t \in Threads, WriteXml(t)
  PROVE  AllFine' /\ Advanced
<1>0. Fine(t) /\ Frames
  BY FramesTyped DEF AllFine
<1>1. /\ At(t, "write") /\ Return(t) /\ backupLock' = None /\ idLock' = idLock
      /\ db' = db /\ rowid' = rowid /\ given' = given
  BY Zenon DEF WriteXml, dbVars, history
<1>2. idLock # t /\ backupLock = t
  BY <1>0, <1>1 DEF Fine, Holding, At
<1>3. Advanced /\ LocksMove(t)
  BY <1>1, <1>2, NothingAdded DEF LocksMove
<1>4. Others(t) /\ frame'[t] = Idle
  BY <1>0, <1>1, Returning
<1> QED
  BY <1>1, <1>2, <1>3, <1>4, IdleFine, OthersFine

LEMMA QueueTagsFine ==
  ASSUME Typed, Rows, AllFine, NEW t \in Threads, QueueTags(t)
  PROVE  AllFine' /\ Advanced
<1>0. Fine(t) /\ Frames
  BY FramesTyped DEF AllFine
<1>1. /\ At(t, "queue") /\ Return(t) /\ backupLock' = backupLock /\ idLock' = idLock /\ xml' = xml
      /\ db' = db /\ rowid' = rowid
      /\ given' = given \cup {<<f, frame[t].mark.name>> : f \in frame[t].more}
  BY Zenon DEF QueueTags, dbVars, lockVars
<1>2. idLock # t /\ given \subseteq given'
  BY <1>0, <1>1 DEF Fine, Holding, At
<1>3. Advanced /\ LocksMove(t)
  BY <1>1, <1>2, NothingAdded DEF LocksMove
<1>4. Others(t) /\ frame'[t] = Idle
  BY <1>0, <1>1, Returning
<1> QED
  BY <1>1, <1>2, <1>3, <1>4, IdleFine, OthersFine

LEMMA TakeMetadataFine ==
  ASSUME Typed, Rows, AllFine, TakeMetadata
  PROVE  AllFine' /\ Advanced
<1>0. Io \in Threads /\ Fine(Io)
  BY DEF AllFine, Threads
<1>1. /\ Others(Io) /\ At(Io, "idle")
      /\ frame'[Io].call = "metadata" /\ frame'[Io].at = "find"
      /\ frame'[Io].file \in Files
      /\ \A m \in frame'[Io].todo : Automatic(m) /\ m.name \in AutoNames[frame'[Io].file]
  BY TakeMetadataFrame
<1>2. /\ backupLock' = backupLock /\ idLock' = idLock /\ xml' = xml
      /\ db' = db /\ rowid' = rowid /\ given' = given
  BY Zenon DEF TakeMetadata, dbVars, lockVars, history
<1>3. Advanced /\ LocksMove(Io)
  BY <1>2, NothingAdded DEF LocksMove
<1>4. \A m \in frame'[Io].todo : Automatic(m) /\ Rightful(given', frame'[Io].file, m)
  BY <1>1 DEF Automatic, Rightful, Right
<1>5. Fine(Io)'
  BY <1>0, <1>1, <1>2, <1>4
  DEF Fine, Busy, Holding, Honest, CallAt, Marking, TagSteps, Adding, Restores, At
<1> QED
  BY <1>0, <1>1, <1>3, <1>5, OthersFine

LEMMA CaptureFine ==
  ASSUME Typed, Rows, AllFine, NEW f \in Files, Capture(f)
  PROVE  AllFine' /\ Advanced
<1>0. Tether \in Threads /\ Fine(Tether)
  BY DEF AllFine, Threads
<1>1. /\ Others(Tether) /\ At(Tether, "idle")
      /\ frame'[Tether].call = "metadata" /\ frame'[Tether].at = "find"
      /\ frame'[Tether].file = f /\ frame'[Tether].todo = {}
  BY CaptureFrame
<1>2. /\ backupLock' = backupLock /\ idLock' = idLock /\ xml' = xml
      /\ db' = db /\ rowid' = rowid /\ given' = given
  BY Zenon DEF Capture, dbVars, lockVars, history
<1>3. Advanced /\ LocksMove(Tether)
  BY <1>2, NothingAdded DEF LocksMove
<1>4. Fine(Tether)'
  BY <1>0, <1>1, <1>2
  DEF Fine, Busy, Holding, Honest, CallAt, Marking, TagSteps, Adding, Restores, At
<1> QED
  BY <1>0, <1>1, <1>3, <1>4, OthersFine

LEMMA TagPhotosFine ==
  ASSUME Typed, Rows, AllFine, NEW files \in SUBSET disk, NEW name \in Names, TagPhotos(files, name)
  PROVE  AllFine' /\ Advanced
<1>0. Main \in Threads /\ Fine(Main) /\ files \subseteq Files
  BY DEF AllFine, Threads, Typed, TypeOK
<1>1. /\ Others(Main) /\ At(Main, "idle")
      /\ frame'[Main].call = "give" /\ frame'[Main].at = "tags" /\ frame'[Main].more = files
  BY TagPhotosFrame
<1>2. /\ backupLock' = backupLock /\ idLock' = idLock /\ xml' = xml
      /\ db' = db /\ rowid' = rowid /\ given' = given
  BY Zenon DEF TagPhotos, dbVars, lockVars, history
<1>3. Advanced /\ LocksMove(Main)
  BY <1>2, NothingAdded DEF LocksMove
<1>4. Fine(Main)'
  BY <1>0, <1>1, <1>2
  DEF Fine, Busy, Holding, Honest, CallAt, Marking, TagSteps, Adding, Restores, At
<1> QED
  BY <1>0, <1>1, <1>3, <1>4, OthersFine

LEMMA RemoveTagFine ==
  ASSUME Typed, Rows, AllFine, NEW f \in Files, NEW name \in Names, RemoveTag(f, name)
  PROVE  AllFine' /\ Advanced
<1>0. Main \in Threads /\ Fine(Main)
  BY DEF AllFine, Threads
<1>1. /\ Others(Main) /\ At(Main, "idle")
      /\ frame'[Main].at = "delete" /\ frame'[Main].call = frame[Main].call
  BY RemoveTagFrame
<1>2. /\ backupLock' = backupLock /\ idLock' = idLock /\ xml' = xml
      /\ db' = db /\ rowid' = rowid /\ given' = given
  BY Zenon DEF RemoveTag, dbVars, lockVars
<1>3. Advanced /\ LocksMove(Main)
  BY <1>2, NothingAdded DEF LocksMove
<1>4. Fine(Main)'
  BY <1>0, <1>1, <1>2
  DEF Fine, Busy, Holding, Honest, CallAt, Marking, TagSteps, Adding, Restores, At
<1> QED
  BY <1>0, <1>1, <1>3, <1>4, OthersFine

LEMMA DeleteMarkFine ==
  ASSUME Typed, Rows, AllFine, DeleteMark
  PROVE  AllFine' /\ Advanced
<1>0. Main \in Threads /\ Fine(Main)
  BY DEF AllFine, Threads
<1>1. /\ Others(Main) /\ At(Main, "delete")
      /\ frame'[Main].at = "backup" /\ frame'[Main].call = None
  BY DeleteMarkFrame
<1>2. backupLock' = backupLock /\ idLock' = idLock /\ xml' = xml
  BY Zenon DEF DeleteMark, lockVars
<1>3. Advanced /\ LocksMove(Main)
  BY <1>2, DeleteMarkAdds DEF LocksMove
<1>4. Fine(Main)'
  BY <1>0, <1>1, <1>2
  DEF Fine, Busy, Holding, Honest, CallAt, Marking, TagSteps, Adding, Restores, At
<1> QED
  BY <1>0, <1>1, <1>3, <1>4, OthersFine

LEMMA ReadXmlFine ==
  ASSUME Typed, Rows, AllFine, ReadXml
  PROVE  AllFine' /\ Advanced
<1>0. Io \in Threads /\ Fine(Io) /\ Placed
  BY FineIs DEF AllFine, Threads
<1>1. /\ Others(Io) /\ At(Io, "read")
      /\ \/ frame'[Io] = Idle
         \/ /\ xml \notin {None, Torn} /\ frame'[Io].at = "files"
            /\ frame'[Io].more \subseteq Entry
            /\ \A f \in Files, m \in Mark : <<f, m>> \in frame'[Io].more => m \in xml[f]
            /\ frame'[Io].call = frame[Io].call
  BY ReadXmlFrame
<1>2. /\ backupLock' = backupLock /\ idLock' = idLock /\ xml' = xml
      /\ db' = db /\ rowid' = rowid /\ given' = given
  BY Zenon DEF ReadXml, dbVars, lockVars, history
<1>3. Advanced /\ LocksMove(Io)
  BY <1>2, NothingAdded DEF LocksMove
<1>4. idLock # Io /\ frame[Io].call = "restore"
  BY <1>0, <1>1, CallOf DEF Fine, Holding, At
<1>5. CASE frame'[Io] = Idle
  BY <1>0, <1>1, <1>2, <1>3, <1>4, <1>5, IdleFine, OthersFine
<1>6. CASE /\ xml \notin {None, Torn} /\ frame'[Io].at = "files"
           /\ frame'[Io].more \subseteq Entry
           /\ \A f \in Files, m \in Mark : <<f, m>> \in frame'[Io].more => m \in xml[f]
           /\ frame'[Io].call = frame[Io].call
  <2>1. \A f \in Files, m \in Mark : <<f, m>> \in frame'[Io].more => Rightful(given', f, m)
    BY <1>2, <1>6 DEF Rows, Written
  <2>2. Fine(Io)'
    BY <1>0, <1>1, <1>2, <1>4, <1>6, <2>1
    DEF Fine, Busy, Holding, Honest, CallAt, Marking, TagSteps, Adding, Restores, At
  <2> QED
    BY <1>0, <1>1, <1>3, <2>2, OthersFine
<1> QED
  BY <1>1, <1>5, <1>6

LEMMA RestoreFileFine ==
  ASSUME Typed, Rows, AllFine, NEW f \in Files, RestoreFile(f)
  PROVE  AllFine' /\ Advanced
<1>0. Io \in Threads /\ Fine(Io) /\ Placed
  BY FineIs DEF AllFine, Threads
<1>1. /\ Frames' /\ Others(Io) /\ At(Io, "files")
      /\ \/ frame'[Io].at = "files"
         \/ frame'[Io].at = "add"
      /\ frame'[Io].file = f /\ frame'[Io].call = frame[Io].call
      /\ frame'[Io].more \subseteq frame[Io].more
      /\ \A m \in frame'[Io].todo : <<f, m>> \in frame[Io].more
  BY <1>0, RestoreFileFrame
<1>2. /\ backupLock' = backupLock /\ idLock' = idLock /\ xml' = xml
      /\ db' = db /\ rowid' = rowid /\ given' = given
  BY Zenon DEF RestoreFile, dbVars, lockVars, history
<1>3. Advanced /\ LocksMove(Io)
  BY <1>2, NothingAdded DEF LocksMove
<1>4. idLock # Io /\ frame[Io].call = "restore" /\ Restores(Io)
  BY <1>0, <1>1, CallOf DEF Fine, Holding, Restores, At
<1>5. frame'[Io].todo \subseteq Mark
  BY <1>0, <1>1 DEF Frames, FrameType
<1>6. \A m \in frame'[Io].todo : Rightful(given', f, m)
  BY <1>0, <1>1, <1>2, <1>4, <1>5 DEF Fine, Honest
<1>7. Busy(Io)'
  BY <1>0, <1>1, <1>4 DEF Fine, Busy, CallAt, Marking, TagSteps, Adding, Restores, At
<1>8. Holding(Io)'
  BY <1>1, <1>2, <1>4 DEF Holding
<1>9. Honest(Io)'
  BY <1>0, <1>1, <1>2, <1>4, <1>6 DEF Fine, Honest, Marking, TagSteps, Adding, Restores, At
<1> QED
  BY <1>0, <1>1, <1>3, <1>7, <1>8, <1>9, OthersFine DEF Fine

LEMMA AddPhotoFine ==
  ASSUME Typed, Rows, AllFine, AddPhoto
  PROVE  AllFine' /\ Advanced
<1>0. Io \in Threads /\ Fine(Io) /\ Placed
  BY FineIs DEF AllFine, Threads
<1>1. /\ Others(Io) /\ At(Io, "add")
      /\ \/ frame'[Io].at = "insert"
         \/ /\ frame'[Io].at = Loop("restore", frame[Io].todo)
            /\ Row(db.photos, frame'[Io].id, frame[Io].file)
      /\ frame'[Io].call = frame[Io].call /\ frame'[Io].file = frame[Io].file
      /\ frame'[Io].todo = frame[Io].todo /\ frame'[Io].more = frame[Io].more
      /\ frame'[Io].mark = frame[Io].mark
  BY AddPhotoFrame
<1>2. /\ backupLock' = backupLock /\ idLock' = idLock /\ xml' = xml
      /\ db' = db /\ rowid' = rowid /\ given' = given
  BY Zenon DEF AddPhoto, dbVars, lockVars, history
<1>3. Advanced /\ LocksMove(Io)
  BY <1>2, NothingAdded DEF LocksMove
<1>4. idLock # Io /\ frame[Io].call = "restore" /\ Adding(Io) /\ frame[Io].file \in Files
  BY <1>0, <1>1, CallOf DEF Fine, Holding, At
<1>5. \/ frame'[Io].at = "insert"
      \/ frame'[Io].at \in {"tags", "files"} /\ Row(db.photos, frame'[Io].id, frame[Io].file)
  BY <1>1, LoopIs
<1>6. Busy(Io)'
  BY <1>0, <1>1, <1>4, <1>5 DEF Fine, Busy, CallAt, Marking, TagSteps, Adding, Restores, At
<1>7. Holding(Io)'
  BY <1>2, <1>4, <1>5 DEF Holding
<1>8. Honest(Io)'
  BY <1>0, <1>1, <1>2, <1>4, <1>5 DEF Fine, Honest, Marking, TagSteps, Adding, Restores, At
<1> QED
  BY <1>0, <1>1, <1>3, <1>6, <1>7, <1>8, OthersFine DEF Fine

LEMMA FilesDoneFine ==
  ASSUME Typed, Rows, AllFine, FilesDone
  PROVE  AllFine' /\ Advanced
<1>0. Io \in Threads /\ Fine(Io) /\ Frames
  BY FramesTyped DEF AllFine, Threads
<1>1. /\ At(Io, "files") /\ Return(Io) /\ backupLock' = backupLock /\ idLock' = idLock /\ xml' = xml
      /\ db' = db /\ rowid' = rowid /\ given' = given
  BY Zenon DEF FilesDone, dbVars, lockVars, history
<1>2. idLock # Io
  BY <1>0, <1>1 DEF Fine, Holding, At
<1>3. Advanced /\ LocksMove(Io)
  BY <1>1, NothingAdded DEF LocksMove
<1>4. Others(Io) /\ frame'[Io] = Idle
  BY <1>0, <1>1, Returning
<1> QED
  BY <1>0, <1>1, <1>2, <1>3, <1>4, IdleFine, OthersFine

LEMMA TakeTaggingFine ==
  ASSUME Typed, Rows, AllFine, TakeTagging
  PROVE  AllFine' /\ Advanced
<1>0. Io \in Threads /\ Fine(Io) /\ Placed
  BY FineIs DEF AllFine, Threads
<1>1. /\ Others(Io) /\ At(Io, "idle")
      /\ \/ frame'[Io].at = "backup" /\ frame'[Io].call = None
         \/ frame'[Io].at = "read" /\ frame'[Io].call = "restore"
         \/ frame' = frame
  BY <1>0, TakeTaggingFrame
<1>2. backupLock' = backupLock /\ idLock' = idLock /\ xml' = xml
  BY Zenon DEF TakeTagging, lockVars
<1>3. Advanced /\ LocksMove(Io)
  BY <1>2, TakeTaggingAdds DEF LocksMove
<1>4. CASE frame' = frame
  BY <1>2, <1>3, <1>4, AllStay
<1>5. CASE \/ frame'[Io].at = "backup" /\ frame'[Io].call = None
           \/ frame'[Io].at = "read" /\ frame'[Io].call = "restore"
  <2>1. idLock # Io
    BY <1>0, <1>1 DEF Fine, Holding, At
  <2>2. Fine(Io)'
    BY <1>0, <1>2, <1>5, <2>1
    DEF Fine, Busy, Holding, Honest, CallAt, Marking, TagSteps, Adding, Restores, At
  <2> QED
    BY <1>0, <1>1, <1>3, <2>2, OthersFine
<1> QED
  BY <1>1, <1>4, <1>5

LEMMA TakeChecksumFine ==
  ASSUME Typed, Rows, AllFine, TakeChecksum
  PROVE  AllFine' /\ Advanced
<1>1. backupLock' = backupLock /\ idLock' = idLock /\ xml' = xml
  BY Zenon DEF TakeChecksum, lockVars
<1> QED
  BY <1>1, TakeChecksumAdds, AllStay

LEMMA LoadDirectoryFine ==
  ASSUME Typed, Rows, AllFine, LoadDirectory
  PROVE  AllFine' /\ Advanced
<1>1. /\ backupLock' = backupLock /\ idLock' = idLock /\ xml' = xml /\ frame' = frame
      /\ db' = db /\ rowid' = rowid /\ given' = given
  BY Zenon DEF LoadDirectory, dbVars, lockVars, history
<1> QED
  BY <1>1, NothingAdded, AllStay

(* A search finds finitely many photos.                                    *)
LEMMA SearchAdds ==
  ASSUME Typed, Rows, NEW name \in Names, Search(name)
  PROVE  Advanced /\ Retained
<1> DEFINE hits == {k \in db.marks : db.tags[k.tag] = name}
           found == {k.photo : k \in hits}
<1>1. /\ idLock = None /\ db' = db /\ given' = given
      /\ rowid' = IF found = {} THEN rowid ELSE Cardinality(found)
  BY Zenon DEF Search, history
<1>2. Tabled(db) /\ Truthful(given, db) /\ rowid \in Nat
  BY DEF Typed, TypeOK, Rows
<1>3. IsFiniteSet(hits)
  BY <1>2, TabledParts, FS_Subset
<1>4. IsFiniteSet(found)
  <2> DEFINE pick == [k \in hits |-> k.photo]
  <2> HIDE DEF hits
  <2>1. pick \in Surjection(hits, found)
    BY DEF Surjection
  <2> QED
    BY <1>3, <2>1, FS_Surjection
<1>5. Cardinality(found) \in Nat
  BY <1>4, FS_CardinalityType
<1> HIDE DEF found
<1>6. rowid' \in Nat
  BY <1>1, <1>2, <1>5
<1>7. Kept(db, db)
  BY KeptSame
<1> QED
  BY <1>1, <1>2, <1>6, <1>7 DEF Advanced, Retained

LEMMA SearchFine ==
  ASSUME Typed, Rows, AllFine, NEW name \in Names, Search(name)
  PROVE  AllFine' /\ Advanced
<1>1. backupLock' = backupLock /\ idLock' = idLock /\ xml' = xml /\ frame' = frame
  BY Zenon DEF Search, lockVars
<1> QED
  BY <1>1, SearchAdds, AllStay
-----------------------------------------------------------------------------
(* The types, and what is yet to come into the tables.                     *)

(* The variables of a step but for the tables and the frames.              *)
Keeps ==
  /\ committed' \in {committed, None, db} /\ disk' \subseteq Files /\ jobs' \in JobsType
  /\ xml' \in {None, Torn} \cup [Files -> SUBSET Mark]
  /\ idLock' \in Threads \cup {None} /\ backupLock' \in Threads \cup {None}
  /\ lastBackup' \in {"none", "written", "partial", "failed", "leaked_lock"}
  /\ given' \subseteq Files \X Names /\ promised' \subseteq given'

LEMMA KeepsTyped ==
  ASSUME Typed, Advanced, Frames', Keeps
  PROVE  Typed'
<1>1. Tabled(db') /\ rowid' \in Nat
  BY DEF Advanced
<1>2. db' \in Tables /\ Len(db'.sums) = Len(db'.photos)
  BY <1>1 DEF Tabled
<1>3. \A t \in Threads : frame'[t].id \in Nat /\ frame'[t].tag \in Nat
  BY DEF Frames, FrameType
<1>4. /\ jobs'.metadata \in Seq(Files) /\ jobs'.tagging \in Seq(Job)
      /\ jobs'.checksum \in Seq(SumJob)
  BY DEF Keeps, JobsType
<1>5. TypeOK'
  BY <1>1, <1>2, <1>3, <1>4 DEF TypeOK, Keeps, Tables, Links, SumJob
<1> QED
  BY <1>1, <1>5 DEF Typed, Keeps, Frames

LEMMA KeepsSaved ==
  ASSUME Typed, Rows, Advanced, Keeps
  PROVE  Saved'
<1>1. /\ committed' # None => Tabled(committed') /\ Truthful(given, committed')
      /\ given \subseteq given'
  BY DEF Keeps, Rows, Saved, Typed, Advanced
<1>2. committed' # None => Truthful(given', committed')
  BY <1>1, TruthGrows
<1> QED
  BY <1>1, <1>2 DEF Saved

LEMMA WrittenStays ==
  ASSUME Rows, Advanced, xml' \in {xml, Torn}
  PROVE  Written'
<1>1. Written /\ given \subseteq given'
  BY DEF Rows, Advanced
<1>2. \A f, m : Rightful(given, f, m) => Rightful(given', f, m)
  BY <1>1, RightfulGrows
<1> QED
  BY <1>1, <1>2 DEF Written

LEMMA SummedStays ==
  ASSUME Rows, Advanced,
         \A i \in DOMAIN jobs'.checksum :
            \/ \E j \in DOMAIN jobs.checksum : jobs'.checksum[i] = jobs.checksum[j]
            \/ Row(db'.photos, jobs'.checksum[i].id, jobs'.checksum[i].file)
  PROVE  Summed'
<1>1. \A i, v : Row(db.photos, i, v) => Row(db'.photos, i, v)
  BY KeptRow DEF Advanced
<1> QED
  BY <1>1 DEF Rows, Summed

LEMMA TaggedStays ==
  ASSUME Rows, Advanced,
         \A i \in DOMAIN jobs'.tagging : jobs'.tagging[i].what = "tag" =>
            \E j \in DOMAIN jobs.tagging : jobs'.tagging[i] = jobs.tagging[j]
  PROVE  Tagged'
<1>1. \A i, v : Row(db.tags, i, v) => Row(db'.tags, i, v)
  BY KeptRow DEF Advanced
<1>2. given \subseteq given'
  BY DEF Advanced
<1>3. ASSUME NEW i \in DOMAIN jobs'.tagging, jobs'.tagging[i].what = "tag"
      PROVE  /\ jobs'.tagging[i].id \in DOMAIN db'.tags /\ jobs'.tagging[i].file \in Files
             /\ <<jobs'.tagging[i].file, db'.tags[jobs'.tagging[i].id]>> \in given'
  <2>1. PICK j \in DOMAIN jobs.tagging : jobs'.tagging[i] = jobs.tagging[j]
    BY <1>3
  <2>2. /\ jobs.tagging[j].id \in DOMAIN db.tags /\ jobs.tagging[j].file \in Files
        /\ <<jobs.tagging[j].file, db.tags[jobs.tagging[j].id]>> \in given
    BY <1>3, <2>1 DEF Rows, Tagged
  <2>3. Row(db'.tags, jobs.tagging[j].id, db.tags[jobs.tagging[j].id])
    BY <1>1, <2>2 DEF Row
  <2> QED
    BY <1>2, <2>1, <2>2, <2>3 DEF Row
<1> QED
  BY <1>3 DEF Tagged

Plain ==
  /\ committed' \in {committed, None, db} /\ xml' \in {xml, Torn}
  /\ disk' = disk /\ jobs' = jobs
  /\ lastBackup' \in {lastBackup, "written", "partial", "failed", "leaked_lock"}
  /\ given' = given /\ promised' \subseteq promised

LocksTyped == idLock' \in Threads \cup {None} /\ backupLock' \in Threads \cup {None}

(* A step that leaves the jobs alone, and the file or tears it.            *)
LEMMA PlainKeeps ==
  ASSUME Typed, Rows, Advanced, Frames', Plain, LocksTyped
  PROVE  Typed' /\ Rows'
<1>1. Keeps
  BY DEF Keeps, Plain, LocksTyped, Typed, TypeOK
<1>2. Typed' /\ Saved' /\ Written'
  BY <1>1, KeepsTyped, KeepsSaved, WrittenStays DEF Plain
<1>3. Summed' /\ Tagged'
  BY SummedStays, TaggedStays DEF Plain
<1> QED
  BY <1>2, <1>3 DEF Rows, Advanced

LEMMA LocksAre ==
  ASSUME Typed
  PROVE  idLock \in Threads \cup {None} /\ backupLock \in Threads \cup {None}
BY DEF Typed, TypeOK

(* The actions that leave the jobs alone.                                  *)

LEMMA InsertPhotoTyped ==
  ASSUME Typed, Rows, AllFine, NEW t \in Threads, InsertPhoto(t)
  PROVE  Typed' /\ Rows'
<1>0. Placed /\ Advanced
  BY FineIs, InsertPhotoFine
<1>1. Plain /\ LocksTyped
  BY LocksAre DEF InsertPhoto, Plain, LocksTyped, dbVars, lockVars, history
<1>2. Goto(t, "id") /\ t \in Threads
  BY Zenon DEF InsertPhoto
<1>3. Frames'
  BY <1>2, FramesTyped, Going, Returning DEF Places
<1> QED
  BY <1>0, <1>1, <1>3, PlainKeeps

LEMMA FindTagTyped ==
  ASSUME Typed, Rows, AllFine, NEW t \in Threads, NEW m \in Mark, FindTag(t, m)
  PROVE  Typed' /\ Rows'
<1>0. Placed /\ Advanced
  BY FineIs, FindTagFine
<1>1. Plain /\ LocksTyped
  BY LocksAre DEF FindTag, Plain, LocksTyped, dbVars, lockVars, history
<1>2. Frames'
  BY <1>0, FindTagFrame
<1> QED
  BY <1>0, <1>1, <1>2, PlainKeeps

LEMMA InsertTagTyped ==
  ASSUME Typed, Rows, AllFine, NEW t \in Threads, InsertTag(t)
  PROVE  Typed' /\ Rows'
<1>0. Placed /\ Advanced
  BY FineIs, InsertTagFine
<1>1. Plain /\ LocksTyped
  BY LocksAre DEF InsertTag, Plain, LocksTyped, dbVars, lockVars, history
<1>2. Goto(t, "tag_id") /\ t \in Threads
  BY Zenon DEF InsertTag
<1>3. Frames'
  BY <1>2, FramesTyped, Going, Returning DEF Places
<1> QED
  BY <1>0, <1>1, <1>3, PlainKeeps

LEMMA TagIdTyped ==
  ASSUME Typed, Rows, AllFine, NEW t \in Threads, TagId(t)
  PROVE  Typed' /\ Rows'
<1>0. Placed /\ Advanced
  BY FineIs, TagIdFine
<1>1. Plain /\ LocksTyped
  BY LocksAre DEF TagId, Plain, LocksTyped, dbVars, lockVars, history
<1>2. Frames'
  BY <1>0, TagIdFrame
<1> QED
  BY <1>0, <1>1, <1>2, PlainKeeps

LEMMA InsertMarkTyped ==
  ASSUME Typed, Rows, AllFine, NEW t \in Threads, InsertMark(t)
  PROVE  Typed' /\ Rows'
<1>0. Placed /\ Advanced
  BY FineIs, InsertMarkFine
<1>1. Plain /\ LocksTyped
  BY LocksAre DEF InsertMark, Plain, LocksTyped, dbVars, lockVars, history
<1>2. Goto(t, Loop(frame[t].call, frame[t].todo))
  BY Zenon DEF InsertMark
<1>3. Frames'
  BY <1>2, FramesTyped, Going, NextSteps
<1> QED
  BY <1>0, <1>1, <1>3, PlainKeeps

LEMMA KnownPhotoTyped ==
  ASSUME Typed, Rows, AllFine, NEW t \in Threads, KnownPhoto(t)
  PROVE  Typed' /\ Rows'
<1>0. Placed /\ Advanced
  BY FineIs, KnownPhotoFine
<1>1. Plain /\ LocksTyped
  BY LocksAre DEF KnownPhoto, Plain, LocksTyped, dbVars, lockVars, history
<1>2. /\ At(t, "find") /\ (Added(t) \/ Goto(t, "insert"))
  BY Zenon DEF KnownPhoto
<1>3. frame[t].file \in Files
  BY <1>0, <1>2, CallOf DEF At
<1>4. Frames'
  BY <1>2, <1>3, FramesTyped, AddedFrame, Going DEF Places
<1> QED
  BY <1>0, <1>1, <1>4, PlainKeeps

LEMMA BeginTyped ==
  ASSUME Typed, Rows, AllFine, NEW t \in Threads, Begin(t)
  PROVE  Typed' /\ Rows'
<1>0. Placed /\ Advanced
  BY FineIs, BeginFine
<1>1. Plain /\ LocksTyped
  BY LocksAre DEF Begin, Plain, LocksTyped, dbVars, lockVars, history
<1>2. Goto(t, Loop(frame[t].call, frame[t].todo))
  BY Zenon DEF Begin
<1>3. Frames'
  BY <1>2, FramesTyped, Going, NextSteps
<1> QED
  BY <1>0, <1>1, <1>3, PlainKeeps

LEMMA CommitTyped ==
  ASSUME Typed, Rows, AllFine, NEW t \in Threads, Commit(t)
  PROVE  Typed' /\ Rows'
<1>0. Placed /\ Advanced
  BY FineIs, CommitFine
<1>1. Plain /\ LocksTyped
  BY LocksAre DEF Commit, Plain, LocksTyped, dbVars, lockVars, history
<1>2. /\ At(t, "commit") /\ (Added(t))
  BY Zenon DEF Commit
<1>3. frame[t].file \in Files
  BY <1>0, <1>2, CallOf DEF At
<1>4. Frames'
  BY <1>2, <1>3, FramesTyped, AddedFrame, Going DEF Places
<1> QED
  BY <1>0, <1>1, <1>4, PlainKeeps

LEMMA StartBackupTyped ==
  ASSUME Typed, Rows, AllFine, NEW t \in Threads, StartBackup(t)
  PROVE  Typed' /\ Rows'
<1>0. Placed /\ Advanced
  BY FineIs, StartBackupFine
<1>1. Plain /\ LocksTyped
  BY LocksAre DEF StartBackup, Plain, LocksTyped, dbVars, lockVars, history
<1>2. (Goto(t, "query") \/ Goto(t, "no_writer") \/ Return(t)) /\ t \in Threads
  BY Zenon DEF StartBackup
<1>3. Frames'
  BY <1>2, FramesTyped, Going, Returning DEF Places
<1> QED
  BY <1>0, <1>1, <1>3, PlainKeeps

LEMMA NoWriterTyped ==
  ASSUME Typed, Rows, AllFine, NEW t \in Threads, NoWriter(t)
  PROVE  Typed' /\ Rows'
<1>0. Placed /\ Advanced
  BY FineIs, NoWriterFine
<1>1. Plain /\ LocksTyped
  BY LocksAre DEF NoWriter, Plain, LocksTyped, dbVars, lockVars, history
<1>2. Return(t) /\ t \in Threads
  BY Zenon DEF NoWriter
<1>3. Frames'
  BY <1>2, FramesTyped, Going, Returning DEF Places
<1> QED
  BY <1>0, <1>1, <1>3, PlainKeeps

LEMMA QueryTagsTyped ==
  ASSUME Typed, Rows, AllFine, NEW t \in Threads, QueryTags(t)
  PROVE  Typed' /\ Rows'
<1>0. Placed /\ Advanced
  BY FineIs, QueryTagsFine
<1>1. Plain /\ LocksTyped
  BY LocksAre DEF QueryTags, Plain, LocksTyped, dbVars, lockVars, history
<1>2. Frames'
  BY <1>0, QueryTagsFrame
<1> QED
  BY <1>0, <1>1, <1>2, PlainKeeps

LEMMA ReadXmlTyped ==
  ASSUME Typed, Rows, AllFine, ReadXml
  PROVE  Typed' /\ Rows'
<1>0. Placed /\ Advanced
  BY FineIs, ReadXmlFine
<1>1. Plain /\ LocksTyped
  BY LocksAre DEF ReadXml, Plain, LocksTyped, dbVars, lockVars, history
<1>2. Frames'
  BY <1>0, ReadXmlFrame
<1> QED
  BY <1>0, <1>1, <1>2, PlainKeeps

LEMMA RestoreFileTyped ==
  ASSUME Typed, Rows, AllFine, NEW f \in Files, RestoreFile(f)
  PROVE  Typed' /\ Rows'
<1>0. Placed /\ Advanced
  BY FineIs, RestoreFileFine
<1>1. Plain /\ LocksTyped
  BY LocksAre DEF RestoreFile, Plain, LocksTyped, dbVars, lockVars, history
<1>2. Frames'
  BY <1>0, RestoreFileFrame
<1> QED
  BY <1>0, <1>1, <1>2, PlainKeeps

LEMMA AddPhotoTyped ==
  ASSUME Typed, Rows, AllFine, AddPhoto
  PROVE  Typed' /\ Rows'
<1>0. Placed /\ Advanced
  BY FineIs, AddPhotoFine
<1>1. Plain /\ LocksTyped
  BY LocksAre DEF AddPhoto, Plain, LocksTyped, dbVars, lockVars, history
<1>2. Frames'
  BY <1>0, AddPhotoFrame
<1> QED
  BY <1>0, <1>1, <1>2, PlainKeeps

LEMMA FilesDoneTyped ==
  ASSUME Typed, Rows, AllFine, FilesDone
  PROVE  Typed' /\ Rows'
<1>0. Placed /\ Advanced
  BY FineIs, FilesDoneFine
<1>1. Plain /\ LocksTyped
  BY LocksAre DEF FilesDone, Plain, LocksTyped, dbVars, lockVars, history
<1>2. Return(Io) /\ Io \in Threads
  BY Zenon DEF FilesDone, Threads
<1>3. Frames'
  BY <1>2, FramesTyped, Going, Returning DEF Places
<1> QED
  BY <1>0, <1>1, <1>3, PlainKeeps

LEMMA TagPhotosTyped ==
  ASSUME Typed, Rows, AllFine, NEW files \in SUBSET disk, NEW name \in Names, TagPhotos(files, name)
  PROVE  Typed' /\ Rows'
<1>0. Placed /\ Advanced
  BY FineIs, TagPhotosFine
<1>1. Plain /\ LocksTyped
  BY LocksAre DEF TagPhotos, Plain, LocksTyped, dbVars, lockVars, history
<1>2. Frames'
  BY <1>0, TagPhotosFrame
<1> QED
  BY <1>0, <1>1, <1>2, PlainKeeps

LEMMA RemoveTagTyped ==
  ASSUME Typed, Rows, AllFine, NEW f \in Files, NEW name \in Names, RemoveTag(f, name)
  PROVE  Typed' /\ Rows'
<1>0. Placed /\ Advanced
  BY FineIs, RemoveTagFine
<1>1. Plain /\ LocksTyped
  BY LocksAre DEF RemoveTag, Plain, LocksTyped, dbVars, lockVars, history
<1>2. Frames'
  BY <1>0, RemoveTagFrame
<1> QED
  BY <1>0, <1>1, <1>2, PlainKeeps

LEMMA DeleteMarkTyped ==
  ASSUME Typed, Rows, AllFine, DeleteMark
  PROVE  Typed' /\ Rows'
<1>0. Placed /\ Advanced
  BY FineIs, DeleteMarkFine
<1>1. Plain /\ LocksTyped
  BY LocksAre DEF DeleteMark, Plain, LocksTyped, dbVars, lockVars, history
<1>2. Frames'
  BY <1>0, DeleteMarkFrame
<1> QED
  BY <1>0, <1>1, <1>2, PlainKeeps

(* The actions that change the jobs or write the file.                     *)
LEMMA JobsAre ==
  ASSUME Typed
  PROVE  /\ jobs \in JobsType /\ jobs.metadata \in Seq(Files) /\ jobs.checksum \in Seq(SumJob)
         /\ jobs.tagging \in Seq(Job)
BY DEF Typed, JobsType

LEMMA PhotoIdTyped ==
  ASSUME Typed, Rows, AllFine, NEW t \in Threads, PhotoId(t)
  PROVE  Typed' /\ Rows'
<1>0. Placed /\ Advanced /\ Fine(t)
  BY FineIs, PhotoIdFine DEF AllFine
<1>1. /\ Frames' /\ At(t, "id")
  BY PhotoIdFrame
<1>2. Adding(t) /\ frame[t].file \in Files /\ rowid \in Nat
  BY <1>0, <1>1, CallOf DEF At, Typed, TypeOK
<1>3. PICK job \in SumJob : job = [file |-> frame[t].file, id |-> rowid]
  BY <1>2 DEF SumJob
<1>4. job.file = frame[t].file /\ job.id = rowid
  BY <1>3
<1>5. jobs' = [jobs EXCEPT !.checksum = Append(jobs.checksum, job)]
  BY <1>3, Zenon DEF PhotoId, Queue
<1>6. /\ jobs' \in JobsType /\ jobs'.tagging = jobs.tagging
      /\ jobs'.checksum = Append(jobs.checksum, job)
  <2> DEFINE sums == Append(jobs.checksum, job)
  <2>1. sums \in Seq(SumJob)
    BY JobsAre
  <2>2. jobs' = [jobs EXCEPT !.checksum = sums]
    BY <1>5
  <2>3. sums = Append(jobs.checksum, job)
    OBVIOUS
  <2> HIDE DEF sums
  <2> QED
    BY <2>1, <2>2, <2>3, JobsAre DEF JobsType
<1>7. Keeps
  BY <1>6, LocksAre DEF PhotoId, Keeps, Typed, TypeOK, dbVars, history
<1>8. Row(db'.photos, job.id, job.file)
  BY <1>0, <1>1, <1>4 DEF PhotoId, dbVars, Fine, Honest, At
<1>9. Summed'
  <2>1. ASSUME NEW i \in DOMAIN jobs'.checksum
        PROVE  \/ \E j \in DOMAIN jobs.checksum : jobs'.checksum[i] = jobs.checksum[j]
               \/ jobs'.checksum[i] = job
    BY <1>6, JobsAre
  <2> QED
    BY <1>0, <1>8, <2>1, SummedStays
<1>10. Tagged'
  BY <1>0, <1>6, TaggedStays
<1>11. Written'
  BY <1>0, WrittenStays DEF PhotoId
<1> QED
  BY <1>0, <1>1, <1>7, <1>9, <1>10, <1>11, KeepsTyped, KeepsSaved DEF Rows, Advanced

LEMMA WriteXmlTyped ==
  ASSUME Typed, Rows, AllFine, NEW t \in Threads, WriteXml(t)
  PROVE  Typed' /\ Rows'
<1>0. Advanced /\ Fine(t)
  BY WriteXmlFine DEF AllFine
<1>1. Return(t) /\ At(t, "write") /\ xml' = [f \in Files |-> {m \in Mark : <<f, m>> \in frame[t].more}]
  BY Zenon DEF WriteXml
<1>2. Frames'
  BY <1>1, FramesTyped, Returning
<1>3. jobs' = jobs /\ given' = given
  BY Zenon DEF WriteXml, history
<1>4. xml' \in [Files -> SUBSET Mark]
  BY <1>1
<1>5. Keeps
  BY <1>3, <1>4, LocksAre, JobsAre DEF WriteXml, Keeps, Typed, TypeOK, dbVars, history
<1>6. Written'
  <2>1. \A f \in Files : \A m \in xml'[f] : m \in Mark /\ <<f, m>> \in frame[t].more
    BY <1>1
  <2> QED
    BY <1>0, <1>1, <1>3, <2>1 DEF Written, Fine, Honest
<1>7. Summed' /\ Tagged'
  BY <1>0, <1>3, SummedStays, TaggedStays
<1> QED
  BY <1>0, <1>2, <1>5, <1>6, <1>7, KeepsTyped, KeepsSaved DEF Rows, Advanced

LEMMA TakeMetadataTyped ==
  ASSUME Typed, Rows, AllFine, TakeMetadata
  PROVE  Typed' /\ Rows'
<1>0. Advanced /\ Frames'
  BY TakeMetadataFine, TakeMetadataFrame
<1>1. jobs.metadata # <<>> /\ jobs' = [jobs EXCEPT !.metadata = Tail(jobs.metadata)]
  BY Zenon DEF TakeMetadata
<1>2. Tail(jobs.metadata) \in Seq(Files)
  BY <1>1, JobsAre
<1>3. /\ jobs' \in JobsType /\ jobs'.tagging = jobs.tagging /\ jobs'.checksum = jobs.checksum
  BY <1>1, <1>2, JobsAre DEF JobsType
<1>4. /\ dbVars' = dbVars /\ lockVars' = lockVars /\ xml' = xml /\ disk' = disk /\ history' = history
  BY Zenon DEF TakeMetadata
<1>5. Keeps
  BY <1>3, <1>4, LocksAre DEF Keeps, Typed, TypeOK, dbVars, lockVars, history
<1>6. Written' /\ Summed' /\ Tagged'
  BY <1>0, <1>3, <1>4, WrittenStays, SummedStays, TaggedStays
<1> QED
  BY <1>0, <1>5, <1>6, KeepsTyped, KeepsSaved DEF Rows, Advanced

LEMMA TakeChecksumTyped ==
  ASSUME Typed, Rows, AllFine, TakeChecksum
  PROVE  Typed' /\ Rows'
<1>0. Advanced /\ frame' = frame
  BY TakeChecksumFine, TakeChecksumAdds
<1>1. jobs.checksum # <<>> /\ jobs' = [jobs EXCEPT !.checksum = Tail(jobs.checksum)]
  BY Zenon DEF TakeChecksum
<1>2. /\ Tail(jobs.checksum) \in Seq(SumJob)
      /\ \A i \in DOMAIN Tail(jobs.checksum) :
            i + 1 \in DOMAIN jobs.checksum /\ Tail(jobs.checksum)[i] = jobs.checksum[i + 1]
  BY <1>1, JobsAre
<1>3. /\ jobs' \in JobsType /\ jobs'.tagging = jobs.tagging
      /\ jobs'.checksum = Tail(jobs.checksum)
  BY <1>1, <1>2, JobsAre DEF JobsType
<1>4. /\ committed' = committed /\ lockVars' = lockVars /\ xml' = xml /\ disk' = disk
      /\ history' = history
  BY Zenon DEF TakeChecksum
<1>5. Keeps
  BY <1>3, <1>4, LocksAre DEF Keeps, Typed, TypeOK, lockVars, history
<1>6. Summed'
  BY <1>0, <1>2, <1>3, SummedStays
<1>7. Written' /\ Tagged'
  BY <1>0, <1>3, <1>4, WrittenStays, TaggedStays
<1>8. Frames'
  BY <1>0, FramesTyped DEF Frames
<1> QED
  BY <1>0, <1>5, <1>6, <1>7, <1>8, KeepsTyped, KeepsSaved DEF Rows, Advanced

LEMMA TakeTaggingTyped ==
  ASSUME Typed, Rows, AllFine, TakeTagging
  PROVE  Typed' /\ Rows'
<1>0. Advanced /\ Frames'
  BY FineIs, TakeTaggingFine, TakeTaggingFrame
<1>1. jobs.tagging # <<>> /\ jobs' = [jobs EXCEPT !.tagging = Tail(jobs.tagging)]
  BY Zenon DEF TakeTagging
<1>2. /\ Tail(jobs.tagging) \in Seq(Job)
      /\ \A i \in DOMAIN Tail(jobs.tagging) :
            i + 1 \in DOMAIN jobs.tagging /\ Tail(jobs.tagging)[i] = jobs.tagging[i + 1]
  BY <1>1, TaggingJob
<1>3. /\ jobs' \in JobsType /\ jobs'.tagging = Tail(jobs.tagging)
      /\ jobs'.checksum = jobs.checksum
  BY <1>1, <1>2, JobsAre DEF JobsType
<1>4. /\ committed' = committed /\ lockVars' = lockVars /\ xml' = xml /\ disk' = disk
      /\ history' = history
  BY Zenon DEF TakeTagging
<1>5. Keeps
  BY <1>3, <1>4, LocksAre DEF Keeps, Typed, TypeOK, lockVars, history
<1>6. Tagged'
  BY <1>0, <1>2, <1>3, TaggedStays
<1>7. Written' /\ Summed'
  BY <1>0, <1>3, <1>4, WrittenStays, SummedStays
<1> QED
  BY <1>0, <1>5, <1>6, <1>7, KeepsTyped, KeepsSaved DEF Rows, Advanced

LEMMA LoadDirectoryTyped ==
  ASSUME Typed, Rows, AllFine, LoadDirectory
  PROVE  Typed' /\ Rows'
<1>0. Advanced
  BY LoadDirectoryFine
<1>1. PICK order \in SetToSeqs(disk) :
         jobs' = [jobs EXCEPT !.metadata = order,
                              !.tagging = Append(jobs.tagging, Task("restore", None, 0))]
  BY Zenon DEF LoadDirectory
<1>2. order \in Seq(Files)
  <2>1. disk \subseteq Files /\ IsFiniteSet(disk)
    BY FS_Subset, LibraryAssumption DEF Typed, TypeOK
  <2>2. Cardinality(disk) \in Nat
    BY <2>1, FS_CardinalityType
  <2>3. order \in [1 .. Cardinality(disk) -> disk]
    BY Zenon DEF SetToSeqs
  <2> QED
    BY <2>1, <2>2, <2>3
<1> DEFINE restore == Task("restore", None, 0)
<1>3. restore \in Job /\ restore.what # "tag"
  BY DEF Job, Task
<1> HIDE DEF restore
<1>4. jobs' = [jobs EXCEPT !.metadata = order, !.tagging = Append(jobs.tagging, restore)]
  BY <1>1 DEF restore
<1>5. /\ jobs' \in JobsType /\ jobs'.tagging = Append(jobs.tagging, restore)
      /\ jobs'.checksum = jobs.checksum
  <2> DEFINE tagging == Append(jobs.tagging, restore)
  <2>1. tagging \in Seq(Job)
    BY <1>3, JobsAre
  <2>2. jobs' = [jobs EXCEPT !.metadata = order, !.tagging = tagging]
    BY <1>4
  <2>3. tagging = Append(jobs.tagging, restore)
    OBVIOUS
  <2> HIDE DEF tagging
  <2> QED
    BY <1>2, <2>1, <2>2, <2>3, JobsAre DEF JobsType
<1>6. /\ dbVars' = dbVars /\ lockVars' = lockVars /\ xml' = xml /\ disk' = disk
      /\ frame' = frame /\ history' = history
  BY Zenon DEF LoadDirectory
<1>7. Keeps
  BY <1>5, <1>6, LocksAre DEF Keeps, Typed, TypeOK, dbVars, lockVars, history
<1>8. Tagged'
  <2>1. ASSUME NEW i \in DOMAIN jobs'.tagging
        PROVE  \/ \E j \in DOMAIN jobs.tagging : jobs'.tagging[i] = jobs.tagging[j]
               \/ jobs'.tagging[i] = restore
    BY <1>5, JobsAre
  <2> QED
    BY <1>0, <1>3, <2>1, TaggedStays
<1>9. Written' /\ Summed'
  BY <1>0, <1>5, <1>6, WrittenStays, SummedStays
<1>10. Frames'
  BY <1>6, FramesTyped DEF Frames
<1> QED
  BY <1>0, <1>7, <1>8, <1>9, <1>10, KeepsTyped, KeepsSaved DEF Rows, Advanced

LEMMA SearchTyped ==
  ASSUME Typed, Rows, AllFine, NEW name \in Names, Search(name)
  PROVE  Typed' /\ Rows'
<1>0. Advanced
  BY SearchFine
<1> DEFINE found == {k.photo : k \in {k \in db.marks : db.tags[k.tag] = name}}
           loaded == {db.photos[q] : q \in found} \cap disk
<1>1. jobs' = [jobs EXCEPT !.metadata = SetToSeq(loaded)]
  BY Zenon DEF Search
<1>2. loaded \subseteq Files /\ IsFiniteSet(loaded)
  <2>1. loaded \subseteq Files
    BY DEF Typed, TypeOK
  <2> QED
    BY <2>1, FS_Subset, LibraryAssumption
<1> HIDE DEF loaded
<1>3. SetToSeq(loaded) \in Seq(Files)
  BY <1>2, SetToSeqType
<1>4. /\ jobs' \in JobsType /\ jobs'.tagging = jobs.tagging /\ jobs'.checksum = jobs.checksum
  BY <1>1, <1>3, JobsAre DEF JobsType
<1>5. /\ db' = db /\ committed' = committed /\ lockVars' = lockVars /\ xml' = xml /\ disk' = disk
      /\ frame' = frame /\ history' = history
  BY Zenon DEF Search
<1>6. Keeps
  BY <1>4, <1>5, LocksAre DEF Keeps, Typed, TypeOK, lockVars, history
<1>7. Written' /\ Summed' /\ Tagged'
  BY <1>0, <1>4, <1>5, WrittenStays, SummedStays, TaggedStays
<1>8. Frames'
  BY <1>5, FramesTyped DEF Frames
<1> QED
  BY <1>0, <1>6, <1>7, <1>8, KeepsTyped, KeepsSaved DEF Rows, Advanced

LEMMA CaptureTyped ==
  ASSUME Typed, Rows, AllFine, NEW f \in Files, Capture(f)
  PROVE  Typed' /\ Rows'
<1>0. Advanced /\ Frames'
  BY CaptureFine, CaptureFrame
<1>1. jobs' = [jobs EXCEPT !.metadata = Append(jobs.metadata, f)]
  BY Zenon DEF Capture, Queue
<1>2. Append(jobs.metadata, f) \in Seq(Files)
  BY JobsAre
<1>3. /\ jobs' \in JobsType /\ jobs'.tagging = jobs.tagging /\ jobs'.checksum = jobs.checksum
  BY <1>1, <1>2, JobsAre DEF JobsType
<1>4. /\ dbVars' = dbVars /\ lockVars' = lockVars /\ xml' = xml /\ disk' = disk \cup {f}
      /\ history' = history
  BY Zenon DEF Capture
<1>5. Keeps
  BY <1>3, <1>4, LocksAre DEF Keeps, Typed, TypeOK, dbVars, lockVars, history
<1>6. Written' /\ Summed' /\ Tagged'
  BY <1>0, <1>3, <1>4, WrittenStays, SummedStays, TaggedStays
<1> QED
  BY <1>0, <1>5, <1>6, KeepsTyped, KeepsSaved DEF Rows, Advanced

IsConcat(c, a, b, S) ==
  /\ c \in Seq(S) /\ Len(c) = Len(a) + Len(b)
  /\ \A i \in 1 .. Len(a) : c[i] = a[i]
  /\ \A i \in 1 .. Len(b) : c[Len(a) + i] = b[i]

IsJoined(c, a, b, e, S) ==
  /\ c \in Seq(S) /\ Len(c) = Len(a) + Len(b) + 1
  /\ \A i \in 1 .. Len(a) : c[i] = a[i]
  /\ \A i \in 1 .. Len(b) : c[Len(a) + i] = b[i]
  /\ c[Len(a) + Len(b) + 1] = e

(* Two sequences, one after the other.                                     *)
LEMMA Concatenated ==
  ASSUME NEW S, NEW a \in Seq(S), NEW b \in Seq(S)
  PROVE  IsConcat(a \o b, a, b, S)
BY DEF IsConcat

(* Two sequences and an element, one after the other.                      *)
LEMMA Joined ==
  ASSUME NEW S, NEW a \in Seq(S), NEW b \in Seq(S), NEW e \in S
  PROVE  IsJoined(a \o b \o <<e>>, a, b, e, S)
<1> DEFINE ab == a \o b
           s == <<e>>
           abs == ab \o s
<1>1. Len(a) \in Nat /\ Len(b) \in Nat
  OBVIOUS
<1>2. s \in Seq(S) /\ Len(s) = 1 /\ s[1] = e
  OBVIOUS
<1>3. IsConcat(ab, a, b, S)
  BY Concatenated
<1>4. ab \in Seq(S)
  BY <1>3 DEF IsConcat
<1>5. IsConcat(abs, ab, s, S)
  <2> HIDE DEF ab, s
  <2> QED
    BY <1>2, <1>4, Concatenated
<1>6. a \o b \o <<e>> = abs
  OBVIOUS
<1> HIDE DEF ab, s, abs
<1>7. \A i \in 1 .. Len(b) : Len(a) + i \in 1 .. Len(ab)
  BY <1>1, <1>3 DEF IsConcat
<1>8. \A i \in 1 .. Len(a) : i \in 1 .. Len(ab)
  BY <1>1, <1>3 DEF IsConcat
<1>9. abs[Len(ab) + 1] = e
  BY <1>2, <1>5 DEF IsConcat
<1>10. IsJoined(abs, a, b, e, S)
  BY <1>1, <1>2, <1>3, <1>5, <1>7, <1>8, <1>9 DEF IsConcat, IsJoined
<1> QED
  BY <1>6, <1>10

(* A job for each photo, and one for the backup, after those there are.    *)
LEMMA QueuedJobs ==
  ASSUME Typed, AllFine, NEW t \in Threads, QueueTags(t)
  PROVE  /\ jobs' \in JobsType /\ jobs'.metadata = jobs.metadata /\ jobs'.checksum = jobs.checksum
         /\ \A i \in DOMAIN jobs.tagging :
               i \in DOMAIN jobs'.tagging /\ jobs'.tagging[i] = jobs.tagging[i]
         /\ \A i \in DOMAIN jobs'.tagging \ DOMAIN jobs.tagging :
               \/ jobs'.tagging[i].what = "backup"
               \/ /\ jobs'.tagging[i].what = "tag" /\ jobs'.tagging[i].id = frame[t].tag
                  /\ jobs'.tagging[i].file \in frame[t].more
         /\ \E last \in DOMAIN jobs'.tagging :
               /\ jobs'.tagging[last].what = "backup"
               /\ \A i \in DOMAIN jobs'.tagging : i <= last
<1>1. /\ Fine(t) /\ Placed /\ frame[t] \in FrameType
  BY FineIs, FramesTyped DEF AllFine
<1>2. At(t, "queue")
  BY Zenon DEF QueueTags
<1>3. frame[t].more \subseteq Files /\ frame[t].tag \in Nat
  BY <1>1, <1>2, CallOf DEF At, Fine, Busy, FrameType
<1>4. IsFiniteSet(frame[t].more)
  BY <1>3, FS_Subset, LibraryAssumption
<1>5. PICK order \in Seq(frame[t].more) : order = SetToSeq(frame[t].more)
  BY <1>4, SetToSeqType
<1> DEFINE tags == [i \in DOMAIN order |-> Task("tag", order[i], frame[t].tag)]
           backup == Task("backup", None, 0)
<1>6. backup \in Job /\ backup.what = "backup"
  BY DEF Task, Job
<1>7. ASSUME NEW i \in DOMAIN order
      PROVE  /\ tags[i] \in Job /\ tags[i].what = "tag" /\ tags[i].id = frame[t].tag
             /\ tags[i].file \in frame[t].more
  <2>1. order[i] \in frame[t].more
    BY <1>5
  <2>2. tags[i] = Task("tag", order[i], frame[t].tag)
    OBVIOUS
  <2> QED
    BY <1>3, <2>1, <2>2 DEF Task, Job
<1>8. /\ tags \in Seq(Job) /\ Len(tags) = Len(order) /\ Len(order) \in Nat
      /\ DOMAIN order = 1 .. Len(order)
  <2>1. DOMAIN order = 1 .. Len(order) /\ Len(order) \in Nat
    BY <1>5
  <2>2. DOMAIN tags = DOMAIN order
    OBVIOUS
  <2>3. tags = [i \in DOMAIN tags |-> tags[i]]
    OBVIOUS
  <2> HIDE DEF tags
  <2>4. tags \in [1 .. Len(order) -> Job]
    BY <1>7, <2>1, <2>2, <2>3
  <2>5. tags \in Seq(Job)
    BY <2>1, <2>4
  <2> QED
    BY <2>1, <2>2, <2>5
<1>9. jobs' = [jobs EXCEPT !.tagging = jobs.tagging \o tags \o <<backup>>]
  BY <1>5, Zenon DEF QueueTags
<1> HIDE DEF tags, backup
<1> DEFINE tagging == jobs.tagging \o tags \o <<backup>>
<1>10. /\ tagging \in Seq(Job) /\ Len(jobs.tagging) \in Nat
       /\ Len(tagging) = Len(jobs.tagging) + Len(order) + 1
       /\ DOMAIN tagging = 1 .. Len(tagging) /\ DOMAIN jobs.tagging = 1 .. Len(jobs.tagging)
       /\ \A i \in 1 .. Len(jobs.tagging) : tagging[i] = jobs.tagging[i]
       /\ \A i \in 1 .. Len(order) : tagging[Len(jobs.tagging) + i] = tags[i]
       /\ tagging[Len(tagging)] = backup
  <2>1. /\ tagging \in Seq(Job) /\ Len(tagging) = Len(jobs.tagging) + Len(tags) + 1
        /\ \A i \in 1 .. Len(jobs.tagging) : tagging[i] = jobs.tagging[i]
        /\ \A i \in 1 .. Len(tags) : tagging[Len(jobs.tagging) + i] = tags[i]
        /\ tagging[Len(jobs.tagging) + Len(tags) + 1] = backup
    <3>1. jobs.tagging \in Seq(Job)
      BY JobsAre
    <3>2. tags \in Seq(Job) /\ backup \in Job
      BY <1>6, <1>8
    <3>3. IsJoined(tagging, jobs.tagging, tags, backup, Job)
      BY <3>1, <3>2, Joined
    <3> HIDE DEF tagging
    <3> QED
      BY <3>3 DEF IsJoined
  <2> HIDE DEF tagging
  <2>2. /\ Len(jobs.tagging) \in Nat /\ DOMAIN jobs.tagging = 1 .. Len(jobs.tagging)
        /\ DOMAIN tagging = 1 .. Len(tagging)
    BY <2>1, JobsAre
  <2> QED
    BY <1>8, <2>1, <2>2
<1> HIDE DEF tagging
<1>11. /\ jobs' \in JobsType /\ jobs'.metadata = jobs.metadata /\ jobs'.checksum = jobs.checksum
       /\ jobs'.tagging = tagging
  BY <1>9, <1>10, JobsAre DEF JobsType, tagging
<1>12. \A i \in DOMAIN jobs.tagging : i \in DOMAIN tagging /\ tagging[i] = jobs.tagging[i]
  BY <1>8, <1>10
<1>13. ASSUME NEW i \in DOMAIN tagging \ DOMAIN jobs.tagging
       PROVE  \/ tagging[i].what = "backup"
              \/ /\ tagging[i].what = "tag" /\ tagging[i].id = frame[t].tag
                 /\ tagging[i].file \in frame[t].more
  <2>1. CASE i = Len(tagging)
    BY <1>6, <1>10, <2>1
  <2>2. CASE i # Len(tagging)
    <3>1. i \in Nat /\ i - Len(jobs.tagging) \in 1 .. Len(order)
      BY <1>8, <1>10, <2>2
    <3> DEFINE j == i - Len(jobs.tagging)
    <3>2. i = Len(jobs.tagging) + j
      BY <1>10, <3>1
    <3>3. j \in 1 .. Len(order)
      BY <3>1
    <3> HIDE DEF j
    <3>4. tagging[i] = tags[j] /\ j \in DOMAIN order
      BY <1>8, <1>10, <3>2, <3>3
    <3> QED
      BY <1>7, <3>4
  <2> QED
    BY <2>1, <2>2
<1>14. /\ Len(tagging) \in DOMAIN tagging /\ tagging[Len(tagging)].what = "backup"
       /\ \A i \in DOMAIN tagging : i <= Len(tagging)
  BY <1>6, <1>8, <1>10
<1> QED
  BY <1>11, <1>12, <1>13, <1>14

LEMMA QueueTagsTyped ==
  ASSUME Typed, Rows, AllFine, NEW t \in Threads, QueueTags(t)
  PROVE  Typed' /\ Rows'
<1>0. Advanced /\ Placed /\ Fine(t)
  BY FineIs, QueueTagsFine DEF AllFine
<1>1. At(t, "queue") /\ Return(t)
  BY Zenon DEF QueueTags
<1>2. /\ given' = given \cup {<<f, frame[t].mark.name>> : f \in frame[t].more}
      /\ dbVars' = dbVars /\ lockVars' = lockVars /\ xml' = xml /\ disk' = disk
      /\ lastBackup' = lastBackup /\ promised' = promised
  BY Zenon DEF QueueTags
<1>3. /\ frame[t].more \subseteq Files /\ frame[t].mark.name \in Names
      /\ Row(db.tags, frame[t].tag, frame[t].mark.name)
  BY <1>0, <1>1, CallOf DEF At, Fine, Busy, Honest, Mark
<1>4. /\ jobs' \in JobsType /\ jobs'.checksum = jobs.checksum
  BY QueuedJobs
<1>5. Keeps
  BY <1>2, <1>3, <1>4, LocksAre DEF Keeps, Typed, TypeOK, dbVars, lockVars
<1>6. Frames'
  BY <1>1, FramesTyped, Returning
<1>7. Written' /\ Summed'
  BY <1>0, <1>2, <1>4, WrittenStays, SummedStays
<1>8. Tagged'
  <2>1. ASSUME NEW i \in DOMAIN jobs'.tagging, jobs'.tagging[i].what = "tag"
        PROVE  /\ jobs'.tagging[i].id \in DOMAIN db.tags /\ jobs'.tagging[i].file \in Files
               /\ <<jobs'.tagging[i].file, db.tags[jobs'.tagging[i].id]>> \in given'
    <3>1. CASE i \in DOMAIN jobs.tagging
      <4>1. jobs'.tagging[i] = jobs.tagging[i]
        BY <3>1, QueuedJobs
      <4> QED
        BY <1>2, <2>1, <3>1, <4>1 DEF Rows, Tagged
    <3>2. CASE i \notin DOMAIN jobs.tagging
      <4>1. jobs'.tagging[i].id = frame[t].tag /\ jobs'.tagging[i].file \in frame[t].more
        BY <2>1, <3>2, QueuedJobs
      <4> QED
        BY <1>2, <1>3, <4>1 DEF Row
    <3> QED
      BY <3>1, <3>2
  <2> QED
    BY <1>2, <2>1 DEF Tagged, dbVars
<1> QED
  BY <1>0, <1>5, <1>6, <1>7, <1>8, KeepsTyped, KeepsSaved DEF Rows, Advanced
-----------------------------------------------------------------------------
(* Backups and what they owe                                               *)

(* Rows that are kept are known, whatever comes.                           *)
LEMMA KnownStays ==
  ASSUME Advanced, NEW f, Known(f)
  PROVE  Known(f)'
<1>1. PICK i \in DOMAIN db.photos : db.photos[i] = f
  BY DEF Known
<1>2. Row(db'.photos, i, f)
  BY <1>1 DEF Advanced, Kept
<1> QED
  BY <1>2 DEF Row, Known

(* The jobs there are stay, and those that come give no tags.              *)
JobsStay ==
  /\ \A i \in DOMAIN jobs.tagging :
        i \in DOMAIN jobs'.tagging /\ jobs'.tagging[i] = jobs.tagging[i]
  /\ \A i \in DOMAIN jobs'.tagging \ DOMAIN jobs.tagging : jobs'.tagging[i].what # "tag"

LEMMA SameJobs ==
  ASSUME jobs'.tagging = jobs.tagging
  PROVE  JobsStay
BY DEF JobsStay

LEMMA FollowedStays ==
  ASSUME Followed, JobsStay
  PROVE  Followed'
<1> SUFFICES ASSUME NEW i \in DOMAIN jobs'.tagging, jobs'.tagging[i].what = "tag"
             PROVE  \E j \in DOMAIN jobs'.tagging : j > i /\ jobs'.tagging[j].what = "backup"
  BY DEF Followed
<1>1. i \in DOMAIN jobs.tagging /\ jobs.tagging[i].what = "tag"
  BY DEF JobsStay
<1>2. PICK j \in DOMAIN jobs.tagging : j > i /\ jobs.tagging[j].what = "backup"
  BY <1>1 DEF Followed
<1> QED
  BY <1>2 DEF JobsStay

LEMMA WriteKnownStays ==
  ASSUME WriteKnown, Advanced, NEW t \in Threads, Others(t), frame'[t].at # "write"
  PROVE  WriteKnown'
<1> SUFFICES ASSUME NEW u \in Threads, At(u, "write")', NEW f \in Files, NEW m \in Mark,
                    <<f, m>> \in frame'[u].more
             PROVE  Known(f)'
  BY DEF WriteKnown
<1>1. u # t /\ frame'[u] = frame[u]
  BY DEF At, Others
<1>2. Known(f)
  BY <1>1 DEF WriteKnown, At
<1> QED
  BY <1>2, KnownStays

LEMMA FileKnownStays ==
  ASSUME FileKnown, Advanced, xml' \in {xml, Torn}
  PROVE  FileKnown'
<1> SUFFICES ASSUME xml' \notin {None, Torn}, NEW f \in Files, NEW m \in xml'[f], ~ Automatic(m)
             PROVE  Known(f)'
  BY DEF FileKnown, Automatic
<1>1. Known(f)
  BY DEF FileKnown
<1> QED
  BY <1>1, KnownStays

(* A call that goes on restoring takes nothing new in hand.                *)
Goes ==
  /\ frame'[Io].call = frame[Io].call /\ frame'[Io].more \subseteq frame[Io].more
  /\ frame'[Io].todo \subseteq frame[Io].todo
  /\ Restores(Io)' => Restores(Io)
  /\ Adding(Io)' => Adding(Io)
  /\ frame'[Io].at \in TagSteps =>
        \/ frame'[Io].mark \in frame[Io].todo
        \/ frame[Io].at \in TagSteps /\ frame'[Io].mark = frame[Io].mark

LEMMA RestoreKnownStays ==
  ASSUME RestoreKnown, Advanced, Goes
  PROVE  RestoreKnown'
<1>1. ASSUME Restores(Io)', NEW f \in Files, NEW m \in Mark, <<f, m>> \in frame'[Io].more
      PROVE  Automatic(m) \/ Known(f)'
  <2>1. Restores(Io) /\ <<f, m>> \in frame[Io].more
    BY <1>1 DEF Goes
  <2>2. Automatic(m) \/ Known(f)
    BY <2>1 DEF RestoreKnown
  <2> QED
    BY <2>2, KnownStays
<1>2. ASSUME frame'[Io].call = "restore", Adding(Io)'
      PROVE  /\ \A m \in frame'[Io].todo : Automatic(m)
             /\ frame'[Io].at \in TagSteps => Automatic(frame'[Io].mark)
  BY <1>2 DEF Goes, RestoreKnown
<1>3. \A m : Automatic(m)' <=> Automatic(m)
  BY DEF Automatic
<1> QED
  BY <1>1, <1>2 DEF RestoreKnown, Automatic

LEMMA NotRestoring ==
  ASSUME ~ Restores(Io)'
  PROVE  RestoreKnown'
BY DEF RestoreKnown, Restores

LEMMA SameFrameGoes ==
  ASSUME frame'[Io] = frame[Io]
  PROVE  Goes
BY DEF Goes, Restores, Adding, At

(* A backup that is owed stays so when users' marks stay.                  *)
LEMMA OwedStays ==
  ASSUME Owed, Retained, JobsStay, xml' = xml, NEW t \in Threads, Others(t),
         frame[t].at \notin {"delete", "backup", "query", "write"}
  PROVE  Owed'
<1>1. CASE Coming
  <2>1. CASE \E i \in DOMAIN jobs.tagging : jobs.tagging[i].what = "backup"
    BY <2>1 DEF JobsStay, Coming, Owed
  <2>2. CASE \E u \in Threads : frame[u].at \in {"delete", "backup", "query"}
    BY <2>2 DEF Others, Coming, Owed
  <2> QED
    BY <1>1, <2>1, <2>2 DEF Coming
<1>2. CASE Synced
  <2>1. Synced'
    BY <1>2 DEF Synced, Retained, Carries
  <2> QED
    BY <2>1 DEF Owed
<1>3. CASE \E u \in Threads : Writing(u)
  <2>1. PICK u \in Threads : Writing(u)
    BY <1>3
  <2>2. frame'[u] = frame[u]
    BY <2>1 DEF Writing, At, Others
  <2>3. Writing(u)'
    BY <2>1, <2>2 DEF Writing, At, Carries, Retained
  <2> QED
    BY <2>3 DEF Owed
<1> QED
  BY <1>1, <1>2, <1>3 DEF Owed

(* A step that has nothing to do with backups.                             *)
LEMMA Calm ==
  ASSUME Settled, Advanced, lastBackup = "written" => Retained, JobsStay,
         lastBackup' = lastBackup, xml' = xml,
         NEW t \in Threads, Others(t), frame'[t].at # "write",
         frame[t].at \notin {"delete", "backup", "query", "write"},
         t = Io /\ lastBackup = "written" => RestoreKnown'
  PROVE  Settled'
<1>1. Followed' /\ WriteKnown'
  BY FollowedStays, WriteKnownStays DEF Settled
<1>2. ASSUME lastBackup = "written"
      PROVE  Owed' /\ FileKnown' /\ RestoreKnown'
  <2>1. Owed /\ FileKnown /\ RestoreKnown
    BY <1>2 DEF Settled
  <2>2. Owed' /\ FileKnown'
    BY <1>2, <2>1, OwedStays, FileKnownStays
  <2>3. CASE t # Io
    <3>1. Io \in Threads
      BY DEF Threads
    <3>2. frame'[Io] = frame[Io]
      BY <2>3, <3>1 DEF Others
    <3> QED
      BY <2>1, <2>2, <3>2, SameFrameGoes, RestoreKnownStays
  <2> QED
    BY <1>2, <2>2, <2>3
<1> QED
  BY <1>1, <1>2 DEF Settled
-----------------------------------------------------------------------------
(* Each action keeps what is said of backups.                              *)

LEMMA InsertPhotoSettled ==
  ASSUME Typed, Rows, AllFine, Settled, NEW t \in Threads, InsertPhoto(t)
  PROVE  Settled'
<1>0. Placed /\ Advanced
  BY FineIs, InsertPhotoFine
<1>1. /\ lastBackup' = lastBackup /\ xml' = xml /\ jobs' = jobs
      /\ At(t, "insert") /\ Goto(t, "id")
  BY Zenon DEF InsertPhoto, history
<1>2. Retained
  BY <1>0, InsertPhotoAdds
<1>3. Others(t) /\ frame'[t].at = "id" /\ SameCall(t)
  BY <1>1, FramesTyped, Going DEF Places
<1>4. Adding(t)
  BY <1>0, <1>1, CallOf DEF At
<1>5. ASSUME t = Io PROVE Goes
  BY <1>1, <1>3, <1>4, <1>5 DEF Goes, SameCall, Restores, Adding, At, TagSteps
<1>6. t = Io /\ lastBackup = "written" => RestoreKnown'
  BY <1>0, <1>5, RestoreKnownStays DEF Settled
<1> QED
  BY <1>0, <1>1, <1>2, <1>3, <1>6, SameJobs, Calm DEF At

LEMMA PhotoIdSettled ==
  ASSUME Typed, Rows, AllFine, Settled, NEW t \in Threads, PhotoId(t)
  PROVE  Settled'
<1>0. Placed /\ Advanced
  BY FineIs, PhotoIdFine
<1>1. /\ lastBackup' = lastBackup /\ xml' = xml /\ At(t, "id")
      /\ db' = db /\ rowid' = rowid /\ given' = given
      /\ Queue("checksum", [file |-> frame[t].file, id |-> rowid])
  BY Zenon DEF PhotoId, history, dbVars
<1>2. Retained
  BY <1>1, NothingAdded
<1>3. /\ Others(t) /\ frame'[t].at = AfterPhoto(frame[t].call, frame[t].todo)
      /\ frame'[t].call = frame[t].call /\ frame'[t].todo = frame[t].todo
      /\ frame'[t].more = frame[t].more /\ frame'[t].mark = frame[t].mark
  BY PhotoIdFrame
<1>4. Adding(t)
  BY <1>0, <1>1, CallOf DEF At
<1>5. frame'[t].at \in {"tags", "files", "begin"}
  BY <1>3, LoopIs DEF AfterPhoto
<1>6. ASSUME t = Io PROVE Goes
  BY <1>1, <1>3, <1>4, <1>5, <1>6 DEF Goes, Restores, Adding, At, TagSteps
<1>7. t = Io /\ lastBackup = "written" => RestoreKnown'
  BY <1>0, <1>6, RestoreKnownStays DEF Settled
<1>8. jobs'.tagging = jobs.tagging
  BY <1>1, JobsAre DEF Queue, JobsType
<1> QED
  BY <1>0, <1>1, <1>2, <1>3, <1>5, <1>7, <1>8, SameJobs, Calm DEF At

LEMMA FindTagSettled ==
  ASSUME Typed, Rows, AllFine, Settled, NEW t \in Threads, NEW m \in Mark, FindTag(t, m)
  PROVE  Settled'
<1>0. Placed /\ Advanced
  BY FineIs, FindTagFine
<1>1. /\ lastBackup' = lastBackup /\ xml' = xml /\ jobs' = jobs
      /\ db' = db /\ rowid' = rowid /\ given' = given
  BY Zenon DEF FindTag, history, dbVars
<1>2. Retained
  BY <1>1, NothingAdded
<1>3. /\ Others(t) /\ m \in frame[t].todo /\ At(t, "tags")
      /\ frame'[t].todo = frame[t].todo \ {m} /\ frame'[t].mark = m
      /\ frame'[t].at = "new_tag" \/ frame'[t].at = AfterTag(frame[t].call)
      /\ frame'[t].call = frame[t].call /\ frame'[t].more = frame[t].more
  BY FindTagFrame
<1>4. Adding(t) \/ frame[t].call = "give"
  BY <1>0, <1>3, CallOf DEF At
<1>5. frame'[t].at \in {"new_tag", "mark", "queue"}
  BY <1>3 DEF AfterTag
<1>6. ASSUME t = Io PROVE Goes
  BY <1>3, <1>4, <1>5, <1>6 DEF Goes, Restores, Adding, At, TagSteps
<1>7. t = Io /\ lastBackup = "written" => RestoreKnown'
  BY <1>0, <1>6, RestoreKnownStays DEF Settled
<1> QED
  BY <1>0, <1>1, <1>2, <1>3, <1>5, <1>7, SameJobs, Calm DEF At

LEMMA InsertTagSettled ==
  ASSUME Typed, Rows, AllFine, Settled, NEW t \in Threads, InsertTag(t)
  PROVE  Settled'
<1>0. Placed /\ Advanced
  BY FineIs, InsertTagFine
<1>1. /\ lastBackup' = lastBackup /\ xml' = xml /\ jobs' = jobs
      /\ At(t, "new_tag") /\ Goto(t, "tag_id")
  BY Zenon DEF InsertTag, history
<1>2. Retained
  BY <1>0, InsertTagAdds
<1>3. Others(t) /\ frame'[t].at = "tag_id" /\ SameCall(t)
  BY <1>1, FramesTyped, Going DEF Places
<1>4. Adding(t) \/ frame[t].call = "give"
  BY <1>0, <1>1, CallOf DEF At
<1>5. ASSUME t = Io PROVE Goes
  BY <1>1, <1>3, <1>4, <1>5 DEF Goes, SameCall, Restores, Adding, At, TagSteps
<1>6. t = Io /\ lastBackup = "written" => RestoreKnown'
  BY <1>0, <1>5, RestoreKnownStays DEF Settled
<1> QED
  BY <1>0, <1>1, <1>2, <1>3, <1>6, SameJobs, Calm DEF At

LEMMA TagIdSettled ==
  ASSUME Typed, Rows, AllFine, Settled, NEW t \in Threads, TagId(t)
  PROVE  Settled'
<1>0. Placed /\ Advanced
  BY FineIs, TagIdFine
<1>1. /\ lastBackup' = lastBackup /\ xml' = xml /\ jobs' = jobs
      /\ db' = db /\ rowid' = rowid /\ given' = given
  BY Zenon DEF TagId, history, dbVars
<1>2. Retained
  BY <1>1, NothingAdded
<1>3. /\ Others(t) /\ At(t, "tag_id") /\ frame'[t].at = AfterTag(frame[t].call)
      /\ frame'[t].call = frame[t].call /\ frame'[t].todo = frame[t].todo
      /\ frame'[t].more = frame[t].more /\ frame'[t].mark = frame[t].mark
  BY TagIdFrame
<1>4. Adding(t) \/ frame[t].call = "give"
  BY <1>0, <1>3, CallOf DEF At
<1>5. frame'[t].at \in {"mark", "queue"}
  BY <1>3 DEF AfterTag
<1>6. ASSUME t = Io PROVE Goes
  BY <1>3, <1>4, <1>5, <1>6 DEF Goes, Restores, Adding, At, TagSteps
<1>7. t = Io /\ lastBackup = "written" => RestoreKnown'
  BY <1>0, <1>6, RestoreKnownStays DEF Settled
<1> QED
  BY <1>0, <1>1, <1>2, <1>3, <1>5, <1>7, SameJobs, Calm DEF At

(* Once a backup was written, what comes into the tables outside of the    *)
(* jobs is automatic: metadata are, and so is what is restored.            *)
LEMMA InsertMarkSettled ==
  ASSUME Typed, Rows, AllFine, Settled, NEW t \in Threads, InsertMark(t)
  PROVE  Settled'
<1>0. Placed /\ Advanced /\ InHand
  BY FineIs, InsertMarkFine
<1>1. /\ lastBackup' = lastBackup /\ xml' = xml /\ jobs' = jobs
      /\ At(t, "mark") /\ Goto(t, Loop(frame[t].call, frame[t].todo))
  BY Zenon DEF InsertMark, history
<1>2. /\ Others(t) /\ frame'[t].at = Loop(frame[t].call, frame[t].todo) /\ SameCall(t)
  BY <1>1, FramesTyped, Going, NextSteps
<1>3. Adding(t)
  BY <1>0, <1>1, CallOf DEF At
<1>4. frame'[t].at \in {"tags", "files", "commit"}
  BY <1>2, LoopIs
<1>5. ASSUME lastBackup = "written"
      PROVE  Automatic(frame[t].mark)
  <2>1. CASE frame[t].call = "metadata"
    BY <1>0, <1>1, <1>3, <2>1 DEF InHand, Honest, At, TagSteps
  <2>2. CASE frame[t].call = "restore"
    <3>1. t = Io
      BY <1>0, <1>3, <2>2 DEF Placed, Busy, Restores
    <3> QED
      BY <1>1, <1>3, <1>5, <2>2, <3>1 DEF Settled, RestoreKnown, At, TagSteps
  <2> QED
    BY <1>3, <2>1, <2>2 DEF Adding
<1>6. lastBackup = "written" => Retained
  BY <1>0, <1>5, InsertMarkAdds
<1>7. ASSUME t = Io PROVE Goes
  BY <1>1, <1>2, <1>3, <1>4, <1>7 DEF Goes, SameCall, Restores, Adding, At, TagSteps
<1>8. t = Io /\ lastBackup = "written" => RestoreKnown'
  BY <1>0, <1>7, RestoreKnownStays DEF Settled
<1> QED
  BY <1>0, <1>1, <1>2, <1>4, <1>6, <1>8, SameJobs, Calm DEF At

(* A thread that returns, or goes on with a call of another kind, is done  *)
(* restoring.                                                              *)
LEMMA AddedNotRestoring ==
  ASSUME Typed, NEW t \in Threads, Added(t), frame[t].file \in Files
  PROVE  Others(t) /\ frame'[t].at # "write" /\ (t = Io => ~ Restores(Io)')
<1>1. /\ Others(t)
      /\ \/ frame'[t] = Idle
         \/ frame'[t].call = "give" /\ frame'[t].at = "tags"
  BY AddedFrame
<1>2. Idle.at = "idle" /\ Idle.call = None
  BY DEF Idle
<1> QED
  BY <1>1, <1>2 DEF Restores, Adding, At, Marking, TagSteps

LEMMA KnownPhotoSettled ==
  ASSUME Typed, Rows, AllFine, Settled, NEW t \in Threads, KnownPhoto(t)
  PROVE  Settled'
<1>0. Placed /\ Advanced
  BY FineIs, KnownPhotoFine
<1>1. /\ lastBackup' = lastBackup /\ xml' = xml /\ jobs' = jobs
      /\ db' = db /\ rowid' = rowid /\ given' = given
      /\ At(t, "find") /\ (Added(t) \/ Goto(t, "insert"))
  BY Zenon DEF KnownPhoto, history, dbVars
<1>2. Retained
  BY <1>1, NothingAdded
<1>3. frame[t].file \in Files /\ frame[t].call = "metadata"
  BY <1>0, <1>1, CallOf DEF At
<1>4. Others(t) /\ frame'[t].at # "write" /\ (t = Io => ~ Restores(Io)')
  <2>1. CASE Added(t)
    BY <1>3, <2>1, AddedNotRestoring
  <2>2. CASE Goto(t, "insert")
    <3>1. Others(t) /\ frame'[t].at = "insert" /\ SameCall(t)
      BY <2>2, FramesTyped, Going DEF Places
    <3> QED
      BY <1>3, <3>1 DEF SameCall, Restores
  <2> QED
    BY <1>1, <2>1, <2>2
<1>5. t = Io /\ lastBackup = "written" => RestoreKnown'
  BY <1>4, NotRestoring
<1> QED
  BY <1>0, <1>1, <1>2, <1>4, <1>5, SameJobs, Calm DEF At

LEMMA BeginSettled ==
  ASSUME Typed, Rows, AllFine, Settled, NEW t \in Threads, Begin(t)
  PROVE  Settled'
<1>0. Placed /\ Advanced
  BY FineIs, BeginFine
<1>1. /\ lastBackup' = lastBackup /\ xml' = xml /\ jobs' = jobs
      /\ db' = db /\ rowid' = rowid /\ given' = given
      /\ At(t, "begin") /\ Goto(t, Loop(frame[t].call, frame[t].todo))
  BY Zenon DEF Begin, history
<1>2. Retained
  BY <1>1, NothingAdded
<1>3. /\ Others(t) /\ frame'[t].at = Loop(frame[t].call, frame[t].todo) /\ SameCall(t)
  BY <1>1, FramesTyped, Going, NextSteps
<1>4. frame'[t].at \in {"tags", "files", "commit"} /\ frame[t].call = "metadata"
  BY <1>0, <1>1, <1>3, LoopIs, CallOf DEF At
<1>5. t = Io /\ lastBackup = "written" => RestoreKnown'
  BY <1>3, <1>4, NotRestoring DEF SameCall, Restores
<1> QED
  BY <1>0, <1>1, <1>2, <1>3, <1>4, <1>5, SameJobs, Calm DEF At

LEMMA CommitSettled ==
  ASSUME Typed, Rows, AllFine, Settled, NEW t \in Threads, Commit(t)
  PROVE  Settled'
<1>0. Placed /\ Advanced
  BY FineIs, CommitFine
<1>1. /\ lastBackup' = lastBackup /\ xml' = xml /\ jobs' = jobs
      /\ db' = db /\ rowid' = rowid /\ given' = given
      /\ At(t, "commit") /\ Added(t)
  BY Zenon DEF Commit, history
<1>2. Retained
  BY <1>1, NothingAdded
<1>3. frame[t].file \in Files
  BY <1>0, <1>1, CallOf DEF At
<1>4. Others(t) /\ frame'[t].at # "write" /\ (t = Io => ~ Restores(Io)')
  BY <1>1, <1>3, AddedNotRestoring
<1>5. t = Io /\ lastBackup = "written" => RestoreKnown'
  BY <1>4, NotRestoring
<1> QED
  BY <1>0, <1>1, <1>2, <1>4, <1>5, SameJobs, Calm DEF At

LEMMA NoWriterSettled ==
  ASSUME Typed, Rows, AllFine, Settled, NEW t \in Threads, NoWriter(t)
  PROVE  Settled'
<1>0. Placed /\ Advanced
  BY FineIs, NoWriterFine
<1>1. /\ lastBackup' = lastBackup /\ xml' = xml /\ jobs' = jobs
      /\ db' = db /\ rowid' = rowid /\ given' = given
      /\ At(t, "no_writer") /\ Return(t)
  BY Zenon DEF NoWriter, history, dbVars
<1>2. Retained
  BY <1>1, NothingAdded
<1>3. Others(t) /\ frame'[t] = Idle /\ Idle.at = "idle" /\ Idle.call = None
  BY <1>1, FramesTyped, Returning DEF Idle
<1>4. t = Io /\ lastBackup = "written" => RestoreKnown'
  BY <1>3, NotRestoring DEF Restores, Adding, At, Marking, TagSteps
<1> QED
  BY <1>0, <1>1, <1>2, <1>3, <1>4, SameJobs, Calm DEF At

(* A step of a thread that did nothing, or does not restore from now on,   *)
(* and that changes no table.                                              *)
LEMMA NewCall ==
  ASSUME Typed, Rows, Settled, Advanced, Retained, JobsStay,
         lastBackup' = lastBackup, xml' = xml, NEW t \in Threads, Others(t),
         frame[t].at \in {"idle", "files", "read", "add"}, frame'[t].at # "write",
         t = Io => ~ Restores(Io)'
  PROVE  Settled'
<1>1. t = Io /\ lastBackup = "written" => RestoreKnown'
  BY NotRestoring
<1> QED
  BY <1>1, Calm

LEMMA TakeMetadataSettled ==
  ASSUME Typed, Rows, AllFine, Settled, TakeMetadata
  PROVE  Settled'
<1>0. Advanced /\ Io \in Threads
  BY TakeMetadataFine DEF Threads
<1>1. /\ lastBackup' = lastBackup /\ xml' = xml
      /\ db' = db /\ rowid' = rowid /\ given' = given
      /\ jobs' = [jobs EXCEPT !.metadata = Tail(jobs.metadata)]
  BY Zenon DEF TakeMetadata, history, dbVars
<1>2. Retained
  BY <1>1, NothingAdded
<1>3. /\ Others(Io) /\ At(Io, "idle")
      /\ frame'[Io].call = "metadata" /\ frame'[Io].at = "find"
  BY TakeMetadataFrame
<1>4. jobs'.tagging = jobs.tagging
  BY <1>1, JobsAre DEF JobsType
<1>5. ~ Restores(Io)'
  BY <1>3 DEF Restores
<1> QED
  BY <1>0, <1>1, <1>2, <1>3, <1>4, <1>5, SameJobs, NewCall DEF At

LEMMA CaptureSettled ==
  ASSUME Typed, Rows, AllFine, Settled, NEW f \in Files, Capture(f)
  PROVE  Settled'
<1>0. Advanced /\ Tether \in Threads /\ Tether # Io
  BY CaptureFine, ThreadsApart DEF Threads
<1>1. /\ lastBackup' = lastBackup /\ xml' = xml
      /\ db' = db /\ rowid' = rowid /\ given' = given /\ Queue("metadata", f)
  BY Zenon DEF Capture, history, dbVars
<1>2. Retained
  BY <1>1, NothingAdded
<1>3. Others(Tether) /\ At(Tether, "idle") /\ frame'[Tether].at = "find"
  BY CaptureFrame
<1>4. jobs'.tagging = jobs.tagging
  BY <1>1, JobsAre DEF Queue, JobsType
<1> QED
  BY <1>0, <1>1, <1>2, <1>3, <1>4, SameJobs, NewCall DEF At

LEMMA TagPhotosSettled ==
  ASSUME Typed, Rows, AllFine, Settled, NEW files \in SUBSET disk, NEW name \in Names,
         TagPhotos(files, name)
  PROVE  Settled'
<1>0. Advanced /\ Main \in Threads /\ Main # Io
  BY TagPhotosFine, ThreadsApart DEF Threads
<1>1. /\ lastBackup' = lastBackup /\ xml' = xml /\ jobs' = jobs
      /\ db' = db /\ rowid' = rowid /\ given' = given
  BY Zenon DEF TagPhotos, history, dbVars
<1>2. Retained
  BY <1>1, NothingAdded
<1>3. Others(Main) /\ At(Main, "idle") /\ frame'[Main].at = "tags"
  BY TagPhotosFrame
<1> QED
  BY <1>0, <1>1, <1>2, <1>3, SameJobs, NewCall DEF At

LEMMA RemoveTagSettled ==
  ASSUME Typed, Rows, AllFine, Settled, NEW f \in Files, NEW name \in Names, RemoveTag(f, name)
  PROVE  Settled'
<1>0. Advanced /\ Main \in Threads /\ Main # Io
  BY RemoveTagFine, ThreadsApart DEF Threads
<1>1. /\ lastBackup' = lastBackup /\ xml' = xml /\ jobs' = jobs
      /\ db' = db /\ rowid' = rowid /\ given' = given
  BY Zenon DEF RemoveTag, dbVars
<1>2. Retained
  BY <1>1, NothingAdded
<1>3. Others(Main) /\ At(Main, "idle") /\ frame'[Main].at = "delete"
  BY RemoveTagFrame
<1> QED
  BY <1>0, <1>1, <1>2, <1>3, SameJobs, NewCall DEF At

LEMMA FilesDoneSettled ==
  ASSUME Typed, Rows, AllFine, Settled, FilesDone
  PROVE  Settled'
<1>0. Advanced /\ Io \in Threads
  BY FilesDoneFine DEF Threads
<1>1. /\ lastBackup' = lastBackup /\ xml' = xml /\ jobs' = jobs
      /\ db' = db /\ rowid' = rowid /\ given' = given /\ At(Io, "files") /\ Return(Io)
  BY Zenon DEF FilesDone, history, dbVars
<1>2. Retained
  BY <1>1, NothingAdded
<1>3. Others(Io) /\ frame'[Io] = Idle /\ Idle.at = "idle"
  BY <1>0, <1>1, FramesTyped, Returning DEF Idle
<1>4. ~ Restores(Io)'
  BY <1>3 DEF Restores, Adding, At, Marking, TagSteps
<1> QED
  BY <1>0, <1>1, <1>2, <1>3, <1>4, SameJobs, NewCall DEF At

LEMMA TakeChecksumSettled ==
  ASSUME Typed, Rows, AllFine, Settled, TakeChecksum
  PROVE  Settled'
<1>0. Advanced /\ Retained /\ frame' = frame /\ Io \in Threads
  BY TakeChecksumAdds DEF Threads
<1>1. /\ lastBackup' = lastBackup /\ xml' = xml /\ At(Io, "idle")
      /\ jobs' = [jobs EXCEPT !.checksum = Tail(jobs.checksum)]
  BY Zenon DEF TakeChecksum, history
<1>2. jobs'.tagging = jobs.tagging
  BY <1>1, JobsAre DEF JobsType
<1>3. Others(Io) /\ frame'[Io].at = "idle"
  BY <1>0, <1>1 DEF Others, At
<1>4. ~ Restores(Io)'
  BY <1>3 DEF Restores, Adding, At, Marking, TagSteps
<1> QED
  BY <1>0, <1>1, <1>2, <1>3, <1>4, SameJobs, NewCall DEF At

LEMMA SearchSettled ==
  ASSUME Typed, Rows, AllFine, Settled, NEW name \in Names, Search(name)
  PROVE  Settled'
<1>0. Advanced /\ Retained /\ Main \in Threads /\ Main # Io
  BY SearchAdds, ThreadsApart DEF Threads
<1>1. /\ lastBackup' = lastBackup /\ xml' = xml /\ At(Main, "idle") /\ frame' = frame
      /\ jobs'.tagging = jobs.tagging
  <2>1. /\ lastBackup' = lastBackup /\ xml' = xml /\ At(Main, "idle") /\ frame' = frame
    BY Zenon DEF Search, Operation, history
  <2>2. \E order : jobs' = [jobs EXCEPT !.metadata = order]
    BY Zenon DEF Search
  <2> QED
    BY <2>1, <2>2, JobsAre DEF JobsType
<1>2. Others(Main) /\ frame'[Main].at = "idle"
  BY <1>1 DEF Others, At
<1> QED
  BY <1>0, <1>1, <1>2, SameJobs, NewCall DEF At

LEMMA LoadDirectorySettled ==
  ASSUME Typed, Rows, AllFine, Settled, LoadDirectory
  PROVE  Settled'
<1>0. Advanced /\ Main \in Threads /\ Main # Io
  BY LoadDirectoryFine, ThreadsApart DEF Threads
<1>1. /\ lastBackup' = lastBackup /\ xml' = xml /\ frame' = frame /\ At(Main, "idle")
      /\ db' = db /\ rowid' = rowid /\ given' = given
  BY Zenon DEF LoadDirectory, Operation, history, dbVars
<1>2. Retained
  BY <1>1, NothingAdded
<1>3. Others(Main) /\ frame'[Main].at = "idle"
  BY <1>1 DEF Others, At
<1>4. JobsStay
  <2>1. \E order :
          jobs' = [jobs EXCEPT !.metadata = order,
                               !.tagging = Append(jobs.tagging, Task("restore", None, 0))]
    BY Zenon DEF LoadDirectory
  <2>2. Task("restore", None, 0) \in Job /\ Task("restore", None, 0).what = "restore"
    BY DEF Task, Job
  <2>3. jobs'.tagging = Append(jobs.tagging, Task("restore", None, 0))
    <3> DEFINE tagging == Append(jobs.tagging, Task("restore", None, 0))
    <3>1. \E order : jobs' = [jobs EXCEPT !.metadata = order, !.tagging = tagging]
      BY <2>1
    <3> HIDE DEF tagging
    <3>2. jobs'.tagging = tagging
      BY <3>1, JobsAre DEF JobsType
    <3> QED
      BY <3>2 DEF tagging
  <2> DEFINE restore == Task("restore", None, 0)
  <2>4. restore \in Job /\ restore.what # "tag" /\ jobs'.tagging = Append(jobs.tagging, restore)
    BY <2>2, <2>3
  <2> HIDE DEF restore
  <2>5. /\ DOMAIN jobs'.tagging = DOMAIN jobs.tagging \cup {Len(jobs.tagging) + 1}
        /\ \A i \in DOMAIN jobs.tagging : jobs'.tagging[i] = jobs.tagging[i]
        /\ jobs'.tagging[Len(jobs.tagging) + 1] = restore
    BY <2>4, JobsAre
  <2> QED
    BY <2>4, <2>5 DEF JobsStay
<1> QED
  BY <1>0, <1>1, <1>2, <1>3, <1>4, NewCall DEF At

(* What is read and belongs to no photo the library knows is automatic.    *)
LEMMA ReadXmlSettled ==
  ASSUME Typed, Rows, AllFine, Settled, ReadXml
  PROVE  Settled'
<1>0. Advanced /\ Io \in Threads
  BY ReadXmlFine DEF Threads
<1>1. /\ lastBackup' = lastBackup /\ xml' = xml /\ jobs' = jobs
      /\ db' = db /\ rowid' = rowid /\ given' = given
  BY Zenon DEF ReadXml, history, dbVars
<1>2. Retained
  BY <1>1, NothingAdded
<1>3. /\ Others(Io) /\ At(Io, "read")
      /\ \/ frame'[Io] = Idle
         \/ /\ xml \notin {None, Torn} /\ frame'[Io].at = "files"
            /\ \A f \in Files, m \in Mark : <<f, m>> \in frame'[Io].more => m \in xml[f]
  BY ReadXmlFrame
<1>4. CASE frame'[Io] = Idle
  <2>1. Idle.at = "idle"
    BY DEF Idle
  <2>2. ~ Restores(Io)'
    BY <1>4, <2>1 DEF Restores, Adding, At, Marking, TagSteps
  <2> QED
    BY <1>0, <1>1, <1>2, <1>3, <1>4, <2>1, <2>2, SameJobs, NewCall DEF At
<1>5. CASE /\ xml \notin {None, Torn} /\ frame'[Io].at = "files"
           /\ \A f \in Files, m \in Mark : <<f, m>> \in frame'[Io].more => m \in xml[f]
  <2>1. ASSUME lastBackup = "written" PROVE RestoreKnown'
    <3>1. FileKnown
      BY <2>1 DEF Settled
    <3>2. ASSUME NEW f \in Files, NEW m \in Mark, <<f, m>> \in frame'[Io].more
          PROVE  Automatic(m) \/ Known(f)'
      <4>1. m \in xml[f]
        BY <1>5, <3>2
      <4>2. Automatic(m) \/ Known(f)
        BY <1>5, <3>1, <4>1 DEF FileKnown
      <4> QED
        BY <1>0, <4>2, KnownStays
    <3>3. ~ Adding(Io)'
      BY <1>5 DEF Adding, Marking, TagSteps
    <3> QED
      BY <3>2, <3>3 DEF RestoreKnown, Automatic
  <2> QED
    BY <1>0, <1>1, <1>2, <1>3, <1>5, <2>1, SameJobs, Calm DEF At
<1> QED
  BY <1>3, <1>4, <1>5

LEMMA RestoreFileSettled ==
  ASSUME Typed, Rows, AllFine, Settled, NEW f \in Files, RestoreFile(f)
  PROVE  Settled'
<1>0. Advanced /\ Io \in Threads /\ Placed
  BY RestoreFileFine, FineIs DEF Threads
<1>1. /\ lastBackup' = lastBackup /\ xml' = xml /\ jobs' = jobs
      /\ db' = db /\ rowid' = rowid /\ given' = given
  BY Zenon DEF RestoreFile, history, dbVars
<1>2. Retained
  BY <1>1, NothingAdded
<1>3. /\ Others(Io) /\ At(Io, "files")
      /\ frame'[Io].at = "files" \/ (frame'[Io].at = "add" /\ ~ Known(f))
      /\ frame'[Io].file = f /\ frame'[Io].call = frame[Io].call
      /\ frame'[Io].more \subseteq frame[Io].more
      /\ \A m \in frame'[Io].todo : <<f, m>> \in frame[Io].more
  BY <1>0, RestoreFileFrame
<1>4. Restores(Io)
  BY <1>0, <1>3, CallOf DEF Restores, At
<1>5. frame'[Io] \in FrameType
  BY <1>0, RestoreFileFrame DEF Frames
<1>6. ASSUME lastBackup = "written" PROVE RestoreKnown'
  <2>1. RestoreKnown
    BY <1>6 DEF Settled
  <2>2. ASSUME NEW g \in Files, NEW m \in Mark, <<g, m>> \in frame'[Io].more
        PROVE  Automatic(m) \/ Known(g)'
    <3>1. Automatic(m) \/ Known(g)
      BY <1>3, <1>4, <2>1, <2>2 DEF RestoreKnown
    <3> QED
      BY <1>0, <3>1, KnownStays
  <2>3. ASSUME Adding(Io)', NEW m \in frame'[Io].todo
        PROVE  Automatic(m)
    <3>1. frame'[Io].at = "add" /\ ~ Known(f)
      BY <1>3, <2>3 DEF Adding, Marking, TagSteps
    <3>2. m \in Mark
      BY <1>5, <2>3 DEF FrameType
    <3> QED
      BY <1>3, <1>4, <2>1, <2>3, <3>1, <3>2 DEF RestoreKnown
  <2>4. frame'[Io].at \notin TagSteps
    BY <1>3 DEF TagSteps
  <2> QED
    BY <2>2, <2>3, <2>4 DEF RestoreKnown, Automatic
<1> QED
  BY <1>0, <1>1, <1>2, <1>3, <1>6, SameJobs, Calm DEF At

LEMMA AddPhotoSettled ==
  ASSUME Typed, Rows, AllFine, Settled, AddPhoto
  PROVE  Settled'
<1>0. Advanced /\ Io \in Threads /\ Placed
  BY AddPhotoFine, FineIs DEF Threads
<1>1. /\ lastBackup' = lastBackup /\ xml' = xml /\ jobs' = jobs
      /\ db' = db /\ rowid' = rowid /\ given' = given
  BY Zenon DEF AddPhoto, history, dbVars
<1>2. Retained
  BY <1>1, NothingAdded
<1>3. /\ Others(Io) /\ At(Io, "add")
      /\ frame'[Io].at = "insert" \/ frame'[Io].at = Loop("restore", frame[Io].todo)
      /\ frame'[Io].call = frame[Io].call
      /\ frame'[Io].todo = frame[Io].todo /\ frame'[Io].more = frame[Io].more
  BY AddPhotoFrame
<1>4. Adding(Io)
  BY <1>0, <1>3, CallOf DEF At
<1>5. frame'[Io].at \in {"insert", "tags", "files"}
  BY <1>3, LoopIs
<1>6. Goes
  BY <1>3, <1>4, <1>5 DEF Goes, Restores, Adding, At, TagSteps
<1>7. lastBackup = "written" => RestoreKnown'
  BY <1>0, <1>6, RestoreKnownStays DEF Settled
<1> QED
  BY <1>0, <1>1, <1>2, <1>3, <1>5, <1>7, SameJobs, Calm DEF At
-----------------------------------------------------------------------------
(* The steps of backups, and those that ask for one.                       *)

LEMMA OthersRestore ==
  ASSUME RestoreKnown, Advanced, NEW t \in Threads, Others(t), t = Io => ~ Restores(Io)'
  PROVE  RestoreKnown'
<1>1. CASE t = Io
  BY <1>1, NotRestoring
<1>2. CASE t # Io
  <2>1. Io \in Threads
    BY DEF Threads
  <2>2. frame'[Io] = frame[Io]
    BY <1>2, <2>1 DEF Others
  <2> QED
    BY <2>2, SameFrameGoes, RestoreKnownStays
<1> QED
  BY <1>1, <1>2

LEMMA DeleteMarkSettled ==
  ASSUME Typed, Rows, AllFine, Settled, DeleteMark
  PROVE  Settled'
<1>0. Advanced /\ Main \in Threads /\ Main # Io
  BY DeleteMarkFine, ThreadsApart DEF Threads
<1>1. lastBackup' = lastBackup /\ xml' = xml /\ jobs' = jobs
  BY Zenon DEF DeleteMark, history
<1>2. Others(Main) /\ frame'[Main].at = "backup"
  BY DeleteMarkFrame
<1>3. Followed' /\ WriteKnown'
  BY <1>0, <1>1, <1>2, SameJobs, FollowedStays, WriteKnownStays DEF Settled
<1>4. Owed'
  BY <1>0, <1>2 DEF Owed, Coming
<1>5. lastBackup = "written" => FileKnown' /\ RestoreKnown'
  BY <1>0, <1>1, <1>2, FileKnownStays, OthersRestore DEF Settled
<1> QED
  BY <1>1, <1>3, <1>4, <1>5 DEF Settled

LEMMA StartBackupSettled ==
  ASSUME Typed, Rows, AllFine, Settled, NEW t \in Threads, StartBackup(t)
  PROVE  Settled'
<1>0. Advanced
  BY StartBackupFine
<1>1. jobs' = jobs
  BY Zenon DEF StartBackup
<1>2. \/ xml' = Torn /\ Goto(t, "query") /\ lastBackup' = lastBackup
      \/ lastBackup' = "leaked_lock" /\ Return(t)
      \/ lastBackup' = "failed" /\ Goto(t, "no_writer")
  BY Zenon DEF StartBackup
<1>3. /\ Others(t)
      /\ \/ xml' = Torn /\ frame'[t].at = "query" /\ lastBackup' = lastBackup
         \/ lastBackup' # "written" /\ frame'[t].at \in {"idle", "no_writer"}
  <2>1. CASE xml' = Torn /\ Goto(t, "query") /\ lastBackup' = lastBackup
    BY <2>1, FramesTyped, Going DEF Places
  <2>2. CASE lastBackup' = "leaked_lock" /\ Return(t)
    BY <2>2, FramesTyped, Returning, IdleType
  <2>3. CASE lastBackup' = "failed" /\ Goto(t, "no_writer")
    BY <2>3, FramesTyped, Going DEF Places
  <2> QED
    BY <1>2, <2>1, <2>2, <2>3
<1>4. Followed' /\ WriteKnown'
  BY <1>0, <1>1, <1>3, SameJobs, FollowedStays, WriteKnownStays DEF Settled
<1>5. ASSUME lastBackup' = "written" PROVE Owed' /\ FileKnown' /\ RestoreKnown'
  <2>1. xml' = Torn /\ frame'[t].at = "query" /\ lastBackup = "written"
    BY <1>3, <1>5
  <2>2. Owed'
    BY <2>1 DEF Owed, Coming
  <2>3. t = Io => ~ Restores(Io)'
    BY <2>1 DEF Restores, Adding, At, Marking, TagSteps
  <2> QED
    BY <1>0, <1>3, <2>1, <2>2, <2>3, FileKnownStays, OthersRestore DEF Settled
<1> QED
  BY <1>4, <1>5 DEF Settled

(* What is asked of the tables is what they hold: the backup that was owed *)
(* is at work.                                                             *)
LEMMA QueryTagsSettled ==
  ASSUME Typed, Rows, AllFine, Settled, NEW t \in Threads, QueryTags(t)
  PROVE  Settled'
<1>0. Advanced /\ Locked
  BY QueryTagsFine, FineIs
<1>1. /\ jobs' = jobs /\ xml' = xml /\ db' = db /\ rowid' = rowid /\ given' = given
      /\ lastBackup' = IF Restoring THEN "partial" ELSE "written"
  BY Zenon DEF QueryTags, dbVars
<1>2. Retained
  BY <1>1, NothingAdded
<1>3. /\ Others(t) /\ At(t, "query") /\ frame'[t].at = "write"
      /\ \A f \in Files, m \in Mark : <<f, m>> \in frame'[t].more <=> Carries(f, m)
  BY QueryTagsFrame
<1>4. xml = Torn
  BY <1>0, <1>3 DEF Locked, Holding, At
<1>5. Followed'
  BY <1>1, SameJobs, FollowedStays DEF Settled
<1>6. WriteKnown'
  <2> SUFFICES ASSUME NEW u \in Threads, At(u, "write")', NEW f \in Files, NEW m \in Mark,
                      <<f, m>> \in frame'[u].more
               PROVE  Known(f)'
    BY DEF WriteKnown
  <2>1. CASE u = t
    <3>1. m \in MarksOf(db, f)
      BY <1>3, <2>1 DEF Carries
    <3> QED
      BY <1>0, <3>1, MarksRightful, KnownStays
  <2>2. CASE u # t
    <3>1. At(u, "write") /\ <<f, m>> \in frame[u].more
      BY <1>3, <2>2 DEF Others, At
    <3>2. Known(f)
      BY <3>1 DEF Settled, WriteKnown
    <3> QED
      BY <1>0, <3>2, KnownStays
  <2> QED
    BY <2>1, <2>2
<1>7. ASSUME lastBackup' = "written" PROVE Owed' /\ FileKnown' /\ RestoreKnown'
  <2>1. ~ Restoring
    BY <1>1, <1>7
  <2>2. Writing(t)'
    <3>1. \A f \in Files, m \in UserMarks : <<f, m>> \in frame'[t].more <=> Carries(f, m)'
      <4> TAKE f \in Files, m \in UserMarks
      <4>1. m \in Mark
        BY UserMarkIs
      <4> QED
        BY <1>2, <1>3, <4>1 DEF Carries, Retained
    <3> QED
      BY <1>3, <3>1 DEF Writing, At
  <2>3. FileKnown'
    BY <1>1, <1>4 DEF FileKnown
  <2>4. ~ Restores(Io)'
    <3>1. CASE t = Io
      BY <1>3, <3>1 DEF Restores, Adding, At, Marking, TagSteps
    <3>2. CASE t # Io
      <4>1. Io \in Threads
        BY DEF Threads
      <4>2. frame'[Io] = frame[Io]
        BY <1>3, <3>2, <4>1 DEF Others
      <4> QED
        BY <2>1, <4>2 DEF Restoring, Restores, Adding, At, Marking, TagSteps
    <3> QED
      BY <3>1, <3>2
  <2> QED
    BY <2>2, <2>3, <2>4, NotRestoring DEF Owed
<1> QED
  BY <1>5, <1>6, <1>7 DEF Settled

(* Only one backup is at work, and what it writes is what the tables have. *)
LEMMA WriteXmlSettled ==
  ASSUME Typed, Rows, AllFine, Settled, NEW t \in Threads, WriteXml(t)
  PROVE  Settled'
<1>0. Advanced /\ Locked
  BY WriteXmlFine, FineIs
<1>1. /\ jobs' = jobs /\ db' = db /\ rowid' = rowid /\ given' = given
      /\ lastBackup' = lastBackup /\ At(t, "write") /\ Return(t)
  BY Zenon DEF WriteXml, dbVars, history
<1>2. Retained
  BY <1>1, NothingAdded
<1>3. Others(t) /\ frame'[t] = Idle /\ Idle.at = "idle"
  BY <1>1, FramesTyped, Returning, IdleType
<1>4. \A f \in Files, m \in Mark : m \in xml'[f] <=> <<f, m>> \in frame[t].more
  <2>1. xml' = [f \in Files |-> {m \in Mark : <<f, m>> \in frame[t].more}]
    BY Zenon DEF WriteXml
  <2> QED
    BY <2>1
<1>5. xml' \in [Files -> SUBSET Mark]
  <2>1. xml' = [f \in Files |-> {m \in Mark : <<f, m>> \in frame[t].more}]
    BY Zenon DEF WriteXml
  <2> QED
    BY <2>1
<1>6. xml' \notin {None, Torn}
  BY <1>5, LibraryAssumption
<1>7. Followed' /\ WriteKnown'
  BY <1>0, <1>1, <1>3, SameJobs, FollowedStays, WriteKnownStays DEF Settled
<1>8. ASSUME lastBackup = "written" PROVE Owed'
  <2>0. Owed /\ xml = Torn /\ backupLock = t
    BY <1>0, <1>1, <1>8 DEF Settled, Locked, Holding, At
  <2>1. CASE Coming
    <3>1. CASE \E i \in DOMAIN jobs.tagging : jobs.tagging[i].what = "backup"
      BY <1>1, <3>1 DEF Coming, Owed
    <3>2. CASE \E u \in Threads : frame[u].at \in {"delete", "backup", "query"}
      <4>1. PICK u \in Threads : frame[u].at \in {"delete", "backup", "query"}
        BY <3>2
      <4>2. frame'[u] = frame[u]
        BY <1>1, <1>3, <4>1 DEF At, Others
      <4> QED
        BY <4>1, <4>2 DEF Coming, Owed
    <3> QED
      BY <2>1, <3>1, <3>2 DEF Coming
  <2>2. CASE \E u \in Threads : Writing(u)
    <3>1. PICK u \in Threads : Writing(u)
      BY <2>2
    <3>2. u = t
      BY <1>0, <2>0, <3>1 DEF Writing, At, Locked, Holding
    <3>3. \A f \in Files, m \in UserMarks : m \in xml'[f] <=> Carries(f, m)'
      <4> TAKE f \in Files, m \in UserMarks
      <4>1. m \in Mark
        BY UserMarkIs
      <4> QED
        BY <1>2, <1>4, <3>1, <3>2, <4>1 DEF Writing, Carries, Retained
    <3> QED
      BY <1>6, <3>3 DEF Synced, Owed
  <2> QED
    BY <2>0, <2>1, <2>2 DEF Owed, Synced
<1>9. FileKnown'
  <2> SUFFICES ASSUME NEW f \in Files, NEW m \in xml'[f] PROVE Known(f)'
    BY DEF FileKnown
  <2>1. m \in Mark
    BY <1>5
  <2>2. Known(f)
    BY <1>1, <1>4, <2>1 DEF Settled, WriteKnown
  <2> QED
    BY <1>0, <2>2, KnownStays
<1>10. ASSUME lastBackup = "written" PROVE RestoreKnown'
  <2>1. t = Io => ~ Restores(Io)'
    BY <1>3 DEF Restores, Adding, At, Marking, TagSteps
  <2> QED
    BY <1>0, <1>3, <1>10, <2>1, OthersRestore DEF Settled
<1> QED
  BY <1>1, <1>7, <1>8, <1>9, <1>10 DEF Settled

(* The jobs of one tag end with a backup.                                  *)
LEMMA QueueTagsSettled ==
  ASSUME Typed, Rows, AllFine, Settled, NEW t \in Threads, QueueTags(t)
  PROVE  Settled'
<1>0. Advanced
  BY QueueTagsFine
<1>1. lastBackup' = lastBackup /\ xml' = xml /\ Return(t)
  BY Zenon DEF QueueTags
<1>2. Others(t) /\ frame'[t] = Idle /\ Idle.at = "idle"
  BY <1>1, FramesTyped, Returning, IdleType
<1>3. PICK last \in DOMAIN jobs'.tagging :
        /\ jobs'.tagging[last].what = "backup"
        /\ \A i \in DOMAIN jobs'.tagging : i <= last
  BY QueuedJobs
<1>4. Followed'
  <2> SUFFICES ASSUME NEW i \in DOMAIN jobs'.tagging, jobs'.tagging[i].what = "tag"
               PROVE  last > i
    BY <1>3 DEF Followed
  <2>1. jobs' \in JobsType
    BY QueuedJobs
  <2>2. jobs'.tagging \in Seq(Job)
    BY <2>1 DEF JobsType
  <2>3. i \in Nat /\ last \in Nat
    BY <2>2
  <2> QED
    BY <1>3, <2>3
<1>5. WriteKnown'
  BY <1>0, <1>2, WriteKnownStays DEF Settled
<1>6. Owed'
  BY <1>3 DEF Owed, Coming
<1>7. ASSUME lastBackup = "written" PROVE FileKnown' /\ RestoreKnown'
  <2>1. t = Io => ~ Restores(Io)'
    BY <1>2 DEF Restores, Adding, At, Marking, TagSteps
  <2> QED
    BY <1>0, <1>1, <1>2, <1>7, <2>1, FileKnownStays, OthersRestore DEF Settled
<1> QED
  BY <1>1, <1>4, <1>5, <1>6, <1>7 DEF Settled

(* A tag is given before the backup that follows its job.                  *)
LEMMA TakeTaggingSettled ==
  ASSUME Typed, Rows, AllFine, Settled, TakeTagging
  PROVE  Settled'
<1>0. Advanced /\ Placed /\ Io \in Threads
  BY TakeTaggingFine, FineIs DEF Threads
<1>1. /\ lastBackup' = lastBackup /\ xml' = xml /\ given' = given /\ rowid' \in Nat
      /\ jobs' = [jobs EXCEPT !.tagging = Tail(jobs.tagging)] /\ jobs.tagging # <<>>
  BY <1>0, Zenon DEF TakeTagging, history, Advanced
<1>2. \/ Head(jobs.tagging).what = "backup" /\ Goto(Io, "backup")
      \/ Head(jobs.tagging).what = "restore" /\ db' = db /\ rowid' = rowid
      \/ Head(jobs.tagging).what = "tag"
  BY Zenon DEF TakeTagging
<1>3. /\ 1 \in DOMAIN jobs.tagging /\ Head(jobs.tagging) = jobs.tagging[1]
      /\ jobs'.tagging = Tail(jobs.tagging)
      /\ DOMAIN jobs'.tagging = {i \in Nat \ {0} : i + 1 \in DOMAIN jobs.tagging}
      /\ \A i \in DOMAIN jobs'.tagging : jobs'.tagging[i] = jobs.tagging[i + 1]
      /\ \A i \in DOMAIN jobs.tagging : i \in Nat \ {0}
  <2> DEFINE tail == Tail(jobs.tagging)
  <2>1. /\ 1 \in DOMAIN jobs.tagging /\ Head(jobs.tagging) = jobs.tagging[1]
        /\ DOMAIN tail = {i \in Nat \ {0} : i + 1 \in DOMAIN jobs.tagging}
        /\ \A i \in DOMAIN tail : tail[i] = jobs.tagging[i + 1]
    BY <1>1, TaggingJob
  <2>2. jobs' = [jobs EXCEPT !.tagging = tail]
    BY <1>1
  <2> HIDE DEF tail
  <2>3. jobs'.tagging = tail
    BY <2>2, JobsAre DEF JobsType
  <2>4. \A i \in DOMAIN jobs.tagging : i \in Nat \ {0}
    BY JobsAre
  <2> QED
    BY <2>1, <2>3, <2>4 DEF tail
<1>4. /\ Others(Io) /\ At(Io, "idle") /\ frame'[Io].at # "write" /\ ~ Restores(Io)'
  <2>1. /\ Others(Io) /\ At(Io, "idle")
        /\ frame'[Io].at \in {"backup", "read"} \/ frame' = frame
    BY <1>0, TakeTaggingFrame
  <2> QED
    BY <2>1 DEF Restores, Adding, At, Marking, TagSteps
<1>5. \A j \in DOMAIN jobs.tagging : jobs.tagging[j].what = "backup" /\ j # 1 =>
         \E i \in DOMAIN jobs'.tagging : i = j - 1 /\ jobs'.tagging[i].what = "backup"
  <2> SUFFICES ASSUME NEW j \in DOMAIN jobs.tagging, jobs.tagging[j].what = "backup", j # 1
               PROVE  j - 1 \in DOMAIN jobs'.tagging /\ jobs'.tagging[j - 1].what = "backup"
    OBVIOUS
  <2>1. j - 1 \in Nat \ {0} /\ (j - 1) + 1 = j
    BY <1>3
  <2> QED
    BY <1>3, <2>1
<1>6. Followed'
  <2> SUFFICES ASSUME NEW i \in DOMAIN jobs'.tagging, jobs'.tagging[i].what = "tag"
               PROVE  \E j \in DOMAIN jobs'.tagging : j > i /\ jobs'.tagging[j].what = "backup"
    BY DEF Followed
  <2>1. i \in Nat /\ i # 0 /\ i + 1 \in DOMAIN jobs.tagging /\ jobs.tagging[i + 1].what = "tag"
    BY <1>3
  <2>2. PICK j \in DOMAIN jobs.tagging : j > i + 1 /\ jobs.tagging[j].what = "backup"
    BY <2>1 DEF Settled, Followed
  <2>3. j \in Nat /\ j # 1 /\ j - 1 > i
    BY <1>3, <2>1, <2>2
  <2>4. PICK k \in DOMAIN jobs'.tagging : k = j - 1 /\ jobs'.tagging[k].what = "backup"
    BY <1>5, <2>2, <2>3
  <2> QED
    BY <2>3, <2>4
<1>7. WriteKnown'
  BY <1>0, <1>4, WriteKnownStays DEF Settled
<1>8. ASSUME lastBackup = "written" PROVE Owed'
  <2>0. Owed
    BY <1>8 DEF Settled
  <2>1. CASE Head(jobs.tagging).what = "backup" /\ Goto(Io, "backup")
    <3>1. frame'[Io].at = "backup"
      BY <1>0, <2>1, FramesTyped, Going DEF Places
    <3> QED
      BY <1>0, <3>1 DEF Owed, Coming
  <2>2. CASE Head(jobs.tagging).what = "tag"
    <3>1. PICK j \in DOMAIN jobs.tagging : j > 1 /\ jobs.tagging[j].what = "backup"
      BY <1>3, <2>2 DEF Settled, Followed
    <3>2. j # 1
      BY <1>3, <3>1
    <3> QED
      BY <1>5, <3>1, <3>2 DEF Owed, Coming
  <2>3. CASE Head(jobs.tagging).what = "restore" /\ db' = db /\ rowid' = rowid
    <3>0. Retained
      BY <1>1, <2>3, NothingAdded
    <3>1. CASE Coming
      <4>1. CASE \E i \in DOMAIN jobs.tagging : jobs.tagging[i].what = "backup"
        <5>1. PICK j \in DOMAIN jobs.tagging : jobs.tagging[j].what = "backup"
          BY <4>1
        <5>2. j # 1
          BY <1>3, <2>3, <5>1
        <5> QED
          BY <1>5, <5>1, <5>2 DEF Owed, Coming
      <4>2. CASE \E u \in Threads : frame[u].at \in {"delete", "backup", "query"}
        <5>1. PICK u \in Threads : frame[u].at \in {"delete", "backup", "query"}
          BY <4>2
        <5>2. frame'[u] = frame[u]
          BY <1>4, <5>1 DEF At, Others
        <5> QED
          BY <5>1, <5>2 DEF Owed, Coming
      <4> QED
        BY <3>1, <4>1, <4>2 DEF Coming
    <3>2. CASE Synced
      <4>1. Synced'
        BY <1>1, <3>0, <3>2 DEF Synced, Retained, Carries
      <4> QED
        BY <4>1 DEF Owed
    <3>3. CASE \E u \in Threads : Writing(u)
      <4>1. PICK u \in Threads : Writing(u)
        BY <3>3
      <4>2. frame'[u] = frame[u]
        BY <1>4, <4>1 DEF Writing, At, Others
      <4>3. Writing(u)'
        BY <3>0, <4>1, <4>2 DEF Writing, At, Carries, Retained
      <4> QED
        BY <4>3 DEF Owed
    <3> QED
      BY <2>0, <3>1, <3>2, <3>3 DEF Owed
  <2> QED
    BY <1>2, <2>1, <2>2, <2>3
<1>9. ASSUME lastBackup = "written" PROVE FileKnown' /\ RestoreKnown'
  BY <1>0, <1>1, <1>4, <1>9, FileKnownStays, NotRestoring DEF Settled
<1> QED
  BY <1>1, <1>6, <1>7, <1>8, <1>9 DEF Settled
-----------------------------------------------------------------------------
(* The session begins, and begins anew.                                    *)

(* Rows that name finitely many photos and tags are finitely many.         *)
LEMMA FinitelyManyLinks ==
  ASSUME NEW A, NEW B, IsFiniteSet(A), IsFiniteSet(B)
  PROVE  IsFiniteSet([photo : A, tag : B, auto : BOOLEAN])
<1> DEFINE P == (A \X B) \X BOOLEAN
           R == [photo : A, tag : B, auto : BOOLEAN]
           row == [p \in P |-> [photo |-> p[1][1], tag |-> p[1][2], auto |-> p[2]]]
<1>1. IsFiniteSet(P)
  <2>1. IsFiniteSet(A \X B)
    BY FS_Product
  <2>2. IsFiniteSet(BOOLEAN)
    <3>1. IsFiniteSet({TRUE})
      BY FS_Singleton
    <3>2. IsFiniteSet({TRUE} \cup {FALSE})
      BY <3>1, FS_AddElement
    <3>3. {TRUE} \cup {FALSE} = BOOLEAN
      OBVIOUS
    <3> QED
      BY <3>2, <3>3
  <2> QED
    BY <2>1, <2>2, FS_Product
<1>2. row \in Surjection(P, R)
  <2>1. row \in [P -> R]
    <3> SUFFICES ASSUME NEW p \in P
                 PROVE  [photo |-> p[1][1], tag |-> p[1][2], auto |-> p[2]] \in R
      OBVIOUS
    <3>1. p[1][1] \in A /\ p[1][2] \in B /\ p[2] \in BOOLEAN
      OBVIOUS
    <3> QED
      BY <3>1
  <2>2. ASSUME NEW k \in R
        PROVE  \E p \in P : row[p] = k
    <3>1. PICK a \in A, b \in B, c \in BOOLEAN : k = [photo |-> a, tag |-> b, auto |-> c]
      <4>1. /\ k = [photo |-> k.photo, tag |-> k.tag, auto |-> k.auto]
            /\ k.photo \in A /\ k.tag \in B /\ k.auto \in BOOLEAN
        BY Zenon
      <4> QED
        BY <4>1, Zenon
    <3>2. <<<<a, b>>, c>> \in P
      OBVIOUS
    <3>3. row[<<<<a, b>>, c>>] = [photo |-> a, tag |-> b, auto |-> c]
      BY <3>2
    <3> HIDE DEF row, P
    <3> QED
      BY <3>1, <3>2, <3>3, Zenon
  <2> HIDE DEF row, P, R
  <2> QED
    BY <2>1, <2>2 DEF Surjection
<1> HIDE DEF row, P, R
<1>3. IsFiniteSet(R)
  BY <1>1, <1>2, FS_Surjection
<1> QED
  BY <1>3 DEF R

(* What an earlier session left says what is true.                         *)
LEMMA LeftRightful ==
  ASSUME NEW x \in Left, NEW f \in Files, NEW m \in x[f]
  PROVE  m \in Mark /\ Rightful(Users(x), f, m)
<1>1. m \in Mark /\ (m.auto <=> m.name \in AutoNames[f])
  BY DEF Left
<1>2. CASE Automatic(m)
  <2>1. m.name \in AutoNames[f]
    BY <1>1, <1>2, Zenon DEF Automatic
  <2> QED
    BY <1>1, <1>2, <2>1 DEF Automatic, Rightful, Right
<1>3. CASE ~ Automatic(m)
  <2>1. m \in UserMarks
    BY <1>1, <1>3, AutomaticOrUser
  <2>2. <<f, m.name>> \in Users(x)
    BY <2>1 DEF Users
  <2> QED
    BY <1>1, <1>3, <2>2 DEF Automatic, Rightful, Right
<1> QED
  BY <1>1, <1>2, <1>3

LEMMA StoredIs ==
  ASSUME NEW x \in Left
  PROVE  Tabled(Stored(x)) /\ Truthful(Users(x), Stored(x))
<1> DEFINE F == {f \in Files : x[f] # {}}
           N == UNION {{m.name : m \in x[f]} : f \in Files}
<1>1. PICK order \in Seq(F) : order = SetToSeq(F)
  <2>1. IsFiniteSet(F)
    BY FS_Subset, LibraryAssumption
  <2> QED
    BY <2>1, SetToSeqType
<1>2. PICK names \in Seq(N) : names = SetToSeq(N)
  <2>1. N \subseteq Names
    BY DEF Left, Mark
  <2>2. IsFiniteSet(N)
    BY <2>1, FS_Subset, LibraryAssumption
  <2> HIDE DEF N
  <2> QED
    BY <2>2, SetToSeqType
<1> DEFINE links == {k \in [photo : DOMAIN order, tag : DOMAIN names, auto : BOOLEAN] :
                       [name |-> names[k.tag], auto |-> k.auto] \in x[order[k.photo]]}
<1>3. Stored(x) = [photos |-> order, sums |-> order, tags |-> names, marks |-> links]
  BY <1>1, <1>2, Zenon DEF Stored
<1>4. order \in Seq(Files) /\ \A i \in DOMAIN order : order[i] \in Files
  OBVIOUS
<1>5. names \in Seq(Names)
  <2>1. N \subseteq Names
    BY DEF Left, Mark
  <2> HIDE DEF N
  <2> QED
    BY <2>1
<1>6. links \subseteq Links /\ IsFiniteSet(links)
  <2>1. IsFiniteSet(DOMAIN order) /\ IsFiniteSet(DOMAIN names)
    <3>1. DOMAIN order = 1 .. Len(order) /\ DOMAIN names = 1 .. Len(names)
          /\ Len(order) \in Nat /\ Len(names) \in Nat
      BY <1>4, <1>5
    <3> QED
      BY <3>1, FS_Interval
  <2> DEFINE all == [photo : DOMAIN order, tag : DOMAIN names, auto : BOOLEAN]
  <2>2. IsFiniteSet(all)
    BY <2>1, FinitelyManyLinks
  <2>3. links \subseteq all
    OBVIOUS
  <2>4. all \subseteq Links
    <3>1. DOMAIN order \subseteq Nat /\ DOMAIN names \subseteq Nat
      BY <1>4, <1>5
    <3> HIDE <1>1, <1>2
    <3> SUFFICES ASSUME NEW k \in all PROVE k \in Links
      OBVIOUS
    <3>2. /\ k = [photo |-> k.photo, tag |-> k.tag, auto |-> k.auto]
          /\ k.photo \in DOMAIN order /\ k.tag \in DOMAIN names /\ k.auto \in BOOLEAN
      BY Zenon
    <3>3. k.photo \in Nat /\ k.tag \in Nat
      BY <3>1, <3>2
    <3> QED
      BY <3>2, <3>3, Zenon DEF Links
  <2> HIDE DEF links, all
  <2> QED
    BY <2>2, <2>3, <2>4, FS_Subset
<1>7. ASSUME NEW k \in links
      PROVE  /\ k.photo \in DOMAIN order /\ k.tag \in DOMAIN names
             /\ Right(Users(x), order[k.photo], names[k.tag], k.auto)
  <2> DEFINE m == [name |-> names[k.tag], auto |-> k.auto]
  <2>1. k.photo \in DOMAIN order /\ k.tag \in DOMAIN names /\ m \in x[order[k.photo]]
    BY Zenon
  <2>2. m.name = names[k.tag] /\ m.auto = k.auto
    BY Zenon
  <2> HIDE DEF m, links
  <2>3. Rightful(Users(x), order[k.photo], m)
    BY <1>4, <2>1, LeftRightful
  <2> QED
    BY <2>1, <2>2, <2>3, Zenon DEF Rightful
<1> HIDE DEF links, F, N
<1>8. /\ Stored(x).photos = order /\ Stored(x).sums = order
      /\ Stored(x).tags = names /\ Stored(x).marks = links
  BY <1>3
<1>9. Tabled(Stored(x))
  <2>1. order \in Seq(Files \cup {None})
    BY <1>4
  <2>2. Stored(x) \in Tables
    BY <1>3, <1>4, <1>5, <1>6, <2>1 DEF Tables
  <2> QED
    BY <1>6, <1>8, <2>2 DEF Tabled
<1>10. Truthful(Users(x), Stored(x))
  BY <1>7, <1>8 DEF Truthful
<1> QED
  BY <1>9, <1>10

LEMMA EmptyIs ==
  ASSUME NEW g
  PROVE  Tabled(Empty) /\ Truthful(g, Empty)
<1>1. Empty.marks = {} /\ Empty.photos = <<>> /\ Empty.sums = <<>>
  BY DEF Empty
<1>2. Empty \in Tables
  BY DEF Empty, Tables
<1>3. IsFiniteSet({})
  BY FS_EmptySet
<1> QED
  BY <1>1, <1>2, <1>3 DEF Tabled, Truthful

(* Nobody has begun anything.                                              *)
LEMMA NobodyBusy ==
  ASSUME frame = [t \in Threads |-> Idle], idLock = None, backupLock = None, jobs = NoJobs,
         lastBackup = "none"
  PROVE  /\ Frames /\ jobs \in JobsType /\ Placed /\ Locked /\ InHand /\ Settled
         /\ Summed /\ Tagged
<1>1. \A t \in Threads : frame[t] = Idle
  OBVIOUS
<1>2. Idle.at = "idle" /\ Idle.call = None /\ None \notin Threads
  BY NobodyIsNone DEF Idle
<1>3. Frames
  BY IdleType DEF Frames
<1>4. jobs.metadata = <<>> /\ jobs.checksum = <<>> /\ jobs.tagging = <<>>
  BY DEF NoJobs
<1>5. jobs \in JobsType
  BY DEF NoJobs, JobsType
<1>6. Placed
  BY <1>1, <1>2 DEF Placed, Busy, CallAt, Restores, Adding, At, Marking, TagSteps
<1>7. Locked
  BY <1>1, <1>2 DEF Locked, Holding
<1>8. InHand
  BY <1>1, <1>2 DEF InHand, Honest, Restores, Adding, At, Marking, TagSteps
<1>9. Settled
  BY <1>1, <1>2, <1>4 DEF Settled, Followed, WriteKnown, At
<1>10. Summed /\ Tagged
  BY <1>4 DEF Summed, Tagged
<1> QED
  BY <1>3, <1>5, <1>6, <1>7, <1>8, <1>9, <1>10

LEMMA InitInductive ==
  ASSUME Init
  PROVE  IInv
<1>1. PICK x \in Left : /\ xml \in {x} \cup (IF x = [f \in Files |-> {}] THEN {None} ELSE {})
                        /\ db \in {Empty, Stored(x)}
                        /\ given = Users(x) /\ promised = Users(x)
  BY Zenon DEF Init
<1>2. /\ committed = None /\ rowid = 0 /\ idLock = None /\ backupLock = None
      /\ disk = Files \ Captures /\ jobs = NoJobs /\ frame = [t \in Threads |-> Idle]
      /\ lastBackup = "none"
  BY Zenon DEF Init
<1>3. /\ Frames /\ jobs \in JobsType /\ Placed /\ Locked /\ InHand /\ Settled
      /\ Summed /\ Tagged
  BY <1>2, NobodyBusy
<1>4. Tabled(db) /\ Truthful(given, db)
  BY <1>1, StoredIs, EmptyIs, Zenon
<1>5. Saved
  BY <1>2 DEF Saved
<1>6. xml = x \/ xml = None
  BY <1>1
<1>7. Written
  BY <1>1, <1>6, LeftRightful DEF Written
<1>8. xml \in {None, Torn} \cup [Files -> SUBSET Mark]
  BY <1>6 DEF Left
<1>9. given \subseteq Files \X Names
  BY <1>1 DEF Users, Left, UserMarks, Mark
<1>10. \A t \in Threads : frame[t].id \in Nat /\ frame[t].tag \in Nat
  BY <1>3 DEF Frames, FrameType
<1>11. jobs.checksum \in Seq([file : Files, id : Nat])
  BY <1>3 DEF JobsType, SumJob
<1>12. jobs.metadata \in Seq(Files) /\ jobs.tagging \in Seq(Job)
  BY <1>3 DEF JobsType
<1>13. TypeOK
  <2>1. /\ db \in [photos : Seq(Files), sums : Seq(Files \cup {None}), tags : Seq(Names),
                   marks : SUBSET [photo : Nat, tag : Nat, auto : BOOLEAN]]
        /\ Len(db.sums) = Len(db.photos)
    BY <1>4 DEF Tabled, Tables, Links
  <2>2. rowid \in Nat /\ {idLock, backupLock} \subseteq Threads \cup {None} /\ disk \subseteq Files
    BY <1>2
  <2>3. lastBackup \in {"none", "written", "partial", "failed", "leaked_lock"}
    BY <1>2
  <2>4. promised \subseteq given
    BY <1>1
  <2> QED
    BY <1>8, <1>9, <1>10, <1>11, <1>12, <2>1, <2>2, <2>3, <2>4, Zenon DEF TypeOK
<1>14. Typed
  BY <1>3, <1>4, <1>13 DEF Typed, Frames
<1> QED
  BY <1>3, <1>4, <1>5, <1>7, <1>14 DEF IInv, Rows

(* A rollback goes back to tables that were right.                         *)
LEMMA CrashInductive ==
  ASSUME IInv, Crash
  PROVE  IInv'
<1>1. /\ committed' = None /\ rowid' = 0 /\ idLock' = None /\ backupLock' = None
      /\ jobs' = NoJobs /\ frame' = [t \in Threads |-> Idle] /\ lastBackup' = "none"
      /\ xml' = xml /\ disk' = disk /\ given' = given /\ promised' = promised
      /\ db' = db \/ (committed # None /\ db' = committed)
  BY Zenon DEF Crash
<1>2. /\ Frames' /\ jobs' \in JobsType /\ Placed' /\ Locked' /\ InHand' /\ Settled'
      /\ Summed' /\ Tagged'
  <2>1. \A t \in Threads : frame'[t] = Idle
    BY <1>1
  <2>2. Idle.at = "idle" /\ Idle.call = None /\ None \notin Threads
    BY NobodyIsNone DEF Idle
  <2>3. Frames'
    BY <1>1, IdleType DEF Frames
  <2>4. jobs'.metadata = <<>> /\ jobs'.checksum = <<>> /\ jobs'.tagging = <<>>
    BY <1>1 DEF NoJobs
  <2>5. jobs' \in JobsType
    BY <1>1 DEF NoJobs, JobsType
  <2>6. Placed'
    BY <2>1, <2>2 DEF Placed, Busy, CallAt, Restores, Adding, At, Marking, TagSteps
  <2>7. Locked'
    BY <1>1, <2>1, <2>2 DEF Locked, Holding
  <2>8. InHand'
    BY <2>1, <2>2 DEF InHand, Honest, Restores, Adding, At, Marking, TagSteps
  <2>9. Settled'
    BY <1>1, <2>1, <2>2, <2>4 DEF Settled, Followed, WriteKnown, At
  <2>10. Summed' /\ Tagged'
    BY <2>4 DEF Summed, Tagged
  <2> QED
    BY <2>3, <2>5, <2>6, <2>7, <2>8, <2>9, <2>10
<1>3. Tabled(db') /\ Truthful(given', db')
  BY <1>1 DEF IInv, Typed, Rows, Saved
<1>4. Saved' /\ Written'
  BY <1>1 DEF IInv, Rows, Saved, Written
<1>5. TypeOK'
  <2>1. db' \in Tables /\ Len(db'.sums) = Len(db'.photos)
    BY <1>3 DEF Tabled
  <2>2. \A t \in Threads : frame'[t].id \in Nat /\ frame'[t].tag \in Nat
    BY <1>2 DEF Frames, FrameType
  <2>3. /\ jobs'.metadata \in Seq(Files) /\ jobs'.tagging \in Seq(Job)
        /\ jobs'.checksum \in Seq(SumJob)
    BY <1>2 DEF JobsType
  <2>4. TypeOK
    BY DEF IInv, Typed
  <2> QED
    BY <1>1, <2>1, <2>2, <2>3, <2>4 DEF TypeOK, Tables, Links, SumJob
<1>6. Typed'
  BY <1>2, <1>3, <1>5 DEF Typed, Frames
<1> QED
  BY <1>2, <1>3, <1>4, <1>6 DEF IInv, Rows

(* A step that changes nothing.                                            *)
LEMMA StutterInductive ==
  ASSUME IInv, UNCHANGED vars
  PROVE  IInv'
<1>1. /\ db' = db /\ committed' = committed /\ rowid' = rowid
      /\ idLock' = idLock /\ backupLock' = backupLock /\ xml' = xml /\ disk' = disk
      /\ jobs' = jobs /\ frame' = frame /\ lastBackup' = lastBackup
      /\ given' = given /\ promised' = promised
  BY Zenon DEF vars, dbVars, lockVars, history
<1>2. Typed' /\ Rows'
  BY <1>1 DEF IInv, Typed, TypeOK, Rows, Saved, Written, Summed, Tagged
<1>3. Placed' /\ Locked' /\ InHand'
  <2>1. Advanced
    BY <1>1, NothingAdded DEF IInv
  <2>2. AllFine'
    BY <1>1, <2>1, AllStay, FineIs DEF IInv
  <2> QED
    BY <2>2 DEF AllFine, Fine, Placed, Locked, InHand
<1>4. Settled'
  BY <1>1 DEF IInv, Settled, Followed, WriteKnown, Owed, Coming, Synced, Writing, FileKnown,
              RestoreKnown, Restores, Adding, At, Known, Carries, MarksOf, Automatic
<1> QED
  BY <1>2, <1>3, <1>4 DEF IInv

(* Together: the parts of the invariant, after a step.                     *)
LEMMA Together ==
  ASSUME Typed', Rows', AllFine', Settled'
  PROVE  IInv'
BY DEF IInv, AllFine, Fine, Placed, Locked, InHand

LEMMA CallInductive ==
  ASSUME IInv, NEW t \in Threads, CallStep(t)
  PROVE  IInv'
<1>0. Typed /\ Rows /\ AllFine /\ Settled
  BY FineIs DEF IInv
<1>1. CASE InsertPhoto(t)
  BY <1>0, <1>1, InsertPhotoFine, InsertPhotoTyped, InsertPhotoSettled, Together
<1>2. CASE PhotoId(t)
  BY <1>0, <1>2, PhotoIdFine, PhotoIdTyped, PhotoIdSettled, Together
<1>3. CASE \E m \in Mark : FindTag(t, m)
  <2>1. PICK m \in Mark : FindTag(t, m)
    BY <1>3
  <2> QED
    BY <1>0, <2>1, FindTagFine, FindTagTyped, FindTagSettled, Together
<1>4. CASE InsertTag(t)
  BY <1>0, <1>4, InsertTagFine, InsertTagTyped, InsertTagSettled, Together
<1>5. CASE TagId(t)
  BY <1>0, <1>5, TagIdFine, TagIdTyped, TagIdSettled, Together
<1>6. CASE InsertMark(t)
  BY <1>0, <1>6, InsertMarkFine, InsertMarkTyped, InsertMarkSettled, Together
<1>7. CASE KnownPhoto(t)
  BY <1>0, <1>7, KnownPhotoFine, KnownPhotoTyped, KnownPhotoSettled, Together
<1>8. CASE Begin(t)
  BY <1>0, <1>8, BeginFine, BeginTyped, BeginSettled, Together
<1>9. CASE Commit(t)
  BY <1>0, <1>9, CommitFine, CommitTyped, CommitSettled, Together
<1>10. CASE StartBackup(t)
  BY <1>0, <1>10, StartBackupFine, StartBackupTyped, StartBackupSettled, Together
<1>11. CASE NoWriter(t)
  BY <1>0, <1>11, NoWriterFine, NoWriterTyped, NoWriterSettled, Together
<1>12. CASE QueryTags(t)
  BY <1>0, <1>12, QueryTagsFine, QueryTagsTyped, QueryTagsSettled, Together
<1>13. CASE WriteXml(t)
  BY <1>0, <1>13, WriteXmlFine, WriteXmlTyped, WriteXmlSettled, Together
<1>14. CASE QueueTags(t)
  BY <1>0, <1>14, QueueTagsFine, QueueTagsTyped, QueueTagsSettled, Together
<1> QED
  BY <1>1, <1>2, <1>3, <1>4, <1>5, <1>6, <1>7, <1>8, <1>9, <1>10, <1>11, <1>12, <1>13,
     <1>14, Zenon DEF CallStep

LEMMA WorkerInductive ==
  ASSUME IInv, WorkerStep
  PROVE  IInv'
<1>0. Typed /\ Rows /\ AllFine /\ Settled
  BY FineIs DEF IInv
<1>1. CASE TakeMetadata
  BY <1>0, <1>1, TakeMetadataFine, TakeMetadataTyped, TakeMetadataSettled, Together
<1>2. CASE TakeChecksum
  BY <1>0, <1>2, TakeChecksumFine, TakeChecksumTyped, TakeChecksumSettled, Together
<1>3. CASE TakeTagging
  BY <1>0, <1>3, TakeTaggingFine, TakeTaggingTyped, TakeTaggingSettled, Together
<1>4. CASE ReadXml
  BY <1>0, <1>4, ReadXmlFine, ReadXmlTyped, ReadXmlSettled, Together
<1>5. CASE \E f \in Files : RestoreFile(f)
  <2>1. PICK f \in Files : RestoreFile(f)
    BY <1>5
  <2> QED
    BY <1>0, <2>1, RestoreFileFine, RestoreFileTyped, RestoreFileSettled, Together
<1>6. CASE AddPhoto
  BY <1>0, <1>6, AddPhotoFine, AddPhotoTyped, AddPhotoSettled, Together
<1>7. CASE FilesDone
  BY <1>0, <1>7, FilesDoneFine, FilesDoneTyped, FilesDoneSettled, Together
<1> QED
  BY <1>1, <1>2, <1>3, <1>4, <1>5, <1>6, <1>7, Zenon DEF WorkerStep

LEMMA UserInductive ==
  ASSUME IInv, UserStep
  PROVE  IInv'
<1>0. Typed /\ Rows /\ AllFine /\ Settled
  BY FineIs DEF IInv
<1>1. CASE LoadDirectory
  BY <1>0, <1>1, LoadDirectoryFine, LoadDirectoryTyped, LoadDirectorySettled, Together
<1>2. ASSUME NEW name \in Names, Search(name) PROVE IInv'
  BY <1>0, <1>2, SearchFine, SearchTyped, SearchSettled, Together
<1>3. ASSUME NEW name \in Names, NEW files \in SUBSET disk, TagPhotos(files, name) PROVE IInv'
  BY <1>0, <1>3, TagPhotosFine, TagPhotosTyped, TagPhotosSettled, Together
<1>4. ASSUME NEW name \in Names, NEW f \in disk, RemoveTag(f, name) PROVE IInv'
  <2>1. f \in Files
    BY <1>0 DEF Typed, TypeOK
  <2> QED
    BY <1>0, <1>4, <2>1, RemoveTagFine, RemoveTagTyped, RemoveTagSettled, Together
<1>5. ASSUME NEW f \in Files, Capture(f) PROVE IInv'
  BY <1>0, <1>5, CaptureFine, CaptureTyped, CaptureSettled, Together
<1>6. \/ LoadDirectory
      \/ \E name \in Names : Search(name)
      \/ \E name \in Names : \E files \in SUBSET disk : TagPhotos(files, name)
      \/ \E name \in Names : \E f \in disk : RemoveTag(f, name)
      \/ \E f \in Files : Capture(f)
  BY Zenon DEF UserStep
<1> QED
  BY <1>1, <1>2, <1>3, <1>4, <1>5, <1>6, Zenon

LEMMA StepInductive ==
  ASSUME IInv, [Next]_vars
  PROVE  IInv'
<1>1. CASE UserStep
  BY <1>1, UserInductive
<1>2. CASE WorkerStep
  BY <1>2, WorkerInductive
<1>3. CASE DeleteMark
  <2>1. Typed /\ Rows /\ AllFine /\ Settled
    BY FineIs DEF IInv
  <2> QED
    BY <1>3, <2>1, DeleteMarkFine, DeleteMarkTyped, DeleteMarkSettled, Together
<1>4. CASE Crash
  BY <1>4, CrashInductive
<1>5. ASSUME NEW t \in Threads, CallStep(t) PROVE IInv'
  BY <1>5, CallInductive
<1>6. CASE UNCHANGED vars
  BY <1>6, StutterInductive
<1> QED
  BY <1>1, <1>2, <1>3, <1>4, <1>5, <1>6, Zenon DEF Next
-----------------------------------------------------------------------------
(* In every state of every run: tables, calls, jobs and the file fit       *)
(* together as IInv says, whatever the three threads do between one SQL    *)
(* statement and the next.                                                 *)
THEOREM Inductive == Spec => []IInv
<1>1. IInv /\ [Next]_vars => IInv'
  BY StepInductive
<1> QED
  BY <1>1, InitInductive, PTL DEF Spec

(* The variables have their types: no row, job or lock is malformed.       *)
THEOREM LibraryTypes == Spec => []TypeOK
<1>1. IInv => TypeOK
  BY DEF IInv, Typed
<1> QED
  BY <1>1, Inductive, PTL

(* A photo carries a tag only if its metadata or a user gave it that tag,  *)
(* and the checksum of its own file, although sqlite3_last_insert_rowid()  *)
(* is of whatever thread inserted last.                                    *)
THEOREM LibraryAttribution == Spec => []Attribution
<1>1. ASSUME IInv PROVE Attribution
  <2>1. Truthful(given, db) /\ db.marks \subseteq Links
    BY <1>1, TabledParts DEF IInv, Typed, Rows
  <2>2. ASSUME NEW k \in db.marks
        PROVE  /\ k.photo \in DOMAIN db.photos /\ k.tag \in DOMAIN db.tags
               /\ IF k.auto THEN db.tags[k.tag] \in AutoNames[db.photos[k.photo]]
                  ELSE <<db.photos[k.photo], db.tags[k.tag]>> \in given
    <3>1. /\ k.photo \in DOMAIN db.photos /\ k.tag \in DOMAIN db.tags
          /\ Right(given, db.photos[k.photo], db.tags[k.tag], k.auto)
      BY <2>1 DEF Truthful
    <3>2. k.auto \in BOOLEAN
      BY <2>1, Zenon DEF Links
    <3>3. CASE k.auto = TRUE
      BY <3>1, <3>3, Zenon DEF Right
    <3>4. CASE k.auto = FALSE
      BY <3>1, <3>4, Zenon DEF Right
    <3> QED
      BY <3>2, <3>3, <3>4, Zenon
  <2>3. \A i \in DOMAIN db.photos : db.sums[i] \in {None, db.photos[i]}
    BY <2>1 DEF Truthful
  <2> QED
    BY <2>2, <2>3, Zenon DEF Attribution
<1> QED
  BY <1>1, Inductive, PTL

(* With all jobs and calls done, tags.xml has the tags that users gave as  *)
(* the database has them, from the first backup of a session on: every     *)
(* change is followed by a backup, and backup_lock keeps an older backup   *)
(* from being written over a newer one.                                    *)
THEOREM LibraryBackup == Spec => []BackupCurrent
<1>1. ASSUME IInv, Quiet, lastBackup = "written", NEW f \in Files
      PROVE  xml[f] \cap UserMarks = MarksOf(db, f) \cap UserMarks
  <2>1. Owed
    BY <1>1 DEF IInv, Settled
  <2>2. jobs.tagging = <<>> /\ \A t \in Threads : frame[t].at = "idle"
    BY <1>1, IdleType DEF Quiet, NoJobs
  <2>3. Synced
    BY <2>1, <2>2 DEF Owed, Coming, Writing, At
  <2>4. \A m \in UserMarks : m \in xml[f] <=> m \in MarksOf(db, f)
    BY <2>3 DEF Synced, Carries
  <2> QED
    BY <2>4
<1>2. IInv => BackupCurrent
  BY <1>1 DEF BackupCurrent
<1> QED
  BY <1>2, Inductive, PTL
=============================================================================
