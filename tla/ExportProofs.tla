---------------------------- MODULE ExportProofs ----------------------------
(***************************************************************************)
(* Proofs about Export, for any entries, dialogs and finite sets of        *)
(* threads, and any number of operations and ends of the program.          *)
(***************************************************************************)
EXTENDS Export, FiniteSetTheorems, SequenceTheorems, TLAPS

RowSet(n) == [entry : Entries, row : 1 .. n]

Distinct(s) == \A i, k \in 1 .. Len(s) : s[i] = s[k] => i = k

BatchAt == {"off", "start", "top", "pending", "load", "preview", "saving", "output",
            "exported", "failed", "remove", "save", "finish", "end"}

MainAt == {"idle", "save", "load", "load_save", "add_job"}

WorkAt == {"idle", "slot", "add_slot", "describe", "begin", "output", "error",
           "progress", "destroy", "unslot", "remove_slot"}

Loading == main.at \in {"load", "load_save"}

Typed ==
  /\ gdk \in [owner : Threads \cup {None}, depth : {0, 1}]
  /\ gdk.owner = None <=> gdk.depth = 0
  /\ queueLock \in Workers \cup {None}
  /\ lastRow \in Nat /\ list \in Seq(RowSet(lastRow))
  /\ file = Torn \/ file \in Seq(Entries)
  /\ process \in BOOLEAN
  /\ batch \in [BatchThreads -> [at : BatchAt, row : Nat, entry : Entries \cup {None},
                                 left : Nat, abort : BOOLEAN]]
  /\ main \in [at : MainAt, job : Jobs \cup {None}, todo : Seq(Entries)]
  /\ pool \in Seq(Jobs)
  /\ work \in [Workers -> [at : WorkAt, job : Jobs \cup {None}]]
  /\ slots \in Nat
  /\ ops \in Nat /\ crashes \in Nat
  /\ owed \subseteq Entries /\ dropped \subseteq Entries /\ unsaved \in BOOLEAN
  /\ again \in BOOLEAN /\ stale \in BOOLEAN /\ cut \in BOOLEAN

(* Who has the gdk lock: of the main thread a handler that saves the list  *)
(* or adds a job, of the batch threads the one at the top or the end of    *)
(* its loop, and no thread of the pool for longer than a step.             *)
GdkHeld ==
  /\ gdk.owner \notin Workers
  /\ main.at \in {"save", "add_job"} <=> gdk.owner = Main
  /\ \A t \in BatchThreads :
       gdk.owner = t => batch[t].at \in {"top", "remove", "save", "finish"}

(* The main thread reads the file only after the program was started       *)
(* again, before there is a batch thread.                                  *)
MainAtWork ==
  /\ main.at = "add_job" => main.job # None
  /\ ~ Loading => main.todo = <<>>
  /\ Loading => crashes > 0 /\ \A t \in BatchThreads : batch[t] = Off

(* process_thread keeps a second batch thread from being started. *)
OneThread ==
  \A t \in BatchThreads : batch[t] # Off =>
    process = TRUE /\ \A u \in BatchThreads : batch[u] # Off => u = t

(* n_slots counts the jobs between add_slot() and remove_slot(). *)
Slotted ==
  {w \in Workers : work[w].at \in {"describe", "begin", "output", "error", "progress",
                                  "destroy", "unslot", "remove_slot"}}

SlotsHeld == slots = Cardinality(Slotted)

(* No row is twice in the list, no two rows have the same entry, and the   *)
(* row a batch thread works on, as long as it is in the list, has the      *)
(* entry the thread read from it.                                          *)
RowsApart ==
  /\ Distinct(list)
  /\ \A r, q \in ToSet(list) : r.row = q.row \/ r.entry = q.entry => r = q

AtRow == {"pending", "load", "preview", "saving", "output", "exported", "failed", "remove"}

RowTaken ==
  \A t \in BatchThreads :
    /\ batch[t].row <= lastRow
    /\ batch[t].at \in AtRow =>
         /\ batch[t].entry \in Entries
         /\ \A r \in ToSet(list) : r.row = batch[t].row => r.entry = batch[t].entry

(* EntriesKept says nothing of the file while the main thread is in a      *)
(* handler, nor of a row that is exported and not yet removed.             *)
AllKept ==
  Sound =>
    /\ Due \subseteq Listed \cup ToSet(main.todo)
    /\ main.at = "load_save" => file = Torn
    /\ file # Torn /\ main.todo = <<>> /\ unsaved = FALSE => Due \subseteq ToSet(file)
    /\ \A t \in BatchThreads :
         batch[t].at \in {"exported", "remove"} /\ RowThere(batch[t].row) =>
           batch[t].entry \notin Due

IInv == /\ Typed /\ GdkHeld /\ MainAtWork /\ OneThread /\ SlotsHeld
        /\ RowsApart /\ RowTaken
        /\ AllKept /\ ExportedOnce
-----------------------------------------------------------------------------
(* What appending, removing and inserting do to a sequence without         *)
(* duplicates: the set of its members is changed by that member.           *)

Appended(t, s, x) == t = Append(s, x)

LEMMA AppendMember ==
  ASSUME NEW S, NEW s \in Seq(S), NEW x \in S, NEW t, Appended(t, s, x),
         Distinct(s), x \notin ToSet(s)
  PROVE  t \in Seq(S) /\ ToSet(t) = ToSet(s) \cup {x} /\ Distinct(t)
<1>1. PICK n \in Nat : n = Len(s)
  OBVIOUS
<1>2. /\ t \in Seq(S) /\ Len(t) = n + 1 /\ t[n + 1] = x
      /\ \A i \in 1 .. n : t[i] = s[i]
  BY <1>1, AppendProperties DEF Appended
<1>3. DOMAIN s = 1 .. n /\ DOMAIN t = 1 .. n + 1
  BY <1>1, <1>2
<1>4. ToSet(t) = ToSet(s) \cup {x}
  <2>1. ToSet(s) = {s[i] : i \in 1 .. n} /\ ToSet(t) = {t[i] : i \in 1 .. n + 1}
    BY <1>3 DEF ToSet
  <2>2. \A i \in 1 .. n + 1 : i \in 1 .. n \/ i = n + 1
    OBVIOUS
  <2>3. 1 .. n \subseteq 1 .. n + 1 /\ n + 1 \in 1 .. n + 1
    OBVIOUS
  <2> QED
    BY <1>2, <2>1, <2>2, <2>3
<1>5. Distinct(t)
  <2>1. \A i \in 1 .. n : s[i] \in ToSet(s)
    BY <1>3 DEF ToSet
  <2>2. SUFFICES ASSUME NEW i \in 1 .. n + 1, NEW k \in 1 .. n + 1, t[i] = t[k]
                 PROVE  i = k
    BY <1>2 DEF Distinct
  <2>3. CASE i \in 1 .. n /\ k \in 1 .. n
    BY <1>1, <1>2, <2>2, <2>3 DEF Distinct
  <2>4. CASE i = n + 1 /\ k \in 1 .. n
    BY <1>2, <2>1, <2>2, <2>4
  <2>5. CASE k = n + 1 /\ i \in 1 .. n
    BY <1>2, <2>1, <2>2, <2>5
  <2> QED
    BY <2>3, <2>4, <2>5
<1> QED
  BY <1>2, <1>4, <1>5

(* t is s without its member at i. *)
IsWithout(t, s, i) ==
  /\ Len(t) = Len(s) - 1
  /\ \A k \in 1 .. Len(s) - 1 : t[k] = IF k < i THEN s[k] ELSE s[k + 1]

LEMMA RemovedAt ==
  ASSUME NEW S, NEW s \in Seq(S), NEW i \in 1 .. Len(s), NEW t, t = RemoveAt(s, i)
  PROVE  t \in Seq(S) /\ IsWithout(t, s, i)
<1>1. PICK n \in Nat : n = Len(s)
  OBVIOUS
<1>2. PICK a : a = SubSeq(s, 1, i - 1)
  OBVIOUS
<1>3. PICK b : b = SubSeq(s, i + 1, n)
  OBVIOUS
<1>4. i \in 1 .. n /\ \A k \in 1 .. n : s[k] \in S
  BY <1>1
<1>5. /\ a \in Seq(S) /\ Len(a) = i - 1
      /\ \A k \in 1 .. i - 1 : a[k] = s[k]
  <2>1. \A k \in 1 .. i - 1 : s[k] \in S
    BY <1>4
  <2>2. /\ a \in Seq(S)
        /\ Len(a) = IF 1 <= i - 1 THEN (i - 1) - 1 + 1 ELSE 0
        /\ \A k \in 1 .. (i - 1) - 1 + 1 : a[k] = s[1 + k - 1]
    BY <1>2, <1>4, <2>1, SubSeqProperties
  <2> QED
    BY <1>4, <2>2
<1>6. /\ b \in Seq(S) /\ Len(b) = n - i
      /\ \A k \in 1 .. n - i : b[k] = s[i + k]
  <2>1. \A k \in i + 1 .. n : s[k] \in S
    BY <1>4
  <2>2. /\ b \in Seq(S)
        /\ Len(b) = IF i + 1 <= n THEN n - (i + 1) + 1 ELSE 0
        /\ \A k \in 1 .. n - (i + 1) + 1 : b[k] = s[(i + 1) + k - 1]
    BY <1>3, <1>4, <2>1, SubSeqProperties
  <2>3. n - (i + 1) + 1 = n - i /\ \A k \in 1 .. n - i : (i + 1) + k - 1 = i + k
    BY <1>4
  <2> QED
    BY <1>4, <2>2, <2>3
<1>7. t = a \o b
  BY <1>1, <1>2, <1>3 DEF RemoveAt
<1>8. /\ t \in Seq(S) /\ Len(t) = Len(a) + Len(b)
      /\ \A k \in 1 .. Len(a) + Len(b) :
           t[k] = IF k <= Len(a) THEN a[k] ELSE b[k - Len(a)]
  <2> HIDE <1>2, <1>3
  <2>1. a \in Seq(S) /\ b \in Seq(S)
    BY <1>5, <1>6
  <2>2. /\ a \o b \in Seq(S) /\ Len(a \o b) = Len(a) + Len(b)
        /\ \A k \in 1 .. Len(a) + Len(b) :
             (a \o b)[k] = IF k <= Len(a) THEN a[k] ELSE b[k - Len(a)]
    BY <2>1, ConcatProperties
  <2> QED
    BY <1>7, <2>2
<1>9. ASSUME NEW k \in 1 .. n - 1
      PROVE  t[k] = IF k < i THEN s[k] ELSE s[k + 1]
  <2>1. t[k] = IF k <= i - 1 THEN a[k] ELSE b[k - (i - 1)]
    BY <1>4, <1>5, <1>6, <1>8
  <2>2. CASE k < i
    BY <1>4, <1>5, <2>1, <2>2
  <2>3. CASE ~ (k < i)
    <3>1. k - (i - 1) \in 1 .. n - i /\ i + (k - (i - 1)) = k + 1
      BY <1>4, <2>3
    <3> QED
      BY <1>4, <1>6, <2>1, <2>3, <3>1
  <2> QED
    BY <2>2, <2>3
<1>10. Len(t) = n - 1
  BY <1>4, <1>5, <1>6, <1>8
<1> QED
  BY <1>1, <1>8, <1>9, <1>10 DEF IsWithout

LEMMA RemoveMember ==
  ASSUME NEW S, NEW s \in Seq(S), NEW i \in 1 .. Len(s), NEW t, t = RemoveAt(s, i),
         Distinct(s)
  PROVE  /\ t \in Seq(S) /\ Len(t) = Len(s) - 1
         /\ ToSet(t) = ToSet(s) \ {s[i]} /\ Distinct(t)
<1>1. PICK n \in Nat : n = Len(s)
  OBVIOUS
<1>2. t \in Seq(S) /\ IsWithout(t, s, i)
  BY RemovedAt
<1>3. /\ i \in 1 .. n /\ Len(t) = n - 1
      /\ \A k \in 1 .. n - 1 : t[k] = IF k < i THEN s[k] ELSE s[k + 1]
  BY <1>1, <1>2 DEF IsWithout
<1>4. ToSet(s) = {s[k] : k \in 1 .. n} /\ ToSet(t) = {t[k] : k \in 1 .. n - 1}
  <2>1. DOMAIN s = 1 .. n /\ DOMAIN t = 1 .. n - 1
    BY <1>1, <1>2, <1>3
  <2> QED
    BY <2>1 DEF ToSet
<1>5. \A k, l \in 1 .. n : s[k] = s[l] => k = l
  BY <1>1 DEF Distinct
<1>6. ToSet(t) \subseteq ToSet(s) \ {s[i]}
  <2>1. SUFFICES ASSUME NEW k \in 1 .. n - 1
                 PROVE  t[k] \in ToSet(s) /\ t[k] # s[i]
    BY <1>4
  <2>2. CASE k < i
    BY <1>3, <1>4, <1>5, <2>2
  <2>3. CASE ~ (k < i)
    <3>1. k + 1 \in 1 .. n /\ k + 1 # i
      BY <1>3, <2>3
    <3> QED
      BY <1>3, <1>4, <1>5, <2>3, <3>1
  <2> QED
    BY <2>2, <2>3
<1>7. ToSet(s) \ {s[i]} \subseteq ToSet(t)
  <2>1. SUFFICES ASSUME NEW k \in 1 .. n, k # i
                 PROVE  s[k] \in ToSet(t)
    BY <1>4
  <2>2. CASE k < i
    <3>1. k \in 1 .. n - 1
      BY <1>3, <2>2
    <3> QED
      BY <1>3, <1>4, <2>2, <3>1
  <2>3. CASE ~ (k < i)
    <3>1. k - 1 \in 1 .. n - 1 /\ (k - 1) + 1 = k /\ ~ (k - 1 < i)
      BY <1>3, <2>1, <2>3
    <3> QED
      BY <1>3, <1>4, <3>1
  <2> QED
    BY <2>2, <2>3
<1>8. Distinct(t)
  <2>1. SUFFICES ASSUME NEW k \in 1 .. n - 1, NEW l \in 1 .. n - 1, t[k] = t[l]
                 PROVE  k = l
    BY <1>3 DEF Distinct
  <2>2. k \in 1 .. n /\ l \in 1 .. n /\ k + 1 \in 1 .. n /\ l + 1 \in 1 .. n
    OBVIOUS
  <2> QED
    BY <1>3, <1>5, <2>1, <2>2
<1> QED
  BY <1>1, <1>2, <1>3, <1>6, <1>7, <1>8

(* t is s with x put in at i. *)
IsWith(t, s, i, x) ==
  /\ Len(t) = Len(s) + 1
  /\ \A k \in 1 .. Len(s) + 1 :
       t[k] = IF k < i THEN s[k] ELSE IF k = i THEN x ELSE s[k - 1]

LEMMA InsertedAt ==
  ASSUME NEW S, NEW s \in Seq(S), NEW i \in 1 .. Len(s) + 1, NEW x \in S,
         NEW t, t = InsertAt(s, i, x)
  PROVE  t \in Seq(S) /\ IsWith(t, s, i, x)
<1>1. PICK n \in Nat : n = Len(s)
  OBVIOUS
<1>2. PICK a : a = SubSeq(s, 1, i - 1)
  OBVIOUS
<1>3. PICK b : b = SubSeq(s, i, n)
  OBVIOUS
<1>4. PICK c : c = a \o <<x>>
  OBVIOUS
<1>5. i \in 1 .. n + 1 /\ \A k \in 1 .. n : s[k] \in S
  BY <1>1
<1>6. /\ a \in Seq(S) /\ Len(a) = i - 1
      /\ \A k \in 1 .. i - 1 : a[k] = s[k]
  <2>1. \A k \in 1 .. i - 1 : s[k] \in S
    BY <1>5
  <2>2. /\ a \in Seq(S)
        /\ Len(a) = IF 1 <= i - 1 THEN (i - 1) - 1 + 1 ELSE 0
        /\ \A k \in 1 .. (i - 1) - 1 + 1 : a[k] = s[1 + k - 1]
    BY <1>2, <1>5, <2>1, SubSeqProperties
  <2> QED
    BY <1>5, <2>2
<1>7. /\ b \in Seq(S) /\ Len(b) = n - i + 1
      /\ \A k \in 1 .. n - i + 1 : b[k] = s[i + k - 1]
  <2>1. \A k \in i .. n : s[k] \in S
    BY <1>5
  <2>2. /\ b \in Seq(S)
        /\ Len(b) = IF i <= n THEN n - i + 1 ELSE 0
        /\ \A k \in 1 .. n - i + 1 : b[k] = s[i + k - 1]
    BY <1>3, <1>5, <2>1, SubSeqProperties
  <2> QED
    BY <1>5, <2>2
<1>8. PICK one : one = <<x>>
  OBVIOUS
<1>9. one \in Seq(S) /\ Len(one) = 1 /\ one[1] = x
  BY <1>8
<1>10. /\ c \in Seq(S) /\ Len(c) = i
       /\ \A k \in 1 .. i : c[k] = IF k <= i - 1 THEN a[k] ELSE one[k - (i - 1)]
  <2>1. /\ c \in Seq(S) /\ Len(c) = Len(a) + Len(one)
        /\ \A k \in 1 .. Len(a) + Len(one) :
             c[k] = IF k <= Len(a) THEN a[k] ELSE one[k - Len(a)]
    BY <1>4, <1>6, <1>8, <1>9, ConcatProperties
  <2>2. Len(a) = i - 1 /\ Len(a) + Len(one) = i
    BY <1>5, <1>6, <1>9
  <2> QED
    BY <2>1, <2>2
<1>11. /\ t \in Seq(S) /\ Len(t) = n + 1
       /\ \A k \in 1 .. n + 1 : t[k] = IF k <= i THEN c[k] ELSE b[k - i]
  <2>1. t = c \o b
    BY <1>1, <1>2, <1>3, <1>4, Zenon DEF InsertAt
  <2>2. /\ t \in Seq(S) /\ Len(t) = Len(c) + Len(b)
        /\ \A k \in 1 .. Len(c) + Len(b) :
             t[k] = IF k <= Len(c) THEN c[k] ELSE b[k - Len(c)]
    <3>1. c \in Seq(S) /\ b \in Seq(S)
      BY <1>7, <1>10
    <3>2. /\ c \o b \in Seq(S) /\ Len(c \o b) = Len(c) + Len(b)
          /\ \A k \in 1 .. Len(c) + Len(b) :
               (c \o b)[k] = IF k <= Len(c) THEN c[k] ELSE b[k - Len(c)]
      BY <3>1, ConcatProperties
    <3> QED
      BY <2>1, <3>2
  <2>3. Len(c) + Len(b) = n + 1 /\ Len(c) = i
    BY <1>5, <1>7, <1>10
  <2> QED
    BY <2>2, <2>3
<1>12. ASSUME NEW k \in 1 .. n + 1
       PROVE  t[k] = IF k < i THEN s[k] ELSE IF k = i THEN x ELSE s[k - 1]
  <2>1. CASE k < i
    <3>1. k \in 1 .. i /\ k <= i - 1 /\ k \in 1 .. i - 1 /\ k <= i
      BY <1>5, <2>1
    <3> QED
      BY <1>6, <1>10, <1>11, <2>1, <3>1
  <2>2. CASE k = i
    <3>1. k \in 1 .. i /\ ~ (k <= i - 1) /\ k - (i - 1) = 1 /\ k <= i /\ ~ (k < i)
      BY <1>5, <2>2
    <3> QED
      BY <1>9, <1>10, <1>11, <2>2, <3>1
  <2>3. CASE k > i
    <3>1. k - i \in 1 .. n - i + 1 /\ i + (k - i) - 1 = k - 1 /\ ~ (k <= i)
          /\ ~ (k < i) /\ k # i
      BY <1>5, <2>3
    <3> QED
      BY <1>7, <1>11, <3>1
  <2> QED
    BY <1>5, <2>1, <2>2, <2>3
<1> QED
  BY <1>1, <1>11, <1>12 DEF IsWith

LEMMA InsertMember ==
  ASSUME NEW S, NEW s \in Seq(S), NEW i \in 1 .. Len(s) + 1, NEW x \in S,
         NEW t, t = InsertAt(s, i, x), Distinct(s), x \notin ToSet(s)
  PROVE  t \in Seq(S) /\ ToSet(t) = ToSet(s) \cup {x} /\ Distinct(t)
<1>1. PICK n \in Nat : n = Len(s)
  OBVIOUS
<1>2. t \in Seq(S) /\ IsWith(t, s, i, x)
  BY InsertedAt
<1>3. /\ i \in 1 .. n + 1 /\ Len(t) = n + 1
      /\ \A k \in 1 .. n + 1 :
           t[k] = IF k < i THEN s[k] ELSE IF k = i THEN x ELSE s[k - 1]
  BY <1>1, <1>2 DEF IsWith
<1>4. ToSet(s) = {s[k] : k \in 1 .. n} /\ ToSet(t) = {t[k] : k \in 1 .. n + 1}
  <2>1. DOMAIN s = 1 .. n /\ DOMAIN t = 1 .. n + 1
    BY <1>1, <1>2, <1>3
  <2> QED
    BY <2>1 DEF ToSet
<1>5. /\ \A k, l \in 1 .. n : s[k] = s[l] => k = l
      /\ \A k \in 1 .. n : s[k] # x
  BY <1>1, <1>4 DEF Distinct
<1>6. \A k \in 1 .. n + 1 : /\ k < i => k \in 1 .. n
                            /\ ~ (k < i) /\ k # i => k - 1 \in 1 .. n
  BY <1>3
<1>7. ToSet(t) \subseteq ToSet(s) \cup {x}
  BY <1>3, <1>4, <1>6
<1>8. ToSet(s) \cup {x} \subseteq ToSet(t)
  <2>1. x \in ToSet(t)
    BY <1>3, <1>4
  <2>2. ASSUME NEW k \in 1 .. n PROVE s[k] \in ToSet(t)
    <3>1. CASE k < i
      BY <1>3, <1>4, <3>1
    <3>2. CASE ~ (k < i)
      <4>1. k + 1 \in 1 .. n + 1 /\ ~ (k + 1 < i) /\ k + 1 # i /\ (k + 1) - 1 = k
        BY <1>3, <3>2
      <4> QED
        BY <1>3, <1>4, <4>1
    <3> QED
      BY <3>1, <3>2
  <2> QED
    BY <1>4, <2>1, <2>2
<1>9. Distinct(t)
  <2>1. SUFFICES ASSUME NEW k \in 1 .. n + 1, NEW l \in 1 .. n + 1, t[k] = t[l]
                 PROVE  k = l
    BY <1>3 DEF Distinct
  <2>2. CASE k = i \/ l = i
    BY <1>3, <1>5, <1>6, <2>1, <2>2
  <2>3. CASE k # i /\ l # i
    <3>1. CASE k < i /\ l < i
      BY <1>3, <1>5, <1>6, <2>1, <3>1
    <3>2. CASE ~ (k < i) /\ ~ (l < i)
      <4>1. k - 1 = l - 1
        BY <1>3, <1>5, <1>6, <2>1, <2>3, <3>2
      <4> QED
        BY <4>1
    <3>3. CASE k < i /\ ~ (l < i)
      <4>1. k = l - 1
        BY <1>3, <1>5, <1>6, <2>1, <2>3, <3>3
      <4> QED
        BY <1>3, <2>3, <3>3, <4>1
    <3>4. CASE ~ (k < i) /\ l < i
      <4>1. k - 1 = l
        BY <1>3, <1>5, <1>6, <2>1, <2>3, <3>4
      <4> QED
        BY <1>3, <2>3, <3>4, <4>1
    <3> QED
      BY <3>1, <3>2, <3>3, <3>4
  <2> QED
    BY <2>2, <2>3
<1> QED
  BY <1>2, <1>7, <1>8, <1>9

LEMMA TakeMember ==
  ASSUME NEW S, NEW s \in Seq(S), s # <<>>
  PROVE  /\ Head(s) \in S /\ Tail(s) \in Seq(S)
         /\ ToSet(s) = ToSet(Tail(s)) \cup {Head(s)}
<1>1. PICK n \in Nat : n = Len(s)
  OBVIOUS
<1>2. PICK t : t = Tail(s)
  OBVIOUS
<1>3. n > 0 /\ Head(s) = s[1] /\ s[1] \in S
  BY <1>1
<1>4. t \in Seq(S) /\ Len(t) = n - 1 /\ \A k \in 1 .. n - 1 : t[k] = s[k + 1]
  <2>1. /\ Tail(s) \in Seq(S) /\ Len(Tail(s)) = Len(s) - 1
        /\ \A k \in 1 .. Len(Tail(s)) : Tail(s)[k] = s[k + 1]
    BY HeadTailProperties
  <2> QED
    BY <1>1, <1>2, <2>1
<1>5. ToSet(s) = {s[k] : k \in 1 .. n} /\ ToSet(t) = {t[k] : k \in 1 .. n - 1}
  <2>1. DOMAIN s = 1 .. n /\ DOMAIN t = 1 .. n - 1
    BY <1>1, <1>4
  <2> QED
    BY <2>1 DEF ToSet
<1>6. \A k \in 1 .. n - 1 : k + 1 \in 1 .. n
  OBVIOUS
<1>7. \A k \in 1 .. n : k = 1 \/ (k - 1 \in 1 .. n - 1 /\ (k - 1) + 1 = k)
  OBVIOUS
<1>8. ToSet(s) = ToSet(t) \cup {s[1]}
  <2>1. s[1] \in ToSet(s)
    BY <1>3, <1>5
  <2>2. ASSUME NEW k \in 1 .. n - 1
        PROVE  t[k] \in ToSet(s)
    <3>1. t[k] = s[k + 1] /\ k + 1 \in 1 .. n
      BY <1>4, <1>6
    <3> QED
      BY <1>5, <3>1
  <2>3. ToSet(t) \subseteq ToSet(s)
    BY <1>5, <2>2
  <2>4. \A k \in 1 .. n : k # 1 => s[k] = t[k - 1] /\ t[k - 1] \in ToSet(t)
    BY <1>4, <1>5, <1>7
  <2> QED
    BY <1>5, <2>1, <2>3, <2>4
<1> QED
  BY <1>2, <1>3, <1>4, <1>8

LEMMA NoMember == ToSet(<<>>) = {}
  BY DEF ToSet

(* What the list says, in terms of the set of its rows. *)
LEMMA Rows ==
  ASSUME NEW n \in Nat, list \in Seq(RowSet(n))
  PROVE  /\ ToSet(list) \subseteq RowSet(n)
         /\ DOMAIN list = 1 .. Len(list)
         /\ \A i \in DOMAIN list : list[i] \in ToSet(list)
         /\ \A r \in ToSet(list) : \E i \in DOMAIN list : list[i] = r
         /\ Listed = {r.entry : r \in ToSet(list)}
         /\ \A row : RowThere(row) <=> \E r \in ToSet(list) : r.row = row
         /\ Content \in Seq(Entries) /\ ToSet(Content) = Listed
<1>1. DOMAIN list = 1 .. Len(list) /\ \A i \in DOMAIN list : list[i] \in RowSet(n)
  OBVIOUS
<1>2. \A i \in DOMAIN list : list[i].entry \in Entries
  BY <1>1 DEF RowSet
<1>3. Content \in Seq(Entries)
  <2>1. Content = [i \in 1 .. Len(list) |-> list[i].entry]
    BY <1>1 DEF Content
  <2>2. Len(list) \in Nat
    OBVIOUS
  <2>3. Content \in [1 .. Len(list) -> Entries]
    BY <1>1, <1>2, <2>1
  <2> QED
    BY <2>2, <2>3, SeqDef
<1>4. ToSet(Content) = Listed
  <2>1. DOMAIN Content = DOMAIN list /\ \A i \in DOMAIN list : Content[i] = list[i].entry
    BY DEF Content
  <2> QED
    BY <2>1 DEF ToSet, Listed
<1>5. ToSet(list) \subseteq RowSet(n)
  BY <1>1 DEF ToSet
<1>6. Listed = {r.entry : r \in ToSet(list)}
  BY DEF ToSet, Listed
<1>7. \A row : RowThere(row) <=> \E r \in ToSet(list) : r.row = row
  BY DEF ToSet, RowThere
<1>8. /\ \A i \in DOMAIN list : list[i] \in ToSet(list)
      /\ \A r \in ToSet(list) : \E i \in DOMAIN list : list[i] = r
  BY DEF ToSet
<1> QED
  BY <1>1, <1>3, <1>4, <1>5, <1>6, <1>7, <1>8
-----------------------------------------------------------------------------
(* What a step does to the list. *)

(* Rows come in with an identity no row had before. *)
ListStep ==
  /\ lastRow' \in Nat /\ lastRow <= lastRow'
  /\ list' \in Seq(RowSet(lastRow'))
  /\ RowsApart'
  /\ \A r \in ToSet(list') : r \in ToSet(list) \/ r.row > lastRow

LEMMA Unlisted ==
  ASSUME Typed, RowsApart, list' = list, lastRow' = lastRow
  PROVE  ListStep
  BY DEF Typed, RowsApart, Distinct, ListStep, ToSet

LEMMA Emptied ==
  ASSUME Typed, list' = <<>>, lastRow' = lastRow
  PROVE  ListStep /\ ToSet(list') = {}
<1>1. list' \in Seq(RowSet(lastRow')) /\ ToSet(list') = {}
  BY DEF ToSet
<1>2. RowsApart'
  BY <1>1 DEF RowsApart, Distinct
<1> QED
  BY <1>1, <1>2 DEF ListStep, Typed

LEMMA RowAppended ==
  ASSUME Typed, RowsApart, NEW e \in Entries, AppendRow(e)
  PROVE  /\ ListStep
         /\ ToSet(list) \subseteq ToSet(list')
         /\ \A r \in ToSet(list') : r \in ToSet(list) \/ r.entry = e
         /\ \E r \in ToSet(list') : r.entry = e
<1>1. lastRow \in Nat /\ list \in Seq(RowSet(lastRow))
  BY DEF Typed
<1>2. /\ ToSet(list) \subseteq RowSet(lastRow)
      /\ Listed = {r.entry : r \in ToSet(list)}
  BY <1>1, Rows
<1>3. CASE e \in Listed
  <2>1. list' = list /\ lastRow' = lastRow
    BY <1>3 DEF AppendRow
  <2> QED
    BY <1>2, <1>3, <2>1, Unlisted
<1>4. CASE e \notin Listed
  <2>1. PICK x : x = [entry |-> e, row |-> lastRow + 1]
    OBVIOUS
  <2>2. lastRow' = lastRow + 1 /\ list' = Append(list, x)
    <3>1. lastRow' = lastRow + 1 /\ list' = Append(list, [entry |-> e, row |-> lastRow'])
      BY <1>4, Zenon DEF AppendRow
    <3> QED
      BY <2>1, <3>1, Zenon
  <2>3. x \in RowSet(lastRow + 1) /\ RowSet(lastRow) \subseteq RowSet(lastRow + 1)
    BY <1>1, <2>1 DEF RowSet
  <2>4. list \in Seq(RowSet(lastRow + 1))
    BY <1>1, <2>3, SeqMonotonic
  <2>5. \A r \in ToSet(list) : r.row # x.row /\ r.entry # x.entry
    BY <1>1, <1>2, <1>4, <2>1 DEF RowSet
  <2>6. x \notin ToSet(list)
    BY <2>5
  <2>7. /\ list' \in Seq(RowSet(lastRow')) /\ ToSet(list') = ToSet(list) \cup {x}
        /\ Distinct(list')
    <3>1. Appended(list', list, x)
      BY <2>2 DEF Appended
    <3> QED
      BY <2>2, <2>3, <2>4, <2>6, <3>1, AppendMember DEF RowsApart
  <2>8. RowsApart'
    BY <2>5, <2>7 DEF RowsApart
  <2>9. x.row > lastRow /\ x.entry = e
    BY <1>1, <2>1
  <2> QED
    BY <1>1, <2>2, <2>7, <2>8, <2>9 DEF ListStep
<1> QED
  BY <1>3, <1>4

LEMMA RowRemoved ==
  ASSUME Typed, RowsApart, NEW i \in DOMAIN list, RemoveRow(i), lastRow' = lastRow
  PROVE  ListStep /\ ToSet(list') = ToSet(list) \ {list[i]}
<1>1. lastRow \in Nat /\ list \in Seq(RowSet(lastRow)) /\ i \in 1 .. Len(list)
  BY DEF Typed
<1>2. /\ list' \in Seq(RowSet(lastRow')) /\ ToSet(list') = ToSet(list) \ {list[i]}
      /\ Distinct(list')
  BY <1>1, RemoveMember DEF RowsApart, RemoveRow
<1>3. RowsApart'
  BY <1>2 DEF RowsApart
<1> QED
  BY <1>1, <1>2, <1>3 DEF ListStep

LEMMA RowDragged ==
  ASSUME Typed, RowsApart, NEW i \in DOMAIN list, NEW to \in DOMAIN list, DragRow(i, to)
  PROVE  /\ ListStep
         /\ Listed' = Listed
<1>1. lastRow \in Nat /\ list \in Seq(RowSet(lastRow)) /\ DOMAIN list = 1 .. Len(list)
  BY DEF Typed
<1>2. PICK x : x = [list[i] EXCEPT !.row = lastRow + 1]
  OBVIOUS
<1>3. PICK rest : rest = RemoveAt(list, i)
  OBVIOUS
<1>4. list' = InsertAt(rest, to, x) /\ lastRow' = lastRow + 1
  BY <1>2, <1>3, Zenon DEF DragRow
<1>5. /\ ToSet(list) \subseteq RowSet(lastRow)
      /\ list[i] \in ToSet(list) /\ list[i] \in RowSet(lastRow)
      /\ Listed = {r.entry : r \in ToSet(list)}
  BY <1>1, Rows
<1>6. /\ x \in RowSet(lastRow + 1) /\ x.row = lastRow + 1 /\ x.entry = list[i].entry
      /\ RowSet(lastRow) \subseteq RowSet(lastRow + 1)
  BY SMTT(60), <1>1, <1>2, <1>5 DEF RowSet
<1>7. /\ rest \in Seq(RowSet(lastRow)) /\ Len(rest) = Len(list) - 1
      /\ ToSet(rest) = ToSet(list) \ {list[i]} /\ Distinct(rest)
  BY <1>1, <1>3, RemoveMember DEF RowsApart
<1>8. rest \in Seq(RowSet(lastRow + 1))
  BY <1>6, <1>7, SeqMonotonic
<1>9. \A r \in ToSet(list) : r.row # x.row
  BY <1>1, <1>5, <1>6 DEF RowSet
<1>10. to \in 1 .. Len(rest) + 1
  BY <1>1, <1>7
<1>11. /\ list' \in Seq(RowSet(lastRow')) /\ ToSet(list') = ToSet(rest) \cup {x}
       /\ Distinct(list')
  BY <1>4, <1>6, <1>7, <1>8, <1>9, <1>10, InsertMember
<1>12. \A r \in ToSet(rest) : r.entry # x.entry
  BY <1>5, <1>6, <1>7 DEF RowsApart
<1>13. RowsApart'
  BY <1>7, <1>9, <1>11, <1>12 DEF RowsApart
<1>14. ListStep
  BY <1>1, <1>4, <1>6, <1>7, <1>11, <1>13 DEF ListStep
<1>15. Listed' = {r.entry : r \in ToSet(list')}
  <2>1. lastRow' \in Nat /\ list' \in Seq(RowSet(lastRow'))
    BY <1>1, <1>4, <1>11
  <2> QED
    BY DEF Listed, ToSet
<1>16. Listed' = Listed
  BY <1>5, <1>6, <1>7, <1>11, <1>15
<1> QED
  BY <1>14, <1>16

LEMMA LoadedEntry ==
  ASSUME Typed, RowsApart, LoadEntry
  PROVE  /\ ListStep /\ Head(main.todo) \in Entries
         /\ main'.todo \in Seq(Entries)
         /\ ToSet(main.todo) = ToSet(main'.todo) \cup {Head(main.todo)}
         /\ ToSet(list) \subseteq ToSet(list')
         /\ \A r \in ToSet(list') : r \in ToSet(list) \/ r.entry = Head(main.todo)
         /\ \E r \in ToSet(list') : r.entry = Head(main.todo)
<1>1. main.todo \in Seq(Entries) /\ main.todo # <<>>
  BY DEF Typed, LoadEntry
<1>2. PICK e : e = Head(main.todo)
  OBVIOUS
<1>3. main'.todo = Tail(main.todo)
  BY DEF LoadEntry, Typed
<1>4. /\ e \in Entries /\ main'.todo \in Seq(Entries)
      /\ ToSet(main.todo) = ToSet(main'.todo) \cup {e}
  BY <1>1, <1>2, <1>3, TakeMember
<1>5. AppendRow(e)
  BY <1>2 DEF LoadEntry
<1> QED
  BY <1>2, <1>4, <1>5, RowAppended

(* The row a batch thread removes is the one it exported, unless that one  *)
(* is gone.                                                                *)
LEMMA BatchRemoved ==
  ASSUME Typed, RowsApart, NEW t \in BatchThreads, BatchRemove(t)
  PROVE  /\ ListStep
         /\ RowThere(batch[t].row) =>
              \E r \in ToSet(list) : r.row = batch[t].row
                                     /\ ToSet(list') = ToSet(list) \ {r}
<1>1. lastRow' = lastRow
  BY DEF BatchRemove
<1>2. lastRow \in Nat /\ list \in Seq(RowSet(lastRow))
  BY DEF Typed
<1>3. \A i \in DOMAIN list : list[i] \in ToSet(list)
  BY <1>2, Rows
<1>4. CASE RowThere(batch[t].row)
  <2>1. PICK i \in DOMAIN list : list[i].row = batch[t].row /\ RemoveRow(i)
    BY <1>4 DEF BatchRemove
  <2> QED
    BY <1>1, <1>3, <2>1, RowRemoved
<1>5. CASE ~ RowThere(batch[t].row)
  <2>1. list' = list \/ \E i \in DOMAIN list : RemoveRow(i)
    BY <1>5 DEF BatchRemove
  <2> QED
    BY <1>1, <1>5, <2>1, RowRemoved, Unlisted
<1> QED
  BY <1>4, <1>5
-----------------------------------------------------------------------------
(* What a step leaves alone. *)

LEMMA BatchFrame ==
  ASSUME NEW t \in BatchThreads, BatchStep(t)
  PROVE  /\ UNCHANGED <<queueLock, main, jobVars, crashes, lastRow, cut>>
         /\ ops' = ops \/ ops' = ops + 1
         /\ BatchRemove(t) \/ UNCHANGED list
<1> USE DEF BatchUnchanged, Counted, Written, bounds, locks
<1>1. CASE BatchStart(t) \/ BatchTop(t) \/ BatchPending(t) \/ BatchLoad(t)
  BY <1>1, Zenon DEF BatchStart, BatchTop, BatchPending, BatchLoad, history
<1>2. CASE BatchPreview(t) \/ BatchSaving(t) \/ BatchOutput(t)
  BY <1>2, Zenon DEF BatchPreview, BatchSaving, BatchOutput, history
<1>3. CASE BatchExported(t) \/ BatchFailed(t) \/ BatchRemove(t) \/ BatchSave(t)
  BY <1>3, Zenon DEF BatchExported, BatchFailed, BatchRemove, BatchSave, history
<1>4. CASE BatchFinish(t) \/ BatchEnd(t)
  BY <1>4, Zenon DEF BatchFinish, BatchEnd, history
<1> QED
  BY <1>1, <1>2, <1>3, <1>4 DEF BatchStep

LEMMA WorkerFrame ==
  ASSUME NEW w \in Workers, WorkerStep(w)
  PROVE  UNCHANGED <<gdk, list, lastRow, file, process, batch, main, bounds, history>>
<1> USE DEF JobUnchanged, Pass, batchVars, locks
<1>1. CASE TakeJob(w) \/ LockQueue(w) \/ AddSlot(w) \/ Describe(w)
  BY <1>1, Zenon DEF TakeJob, LockQueue, AddSlot, Describe
<1>2. CASE Show(w) \/ Output(w) \/ RemoveSlot(w)
  BY <1>2, Zenon DEF Show, Output, RemoveSlot
<1> QED
  BY <1>1, <1>2 DEF WorkerStep

LEMMA ListSteps ==
  ASSUME Typed, RowsApart, Next
  PROVE  ListStep
<1>1. CASE list' = list /\ lastRow' = lastRow
  BY <1>1, Unlisted
<1>2. ASSUME NEW e \in Entries, AddToQueue(e) \/ RemoveFromQueue(e)
      PROVE  ListStep
  <2>1. CASE AddToQueue(e)
    BY <2>1, RowAppended DEF AddToQueue
  <2>2. CASE RemoveFromQueue(e)
    BY <1>1, <2>2, RowRemoved DEF RemoveFromQueue
  <2> QED
    BY <1>2, <2>1, <2>2
<1>3. ASSUME NEW i \in DOMAIN list, NEW to \in DOMAIN list, DragRow(i, to)
      PROVE  ListStep
  BY <1>3, RowDragged
<1>4. CASE RemoveAll
  BY <1>4, Emptied DEF RemoveAll
<1>5. CASE ProcessBatch \/ \E t \in BatchThreads : Cancel(t)
  BY <1>1, <1>5 DEF ProcessBatch, Cancel
<1>6. CASE \E j \in Jobs : SaveClicked(j)
  BY <1>1, <1>6 DEF SaveClicked, batchVars
<1>7. CASE SaveQueue \/ LoadSave \/ Loaded \/ AddJob
  BY <1>1, <1>7 DEF SaveQueue, LoadSave, Loaded, AddJob, batchVars
<1>8. CASE LoadEntry
  BY <1>8, LoadedEntry
<1>9. CASE Restart
  BY <1>9, Emptied DEF Restart
<1>10. ASSUME NEW t \in BatchThreads, BatchStep(t) PROVE ListStep
  BY <1>1, <1>10, BatchFrame, BatchRemoved
<1>11. ASSUME NEW w \in Workers, WorkerStep(w) PROVE ListStep
  BY <1>1, <1>11, WorkerFrame
<1> QED
  BY <1>2, <1>3, <1>4, <1>5, <1>6, <1>7, <1>8, <1>9, <1>10, <1>11
     DEF Next, UserStep, MainStep
-----------------------------------------------------------------------------
(* The types *)

LEMMA ContentType == Typed => Content \in Seq(Entries)
  BY Rows DEF Typed

LEMMA WrittenType ==
  ASSUME Typed, Written
  PROVE  (file = Torn \/ file \in Seq(Entries))' /\ unsaved' \in BOOLEAN /\ ops' \in Nat
<1>1. CASE file' = Content /\ unsaved' = FALSE /\ UNCHANGED ops
  BY <1>1, ContentType DEF Typed
<1>2. CASE file' = Torn /\ UNCHANGED unsaved /\ Counted
  BY <1>2 DEF Typed, Counted
<1> QED
  BY <1>1, <1>2 DEF Written

LockType == /\ gdk \in [owner : Threads \cup {None}, depth : {0, 1}]
            /\ gdk.owner = None <=> gdk.depth = 0

ThreadType ==
  batch \in [BatchThreads -> [at : BatchAt, row : Nat, entry : Entries \cup {None},
                             left : Nat, abort : BOOLEAN]]

LEMMA StepType ==
  ASSUME Typed, NEW t \in BatchThreads, NEW at \in BatchAt, Step(t, at)
  PROVE  ThreadType'
  BY ZenonT(60) DEF Typed, Step, ThreadType

LEMMA WorkerStepType ==
  ASSUME Typed, NEW w \in Workers, NEW at \in WorkAt, JobStep(w, at)
  PROVE  work' \in [Workers -> [at : WorkAt, job : Jobs \cup {None}]]
  BY DEF Typed, JobStep

LEMMA RestType ==
  /\ Rest \in [at : MainAt, job : Jobs \cup {None}, todo : Seq(Entries)]
  /\ Rest.at = "idle" /\ Rest.job = None /\ Rest.todo = <<>>
  BY DEF Rest, MainAt

LEMMA CancelType ==
  ASSUME Typed, NEW t \in BatchThreads, batch' = [batch EXCEPT ![t].abort = TRUE]
  PROVE  ThreadType'
  BY ZenonT(60) DEF Typed, ThreadType

LEMMA MainEnters ==
  ASSUME Typed, GdkHeld, main.at = "idle", Enter(Main)
  PROVE  LockType' /\ gdk.owner = None /\ gdk'.owner = Main
<1>1. gdk.owner = None /\ gdk.depth = 0
  BY DEF Enter, CanEnter, GdkHeld, Typed
<1>2. gdk' = [owner |-> Main, depth |-> 1]
  BY <1>1 DEF Enter, Entered
<1> QED
  BY <1>1, <1>2, ExportAssumption DEF LockType, Threads

LEMMA ThreadLeaves ==
  ASSUME Typed, NEW t \in Threads, Leave(t)
  PROVE  LockType' /\ gdk'.owner # t /\ (gdk.owner # t => gdk' = gdk)
                   /\ (gdk.owner = t => gdk'.owner = None)
<1>1. gdk \in [owner : Threads \cup {None}, depth : {0, 1}]
      /\ (gdk.owner = None <=> gdk.depth = 0) /\ t # None
  BY ExportAssumption DEF Typed
<1>2. CASE gdk.owner # t
  <2>1. gdk' = gdk
    BY <1>2 DEF Leave, Left
  <2> QED
    BY <1>1, <1>2, <2>1 DEF LockType
<1>3. CASE gdk.owner = t
  <2>1. gdk' = Free
    BY <1>1, <1>3 DEF Leave, Left
  <2> QED
    BY <1>1, <1>3, <2>1 DEF Free, LockType
<1> QED
  BY <1>2, <1>3

LEMMA TypedUser ==
  ASSUME Typed, GdkHeld, ListStep, UserStep
  PROVE  Typed'
<1> USE DEF Handler
<1>0. ASSUME Counted PROVE ops' \in Nat
  BY <1>0 DEF Counted, Typed
<1>1. ASSUME Changes, owed' \subseteq Entries, dropped' \subseteq Entries PROVE Typed'
  <2>0. \/ /\ Opened /\ Enter(Main) /\ main' = [Rest EXCEPT !.at = "save"]
        \/ NoWriter /\ Pass(Main) /\ UNCHANGED main
    BY <1>1 DEF Changes
  <2>1. LockType'
    BY <1>1, <2>0, MainEnters DEF Changes, Pass, LockType, Typed
  <2>2. stale' \in BOOLEAN
    BY <1>1, Zenon DEF Changes, Typed
  <2>3. main' \in [at : MainAt, job : Jobs \cup {None}, todo : Seq(Entries)]
    BY <2>0, RestType DEF MainAt, Typed
  <2>4. (file = Torn \/ file \in Seq(Entries))' /\ unsaved' \in BOOLEAN
    BY <2>0 DEF Opened, NoWriter, Typed
  <2>5. ops' \in Nat
    BY <1>0, <1>1 DEF Changes
  <2> QED
    BY <1>1, <2>1, <2>2, <2>3, <2>4, <2>5 DEF Changes, jobVars, LockType, Typed, ListStep
<1>2. ASSUME NEW e \in Entries, AddToQueue(e) PROVE Typed'
  BY <1>1, <1>2 DEF AddToQueue, Typed
<1>3. ASSUME NEW e \in Entries, RemoveFromQueue(e) PROVE Typed'
  BY <1>1, <1>3 DEF RemoveFromQueue, Typed
<1>4. CASE RemoveAll
  BY <1>1, <1>4 DEF RemoveAll, Typed
<1>5. ASSUME NEW i \in DOMAIN list, NEW to \in DOMAIN list, DragRow(i, to) PROVE Typed'
  <2>1. stale' \in BOOLEAN
    BY <1>5, Zenon DEF DragRow, Typed
  <2> QED
    BY <1>0, <1>5, <2>1 DEF DragRow, locks, jobVars, Typed, ListStep
<1>6. CASE ProcessBatch
  <2>1. ThreadType'
    <3>2. CASE Starts
      <4>1. PICK t : Step(t, "start")
        BY <3>2 DEF Starts, Step
      <4>2. CASE t \in BatchThreads
        BY <4>1, <4>2, StepType DEF BatchAt
      <4>3. CASE t \notin BatchThreads
        <5>1. batch' = batch
          <6>1. DOMAIN batch = BatchThreads
            BY DEF Typed
          <6> QED
            BY <4>1, <4>3, <6>1 DEF Step, Typed
        <5> QED
          BY <5>1 DEF ThreadType, Typed
      <4> QED
        BY <4>2, <4>3
    <3>3. CASE ~ Starts
      BY <1>6, <3>3 DEF ProcessBatch, ThreadType, Typed
    <3> QED
      BY <3>2, <3>3
  <2>2. process' \in BOOLEAN
    BY <1>6 DEF ProcessBatch, Starts, Typed
  <2> QED
    BY <1>0, <1>6, <2>1, <2>2
       DEF ProcessBatch, locks, jobVars, ThreadType, Typed, ListStep
<1>7. ASSUME NEW t \in BatchThreads, Cancel(t) PROVE Typed'
  <2>1. ThreadType'
    BY <1>7, CancelType DEF Cancel
  <2> QED
    BY <1>0, <1>7, <2>1 DEF Cancel, locks, jobVars, ThreadType, Typed, ListStep
<1>8. ASSUME NEW j \in Jobs, SaveClicked(j) PROVE Typed'
  <2>1. LockType'
    BY <1>8, MainEnters DEF SaveClicked
  <2>2. main' \in [at : MainAt, job : Jobs \cup {None}, todo : Seq(Entries)]
    BY <1>8, RestType DEF SaveClicked, MainAt
  <2> QED
    BY <1>0, <1>8, <2>1, <2>2
       DEF SaveClicked, jobVars, batchVars, LockType, Typed, ListStep
<1> QED
  BY <1>2, <1>3, <1>4, <1>5, <1>6, <1>7, <1>8 DEF UserStep

LEMMA RestartMain ==
  ASSUME Typed, Restart
  PROVE  /\ main' \in [at : MainAt, job : Jobs \cup {None}, todo : Seq(Entries)]
         /\ main'.at = "load" /\ main'.job = None
         /\ main'.todo = IF file = Torn THEN <<>> ELSE file
<1>1. PICK todo : todo = IF file = Torn THEN <<>> ELSE file
  OBVIOUS
<1>2. PICK load : load = [Rest EXCEPT !.at = "load"]
  OBVIOUS
<1>3. main' = [load EXCEPT !.todo = todo]
  BY <1>1, <1>2, Zenon DEF Restart
<1>4. todo \in Seq(Entries)
  BY <1>1 DEF Typed
<1>5. /\ load \in [at : MainAt, job : Jobs \cup {None}, todo : Seq(Entries)]
      /\ load.at = "load" /\ load.job = None
  BY <1>2, RestType DEF MainAt
<1> QED
  BY <1>1, <1>3, <1>4, <1>5

LEMMA RestartRest ==
  ASSUME Restart
  PROVE  /\ gdk' = Free /\ queueLock' = None /\ list' = <<>> /\ process' = FALSE
         /\ batch' = [t \in BatchThreads |-> Off]
         /\ pool' = <<>> /\ work' = [w \in Workers |-> Lazy] /\ slots' = 0
         /\ crashes' = crashes + 1
         /\ UNCHANGED <<lastRow, file, ops, owed, dropped, unsaved, again, stale>>
  BY Zenon DEF Restart

LEMMA TypedMain ==
  ASSUME Typed, GdkHeld, MainAtWork, RowsApart, ListStep, MainStep \/ Restart
  PROVE  Typed'
<1>1. CASE SaveQueue
  <2>1. LockType'
    BY <1>1, ThreadLeaves, ExportAssumption DEF SaveQueue, Threads
  <2> QED
    BY <1>1, <2>1, WrittenType, RestType
       DEF SaveQueue, jobVars, MainAt, Typed, ListStep, LockType
<1>2. CASE LoadEntry
  <2>1. \/ /\ Opened /\ UNCHANGED ops
           /\ main' = [main EXCEPT !.at = "load_save", !.todo = Tail(@)]
        \/ /\ NoWriter /\ Counted
           /\ main' = [main EXCEPT !.todo = Tail(@)]
    BY <1>2 DEF LoadEntry
  <2>2. (file = Torn \/ file \in Seq(Entries))' /\ unsaved' \in BOOLEAN /\ ops' \in Nat
    <3>1. CASE Opened /\ UNCHANGED ops
      BY <3>1 DEF Opened, Typed
    <3>2. CASE NoWriter /\ Counted
      BY <3>2 DEF NoWriter, Counted, Typed
    <3> QED
      BY <2>1, <3>1, <3>2
  <2>3. main' \in [at : MainAt, job : Jobs \cup {None}, todo : Seq(Entries)]
    <3>1. main'.todo \in Seq(Entries)
      BY <1>2, LoadedEntry
    <3> QED
      BY <2>1, <3>1 DEF MainAt, Typed
  <2> QED
    BY <1>2, <2>2, <2>3 DEF LoadEntry, locks, jobVars, Typed, ListStep
<1>3. CASE LoadSave
  BY <1>3, WrittenType DEF LoadSave, locks, jobVars, MainAt, Typed, ListStep
<1>4. CASE Loaded
  BY <1>4, RestType
     DEF Loaded, locks, batchVars, jobVars, bounds, history, MainAt, Typed, ListStep
<1>5. CASE AddJob
  <2>1. LockType'
    BY <1>5, ThreadLeaves, ExportAssumption DEF AddJob, Threads
  <2>2. pool' \in Seq(Jobs)
    <3>1. main.job \in Jobs /\ pool \in Seq(Jobs)
      BY <1>5 DEF AddJob, MainAtWork, Typed
    <3>2. pool' = Append(pool, main.job)
      BY <1>5 DEF AddJob
    <3> QED
      BY <3>1, <3>2, AppendProperties
  <2> QED
    BY <1>5, <2>1, <2>2, RestType
       DEF AddJob, batchVars, bounds, history, MainAt, Typed, ListStep, LockType
<1>6. CASE Restart
  <2>1. LockType' /\ ThreadType'
    BY <1>6 DEF Restart, LockType, ThreadType, Free, Off, BatchAt, Threads
  <2>2. main' \in [at : MainAt, job : Jobs \cup {None}, todo : Seq(Entries)]
    BY <1>6, RestartMain
  <2>3. cut' \in BOOLEAN
    BY <1>6, Zenon DEF Restart, Typed
  <2>4. work' \in [Workers -> [at : WorkAt, job : Jobs \cup {None}]]
    BY <1>6 DEF Restart, Lazy, WorkAt
  <2> QED
    BY <1>6, <2>1, <2>2, <2>3, <2>4, RestartRest DEF LockType, ThreadType, Typed, ListStep
<1> QED
  BY <1>1, <1>2, <1>3, <1>4, <1>5, <1>6 DEF MainStep

LEMMA TypedBatch ==
  ASSUME Typed, GdkHeld, RowTaken, ListStep, NEW t \in BatchThreads, BatchStep(t)
  PROVE  Typed'
<1> USE DEF LockType, ThreadType
<1>1. UNCHANGED <<queueLock, main, jobVars, crashes, lastRow, cut>> /\ (ops' = ops \/ ops' = ops + 1)
  BY BatchFrame
<1>2. LockType'
  <2> USE ExportAssumption DEF Typed, Threads
  <2>1. CASE UNCHANGED gdk
    BY <2>1
  <2>2. CASE Enter(t) /\ ~ (gdk.owner = t)
    BY <2>2 DEF Enter, CanEnter, Entered
  <2>3. CASE Leave(t)
    BY <2>3 DEF Leave, Left, Free
  <2>4. CASE BatchStart(t) \/ BatchExported(t) \/ BatchFailed(t)
    BY <2>2, <2>4 DEF BatchStart, BatchExported, BatchFailed, GdkHeld
  <2>5. CASE BatchTop(t) \/ BatchFinish(t)
    BY <2>1, <2>3, <2>5 DEF BatchTop, BatchFinish
  <2>6. CASE BatchPending(t) \/ BatchLoad(t) \/ BatchPreview(t) \/ BatchSaving(t)
             \/ BatchOutput(t) \/ BatchRemove(t) \/ BatchSave(t) \/ BatchEnd(t)
    BY <2>1, <2>6, Zenon
       DEF locks, BatchPending, BatchLoad, BatchPreview, BatchSaving, BatchOutput,
           BatchRemove, BatchSave, BatchEnd, Pass
  <2> QED
    BY <2>4, <2>5, <2>6 DEF BatchStep
<1>3. ThreadType'
  <2>1. ThreadType
    BY DEF Typed
  <2>2. ASSUME NEW at \in BatchAt, Step(t, at) PROVE ThreadType'
    BY <2>2, StepType
  <2>3. CASE BatchTop(t) /\ list # <<>> /\ batch[t].abort = FALSE
    <3>1. Head(list) \in RowSet(lastRow) /\ Len(list) \in Nat
      BY <2>3 DEF Typed
    <3>2. Head(list).row \in Nat /\ Head(list).entry \in Entries
      BY <3>1 DEF RowSet, Typed
    <3> QED
      BY <2>1, <2>3, <3>1, <3>2 DEF BatchTop, BatchAt
  <2>4. CASE BatchTop(t) /\ ~ (list # <<>> /\ batch[t].abort = FALSE)
    <3>1. batch[t].abort \in BOOLEAN
      BY <2>1
    <3>2. Step(t, "finish")
      BY <2>4, <3>1 DEF BatchTop
    <3> QED
      BY <2>2, <3>2 DEF BatchAt
  <2>5. CASE BatchEnd(t)
    BY <2>1, <2>5 DEF BatchEnd, Off, BatchAt
  <2>6. CASE BatchStart(t) \/ BatchPending(t) \/ BatchLoad(t) \/ BatchPreview(t)
    BY <2>2, <2>6 DEF BatchStart, BatchPending, BatchLoad, BatchPreview, BatchAt
  <2>7. CASE BatchSaving(t) \/ BatchOutput(t) \/ BatchExported(t) \/ BatchFailed(t)
    BY <2>2, <2>7 DEF BatchSaving, BatchOutput, BatchExported, BatchFailed, BatchAt
  <2>8. CASE BatchRemove(t) \/ BatchSave(t) \/ BatchFinish(t)
    BY <2>2, <2>8 DEF BatchRemove, BatchSave, BatchFinish, BatchAt
  <2> QED
    BY <2>3, <2>4, <2>5, <2>6, <2>7, <2>8 DEF BatchStep
<1>4. (file = Torn \/ file \in Seq(Entries))' /\ process' \in BOOLEAN /\ unsaved' \in BOOLEAN
  <2> USE DEF Typed
  <2>1. CASE BatchRemove(t)
    BY <2>1 DEF BatchRemove, Opened, NoWriter
  <2>2. CASE BatchSave(t)
    BY <2>2, WrittenType DEF BatchSave
  <2>3. CASE BatchEnd(t)
    BY <2>3 DEF BatchEnd, history
  <2>4. CASE BatchStart(t) \/ BatchTop(t) \/ BatchPending(t) \/ BatchLoad(t) \/ BatchPreview(t)
    BY <2>4 DEF BatchStart, BatchTop, BatchPending, BatchLoad, BatchPreview, history
  <2>5. CASE BatchSaving(t) \/ BatchOutput(t) \/ BatchExported(t) \/ BatchFailed(t)
             \/ BatchFinish(t)
    BY <2>5 DEF BatchSaving, BatchOutput, BatchExported, BatchFailed, BatchFinish, history
  <2> QED
    BY <2>1, <2>2, <2>3, <2>4, <2>5 DEF BatchStep
<1>5. owed' \subseteq Entries /\ dropped' \subseteq Entries
  <2>1. owed' \subseteq owed
    BY DEF BatchStep, BatchStart, BatchTop, BatchPending, BatchLoad, BatchPreview,
           BatchSaving, BatchOutput, BatchExported, BatchFailed, BatchRemove, BatchSave,
           BatchFinish, BatchEnd, history
  <2>2. dropped' = dropped \/ (BatchLoad(t) /\ dropped' = dropped \cup {batch[t].entry})
    BY DEF BatchStep, BatchStart, BatchTop, BatchPending, BatchLoad, BatchPreview,
           BatchSaving, BatchOutput, BatchExported, BatchFailed, BatchRemove, BatchSave,
           BatchFinish, BatchEnd, history
  <2>3. BatchLoad(t) => batch[t].entry \in Entries
    BY DEF BatchLoad, RowTaken, AtRow
  <2> QED
    BY <2>1, <2>2, <2>3 DEF Typed
<1>6. stale' \in BOOLEAN /\ again' \in BOOLEAN
  <2>1. /\ stale' \in BOOLEAN
    BY Zenon DEF BatchStep, BatchStart, BatchTop, BatchPending, BatchLoad, BatchPreview,
           BatchSaving, BatchOutput, BatchExported, BatchFailed, BatchRemove, BatchSave,
           BatchFinish, BatchEnd, history, Typed
  <2>2. again' \in BOOLEAN
    BY Zenon DEF BatchStep, BatchStart, BatchTop, BatchPending, BatchLoad, BatchPreview,
           BatchSaving, BatchOutput, BatchExported, BatchFailed, BatchRemove, BatchSave,
           BatchFinish, BatchEnd, history, Typed
  <2> QED
    BY <2>1, <2>2
<1> QED
  BY <1>1, <1>2, <1>3, <1>4, <1>5, <1>6 DEF Typed, ListStep, jobVars

LEMMA TypedWorker ==
  ASSUME Typed, SlotsHeld, NEW w \in Workers, WorkerStep(w), slots' \in Nat
  PROVE  Typed'
<1>1. UNCHANGED <<gdk, list, lastRow, file, process, batch, main, bounds, history>>
  BY WorkerFrame
<1>2. work' \in [Workers -> [at : WorkAt, job : Jobs \cup {None}]]
  <2>1. CASE TakeJob(w)
    <3>1. Head(pool) \in Jobs
      BY <2>1 DEF TakeJob, Typed
    <3>2. [at |-> "slot", job |-> Head(pool)] \in [at : WorkAt, job : Jobs \cup {None}]
      BY <3>1 DEF WorkAt
    <3> QED
      BY <2>1, <3>2 DEF TakeJob, Typed
  <2>2. CASE RemoveSlot(w)
    BY <2>2 DEF RemoveSlot, Lazy, WorkAt, Typed
  <2>3. ASSUME NEW at \in WorkAt, JobStep(w, at)
        PROVE  work' \in [Workers -> [at : WorkAt, job : Jobs \cup {None}]]
    BY <2>3, WorkerStepType
  <2>4. CASE LockQueue(w)
    <3>1. JobStep(w, "add_slot") \/ JobStep(w, "remove_slot")
      BY <2>4 DEF LockQueue
    <3> QED
      BY <2>3, <3>1 DEF WorkAt
  <2>5. CASE AddSlot(w) \/ Describe(w)
    BY <2>3, <2>5 DEF AddSlot, Describe, WorkAt
  <2>6. CASE Show(w)
    <3>1. JobStep(w, "output") \/ JobStep(w, "progress") \/ JobStep(w, "destroy")
          \/ JobStep(w, "unslot")
      BY <2>6 DEF Show
    <3> QED
      BY <2>3, <3>1 DEF WorkAt
  <2>7. CASE Output(w)
    BY <2>3, <2>7 DEF Output, WorkAt
  <2> QED
    BY <2>1, <2>2, <2>4, <2>5, <2>6, <2>7 DEF WorkerStep
<1>3. pool' \in Seq(Jobs) /\ queueLock' \in Workers \cup {None}
  <2>1. CASE TakeJob(w)
    BY <2>1 DEF TakeJob, locks, Typed
  <2>2. CASE LockQueue(w) \/ AddSlot(w) \/ Describe(w)
    BY <2>2 DEF LockQueue, AddSlot, Describe, Typed
  <2>3. CASE Show(w) \/ Output(w) \/ RemoveSlot(w)
    BY <2>3 DEF Show, Output, RemoveSlot, locks, Typed
  <2> QED
    BY <2>1, <2>2, <2>3 DEF WorkerStep
<1> QED
  BY <1>1, <1>2, <1>3 DEF bounds, history, Typed
-----------------------------------------------------------------------------
(* Who has the gdk lock, and which threads there are *)

Working == GdkHeld /\ MainAtWork /\ OneThread

LEMMA WorkingKept ==
  ASSUME Typed, Working, UNCHANGED <<gdk, main, process, batch, crashes>>
  PROVE  Working'
  BY DEF Working, GdkHeld, MainAtWork, OneThread, Loading

LEMMA WorkingUser ==
  ASSUME Typed, Working, UserStep
  PROVE  Working'
<1>1. GdkHeld /\ MainAtWork /\ OneThread
  BY DEF Working
<1>2. ASSUME Changes PROVE Working'
  <2>1. main.at = "idle" /\ UNCHANGED <<process, batch, crashes>>
    BY <1>2 DEF Changes, Handler
  <2>2. CASE NoWriter /\ Pass(Main) /\ UNCHANGED main
    BY <2>1, <2>2, WorkingKept DEF Pass
  <2>3. CASE Enter(Main) /\ main' = [Rest EXCEPT !.at = "save"]
    <3>1. gdk'.owner = Main /\ main'.at = "save" /\ main'.todo = <<>> /\ gdk.owner = None
      BY <1>1, <2>1, <2>3, MainEnters, RestType
    <3> QED
      BY <1>1, <2>1, <3>1, ExportAssumption
         DEF Working, GdkHeld, MainAtWork, OneThread, Loading
  <2> QED
    BY <1>2, <2>2, <2>3 DEF Changes
<1>3. ASSUME NEW e \in Entries, AddToQueue(e) \/ RemoveFromQueue(e) PROVE Working'
  BY <1>2, <1>3 DEF AddToQueue, RemoveFromQueue
<1>4. CASE RemoveAll
  BY <1>2, <1>4 DEF RemoveAll
<1>5. ASSUME NEW i \in DOMAIN list, NEW to \in DOMAIN list, DragRow(i, to) PROVE Working'
  BY <1>5, WorkingKept DEF DragRow, Handler, locks
<1>6. CASE ProcessBatch
  <2>1. main.at = "idle" /\ UNCHANGED <<gdk, main, crashes>>
    BY <1>6 DEF ProcessBatch, Handler, locks
  <2>2. CASE process = TRUE
    BY <1>6, <2>1, <2>2, WorkingKept DEF ProcessBatch
  <2>3. CASE process = FALSE
    <3>1. \A t \in BatchThreads : batch[t] = Off
      BY <1>1, <2>3 DEF OneThread
    <3>2. CASE BatchThreads = {}
      BY <1>1, <2>1, <3>2 DEF Working, GdkHeld, MainAtWork, OneThread, Loading
    <3>3. CASE BatchThreads # {}
      <4>1. process' = TRUE /\ \E t \in BatchThreads : batch' = [batch EXCEPT ![t].at = "start"]
        <5>1. Starts
          BY <1>6, <2>3 DEF ProcessBatch
        <5>2. (CHOOSE t \in BatchThreads : batch[t] = Off) \in BatchThreads
          BY <3>1, <3>3
        <5> QED
          BY <5>1, <5>2 DEF Starts
      <4>2. PICK t \in BatchThreads : batch' = [batch EXCEPT ![t].at = "start"]
        BY <4>1
      <4>3. \A u \in BatchThreads : u # t => batch'[u] = Off
        BY <3>1, <4>2 DEF Typed
      <4>4. OneThread'
        BY <4>1, <4>3 DEF OneThread
      <4>5. gdk.owner \notin BatchThreads
        <5>1. \A u \in BatchThreads : batch[u].at = "off"
          BY <3>1 DEF Off
        <5> QED
          BY <1>1, <5>1 DEF GdkHeld
      <4>6. GdkHeld' /\ MainAtWork'
        BY <1>1, <2>1, <4>5, Zenon DEF GdkHeld, MainAtWork, Loading
      <4> QED
        BY <4>4, <4>6 DEF Working
    <3> QED
      BY <3>2, <3>3
  <2> QED
    BY <2>2, <2>3 DEF Typed
<1>7. ASSUME NEW t \in BatchThreads, Cancel(t) PROVE Working'
  <2>1. main.at = "idle" /\ gdk.owner = None /\ UNCHANGED <<gdk, main, crashes, process>>
    BY <1>7 DEF Cancel, Handler, locks
  <2>2. batch[t] # Off /\ batch' = [batch EXCEPT ![t].abort = TRUE]
    BY <1>7 DEF Cancel, Off
  <2>3. \A u \in BatchThreads : batch'[u] # Off => batch[u] # Off
    BY <2>2 DEF Typed
  <2>4. OneThread'
    BY <1>1, <2>1, <2>3 DEF OneThread
  <2>5. GdkHeld' /\ MainAtWork'
    BY <1>1, <2>1, ExportAssumption DEF GdkHeld, MainAtWork, Loading, Threads
  <2> QED
    BY <2>4, <2>5 DEF Working
<1>8. ASSUME NEW j \in Jobs, SaveClicked(j) PROVE Working'
  <2>1. gdk'.owner = Main /\ main'.at = "add_job" /\ main'.todo = <<>> /\ main'.job = j
        /\ UNCHANGED <<process, batch, crashes>>
    BY <1>1, <1>8, MainEnters, RestType DEF SaveClicked, Handler, batchVars
  <2> QED
    BY <1>1, <2>1, ExportAssumption DEF Working, GdkHeld, MainAtWork, OneThread, Loading
<1> QED
  BY <1>3, <1>4, <1>5, <1>6, <1>7, <1>8 DEF UserStep

LEMMA WorkingMain ==
  ASSUME Typed, Working, MainStep \/ Restart
  PROVE  Working'
<1>1. GdkHeld /\ MainAtWork /\ OneThread
  BY DEF Working
<1>2. CASE SaveQueue \/ AddJob
  <2>1. gdk.owner = Main /\ Leave(Main) /\ main' = Rest
        /\ UNCHANGED <<process, batch, crashes>>
    <3>1. CASE SaveQueue
      BY <1>1, <3>1 DEF SaveQueue, GdkHeld, bounds
    <3>2. CASE AddJob
      BY <1>1, <3>2 DEF AddJob, GdkHeld, batchVars, bounds
    <3> QED
      BY <1>2, <3>1, <3>2
  <2>2. gdk'.owner = None
    BY <2>1, ThreadLeaves DEF Threads
  <2>3. main'.at = "idle" /\ main'.todo = <<>>
    BY <2>1, RestType
  <2>4. None # Main /\ None \notin Workers /\ None \notin BatchThreads
    BY ExportAssumption DEF Threads
  <2>5. GdkHeld'
    BY <2>2, <2>3, <2>4 DEF GdkHeld
  <2>6. MainAtWork'
    BY <2>3 DEF MainAtWork, Loading
  <2>7. OneThread'
    BY <1>1, <2>1, Zenon DEF OneThread
  <2> QED
    BY <2>5, <2>6, <2>7 DEF Working
<1>3. CASE LoadEntry
  <2>1. Loading /\ main'.at \in {"load", "load_save"}
        /\ UNCHANGED <<gdk, process, batch, crashes>>
    BY <1>3 DEF LoadEntry, Loading, locks, Typed
  <2> QED
    BY <1>1, <2>1 DEF Working, GdkHeld, MainAtWork, OneThread, Loading
<1>4. CASE LoadSave
  <2>1. Loading /\ main'.at = "load"
        /\ UNCHANGED <<gdk, process, batch, crashes>>
    BY <1>4 DEF LoadSave, Loading, locks, Typed
  <2> QED
    BY <1>1, <2>1 DEF Working, GdkHeld, MainAtWork, OneThread, Loading
<1>5. CASE Loaded
  <2>1. main.at = "load" /\ main' = Rest /\ UNCHANGED <<gdk, process, batch, crashes>>
    BY <1>5 DEF Loaded, locks, batchVars, bounds
  <2> QED
    BY <1>1, <2>1, RestType DEF Working, GdkHeld, MainAtWork, OneThread, Loading
<1>6. CASE Restart
  <2>1. gdk'.owner = None /\ main'.at = "load" /\ crashes' > 0
        /\ \A t \in BatchThreads : batch'[t] = Off
    BY <1>6, RestartMain, RestartRest DEF Free, Typed
  <2> QED
    BY <2>1, ExportAssumption
       DEF Working, GdkHeld, MainAtWork, OneThread, Loading, Threads, Off
<1> QED
  BY <1>2, <1>3, <1>4, <1>5, <1>6 DEF MainStep

LEMMA WorkingBatch ==
  ASSUME Typed, Working, NEW t \in BatchThreads, BatchStep(t)
  PROVE  Working'
<1>1. GdkHeld /\ MainAtWork /\ OneThread
  BY DEF Working
<1>2. UNCHANGED <<main, crashes>>
  BY BatchFrame
<1>3. batch[t] # Off
  BY DEF BatchStep, BatchStart, BatchTop, BatchPending, BatchLoad, BatchPreview,
         BatchSaving, BatchOutput, BatchExported, BatchFailed, BatchRemove, BatchSave,
         BatchFinish, BatchEnd, Off
<1>4. MainAtWork'
  BY <1>1, <1>2, <1>3 DEF MainAtWork, Loading
<1>5. \A u \in BatchThreads : u # t => batch'[u] = batch[u]
  <2>1. ASSUME NEW at, Step(t, at) PROVE \A u \in BatchThreads : u # t => batch'[u] = batch[u]
    BY <2>1 DEF Step, Typed
  <2>2. CASE BatchTop(t) \/ BatchEnd(t)
    <3>1. CASE \E at : Step(t, at)
      BY <2>1, <3>1
    <3>2. CASE ~ \E at : Step(t, at)
      BY <2>2, <3>2 DEF BatchTop, BatchEnd, Typed
    <3> QED
      BY <3>1, <3>2
  <2>3. CASE BatchStart(t) \/ BatchPending(t) \/ BatchLoad(t) \/ BatchPreview(t)
    BY <2>1, <2>3 DEF BatchStart, BatchPending, BatchLoad, BatchPreview
  <2>4. CASE BatchSaving(t) \/ BatchOutput(t) \/ BatchExported(t) \/ BatchFailed(t)
    BY <2>1, <2>4 DEF BatchSaving, BatchOutput, BatchExported, BatchFailed
  <2>5. CASE BatchRemove(t) \/ BatchSave(t) \/ BatchFinish(t)
    BY <2>1, <2>5 DEF BatchRemove, BatchSave, BatchFinish
  <2> QED
    BY <2>2, <2>3, <2>4, <2>5 DEF BatchStep
<1>6. OneThread'
  <2>1. CASE BatchEnd(t)
    <3>1. batch'[t] = Off
      BY <2>1 DEF BatchEnd, Typed
    <3> QED
      BY <1>1, <1>3, <1>5, <3>1 DEF OneThread
  <2>2. CASE ~ BatchEnd(t)
    <3>1. process' = process
      BY <2>2 DEF BatchStep, BatchStart, BatchTop, BatchPending, BatchLoad, BatchPreview,
         BatchSaving, BatchOutput, BatchExported, BatchFailed, BatchRemove, BatchSave,
         BatchFinish, BatchEnd
    <3> QED
      BY <1>1, <1>3, <1>5, <3>1 DEF OneThread
  <2> QED
    BY <2>1, <2>2
<1>7. GdkHeld'
  <2>1. t \in Threads /\ t # Main /\ t \notin Workers /\ t # None
    BY ExportAssumption DEF Threads
  <2>2. ASSUME gdk'.owner = gdk.owner,
               gdk.owner = t => batch'[t].at \in {"top", "remove", "save", "finish"}
        PROVE  GdkHeld'
    BY <1>1, <1>2, <1>5, <2>2 DEF GdkHeld
  <2>3. ASSUME Enter(t), batch'[t].at \in {"top", "remove", "save", "finish"}
        PROVE  GdkHeld'
    <3>1. gdk.owner \in {None, t} /\ gdk'.owner = t
      BY <2>3 DEF Enter, CanEnter, Entered
    <3> QED
      BY <1>1, <1>2, <1>5, <2>1, <2>3, <3>1, ExportAssumption DEF GdkHeld, Threads
  <2>4. ASSUME Leave(t) PROVE GdkHeld'
    <3>1. gdk'.owner # t /\ (gdk.owner # t => gdk' = gdk)
          /\ (gdk.owner = t => gdk'.owner = None)
      BY <2>1, <2>4, ThreadLeaves
    <3>2. main.at \in {"save", "add_job"} <=> gdk'.owner = Main
      BY <1>1, <2>1, <3>1, ExportAssumption DEF GdkHeld, Threads
    <3>3. gdk'.owner \notin Workers
      BY <1>1, <3>1, ExportAssumption DEF GdkHeld, Threads
    <3>4. \A u \in BatchThreads :
            gdk'.owner = u => batch'[u].at \in {"top", "remove", "save", "finish"}
      BY <1>1, <1>5, <3>1, ExportAssumption DEF GdkHeld, Threads
    <3> QED
      BY <1>2, <3>2, <3>3, <3>4 DEF GdkHeld
  <2>5. ASSUME NEW at, Step(t, at) PROVE batch'[t].at = at
    BY <2>5 DEF Step, Typed
  <2>6. CASE BatchStart(t) \/ BatchExported(t) \/ BatchFailed(t)
    BY <2>3, <2>5, <2>6 DEF BatchStart, BatchExported, BatchFailed
  <2>7. CASE BatchTop(t)
    <3>1. Leave(t) \/ (gdk' = gdk /\ Step(t, "finish"))
      BY <2>7 DEF BatchTop
    <3> QED
      BY <2>2, <2>4, <2>5, <3>1
  <2>8. CASE BatchFinish(t)
    BY <2>4, <2>8 DEF BatchFinish
  <2>9. CASE BatchRemove(t) \/ BatchSave(t)
    BY <2>2, <2>5, <2>9 DEF BatchRemove, BatchSave, locks
  <2>10. CASE BatchPending(t) \/ BatchLoad(t) \/ BatchPreview(t) \/ BatchSaving(t)
              \/ BatchOutput(t) \/ BatchEnd(t)
    <3>1. gdk' = gdk /\ batch[t].at \notin {"top", "remove", "save", "finish"}
      BY <2>10
         DEF BatchPending, BatchLoad, BatchPreview, BatchSaving, BatchOutput, BatchEnd,
             Pass
    <3> QED
      BY <1>1, <2>2, <3>1 DEF GdkHeld
  <2> QED
    BY <2>6, <2>7, <2>8, <2>9, <2>10 DEF BatchStep
<1> QED
  BY <1>4, <1>6, <1>7 DEF Working

LEMMA WorkingWorker ==
  ASSUME Typed, Working, NEW w \in Workers, WorkerStep(w)
  PROVE  Working'
  BY WorkerFrame, WorkingKept DEF bounds
-----------------------------------------------------------------------------
(* The slots of the job queue *)

LEMMA SlotsCounted ==
  ASSUME Typed
  PROVE  /\ IsFiniteSet(Slotted) /\ Cardinality(Slotted) \in Nat
         /\ Cardinality(Slotted) <= Cardinality(Workers)
<1>1. Slotted \in SUBSET Workers
  BY DEF Slotted
<1> QED
  BY <1>1, FS_Subset, FS_CardinalityType, ExportAssumption

LEMMA SlotsWorker ==
  ASSUME Typed, SlotsHeld, NEW w \in Workers, WorkerStep(w)
  PROVE  SlotsHeld' /\ slots' \in Nat
<1>1. /\ IsFiniteSet(Slotted) /\ Cardinality(Slotted) \in Nat
      /\ slots = Cardinality(Slotted)
  BY SlotsCounted DEF SlotsHeld
<1> DEFINE Slot == {"describe", "begin", "output", "error", "progress", "destroy",
                    "unslot", "remove_slot"}
<1>2. \A v \in Workers : v # w => work'[v] = work[v]
  BY
     DEF Typed, WorkerStep, TakeJob, LockQueue, AddSlot, Describe, Show, Output,
         RemoveSlot, JobStep
<1>3. CASE AddSlot(w)
  <2>1. work[w].at = "add_slot" /\ work'[w].at = "describe" /\ slots' = slots + 1
    BY <1>3 DEF AddSlot, JobStep, Typed
  <2>2. w \notin Slotted /\ Slotted' = Slotted \cup {w}
    BY <1>2, <2>1 DEF Slotted
  <2>3. Cardinality(Slotted') = Cardinality(Slotted) + 1
    BY <1>1, <2>2, FS_AddElement
  <2>4. slots' = Cardinality(Slotted')
    BY <1>1, <2>1, <2>3
  <2>5. slots' \in Nat
    <3>1. slots \in Nat /\ slots' = slots + 1
      BY <2>1 DEF Typed
    <3> QED
      BY <3>1
  <2> QED
    BY <2>4, <2>5 DEF SlotsHeld
<1>4. CASE RemoveSlot(w)
  <2>1. work[w].at = "remove_slot" /\ work'[w].at = "idle" /\ slots' = slots - 1
    BY <1>4 DEF RemoveSlot, Lazy, Typed
  <2>2. w \in Slotted /\ Slotted' = Slotted \ {w}
    BY <1>2, <2>1 DEF Slotted
  <2>3. Cardinality(Slotted') = Cardinality(Slotted) - 1 /\ IsFiniteSet(Slotted')
    BY <1>1, <2>2, FS_RemoveElement
  <2>4. Cardinality(Slotted') \in Nat
    BY <2>3, FS_CardinalityType
  <2> QED
    BY <1>1, <2>1, <2>3, <2>4 DEF SlotsHeld
<1>5. CASE ~ AddSlot(w) /\ ~ RemoveSlot(w)
  <2>1. slots' = slots
    BY <1>5 DEF WorkerStep, TakeJob, LockQueue, Describe, Show, Output
  <2>2. work'[w].at \in Slot <=> work[w].at \in Slot
    <3>1. ASSUME NEW at \in WorkAt, JobStep(w, at) PROVE work'[w].at = at
      BY <3>1 DEF JobStep, Typed
    <3>2. CASE TakeJob(w)
      <4>1. work[w].at = "idle" /\ work'[w].at = "slot"
        BY <3>2 DEF TakeJob, Typed
      <4> QED
        BY <4>1
    <3>3. CASE LockQueue(w)
      <4>1. \/ work[w].at = "slot" /\ work'[w].at = "add_slot"
            \/ work[w].at = "unslot" /\ work'[w].at = "remove_slot"
        BY <3>1, <3>3 DEF LockQueue, WorkAt
      <4> QED
        BY <4>1
    <3>4. CASE Describe(w)
      <4>1. work[w].at = "describe" /\ work'[w].at \in {"unslot", "begin"}
        BY <3>1, <3>4 DEF Describe, WorkAt
      <4> QED
        BY <4>1
    <3>5. CASE Show(w)
      <4>1. \/ work[w].at = "begin" /\ work'[w].at = "output"
            \/ work[w].at = "error" /\ work'[w].at = "progress"
            \/ work[w].at = "progress" /\ work'[w].at = "destroy"
            \/ work[w].at = "destroy" /\ work'[w].at = "unslot"
        BY <3>1, <3>5 DEF Show, WorkAt
      <4> QED
        BY <4>1
    <3>6. CASE Output(w)
      <4>1. work[w].at = "output" /\ work'[w].at \in {"progress", "error"}
        BY <3>1, <3>6 DEF Output, WorkAt
      <4> QED
        BY <4>1
    <3> QED
      BY <1>5, <3>2, <3>3, <3>4, <3>5, <3>6 DEF WorkerStep
  <2>3. Slotted' = Slotted
    BY <1>2, <2>2 DEF Slotted
  <2> QED
    BY <1>1, <2>1, <2>3 DEF SlotsHeld
<1> QED
  BY <1>3, <1>4, <1>5

LEMMA SlotsKept ==
  ASSUME SlotsHeld, UNCHANGED <<work, slots>>
  PROVE  SlotsHeld'
  BY DEF SlotsHeld, Slotted

LEMMA SlotsEmpty ==
  ASSUME Restart
  PROVE  SlotsHeld'
<1>1. \A w \in Workers : work'[w].at = "idle"
  BY RestartRest DEF Lazy
<1>2. Slotted' = {} /\ slots' = 0
  BY <1>1, RestartRest DEF Slotted
<1> QED
  BY <1>2, FS_EmptySet DEF SlotsHeld

-----------------------------------------------------------------------------
(* The row a batch thread works on *)

LEMMA RowTakenKept ==
  ASSUME Typed, RowTaken, ListStep,
         \A t \in BatchThreads :
           \/ /\ batch'[t].row = batch[t].row /\ batch'[t].entry = batch[t].entry
              /\ batch'[t].at \in AtRow => batch[t].at \in AtRow
           \/ batch'[t].row = 0 /\ batch'[t].at \notin AtRow
  PROVE  RowTaken'
<1>1. SUFFICES ASSUME NEW t \in BatchThreads
               PROVE  /\ batch'[t].row <= lastRow'
                      /\ batch'[t].at \in AtRow =>
                           /\ batch'[t].entry \in Entries
                           /\ \A r \in ToSet(list') :
                                r.row = batch'[t].row => r.entry = batch'[t].entry
  BY DEF RowTaken
<1>2. /\ lastRow \in Nat /\ lastRow' \in Nat /\ lastRow <= lastRow'
      /\ \A r \in ToSet(list') : r \in ToSet(list) \/ r.row > lastRow
      /\ list' \in Seq(RowSet(lastRow'))
      /\ batch[t].row \in Nat /\ batch[t].row <= lastRow
  BY DEF ListStep, Typed, RowTaken
<1>3. CASE batch'[t].row = 0 /\ batch'[t].at \notin AtRow
  BY <1>2, <1>3
<1>4. CASE /\ batch'[t].row = batch[t].row /\ batch'[t].entry = batch[t].entry
           /\ batch'[t].at \in AtRow => batch[t].at \in AtRow
  <2>1. batch'[t].row <= lastRow'
    BY <1>2, <1>4
  <2>2. ASSUME batch'[t].at \in AtRow, NEW r \in ToSet(list'), r.row = batch'[t].row
        PROVE  r.entry = batch'[t].entry
    <3>1. ~ (r.row > lastRow)
      BY <1>2, <1>4, <2>2
    <3> QED
      BY <1>2, <1>4, <2>2, <3>1 DEF RowTaken
  <2> QED
    BY <1>4, <2>1, <2>2 DEF RowTaken
<1> QED
  BY <1>3, <1>4

LEMMA RowTakenUser ==
  ASSUME Typed, RowTaken, ListStep, UserStep \/ MainStep
  PROVE  RowTaken'
<1>1. \A t \in BatchThreads :
        /\ batch'[t].row = batch[t].row /\ batch'[t].entry = batch[t].entry
        /\ batch'[t].at \in AtRow => batch[t].at \in AtRow
  <2>1. CASE batch' = batch
    BY <2>1
  <2>2. ASSUME NEW t, batch' = [batch EXCEPT ![t].at = "start"]
        PROVE  <1>1!:
    <3>1. "start" \notin AtRow
      BY DEF AtRow
    <3> QED
      BY <2>2, <3>1 DEF Typed
  <2>3. ASSUME NEW t \in BatchThreads, Cancel(t)
        PROVE  <1>1!:
    BY <2>3 DEF Cancel, Typed
  <2>4. CASE ProcessBatch
    BY <2>1, <2>2, <2>4 DEF ProcessBatch, Starts
  <2>5. CASE UserStep /\ ~ ProcessBatch /\ ~ \E t \in BatchThreads : Cancel(t)
    <3>1. batch' = batch
      BY <2>5 DEF UserStep, AddToQueue, RemoveFromQueue, DragRow, RemoveAll, SaveClicked,
                  Changes, batchVars
    <3> QED
      BY <2>1, <3>1
  <2>6. CASE MainStep
    <3>1. batch' = batch
      BY <2>6 DEF MainStep, SaveQueue, LoadEntry, LoadSave, Loaded, AddJob, batchVars
    <3> QED
      BY <2>1, <3>1
  <2> QED
    BY <2>3, <2>4, <2>5, <2>6
<1> QED
  BY <1>1, RowTakenKept

LEMMA RowTakenRestart ==
  ASSUME Typed, RowTaken, ListStep, Restart
  PROVE  RowTaken'
<1>1. \A t \in BatchThreads : batch'[t].row = 0 /\ batch'[t].at \notin AtRow
  BY RestartRest DEF Off, AtRow
<1> QED
  BY <1>1, RowTakenKept

LEMMA RowTakenBatch ==
  ASSUME Typed, RowsApart, RowTaken, ListStep, NEW t \in BatchThreads, BatchStep(t)
  PROVE  RowTaken'
<1>1. ASSUME NEW at, Step(t, at), at \in AtRow => batch[t].at \in AtRow PROVE RowTaken'
  <2>1. \A u \in BatchThreads :
        /\ batch'[u].row = batch[u].row /\ batch'[u].entry = batch[u].entry
        /\ batch'[u].at \in AtRow => batch[u].at \in AtRow
    BY <1>1 DEF Step, Typed
  <2> QED
    BY <2>1, RowTakenKept
<1>2. CASE BatchEnd(t)
  <2>1. \A u \in BatchThreads :
          \/ /\ batch'[u].row = batch[u].row /\ batch'[u].entry = batch[u].entry
             /\ batch'[u].at \in AtRow => batch[u].at \in AtRow
          \/ batch'[u].row = 0 /\ batch'[u].at \notin AtRow
    BY <1>2 DEF BatchEnd, Off, AtRow, Typed
  <2> QED
    BY <2>1, RowTakenKept
<1>3. CASE BatchTop(t) /\ ~ Step(t, "finish")
  <2>1. list # <<>> /\ lastRow \in Nat /\ list \in Seq(RowSet(lastRow))
    BY <1>3 DEF BatchTop, Typed
  <2>2. PICK r : r = Head(list)
    OBVIOUS
  <2>3. r \in ToSet(list) /\ r \in RowSet(lastRow)
    BY <2>1, <2>2, TakeMember
  <2>4. r.row <= lastRow /\ r.entry \in Entries
    BY <2>1, <2>3 DEF RowSet
  <2>5. /\ list' = list /\ lastRow' = lastRow
        /\ batch'[t].row = r.row /\ batch'[t].entry = r.entry
        /\ \A u \in BatchThreads : u # t => batch'[u] = batch[u]
    BY <1>3, <2>2 DEF BatchTop, Typed
  <2>6. \A q \in ToSet(list) : q.row = r.row => q.entry = r.entry
    BY <2>3 DEF RowsApart
  <2>7. ToSet(list') = ToSet(list)
    BY <2>5
  <2>8. ASSUME NEW u \in BatchThreads
        PROVE  /\ batch'[u].row <= lastRow'
               /\ batch'[u].at \in AtRow =>
                    /\ batch'[u].entry \in Entries
                    /\ \A q \in ToSet(list') :
                         q.row = batch'[u].row => q.entry = batch'[u].entry
    <3>1. CASE u = t
      BY <2>4, <2>5, <2>6, <2>7, <3>1
    <3>2. CASE u # t
      BY <2>5, <2>7, <3>2 DEF RowTaken
    <3> QED
      BY <3>1, <3>2
  <2> QED
    BY <2>8 DEF RowTaken
<1>4. CASE Step(t, "finish")
  BY <1>1, <1>4 DEF AtRow
<1>5. CASE BatchStart(t) \/ BatchSave(t) \/ BatchFinish(t)
  BY <1>1, <1>5 DEF BatchStart, BatchSave, BatchFinish, AtRow
<1>6. CASE BatchPending(t) \/ BatchLoad(t) \/ BatchPreview(t) \/ BatchSaving(t)
  BY <1>1, <1>6 DEF BatchPending, BatchLoad, BatchPreview, BatchSaving, AtRow
<1>7. CASE BatchOutput(t) \/ BatchExported(t) \/ BatchFailed(t) \/ BatchRemove(t)
  BY <1>1, <1>7 DEF BatchOutput, BatchExported, BatchFailed, BatchRemove, AtRow
<1> QED
  BY <1>2, <1>3, <1>4, <1>5, <1>6, <1>7 DEF BatchStep
-----------------------------------------------------------------------------
(* What is kept, and what is exported once *)

Safe == AllKept /\ ExportedOnce

Done == {"exported", "remove"}

(* What a step makes true of the rows, in terms of the set of rows. *)
LEMMA RowsNext ==
  ASSUME ListStep
  PROVE  /\ Listed' = {r.entry : r \in ToSet(list')}
         /\ \A t \in BatchThreads :
              RowThere(batch[t].row)' <=> \E r \in ToSet(list') : r.row = batch'[t].row
<1>1. Listed' = {r.entry : r \in ToSet(list')}
  BY DEF Listed, ToSet
<1>2. \A t \in BatchThreads :
        RowThere(batch[t].row)' <=> \E r \in ToSet(list') : r.row = batch'[t].row
  BY DEF RowThere, ToSet
<1> QED
  BY <1>1, <1>2

LEMMA SoundBefore ==
  ASSUME Next, Sound'
  PROVE  Sound
<1>1. ASSUME UNCHANGED <<stale, cut>> PROVE Sound
  BY <1>1 DEF Sound
<1>2. ASSUME Changes PROVE Sound
  BY <1>2, Zenon DEF Sound, Changes, Handler
<1>3. ASSUME NEW e \in Entries, AddToQueue(e) \/ RemoveFromQueue(e) PROVE Sound
  BY <1>2, <1>3 DEF AddToQueue, RemoveFromQueue
<1>4. CASE RemoveAll
  BY <1>2, <1>4 DEF RemoveAll
<1>5. ASSUME NEW i \in DOMAIN list, NEW to \in DOMAIN list, DragRow(i, to) PROVE Sound
  BY <1>5, Zenon DEF Sound, DragRow, Handler
<1>6. CASE ProcessBatch \/ \E t \in BatchThreads : Cancel(t)
  BY <1>1, <1>6, Zenon DEF ProcessBatch, Cancel, Handler
<1>7. CASE \E j \in Jobs : SaveClicked(j)
  BY <1>1, <1>7, Zenon DEF SaveClicked, Handler
<1>8. CASE MainStep
  BY <1>1, <1>8, Zenon
     DEF MainStep, SaveQueue, LoadEntry, LoadSave, Loaded, AddJob, history
<1>9. CASE Restart
  BY <1>9, Zenon DEF Restart, Sound
<1>10. ASSUME NEW t \in BatchThreads, BatchStep(t) PROVE Sound
  <2>1. cut' = cut
    BY <1>10, BatchFrame
  <2>2. ~ stale' => ~ stale
    <3>1. CASE BatchTop(t) \/ BatchPreview(t) \/ BatchRemove(t)
      BY <3>1, Zenon DEF BatchTop, BatchPreview, BatchRemove
    <3>2. CASE BatchStart(t) \/ BatchPending(t) \/ BatchLoad(t) \/ BatchSaving(t) \/ BatchOutput(t)
      BY <3>2, Zenon
         DEF BatchStart, BatchPending, BatchLoad, BatchSaving, BatchOutput, history
    <3>3. CASE BatchExported(t) \/ BatchFailed(t) \/ BatchSave(t) \/ BatchFinish(t) \/ BatchEnd(t)
      BY <3>3, Zenon
         DEF BatchExported, BatchFailed, BatchSave, BatchFinish, BatchEnd, history
    <3> QED
      BY <1>10, <3>1, <3>2, <3>3 DEF BatchStep
  <2> QED
    BY <2>1, <2>2, Zenon DEF Sound
<1>11. ASSUME NEW w \in Workers, WorkerStep(w) PROVE Sound
  BY <1>1, <1>11, WorkerFrame DEF history
<1> QED
  BY <1>3, <1>4, <1>5, <1>6, <1>7, <1>8, <1>9, <1>10, <1>11 DEF Next, UserStep

(* The same rows are done, by the same threads. *)
SameDone ==
  \A t \in BatchThreads :
    /\ batch'[t].at \in Done <=> batch[t].at \in Done
    /\ batch[t].at \in Done => batch'[t].row = batch[t].row /\ batch'[t].entry = batch[t].entry

LEMMA SafeSame ==
  ASSUME Safe, SameDone, UNCHANGED <<list, file, Due, unsaved, again, crashes>>,
         Sound' => Sound,
         main'.todo = main.todo, main'.at = "load_save" => main.at = "load_save"
  PROVE  Safe'
<1>1. SUFFICES ASSUME Sound' PROVE Safe'
  BY DEF Safe, AllKept, ExportedOnce
<1>2. Sound
  BY <1>1
<1>3. Listed' = Listed /\ \A t \in BatchThreads :
        batch[t].at \in Done => (RowThere(batch[t].row)' <=> RowThere(batch[t].row))
  BY DEF Listed, RowThere, SameDone
<1>4. AllKept'
  BY <1>2, <1>3 DEF Safe, AllKept, SameDone, Done
<1>5. ExportedOnce'
  <2>1. SUFFICES ASSUME crashes = 0 PROVE ExportedOnce'
    BY DEF ExportedOnce
  <2>2. again' = again /\ (again <=> FALSE)
    <3>1. again' = again
      OBVIOUS
    <3>2. ~ again
      BY <1>2, <2>1, Zenon DEF Safe, ExportedOnce
    <3> QED
      BY <3>1, <3>2
  <2>3. ASSUME NEW e \in Listed \ Due
        PROVE  \E t \in BatchThreads : batch'[t].entry = e /\ batch'[t].at \in Done
    <3>1. \E t \in BatchThreads : batch[t].entry = e /\ batch[t].at \in Done
      BY <1>2, <2>1, Zenon DEF Safe, ExportedOnce, Done
    <3> QED
      BY <3>1 DEF SameDone
  <2>4. Listed' \ Due' = Listed \ Due
    BY <1>3
  <2>5. ~ again'
    BY <2>2, Zenon
  <2> QED
    BY <2>3, <2>4, <2>5, Zenon DEF ExportedOnce, Done
<1> QED
  BY <1>4, <1>5 DEF Safe

LEMMA ChangesEnds ==
  ASSUME Typed, MainAtWork, Changes
  PROVE  /\ file' = Torn \/ unsaved' = TRUE
         /\ main.todo = <<>> /\ main'.todo = <<>> /\ main'.at # "load_save"
         /\ UNCHANGED <<batch, again, crashes>>
<1>1. main.at = "idle" /\ main.todo = <<>> /\ UNCHANGED <<batch, again, crashes>>
  BY DEF Changes, Handler, MainAtWork, Loading
<1>2. \/ Opened /\ main' = [Rest EXCEPT !.at = "save"]
      \/ NoWriter /\ UNCHANGED main
  BY DEF Changes
<1>3. main'.todo = <<>> /\ main'.at # "load_save"
  BY <1>1, <1>2, RestType
<1> QED
  BY <1>1, <1>2, <1>3 DEF Opened, NoWriter

LEMMA SafeAdd ==
  ASSUME IInv, ListStep, Sound' => Sound, NEW e \in Entries, AddToQueue(e)
  PROVE  Safe'
<1>1. SUFFICES ASSUME Sound' PROVE Safe'
  BY DEF Safe, AllKept, ExportedOnce
<1>2. Sound /\ Typed /\ RowsApart /\ RowTaken /\ Changes
  BY <1>1 DEF IInv, AddToQueue
<1>3. /\ file' = Torn \/ unsaved' = TRUE
      /\ main.todo = <<>> /\ main'.todo = <<>> /\ main'.at # "load_save"
      /\ UNCHANGED <<batch, again, crashes>>
      /\ Due' = IF e \in Listed THEN Due ELSE Due \cup {e}
  <2>1. CASE e \in Listed
    BY <1>2, <2>1, ChangesEnds DEF IInv, AddToQueue, Due
  <2>2. CASE e \notin Listed
    BY <1>2, <2>2, ChangesEnds DEF IInv, AddToQueue, Due
  <2> QED
    BY <2>1, <2>2
<1>4. /\ Listed = {r.entry : r \in ToSet(list)}
      /\ \A row : RowThere(row) <=> \E r \in ToSet(list) : r.row = row
  BY <1>2, Rows DEF Typed
<1>5. /\ ToSet(list) \subseteq ToSet(list')
      /\ \A r \in ToSet(list') : r \in ToSet(list) \/ r.entry = e
      /\ \E r \in ToSet(list') : r.entry = e
      /\ \A r \in ToSet(list') : r \in ToSet(list) \/ r.row > lastRow
  <2>1. AppendRow(e)
    BY DEF AddToQueue
  <2> QED
    BY <1>2, <2>1, RowAppended DEF ListStep
<1>6. Listed' = Listed \cup {e}
  BY <1>4, <1>5, RowsNext
<1>7. Due' \subseteq Listed'
  <2>1. ToSet(main.todo) = {}
    BY <1>3, NoMember
  <2>2. Due \subseteq Listed
    BY <1>2, <2>1 DEF IInv, AllKept
  <2> QED
    BY <1>3, <1>6, <2>2
<1>8. ASSUME NEW t \in BatchThreads, batch[t].at \in Done, RowThere(batch[t].row)'
      PROVE  batch[t].entry \notin Due'
  <2>1. PICK r \in ToSet(list') : r.row = batch[t].row
    BY <1>3, <1>8, RowsNext
  <2>2. r \in ToSet(list) /\ r.entry = batch[t].entry
    <3>1. batch[t].row <= lastRow /\ lastRow \in Nat /\ batch[t].row \in Nat
      BY <1>2 DEF RowTaken, Typed
    <3>2. r \in ToSet(list)
      BY <1>5, <2>1, <3>1
    <3> QED
      BY <1>2, <1>8, <2>1, <3>2 DEF RowTaken, AtRow, Done
  <2>3. batch[t].entry \notin Due
    BY <1>2, <1>4, <1>8, <2>1, <2>2 DEF IInv, AllKept, Done
  <2>4. batch[t].entry \in Listed
    BY <1>4, <2>2
  <2> QED
    BY <1>3, <2>3, <2>4
<1>9. AllKept'
  BY <1>3, <1>7, <1>8 DEF AllKept, Done
<1>10. ExportedOnce'
  <2>1. SUFFICES ASSUME crashes = 0 PROVE ExportedOnce'
    BY <1>3 DEF ExportedOnce
  <2>2. again' = again /\ ~ again
    BY <1>2, <1>3, <2>1, Zenon DEF IInv, ExportedOnce
  <2>3. Listed' \ Due' \subseteq Listed \ Due
    BY <1>3, <1>6
  <2> QED
    BY <1>2, <1>3, <2>1, <2>2, <2>3 DEF IInv, ExportedOnce
<1> QED
  BY <1>9, <1>10 DEF Safe

(* Rows are taken out by the user, with their entries. *)
LEMMA SafeOut ==
  ASSUME IInv, ListStep, Sound' => Sound, Changes,
         ToSet(list') \subseteq ToSet(list),
         Due' = Due \cap Listed'
  PROVE  Safe'
<1>1. SUFFICES ASSUME Sound' PROVE Safe'
  BY DEF Safe, AllKept, ExportedOnce
<1>2. Sound /\ Typed
  BY <1>1 DEF IInv
<1>3. /\ file' = Torn \/ unsaved' = TRUE
      /\ main'.todo = <<>> /\ main'.at # "load_save"
      /\ UNCHANGED <<batch, again, crashes>>
  BY ChangesEnds DEF IInv
<1>4. /\ Listed = {r.entry : r \in ToSet(list)}
      /\ \A row : RowThere(row) <=> \E r \in ToSet(list) : r.row = row
  BY <1>2, Rows DEF Typed
<1>5. Listed' \subseteq Listed
  BY <1>4, RowsNext
<1>6. \A t \in BatchThreads : RowThere(batch[t].row)' => RowThere(batch[t].row)
  BY <1>3, <1>4, RowsNext
<1>7. AllKept'
  BY <1>2, <1>3, <1>6 DEF IInv, AllKept
<1>8. ExportedOnce'
  <2>1. SUFFICES ASSUME crashes = 0 PROVE ExportedOnce'
    BY <1>3 DEF ExportedOnce
  <2>2. again' = again /\ ~ again
    BY <1>2, <1>3, <2>1, Zenon DEF IInv, ExportedOnce
  <2>3. Listed' \ Due' \subseteq Listed \ Due
    BY <1>5
  <2> QED
    BY <1>2, <1>3, <2>1, <2>2, <2>3 DEF IInv, ExportedOnce
<1> QED
  BY <1>7, <1>8 DEF Safe

LEMMA SafeRemoveFrom ==
  ASSUME IInv, ListStep, Sound' => Sound, NEW e \in Entries, RemoveFromQueue(e)
  PROVE  Safe'
<1>1. SUFFICES ASSUME Sound' PROVE Safe'
  BY DEF Safe, AllKept, ExportedOnce
<1>2. Sound /\ Typed /\ RowsApart /\ main.todo = <<>> /\ Changes /\ Due' = Due \ {e}
  <2>1. Due' = Due \ {e}
    BY DEF RemoveFromQueue, Due
  <2> QED
    BY <1>1, <2>1, ChangesEnds DEF IInv, RemoveFromQueue
<1>3. Listed = {r.entry : r \in ToSet(list)} /\ Due \subseteq Listed
  <2>1. ToSet(main.todo) = {}
    BY <1>2, NoMember
  <2> QED
    BY <1>2, <2>1, Rows DEF Typed, IInv, AllKept
<1>4. ToSet(list') \subseteq ToSet(list) /\ Listed' = Listed \ {e}
  <2>1. CASE e \notin Listed
    <3>1. list' = list
      BY <2>1 DEF RemoveFromQueue
    <3>2. Listed' = Listed
      BY <3>1 DEF Listed
    <3> QED
      BY <2>1, <3>1, <3>2
  <2>2. CASE e \in Listed
    <3>1. PICK i \in DOMAIN list : list[i].entry = e /\ RemoveRow(i) /\ lastRow' = lastRow
      BY <2>2 DEF RemoveFromQueue
    <3>2. ToSet(list') = ToSet(list) \ {list[i]} /\ list[i] \in ToSet(list)
      BY <1>2, <3>1, RowRemoved, Rows DEF Typed
    <3>3. \A r \in ToSet(list) : r.entry = e <=> r = list[i]
      BY <1>2, <3>1, <3>2 DEF RowsApart
    <3> QED
      BY <1>3, <3>2, <3>3, RowsNext
  <2> QED
    BY <2>1, <2>2
<1>5. Due' = Due \cap Listed'
  BY <1>2, <1>3, <1>4
<1> QED
  BY <1>2, <1>4, <1>5, SafeOut

LEMMA SafeRemoveAll ==
  ASSUME IInv, ListStep, Sound' => Sound, RemoveAll
  PROVE  Safe'
<1>1. Changes /\ Due' = {} /\ list' = <<>> /\ lastRow' = lastRow
  BY DEF RemoveAll, Due
<1>2. ToSet(list') = {} /\ Listed' = {}
  BY <1>1, RowsNext DEF ToSet
<1> QED
  BY <1>1, <1>2, SafeOut

LEMMA SafeDrag ==
  ASSUME IInv, ListStep, Sound' => Sound,
         NEW i \in DOMAIN list, NEW to \in DOMAIN list, DragRow(i, to)
  PROVE  Safe'
<1>1. SUFFICES ASSUME Sound' PROVE Safe'
  BY DEF Safe, AllKept, ExportedOnce
<1>2. Sound /\ Typed /\ RowsApart /\ RowTaken
  BY <1>1 DEF IInv
<1>3. UNCHANGED <<file, main, batch, again, crashes, Due, unsaved>>
  BY DEF DragRow, Handler, Due
<1>4. Listed' = Listed
  BY <1>2, RowDragged
<1>5. \A row : RowThere(row) <=> \E r \in ToSet(list) : r.row = row
  BY <1>2, Rows DEF Typed
<1>6. ASSUME NEW t \in BatchThreads, RowThere(batch[t].row)'
      PROVE  RowThere(batch[t].row)
  <2>1. PICK r \in ToSet(list') : r.row = batch[t].row
    BY <1>3, <1>6, RowsNext
  <2>2. batch[t].row <= lastRow /\ lastRow \in Nat /\ batch[t].row \in Nat
    BY <1>2 DEF RowTaken, Typed
  <2>3. r \in ToSet(list)
    BY <2>1, <2>2 DEF ListStep
  <2> QED
    BY <1>5, <2>1, <2>3
<1>7. AllKept'
  BY <1>2, <1>3, <1>4, <1>6 DEF IInv, AllKept
<1>8. ExportedOnce'
  <2>1. SUFFICES ASSUME crashes = 0 PROVE ExportedOnce'
    BY <1>3 DEF ExportedOnce
  <2>2. again' = again /\ ~ again
    BY <1>2, <1>3, <2>1, Zenon DEF IInv, ExportedOnce
  <2> QED
    BY <1>2, <1>3, <1>4, <2>1, <2>2 DEF IInv, ExportedOnce
<1> QED
  BY <1>7, <1>8 DEF Safe

LEMMA SameDoneUser ==
  ASSUME Typed, Working, ProcessBatch \/ \E t \in BatchThreads : Cancel(t)
  PROVE  SameDone
<1>1. CASE batch' = batch
  BY <1>1 DEF SameDone
<1>2. ASSUME NEW t \in BatchThreads, Cancel(t) PROVE SameDone
  BY <1>2 DEF Cancel, SameDone, Typed
<1>3. ASSUME NEW t \in BatchThreads, batch[t].at = "off", batch' = [batch EXCEPT ![t].at = "start"]
      PROVE  SameDone
  BY <1>3 DEF SameDone, Done, Typed
<1>4. CASE ProcessBatch
  <2>1. CASE process = TRUE
    BY <1>1, <1>4, <2>1 DEF ProcessBatch
  <2>2. CASE process = FALSE
    <3>1. \A t \in BatchThreads : batch[t] = Off /\ batch[t].at = "off"
      <4>1. \A t \in BatchThreads : batch[t] = Off
        BY <2>2 DEF Working, OneThread
      <4>2. Off.at = "off"
        BY DEF Off
      <4> QED
        BY <4>1, <4>2
    <3>2. CASE BatchThreads = {}
      BY <3>2 DEF SameDone
    <3>3. CASE BatchThreads # {}
      <4>1. Starts
        BY <1>4, <2>2 DEF ProcessBatch
      <4>2. (CHOOSE t \in BatchThreads : batch[t] = Off) \in BatchThreads
        BY <3>1, <3>3
      <4>3. PICK t \in BatchThreads : batch' = [batch EXCEPT ![t].at = "start"]
        BY <4>1, <4>2 DEF Starts
      <4> QED
        BY <1>3, <3>1, <4>3
    <3> QED
      BY <3>2, <3>3
  <2> QED
    BY <2>1, <2>2 DEF Typed
<1> QED
  BY <1>2, <1>4

LEMMA SafeUser ==
  ASSUME IInv, ListStep, Sound' => Sound, UserStep
  PROVE  Safe'
<1>1. Safe /\ Typed /\ Working
  BY DEF IInv, Safe, Working
<1>2. CASE ProcessBatch \/ \E t \in BatchThreads : Cancel(t)
  <2>1. UNCHANGED <<list, file, Due, unsaved, again, crashes, main>>
    BY <1>2, Zenon DEF ProcessBatch, Cancel, Handler, Due
  <2> QED
    BY <1>1, <1>2, <2>1, SameDoneUser, SafeSame
<1>3. ASSUME NEW j \in Jobs, SaveClicked(j) PROVE Safe'
  <2>1. UNCHANGED <<list, file, Due, unsaved, again, crashes, batch>>
    BY <1>3, Zenon DEF SaveClicked, Handler, batchVars, Due
  <2>2. main'.todo = <<>> /\ main'.at = "add_job" /\ main.todo = <<>>
    BY <1>1, <1>3, RestType DEF SaveClicked, Handler, Working, MainAtWork, Loading
  <2>3. SameDone
    BY <2>1 DEF SameDone
  <2> QED
    BY <1>1, <2>1, <2>2, <2>3, SafeSame
<1> QED
  BY <1>2, <1>3, SafeAdd, SafeRemoveFrom, SafeRemoveAll, SafeDrag DEF UserStep

LEMMA SafeMain ==
  ASSUME IInv, ListStep, Sound' => Sound, MainStep
  PROVE  Safe'
<1>1. Safe /\ Typed /\ Working /\ RowsApart /\ MainAtWork
  BY DEF IInv, Safe, Working
<1>2. ToSet(Content) = Listed /\ Listed = {r.entry : r \in ToSet(list)}
  BY <1>1, Rows DEF Typed
<1>3. CASE SaveQueue
  <2>1. /\ file' = Content \/ file' = Torn
        /\ main' = Rest
        /\ UNCHANGED <<list, batch, crashes, Due, again>>
    BY <1>3, Zenon DEF SaveQueue, Written, Due
  <2>2. main'.todo = <<>> /\ main'.at = "idle" /\ main.todo = <<>>
    BY <1>1, <1>3, <2>1, RestType DEF SaveQueue, MainAtWork, Loading
  <2>3. Listed' = Listed /\ \A t \in BatchThreads : RowThere(batch[t].row)' <=> RowThere(batch[t].row)
    BY <2>1 DEF Listed, RowThere
  <2>4. ToSet(main.todo) = {} /\ ToSet(main'.todo) = {}
    BY <2>2, NoMember
  <2>5. AllKept'
    BY <1>1, <1>2, <2>1, <2>2, <2>3, <2>4 DEF Safe, AllKept
  <2>6. ExportedOnce'
    BY <1>1, <2>1, <2>3, Zenon DEF Safe, ExportedOnce
  <2> QED
    BY <2>5, <2>6 DEF Safe
<1>4. CASE LoadEntry
  <2>1. Loading /\ crashes > 0 /\ \A t \in BatchThreads : batch[t].at = "off"
    <3>1. Loading
      BY <1>4 DEF LoadEntry, Loading
    <3>2. crashes > 0 /\ \A t \in BatchThreads : batch[t] = Off
      BY <1>1, <3>1 DEF MainAtWork
    <3> QED
      BY <3>1, <3>2 DEF Off
  <2>2. /\ file' = Torn \/ (unsaved' = TRUE /\ main'.at = "load")
        /\ UNCHANGED <<batch, crashes, Due>>
    <3>1. UNCHANGED <<batch, crashes, Due>>
      BY <1>4, Zenon DEF LoadEntry, Due
    <3>2. \/ Opened
          \/ NoWriter /\ main' = [main EXCEPT !.todo = Tail(@)]
      BY <1>4 DEF LoadEntry
    <3>3. main.at = "load"
      BY <1>4 DEF LoadEntry
    <3> QED
      BY <1>1, <3>1, <3>2, <3>3 DEF Opened, NoWriter, Typed
  <2>3. main'.todo \in Seq(Entries) /\ Head(main.todo) \in Listed'
        /\ Listed \subseteq Listed' /\ ToSet(main.todo) = ToSet(main'.todo) \cup {Head(main.todo)}
    BY <1>1, <1>2, <1>4, LoadedEntry, RowsNext
  <2>4. ExportedOnce'
    BY <1>1, <2>1, <2>2 DEF ExportedOnce, Typed
  <2>5. AllKept'
    BY <1>1, <2>1, <2>2, <2>3 DEF Safe, AllKept
  <2> QED
    BY <2>4, <2>5 DEF Safe
<1>5. CASE LoadSave
  <2>1. Loading /\ crashes > 0 /\ \A t \in BatchThreads : batch[t].at = "off"
    <3>1. Loading
      BY <1>5 DEF LoadSave, Loading
    <3>2. crashes > 0 /\ \A t \in BatchThreads : batch[t] = Off
      BY <1>1, <3>1 DEF MainAtWork
    <3> QED
      BY <3>1, <3>2 DEF Off
  <2>2. /\ file' = Content \/ file' = Torn
        /\ UNCHANGED <<list, batch, crashes, Due>>
    BY <1>5, Zenon DEF LoadSave, Written, Due
  <2>3. main'.todo = main.todo /\ main'.at = "load"
    BY <1>1, <1>5 DEF LoadSave, Typed
  <2>4. Listed' = Listed
    BY <2>2 DEF Listed
  <2>5. main.todo = <<>> => ToSet(main.todo) = {}
    BY NoMember
  <2>6. ExportedOnce'
    BY <1>1, <2>1, <2>2 DEF ExportedOnce, Typed
  <2>7. AllKept'
    BY <1>1, <1>2, <2>1, <2>2, <2>3, <2>4, <2>5 DEF Safe, AllKept
  <2> QED
    BY <2>6, <2>7 DEF Safe
<1>6. CASE Loaded \/ AddJob
  <2>1. main' = Rest /\ UNCHANGED <<list, file, batch, crashes, Due, unsaved, again>>
    BY <1>6, Zenon DEF Loaded, AddJob, batchVars, bounds, history, Due
  <2>2. main.todo = <<>>
    BY <1>1, <1>6 DEF Loaded, AddJob, MainAtWork, Loading
  <2>3. main'.todo = <<>> /\ main'.at = "idle" /\ SameDone
    BY <2>1, RestType DEF SameDone
  <2> QED
    BY <1>1, <2>1, <2>2, <2>3, SafeSame
<1> QED
  BY <1>3, <1>4, <1>5, <1>6 DEF MainStep

LEMMA SafeRestart ==
  ASSUME IInv, ListStep, Sound' => Sound, Restart
  PROVE  Safe'
<1>1. SUFFICES ASSUME Sound' PROVE Safe'
  BY DEF Safe, AllKept, ExportedOnce
<1>2. Sound /\ Typed /\ AllKept /\ MainAtWork
  BY <1>1 DEF IInv
<1>3. /\ list' = <<>> /\ crashes' = crashes + 1 /\ file' = file /\ Due' = Due
      /\ \A t \in BatchThreads : batch'[t].at = "off"
      /\ main'.at = "load" /\ main'.todo = IF file = Torn THEN <<>> ELSE file
  BY <1>2, RestartRest, RestartMain DEF Off, Due
<1>4. file # Torn /\ ~ unsaved /\ ~ (main.at = "load" /\ main.todo # <<>>)
  BY <1>1, Zenon DEF Restart, Sound
<1>5. main.todo = <<>>
  BY <1>2, <1>4 DEF AllKept, MainAtWork, Loading
<1>6. Due \subseteq ToSet(file) /\ main'.todo = file
  <2>1. unsaved = FALSE
    BY <1>2, <1>4, Zenon DEF Typed
  <2> QED
    BY <1>2, <1>3, <1>4, <1>5, <2>1 DEF AllKept
<1>7. AllKept'
  BY <1>3, <1>6 DEF AllKept
<1>8. ExportedOnce'
  BY <1>2, <1>3 DEF ExportedOnce, Typed
<1> QED
  BY <1>7, <1>8 DEF Safe

LEMMA SafeBatch ==
  ASSUME IInv, ListStep, Sound' => Sound, NEW t \in BatchThreads, BatchStep(t)
  PROVE  Safe'
<1>1. SUFFICES ASSUME Sound' PROVE Safe'
  BY DEF Safe, AllKept, ExportedOnce
<1>2. Safe /\ Typed /\ Sound /\ RowsApart /\ RowTaken /\ OneThread
  BY <1>1 DEF IInv, Safe
<1>3. UNCHANGED <<main, crashes>> /\ (BatchRemove(t) \/ UNCHANGED list)
  BY BatchFrame
<1>4. batch[t] # Off
  BY DEF BatchStep, BatchStart, BatchTop, BatchPending, BatchLoad, BatchPreview,
         BatchSaving, BatchOutput, BatchExported, BatchFailed, BatchRemove, BatchSave,
         BatchFinish, BatchEnd, Off
<1>5. main.todo = <<>> /\ main.at # "load_save"
  BY <1>4 DEF IInv, MainAtWork, Loading
<1>6. \A u \in BatchThreads : batch[u].at \in Done => u = t
  BY <1>2, <1>4 DEF OneThread, Off, Done
<1>7. /\ Listed = {r.entry : r \in ToSet(list)} /\ ToSet(Content) = Listed
      /\ \A row : RowThere(row) <=> \E r \in ToSet(list) : r.row = row
  BY <1>2, Rows DEF Typed
<1>8. ToSet(main.todo) = {}
  BY <1>5, NoMember
<1>9. Due \subseteq Listed
  BY <1>2, <1>8 DEF Safe, AllKept
<1>10. ASSUME NEW at, Step(t, at)
       PROVE  /\ batch'[t].at = at /\ batch'[t].row = batch[t].row
              /\ batch'[t].entry = batch[t].entry
              /\ \A u \in BatchThreads : u # t => batch'[u] = batch[u]
  BY <1>2, <1>10 DEF Step, Typed
<1>11. ASSUME NEW at, Step(t, at), at \in Done <=> batch[t].at \in Done PROVE SameDone
  BY <1>10, <1>11 DEF SameDone
<1>12. ASSUME SameDone, UNCHANGED <<list, file, Due, unsaved, again>> PROVE Safe'
  BY <1>2, <1>3, <1>12, SafeSame
(* The entry is exported, or its photo cannot be loaded. *)
<1>13. ASSUME NEW at \in Done, Step(t, at), batch[t].at \notin Done,
              batch[t].at \in AtRow,
              UNCHANGED <<list, file, unsaved>>, Due' = Due \ {batch[t].entry},
              \/ again' = again
              \/ again' = (again \/ (RowThere(batch[t].row) /\ batch[t].entry \notin owed))
       PROVE  Safe'
  <2>1. Listed' = Listed
    BY <1>13 DEF Listed
  <2>2. AllKept'
    <3>1. \A u \in BatchThreads : batch'[u].at \in Done => u = t
      BY <1>6, <1>10, <1>13
    <3>2. batch'[t].entry \notin Due'
      BY <1>10, <1>13
    <3>3. /\ Due' \subseteq Listed'
          /\ file' # Torn /\ unsaved' = FALSE => Due' \subseteq ToSet(file')
      BY <1>2, <1>5, <1>9, <1>13, <2>1 DEF Safe, AllKept
    <3> QED
      BY <1>3, <1>5, <3>1, <3>2, <3>3 DEF AllKept, Done
  <2>3. ExportedOnce'
    <3>1. SUFFICES ASSUME crashes = 0 PROVE ExportedOnce'
      BY <1>3 DEF ExportedOnce
    <3>2. ~ again /\ Listed \subseteq Due
      <4>1. ~ again
        BY <1>2, <3>1, Zenon DEF Safe, ExportedOnce
      <4>2. \A e \in Listed \ Due :
              \E u \in BatchThreads : batch[u].entry = e /\ batch[u].at \in Done
        BY <1>2, <3>1, Zenon DEF Safe, ExportedOnce, Done
      <4>3. Listed \ Due = {}
        BY <1>6, <1>13, <4>2
      <4> QED
        BY <4>1, <4>3
    <3>3. RowThere(batch[t].row) => batch[t].entry \in Listed
      BY <1>2, <1>7, <1>13 DEF RowTaken
    <3>4. ~ again'
      <4>1. ~ (RowThere(batch[t].row) /\ batch[t].entry \notin owed)
        BY <3>2, <3>3 DEF Due
      <4> QED
        BY <1>13, <3>2, <4>1, Zenon
    <3>5. \A e \in Listed' \ Due' : e = batch'[t].entry
      BY <1>10, <1>13, <2>1, <3>2
    <3>6. batch'[t].at \in {"exported", "remove"}
      BY <1>10, <1>13 DEF Done
    <3> QED
      BY <3>4, <3>5, <3>6, Zenon DEF ExportedOnce
  <2> QED
    BY <2>2, <2>3 DEF Safe
<1>14. CASE BatchStart(t) \/ BatchPending(t) \/ BatchPreview(t) \/ BatchSaving(t)
  <2>1. SameDone
    BY <1>11, <1>14 DEF BatchStart, BatchPending, BatchPreview, BatchSaving, Done
  <2>2. UNCHANGED <<list, file, Due, unsaved, again>>
    BY <1>14, Zenon DEF BatchStart, BatchPending, BatchPreview, BatchSaving, history, Due
  <2> QED
    BY <1>12, <2>1, <2>2
<1>15. CASE BatchTop(t) \/ BatchEnd(t)
  <2>1. SameDone
    <3>1. CASE Step(t, "finish")
      BY <1>11, <1>15, <3>1 DEF BatchTop, BatchEnd, Done
    <3>2. CASE BatchTop(t) /\ ~ Step(t, "finish")
      <4>1. batch[t].at = "top" /\ batch'[t].at = "pending"
            /\ \A u \in BatchThreads : u # t => batch'[u] = batch[u]
        BY <1>2, <3>2 DEF BatchTop, Typed
      <4> QED
        BY <4>1 DEF SameDone, Done
    <3>3. CASE BatchEnd(t)
      <4>1. batch[t].at = "end" /\ batch'[t] = Off
            /\ \A u \in BatchThreads : u # t => batch'[u] = batch[u]
        BY <1>2, <3>3 DEF BatchEnd, Typed
      <4>2. Off.at \notin Done
        BY DEF Off, Done
      <4> QED
        BY <4>1, <4>2 DEF SameDone, Done
    <3> QED
      BY <1>15, <3>1, <3>2, <3>3
  <2>2. UNCHANGED <<list, file, Due, unsaved, again>>
    BY <1>15, Zenon DEF BatchTop, BatchEnd, history, Due
  <2> QED
    BY <1>12, <2>1, <2>2
<1>16. CASE BatchExported(t) \/ BatchFailed(t) \/ BatchFinish(t)
  <2>1. SameDone
    BY <1>11, <1>16 DEF BatchExported, BatchFailed, BatchFinish, Done
  <2>2. UNCHANGED <<list, file, Due, unsaved, again>>
    BY <1>16, Zenon DEF BatchExported, BatchFailed, BatchFinish, history, Due
  <2> QED
    BY <1>12, <2>1, <2>2
<1>17. CASE BatchLoad(t)
  <2>1. batch[t].at = "load" /\ UNCHANGED <<list, file, owed, unsaved, again>>
    BY <1>17, Zenon DEF BatchLoad
  <2>2. CASE Step(t, "remove") /\ dropped' = dropped \cup {batch[t].entry}
    <3>1. Due' = Due \ {batch[t].entry}
      BY <2>1, <2>2 DEF Due
    <3> QED
      BY <1>13, <2>1, <2>2, <3>1 DEF Done, AtRow
  <2>3. CASE (Step(t, "preview") \/ Step(t, "failed")) /\ UNCHANGED dropped
    <3>1. Due' = Due
      BY <2>1, <2>3 DEF Due
    <3> QED
      BY <1>11, <1>12, <2>1, <2>3, <3>1 DEF Done
  <2> QED
    BY <1>17, <2>2, <2>3 DEF BatchLoad
<1>18. CASE BatchOutput(t)
  <2>1. batch[t].at = "output" /\ UNCHANGED <<list, file, dropped, unsaved>>
    BY <1>18, Zenon DEF BatchOutput
  <2>2. CASE /\ Step(t, "exported") /\ owed' = owed \ {batch[t].entry}
             /\ again' = (again \/ (RowThere(batch[t].row) /\ batch[t].entry \notin owed))
    <3>1. Due' = Due \ {batch[t].entry}
      BY <2>1, <2>2 DEF Due
    <3> QED
      BY <1>13, <2>1, <2>2, <3>1, Zenon DEF Done, AtRow
  <2>3. CASE Step(t, "failed") /\ UNCHANGED <<owed, again>>
    <3>1. Due' = Due
      BY <2>1, <2>3 DEF Due
    <3> QED
      BY <1>11, <1>12, <2>1, <2>3, <3>1 DEF Done
  <2> QED
    BY <1>18, <2>2, <2>3, Zenon DEF BatchOutput
<1>19. CASE BatchSave(t)
  <2>1. batch[t].at = "save" /\ Step(t, "top") /\ (file' = Content \/ file' = Torn)
        /\ UNCHANGED <<list, Due, again>>
    BY <1>19, Zenon DEF BatchSave, Written, Due
  <2>2. SameDone
    BY <1>11, <2>1 DEF Done
  <2>3. Listed' = Listed /\ \A u \in BatchThreads :
          batch[u].at \in Done => (RowThere(batch[u].row)' <=> RowThere(batch[u].row))
    BY <2>1, <2>2 DEF Listed, RowThere, SameDone
  <2>4. AllKept'
    BY <1>2, <1>3, <1>5, <1>7, <1>9, <2>1, <2>2, <2>3 DEF Safe, AllKept, SameDone, Done
  <2>5. ExportedOnce'
    <3>1. SUFFICES ASSUME crashes = 0 PROVE ExportedOnce'
      BY <1>3 DEF ExportedOnce
    <3>2. ~ again'
      BY <1>2, <2>1, <3>1, Zenon DEF Safe, ExportedOnce
    <3>3. \A e \in Listed \ Due :
            \E u \in BatchThreads : batch[u].entry = e /\ batch[u].at \in Done
      BY <1>2, <3>1, Zenon DEF Safe, ExportedOnce, Done
    <3>4. \A e \in Listed' \ Due' :
            \E u \in BatchThreads : batch'[u].entry = e /\ batch'[u].at \in Done
      BY <2>1, <2>2, <2>3, <3>3 DEF SameDone
    <3> QED
      BY <3>2, <3>4, Zenon DEF ExportedOnce, Done
  <2> QED
    BY <2>4, <2>5 DEF Safe
<1>20. CASE BatchRemove(t)
  <2>1. /\ batch[t].at = "remove" /\ UNCHANGED <<Due, again>>
        /\ Step(t, "save") \/ Step(t, "top")
        /\ file' = Torn \/ unsaved' = TRUE
    BY <1>20, Zenon DEF BatchRemove, Opened, NoWriter, Due
  <2>2. RowThere(batch[t].row)
    BY <1>1, <1>20, Zenon DEF BatchRemove, Sound
  <2>3. PICK r \in ToSet(list) : r.row = batch[t].row /\ ToSet(list') = ToSet(list) \ {r}
    BY <1>2, <1>20, <2>2, BatchRemoved
  <2>4. r.entry = batch[t].entry /\ batch[t].entry \notin Due
    BY <1>2, <2>1, <2>2, <2>3 DEF RowTaken, AtRow, Safe, AllKept
  <2>5. Listed' = Listed \ {r.entry}
    <3>1. \A q \in ToSet(list) : q.entry = r.entry => q = r
      BY <1>2, <2>3 DEF RowsApart
    <3> QED
      BY <1>7, <2>3, <3>1, RowsNext
  <2>6. \A u \in BatchThreads : batch'[u].at \notin Done
    BY <1>6, <1>10, <2>1 DEF Done
  <2>7. AllKept'
    BY <1>3, <1>5, <1>9, <2>1, <2>4, <2>5, <2>6 DEF AllKept, Done
  <2>8. ExportedOnce'
    <3>1. SUFFICES ASSUME crashes = 0 PROVE ExportedOnce'
      BY <1>3 DEF ExportedOnce
    <3>2. ~ again'
      BY <1>2, <2>1, <3>1, Zenon DEF Safe, ExportedOnce
    <3>3. \A e \in Listed \ Due :
            \E u \in BatchThreads : batch[u].entry = e /\ batch[u].at \in Done
      BY <1>2, <3>1, Zenon DEF Safe, ExportedOnce, Done
    <3>4. Listed' \ Due' = {}
      BY <1>6, <2>1, <2>4, <2>5, <3>3
    <3> QED
      BY <3>2, <3>4, Zenon DEF ExportedOnce
  <2> QED
    BY <2>7, <2>8 DEF Safe
<1> QED
  BY <1>14, <1>15, <1>16, <1>17, <1>18, <1>19, <1>20 DEF BatchStep

LEMMA SafeWorker ==
  ASSUME IInv, Sound' => Sound, NEW w \in Workers, WorkerStep(w)
  PROVE  Safe'
<1>1. UNCHANGED <<list, file, Due, unsaved, again, crashes, main, batch>>
  BY WorkerFrame, Zenon DEF bounds, history, Due
<1>2. SameDone
  BY <1>1 DEF SameDone
<1> QED
  BY <1>1, <1>2, SafeSame DEF IInv, Safe
-----------------------------------------------------------------------------
LEMMA InitHolds == Init => IInv
<1> SUFFICES ASSUME Init PROVE IInv
  OBVIOUS
<1>1. Typed
  <2>1. LockType
    BY DEF Init, LockType, Free
  <2>2. ThreadType
    BY DEF Init, ThreadType, Off, BatchAt
  <2>3. work \in [Workers -> [at : WorkAt, job : Jobs \cup {None}]]
    BY DEF Init, Lazy, WorkAt
  <2>4. main \in [at : MainAt, job : Jobs \cup {None}, todo : Seq(Entries)]
    BY RestType DEF Init
  <2>5. lastRow \in Nat /\ list \in Seq(RowSet(lastRow)) /\ file \in Seq(Entries)
        /\ pool \in Seq(Jobs)
    BY DEF Init
  <2>6. process \in BOOLEAN /\ unsaved \in BOOLEAN /\ again \in BOOLEAN /\ stale \in BOOLEAN /\ cut \in BOOLEAN
    BY Zenon DEF Init
  <2>7. slots \in Nat /\ ops \in Nat /\ crashes \in Nat
        /\ queueLock \in Workers \cup {None} /\ owed \subseteq Entries
        /\ dropped \subseteq Entries
    BY DEF Init
  <2> QED
    BY <2>1, <2>2, <2>3, <2>4, <2>5, <2>6, <2>7 DEF Typed, LockType, ThreadType
<1>2. Listed = {} /\ ToSet(list) = {} /\ ToSet(main.todo) = {}
  BY RestType DEF Init, Listed, ToSet
<1>3. GdkHeld /\ MainAtWork /\ OneThread
  BY RestType, ExportAssumption
     DEF Init, GdkHeld, MainAtWork, OneThread, Loading, Free, Off, Threads
<1>4. SlotsHeld
  <2>1. Slotted = {} /\ slots = 0
    BY DEF Init, Slotted, Lazy
  <2> QED
    BY <2>1, FS_EmptySet DEF SlotsHeld
<1>5. RowsApart /\ RowTaken
  BY <1>2 DEF Init, RowsApart, RowTaken, Distinct, Off, AtRow
<1>6. AllKept
  BY <1>2, RestType DEF Init, AllKept, Off, Due
<1>7. ExportedOnce
  BY <1>2, Zenon DEF Init, ExportedOnce
<1> QED
  BY <1>1, <1>3, <1>4, <1>5, <1>6, <1>7 DEF IInv

LEMMA StepKeeps == IInv /\ [Next]_vars => IInv'
<1> SUFFICES ASSUME IInv, [Next]_vars PROVE IInv'
  OBVIOUS
<1>1. /\ Typed /\ GdkHeld /\ MainAtWork /\ OneThread /\ SlotsHeld
      /\ RowsApart /\ RowTaken /\ AllKept /\ ExportedOnce /\ Working
  BY DEF IInv, Working
<1>2. CASE Next
  <2>1. ListStep /\ (Sound' => Sound)
    BY <1>1, <1>2, ListSteps, SoundBefore
  <2>2. SUFFICES Typed' /\ Working' /\ SlotsHeld' /\ RowTaken' /\ Safe'
    BY <2>1 DEF IInv, Working, Safe, ListStep
  <2>3. CASE UserStep
    <3>1. UNCHANGED <<work, slots>>
      BY <2>3 DEF UserStep, AddToQueue, RemoveFromQueue, DragRow, RemoveAll, ProcessBatch,
                  Cancel, SaveClicked, Changes, jobVars
    <3> QED
      BY <1>1, <2>1, <2>3, <3>1, TypedUser, WorkingUser, SlotsKept, RowTakenUser, SafeUser
  <2>4. CASE MainStep
    <3>1. UNCHANGED <<work, slots>>
      BY <2>4 DEF MainStep, SaveQueue, LoadEntry, LoadSave, Loaded, AddJob, jobVars
    <3> QED
      BY <1>1, <2>1, <2>4, <3>1, TypedMain, WorkingMain, SlotsKept, RowTakenUser, SafeMain
  <2>5. CASE Restart
    BY <1>1, <2>1, <2>5, TypedMain, WorkingMain, SlotsEmpty, RowTakenRestart, SafeRestart
  <2>6. ASSUME NEW t \in BatchThreads, BatchStep(t)
        PROVE  Typed' /\ Working' /\ SlotsHeld' /\ RowTaken' /\ Safe'
    <3>1. UNCHANGED <<work, slots>>
      BY <2>6, BatchFrame DEF jobVars
    <3> QED
      BY <1>1, <2>1, <2>6, <3>1, TypedBatch, WorkingBatch, SlotsKept, RowTakenBatch,
         SafeBatch
  <2>7. ASSUME NEW w \in Workers, WorkerStep(w)
        PROVE  Typed' /\ Working' /\ SlotsHeld' /\ RowTaken' /\ Safe'
    <3>1. SlotsHeld' /\ slots' \in Nat
      BY <1>1, <2>7, SlotsWorker
    <3>2. Typed' /\ Working' /\ Safe'
      BY <1>1, <2>1, <2>7, <3>1, TypedWorker, WorkingWorker, SafeWorker
    <3>3. RowTaken'
      <4>1. batch' = batch
        BY <2>7, WorkerFrame
      <4> QED
        BY <1>1, <2>1, <4>1, RowTakenKept
    <3> QED
      BY <3>1, <3>2, <3>3
  <2> QED
    BY <1>2, <2>3, <2>4, <2>5, <2>6, <2>7 DEF Next
<1>3. CASE UNCHANGED vars
  <2> USE DEF vars, locks, batchVars, jobVars, bounds, history
  <2>1. Typed'
    BY <1>1, <1>3 DEF Typed
  <2>2. Working' /\ SlotsHeld'
    BY <1>1, <1>3, WorkingKept, SlotsKept
  <2>3. RowsApart' /\ RowTaken'
    BY <1>1, <1>3 DEF RowsApart, RowTaken
  <2>4. Safe'
    <3>1. SameDone
      BY <1>3 DEF SameDone
    <3>2. Sound' => Sound
      BY <1>3, Zenon DEF Sound
    <3>3. UNCHANGED <<list, file, Due, unsaved, again, crashes, main>>
      BY <1>3 DEF Due
    <3> QED
      BY <1>1, <3>1, <3>2, <3>3, SafeSame DEF Safe
  <2> QED
    BY <2>1, <2>2, <2>3, <2>4 DEF IInv, Working, Safe
<1> QED
  BY <1>2, <1>3

(* The invariant of the two queues: types, who has the gdk lock, one batch *)
(* thread at a time, the slots, the rows and what is to be exported.       *)
THEOREM Inductive == Spec => []IInv
  BY InitHolds, StepKeeps, PTL DEF Spec

(* The variables of the batch queue and the job queue keep their types:    *)
(* the gdk lock is never taken twice by its owner here, and n_slots never  *)
(* leaves 0 to the number of threads of the pool.                          *)
THEOREM ExportTypes == Spec => []TypeOK
<1>1. IInv => TypeOK
  <2> SUFFICES ASSUME IInv PROVE TypeOK
    OBVIOUS
  <2>1. Typed /\ SlotsHeld
    BY DEF IInv
  <2>2. slots \in 0 .. Cardinality(Workers)
    <3>1. Cardinality(Workers) \in Nat
      BY FS_CardinalityType, ExportAssumption
    <3> QED
      BY <2>1, <3>1, SlotsCounted DEF SlotsHeld
  <2>3. list \in Seq([entry : Entries, row : 1 .. lastRow])
    BY <2>1 DEF Typed, RowSet
  <2> QED
    BY <2>1, <2>2, <2>3 DEF TypeOK, Typed
<1> QED
  BY <1>1, Inductive, PTL

(* What the user puts in the batch queue stays in the list until it was    *)
(* exported, or taken out by the user, or given up as it cannot be loaded, *)
(* and in the file if the last writer for that could be made.              *)
THEOREM ExportKept == Spec => []EntriesKept
<1>1. IInv => EntriesKept
  <2> SUFFICES ASSUME IInv, Sound PROVE EntriesKept
    BY DEF EntriesKept
  <2>1. main.at \notin {"load", "load_save"} => main.todo = <<>> /\ ToSet(main.todo) = {}
    BY NoMember DEF IInv, MainAtWork, Loading
  <2>2. Due \subseteq Listed \cup ToSet(main.todo)
        /\ (file # Torn /\ main.todo = <<>> /\ ~ unsaved => Due \subseteq ToSet(file))
    <3>1. ~ unsaved => unsaved = FALSE
      BY Zenon DEF IInv, Typed
    <3> QED
      BY <3>1 DEF IInv, AllKept
  <2> QED
    BY <2>1, <2>2 DEF EntriesKept
<1> QED
  BY <1>1, Inductive, PTL

(* A row of the batch queue is exported once, as long as the program does  *)
(* not end in between.                                                     *)
THEOREM ExportOnce == Spec => []ExportedOnce
  BY Inductive, PTL DEF IInv
=============================================================================
