--------------------------- MODULE IoQueueProofs ----------------------------
(***************************************************************************)
(* Proofs about IoQueue, for any number of workers, clients and jobs.      *)
(***************************************************************************)
EXTENDS IoQueue, SequenceTheorems, FiniteSetTheorems, NaturalsInduction, TLAPS

-----------------------------------------------------------------------------
(* The operators on sequences of jobs. *)

LEMMA PriorityType == Priority \in [Jobs -> Nat]
<1>1. KindPriority \in [DOMAIN KindPriority -> Nat]
  BY DEF KindPriority
<1> QED
  BY <1>1, IoQueueAssumption DEF Priority

(* A non-empty set of natural numbers has a least element. *)
LEMMA LeastNat ==
  ASSUME NEW T \in SUBSET Nat, T # {}
  PROVE  \E n \in T : \A m \in T : n <= m
<1> DEFINE Less == {p \in Nat \X Nat : p[1] < p[2]}
<1>1. IsWellFoundedOn(Less, Nat)
  BY NatLessThanWellFounded DEF OpToRel
<1>2. \E n \in T : \A m \in T : ~ (<<m, n>> \in Less)
  <2> HIDE DEF Less
  <2> QED
    BY <1>1, WFMin
<1>3. \A m, n \in Nat : ~ (<<m, n>> \in Less) => n <= m
  OBVIOUS
<1> QED
  BY <1>2, <1>3

(* push_sorted finds a place: everything behind it is less urgent than the *)
(* job, and what is just ahead of it is not.                               *)
LEMMA InsertionPointExists ==
  ASSUME NEW s \in Seq(Jobs), NEW j \in Jobs
  PROVE  /\ InsertionPoint(s, j) \in 0 .. Len(s)
         /\ InsertionPoint(s, j) > 0 => Priority[s[InsertionPoint(s, j)]] <= Priority[j]
         /\ \A i \in InsertionPoint(s, j) + 1 .. Len(s) : Priority[s[i]] > Priority[j]
<1> DEFINE T == {n \in 0 .. Len(s) : \A i \in n + 1 .. Len(s) : Priority[s[i]] > Priority[j]}
<1>1. Len(s) \in T /\ T \in SUBSET Nat
  OBVIOUS
<1>2. PICK n \in T : \A m \in T : n <= m
  BY <1>1, LeastNat
<1>3. ASSUME n > 0 PROVE Priority[s[n]] <= Priority[j]
  <2>1. n - 1 \in 0 .. Len(s) /\ n - 1 \notin T
    <3>1. n \in 0 .. Len(s) /\ n - 1 \in 0 .. Len(s) /\ ~ (n <= n - 1)
      BY <1>3
    <3> QED
      BY <1>2, <3>1
  <2>2. PICK i \in n .. Len(s) : ~ (Priority[s[i]] > Priority[j])
    BY <2>1
  <2>3. i = n
    BY <2>2, <1>2
  <2>4. s[n] \in Jobs
    BY <1>3, <1>2
  <2>5. Priority[s[n]] \in Nat /\ Priority[j] \in Nat
    BY <2>4, PriorityType
  <2> QED
    BY <2>2, <2>3, <2>5
<1>4. \E k \in 0 .. Len(s) : /\ k > 0 => Priority[s[k]] <= Priority[j]
                             /\ \A i \in k + 1 .. Len(s) : Priority[s[i]] > Priority[j]
  BY <1>2, <1>3
<1> QED
  BY <1>4 DEF InsertionPoint

LEMMA InsertSortedProperties ==
  ASSUME NEW s \in Seq(Jobs), NEW j \in Jobs
  PROVE  /\ InsertSorted(s, j) \in Seq(Jobs)
         /\ Len(InsertSorted(s, j)) = Len(s) + 1
         /\ \A i \in 1 .. Len(s) + 1 :
              InsertSorted(s, j)[i] = IF i <= InsertionPoint(s, j) THEN s[i]
                                      ELSE IF i = InsertionPoint(s, j) + 1 THEN j
                                      ELSE s[i - 1]
<1> DEFINE n == InsertionPoint(s, j)
           e(i) == IF i <= n THEN s[i] ELSE IF i = n + 1 THEN j ELSE s[i - 1]
<1>1. n \in 0 .. Len(s)
  BY InsertionPointExists
<1>2. InsertSorted(s, j) = [i \in 1 .. Len(s) + 1 |-> e(i)]
  BY DEF InsertSorted
<1>3. \A i \in 1 .. Len(s) + 1 : e(i) \in Jobs
  BY <1>1
<1> QED
  BY <1>2, <1>3

(* s is sorted by priority. *)
Sorted(s) == \A i, k \in 1 .. Len(s) : i < k => Priority[s[i]] <= Priority[s[k]]

(* The sort that ends a cancellation leaves a sorted queue alone. *)
LEMMA StableSortOfSorted ==
  ASSUME NEW s \in Seq(Jobs), Sorted(s)
  PROVE  StableSort(s) = s
<1>1. ASSUME NEW i \in 1 .. Len(s) PROVE Rank(s, i) = i
  <2>1. {k \in 1 .. Len(s) : \/ Priority[s[k]] < Priority[s[i]]
                             \/ Priority[s[k]] = Priority[s[i]] /\ k <= i} = 1 .. i
    <3>1. \A k \in 1 .. Len(s) : Priority[s[k]] \in Nat
      BY PriorityType
    <3> QED
      BY <3>1 DEF Sorted
  <2>2. Cardinality(1 .. i) = i
    BY FS_Interval
  <2> QED
    BY <2>1, <2>2, Zenon DEF Rank
<1>2. \A n \in 1 .. Len(s) : (CHOOSE i \in 1 .. Len(s) : Rank(s, i) = n) = n
  BY <1>1
<1>3. StableSort(s) = [n \in 1 .. Len(s) |-> s[n]]
  <2> DEFINE source(n) == CHOOSE i \in 1 .. Len(s) : Rank(s, i) = n
  <2>1. StableSort(s) = [n \in 1 .. Len(s) |-> s[source(n)]]
    BY DEF StableSort
  <2>2. \A n \in 1 .. Len(s) : source(n) = n
    BY <1>2
  <2> HIDE DEF source
  <2> QED
    BY <2>1, <2>2
<1> QED
  BY <1>3, LenProperties

-----------------------------------------------------------------------------
(* What each change of the queue does to its contents and to its order. *)

LEMMA UrgencyIsStrict ==
  ASSUME TypeOK
  PROVE  /\ \A i \in Jobs : ~ Board!MoreUrgent(i, i)
         /\ \A i, j \in Jobs : Board!MoreUrgent(i, j) => Priority[i] <= Priority[j]
  BY PriorityType DEF TypeOK, Board!MoreUrgent

LEMMA NarrowSeq ==
  ASSUME NEW S, NEW T, NEW s \in Seq(S), \A i \in 1 .. Len(s) : s[i] \in T
  PROVE  s \in Seq(T)
<1>1. s = [i \in 1 .. Len(s) |-> s[i]] /\ Len(s) \in Nat
  BY LenProperties
<1>2. s \in [1 .. Len(s) -> T]
  BY <1>1
<1> QED
  BY <1>1, <1>2, SeqDef

(* No job is in the queue twice. *)
LEMMA QueueDistinct ==
  ASSUME TypeOK, QueueOrdered
  PROVE  \A i, k \in 1 .. Len(queue) :
           i # k /\ queue[i] # Marker => queue[i] # queue[k]
<1> SUFFICES ASSUME NEW i \in 1 .. Len(queue), NEW k \in 1 .. Len(queue), i < k,
                    queue[i] # Marker, queue[i] = queue[k]
             PROVE  FALSE
  OBVIOUS
<1>1. queue[i] \in Jobs
  BY DEF TypeOK
<1>2. Precedes(i, k) \/ Precedes(k, i)
  BY DEF Precedes
<1> QED
  BY <1>1, <1>2, UrgencyIsStrict DEF QueueOrdered

LEMMA TakeFromQueue ==
  ASSUME TypeOK, MarkerPlaced, QueueOrdered, queueLock = None, queue # << >>,
         queue' = Tail(queue), queueLock' = queueLock, ticket' = ticket
  PROVE  /\ Head(queue) \in Queued /\ Head(queue) \in Jobs
         /\ Queued' = Queued \ {Head(queue)}
         /\ queue' \in Seq(Jobs \cup {Marker})
         /\ MarkerPlaced'
         /\ QueueOrdered'
<1>1. /\ queue \in Seq(Jobs \cup {Marker})
      /\ \A i \in 1 .. Len(queue) : queue[i] # Marker
  BY DEF TypeOK, MarkerPlaced
<1>2. /\ Head(queue) = queue[1] /\ 1 \in 1 .. Len(queue)
      /\ queue' \in Seq(Jobs \cup {Marker})
      /\ Len(queue') = Len(queue) - 1
      /\ \A i \in 1 .. Len(queue') : queue'[i] = queue[i + 1]
  BY <1>1
<1>3. Head(queue) \in Queued /\ Head(queue) \in Jobs
  BY <1>1, <1>2 DEF Queued
<1>4. Queued' = Queued \ {Head(queue)}
  <2>1. ASSUME NEW x \in Queued' PROVE x \in Queued \ {Head(queue)}
    <3>1. PICK i \in 1 .. Len(queue') : x = queue'[i] /\ x # Marker
      BY DEF Queued
    <3>2. x = queue[i + 1] /\ i + 1 \in 1 .. Len(queue) /\ i + 1 # 1
      BY <3>1, <1>2, <1>1
    <3> QED
      BY <3>1, <3>2, <1>2, QueueDistinct DEF Queued
  <2>2. ASSUME NEW x \in Queued, x # Head(queue) PROVE x \in Queued'
    <3>1. PICK i \in 1 .. Len(queue) : x = queue[i] /\ x # Marker
      BY DEF Queued
    <3>2. i - 1 \in 1 .. Len(queue') /\ queue'[i - 1] = x
      BY <3>1, <2>2, <1>1, <1>2
    <3> QED
      BY <3>1, <3>2 DEF Queued
  <2> QED
    BY <2>1, <2>2
<1>5. MarkerPlaced'
  BY <1>1, <1>2 DEF MarkerPlaced
<1>6. QueueOrdered'
  <2> SUFFICES ASSUME NEW i \in 1 .. Len(queue'), NEW k \in 1 .. Len(queue'), Precedes(i, k)'
               PROVE  Board!MoreUrgent(queue[i], queue[k])'
    BY DEF QueueOrdered
  <2>1. \A m \in 1 .. Len(queue') : queue'[m] # Marker
    BY <1>1, <1>2
  <2>2. i < k
    BY <2>1, <1>1, <1>2 DEF Precedes
  <2>3. Precedes(i + 1, k + 1) /\ i + 1 \in 1 .. Len(queue) /\ k + 1 \in 1 .. Len(queue)
    BY <2>2, <1>1, <1>2 DEF Precedes
  <2>4. Board!MoreUrgent(queue[i + 1], queue[k + 1])
    BY <2>3, <1>1 DEF QueueOrdered
  <2> QED
    BY <2>4, <1>2 DEF Board!MoreUrgent
<1> QED
  BY <1>2, <1>3, <1>4, <1>5, <1>6

LEMMA InsertIntoQueue ==
  ASSUME TypeOK, MarkerPlaced, QueueOrdered, JobsApart,
         NEW j \in Jobs, Insert(j), queueLock' = queueLock
  PROVE  /\ j \notin Queued \cup InFlight \cup finished
         /\ Queued' = Queued \cup {j}
         /\ queue' \in Seq(Jobs \cup {Marker})
         /\ MarkerPlaced'
         /\ QueueOrdered'
<1> DEFINE n == InsertionPoint(queue, j)
<1>1. queue \in Seq(Jobs)
  BY NarrowSeq, ElementOfSeq DEF TypeOK, MarkerPlaced, Insert
<1>2. /\ n \in 0 .. Len(queue)
      /\ n > 0 => Priority[queue[n]] <= Priority[j]
      /\ \A i \in n + 1 .. Len(queue) : Priority[queue[i]] > Priority[j]
  BY <1>1, InsertionPointExists
<1>3. /\ queue' \in Seq(Jobs)
      /\ Len(queue') = Len(queue) + 1
      /\ \A i \in 1 .. Len(queue') :
           queue'[i] = IF i <= n THEN queue[i] ELSE IF i = n + 1 THEN j ELSE queue[i - 1]
  <2>1. queue' = InsertSorted(queue, j)
    BY DEF Insert
  <2> QED
    BY <1>1, <2>1, InsertSortedProperties, Zenon
<1> HIDE DEF n
<1>4. j \notin Queued \cup InFlight \cup finished
  BY DEF JobsApart, Insert
<1>5. Marker \notin Jobs
  BY IoQueueAssumption
<1>6. Queued' = Queued \cup {j}
  <2>1. ASSUME NEW x \in Queued' PROVE x \in Queued \cup {j}
    <3>1. PICK i \in 1 .. Len(queue') : x = queue'[i] /\ x # Marker
      BY DEF Queued
    <3>2. \/ x = j
          \/ i \in 1 .. Len(queue) /\ x = queue[i]
          \/ i - 1 \in 1 .. Len(queue) /\ x = queue[i - 1]
      BY <3>1, <1>1, <1>2, <1>3
    <3> QED
      BY <3>1, <3>2 DEF Queued
  <2>2. ASSUME NEW x \in Queued PROVE x \in Queued'
    <3>1. PICK i \in 1 .. Len(queue) : x = queue[i] /\ x # Marker
      BY DEF Queued
    <3>2. \/ i \in 1 .. Len(queue') /\ queue'[i] = x
          \/ i + 1 \in 1 .. Len(queue') /\ queue'[i + 1] = x
      BY <3>1, <1>1, <1>2, <1>3
    <3> QED
      BY <3>1, <3>2 DEF Queued
  <2>3. n + 1 \in 1 .. Len(queue') /\ queue'[n + 1] = j
    BY <1>1, <1>2, <1>3
  <2>4. j \in Queued'
    BY <2>3, <1>5 DEF Queued
  <2> QED
    BY <2>1, <2>2, <2>4
<1>7. MarkerPlaced'
  BY <1>3, <1>5 DEF MarkerPlaced, Insert
<1>8. QueueOrdered'
  <2> SUFFICES ASSUME NEW i \in 1 .. Len(queue'), NEW k \in 1 .. Len(queue'), Precedes(i, k)'
               PROVE  Board!MoreUrgent(queue[i], queue[k])'
    BY DEF QueueOrdered
  <2>1. i < k
    BY <1>3, <1>5 DEF Precedes
  <2>2. /\ \A x \in Jobs : Priority[x] \in Nat /\ ticket[x] \in Nat
        /\ \A x \in Jobs : x # j => ticket'[x] = ticket[x]
        /\ ticket'[j] = clock /\ clock \in Nat
    <3>1. /\ ticket' = [ticket EXCEPT ![j] = clock]
          /\ ticket \in [Jobs -> Nat] /\ clock \in Nat
      BY DEF TypeOK, Insert
    <3> QED
      BY <3>1, PriorityType
  <2>3. \A a, b \in 1 .. Len(queue) : a < b =>
          /\ queue[a] # j /\ queue[b] # j
          /\ queue[a] \in Jobs /\ queue[b] \in Jobs
          /\ Board!MoreUrgent(queue[a], queue[b])
    <3> SUFFICES ASSUME NEW a \in 1 .. Len(queue), NEW b \in 1 .. Len(queue), a < b
                 PROVE  /\ queue[a] # j /\ queue[b] # j
                        /\ queue[a] \in Jobs /\ queue[b] \in Jobs
                        /\ Board!MoreUrgent(queue[a], queue[b])
      OBVIOUS
    <3>1. queue[a] \in Jobs /\ queue[b] \in Jobs
      BY <1>1
    <3>2. Precedes(a, b)
      BY <1>1, <1>5 DEF Precedes
    <3>3. queue[a] \in Queued /\ queue[b] \in Queued
      BY <3>1, <1>5 DEF Queued
    <3> QED
      BY <3>1, <3>2, <3>3, <1>4, <1>5 DEF QueueOrdered
  <2>4. CASE k = n + 1
    <3>1. i \in 1 .. Len(queue) /\ i <= n /\ queue'[i] = queue[i] /\ queue'[k] = j
      BY <2>1, <2>4, <1>1, <1>2, <1>3
    <3>2. queue[i] \in Jobs /\ queue[i] # j
      BY <3>1, <1>1, <1>4, <1>5 DEF Queued
    <3>3. Priority[queue[i]] <= Priority[j]
      <4>1. i = n \/ Priority[queue[i]] <= Priority[queue[n]]
        <5>1. CASE i < n
          BY <5>1, <3>1, <1>2, <2>3, UrgencyIsStrict
        <5> QED
          BY <5>1, <3>1, <1>2
      <4>2. queue[n] \in Jobs
        BY <3>1, <1>1, <1>2
      <4> QED
        BY <4>1, <4>2, <3>1, <3>2, <2>2, <1>2
    <3>4. ticket[queue[i]] < clock
      BY <3>2 DEF JobsApart
    <3> QED
      BY <3>1, <3>2, <3>3, <3>4, <2>2 DEF Board!MoreUrgent
  <2>5. CASE i = n + 1
    <3>1. k - 1 \in n + 1 .. Len(queue) /\ queue'[k] = queue[k - 1] /\ queue'[i] = j
      BY <2>1, <2>5, <1>1, <1>2, <1>3
    <3>2. Priority[queue[k - 1]] > Priority[j] /\ queue[k - 1] \in Jobs
      BY <3>1, <1>1, <1>2
    <3> QED
      BY <3>1, <3>2, <2>2 DEF Board!MoreUrgent
  <2>6. CASE i # n + 1 /\ k # n + 1
    <3>1. PICK a, b \in 1 .. Len(queue) :
             a < b /\ queue'[i] = queue[a] /\ queue'[k] = queue[b]
      <4> DEFINE old(m) == IF m <= n THEN m ELSE m - 1
      <4>1. /\ old(i) \in 1 .. Len(queue) /\ old(k) \in 1 .. Len(queue)
            /\ old(i) < old(k)
            /\ queue'[i] = queue[old(i)] /\ queue'[k] = queue[old(k)]
        BY <2>1, <2>6, <1>1, <1>2, <1>3
      <4> QED
        BY <4>1
    <3> QED
      BY <3>1, <2>2, <2>3 DEF Board!MoreUrgent
  <2> QED
    BY <2>4, <2>5, <2>6
<1> QED
  BY <1>3, <1>4, <1>6, <1>7, <1>8

LEMMA PutMarker ==
  ASSUME TypeOK, MarkerPlaced, QueueOrdered, NEW c \in Clients, NEW jobs,
         BeginCancel(c, jobs)
  PROVE  /\ Queued' = Queued
         /\ queue' \in Seq(Jobs \cup {Marker})
         /\ MarkerPlaced'
         /\ QueueOrdered'
<1>1. /\ queue \in Seq(Jobs \cup {Marker})
      /\ queue' = Append(queue, Marker)
      /\ \A i \in 1 .. Len(queue) : queue[i] # Marker
      /\ queueLock' = c /\ c # None
      /\ ticket' = ticket
  BY IoQueueAssumption DEF TypeOK, MarkerPlaced, BeginCancel, Threads, history
<1>2. /\ queue' \in Seq(Jobs \cup {Marker})
      /\ Len(queue') = Len(queue) + 1
      /\ \A i \in 1 .. Len(queue) : queue'[i] = queue[i]
      /\ queue'[Len(queue) + 1] = Marker
  BY <1>1
<1>3. Queued' = Queued
  <2>1. ASSUME NEW x \in Queued' PROVE x \in Queued
    <3>1. PICK i \in 1 .. Len(queue') : x = queue'[i] /\ x # Marker
      BY DEF Queued
    <3>2. i \in 1 .. Len(queue)
      BY <3>1, <1>1, <1>2
    <3> QED
      BY <3>1, <3>2, <1>2 DEF Queued
  <2>2. ASSUME NEW x \in Queued PROVE x \in Queued'
    <3>1. PICK i \in 1 .. Len(queue) : x = queue[i] /\ x # Marker
      BY DEF Queued
    <3>2. i \in 1 .. Len(queue') /\ x = queue'[i]
      BY <3>1, <1>1, <1>2
    <3> QED
      BY <3>1, <3>2 DEF Queued
  <2> QED
    BY <2>1, <2>2
<1>4. MarkerPlaced'
  <2>1. /\ Len(queue') \in 1 .. Len(queue')
        /\ queue'[Len(queue')] = Marker
        /\ \A i \in 1 .. Len(queue') : queue'[i] = Marker => i = Len(queue')
    BY <1>1, <1>2
  <2>2. \A i \in Len(queue') + 1 .. Len(queue') : FALSE
    BY <1>2
  <2> QED
    BY <2>1, <2>2, <1>1 DEF MarkerPlaced
<1>5. QueueOrdered'
  <2> SUFFICES ASSUME NEW i \in 1 .. Len(queue'), NEW k \in 1 .. Len(queue'),
                      queue'[i] # Marker, queue'[k] # Marker, Precedes(i, k)'
               PROVE  Board!MoreUrgent(queue[i], queue[k])'
    BY DEF QueueOrdered
  <2>1. i \in 1 .. Len(queue) /\ k \in 1 .. Len(queue)
    BY <1>1, <1>2
  <2>2. Precedes(i, k)
    BY <2>1, <1>1, <1>2 DEF Precedes
  <2>3. Board!MoreUrgent(queue[i], queue[k])
    BY <2>1, <2>2, <1>1 DEF QueueOrdered
  <2> QED
    BY <2>1, <2>3, <1>1, <1>2 DEF Board!MoreUrgent
<1> QED
  BY <1>2, <1>3, <1>4, <1>5

(* One step of the rotation: the job at the head is dropped or goes behind *)
(* the marker, after the jobs kept so far.                                 *)
LEMMA RotateQueue ==
  ASSUME TypeOK, LocksHeld, MarkerPlaced, QueueOrdered, NEW c \in Clients, Rotate(c)
  PROVE  /\ queueLock = c /\ Head(queue) \in Jobs
         /\ Queued' = IF Head(queue) \in target[c] THEN Queued \ {Head(queue)} ELSE Queued
         /\ queue' \in Seq(Jobs \cup {Marker})
         /\ MarkerPlaced'
         /\ QueueOrdered'
<1>1. /\ queueLock = c /\ c # None /\ queueLock' = c
      /\ target' = target /\ ticket' = ticket
      /\ queue \in Seq(Jobs \cup {Marker})
      /\ Head(queue) # Marker
  BY IoQueueAssumption
     DEF TypeOK, LocksHeld, Rotate, Threads, clientVars, history
<1>2. PICK m \in 1 .. Len(queue) :
         /\ queue[m] = Marker
         /\ \A i \in 1 .. Len(queue) : queue[i] = Marker => i = m
         /\ \A i \in m + 1 .. Len(queue) : queue[i] \notin target[c]
  BY <1>1 DEF MarkerPlaced
<1>3. /\ queue # << >> /\ Len(queue) \in Nat
      /\ Head(queue) = queue[1] /\ 1 \in 1 .. Len(queue) /\ m > 1
      /\ Head(queue) \in Jobs
      /\ Tail(queue) \in Seq(Jobs \cup {Marker})
      /\ Len(Tail(queue)) = Len(queue) - 1
      /\ \A i \in 1 .. Len(queue) - 1 : Tail(queue)[i] = queue[i + 1]
  BY <1>1, <1>2
<1>4. CASE Head(queue) \in target[c]
  <2>1. /\ queue' = Tail(queue)
        /\ \A i \in 1 .. Len(queue') : queue'[i] = queue[i + 1] /\ i + 1 \in 2 .. Len(queue)
        /\ Len(queue') = Len(queue) - 1
    BY <1>3, <1>4 DEF Rotate
  <2>2. Queued' = Queued \ {Head(queue)}
    <3>1. ASSUME NEW x \in Queued' PROVE x \in Queued \ {Head(queue)}
      <4>1. PICK i \in 1 .. Len(queue') : x = queue'[i] /\ x # Marker
        BY DEF Queued
      <4>2. x = queue[i + 1] /\ i + 1 \in 1 .. Len(queue) /\ i + 1 # 1
        BY <4>1, <2>1
      <4> QED
        BY <4>1, <4>2, <1>3, QueueDistinct DEF Queued
    <3>2. ASSUME NEW x \in Queued, x # Head(queue) PROVE x \in Queued'
      <4>1. PICK i \in 1 .. Len(queue) : x = queue[i] /\ x # Marker
        BY DEF Queued
      <4>2. i - 1 \in 1 .. Len(queue') /\ queue'[i - 1] = x
        BY <4>1, <3>2, <1>3, <2>1
      <4> QED
        BY <4>1, <4>2 DEF Queued
    <3> QED
      BY <3>1, <3>2
  <2>3. MarkerPlaced'
    <3>1. /\ m - 1 \in 1 .. Len(queue') /\ queue'[m - 1] = Marker
          /\ \A i \in 1 .. Len(queue') : queue'[i] = Marker => i = m - 1
          /\ \A i \in m .. Len(queue') : queue'[i] \notin target[c]
      BY <1>2, <1>3, <2>1
    <3>2. \A i \in m - 1 + 1 .. Len(queue') : queue'[i] \notin target[c]
      BY <3>1
    <3> QED
      BY <3>1, <3>2, <1>1 DEF MarkerPlaced
  <2>4. QueueOrdered'
    <3> SUFFICES ASSUME NEW i \in 1 .. Len(queue'), NEW k \in 1 .. Len(queue'),
                        queue'[i] # Marker, queue'[k] # Marker, Precedes(i, k)'
                 PROVE  Board!MoreUrgent(queue[i], queue[k])'
      BY DEF QueueOrdered
    <3>1. /\ i + 1 \in 1 .. Len(queue) /\ k + 1 \in 1 .. Len(queue)
          /\ queue'[i] = queue[i + 1] /\ queue'[k] = queue[k + 1]
      BY <2>1, <1>3
    <3>2. Precedes(i + 1, k + 1)
      <4>1. \A x \in 1 .. Len(queue') : queue'[x] = Marker <=> x = m - 1
        BY <1>2, <1>3, <2>1
      <4>2. \A x \in 1 .. Len(queue) : queue[x] = Marker <=> x = m
        BY <1>2
      <4> QED
        BY <4>1, <4>2, <3>1, <1>3, <2>1 DEF Precedes
    <3>3. Board!MoreUrgent(queue[i + 1], queue[k + 1])
      BY <3>1, <3>2 DEF QueueOrdered
    <3> QED
      BY <3>1, <3>3, <1>1 DEF Board!MoreUrgent
  <2> QED
    BY <1>1, <1>3, <1>4, <2>1, <2>2, <2>3, <2>4
<1>5. CASE Head(queue) \notin target[c]
  <2>1. /\ queue' \in Seq(Jobs \cup {Marker})
        /\ Len(queue') = Len(queue)
        /\ \A i \in 1 .. Len(queue) - 1 : queue'[i] = queue[i + 1]
        /\ queue'[Len(queue)] = queue[1]
    <3>1. queue' = Append(Tail(queue), Head(queue))
      BY <1>5 DEF Rotate
    <3>2. Head(queue) \in Jobs \cup {Marker}
      BY <1>3
    <3>3. /\ Append(Tail(queue), Head(queue)) \in Seq(Jobs \cup {Marker})
          /\ Len(Append(Tail(queue), Head(queue))) = Len(Tail(queue)) + 1
          /\ \A i \in 1 .. Len(Tail(queue)) :
               Append(Tail(queue), Head(queue))[i] = Tail(queue)[i]
          /\ Append(Tail(queue), Head(queue))[Len(Tail(queue)) + 1] = Head(queue)
      BY <1>3, <3>2, AppendProperties
    <3> QED
      BY <3>1, <3>3, <1>3
  <2>2. Queued' = Queued
    <3>1. ASSUME NEW x \in Queued' PROVE x \in Queued
      <4>1. PICK i \in 1 .. Len(queue) : x = queue'[i] /\ x # Marker
        BY <2>1 DEF Queued
      <4>2. \E k \in 1 .. Len(queue) : x = queue[k]
        BY <4>1, <2>1, <1>3
      <4> QED
        BY <4>1, <4>2 DEF Queued
    <3>2. ASSUME NEW x \in Queued PROVE x \in Queued'
      <4>1. PICK i \in 1 .. Len(queue) : x = queue[i] /\ x # Marker
        BY DEF Queued
      <4>2. \E k \in 1 .. Len(queue) : x = queue'[k]
        <5>1. CASE i = 1
          BY <5>1, <4>1, <2>1, <1>3
        <5>2. CASE i # 1
          <6>1. i - 1 \in 1 .. Len(queue) - 1 /\ queue'[i - 1] = x
            BY <5>2, <4>1, <2>1, <1>3
          <6> QED
            BY <6>1, <1>3
        <5> QED
          BY <5>1, <5>2
      <4> QED
        BY <4>1, <4>2, <2>1 DEF Queued
    <3> QED
      BY <3>1, <3>2
  <2>3. \A x \in 1 .. Len(queue) : queue'[x] = Marker <=> x = m - 1
    BY <1>2, <1>3, <2>1
  <2>4. MarkerPlaced'
    <3>1. m - 1 \in 1 .. Len(queue)
      BY <1>3
    <3>2. ASSUME NEW i \in m - 1 + 1 .. Len(queue) PROVE queue'[i] \notin target[c]
      <4>1. CASE i = Len(queue)
        BY <4>1, <2>1, <1>3, <1>5
      <4>2. CASE i # Len(queue)
        <5>1. i + 1 \in m + 1 .. Len(queue) /\ queue'[i] = queue[i + 1]
          BY <4>2, <2>1, <1>3
        <5> QED
          BY <5>1, <1>2
      <4> QED
        BY <4>1, <4>2
    <3> QED
      BY <3>1, <3>2, <2>1, <2>3, <1>1 DEF MarkerPlaced
  <2>5. QueueOrdered'
    <3> SUFFICES ASSUME NEW i \in 1 .. Len(queue), NEW k \in 1 .. Len(queue),
                        queue'[i] # Marker, queue'[k] # Marker, Precedes(i, k)'
                 PROVE  Board!MoreUrgent(queue[i], queue[k])'
      BY <2>1 DEF QueueOrdered
    <3>1. /\ \E x \in 1 .. Len(queue) : /\ queue'[i] = queue[x]
                                        /\ \/ i < Len(queue) /\ x = i + 1
                                           \/ i = Len(queue) /\ x = 1
          /\ \E x \in 1 .. Len(queue) : /\ queue'[k] = queue[x]
                                        /\ \/ k < Len(queue) /\ x = k + 1
                                           \/ k = Len(queue) /\ x = 1
      <4>1. ASSUME NEW y \in 1 .. Len(queue)
            PROVE  \E x \in 1 .. Len(queue) : /\ queue'[y] = queue[x]
                                             /\ \/ y < Len(queue) /\ x = y + 1
                                                \/ y = Len(queue) /\ x = 1
        <5>1. CASE y < Len(queue)
          <6>1. y + 1 \in 1 .. Len(queue) /\ queue'[y] = queue[y + 1]
            BY <5>1, <2>1, <1>3
          <6> QED
            BY <5>1, <6>1
        <5>2. CASE y = Len(queue)
          BY <5>2, <2>1, <1>3
        <5>3. y < Len(queue) \/ y = Len(queue)
          <6>1. Len(queue) \in Nat
            BY <1>3
          <6> QED
            BY <6>1
        <5> QED
          BY <5>1, <5>2, <5>3
      <4> QED
        BY <4>1
    <3>2. PICK p \in 1 .. Len(queue) : /\ queue'[i] = queue[p]
                                      /\ \/ i < Len(queue) /\ p = i + 1
                                         \/ i = Len(queue) /\ p = 1
      BY <3>1
    <3>3. PICK q \in 1 .. Len(queue) : /\ queue'[k] = queue[q]
                                      /\ \/ k < Len(queue) /\ q = k + 1
                                         \/ k = Len(queue) /\ q = 1
      BY <3>1
    <3>4. \A x \in 1 .. Len(queue) : queue[x] = Marker <=> x = m
      BY <1>2
    <3>5. \/ i < k /\ (k < m - 1 \/ i > m - 1)
          \/ k < i /\ k < m - 1 /\ m - 1 < i
      <4>1. i # m - 1 /\ k # m - 1 /\ m - 1 \in 1 .. Len(queue)
        BY <2>3, <1>3
      <4>2. CASE i < k /\ \A x \in i .. k : queue'[x] # Marker
        <5>1. m - 1 \notin i .. k
          BY <4>1, <4>2, <2>3
        <5> QED
          BY <4>1, <4>2, <5>1
      <4>3. CASE k < i /\ \E x \in k .. i : queue'[x] = Marker
        <5>1. PICK x \in k .. i : queue'[x] = Marker
          BY <4>3
        <5>2. x = m - 1
          BY <5>1, <2>3
        <5> QED
          BY <4>1, <4>3, <5>1, <5>2
      <4> QED
        BY <4>2, <4>3 DEF Precedes
    <3>6. \/ p < q /\ (q < m \/ p > m)
          \/ q < p /\ q < m /\ m < p
      <4>1. m \in 2 .. Len(queue)
        BY <1>3
      <4> QED
        BY <4>1, <3>5, <3>2, <3>3
    <3>7. Precedes(p, q)
      BY <3>4, <3>6 DEF Precedes
    <3>8. Board!MoreUrgent(queue[p], queue[q])
      BY <3>2, <3>3, <3>7 DEF QueueOrdered
    <3> QED
      BY <3>2, <3>3, <3>8, <1>1 DEF Board!MoreUrgent
  <2> QED
    BY <1>1, <1>3, <1>5, <2>1, <2>2, <2>4, <2>5
<1> QED
  BY <1>4, <1>5

LEMMA RemoveMarker ==
  ASSUME TypeOK, LocksHeld, MarkerPlaced, QueueOrdered, NEW c \in Clients, EndCancel(c)
  PROVE  /\ queueLock = c
         /\ Queued' = Queued /\ Queued \cap target[c] = {}
         /\ queue' = Tail(queue)
         /\ queue' \in Seq(Jobs \cup {Marker})
         /\ MarkerPlaced'
         /\ QueueOrdered'
<1>1. /\ queueLock = c /\ c # None /\ queueLock' = None /\ ticket' = ticket
      /\ queue \in Seq(Jobs \cup {Marker})
      /\ Head(queue) = Marker
      /\ queue' = StableSort(Tail(queue))
  BY IoQueueAssumption DEF TypeOK, LocksHeld, EndCancel, Threads, history
<1>2. PICK m \in 1 .. Len(queue) :
         /\ queue[m] = Marker
         /\ \A i \in 1 .. Len(queue) : queue[i] = Marker => i = m
         /\ \A i \in m + 1 .. Len(queue) : queue[i] \notin target[c]
  BY <1>1 DEF MarkerPlaced
<1>3. /\ Len(queue) \in Nat /\ m = 1
      /\ Tail(queue) \in Seq(Jobs \cup {Marker})
      /\ Len(Tail(queue)) = Len(queue) - 1
      /\ \A i \in 1 .. Len(Tail(queue)) : Tail(queue)[i] = queue[i + 1]
  BY <1>1, <1>2
<1>4. \A i \in 1 .. Len(Tail(queue)) : Tail(queue)[i] \in Jobs
  BY <1>1, <1>2, <1>3
<1>5. Tail(queue) \in Seq(Jobs)
  BY <1>3, <1>4, NarrowSeq
<1>6. ASSUME NEW i \in 1 .. Len(Tail(queue)), NEW k \in 1 .. Len(Tail(queue)), i < k
      PROVE  Board!MoreUrgent(Tail(queue)[i], Tail(queue)[k])
  <2>1. Precedes(i + 1, k + 1) /\ i + 1 \in 1 .. Len(queue) /\ k + 1 \in 1 .. Len(queue)
    BY <1>2, <1>3, <1>6 DEF Precedes
  <2> QED
    BY <2>1, <1>2, <1>3 DEF QueueOrdered
<1>7. Sorted(Tail(queue))
  BY <1>4, <1>6, UrgencyIsStrict DEF Sorted
<1>8. queue' = Tail(queue)
  BY <1>1, <1>5, <1>7, StableSortOfSorted
<1>9. Queued' = Queued
  <2>1. ASSUME NEW x \in Queued' PROVE x \in Queued
    <3>1. PICK i \in 1 .. Len(queue') : x = queue'[i] /\ x # Marker
      BY DEF Queued
    <3>2. x = queue[i + 1] /\ i + 1 \in 1 .. Len(queue)
      BY <3>1, <1>3, <1>8
    <3> QED
      BY <3>1, <3>2 DEF Queued
  <2>2. ASSUME NEW x \in Queued PROVE x \in Queued'
    <3>1. PICK i \in 1 .. Len(queue) : x = queue[i] /\ x # Marker
      BY DEF Queued
    <3>2. i - 1 \in 1 .. Len(queue') /\ queue'[i - 1] = x
      BY <3>1, <1>2, <1>3, <1>8
    <3> QED
      BY <3>1, <3>2 DEF Queued
  <2> QED
    BY <2>1, <2>2
<1>10. Queued \cap target[c] = {}
  BY <1>2, <1>3 DEF Queued
<1>11. \A i \in 1 .. Len(queue') : queue'[i] # Marker
  BY <1>4, <1>8, IoQueueAssumption
<1>12. MarkerPlaced'
  BY <1>1, <1>11 DEF MarkerPlaced
<1>13. QueueOrdered'
  <2> SUFFICES ASSUME NEW i \in 1 .. Len(queue'), NEW k \in 1 .. Len(queue'), Precedes(i, k)'
               PROVE  Board!MoreUrgent(queue[i], queue[k])'
    BY DEF QueueOrdered
  <2>1. i < k
    BY <1>11, <1>3, <1>8 DEF Precedes
  <2>2. Board!MoreUrgent(Tail(queue)[i], Tail(queue)[k])
    BY <2>1, <1>6, <1>8
  <2> QED
    BY <2>2, <1>1, <1>8 DEF Board!MoreUrgent
<1> QED
  BY <1>1, <1>3, <1>8, <1>9, <1>10, <1>12, <1>13
-----------------------------------------------------------------------------
(* The inductive invariant. *)

(* A step that touches neither the queue nor what orders it. *)
LEMMA QueueAlone ==
  ASSUME TypeOK, MarkerPlaced, QueueOrdered,
         queue' = queue, queueLock' = queueLock, target' = target, ticket' = ticket
  PROVE  /\ Queued' = Queued
         /\ queue' \in Seq(Jobs \cup {Marker})
         /\ MarkerPlaced'
         /\ QueueOrdered'
<1>1. Queued' = Queued /\ queue' \in Seq(Jobs \cup {Marker})
  BY DEF TypeOK, Queued
<1>2. MarkerPlaced'
  BY DEF MarkerPlaced
<1>3. QueueOrdered'
  <2>1. \A i, k : Precedes(i, k)' = Precedes(i, k)
    BY DEF Precedes
  <2> QED
    BY <2>1 DEF QueueOrdered, Board!MoreUrgent
<1> QED
  BY <1>1, <1>2, <1>3

Busy == {w \in Workers : inHand[w] # None}

LEMMA BusyFinite == IsFiniteSet(Busy) /\ Cardinality(Busy) \in Nat
  BY IoQueueAssumption, FS_Subset, FS_CardinalityType DEF Busy

LEMMA CheckPauseInv ==
  ASSUME IInv, NEW w \in Workers, CheckPause(w)
  PROVE  IInv'
<1> USE IoQueueAssumption DEF Threads, queueVars, workerVars, clientVars, history
<1>1. /\ TypeOK /\ LocksHeld /\ HandsFull /\ MarkerPlaced /\ QueueOrdered
      /\ JobsApart /\ ActiveExact /\ PauseSeen /\ LengthStands
  BY DEF IInv
<1>2. Queued' = Queued /\ queue' \in Seq(Jobs \cup {Marker}) /\ MarkerPlaced' /\ QueueOrdered'
  BY <1>1, QueueAlone DEF CheckPause
<1>3. TypeOK'
  BY <1>1, <1>2 DEF TypeOK, CheckPause
<1>4. LocksHeld' /\ HandsFull' /\ PauseSeen'
  BY <1>1 DEF TypeOK, LocksHeld, HandsFull, PauseSeen, CheckPause
<1>5. JobsApart'
  BY <1>1, <1>2 DEF TypeOK, HandsFull, JobsApart, InFlight, CheckPause
<1>6. ActiveExact'
  BY <1>1 DEF TypeOK, ActiveExact, CheckPause
<1>7. LengthStands'
  BY <1>1, <1>2 DEF TypeOK, LocksHeld, LengthStands, CheckPause
<1> QED
  BY <1>2, <1>3, <1>4, <1>5, <1>6, <1>7 DEF IInv

LEMMA LockCountInv ==
  ASSUME IInv, NEW w \in Workers, LockCount(w)
  PROVE  IInv'
<1> USE IoQueueAssumption DEF Threads, queueVars, workerVars, clientVars, history
<1>1. /\ TypeOK /\ LocksHeld /\ HandsFull /\ MarkerPlaced /\ QueueOrdered
      /\ JobsApart /\ ActiveExact /\ PauseSeen /\ LengthStands
  BY DEF IInv
<1>2. Queued' = Queued /\ queue' \in Seq(Jobs \cup {Marker}) /\ MarkerPlaced' /\ QueueOrdered'
  BY <1>1, QueueAlone DEF LockCount
<1>3. TypeOK'
  BY <1>1, <1>2 DEF TypeOK, LockCount
<1>4. LocksHeld' /\ HandsFull' /\ PauseSeen'
  BY <1>1 DEF TypeOK, LocksHeld, HandsFull, PauseSeen, LockCount
<1>5. JobsApart'
  BY <1>1, <1>2 DEF TypeOK, HandsFull, JobsApart, InFlight, LockCount
<1>6. ActiveExact'
  BY <1>1 DEF TypeOK, ActiveExact, LockCount
<1>7. LengthStands'
  BY <1>1, <1>2 DEF TypeOK, LocksHeld, LengthStands, LockCount
<1> QED
  BY <1>2, <1>3, <1>4, <1>5, <1>6, <1>7 DEF IInv

LEMMA ExecuteInv ==
  ASSUME IInv, NEW w \in Workers, Execute(w)
  PROVE  IInv'
<1> USE IoQueueAssumption DEF Threads, queueVars, workerVars, clientVars, history
<1>1. /\ TypeOK /\ LocksHeld /\ HandsFull /\ MarkerPlaced /\ QueueOrdered
      /\ JobsApart /\ ActiveExact /\ PauseSeen /\ LengthStands
  BY DEF IInv
<1>2. Queued' = Queued /\ queue' \in Seq(Jobs \cup {Marker}) /\ MarkerPlaced' /\ QueueOrdered'
  BY <1>1, QueueAlone DEF Execute
<1>3. TypeOK'
  BY <1>1, <1>2 DEF TypeOK, Execute
<1>4. LocksHeld' /\ HandsFull' /\ PauseSeen'
  BY <1>1 DEF TypeOK, LocksHeld, HandsFull, PauseSeen, Execute
<1>5. JobsApart'
  BY <1>1, <1>2 DEF TypeOK, HandsFull, JobsApart, InFlight, Execute
<1>6. ActiveExact'
  BY <1>1 DEF TypeOK, ActiveExact, Execute
<1>7. LengthStands'
  BY <1>1, <1>2 DEF TypeOK, LocksHeld, LengthStands, Execute
<1> QED
  BY <1>2, <1>3, <1>4, <1>5, <1>6, <1>7 DEF IInv

LEMMA EndCallbackInv ==
  ASSUME IInv, NEW w \in Workers, EndCallback(w)
  PROVE  IInv'
<1> USE IoQueueAssumption DEF Threads, queueVars, workerVars, clientVars, history
<1>1. /\ TypeOK /\ LocksHeld /\ HandsFull /\ MarkerPlaced /\ QueueOrdered
      /\ JobsApart /\ ActiveExact /\ PauseSeen /\ LengthStands
  BY DEF IInv
<1>2. Queued' = Queued /\ queue' \in Seq(Jobs \cup {Marker}) /\ MarkerPlaced' /\ QueueOrdered'
  BY <1>1, QueueAlone DEF EndCallback
<1>3. TypeOK'
  <2>1. inHand[w] \in Jobs
    BY <1>1 DEF TypeOK, HandsFull, EndCallback
  <2> QED
    BY <1>1, <1>2, <2>1 DEF TypeOK, EndCallback
<1>4. LocksHeld' /\ HandsFull' /\ PauseSeen'
  BY <1>1 DEF TypeOK, LocksHeld, HandsFull, PauseSeen, EndCallback
<1>5. JobsApart'
  BY <1>1, <1>2 DEF TypeOK, HandsFull, JobsApart, InFlight, EndCallback
<1>6. ActiveExact'
  BY <1>1 DEF TypeOK, ActiveExact, EndCallback
<1>7. LengthStands'
  BY <1>1, <1>2 DEF TypeOK, LocksHeld, LengthStands, EndCallback
<1> QED
  BY <1>2, <1>3, <1>4, <1>5, <1>6, <1>7 DEF IInv

LEMMA RetireInv ==
  ASSUME IInv, NEW w \in Workers, Retire(w)
  PROVE  IInv'
<1> USE IoQueueAssumption DEF Threads, queueVars, workerVars, clientVars, history
<1>1. /\ TypeOK /\ LocksHeld /\ HandsFull /\ MarkerPlaced /\ QueueOrdered
      /\ JobsApart /\ ActiveExact /\ PauseSeen /\ LengthStands
  BY DEF IInv
<1>2. Queued' = Queued /\ queue' \in Seq(Jobs \cup {Marker}) /\ MarkerPlaced' /\ QueueOrdered'
  BY <1>1, QueueAlone DEF Retire
<1>3. TypeOK' /\ ActiveExact'
  <2>1. /\ w \in Busy /\ Busy' = Busy \ {w}
    BY <1>1 DEF TypeOK, HandsFull, Retire, Busy
  <2>2. Cardinality(Busy') = Cardinality(Busy) - 1 /\ Cardinality(Busy') \in Nat
    BY <2>1, BusyFinite, FS_RemoveElement, FS_CardinalityType
  <2>3. active = Cardinality(Busy) /\ active' = Cardinality(Busy')
    BY <1>1, <2>2, BusyFinite DEF ActiveExact, Busy, Retire
  <2> QED
    BY <1>1, <1>2, <2>2, <2>3 DEF TypeOK, ActiveExact, Busy, Retire
<1>4. LocksHeld' /\ HandsFull' /\ PauseSeen'
  BY <1>1 DEF TypeOK, LocksHeld, HandsFull, PauseSeen, Retire
<1>5. JobsApart'
  BY <1>1, <1>2 DEF TypeOK, HandsFull, JobsApart, InFlight, Retire
<1>6. LengthStands'
  BY <1>1, <1>2 DEF TypeOK, LocksHeld, LengthStands, Retire
<1> QED
  BY <1>2, <1>3, <1>4, <1>5, <1>6 DEF IInv

LEMMA BeginJobsLeftInv ==
  ASSUME IInv, NEW c \in Clients, BeginJobsLeft(c)
  PROVE  IInv'
<1> USE IoQueueAssumption DEF Threads, queueVars, workerVars, clientVars, history
<1>1. /\ TypeOK /\ LocksHeld /\ HandsFull /\ MarkerPlaced /\ QueueOrdered
      /\ JobsApart /\ ActiveExact /\ PauseSeen /\ LengthStands
  BY DEF IInv
<1>2. Queued' = Queued /\ queue' \in Seq(Jobs \cup {Marker}) /\ MarkerPlaced' /\ QueueOrdered'
  BY <1>1, QueueAlone DEF BeginJobsLeft
<1>3. TypeOK'
  BY <1>1, <1>2 DEF TypeOK, BeginJobsLeft
<1>4. LocksHeld' /\ HandsFull' /\ PauseSeen'
  BY <1>1 DEF TypeOK, LocksHeld, HandsFull, PauseSeen, BeginJobsLeft
<1>5. JobsApart'
  BY <1>1, <1>2 DEF TypeOK, HandsFull, JobsApart, InFlight, BeginJobsLeft
<1>6. ActiveExact'
  BY <1>1 DEF TypeOK, ActiveExact, BeginJobsLeft
<1>7. LengthStands'
  BY <1>1, <1>2 DEF TypeOK, LocksHeld, LengthStands, BeginJobsLeft
<1> QED
  BY <1>2, <1>3, <1>4, <1>5, <1>6, <1>7 DEF IInv

LEMMA ReadLengthInv ==
  ASSUME IInv, NEW c \in Clients, ReadLength(c)
  PROVE  IInv'
<1> USE IoQueueAssumption DEF Threads, queueVars, workerVars, clientVars, history
<1>1. /\ TypeOK /\ LocksHeld /\ HandsFull /\ MarkerPlaced /\ QueueOrdered
      /\ JobsApart /\ ActiveExact /\ PauseSeen /\ LengthStands
  BY DEF IInv
<1>2. Queued' = Queued /\ queue' \in Seq(Jobs \cup {Marker}) /\ MarkerPlaced' /\ QueueOrdered'
  BY <1>1, QueueAlone DEF ReadLength
<1>3. TypeOK'
  BY <1>1, <1>2 DEF TypeOK, ReadLength
<1>4. LocksHeld' /\ HandsFull' /\ PauseSeen'
  BY <1>1 DEF TypeOK, LocksHeld, HandsFull, PauseSeen, ReadLength
<1>5. JobsApart'
  BY <1>1, <1>2 DEF TypeOK, HandsFull, JobsApart, InFlight, ReadLength
<1>6. ActiveExact'
  BY <1>1 DEF TypeOK, ActiveExact, ReadLength
<1>7. LengthStands'
  <2>1. Len(queue) = 0 => Queued = {}
    BY <1>1 DEF TypeOK, Queued
  <2> QED
    BY <1>1, <1>2, <2>1 DEF TypeOK, LocksHeld, LengthStands, ReadLength
<1> QED
  BY <1>2, <1>3, <1>4, <1>5, <1>6, <1>7 DEF IInv

LEMMA EndJobsLeftInv ==
  ASSUME IInv, NEW c \in Clients, EndJobsLeft(c)
  PROVE  IInv'
<1> USE IoQueueAssumption DEF Threads, queueVars, workerVars, clientVars, history
<1>1. /\ TypeOK /\ LocksHeld /\ HandsFull /\ MarkerPlaced /\ QueueOrdered
      /\ JobsApart /\ ActiveExact /\ PauseSeen /\ LengthStands
  BY DEF IInv
<1>2. Queued' = Queued /\ queue' \in Seq(Jobs \cup {Marker}) /\ MarkerPlaced' /\ QueueOrdered'
  BY <1>1, QueueAlone DEF EndJobsLeft
<1>3. TypeOK'
  BY <1>1, <1>2 DEF TypeOK, EndJobsLeft
<1>4. LocksHeld' /\ HandsFull' /\ PauseSeen'
  BY <1>1 DEF TypeOK, LocksHeld, HandsFull, PauseSeen, EndJobsLeft
<1>5. JobsApart'
  BY <1>1, <1>2 DEF TypeOK, HandsFull, JobsApart, InFlight, EndJobsLeft
<1>6. ActiveExact'
  BY <1>1 DEF TypeOK, ActiveExact, EndJobsLeft
<1>7. LengthStands'
  BY <1>1, <1>2 DEF TypeOK, LocksHeld, LengthStands, EndJobsLeft
<1> QED
  BY <1>2, <1>3, <1>4, <1>5, <1>6, <1>7 DEF IInv

LEMMA PauseInv ==
  ASSUME IInv, NEW c \in Clients, Pause(c)
  PROVE  IInv'
<1> USE IoQueueAssumption DEF Threads, queueVars, workerVars, clientVars, history
<1>1. /\ TypeOK /\ LocksHeld /\ HandsFull /\ MarkerPlaced /\ QueueOrdered
      /\ JobsApart /\ ActiveExact /\ PauseSeen /\ LengthStands
  BY DEF IInv
<1>2. Queued' = Queued /\ queue' \in Seq(Jobs \cup {Marker}) /\ MarkerPlaced' /\ QueueOrdered'
  BY <1>1, QueueAlone DEF Pause
<1>3. TypeOK'
  BY <1>1, <1>2 DEF TypeOK, Pause
<1>4. LocksHeld' /\ HandsFull' /\ PauseSeen'
  BY <1>1 DEF TypeOK, LocksHeld, HandsFull, PauseSeen, Pause
<1>5. JobsApart'
  BY <1>1, <1>2 DEF TypeOK, HandsFull, JobsApart, InFlight, Pause
<1>6. ActiveExact'
  BY <1>1 DEF TypeOK, ActiveExact, Pause
<1>7. LengthStands'
  BY <1>1, <1>2 DEF TypeOK, LocksHeld, LengthStands, Pause
<1> QED
  BY <1>2, <1>3, <1>4, <1>5, <1>6, <1>7 DEF IInv

LEMMA UnpauseInv ==
  ASSUME IInv, NEW c \in Clients, Unpause(c)
  PROVE  IInv'
<1> USE IoQueueAssumption DEF Threads, queueVars, workerVars, clientVars, history
<1>1. /\ TypeOK /\ LocksHeld /\ HandsFull /\ MarkerPlaced /\ QueueOrdered
      /\ JobsApart /\ ActiveExact /\ PauseSeen /\ LengthStands
  BY DEF IInv
<1>2. Queued' = Queued /\ queue' \in Seq(Jobs \cup {Marker}) /\ MarkerPlaced' /\ QueueOrdered'
  BY <1>1, QueueAlone DEF Unpause
<1>3. TypeOK'
  BY <1>1, <1>2 DEF TypeOK, Unpause
<1>4. LocksHeld' /\ HandsFull' /\ PauseSeen'
  BY <1>1 DEF TypeOK, LocksHeld, HandsFull, PauseSeen, Unpause
<1>5. JobsApart'
  BY <1>1, <1>2 DEF TypeOK, HandsFull, JobsApart, InFlight, Unpause
<1>6. ActiveExact'
  BY <1>1 DEF TypeOK, ActiveExact, Unpause
<1>7. LengthStands'
  BY <1>1, <1>2 DEF TypeOK, LocksHeld, LengthStands, Unpause
<1> QED
  BY <1>2, <1>3, <1>4, <1>5, <1>6, <1>7 DEF IInv

LEMMA AddJobInv ==
  ASSUME IInv, NEW c \in Clients, NEW j \in Jobs, AddJob(c, j)
  PROVE  IInv'
<1> USE IoQueueAssumption DEF Threads, queueVars, workerVars, clientVars, history
<1>1. /\ TypeOK /\ LocksHeld /\ HandsFull /\ MarkerPlaced /\ QueueOrdered
      /\ JobsApart /\ ActiveExact /\ PauseSeen /\ LengthStands
  BY DEF IInv
<1>2. /\ j \notin Queued \cup InFlight \cup finished /\ Queued' = Queued \cup {j}
      /\ queue' \in Seq(Jobs \cup {Marker}) /\ MarkerPlaced' /\ QueueOrdered'
  BY <1>1, InsertIntoQueue DEF AddJob
<1>3. TypeOK'
  BY <1>1, <1>2 DEF TypeOK, AddJob, Insert
<1>4. LocksHeld' /\ HandsFull' /\ PauseSeen'
  BY <1>1 DEF TypeOK, LocksHeld, HandsFull, PauseSeen, AddJob, Insert
<1>5. JobsApart'
  <2>1. /\ ticket' = [ticket EXCEPT ![j] = clock] /\ clock' = clock + 1
        /\ ticket \in [Jobs -> Nat] /\ clock \in Nat \ {0}
    BY <1>1 DEF TypeOK, Insert, AddJob
  <2>2. \A i \in Jobs : ticket'[i] < clock' /\ (ticket[i] > 0 \/ i = j => ticket'[i] > 0)
    BY <1>1, <2>1 DEF JobsApart
  <2>3. Queued \cup InFlight \cup finished \subseteq Jobs
    BY <1>1 DEF TypeOK, Queued, InFlight
  <2>4. InFlight' = InFlight /\ finished' = finished
    BY DEF InFlight, AddJob
  <2>5. \A i \in Queued' \cup InFlight' \cup finished' : ticket'[i] > 0
    BY <1>1, <1>2, <2>2, <2>3, <2>4 DEF JobsApart
  <2>6. Queued' \cap (InFlight' \cup finished') = {}
    BY <1>1, <1>2, <2>4 DEF JobsApart
  <2>7. \A v \in Workers : inHand'[v] # None =>
          (inHand'[v] \in finished' <=> wpc'[v] = "retire")
    BY <1>1 DEF TypeOK, JobsApart, AddJob
  <2>8. inHand' = inHand
    BY DEF AddJob
  <2> QED
    BY <1>1, <2>2, <2>5, <2>6, <2>7, <2>8 DEF JobsApart
<1>6. ActiveExact'
  BY <1>1 DEF TypeOK, ActiveExact, AddJob, Insert
<1>7. LengthStands'
  BY <1>1, <1>2 DEF TypeOK, LocksHeld, LengthStands, AddJob, Insert
<1> QED
  BY <1>2, <1>3, <1>4, <1>5, <1>6, <1>7 DEF IInv

LEMMA CallbackAddsJobInv ==
  ASSUME IInv, NEW w \in Workers, NEW j \in Jobs, CallbackAddsJob(w, j)
  PROVE  IInv'
<1> USE IoQueueAssumption DEF Threads, queueVars, workerVars, clientVars, history
<1>1. /\ TypeOK /\ LocksHeld /\ HandsFull /\ MarkerPlaced /\ QueueOrdered
      /\ JobsApart /\ ActiveExact /\ PauseSeen /\ LengthStands
  BY DEF IInv
<1>2. /\ j \notin Queued \cup InFlight \cup finished /\ Queued' = Queued \cup {j}
      /\ queue' \in Seq(Jobs \cup {Marker}) /\ MarkerPlaced' /\ QueueOrdered'
  BY <1>1, InsertIntoQueue DEF CallbackAddsJob
<1>3. TypeOK'
  BY <1>1, <1>2 DEF TypeOK, CallbackAddsJob, Insert
<1>4. LocksHeld' /\ HandsFull' /\ PauseSeen'
  BY <1>1 DEF TypeOK, LocksHeld, HandsFull, PauseSeen, CallbackAddsJob, Insert
<1>5. JobsApart'
  <2>1. /\ ticket' = [ticket EXCEPT ![j] = clock] /\ clock' = clock + 1
        /\ ticket \in [Jobs -> Nat] /\ clock \in Nat \ {0}
    BY <1>1 DEF TypeOK, Insert, CallbackAddsJob
  <2>2. \A i \in Jobs : ticket'[i] < clock' /\ (ticket[i] > 0 \/ i = j => ticket'[i] > 0)
    BY <1>1, <2>1 DEF JobsApart
  <2>3. Queued \cup InFlight \cup finished \subseteq Jobs
    BY <1>1 DEF TypeOK, Queued, InFlight
  <2>4. InFlight' = InFlight /\ finished' = finished
    BY DEF InFlight, CallbackAddsJob
  <2>5. \A i \in Queued' \cup InFlight' \cup finished' : ticket'[i] > 0
    BY <1>1, <1>2, <2>2, <2>3, <2>4 DEF JobsApart
  <2>6. Queued' \cap (InFlight' \cup finished') = {}
    BY <1>1, <1>2, <2>4 DEF JobsApart
  <2>7. \A v \in Workers : inHand'[v] # None =>
          (inHand'[v] \in finished' <=> wpc'[v] = "retire")
    BY <1>1 DEF TypeOK, JobsApart, CallbackAddsJob
  <2>8. inHand' = inHand
    BY DEF CallbackAddsJob
  <2> QED
    BY <1>1, <2>2, <2>5, <2>6, <2>7, <2>8 DEF JobsApart
<1>6. ActiveExact'
  BY <1>1 DEF TypeOK, ActiveExact, CallbackAddsJob, Insert
<1>7. LengthStands'
  <2>1. active > 0
    <3>1. w \in Busy
      BY <1>1 DEF HandsFull, CallbackAddsJob, Busy
    <3> QED
      BY <1>1, <3>1, BusyFinite, FS_EmptySet DEF ActiveExact, Busy
  <2> QED
    BY <2>1 DEF LengthStands, CallbackAddsJob
<1> QED
  BY <1>2, <1>3, <1>4, <1>5, <1>6, <1>7 DEF IInv

LEMMA BeginCancelInv ==
  ASSUME IInv, NEW c \in Clients, NEW jobs \in SUBSET Jobs, BeginCancel(c, jobs)
  PROVE  IInv'
<1> USE IoQueueAssumption DEF Threads, queueVars, workerVars, clientVars, history
<1>1. /\ TypeOK /\ LocksHeld /\ HandsFull /\ MarkerPlaced /\ QueueOrdered
      /\ JobsApart /\ ActiveExact /\ PauseSeen /\ LengthStands
  BY DEF IInv
<1>2. Queued' = Queued /\ queue' \in Seq(Jobs \cup {Marker}) /\ MarkerPlaced' /\ QueueOrdered'
  BY <1>1, PutMarker, Zenon
<1>3. TypeOK'
  BY <1>1, <1>2 DEF TypeOK, BeginCancel
<1>4. LocksHeld' /\ HandsFull' /\ PauseSeen'
  BY <1>1 DEF TypeOK, LocksHeld, HandsFull, PauseSeen, BeginCancel
<1>5. JobsApart'
  BY <1>1, <1>2 DEF TypeOK, HandsFull, JobsApart, InFlight, BeginCancel
<1>6. ActiveExact'
  BY <1>1 DEF TypeOK, ActiveExact, BeginCancel
<1>7. LengthStands'
  BY <1>1, <1>2 DEF TypeOK, LocksHeld, LengthStands, BeginCancel
<1> QED
  BY <1>2, <1>3, <1>4, <1>5, <1>6, <1>7 DEF IInv

LEMMA RotateInv ==
  ASSUME IInv, NEW c \in Clients, Rotate(c)
  PROVE  IInv'
<1> USE IoQueueAssumption DEF Threads, queueVars, workerVars, clientVars, history
<1>1. /\ TypeOK /\ LocksHeld /\ HandsFull /\ MarkerPlaced /\ QueueOrdered
      /\ JobsApart /\ ActiveExact /\ PauseSeen /\ LengthStands
  BY DEF IInv
<1>2. /\ Queued' \subseteq Queued
      /\ queue' \in Seq(Jobs \cup {Marker}) /\ MarkerPlaced' /\ QueueOrdered'
  BY <1>1, RotateQueue
<1>3. TypeOK'
  BY <1>1, <1>2 DEF TypeOK, Rotate
<1>4. LocksHeld' /\ HandsFull' /\ PauseSeen'
  BY <1>1 DEF TypeOK, LocksHeld, HandsFull, PauseSeen, Rotate
<1>5. JobsApart'
  BY <1>1, <1>2 DEF TypeOK, HandsFull, JobsApart, InFlight, Rotate
<1>6. ActiveExact'
  BY <1>1 DEF TypeOK, ActiveExact, Rotate
<1>7. LengthStands'
  BY <1>1, <1>2 DEF TypeOK, LocksHeld, LengthStands, Rotate
<1> QED
  BY <1>2, <1>3, <1>4, <1>5, <1>6, <1>7 DEF IInv

LEMMA EndCancelInv ==
  ASSUME IInv, NEW c \in Clients, EndCancel(c)
  PROVE  IInv'
<1> USE IoQueueAssumption DEF Threads, queueVars, workerVars, clientVars, history
<1>1. /\ TypeOK /\ LocksHeld /\ HandsFull /\ MarkerPlaced /\ QueueOrdered
      /\ JobsApart /\ ActiveExact /\ PauseSeen /\ LengthStands
  BY DEF IInv
<1>2. Queued' = Queued /\ queue' \in Seq(Jobs \cup {Marker}) /\ MarkerPlaced' /\ QueueOrdered'
  BY <1>1, RemoveMarker
<1>3. TypeOK'
  BY <1>1, <1>2 DEF TypeOK, EndCancel
<1>4. LocksHeld' /\ HandsFull' /\ PauseSeen'
  BY <1>1 DEF TypeOK, LocksHeld, HandsFull, PauseSeen, EndCancel
<1>5. JobsApart'
  BY <1>1, <1>2 DEF TypeOK, HandsFull, JobsApart, InFlight, EndCancel
<1>6. ActiveExact'
  BY <1>1 DEF TypeOK, ActiveExact, EndCancel
<1>7. LengthStands'
  BY <1>1, <1>2 DEF TypeOK, LocksHeld, LengthStands, EndCancel
<1> QED
  BY <1>2, <1>3, <1>4, <1>5, <1>6, <1>7 DEF IInv

LEMMA FindNothingInv ==
  ASSUME IInv, NEW w \in Workers, TryPop(w), FindNothing(w)
  PROVE  IInv'
<1> USE IoQueueAssumption DEF Threads, queueVars, workerVars, clientVars, history
<1>1. /\ TypeOK /\ LocksHeld /\ HandsFull /\ MarkerPlaced /\ QueueOrdered
      /\ JobsApart /\ ActiveExact /\ PauseSeen /\ LengthStands
  BY DEF IInv
<1>2. Queued' = Queued /\ queue' \in Seq(Jobs \cup {Marker}) /\ MarkerPlaced' /\ QueueOrdered'
  BY <1>1, QueueAlone DEF TryPop, FindNothing
<1>3. TypeOK'
  BY <1>1, <1>2 DEF TypeOK, TryPop, FindNothing
<1>4. LocksHeld' /\ HandsFull' /\ PauseSeen'
  BY <1>1 DEF TypeOK, LocksHeld, HandsFull, PauseSeen, TryPop, FindNothing
<1>5. JobsApart'
  BY <1>1, <1>2 DEF TypeOK, HandsFull, JobsApart, InFlight, TryPop, FindNothing
<1>6. ActiveExact'
  BY <1>1 DEF TypeOK, ActiveExact, TryPop, FindNothing
<1>7. LengthStands'
  BY <1>1, <1>2 DEF TypeOK, LocksHeld, LengthStands, TryPop, FindNothing
<1> QED
  BY <1>2, <1>3, <1>4, <1>5, <1>6, <1>7 DEF IInv

LEMMA TakeJobInv ==
  ASSUME IInv, NEW w \in Workers, TryPop(w), queue # << >>, TakeJob(w, Head(queue), Tail(queue))
  PROVE  IInv'
<1> USE IoQueueAssumption DEF Threads, queueVars, workerVars, clientVars, history
<1>1. /\ TypeOK /\ LocksHeld /\ HandsFull /\ MarkerPlaced /\ QueueOrdered
      /\ JobsApart /\ ActiveExact /\ PauseSeen /\ LengthStands
  BY DEF IInv
<1>2. /\ Head(queue) \in Queued /\ Head(queue) \in Jobs /\ Queued' = Queued \ {Head(queue)}
      /\ queue' \in Seq(Jobs \cup {Marker}) /\ MarkerPlaced' /\ QueueOrdered'
  BY <1>1, TakeFromQueue DEF TryPop, TakeJob
<1>3. TypeOK'
  BY <1>1, <1>2 DEF TypeOK, TryPop, TakeJob
<1>4. LocksHeld' /\ HandsFull' /\ PauseSeen'
  BY <1>1, <1>2 DEF TypeOK, LocksHeld, HandsFull, PauseSeen, TryPop, TakeJob
<1>5. JobsApart'
  BY <1>1, <1>2 DEF TypeOK, HandsFull, JobsApart, InFlight, TryPop, TakeJob
<1>6. ActiveExact'
  <2>1. w \notin Busy /\ Busy' = Busy \cup {w}
    <3>1. inHand[w] = None /\ inHand \in [Workers -> Jobs \cup {None}]
      BY <1>1 DEF TypeOK, HandsFull, TryPop
    <3>2. inHand' = [inHand EXCEPT ![w] = Head(queue)] /\ Head(queue) # None
      BY <1>2 DEF TakeJob
    <3> QED
      BY <3>1, <3>2 DEF Busy
  <2>2. Cardinality(Busy') = Cardinality(Busy) + 1
    BY <2>1, BusyFinite, FS_AddElement
  <2>3. active = Cardinality(Busy) /\ active' = active + 1
    BY <1>1 DEF ActiveExact, Busy, TakeJob
  <2>4. active' = Cardinality(Busy')
    BY <2>2, <2>3
  <2> QED
    BY <2>4 DEF ActiveExact, Busy
<1>7. LengthStands'
  BY <1>1, <1>2 DEF TypeOK, LocksHeld, LengthStands, TryPop, TakeJob
<1> QED
  BY <1>2, <1>3, <1>4, <1>5, <1>6, <1>7 DEF IInv

LEMMA InitInv == Init => IInv
<1> SUFFICES ASSUME Init PROVE IInv
  OBVIOUS
<1>1. queue = << >> /\ Queued = {} /\ InFlight = {}
  BY DEF Init, Queued, InFlight
<1>2. TypeOK
  <2>1. queue \in Seq(Jobs \cup {Marker})
    BY <1>1
  <2>2. /\ wpc \in [Workers -> {"check", "poll", "pop", "execute", "callback", "return",
                              "retire"}]
        /\ inHand \in [Workers -> Jobs \cup {None}]
        /\ sincePause \in [Workers -> Nat]
    BY DEF Init
  <2>3. /\ cpc \in [Clients -> {"idle", "rotate", "length", "sum"}]
        /\ left \in [Clients -> Nat]
    BY DEF Init
  <2>4. target \in [Clients -> SUBSET Jobs] /\ fresh \in [Clients -> SUBSET Jobs]
    BY DEF Init
  <2>5. /\ finished \in SUBSET Jobs
        /\ ticket \in [Jobs -> Nat] /\ clock \in Nat \ {0} /\ active \in Nat
    BY DEF Init
  <2> QED
    BY <2>1, <2>2, <2>3, <2>4, <2>5 DEF Init, TypeOK
<1>3. LocksHeld /\ HandsFull /\ MarkerPlaced /\ QueueOrdered /\ PauseSeen /\ LengthStands
  BY <1>1, IoQueueAssumption
     DEF Init, LocksHeld, HandsFull, MarkerPlaced, QueueOrdered, PauseSeen, LengthStands, Threads
<1>4. JobsApart
  BY <1>1 DEF Init, JobsApart
<1>5. ActiveExact
  <2>1. {w \in Workers : inHand[w] # None} = {}
    BY DEF Init
  <2> QED
    BY <2>1, FS_EmptySet DEF Init, ActiveExact
<1> QED
  BY <1>2, <1>3, <1>4, <1>5 DEF IInv

LEMMA StutterInv == IInv /\ UNCHANGED vars => IInv'
<1> SUFFICES ASSUME IInv, UNCHANGED vars PROVE IInv'
  OBVIOUS
<1> USE DEF vars, queueVars, workerVars, clientVars, history
<1>1. /\ Queued' = Queued /\ InFlight' = InFlight
      /\ MarkerPlaced' /\ QueueOrdered'
  BY QueueAlone DEF IInv, InFlight
<1>2. TypeOK' /\ LocksHeld' /\ HandsFull' /\ ActiveExact' /\ PauseSeen'
  BY DEF IInv, TypeOK, LocksHeld, HandsFull, ActiveExact, PauseSeen
<1>3. JobsApart' /\ LengthStands'
  BY <1>1 DEF IInv, JobsApart, LengthStands
<1> QED
  BY <1>1, <1>2, <1>3 DEF IInv

LEMMA NextInv == IInv /\ [Next]_vars => IInv'
<1> SUFFICES ASSUME IInv, [Next]_vars PROVE IInv'
  OBVIOUS
<1>1. ASSUME NEW w \in Workers, WorkerStep(w) PROVE IInv'
  <2>1. CASE CheckPause(w)
    BY <2>1, CheckPauseInv
  <2>2. CASE LockCount(w)
    BY <2>2, LockCountInv
  <2>3. CASE TryPop(w)
    <3>1. \/ FindNothing(w)
          \/ queue # << >> /\ TakeJob(w, Head(queue), Tail(queue))
      BY <2>3 DEF TryPop
    <3> QED
      BY <2>3, <3>1, FindNothingInv, TakeJobInv
  <2>4. CASE Execute(w)
    BY <2>4, ExecuteInv
  <2>5. CASE \E j \in Jobs : CallbackAddsJob(w, j)
    BY <2>5, CallbackAddsJobInv
  <2>6. CASE EndCallback(w)
    BY <2>6, EndCallbackInv
  <2>7. CASE Retire(w)
    BY <2>7, RetireInv
  <2> QED
    BY <1>1, <2>1, <2>2, <2>3, <2>4, <2>5, <2>6, <2>7 DEF WorkerStep
<1>2. ASSUME NEW c \in Clients, ClientStep(c) PROVE IInv'
  <2>1. CASE \E j \in Jobs : AddJob(c, j)
    BY <2>1, AddJobInv
  <2>2. CASE \E j \in Jobs : CancelJob(c, j) \/ CancelClass(c, Class[j])
    BY <2>2, BeginCancelInv DEF CancelJob, CancelClass
  <2>3. CASE Rotate(c)
    BY <2>3, RotateInv
  <2>4. CASE EndCancel(c)
    BY <2>4, EndCancelInv
  <2>5. CASE BeginJobsLeft(c)
    BY <2>5, BeginJobsLeftInv
  <2>6. CASE ReadLength(c)
    BY <2>6, ReadLengthInv
  <2>7. CASE EndJobsLeft(c)
    BY <2>7, EndJobsLeftInv
  <2>8. CASE Pause(c)
    BY <2>8, PauseInv
  <2>9. CASE Unpause(c)
    BY <2>9, UnpauseInv
  <2> QED
    BY <1>2, <2>1, <2>2, <2>3, <2>4, <2>5, <2>6, <2>7, <2>8, <2>9 DEF ClientStep
<1> QED
  BY <1>1, <1>2, StutterInv DEF Next

(* The strengthened invariant of the job queue holds in every state.       *)
THEOREM Invariance == Spec => []IInv
  BY InitInv, NextInv, PTL DEF Spec

-----------------------------------------------------------------------------
(* The properties. *)

(* Every variable keeps its type; in particular the queue only ever holds  *)
(* jobs and the marker, although cancellations rewrite it in place.        *)
THEOREM TypeCorrect == Spec => []TypeOK
<1>1. IInv => TypeOK
  BY DEF IInv
<1> QED
  BY <1>1, Invariance, PTL

(* The queue of rs-io.c stays sorted by priority and age, with any number  *)
(* of threads adding and cancelling.                                       *)
THEOREM OrderCorrect == Spec => []QueueOrdered
<1>1. IInv => QueueOrdered
  BY DEF IInv
<1> QED
  BY <1>1, Invariance, PTL

(* queue_active_count is exact in every state. *)
THEOREM ActiveCorrect == Spec => []ActiveExact
<1>1. IInv => ActiveExact
  BY DEF IInv
<1> QED
  BY <1>1, Invariance, PTL

(* A pause lets each worker take at most one more job. *)
THEOREM PauseCorrect == Spec => []PauseBound
<1>1. IInv => PauseBound
  BY DEF IInv, PauseSeen, PauseBound
<1> QED
  BY <1>1, Invariance, PTL

(* An answer of 0 from rs_io_get_jobs_left() can be relied on. *)
THEOREM JobsLeftCorrect == Spec => JobsLeftSound
<1>1. ASSUME IInv, [Next]_vars, NEW c \in Clients,
             cpc[c] = "sum", cpc'[c] = "idle", left'[c] = 0
      PROVE  Queued' \cup InFlight' \subseteq fresh[c]
  <2>1. EndJobsLeft(c)
    BY <1>1 DEF IInv, TypeOK, Next, WorkerStep, ClientStep, vars, clientVars,
         CheckPause, LockCount, TryPop, Execute, CallbackAddsJob, EndCallback, Retire,
         AddJob, CancelJob, CancelClass, BeginCancel, Rotate, EndCancel, BeginJobsLeft,
         ReadLength, EndJobsLeft, Pause, Unpause
  <2>2. left[c] = 0 /\ active = 0
    BY <1>1, <2>1 DEF IInv, TypeOK, EndJobsLeft
  <2>3. Queued \subseteq fresh[c] /\ Queued' = Queued
    BY <1>1, <2>1, <2>2 DEF IInv, LengthStands, EndJobsLeft, Queued, queueVars
  <2>4. Busy = {}
    BY <1>1, <2>2, BusyFinite, FS_EmptySet DEF IInv, ActiveExact, Busy
  <2>5. InFlight' = {}
    BY <2>1, <2>4 DEF InFlight, Busy, EndJobsLeft, workerVars
  <2> QED
    BY <2>3, <2>5
<1>2. IInv /\ [Next]_vars =>
        [\A c \in Clients : cpc[c] = "sum" /\ cpc'[c] = "idle" /\ left'[c] = 0
           => Queued' \cup InFlight' \subseteq fresh[c]]_vars
  BY <1>1
<1> QED
  BY <1>2, Invariance, PTL DEF Spec, JobsLeftSound

(* A cancellation removes the jobs it matches, all of them and no other. *)
THEOREM CancelCorrect == Spec => CancelExact
<1> DEFINE Exact == /\ \A j \in Queued \ Queued' :
                          \/ j \in InFlight'
                          \/ queueLock # None /\ j \in target[queueLock]
                    /\ queueLock # None /\ queueLock' = None
                         => Queued' \cap target[queueLock] = {}
<1>1. ASSUME IInv, NEW w \in Workers, WorkerStep(w) PROVE Exact
  <2>1. queueLock' = queueLock
    BY <1>1 DEF WorkerStep, CheckPause, LockCount, TryPop, Execute, CallbackAddsJob,
         EndCallback, Retire, queueVars
  <2>2. CASE queue' = queue
    BY <2>1, <2>2 DEF Queued
  <2>3. CASE TryPop(w) /\ queue # << >> /\ TakeJob(w, Head(queue), Tail(queue))
    <3>1. Queued' = Queued \ {Head(queue)} /\ Head(queue) \in Jobs
      BY <1>1, <2>3, TakeFromQueue DEF IInv, TryPop, TakeJob, history
    <3>2. Head(queue) \in InFlight'
      BY <1>1, <2>3, <3>1, IoQueueAssumption DEF IInv, TypeOK, TakeJob, InFlight
    <3> QED
      BY <2>1, <3>1, <3>2
  <2>4. CASE \E j \in Jobs : CallbackAddsJob(w, j)
    BY <1>1, <2>1, <2>4, InsertIntoQueue DEF IInv, CallbackAddsJob
  <2> QED
    BY <1>1, <2>2, <2>3, <2>4 DEF WorkerStep, CheckPause, LockCount, TryPop, FindNothing,
         Execute, EndCallback, Retire, queueVars
<1>2. ASSUME IInv, NEW c \in Clients, ClientStep(c) PROVE Exact
  <2>1. CASE \E j \in Jobs : AddJob(c, j)
    BY <1>2, <2>1, InsertIntoQueue DEF IInv, AddJob
  <2>2. CASE \E j \in Jobs : CancelJob(c, j) \/ CancelClass(c, Class[j])
    <3>1. PICK jobs \in SUBSET Jobs : BeginCancel(c, jobs)
      BY <2>2 DEF CancelJob, CancelClass
    <3>2. Queued' = Queued
      BY <1>2, <3>1, PutMarker, Zenon DEF IInv
    <3> QED
      BY <3>1, <3>2 DEF BeginCancel
  <2>3. CASE Rotate(c)
    <3>1. /\ queueLock = c /\ queueLock' = queueLock
          /\ Queued' = IF Head(queue) \in target[c] THEN Queued \ {Head(queue)} ELSE Queued
      BY <1>2, <2>3, RotateQueue DEF IInv, Rotate
    <3>2. c # None
      BY IoQueueAssumption DEF Threads
    <3> QED
      BY <3>1, <3>2
  <2>4. CASE EndCancel(c)
    BY <1>2, <2>4, RemoveMarker DEF IInv
  <2>5. CASE UNCHANGED queueVars
    BY <2>5 DEF Queued, queueVars
  <2> QED
    BY <1>2, <2>1, <2>2, <2>3, <2>4, <2>5 DEF ClientStep, BeginJobsLeft, ReadLength,
         EndJobsLeft, Pause, Unpause
<1>3. IInv /\ [Next]_vars => [Exact]_vars
  BY <1>1, <1>2 DEF Next
<1> QED
  BY <1>3, Invariance, PTL DEF Spec, CancelExact

-----------------------------------------------------------------------------
(* The queue implements JobBoard. *)

LEMMA BoardUnchanged ==
  ASSUME Queued' = Queued, InFlight' = InFlight, finished' = finished,
         ticket' = ticket, clock' = clock
  PROVE  UNCHANGED Board!boardVars
  BY DEF Board!boardVars, Status

LEMMA BoardSubmit ==
  ASSUME IInv, NEW j \in Jobs, Insert(j), queueLock' = queueLock,
         InFlight' = InFlight, finished' = finished
  PROVE  Board!Submit(j)
<1>1. /\ Queued' = Queued \cup {j}
      /\ ticket \in [Jobs -> Nat] /\ ticket' = [ticket EXCEPT ![j] = clock]
      /\ ticket[j] = 0 /\ clock' = clock + 1 /\ clock \in Nat \ {0}
  BY InsertIntoQueue DEF IInv, TypeOK, Insert
<1>2. Status(j) = "new" /\ Status(j)' = "pending"
  BY <1>1 DEF Status
<1>3. ASSUME NEW i \in Jobs, i # j PROVE Status(i)' = Status(i)
  BY <1>1, <1>3 DEF Status
<1> QED
  BY <1>1, <1>2, <1>3 DEF Board!Submit

LEMMA BoardStart ==
  ASSUME IInv, NEW w \in Workers, TryPop(w), queue # << >>,
         TakeJob(w, Head(queue), Tail(queue))
  PROVE  Board!Start(Head(queue))
<1>1. /\ Head(queue) \in Queued /\ Head(queue) \in Jobs /\ Queued' = Queued \ {Head(queue)}
      /\ ticket' = ticket /\ clock' = clock /\ finished' = finished
  BY TakeFromQueue DEF IInv, TryPop, TakeJob, history
<1>2. PICK h \in Jobs : h = Head(queue)
  BY <1>1
<1>3. /\ h \in Queued /\ h \in Jobs /\ Queued' = Queued \ {h}
      /\ ticket' = ticket /\ clock' = clock /\ finished' = finished
  BY <1>1, <1>2
<1>4. InFlight' = InFlight \cup {h}
  <2>1. /\ inHand \in [Workers -> Jobs \cup {None}] /\ inHand[w] = None /\ h # None
        /\ inHand' = [inHand EXCEPT ![w] = h]
    BY <1>3, <1>2, IoQueueAssumption DEF IInv, TypeOK, HandsFull, TryPop, TakeJob
  <2>2. ASSUME NEW x \in InFlight PROVE x \in InFlight'
    BY <2>1, <2>2 DEF InFlight
  <2>3. ASSUME NEW x \in InFlight' PROVE x \in InFlight \cup {h}
    BY <2>1, <2>3 DEF InFlight
  <2>4. h \in InFlight'
    BY <2>1 DEF InFlight
  <2> QED
    BY <2>2, <2>3, <2>4
<1>5. \A j \in Queued : ticket[j] # 0 /\ j \notin finished
  BY DEF IInv, JobsApart
<1>6. Status(h) = "pending" /\ Status(h)' = "running"
  BY <1>3, <1>4, <1>5 DEF Status
<1>7. ASSUME NEW j \in Jobs, j # h PROVE Status(j)' = Status(j)
  BY <1>3, <1>4, <1>7 DEF Status
<1>8. ASSUME NEW i \in Jobs, Status(i) = "pending" PROVE ~ Board!MoreUrgent(i, h)
  <2>1. PICK k \in 1 .. Len(queue) : queue[k] = i /\ i # Marker
    BY <1>8, IoQueueAssumption DEF Status, Queued
  <2>2. /\ queue[1] = h /\ 1 \in 1 .. Len(queue)
        /\ \A m \in 1 .. Len(queue) : queue[m] # Marker
    BY <1>2 DEF IInv, TypeOK, TryPop, MarkerPlaced
  <2>3. CASE k = 1
    BY <2>1, <2>2, <2>3, UrgencyIsStrict DEF IInv
  <2>4. CASE k # 1
    <3>1. Board!MoreUrgent(h, i)
      BY <2>1, <2>2, <2>4 DEF IInv, QueueOrdered, Precedes
    <3>2. /\ Priority[h] \in Nat /\ Priority[i] \in Nat
          /\ ticket[h] \in Nat /\ ticket[i] \in Nat
      BY <1>3, PriorityType DEF IInv, TypeOK
    <3> QED
      BY <3>1, <3>2 DEF Board!MoreUrgent
  <2> QED
    BY <2>3, <2>4
<1> QED
  BY <1>3, <1>6, <1>7, <1>8, <1>2 DEF Board!Start

LEMMA BoardFinish ==
  ASSUME IInv, NEW w \in Workers, EndCallback(w)
  PROVE  inHand[w] \in Jobs /\ Board!Finish(inHand[w])
<1>1. inHand[w] \in Jobs /\ inHand[w] # None
  BY DEF IInv, TypeOK, HandsFull, EndCallback
<1>2. PICK j \in Jobs : j = inHand[w]
  BY <1>1
<1>3. j \in InFlight /\ j # None
  BY <1>1, <1>2 DEF InFlight
<1>4. j \notin Queued /\ j \notin finished /\ ticket[j] # 0
  BY <1>3, <1>2 DEF IInv, JobsApart, EndCallback
<1>5. /\ Queued' = Queued /\ InFlight' = InFlight /\ finished' = finished \cup {j}
      /\ ticket' = ticket /\ clock' = clock
  BY <1>2 DEF EndCallback, Queued, InFlight, queueVars, history
<1>6. Status(j) = "running" /\ Status(j)' = "done"
  BY <1>3, <1>4, <1>5 DEF Status
<1>7. ASSUME NEW i \in Jobs, i # j PROVE Status(i)' = Status(i)
  BY <1>5, <1>7 DEF Status
<1>8. Board!Finish(j)
  BY <1>3, <1>5, <1>6, <1>7 DEF Board!Finish
<1> QED
  BY <1>1, <1>8, <1>2

LEMMA BoardRetire ==
  ASSUME IInv, NEW w \in Workers, Retire(w)
  PROVE  UNCHANGED Board!boardVars
<1>1. inHand[w] \in Jobs
  BY DEF IInv, TypeOK, HandsFull, Retire
<1>2. PICK j \in Jobs : j = inHand[w]
  BY <1>1
<1>3. j \in finished
  BY <1>2 DEF IInv, HandsFull, JobsApart, Retire
<1>4. /\ Queued' = Queued /\ finished' = finished
      /\ ticket' = ticket /\ clock' = clock
  BY DEF Retire, Queued, queueVars, history
<1>5. \A i \in Jobs : i # j => (i \in InFlight' <=> i \in InFlight)
  <2>1. inHand \in [Workers -> Jobs \cup {None}] /\ inHand' = [inHand EXCEPT ![w] = None]
    BY DEF IInv, TypeOK, Retire
  <2>2. None \notin Jobs
    BY IoQueueAssumption
  <2> QED
    BY <2>1, <2>2, <1>2 DEF InFlight
<1>6. ASSUME NEW i \in Jobs PROVE Status(i)' = Status(i)
  BY <1>3, <1>4, <1>5 DEF Status
<1> QED
  BY <1>4, <1>6 DEF Board!boardVars

LEMMA BoardRotate ==
  ASSUME IInv, NEW c \in Clients, Rotate(c)
  PROVE  \/ UNCHANGED Board!boardVars
         \/ Head(queue) \in Jobs /\ Board!Drop(Head(queue))
<1>1. /\ Head(queue) \in Jobs
      /\ Queued' = IF Head(queue) \in target[c] THEN Queued \ {Head(queue)} ELSE Queued
  BY RotateQueue DEF IInv
<1>2. PICK h \in Jobs : h = Head(queue)
  BY <1>1
<1>3. Queued' = IF h \in target[c] THEN Queued \ {h} ELSE Queued
  BY <1>1, <1>2
<1>4. /\ InFlight' = InFlight /\ finished' = finished
      /\ ticket' = ticket /\ clock' = clock
  BY DEF Rotate, InFlight, workerVars, history
<1>5. CASE h \notin target[c]
  BY <1>3, <1>4, <1>5, BoardUnchanged
<1>6. CASE h \in target[c]
  <2>1. h \in Queued
    <3>1. queue # << >> /\ queue \in Seq(Jobs \cup {Marker})
      BY IoQueueAssumption DEF IInv, TypeOK, LocksHeld, MarkerPlaced, Rotate, Threads
    <3>2. 1 \in 1 .. Len(queue) /\ queue[1] = h
      BY <3>1, <1>2
    <3> QED
      BY <1>3, <3>2, IoQueueAssumption DEF Queued
  <2>2. h \notin InFlight /\ h \notin finished /\ ticket[h] # 0
    BY <2>1 DEF IInv, JobsApart
  <2>3. Status(h) = "pending" /\ Status(h)' = "dropped"
    BY <1>3, <1>4, <1>6, <2>1, <2>2 DEF Status
  <2>4. ASSUME NEW i \in Jobs, i # h PROVE Status(i)' = Status(i)
    BY <1>3, <1>4, <1>6, <2>4 DEF Status
  <2>5. Board!Drop(h)
    BY <1>3, <1>4, <2>3, <2>4 DEF Board!Drop
  <2> QED
    BY <1>2, <2>5
<1> QED
  BY <1>5, <1>6

(* Every behaviour of the queue is one of JobBoard: at most one execution  *)
(* per job, none after a cancellation dropped it, the most urgent first.   *)
THEOREM Refinement == Spec => JobBoardSpec
<1>1. Init => Board!Init
  BY DEF Init, Board!Init, Status
<1>2. ASSUME IInv, NEW w \in Workers, WorkerStep(w)
      PROVE  Board!Next \/ UNCHANGED Board!boardVars
  <2>1. CASE CheckPause(w) \/ LockCount(w) \/ Execute(w)
    <3>1. /\ queue' = queue /\ inHand' = inHand /\ finished' = finished
          /\ ticket' = ticket /\ clock' = clock
      BY <2>1 DEF CheckPause, LockCount, Execute, queueVars, history
    <3>2. Queued' = Queued /\ InFlight' = InFlight
      BY <3>1 DEF Queued, InFlight
    <3> QED
      BY <3>1, <3>2, BoardUnchanged
  <2>2. CASE TryPop(w)
    <3>1. CASE FindNothing(w)
      <4>1. /\ queue' = queue /\ inHand' = inHand /\ finished' = finished
            /\ ticket' = ticket /\ clock' = clock
        BY <2>2, <3>1 DEF TryPop, FindNothing, history
      <4>2. Queued' = Queued /\ InFlight' = InFlight
        BY <4>1 DEF Queued, InFlight
      <4> QED
        BY <4>1, <4>2, BoardUnchanged
    <3>2. CASE queue # << >> /\ TakeJob(w, Head(queue), Tail(queue))
      <4>1. Head(queue) \in Jobs
        BY <1>2, <2>2, <3>2, TakeFromQueue DEF IInv, TryPop, TakeJob, history
      <4> QED
        BY <1>2, <2>2, <3>2, <4>1, BoardStart DEF Board!Next
    <3> QED
      BY <2>2, <3>1, <3>2 DEF TryPop
  <2>3. CASE \E j \in Jobs : CallbackAddsJob(w, j)
    BY <1>2, <2>3, BoardSubmit DEF CallbackAddsJob, InFlight, Board!Next
  <2>4. CASE EndCallback(w)
    BY <1>2, <2>4, BoardFinish DEF Board!Next
  <2>5. CASE Retire(w)
    BY <1>2, <2>5, BoardRetire
  <2> QED
    BY <1>2, <2>1, <2>2, <2>3, <2>4, <2>5 DEF WorkerStep
<1>3. ASSUME IInv, NEW c \in Clients, ClientStep(c)
      PROVE  Board!Next \/ UNCHANGED Board!boardVars
  <2>1. CASE \E j \in Jobs : AddJob(c, j)
    BY <1>3, <2>1, BoardSubmit DEF AddJob, InFlight, workerVars, Board!Next
  <2>2. CASE \E j \in Jobs : CancelJob(c, j) \/ CancelClass(c, Class[j])
    <3>1. PICK jobs \in SUBSET Jobs : BeginCancel(c, jobs)
      BY <2>2 DEF CancelJob, CancelClass
    <3>2. Queued' = Queued
      BY <1>3, <3>1, PutMarker, Zenon DEF IInv
    <3> QED
      BY <3>1, <3>2, BoardUnchanged DEF BeginCancel, InFlight, workerVars, history
  <2>3. CASE Rotate(c)
    BY <1>3, <2>3, BoardRotate DEF Board!Next
  <2>4. CASE EndCancel(c)
    <3>1. Queued' = Queued
      BY <1>3, <2>4, RemoveMarker DEF IInv
    <3> QED
      BY <2>4, <3>1, BoardUnchanged DEF EndCancel, InFlight, workerVars, history
  <2>5. CASE BeginJobsLeft(c) \/ ReadLength(c) \/ EndJobsLeft(c) \/ Pause(c) \/ Unpause(c)
    BY <2>5, BoardUnchanged
       DEF BeginJobsLeft, ReadLength, EndJobsLeft, Pause, Unpause, Queued, InFlight,
           queueVars, workerVars, history
  <2> QED
    BY <1>3, <2>1, <2>2, <2>3, <2>4, <2>5 DEF ClientStep
<1>4. UNCHANGED vars => UNCHANGED Board!boardVars
  BY BoardUnchanged DEF vars, queueVars, workerVars, history, Queued, InFlight
<1>5. IInv /\ [Next]_vars => [Board!Next]_(Board!boardVars)
  BY <1>2, <1>3, <1>4 DEF Next
<1> QED
  BY <1>1, <1>5, Invariance, PTL DEF Spec, JobBoardSpec, Board!Spec
=============================================================================
