-------------------------- MODULE StoreLoadProofs ---------------------------
(***************************************************************************)
(* Proofs about StoreLoad, for any files, rows, directories, priorities    *)
(* and any number of operations.                                           *)
(***************************************************************************)
EXTENDS StoreLoad, FiniteSetTheorems, TLAPS

(* Between the two halves of rs_store_load_file() the job of the row is    *)
(* queued, or taken already, but not counted up; outside them no row is    *)
(* remembered.  Without this JobsToDoExact is not inductive: the step that *)
(* counts up has to know that the job has not been counted down before.    *)
HalfLoaded ==
  /\ op.do = "count" => /\ op.row \in Rows \ counted
                        /\ op.row \in InQueue \cup {flight}
  /\ op.do # "count" => op.row = None

IInv == /\ TypeOK
        /\ LabelsFollow
        /\ JobsToDoExact
        /\ RemovedStaysRemoved
        /\ HalfLoaded
-----------------------------------------------------------------------------
(* What the operators on the queue and on the counts return. *)

(* count_priorities() returns a natural number for every priority. *)
LEMMA CountType ==
  ASSUME NEW R \in SUBSET Rows, NEW p
  PROVE  Count(R, p) \in [Prios -> Nat]
<1>1. ASSUME NEW q \in Prios PROVE Cardinality({r \in R : p[r] = q}) \in Nat
  BY FS_Subset, FS_CardinalityType, StoreLoadAssumption
<1> QED
  BY <1>1 DEF Count

(* The jobs in the queue after one is appended, taken or all are dropped. *)
LEMMA QueueAfterAppend ==
  ASSUME TypeOK, NEW r \in Rows, pending' = Append(pending, r)
  PROVE  pending' \in Seq(Rows) /\ InQueue' = InQueue \cup {r}
<1>1. pending \in Seq(Rows)
  BY DEF TypeOK
<1>2. Len(pending') = Len(pending) + 1
      /\ \A i \in 1 .. Len(pending) + 1 :
           pending'[i] = IF i <= Len(pending) THEN pending[i] ELSE r
  BY <1>1
<1>3. pending' \in Seq(Rows)
  BY <1>1
<1>4. InQueue' = {pending'[i] : i \in 1 .. Len(pending) + 1}
  BY <1>2, <1>3 DEF InQueue
<1>5. InQueue = {pending[i] : i \in 1 .. Len(pending)}
  BY <1>1 DEF InQueue
<1>6. Len(pending) \in Nat
  BY <1>1
<1> QED
  BY <1>2, <1>3, <1>4, <1>5, <1>6

LEMMA QueueAfterTake ==
  ASSUME TypeOK, pending # <<>>, pending' = Tail(pending)
  PROVE  /\ pending' \in Seq(Rows) /\ Head(pending) \in Rows
         /\ InQueue \subseteq InQueue' \cup {Head(pending)}
<1>1. pending \in Seq(Rows) /\ Len(pending) \in Nat \ {0}
  BY DEF TypeOK
<1>2. pending' \in Seq(Rows) /\ Head(pending) = pending[1] /\ pending[1] \in Rows
  BY <1>1
<1>3. /\ Len(pending') = Len(pending) - 1
      /\ \A j \in 1 .. Len(pending) - 1 : pending'[j] = pending[j + 1]
      /\ DOMAIN pending' = 1 .. Len(pending) - 1
  BY <1>1
<1>4. ASSUME NEW i \in 1 .. Len(pending), i # 1
      PROVE  pending[i] \in InQueue'
  <2>1. i - 1 \in 1 .. Len(pending) - 1 /\ (i - 1) + 1 = i
    BY <1>1, <1>4
  <2>2. pending'[i - 1] = pending[i]
    BY <1>3, <2>1
  <2> QED
    BY <1>3, <2>1, <2>2 DEF InQueue
<1>5. InQueue = {pending[i] : i \in 1 .. Len(pending)}
  BY <1>1 DEF InQueue
<1> QED
  BY <1>1, <1>2, <1>4, <1>5

LEMMA EmptyQueue == pending = <<>> => InQueue = {}
  BY DEF InQueue

LEMMA CardinalitySplit ==
  ASSUME NEW S, NEW T, IsFiniteSet(S)
  PROVE  /\ IsFiniteSet(S \ T) /\ IsFiniteSet(S \cap T)
         /\ Cardinality(S \ T) \in Nat /\ Cardinality(S \cap T) \in Nat
         /\ Cardinality(S) = Cardinality(S \ T) + Cardinality(S \cap T)
<1> DEFINE A == S \ T
           B == S \cap T
<1>1. A \in SUBSET S /\ B \in SUBSET S /\ A \cup B = S /\ A \cap B = {}
  OBVIOUS
<1> SUFFICES /\ IsFiniteSet(A) /\ IsFiniteSet(B)
             /\ Cardinality(A) \in Nat /\ Cardinality(B) \in Nat
             /\ Cardinality(S) = Cardinality(A) + Cardinality(B)
  OBVIOUS
<1> HIDE DEF A, B
<1>2. IsFiniteSet(A) /\ IsFiniteSet(B)
  BY <1>1, FS_Subset
<1>3. Cardinality(A) \in Nat /\ Cardinality(B) \in Nat
  BY <1>2, FS_CardinalityType
<1>4. Cardinality(A \cup B) = Cardinality(A) + Cardinality(B) - Cardinality(A \cap B)
  BY <1>2, FS_Union
<1>5. A \cap B = {} => Cardinality(A \cap B) = 0
  BY FS_EmptySet
<1>6. Cardinality(S) = Cardinality(A) + Cardinality(B) - 0
  BY <1>1, <1>4, <1>5
<1> QED
  BY <1>2, <1>3, <1>6

(* The jobs counted up are finitely many. *)
LEMMA CountedFinite == TypeOK => IsFiniteSet(counted)
  BY FS_Subset, StoreLoadAssumption DEF TypeOK

-----------------------------------------------------------------------------
(* The invariant, action by action. *)

(* Reload, Activate and Search empty the store and cancel the queue.       *)
LEMMA RemoveAllKeeps ==
  ASSUME IInv, RemoveAll, GdkLockFree, UNCHANGED <<blockVars, jobsToDo, disk>>,
         op'.row = None, op'.do # "count",
         op' \in [do : {"nothing", "begin", "add", "count"}, files : SUBSET Files,
                  row : Rows \cup {None}],
         opening' \in {None} \cup SUBSET Files, ops' \in 0 .. MaxOps
  PROVE  IInv'
<1> USE DEF IInv, RemoveAll, blockVars
<1>1. TypeOK /\ IsFiniteSet(counted)
  BY CountedFinite
<1>2. InQueue' = {} /\ pending' \in Seq(Rows)
  BY DEF InQueue
<1>3. /\ IsFiniteSet(counted \ InQueue) /\ IsFiniteSet(counted \cap InQueue)
      /\ Cardinality(counted \ InQueue) \in Nat
      /\ Cardinality(counted \cap InQueue) \in Nat
      /\ Cardinality(counted) = Cardinality(counted \ InQueue)
                                + Cardinality(counted \cap InQueue)
  BY <1>1, CardinalitySplit
<1>4. TypeOK'
  <2>1. labels' \in {None} \cup [Prios -> Nat]
    <3>1. Count(rows', prio') \in [Prios -> Nat]
      BY CountType
    <3>2. labels' \in {labels, Count(rows', prio')}
      OBVIOUS
    <3> QED
      BY <1>1, <3>1, <3>2 DEF TypeOK
  <2>2. prio' \in [Rows -> Prios]
    BY StoreLoadAssumption
  <2>3. /\ jobsToDo' \in Int /\ lost' \in Nat /\ stray' \in Nat
        /\ blocks' \in Nat /\ counterBlocked' \in BOOLEAN
        /\ counted' \subseteq Rows
    BY <1>1, <1>3 DEF TypeOK
  <2>4. /\ flight' \in {None} \cup Rows
        /\ worker' \in {"take", "read", "update", "count", "finish"}
        /\ worker' \in {"read", "update", "count"} <=> flight' # None
        /\ priority' \in Prios /\ disk' \in [Files -> Prios]
    BY <1>1 DEF TypeOK
  <2>5. rows' \subseteq Rows /\ undisturbed' \in BOOLEAN
    BY Zenon
  <2> HIDE DEF RemoveAll, IInv
  <2> QED
    BY <1>2, <2>1, <2>2, <2>3, <2>4, <2>5 DEF TypeOK
<1>5. LabelsFollow'
  <2>1. ASSUME blocks = 0 PROVE labels' = Count(rows', prio')
    <3>1. CASE rows = {}
      BY <2>1, <3>1 DEF LabelsFollow, Count
    <3>2. CASE rows # {}
      BY <3>2
    <3> QED
      BY <3>1, <3>2
  <2> QED
    BY <2>1 DEF LabelsFollow
<1>6. JobsToDoExact'
  <2>1. jobsToDo' = Cardinality(counted') + lost' - stray'
    BY <1>1, <1>3 DEF JobsToDoExact, TypeOK
  <2>2. counted' \subseteq InQueue' \cup {flight'}
    BY <1>2 DEF JobsToDoExact
  <2>3. worker' = "count" => flight' # op'.row
    BY <1>1 DEF TypeOK
  <2> QED
    BY <2>1, <2>2, <2>3 DEF JobsToDoExact
<1>7. RemovedStaysRemoved'
  BY DEF RemovedStaysRemoved
<1> QED
  BY <1>4, <1>5, <1>6, <1>7 DEF HalfLoaded

LEMMA UserKeeps ==
  ASSUME IInv, UserStep
  PROVE  IInv'
<1> USE DEF IInv
<1>a. Idle \in [do : {"nothing", "begin", "add", "count"}, files : SUBSET Files,
                row : Rows \cup {None}]
      /\ Idle.row = None /\ Idle.do = "nothing"
  BY DEF Idle
<1>b. ASSUME NEW files \in Dirs, NEW d \in {"begin", "add"},
             op' = [do |-> d, files |-> files, row |-> None]
      PROVE  /\ op'.row = None /\ op'.do # "count"
             /\ op' \in [do : {"nothing", "begin", "add", "count"},
                         files : SUBSET Files, row : Rows \cup {None}]
  BY <1>b, StoreLoadAssumption
<1>c. ASSUME StartOperation
      PROVE  /\ ops' \in 0 .. MaxOps /\ GdkLockFree
             /\ UNCHANGED <<blockVars, jobsToDo, disk>>
  BY <1>c, StoreLoadAssumption DEF StartOperation, TypeOK
<1>1. ASSUME NEW files \in Dirs, Reload(files) PROVE IInv'
  BY <1>1, <1>b, <1>c, RemoveAllKeeps DEF Reload, TypeOK
<1>2. ASSUME NEW files \in Dirs, Activate(files) PROVE IInv'
  BY <1>2, <1>a, <1>c, RemoveAllKeeps, StoreLoadAssumption
     DEF Activate, GdkLockFree
<1>3. ASSUME NEW files \in Dirs, Search(files) PROVE IInv'
  BY <1>3, <1>b, <1>c, RemoveAllKeeps DEF Search, TypeOK
<1>4. ASSUME NEW f \in Files, Tether(f) PROVE IInv'
  <2>1. op' = [do |-> "add", files |-> {f}, row |-> None]
    BY <1>4 DEF Tether
  <2>2. /\ ops' \in 0 .. MaxOps /\ GdkLockFree
        /\ UNCHANGED <<blockVars, jobsToDo, disk>>
    BY <1>4, <1>c DEF Tether
  <2>3. UNCHANGED <<rowVars, jobVars, opening, history>>
    BY <1>4 DEF Tether
  <2> USE <2>1, <2>2, <2>3 DEF rowVars, jobVars, history, blockVars
  <2>4. TypeOK'
    BY DEF TypeOK
  <2>5. LabelsFollow' /\ RemovedStaysRemoved'
    BY DEF LabelsFollow, RemovedStaysRemoved
  <2>6. JobsToDoExact'
    BY DEF JobsToDoExact, InQueue, TypeOK
  <2>7. HalfLoaded'
    BY DEF HalfLoaded
  <2> QED
    BY <2>4, <2>5, <2>6, <2>7
<1>5. ASSUME NEW r \in Rows, NEW p \in Prios, SetFlags(r, p) PROVE IInv'
  <2> USE <1>5 DEF SetFlags, jobVars, history, blockVars
  <2>1. prio' \in [Rows -> Prios] /\ disk' \in [Files -> Prios]
    BY StoreLoadAssumption DEF TypeOK
  <2>2. TypeOK'
    BY <2>1, CountType DEF TypeOK, RowChanged
  <2>3. LabelsFollow'
    BY DEF LabelsFollow, RowChanged
  <2>4. JobsToDoExact' /\ HalfLoaded'
    BY DEF JobsToDoExact, HalfLoaded, InQueue
  <2>5. RemovedStaysRemoved'
    BY DEF RemovedStaysRemoved, TypeOK
  <2> QED
    BY <2>2, <2>3, <2>4, <2>5
<1>6. ASSUME NEW r \in Rows, RemoveRow(r) PROVE IInv'
  <2> USE <1>6 DEF RemoveRow, jobVars, history, blockVars
  <2>1. prio' \in [Rows -> Prios]
    BY StoreLoadAssumption DEF TypeOK
  <2>2. TypeOK'
    BY <2>1, CountType DEF TypeOK
  <2>3. LabelsFollow'
    BY DEF LabelsFollow
  <2>4. JobsToDoExact' /\ HalfLoaded'
    BY DEF JobsToDoExact, HalfLoaded, InQueue
  <2>5. RemovedStaysRemoved'
    BY DEF RemovedStaysRemoved, TypeOK
  <2> QED
    BY <2>2, <2>3, <2>4, <2>5
<1> QED
  BY <1>1, <1>2, <1>3, <1>4, <1>5, <1>6 DEF UserStep

LEMMA OperationKeeps ==
  ASSUME IInv, OperationStep
  PROVE  IInv'
<1> USE DEF IInv
<1>1. CASE ResumeActivate
  <2> USE <1>1 DEF ResumeActivate, rowVars, jobVars, history, blockVars
  <2>1. op' = [do |-> "begin", files |-> opening, row |-> None]
    OBVIOUS
  <2>2. TypeOK'
    BY <2>1 DEF TypeOK
  <2>3. LabelsFollow' /\ RemovedStaysRemoved'
    BY DEF LabelsFollow, RemovedStaysRemoved
  <2>4. JobsToDoExact' /\ HalfLoaded'
    BY <2>1 DEF JobsToDoExact, HalfLoaded, InQueue, TypeOK
  <2> QED
    BY <2>2, <2>3, <2>4
<1>2. CASE BeginLoad
  <2> USE <1>2 DEF BeginLoad, jobVars
  <2>1. op' \in [do : {"nothing", "begin", "add", "count"}, files : SUBSET Files,
                 row : Rows \cup {None}]
        /\ op'.do = "add" /\ op'.row = op.row /\ op.row = None
    BY DEF TypeOK, HalfLoaded
  <2>2. TypeOK'
    BY <2>1 DEF TypeOK
  <2>3. LabelsFollow' /\ RemovedStaysRemoved'
    BY DEF LabelsFollow, RemovedStaysRemoved, TypeOK
  <2>4. JobsToDoExact'
    BY <2>1, FS_EmptySet DEF JobsToDoExact, TypeOK
  <2> QED
    BY <2>1, <2>2, <2>3, <2>4 DEF HalfLoaded
<1>3. CASE AddRow
  <2>1. PICK r \in Rows \ (rows \cup InQueue \cup {flight}) :
          /\ rows' = rows \cup {r}
          /\ pending' = Append(pending, r)
          /\ op' = [do |-> "count", files |-> op.files \ {FileOf[r]}, row |-> r]
    BY <1>3 DEF AddRow
  <2>2. /\ UNCHANGED prio /\ RowChanged
        /\ UNCHANGED <<blockVars, jobsToDo, flight, worker, priority, disk,
                       opening, ops, history>>
    BY <1>3 DEF AddRow
  <2> USE <2>2 DEF history, blockVars
  <2>3. pending' \in Seq(Rows) /\ InQueue' = InQueue \cup {r}
    BY <2>1, QueueAfterAppend
  <2>4. op' \in [do : {"nothing", "begin", "add", "count"}, files : SUBSET Files,
                 row : Rows \cup {None}]
        /\ op'.do = "count" /\ op'.row = r
    BY <2>1 DEF TypeOK
  <2>5. rows' \subseteq Rows
    BY <2>1 DEF TypeOK
  <2>6. TypeOK'
    BY <2>3, <2>4, <2>5, CountType DEF TypeOK, RowChanged
  <2>7. LabelsFollow' /\ RemovedStaysRemoved'
    BY <2>1 DEF LabelsFollow, RemovedStaysRemoved, RowChanged
  <2>8. r \notin counted /\ r # flight
    BY <2>1 DEF JobsToDoExact
  <2>9. JobsToDoExact'
    BY <2>3, <2>4, <2>8 DEF JobsToDoExact
  <2>10. HalfLoaded'
    BY <2>3, <2>4, <2>8 DEF HalfLoaded
  <2> QED
    BY <2>6, <2>7, <2>9, <2>10
<1>4. CASE CountUp
  <2> USE <1>4 DEF CountUp, rowVars, jobVars, blockVars
  <2>1. op' \in [do : {"nothing", "begin", "add", "count"}, files : SUBSET Files,
                 row : Rows \cup {None}]
        /\ op'.do = "add" /\ op'.row = None
    BY DEF TypeOK
  <2>2. op.row \in Rows \ counted /\ op.row \in InQueue \cup {flight}
    BY DEF HalfLoaded
  <2>3. Cardinality(counted') = Cardinality(counted) + 1
        /\ Cardinality(counted) \in Nat
    BY <2>2, CountedFinite, FS_AddElement, FS_CardinalityType
  <2>4. TypeOK'
    BY <2>1, <2>2 DEF TypeOK
  <2>5. LabelsFollow' /\ RemovedStaysRemoved'
    BY DEF LabelsFollow, RemovedStaysRemoved
  <2>6. InQueue' = InQueue
    BY DEF InQueue
  <2>7. jobsToDo' = Cardinality(counted') + lost' - stray'
    BY <2>3 DEF JobsToDoExact, TypeOK
  <2>8. worker' = "count" => flight' # op'.row
    BY <2>1 DEF TypeOK
  <2>9. JobsToDoExact'
    BY <2>2, <2>6, <2>7, <2>8 DEF JobsToDoExact
  <2> QED
    BY <2>1, <2>4, <2>5, <2>9 DEF HalfLoaded
<1>5. CASE EndOperation
  <2> USE <1>5 DEF EndOperation, Idle, rowVars, jobVars, history, blockVars
  <2>1. TypeOK'
    BY DEF TypeOK
  <2>2. LabelsFollow' /\ RemovedStaysRemoved'
    BY DEF LabelsFollow, RemovedStaysRemoved
  <2>3. JobsToDoExact' /\ HalfLoaded'
    BY DEF JobsToDoExact, HalfLoaded, InQueue, TypeOK
  <2> QED
    BY <2>1, <2>2, <2>3
<1> QED
  BY <1>1, <1>2, <1>3, <1>4, <1>5 DEF OperationStep

LEMMA WorkerKeeps ==
  ASSUME IInv, WorkerStep
  PROVE  IInv'
<1> USE DEF IInv
<1>1. CASE TakeJob
  <2> USE <1>1 DEF TakeJob, rowVars, history, blockVars
  <2>1. /\ pending' \in Seq(Rows) /\ flight' \in Rows
        /\ InQueue \subseteq InQueue' \cup {flight'}
    BY QueueAfterTake
  <2>2. flight = None /\ flight' # None
    BY <2>1, StoreLoadAssumption DEF TypeOK
  <2>3. TypeOK'
    BY <2>1, <2>2 DEF TypeOK
  <2>4. LabelsFollow' /\ RemovedStaysRemoved'
    BY DEF LabelsFollow, RemovedStaysRemoved
  <2>5. JobsToDoExact'
    BY <2>1, <2>2, StoreLoadAssumption DEF JobsToDoExact, TypeOK
  <2>6. HalfLoaded'
    BY <2>1, <2>2, StoreLoadAssumption DEF HalfLoaded
  <2> QED
    BY <2>3, <2>4, <2>5, <2>6
<1>2. CASE ReadFlags
  <2> USE <1>2 DEF ReadFlags, rowVars, history, blockVars
  <2>1. priority' \in Prios
    BY StoreLoadAssumption DEF TypeOK
  <2>2. TypeOK'
    BY <2>1 DEF TypeOK
  <2>3. LabelsFollow' /\ RemovedStaysRemoved'
    BY DEF LabelsFollow, RemovedStaysRemoved
  <2>4. JobsToDoExact' /\ HalfLoaded'
    BY DEF JobsToDoExact, HalfLoaded, InQueue
  <2> QED
    BY <2>2, <2>3, <2>4
<1>3. CASE UpdateRow
  <2>1. /\ worker = "update" /\ GdkLockFree /\ worker' = "count"
        /\ priority' = PRIO_U
        /\ UNCHANGED <<blocks, counterBlocked, jobsToDo, pending, flight, disk,
                       op, opening, ops, counted, lost, stray, undisturbed>>
    BY <1>3 DEF UpdateRow, blockVars, history
  <2>2. /\ UNCHANGED rows
        /\ prio' \in [Rows -> Prios]
        /\ labels' \in {None} \cup [Prios -> Nat]
        /\ blocks = 0 => labels' = Count(rows', prio')
        /\ RemovedStaysRemoved'
    <3>1. CASE flight \in rows
      <4>1. /\ prio' = [prio EXCEPT ![flight] = priority] /\ UNCHANGED rows
            /\ RowChanged
        BY <1>3, <3>1 DEF UpdateRow
      <4> QED
        BY <3>1, <4>1, CountType DEF RowChanged, RemovedStaysRemoved, TypeOK
    <3>2. CASE flight \notin rows
      <4>1. UNCHANGED rowVars
        BY <1>3, <3>2 DEF UpdateRow
      <4> QED
        BY <4>1 DEF rowVars, LabelsFollow, RemovedStaysRemoved, TypeOK
    <3> QED
      BY <3>1, <3>2
  <2>3. TypeOK'
    BY <2>1, <2>2, StoreLoadAssumption DEF TypeOK
  <2>4. LabelsFollow'
    BY <2>1, <2>2 DEF LabelsFollow
  <2>5. op.row = None /\ flight # None
    BY <2>1 DEF GdkLockFree, Idle, TypeOK
  <2>6. JobsToDoExact' /\ HalfLoaded'
    BY <2>1, <2>5 DEF JobsToDoExact, HalfLoaded, InQueue
  <2> QED
    BY <2>2, <2>3, <2>4, <2>6
<1>4. CASE CountDown
  <2> USE <1>4 DEF CountDown, rowVars, blockVars
  <2>1. flight \in Rows
    BY DEF TypeOK
  <2>2. /\ Cardinality(counted) \in Nat /\ Cardinality(counted') \in Nat
        /\ Cardinality(counted') = IF flight \in counted
                                     THEN Cardinality(counted) - 1
                                     ELSE Cardinality(counted)
    BY CountedFinite, FS_RemoveElement, FS_CardinalityType
  <2>3. TypeOK'
    BY <2>1 DEF TypeOK
  <2>4. LabelsFollow' /\ RemovedStaysRemoved'
    BY DEF LabelsFollow, RemovedStaysRemoved
  <2>5. InQueue' = InQueue
    BY DEF InQueue
  <2>6. jobsToDo' = Cardinality(counted') + lost' - stray'
    BY <2>2 DEF JobsToDoExact, TypeOK
  <2>7. JobsToDoExact'
    BY <2>5, <2>6 DEF JobsToDoExact
  <2>8. HalfLoaded'
    BY <2>5 DEF HalfLoaded, JobsToDoExact
  <2> QED
    BY <2>3, <2>4, <2>7, <2>8
<1>5. CASE Finish
  <2> USE <1>5 DEF Finish, history
  <2>1. blocks' \in Nat
    BY DEF LabelsFollow, TypeOK
  <2>2. TypeOK'
    BY <2>1, CountType DEF TypeOK
  <2>3. LabelsFollow' /\ RemovedStaysRemoved'
    BY DEF LabelsFollow, RemovedStaysRemoved
  <2>4. JobsToDoExact' /\ HalfLoaded'
    BY DEF JobsToDoExact, HalfLoaded, InQueue
  <2> QED
    BY <2>2, <2>3, <2>4
<1> QED
  BY <1>1, <1>2, <1>3, <1>4, <1>5 DEF WorkerStep

-----------------------------------------------------------------------------
LEMMA InitHolds == Init => IInv
<1> SUFFICES ASSUME Init PROVE IInv
  OBVIOUS
<1> USE DEF Init
<1>1. TypeOK
  <2>1. prio \in [Rows -> Prios] /\ labels \in [Prios -> Nat]
    BY StoreLoadAssumption
  <2>2. op \in [do : {"nothing", "begin", "add", "count"}, files : SUBSET Files,
                row : Rows \cup {None}]
    BY DEF Idle
  <2>3. pending \in Seq(Rows) /\ ops \in 0 .. MaxOps
    BY StoreLoadAssumption
  <2>4. /\ jobsToDo \in Int /\ lost \in Nat /\ stray \in Nat
        /\ blocks \in Nat /\ counted \subseteq Rows
    OBVIOUS
  <2>5. /\ flight \in {None} \cup Rows
        /\ worker \in {"take", "read", "update", "count", "finish"}
        /\ worker \in {"read", "update", "count"} <=> flight # None
        /\ priority \in Prios /\ disk \in [Files -> Prios]
    BY StoreLoadAssumption
  <2>6. rows \subseteq Rows /\ opening \in {None} \cup SUBSET Files
    OBVIOUS
  <2>7. undisturbed \in BOOLEAN /\ counterBlocked \in BOOLEAN
    BY Zenon
  <2> HIDE DEF Init
  <2> QED
    BY <2>1, <2>2, <2>3, <2>4, <2>5, <2>6, <2>7 DEF TypeOK
<1>2. labels = Count(rows, prio)
  <2>1. \A q \in Prios : {r \in rows : prio[r] = q} = {}
    OBVIOUS
  <2> QED
    BY <2>1, FS_EmptySet DEF Count
<1>3. LabelsFollow
  BY <1>2 DEF LabelsFollow
<1>4. JobsToDoExact
  BY FS_EmptySet DEF JobsToDoExact
<1>5. RemovedStaysRemoved /\ HalfLoaded
  BY DEF RemovedStaysRemoved, HalfLoaded, Idle
<1> QED
  BY <1>1, <1>3, <1>4, <1>5 DEF IInv

LEMMA StepKeeps == IInv /\ [Next]_vars => IInv'
<1> SUFFICES ASSUME IInv, [Next]_vars PROVE IInv'
  OBVIOUS
<1>1. CASE Next
  BY <1>1, UserKeeps, OperationKeeps, WorkerKeeps DEF Next
<1>2. CASE UNCHANGED vars
  <2> USE <1>2 DEF vars, rowVars, blockVars, jobVars, history, IInv
  <2>1. TypeOK' /\ LabelsFollow' /\ RemovedStaysRemoved'
    BY DEF TypeOK, LabelsFollow, RemovedStaysRemoved
  <2>2. JobsToDoExact' /\ HalfLoaded'
    BY DEF JobsToDoExact, HalfLoaded, InQueue
  <2> QED
    BY <2>1, <2>2
<1> QED
  BY <1>1, <1>2

(* The strengthened invariant of loading a directory holds in every state. *)
THEOREM Inductive == Spec => []IInv
  BY InitHolds, StepKeeps, PTL DEF Spec

(* The variables of the loading of a directory keep their types. *)
THEOREM LoadTypes == Spec => []TypeOK
  BY Inductive, PTL DEF IInv

(* The tabs show what the store holds whenever the handler of row-changed  *)
(* is not blocked, and it is never unblocked in excess.                    *)
THEOREM LoadLabels == Spec => []LabelsFollow
  BY Inductive, PTL DEF IInv

(* jobs_to_do is the number of jobs still to do, plus those cancelled,     *)
(* minus the count-downs by jobs of an earlier load; and no job counts     *)
(* down before rs_store_load_file() counted it up.                         *)
THEOREM LoadCounter == Spec => []JobsToDoExact
  BY Inductive, PTL DEF IInv

(* got_metadata() never brings back a row that was removed meanwhile.      *)
THEOREM LoadRemoved == Spec => []RemovedStaysRemoved
  BY Inductive, PTL DEF IInv
=============================================================================
