------------------------------ MODULE JobBoard ------------------------------
(***************************************************************************)
(* What librawstudio/rs-io.c promises to the code that queues background   *)
(* work: a job that is handed over is either executed exactly once or      *)
(* dropped by a cancellation, and the next job to be executed is always    *)
(* the most urgent one, the oldest of them among equals.                   *)
(*                                                                         *)
(* No thread, lock or queue appears here; IoQueue implements this module.  *)
(***************************************************************************)
EXTENDS Integers

CONSTANTS Jobs,         \* the jobs that may ever be handed over
          Priority      \* [Jobs -> Nat], a lower value is more urgent

VARIABLES status,       \* where each job stands
          ticket,       \* when each job was handed over, 0 before that
          clock         \* the next ticket

boardVars == <<status, ticket, clock>>

Statuses == {"new", "pending", "running", "done", "dropped"}

Init == /\ status = [j \in Jobs |-> "new"]
        /\ ticket = [j \in Jobs |-> 0]
        /\ clock = 1

Submit(j) == /\ status[j] = "new"
             /\ status' = [status EXCEPT ![j] = "pending"]
             /\ ticket' = [ticket EXCEPT ![j] = clock]
             /\ clock' = clock + 1

(* i is to be executed before j *)
MoreUrgent(i, j) == \/ Priority[i] < Priority[j]
                    \/ Priority[i] = Priority[j] /\ ticket[i] < ticket[j]

Start(j) == /\ status[j] = "pending"
            /\ \A i \in Jobs : status[i] = "pending" => ~ MoreUrgent(i, j)
            /\ status' = [status EXCEPT ![j] = "running"]
            /\ UNCHANGED <<ticket, clock>>

Finish(j) == /\ status[j] = "running"
             /\ status' = [status EXCEPT ![j] = "done"]
             /\ UNCHANGED <<ticket, clock>>

Drop(j) == /\ status[j] = "pending"
           /\ status' = [status EXCEPT ![j] = "dropped"]
           /\ UNCHANGED <<ticket, clock>>

Next == \E j \in Jobs : Submit(j) \/ Start(j) \/ Finish(j) \/ Drop(j)

Spec == Init /\ [][Next]_boardVars
=============================================================================
