----------------------------- MODULE MCIoQueue ------------------------------
(* A small instance of IoQueue: the one worker of init(), the main   *)
(* thread, two jobs of equal priority and class, and a third their         *)
(* callbacks may add.                                                      *)
EXTENDS IoQueue, TLC

CONSTANTS w1, main, thumb1, thumb2, checksum

MCWorkers == {w1}
MCClients == {main}
MCJobs    == {thumb1, thumb2, checksum}
MCKind    == (thumb1 :> "metadata") @@ (thumb2 :> "metadata")
               @@ (checksum :> "checksum")
MCClass   == (thumb1 :> "METADATA") @@ (thumb2 :> "METADATA")
               @@ (checksum :> "LIBRARY")
=============================================================================
