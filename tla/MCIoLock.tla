------------------------------ MODULE MCIoLock ------------------------------
(* IoLock with the three kinds of thread that take the lock: the io worker, *)
(* the main thread, and one more.                                          *)
EXTENDS IoLock

CONSTANTS worker, main, other
=============================================================================
