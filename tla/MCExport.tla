------------------------------ MODULE MCExport ------------------------------
(* Export with two entries, two dialogs, and two threads for each queue.   *)
EXTENDS Export

CONSTANTS e1, e2, j1, j2, b1, b2, w1, w2
=============================================================================
