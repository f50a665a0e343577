----------------------------- MODULE MCStoreLoad -----------------------------
(* StoreLoad with two files, and two names for the row of each: one may    *)
(* still be used by a job whose row was removed.                           *)
EXTENDS StoreLoad

CONSTANTS a, b, a1, a2, b1, b2

MCFileOf == [r \in Rows |-> IF r \in {a1, a2} THEN a ELSE b]

MCDirs == {{}, {a, b}}

MCFullDirs == {{a}, {a, b}}
=============================================================================
