------------------------------ MODULE MCLibrary ------------------------------
(* Library with a photo in the directory, one the camera takes, a tag both *)
(* of them get from their metadata and one that users give.                *)
EXTENDS Library

CONSTANTS p, q, camera, holiday

MCAutoNames == [f \in Files |-> {camera}]
=============================================================================
