---------------------------- MODULE MCPhotoFiles ----------------------------
(* PhotoFiles with the files of one photo. *)
EXTENDS PhotoFiles

CONSTANTS p
=============================================================================
