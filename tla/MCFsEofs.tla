------------------------------ MODULE MCFsEofs ------------------------------
(* Model-checking instances of FsEofs; the constants are in the .cfg files. *)
EXTENDS FsEofs
=============================================================================
