----------------------------- MODULE MCPageFile ----------------------------
(* PageFile for TLC, which needs nothing defined: see the .cfg files.      *)
EXTENDS PageFile
=============================================================================
