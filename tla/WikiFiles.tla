------------------------------ MODULE WikiFiles ------------------------------
(* The wiki's files, which splits and merges write and compiles read:      *)
(* what Store::read (store.rs) answers for each slug.                      *)
EXTENDS WikiNames, Naturals, Sequences, FiniteSets, Functions

CONSTANT Garbled   \* a file that is not a page

ASSUME WikiNone == None # Garbled

VARIABLE disk  \* each slug's file

IsPage(file) == file \notin {None, Garbled}

\* A page the caller may not read is not there for him.
Readable(file) == IsPage(file) /\ file.readers # "other"
=============================================================================
