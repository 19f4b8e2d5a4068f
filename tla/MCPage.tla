-------------------------------- MODULE MCPage ---------------------------------
(***************************************************************************)
(* Small instances of Page for TLC.                                        *)
(***************************************************************************)
EXTENDS Page

\* Entries differ only by name; safety runs only.
Symmetry == Permutations(Ids)
===============================================================================
