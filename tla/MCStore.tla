------------------------------- MODULE MCStore --------------------------------
(***************************************************************************)
(* Small instances of Store for TLC.                                       *)
(***************************************************************************)
EXTENDS Store, TLC

\* Exchanges differ only by name; safety runs only.
Symmetry == Permutations(Ids) \cup Permutations(Clearers)
===============================================================================
