----------------------------- MODULE MCStoreReads -----------------------------
(***************************************************************************)
(* Small instances of StoreReads for TLC.                                  *)
(***************************************************************************)
EXTENDS StoreReads, TLC

\* Exchanges differ only by name; safety runs only.
Symmetry == Permutations(Ids)
===============================================================================
