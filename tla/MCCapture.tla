------------------------------- MODULE MCCapture ------------------------------
(***************************************************************************)
(* Small instances of CaptureReader for TLC.                               *)
(***************************************************************************)
EXTENDS CaptureReader, TLC
===============================================================================
