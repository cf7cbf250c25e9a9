-------------------------- MODULE MCAcquisitionTask -------------------------
(***************************************************************************)
(* AcquisitionTask for TLC.  Three indices are enough to tell the last,    *)
(* the current and the next one apart.                                     *)
(***************************************************************************)
EXTENDS AcquisitionTask
=============================================================================
