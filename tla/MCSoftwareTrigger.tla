-------------------------- MODULE MCSoftwareTrigger -------------------------
(***************************************************************************)
(* SoftwareTrigger for TLC: a cfg gives the clients and what they write.   *)
(***************************************************************************)
EXTENDS SoftwareTrigger
=============================================================================
