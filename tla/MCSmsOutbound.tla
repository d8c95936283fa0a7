--------------------------- MODULE MCSmsOutbound ---------------------------
(* Instances of SmsOutbound for TLC. *)
EXTENDS SmsOutbound
=============================================================================
