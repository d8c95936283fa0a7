----------------------------- MODULE MCModemStack -----------------------------
(* A small modem stack for TLC. *)
EXTENDS ModemStack
=============================================================================
