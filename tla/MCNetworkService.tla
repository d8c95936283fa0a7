--------------------------- MODULE MCNetworkService ---------------------------
(* A small instance of NetworkService for TLC. *)
EXTENDS NetworkService
=============================================================================
