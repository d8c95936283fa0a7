----------------------------- MODULE MCSmsStore -----------------------------
(* Instances of SmsStore for TLC. *)
EXTENDS SmsStore

\* One content for each way record_prunable decides.
MCRecords ==
    {[status |-> "RECEIVED", report |-> FALSE],
     [status |-> "SENT", report |-> TRUE],
     [status |-> "DELIVERED", report |-> TRUE]}
=============================================================================
