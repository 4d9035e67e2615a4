---------------------------- MODULE MCLiveUpdates ----------------------------
(***************************************************************************)
(* The instance of LiveUpdates for TLC.                                    *)
(***************************************************************************)
EXTENDS LiveUpdates, TLC

Symmetric == Permutations(Connections) \cup Permutations(Handlers) \cup
             Permutations(Ids) \cup Permutations(Instances)

\* A capture with its retry and its archive, messages, and the reading of
\* notifications.
OwnerOps == {"finalize", "retry_finalize", "archive_sale", "send_message",
             "mark_read", "mark_all_read"}
=============================================================================
