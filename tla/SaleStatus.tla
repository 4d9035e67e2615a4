----------------------------- MODULE SaleStatus -----------------------------
(***************************************************************************)
(* The status vocabularies every component shares, and the status sets the *)
(* handlers test.  Values are the strings stored in Firestore.             *)
(***************************************************************************)

SaleStatuses == {"pending_upload", "processing", "ready_for_review",
                 "pricing_in_progress", "live", "partially_sold", "sold",
                 "expired", "archived", "failed"}

ItemStatuses == {"available", "reserved", "sold", "withdrawn"}

BundleStatuses == {"available", "partially_sold", "reserved", "sold",
                   "withdrawn"}

\* "absent" stands for a document that does not exist (get() finds nothing,
\* update() raises NotFound, a collection read does not return it).
Absent == "absent"

\* Sales on which items may be sold, reserved or withdrawn.
ActiveStatuses == {"live", "partially_sold"}

\* Sales whose inventory the status-gated edit endpoints accept.
EditableStatuses == {"ready_for_review", "live", "partially_sold", "failed"}

\* Statuses an AI pipeline holds while it works on the sale.
PipelineStatuses == {"processing", "pricing_in_progress"}

\* The only statuses a roll-up replaces.
RolledUpStatuses == {"live", "partially_sold", "sold"}
=============================================================================
