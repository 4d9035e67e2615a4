--------------------------- MODULE CaptureDiagram ---------------------------
(***************************************************************************)
(* The part of the sale's lifecycle diagram that the pipeline drives: what *)
(* each status may become.  Drawn is the diagram of README.md; Undrawn are *)
(* the moves it does not have.                                             *)
(***************************************************************************)
VARIABLES
  status,
  renewed   \* whether the sale was finalized again after a run of it

Move(from, to) == status = from /\ status' = to

Process == Move("pending_upload", "processing") \/ Move("failed", "processing")
Review  == Move("processing", "ready_for_review")
Price   == Move("ready_for_review", "pricing_in_progress")
Priced  == Move("pricing_in_progress", "ready_for_review")
GiveUp  == Move("processing", "failed") \/ Move("pricing_in_progress", "failed")

Drawn == Process \/ Review \/ Price \/ Priced \/ GiveUp

\* The write of "processing" fails, or one after the sale is up for review.
FailEarly == Move("pending_upload", "failed") \/ Move("ready_for_review", "failed")

\* A sale in review goes back only if it is finalized again.
Again == /\ Move("ready_for_review", "processing")
            \/ Move("pricing_in_progress", "processing")
         /\ renewed'

Delete == Move("pending_upload", "absent") \/ Move("failed", "absent")

Undrawn == FailEarly \/ Again \/ Delete

Init == status = "pending_upload" /\ renewed = FALSE
Next == /\ Drawn \/ Undrawn \/ status' = status
        /\ renewed => renewed'

Spec == Init /\ [][Next]_<<status, renewed>>
=============================================================================
