------------------------ MODULE MCCompletionTracker ------------------------
(***************************************************************************)
(* Values for the runs of CompletionTracker: the two sources of the code,  *)
(* more request ids than the memory holds.                                 *)
(***************************************************************************)
EXTENDS CompletionTracker

MCSources == {"Wrapper", "RuntimeDone"}
=============================================================================
