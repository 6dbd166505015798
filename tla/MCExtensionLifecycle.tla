------------------------ MODULE MCExtensionLifecycle ------------------------
(***************************************************************************)
(* Values for the runs of ExtensionLifecycle: invocations with request ids *)
(* of their own, and invocations of which one retries an earlier one.      *)
(***************************************************************************)
EXTENDS ExtensionLifecycle

CONSTANTS r1, r2

MCSources == {"Wrapper", "RuntimeDone"}

MCDistinct == <<r1, r2>>

MCRetryAtOnce == <<r1, r1>>
=============================================================================
