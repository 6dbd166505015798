------------------------- MODULE MCSignalAggregator -------------------------
(***************************************************************************)
(* Values for the run of SignalAggregator: traces of one, one, none and    *)
(* three bytes, so that a batch ends now for its entries and now for its   *)
(* bytes; a metric; and a log larger than the whole byte budget.           *)
(***************************************************************************)
EXTENDS SignalAggregator

MCSignals == {"t0", "t1", "u1", "t3", "m2", "l9"}

MCKindOf ==
    [s \in MCSignals |-> CASE s \in {"t0", "t1", "u1", "t3"} -> "traces"
                           [] s = "m2"                       -> "metrics"
                           [] s = "l9"                       -> "logs"]

MCSizeOf ==
    [s \in MCSignals |-> CASE s = "t0"           -> 0
                           [] s \in {"t1", "u1"} -> 1
                           [] s = "m2"           -> 2
                           [] s = "t3"           -> 3
                           [] s = "l9"           -> 9]
=============================================================================
