---------------------------- MODULE LossyBuffer ----------------------------
(***************************************************************************)
(* What the extension relies on when it hands a telemetry signal to its    *)
(* aggregator: the signal is held, until it is taken for export exactly    *)
(* once or lost, and every loss is counted.  Nothing else happens to it.   *)
(*                                                                         *)
(* The buffer promises a limit on what it holds; it does not promise which *)
(* signals survive.                                                        *)
(***************************************************************************)
EXTENDS Naturals, FiniteSets

CONSTANTS
    Signals,   \* everything that may be handed to the buffer
    Limit      \* how many signals it holds at most

VARIABLES
    held,    \* signals in the buffer
    taken,   \* signals handed to an exporter
    lost,    \* signals given up
    drops    \* how many losses were counted

bufferVars == <<held, taken, lost, drops>>

Fresh == Signals \ (held \cup taken \cup lost)

BufferInit == held = {} /\ taken = {} /\ lost = {} /\ drops = 0

\* A signal is accepted while there is room.
Accept ==
    /\ Cardinality(held) < Limit
    /\ \E s \in Fresh : held' = held \cup {s}
    /\ UNCHANGED <<taken, lost, drops>>

\* A signal that was never held is turned away, and counted.
TurnAway ==
    /\ \E s \in Fresh : lost' = lost \cup {s}
    /\ drops' = drops + 1
    /\ UNCHANGED <<held, taken>>

\* A held signal gives way, and is counted.
GiveWay ==
    /\ \E s \in held : held' = held \ {s} /\ lost' = lost \cup {s}
    /\ drops' = drops + 1
    /\ UNCHANGED taken

\* Some held signals are taken for export.
Take ==
    /\ \E batch \in (SUBSET held) \ {{}} :
          held' = held \ batch /\ taken' = taken \cup batch
    /\ UNCHANGED <<lost, drops>>

BufferNext == Accept \/ TurnAway \/ GiveWay \/ Take

BufferSpec == BufferInit /\ [][BufferNext]_bufferVars
=============================================================================
