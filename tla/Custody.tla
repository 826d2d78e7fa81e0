------------------------------ MODULE Custody ------------------------------
(***************************************************************************)
(* What the collector promises about an event it has answered "accepted":  *)
(* it keeps the event until the event has reached the sinks, the           *)
(* dead-letter file or quarantine.  Spool and Ingest implement it.         *)
(***************************************************************************)
EXTENDS FiniteSets

CONSTANT Events

VARIABLES
    acked,      \* events answered "accepted"
    held,       \* events in durable storage that will be processed again
    settled     \* events that reached a sink, the dead letters, quarantine

vars == <<acked, held, settled>>

Init == acked = {} /\ held = {} /\ settled = {}

\* Events become durable, or are about to be processed again.
Take(S) ==
    /\ held' = held \cup S
    /\ UNCHANGED <<acked, settled>>

Settle(S) ==
    /\ settled' = settled \cup S
    /\ UNCHANGED <<acked, held>>

\* Nothing is answered "accepted" that is not in the collector's custody.
Acknowledge(e) ==
    /\ e \in held \cup settled
    /\ acked' = acked \cup {e}
    /\ UNCHANGED <<held, settled>>

\* What was accepted leaves durable storage only when it is settled.
Release(S) ==
    /\ S \cap acked \subseteq settled
    /\ held' = held \ S
    /\ UNCHANGED <<acked, settled>>

Next ==
    \/ \E S \in SUBSET Events : Take(S) \/ Settle(S) \/ Release(S)
    \/ \E e \in Events : Acknowledge(e)

Spec == Init /\ [][Next]_vars

\* An accepted event is in the collector's custody.
Kept == acked \subseteq held \cup settled

=============================================================================
