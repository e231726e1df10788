----------------------------- MODULE SyncLedger -----------------------------
(***************************************************************************)
(* What offline synchronisation promises: for each device a log of         *)
(* accepted envelopes that only grows at its end, by the envelope signed   *)
(* for the next number, and that never holds two payloads of one           *)
(* transaction, whatever the device; and acknowledgements to clients of    *)
(* nothing but logged payloads.  The log holds a transaction as often as   *)
(* it was signed for a number that came to be next: once, for a client     *)
(* that never re-signs.                                                    *)
(***************************************************************************)
EXTENDS Naturals, Sequences

CONSTANTS Device, Envelopes

VARIABLES
    log,           \* log[d][n]: the envelope accepted as number n of d
    acknowledged   \* the <<transaction, payload>> pairs reported APPLIED or DUPLICATE

Logged == UNION {{log[d][n] : n \in DOMAIN log[d]} : d \in Device}

Init == log = [d \in Device |-> <<>>] /\ acknowledged = {}

Accept(e) ==
    /\ e.seq = Len(log[e.dev]) + 1
    /\ \A f \in Logged : f.tx = e.tx => f.hash = e.hash
    /\ log' = [log EXCEPT ![e.dev] = Append(@, e)]
    /\ UNCHANGED acknowledged

Acknowledge(e) ==
    /\ e \in Logged
    /\ acknowledged' = acknowledged \cup {<<e.tx, e.hash>>}
    /\ UNCHANGED log

Next == \E e \in Envelopes : Accept(e) \/ Acknowledge(e)

Spec == Init /\ [][Next]_<<log, acknowledged>>
=============================================================================
