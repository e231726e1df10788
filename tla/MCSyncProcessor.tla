-------------------------- MODULE MCSyncProcessor --------------------------
(***************************************************************************)
(* Instances of SyncProcessor for TLC: small sets of mutations, one or two *)
(* devices, two handler goroutines.                                        *)
(***************************************************************************)
EXTENDS SyncProcessor

CONSTANTS d1, d2, t1, t2, t3, h1, h2, r1, r2

Mutation(t, d, n, h) == [tx |-> t, dev |-> d, seq |-> n, hash |-> h]

(* Three successive mutations of one device. *)
Chain == {Mutation(t1, d1, 1, h1), Mutation(t2, d1, 2, h1), Mutation(t3, d1, 3, h1)}

(* Two mutations of one device; a second payload of each, one whose         *)
(* signature does not verify and one the policy refuses; and the second     *)
(* mutation re-signed for the number of the first, which it contends for,   *)
(* and for the one after its own.                                           *)
Forged    == Mutation(t1, d1, 1, h2)
Contended == {Mutation(t1, d1, 1, h1), Mutation(t2, d1, 2, h1), Mutation(t2, d1, 2, h2),
              Mutation(t2, d1, 1, h1), Mutation(t2, d1, 3, h1), Forged}
GenuineContended == Contended \ {Forged}

(* The policy refuses the edited mutation. *)
RefusedEdit == {Mutation(t2, d1, 2, h2)}

OneLock == [d \in Device |-> 0]
=============================================================================
