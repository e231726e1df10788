------------------------ MODULE MCIdempotencyGuard ------------------------
(***************************************************************************)
(* Instances of IdempotencyGuard for TLC: two keys, of which one is reused *)
(* with another body, and two or three concurrent requests.                *)
(***************************************************************************)
EXTENDS IdempotencyGuard, TLC

CONSTANTS k1, k2, b1, b2, r1, r2, r3

Asks(k, b) == [key |-> k, body |-> b]

(* One key reused with an edited body, and another key. *)
Reused == {Asks(k1, b1), Asks(k1, b2), Asks(k2, b1)}

(* One request per key. *)
Plain == {Asks(k1, b1), Asks(k2, b1)}

(* Goroutines are interchangeable. *)
Goroutines == Permutations(Req)
=============================================================================
