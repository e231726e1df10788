------------------------------ MODULE RingQueue ------------------------------
(***************************************************************************)
(* What the ring buffer promises to its callers: a bounded first-in        *)
(* first-out queue.  A push appends its item at one instant, a pop takes   *)
(* the first item at one instant and has it in hand until it returns.      *)
(***************************************************************************)
EXTENDS Naturals, Sequences

CONSTANTS Producer, Consumer, Capacity

VARIABLES
    queue,   \* the items in the ring, the next one to pop first
    inHand   \* inHand[c]: the item a pop of c has taken and not returned, if any

Init == queue = <<>> /\ inHand = [c \in Consumer |-> <<>>]

Push(p) ==
    /\ Len(queue) < Capacity
    /\ queue' = Append(queue, p)
    /\ UNCHANGED inHand

Pop(c) ==
    /\ queue # <<>> /\ inHand[c] = <<>>
    /\ inHand' = [inHand EXCEPT ![c] = <<Head(queue)>>]
    /\ queue' = Tail(queue)

Return(c) ==
    /\ inHand[c] # <<>>
    /\ inHand' = [inHand EXCEPT ![c] = <<>>]
    /\ UNCHANGED queue

Next == (\E p \in Producer : Push(p)) \/ (\E c \in Consumer : Pop(c) \/ Return(c))

Spec == Init /\ [][Next]_<<queue, inHand>>
=============================================================================
