----------------------------- MODULE RingBuffer -----------------------------
(***************************************************************************)
(* The lock-free ring of pkg/perf/ring: producers and consumers claim      *)
(* positions by compare-and-swap on head and tail, and hand each cell over *)
(* by its sequence number.  Every atomic load, swap and store is a step,   *)
(* and so are the plain accesses to the value between them.  The counters  *)
(* are 64 bits wide and do not wrap; a bound on the pushes keeps them small*)
(* here.  Batches are loops of the two operations.                         *)
(***************************************************************************)
EXTENDS Integers

CONSTANTS
    Producer, Consumer,  \* goroutines
    Capacity,            \* cap, a power of two
    MaxPush,             \* bound on the pushes that claim a position
    NoItem               \* the zero value

ASSUME RingAssumption ==
    /\ Capacity \in Nat \ {0} /\ MaxPush \in Nat
    /\ Producer \cap Consumer = {}    \* a goroutine is in one operation at a time

VARIABLES
    head, tail,  \* the next positions to push and to pop
    cells,       \* seq and val of each cell
    op,          \* the operation each goroutine is in
    placed       \* the producer that claimed each position: its item

ringVars == <<head, tail, cells, op, placed>>

Goroutine == Producer \cup Consumer
Cell(pos) == pos % Capacity
Ready == [at |-> "call", pos |-> 0, got |-> NoItem]

\* NewRingBuffer.
RingInit ==
    /\ head = 0 /\ tail = 0
    /\ cells = [i \in 0..(Capacity - 1) |-> [seq |-> i, val |-> NoItem]]
    /\ op = [g \in Goroutine |-> Ready]
    /\ placed = [i \in 0..(MaxPush - 1) |-> NoItem]

Does(g, at) == op[g].at = at
Then(g, at) == op' = [op EXCEPT ![g].at = at]

\* A call, or another round of its loop, loads the counter.
LoadPosition(g, counter) ==
    /\ Does(g, "call") \/ Does(g, "retry")
    /\ op' = [op EXCEPT ![g] = [Ready EXCEPT !.at = "compare", !.pos = counter]]
    /\ UNCHANGED <<head, tail, cells, placed>>

\* The cell's sequence number says whether the position is to be claimed, the ring
\* is full or empty, or the counter has moved on.
Compare(g, expected) ==
    LET seq == cells[Cell(op[g].pos)].seq IN
    /\ Does(g, "compare")
    /\ Then(g, IF seq = expected THEN "claim" ELSE IF seq < expected THEN "call" ELSE "retry")
    /\ UNCHANGED <<head, tail, cells, placed>>

\* The swap of head, and the round that starts over when it fails.
ClaimPush(p) ==
    /\ Does(p, "claim")
    /\ head < MaxPush
    /\ IF head = op[p].pos
       THEN head' = head + 1 /\ placed' = [placed EXCEPT ![head] = p] /\ Then(p, "write")
       ELSE Then(p, "retry") /\ UNCHANGED <<head, placed>>
    /\ UNCHANGED <<tail, cells>>

\* A push that hands its cell over before the value is in it.
WriteItem_Late(p) ==
    /\ Does(p, "write")
    /\ cells' = [cells EXCEPT ![Cell(op[p].pos)].seq = op[p].pos + 1]
    /\ Then(p, "publish")
    /\ UNCHANGED <<head, tail, placed>>

\* c.val = item
WriteItem(p) ==
    /\ Does(p, "write")
    /\ cells' = [cells EXCEPT ![Cell(op[p].pos)].val = p]
    /\ Then(p, "publish")
    /\ UNCHANGED <<head, tail, placed>>

\* c.seq.Store(pos + 1)
Publish(p) ==
    /\ Does(p, "publish")
    /\ cells' = [cells EXCEPT ![Cell(op[p].pos)].seq = op[p].pos + 1]
    /\ Then(p, "call")
    /\ UNCHANGED <<head, tail, placed>>

\* The swap of tail.
ClaimPop(c) ==
    /\ Does(c, "claim")
    /\ IF tail = op[c].pos
       THEN tail' = tail + 1 /\ Then(c, "read")
       ELSE Then(c, "retry") /\ UNCHANGED tail
    /\ UNCHANGED <<head, cells, placed>>

\* val := c.val
ReadItem(c) ==
    /\ Does(c, "read")
    /\ op' = [op EXCEPT ![c] = [@ EXCEPT !.at = "release", !.got = cells[Cell(op[c].pos)].val]]
    /\ UNCHANGED <<head, tail, cells, placed>>

\* c.seq.Store(pos + cap)
FreeCell(c) ==
    /\ Does(c, "release")
    /\ cells' = [cells EXCEPT ![Cell(op[c].pos)].seq = op[c].pos + Capacity]
    /\ Then(c, "call")
    /\ UNCHANGED <<head, tail, placed>>

TryPush(p) ==
    \/ LoadPosition(p, head) \/ Compare(p, op[p].pos)
    \/ ClaimPush(p) \/ WriteItem(p) \/ Publish(p)

TryPop(c) ==
    \/ LoadPosition(c, tail) \/ Compare(c, op[c].pos + 1)
    \/ ClaimPop(c) \/ ReadItem(c) \/ FreeCell(c)

RingNext == (\E p \in Producer : TryPush(p)) \/ (\E c \in Consumer : TryPop(c))

RingSpec == RingInit /\ [][RingNext]_ringVars

\* Counters, cells and operations hold values of their types.
RingTypeOK ==
    /\ head \in 0..MaxPush /\ tail \in 0..head
    /\ cells \in [0..(Capacity - 1) ->
                   [seq : 0..(MaxPush + Capacity), val : Producer \cup {NoItem}]]
    /\ op \in [Goroutine ->
         [at : {"call", "retry", "compare", "claim", "write", "publish", "read", "release"},
          pos : 0..MaxPush, got : Producer \cup {NoItem}]]
    /\ placed \in [0..(MaxPush - 1) -> Producer \cup {NoItem}]

\* TryPush: "It reports false when the ring is full; the item is not placed": never
\* more items than cells, however producers and consumers overtake each other.
NeverOverrun == head - tail <= Capacity

\* TryPop: what a position delivers is what was pushed at that position.
ItemsInOrder ==
    \A c \in Consumer : Does(c, "release") => op[c].got = placed[op[c].pos]

\* The ring is a bounded first-in first-out queue of the items in it.
RingIsFifo == NeverOverrun /\ ItemsInOrder

-----------------------------------------------------------------------------
\* The queue its callers see: a push takes effect when it claims its position, a
\* pop when it claims its own, before it has read the item.
Contents == [i \in 1..(head - tail) |-> placed[tail + i - 1]]
Taken ==
    [c \in Consumer |-> IF Does(c, "read") THEN <<placed[op[c].pos]>>
                        ELSE IF Does(c, "release") THEN <<op[c].got>> ELSE <<>>]

Queue == INSTANCE RingQueue WITH queue <- Contents, inHand <- Taken

\* The ring implements that queue: nothing is pushed into a full ring or popped from
\* an empty one, and each pop returns the item that was first when it took effect,
\* whatever the other goroutines do before it has read it.
ImplementsQueue == Queue!Spec
=============================================================================
