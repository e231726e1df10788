--------------------------- MODULE LockFreeProofs ---------------------------
(***************************************************************************)
(* What holds of the three components that work on atomics and short       *)
(* critical sections - the circuit breaker, the identity cache and the     *)
(* ring buffer - for any number of goroutines and however long they run.   *)
(***************************************************************************)
EXTENDS CircuitBreaker, IdentityCache, RingBuffer, FiniteSetTheorems, SequenceTheorems,
        TLAPS

(* The closing half of RecordSuccess counts as closed already: its reset is  *)
(* behind it, and a failure counted since then that reaches the limit waits  *)
(* for the mutex to open the circuit.                                        *)
CountedIsOpening ==
    (circuit = "closed" \/ ~MutexFree) /\ failCount >= MaxFailures =>
        \E c \in Caller : at[c] = "opening"

BreakerInv == BreakerTypeOK /\ CountedIsOpening

LEMMA BreakerInit_Inv == BreakerInit => BreakerInv
<1> SUFFICES ASSUME BreakerInit PROVE BreakerInv
  OBVIOUS
<1>1. cooled \in BOOLEAN /\ healthy \in BOOLEAN
  BY Zenon DEF BreakerInit
<1>2. circuit = "closed" /\ failCount = 0 /\ at \in [Caller -> Place]
  BY DEF BreakerInit, Place
<1>3. QED
  BY <1>1, <1>2, BreakerAssumption DEF BreakerInv, BreakerTypeOK, CountedIsOpening

LEMMA BreakerNext_Inv == BreakerInv /\ [BreakerNext]_breakerVars => BreakerInv'
<1> SUFFICES ASSUME BreakerInv, [BreakerNext]_breakerVars
             PROVE  BreakerInv'
  OBVIOUS
<1> USE BreakerAssumption DEF BreakerInv, BreakerTypeOK, CountedIsOpening, MutexFree
<1>1. ASSUME NEW c \in Caller, Allow(c) PROVE BreakerInv'
  BY <1>1, SMT DEF Allow, Go, Place
<1>2. ASSUME NEW c \in Caller, Elapsed(c) PROVE BreakerInv'
  BY <1>2, SMT DEF Elapsed, Go, Place
<1>3. ASSUME NEW c \in Caller, HalfOpen(c) PROVE BreakerInv'
  BY <1>3, SMT DEF HalfOpen, Go, Place
<1>4. ASSUME NEW c \in Caller, Probe(c) PROVE BreakerInv'
  BY <1>4, SMT DEF Probe, Go, Place
<1>5. ASSUME NEW c \in Caller, FailFast(c) PROVE BreakerInv'
  BY <1>5, SMT DEF FailFast, Go, Place
<1>6. ASSUME NEW c \in Caller, Begin(c) PROVE BreakerInv'
  BY <1>6, SMT DEF Begin, Go, Place
<1>7. ASSUME NEW c \in Caller, RecordSuccess(c) PROVE BreakerInv'
  BY <1>7, SMT DEF RecordSuccess, Go, Place
<1>8. ASSUME NEW c \in Caller, ResetCount(c) PROVE BreakerInv'
  BY <1>8, SMT DEF ResetCount, Go, Place
<1>9. ASSUME NEW c \in Caller, ResetLocked(c) PROVE BreakerInv'
  BY <1>9, SMT DEF ResetLocked, Go, Place
<1>10. ASSUME NEW c \in Caller, Close(c) PROVE BreakerInv'
  BY <1>10, SMT DEF Close, Go, Place
<1>11. ASSUME NEW c \in Caller, RecordFailure(c) PROVE BreakerInv'
  <2>1. cooled' \in BOOLEAN
    BY <1>11, Zenon DEF RecordFailure
  <2>2. QED
    BY <1>11, <2>1, SMT DEF RecordFailure, Go, Place
<1>12. ASSUME NEW c \in Caller, CountFailure(c) PROVE BreakerInv'
  BY <1>12, SMT DEF CountFailure, Go, Place
<1>13. ASSUME NEW c \in Caller, OpenCircuit(c) PROVE BreakerInv'
  BY <1>13, SMT DEF OpenCircuit, Go, Place
<1>14. CASE Cooldown
  BY <1>14, SMT DEF Cooldown
<1>15. CASE Health
  <2>1. healthy' \in BOOLEAN
    BY <1>15, Zenon DEF Health
  <2>2. QED
    BY <1>15, <2>1, SMT DEF Health
<1>16. CASE UNCHANGED breakerVars
  BY <1>16, SMT DEF breakerVars
<1>17. QED
  BY <1>1, <1>2, <1>3, <1>4, <1>5, <1>6, <1>7, <1>8, <1>9, <1>10, <1>11, <1>12, <1>13, <1>14, <1>15, <1>16
     DEF BreakerNext, BreakerStep

(* Allow, RecordSuccess and RecordFailure keep every field a value of its   *)
(* type, whichever of their unlocked steps interleave.                      *)
THEOREM BreakerTypeCorrect == BreakerSpec => []BreakerTypeOK
<1>1. BreakerSpec => []BreakerInv
  BY BreakerInit_Inv, BreakerNext_Inv, PTL DEF BreakerSpec
<1>2. BreakerInv => BreakerTypeOK
  BY DEF BreakerInv
<1>3. QED
  BY <1>1, <1>2, PTL

(* RecordSuccess and RecordFailure: a closed circuit whose count is at the  *)
(* limit is about to be opened, so that a recovery never leaves behind a    *)
(* count that shuts every tenant out at the next failure.                   *)
THEOREM ClosedStaysBelowLimit == BreakerSpec => []ClosedBelowLimit
<1>1. BreakerSpec => []BreakerInv
  BY BreakerInit_Inv, BreakerNext_Inv, PTL DEF BreakerSpec
<1>2. BreakerInv => ClosedBelowLimit
  BY DEF BreakerInv, CountedIsOpening, ClosedBelowLimit
<1>3. QED
  BY <1>1, <1>2, PTL

-----------------------------------------------------------------------------
(* The ring of pkg/perf/ring.                                               *)

(* Cells of positions: a step of Capacity comes back to the same cell, and  *)
(* no shorter one does.                                                     *)
LEMMA CellIsIndex ==
    ASSUME NEW a \in Nat
    PROVE  Cell(a) \in 0..(Capacity - 1) /\ \E k \in Nat : a = Capacity * k + Cell(a)
<1>1. Cell(a) \in 0..(Capacity - 1)
  BY RingAssumption, SMT DEF Cell
<1>2. a = Capacity * (a \div Capacity) + Cell(a) /\ a \div Capacity \in Nat
  BY RingAssumption, SMT DEF Cell
<1>3. QED
  BY <1>1, <1>2

LEMMA NextMultiple ==
    ASSUME NEW c \in Nat, NEW k \in Nat, NEW m \in Nat, k < m
    PROVE  c * k + c <= c * m
<1> DEFINE j == m - k - 1
<1>1. j \in Nat /\ m = k + 1 + j
  BY SMT
<1>2. c * j \in Nat
  BY <1>1, SMT
<1>3. c * m = c * k + c + c * j
  BY <1>1, SMT
<1>4. QED
  BY <1>2, <1>3, SMT

LEMMA Remainders ==
    ASSUME NEW k \in Nat, NEW m \in Nat, NEW r \in 0..(Capacity - 1), NEW s \in Int,
           0 <= s, s < Capacity + Capacity, Capacity * k + r = Capacity * m + s
    PROVE  s = r \/ s = r + Capacity
<1>1. Capacity * k \in Nat /\ Capacity * m \in Nat /\ Capacity \in Nat
  BY RingAssumption, SMT
<1>2. CASE k = m
  BY <1>1, <1>2, SMT
<1>3. CASE k < m
  <2>1. Capacity * k + Capacity <= Capacity * m
    BY <1>3, <1>1, NextMultiple
  <2>2. QED
    BY <1>1, <2>1, RingAssumption, SMT
<1>4. CASE m < k
  <2>1. CASE k = m + 1
    <3>1. Capacity * k = Capacity * m + Capacity
      BY <2>1, <1>1, SMT
    <3>2. QED
      BY <1>1, <3>1, RingAssumption, SMT
  <2>2. CASE m + 1 < k
    <3>1. Capacity * (m + 1) + Capacity <= Capacity * k
      BY <2>2, <1>1, NextMultiple
    <3>2. Capacity * (m + 1) = Capacity * m + Capacity
      BY <1>1, SMT
    <3>3. QED
      BY <1>1, <3>1, <3>2, RingAssumption, SMT
  <2>3. QED
    BY <1>4, <2>1, <2>2, SMT
<1>5. QED
  BY <1>2, <1>3, <1>4, SMT

LEMMA CellRepeats ==
    ASSUME NEW a \in Nat
    PROVE  Cell(a + Capacity) = Cell(a)
<1> DEFINE s == Cell(a) + Capacity
           r == Cell(a + Capacity)
<1>1. a + Capacity \in Nat /\ Capacity \in Nat
  BY RingAssumption, SMT
<1>2. PICK k \in Nat : a = Capacity * k + Cell(a)
  BY CellIsIndex
<1>3. PICK m \in Nat : a + Capacity = Capacity * m + Cell(a + Capacity)
  BY <1>1, CellIsIndex
<1>4. Cell(a) \in 0..(Capacity - 1) /\ Cell(a + Capacity) \in 0..(Capacity - 1)
  BY <1>1, CellIsIndex
<1>5. s \in Int /\ 0 <= s /\ s < Capacity + Capacity /\ r \in 0..(Capacity - 1)
      /\ Capacity * m + r = Capacity * k + s
  BY <1>1, <1>2, <1>3, <1>4, SMT
<1>6. s = r \/ s = r + Capacity
  <2> HIDE DEF s, r
  <2>1. QED
    BY <1>5, Remainders
<1>7. QED
  BY <1>4, <1>6, RingAssumption, SMT

LEMMA CellsApart ==
    ASSUME NEW a \in Nat, NEW b \in Nat, a <= b, b < a + Capacity, Cell(a) = Cell(b)
    PROVE  a = b
<1> DEFINE s == Cell(a) + (b - a)
           r == Cell(a)
<1>1. Capacity \in Nat
  BY RingAssumption
<1>2. PICK k \in Nat : a = Capacity * k + Cell(a)
  BY CellIsIndex
<1>3. PICK m \in Nat : b = Capacity * m + Cell(b)
  BY CellIsIndex
<1>4. Cell(a) \in 0..(Capacity - 1)
  BY CellIsIndex
<1>5. s \in Int /\ 0 <= s /\ s < Capacity + Capacity /\ r \in 0..(Capacity - 1)
      /\ Capacity * m + r = Capacity * k + s
  BY <1>1, <1>2, <1>3, <1>4, SMT
<1>6. s = r \/ s = r + Capacity
  <2> HIDE DEF s, r
  <2>1. QED
    BY <1>5, Remainders
<1>7. QED
  BY <1>4, <1>6, RingAssumption, SMT

SeqAt(q)  == cells[Cell(q)].seq
ItemAt(q) == cells[Cell(q)].val
Being(g, places) == op[g].at \in places

(* The positions from tail to tail + Capacity occupy every cell once.  One  *)
(* that is claimed by a push is being written or holds its item; one that   *)
(* is not is free, or its cell is still read by the pop of the position     *)
(* before it there.  A goroutine that has compared sequence numbers may     *)
(* rely on what it saw for as long as its counter has not moved: that is    *)
(* what makes the swap of the counter a claim of the cell.                  *)
Claimed ==
    \A q \in Nat : tail <= q /\ q < head =>
        \/ SeqAt(q) = q
        \/ SeqAt(q) = q + 1 /\ ItemAt(q) = placed[q]

Unclaimed ==
    \A q \in Nat : head <= q /\ q < tail + Capacity =>
        SeqAt(q) = q \/ SeqAt(q) = q + 1 - Capacity

PushingAt(p, q) ==
    /\ Being(p, {"call", "retry", "compare", "claim", "write", "publish"})
    /\ Being(p, {"compare", "claim"}) => q <= head
    /\ Being(p, {"claim"}) /\ q = head => SeqAt(q) = q
    /\ Being(p, {"write", "publish"}) =>
         tail <= q /\ q < head /\ SeqAt(q) = q /\ placed[q] = p
    /\ Being(p, {"publish"}) => ItemAt(q) = p

PoppingAt(c, q) ==
    /\ Being(c, {"call", "retry", "compare", "claim", "read", "release"})
    /\ Being(c, {"compare", "claim"}) => q <= tail
    /\ Being(c, {"claim"}) /\ q = tail => SeqAt(q) = q + 1
    /\ Being(c, {"read", "release"}) =>
         tail <= q + Capacity /\ q < tail /\ SeqAt(q) = q + 1
    /\ Being(c, {"read"}) => ItemAt(q) = placed[q]
    /\ Being(c, {"release"}) => op[c].got = placed[q]

Pushing == \A p \in Producer : \A q \in Nat : op[p].pos = q => PushingAt(p, q)
Popping == \A c \in Consumer : \A q \in Nat : op[c].pos = q => PoppingAt(c, q)

OneReader ==
    \A c, d \in Consumer :
        Being(c, {"read", "release"}) /\ Being(d, {"read", "release"}) /\ op[c].pos = op[d].pos => c = d

RingInv ==
    /\ RingTypeOK /\ NeverOverrun
    /\ Claimed /\ Unclaimed /\ Pushing /\ Popping /\ OneReader

LEMMA RingValues ==
    ASSUME RingTypeOK
    PROVE  /\ head \in Nat /\ tail \in Nat /\ tail <= head
           /\ Capacity \in Nat /\ Capacity > 0
           /\ \A q \in Nat : SeqAt(q) \in 0..(MaxPush + Capacity) /\ ItemAt(q) \in Producer \cup {NoItem}
           /\ \A g \in Producer \cup Consumer : op[g].pos \in 0..MaxPush
<1>1. head \in Nat /\ tail \in Nat /\ tail <= head /\ Capacity \in Nat /\ Capacity > 0
  BY RingAssumption, SMT DEF RingTypeOK
<1>2. ASSUME NEW q \in Nat
      PROVE  SeqAt(q) \in 0..(MaxPush + Capacity) /\ ItemAt(q) \in Producer \cup {NoItem}
  <2>1. Cell(q) \in 0..(Capacity - 1)
    BY CellIsIndex
  <2>2. cells[Cell(q)] \in [seq : 0..(MaxPush + Capacity), val : Producer \cup {NoItem}]
    BY <2>1 DEF RingTypeOK
  <2>3. QED
    BY <2>2 DEF SeqAt, ItemAt
<1>3. \A g \in Producer \cup Consumer : op[g].pos \in 0..MaxPush
  BY DEF RingTypeOK, Goroutine
<1>4. QED
  BY <1>1, <1>2, <1>3

(* Steps of one goroutine that only move it on: the counters, the cells and *)
(* the other goroutines stay as they are.                                   *)
LEMMA RingUnchanged ==
    ASSUME RingInv, UNCHANGED <<head, tail, cells, placed>>
    PROVE  /\ NeverOverrun' /\ Claimed' /\ Unclaimed'
           /\ \A q \in Nat : SeqAt(q)' = SeqAt(q) /\ ItemAt(q)' = ItemAt(q)
<1>1. \A q \in Nat : SeqAt(q)' = SeqAt(q) /\ ItemAt(q)' = ItemAt(q)
  BY DEF SeqAt, ItemAt
<1>2. NeverOverrun'
  BY DEF RingInv, NeverOverrun
<1>3. Claimed'
  BY <1>1 DEF RingInv, Claimed
<1>4. Unclaimed'
  BY <1>1 DEF RingInv, Unclaimed
<1>5. QED
  BY <1>1, <1>2, <1>3, <1>4

RingOp == [at : {"call", "retry", "compare", "claim", "write", "publish", "read", "release"},
           pos : 0..MaxPush, got : Producer \cup {NoItem}]

LEMMA PushMoves ==
    ASSUME RingInv, NEW p \in Producer, NEW r \in RingOp,
           UNCHANGED <<head, tail, cells, placed>>, op' = [op EXCEPT ![p] = r],
           r.at \in {"call", "retry", "compare", "claim"},
           r.pos <= head, r.at = "claim" /\ r.pos = head => SeqAt(head) = head
    PROVE  RingInv'
<1> USE DEF RingInv
<1>1. /\ NeverOverrun' /\ Claimed' /\ Unclaimed'
      /\ \A q \in Nat : SeqAt(q)' = SeqAt(q) /\ ItemAt(q)' = ItemAt(q)
  BY RingUnchanged
<1>2. p \notin Consumer
  BY RingAssumption
<1>3. RingTypeOK'
  BY DEF RingTypeOK, Goroutine, RingOp
<1>4. op'[p] = r /\ \A g \in Producer \cup Consumer : g # p => op'[g] = op[g]
  BY DEF RingTypeOK, Goroutine
<1>5. Pushing'
  BY <1>1, <1>4, RingValues DEF Pushing, PushingAt, Being
<1>6. Popping'
  BY <1>1, <1>2, <1>4, RingValues DEF Popping, PoppingAt, Being
<1>7. OneReader'
  BY <1>2, <1>4 DEF OneReader, Being
<1>8. QED
  BY <1>1, <1>3, <1>5, <1>6, <1>7

LEMMA PopMoves ==
    ASSUME RingInv, NEW c \in Consumer, NEW r \in RingOp,
           UNCHANGED <<head, tail, cells, placed>>, op' = [op EXCEPT ![c] = r],
           \/ r.at \in {"call", "retry", "compare", "claim"} /\ r.pos <= tail
           \/ r.at = "release" /\ Being(c, {"read"}) /\ r.pos = op[c].pos /\ r.got = ItemAt(r.pos),
           r.at = "claim" /\ r.pos = tail => SeqAt(tail) = tail + 1
    PROVE  RingInv'
<1> USE DEF RingInv
<1>1. /\ NeverOverrun' /\ Claimed' /\ Unclaimed'
      /\ \A q \in Nat : SeqAt(q)' = SeqAt(q) /\ ItemAt(q)' = ItemAt(q)
  BY RingUnchanged
<1>2. c \notin Producer
  BY RingAssumption
<1>3. RingTypeOK'
  BY DEF RingTypeOK, Goroutine, RingOp
<1>4. op'[c] = r /\ \A g \in Producer \cup Consumer : g # c => op'[g] = op[g]
  BY DEF RingTypeOK, Goroutine
<1>5. Pushing'
  BY <1>1, <1>2, <1>4, RingValues DEF Pushing, PushingAt, Being
<1>6. Popping'
  BY <1>1, <1>4, RingValues DEF Popping, PoppingAt, Being
<1>7. OneReader'
  BY <1>4 DEF OneReader, Being
<1>8. QED
  BY <1>1, <1>3, <1>5, <1>6, <1>7

(* The record of a goroutine that only goes to another place.               *)
LEMMA GoesTo ==
    ASSUME RingTypeOK, NEW g \in Producer \cup Consumer, NEW place, Then(g, place),
           place \in {"call", "retry", "compare", "claim", "write", "publish", "read", "release"}
    PROVE  \E r \in RingOp : /\ op' = [op EXCEPT ![g] = r]
                             /\ r.at = place /\ r.pos = op[g].pos /\ r.got = op[g].got
<1> DEFINE r == [op[g] EXCEPT !.at = place]
<1>1. op[g] \in RingOp
  BY DEF RingTypeOK, RingOp, Goroutine
<1>2. r \in RingOp /\ r.at = place /\ r.pos = op[g].pos /\ r.got = op[g].got
  BY <1>1 DEF RingOp
<1>3. op' = [op EXCEPT ![g] = r]
  BY DEF Then
<1>4. QED
  BY <1>2, <1>3

LEMMA LoadPosition_Inv ==
    ASSUME RingInv, NEW g \in Producer \cup Consumer, NEW counter,
           LoadPosition(g, counter),
           (g \in Producer /\ counter = head) \/ (g \in Consumer /\ counter = tail)
    PROVE  RingInv'
<1> DEFINE r == [Ready EXCEPT !.at = "compare", !.pos = counter]
<1>1. counter \in 0..MaxPush
  BY RingAssumption DEF RingInv, RingTypeOK
<1>2. r.at = "compare" /\ r.pos = counter /\ r \in RingOp
  BY <1>1 DEF Ready, RingOp
<1>3. op' = [op EXCEPT ![g] = r] /\ UNCHANGED <<head, tail, cells, placed>>
  BY DEF LoadPosition
<1> HIDE DEF r
<1>4. head \in Nat /\ tail \in Nat
  BY RingValues DEF RingInv
<1>5. r.at \in {"call", "retry", "compare", "claim"} /\ r.at # "claim"
  BY <1>2
<1>6. CASE g \in Producer /\ counter = head
  <2>1. r.pos <= head
    BY <1>2, <1>4, <1>6
  <2>2. QED
    BY <1>2, <1>3, <1>5, <1>6, <2>1, PushMoves
<1>7. CASE g \in Consumer /\ counter = tail
  <2>1. r.pos <= tail
    BY <1>2, <1>4, <1>7
  <2>2. QED
    BY <1>2, <1>3, <1>5, <1>7, <2>1, PopMoves
<1>8. QED
  BY <1>6, <1>7

LEMMA ComparePush_Inv ==
    ASSUME RingInv, NEW p \in Producer, Compare(p, op[p].pos)
    PROVE  RingInv'
<1> DEFINE place == IF SeqAt(op[p].pos) = op[p].pos THEN "claim"
                    ELSE IF SeqAt(op[p].pos) < op[p].pos THEN "call" ELSE "retry"
<1>1. Then(p, place) /\ UNCHANGED <<head, tail, cells, placed>> /\ Being(p, {"compare"})
  BY DEF Compare, SeqAt, Being, Does
<1>2. place \in {"call", "retry", "claim"} /\ (place = "claim" => SeqAt(op[p].pos) = op[p].pos)
  OBVIOUS
<1> HIDE DEF place
<1>3. PICK r \in RingOp : op' = [op EXCEPT ![p] = r] /\ r.at = place /\ r.pos = op[p].pos
  BY <1>1, <1>2, GoesTo DEF RingInv
<1>4. op[p].pos <= head
  BY <1>1, RingValues DEF RingInv, Pushing, PushingAt, Being
<1>5. QED
  BY <1>1, <1>2, <1>3, <1>4, PushMoves

LEMMA ComparePop_Inv ==
    ASSUME RingInv, NEW c \in Consumer, Compare(c, op[c].pos + 1)
    PROVE  RingInv'
<1> DEFINE place == IF SeqAt(op[c].pos) = op[c].pos + 1 THEN "claim"
                    ELSE IF SeqAt(op[c].pos) < op[c].pos + 1 THEN "call" ELSE "retry"
<1>1. Then(c, place) /\ UNCHANGED <<head, tail, cells, placed>> /\ Being(c, {"compare"})
  BY DEF Compare, SeqAt, Being, Does
<1>2. place \in {"call", "retry", "claim"} /\ (place = "claim" => SeqAt(op[c].pos) = op[c].pos + 1)
  OBVIOUS
<1> HIDE DEF place
<1>3. PICK r \in RingOp : op' = [op EXCEPT ![c] = r] /\ r.at = place /\ r.pos = op[c].pos
  BY <1>1, <1>2, GoesTo DEF RingInv
<1>4. op[c].pos <= tail
  BY <1>1, RingValues DEF RingInv, Popping, PoppingAt, Being
<1>5. QED
  BY <1>1, <1>2, <1>3, <1>4, PopMoves

LEMMA ReadItem_Inv ==
    ASSUME RingInv, NEW c \in Consumer, ReadItem(c)
    PROVE  RingInv'
<1> DEFINE item == cells[Cell(op[c].pos)].val
           r == [op[c] EXCEPT !.at = "release", !.got = item]
<1>1. UNCHANGED <<head, tail, cells, placed>> /\ op' = [op EXCEPT ![c] = r] /\ Being(c, {"read"})
  BY DEF ReadItem, Being, Does
<1>2. op[c] \in RingOp /\ item = ItemAt(op[c].pos) /\ item \in Producer \cup {NoItem}
  <2>1. op[c] \in RingOp /\ op[c].pos \in Nat
    BY RingValues DEF RingInv, RingTypeOK, RingOp, Goroutine
  <2>2. QED
    BY <2>1, RingValues DEF RingInv, ItemAt
<1>3. r \in RingOp /\ r.at = "release" /\ r.pos = op[c].pos /\ r.got = item
  <2> HIDE DEF item
  <2>1. QED
    BY <1>2 DEF RingOp
<1> HIDE DEF r, item
<1>4. QED
  BY <1>1, <1>2, <1>3, PopMoves

(* The swap of head succeeds.  The position is free, so tail has gone past  *)
(* the position that had its cell before: there is room for one more.       *)
LEMMA Claims_Push ==
    ASSUME RingInv, Capacity >= 2, NEW p \in Producer, ClaimPush(p), head = op[p].pos
    PROVE  RingInv'
<1> USE DEF RingInv
<1>1. /\ head < MaxPush /\ head' = head + 1 /\ placed' = [placed EXCEPT ![head] = p]
      /\ Then(p, "write") /\ UNCHANGED <<tail, cells>> /\ Being(p, {"claim"})
  BY DEF ClaimPush, Being, Does
<1>2. PICK r \in RingOp : op' = [op EXCEPT ![p] = r] /\ r.at = "write" /\ r.pos = head
  BY <1>1, GoesTo
<1>3. op'[p] = r /\ \A g \in Producer \cup Consumer : g # p => op'[g] = op[g]
  BY <1>2 DEF RingTypeOK, Goroutine
<1>4. /\ head \in Nat /\ tail \in Nat /\ Capacity \in Nat /\ tail <= head
      /\ \A q \in Nat : SeqAt(q) \in Nat
  BY RingValues
<1>5. SeqAt(head) = head
  BY <1>1, RingValues DEF Pushing, PushingAt
<1>6. head < tail + Capacity
  <2>1. ASSUME head = tail + Capacity PROVE FALSE
    <3>1. Cell(head) = Cell(tail)
      BY <2>1, <1>4, CellRepeats
    <3>2. SeqAt(tail) = head
      BY <3>1, <1>5 DEF SeqAt
    <3>3. SeqAt(tail) = tail \/ SeqAt(tail) = tail + 1
      BY <2>1, <1>4 DEF Claimed
    <3>4. QED
      BY <2>1, <3>2, <3>3, <1>4
  <2>2. QED
    BY <2>1, <1>4 DEF NeverOverrun
<1>7. \A q \in Nat : SeqAt(q)' = SeqAt(q) /\ ItemAt(q)' = ItemAt(q)
  BY <1>1 DEF SeqAt, ItemAt
<1>8. placed'[head] = p /\ \A q \in Nat : q < head => placed'[q] = placed[q]
  <2>1. head \in 0..(MaxPush - 1) /\ \A q \in Nat : q < head => q \in 0..(MaxPush - 1) /\ q # head
    BY <1>1, <1>4, RingAssumption
  <2>2. QED
    BY <1>1, <2>1 DEF RingTypeOK
<1>9. p \notin Consumer
  BY RingAssumption
<1>10. RingTypeOK'
  <2>1. head' \in 0..MaxPush /\ tail' \in 0..head'
    BY <1>1, <1>4, RingAssumption
  <2>2. placed' \in [0..(MaxPush - 1) -> Producer \cup {NoItem}]
    BY <1>1 DEF RingTypeOK
  <2>3. QED
    BY <2>1, <2>2, <1>1, <1>2 DEF RingTypeOK, Goroutine, RingOp
<1>11. NeverOverrun'
  BY <1>1, <1>4, <1>6 DEF NeverOverrun
<1>12. Claimed'
  BY <1>1, <1>4, <1>5, <1>7, <1>8 DEF Claimed
<1>13. Unclaimed'
  BY <1>1, <1>4, <1>7 DEF Unclaimed
<1>14. Pushing'
  <2>1. ASSUME NEW x \in Producer, x # p,  Being(x, {"write", "publish"})
        PROVE  placed'[op[x].pos] = x /\ op[x].pos < head /\ op[x].pos \in Nat
    BY <2>1, <1>8, RingValues DEF Pushing, PushingAt
  <2>2. QED
    BY <1>1, <1>2, <1>3, <1>4, <1>5, <1>7, <1>8, <2>1, RingValues DEF Pushing, PushingAt, Being
<1>15. Popping'
  BY <1>1, <1>3, <1>4, <1>7, <1>8, <1>9, RingValues DEF Popping, PoppingAt, Being
<1>16. OneReader'
  BY <1>3, <1>9 DEF OneReader, Being
<1>17. QED
  BY <1>10, <1>11, <1>12, <1>13, <1>14, <1>15, <1>16

(* The swap of tail succeeds.  The position has an item, so it was claimed  *)
(* by a push, which has published it, and nobody reads its cell.            *)
LEMMA Claims_Pop ==
    ASSUME RingInv, Capacity >= 2, NEW c \in Consumer, ClaimPop(c), tail = op[c].pos
    PROVE  RingInv'
<1> USE DEF RingInv
<1>1. /\ tail' = tail + 1 /\ Then(c, "read") /\ UNCHANGED <<head, cells, placed>>
      /\ Being(c, {"claim"})
  BY DEF ClaimPop, Being, Does
<1>2. PICK r \in RingOp : op' = [op EXCEPT ![c] = r] /\ r.at = "read" /\ r.pos = tail
  BY <1>1, GoesTo
<1>3. op'[c] = r /\ \A g \in Producer \cup Consumer : g # c => op'[g] = op[g]
  BY <1>2 DEF RingTypeOK, Goroutine
<1>4. /\ head \in Nat /\ tail \in Nat /\ Capacity \in Nat /\ tail <= head
      /\ \A q \in Nat : SeqAt(q) \in Nat
  BY RingValues
<1>5. SeqAt(tail) = tail + 1
  BY <1>1, RingValues DEF Popping, PoppingAt
<1>6. tail < head
  BY <1>4, <1>5 DEF Unclaimed
<1>7. ItemAt(tail) = placed[tail]
  BY <1>4, <1>5, <1>6 DEF Claimed
<1>8. \A q \in Nat : SeqAt(q)' = SeqAt(q) /\ ItemAt(q)' = ItemAt(q)
  BY <1>1 DEF SeqAt, ItemAt
<1>9. SeqAt(tail + Capacity) = tail + 1
  BY <1>4, <1>5, CellRepeats DEF SeqAt
<1>10. c \notin Producer
  BY RingAssumption
<1>11. RingTypeOK'
  <2>1. head' \in 0..MaxPush
    BY <1>1 DEF RingTypeOK
  <2>2. tail' \in 0..head'
    BY <1>1, <1>4, <1>6
  <2>3. QED
    BY <2>1, <2>2, <1>1, <1>2 DEF RingTypeOK, Goroutine, RingOp
<1>12. NeverOverrun'
  BY <1>1, <1>4 DEF NeverOverrun
<1>13. Claimed'
  BY <1>1, <1>4, <1>8 DEF Claimed
<1>14. Unclaimed'
  BY <1>1, <1>4, <1>8, <1>9 DEF Unclaimed
<1>15. Pushing'
  <2>1. ASSUME NEW x \in Producer, Being(x, {"write", "publish"})
        PROVE  op[x].pos # tail
    BY <2>1, <1>4, <1>5, RingValues DEF Pushing, PushingAt
  <2>2. QED
    BY <1>1, <1>3, <1>4, <1>8, <1>10, <2>1, RingValues DEF Pushing, PushingAt, Being
<1>16. Popping'
  <2>1. ASSUME NEW x \in Consumer, Being(x, {"read", "release"})
        PROVE  op[x].pos + Capacity # tail
    <3>1. ASSUME op[x].pos + Capacity = tail PROVE FALSE
      <4>1. op[x].pos \in Nat /\ SeqAt(op[x].pos) = op[x].pos + 1
        BY <2>1, RingValues DEF Popping, PoppingAt
      <4>2. SeqAt(tail) = op[x].pos + 1
        BY <3>1, <4>1, CellRepeats DEF SeqAt
      <4>3. QED
        BY <3>1, <4>1, <4>2, <1>4, <1>5
    <3>2. QED
      BY <3>1
  <2>2. ASSUME NEW y \in Consumer, NEW k \in Nat, op'[y].pos = k
        PROVE  PoppingAt(y, k)'
    <3>1. CASE y = c
      BY <1>1, <1>2, <1>3, <1>4, <1>5, <1>7, <1>8, <2>2, <3>1 DEF PoppingAt, Being
    <3>2. CASE y # c
      <4>1. op'[y] = op[y] /\ PoppingAt(y, k)
        BY <1>3, <2>2, <3>2 DEF Popping
      <4>2. QED
        BY <1>1, <1>4, <1>8, <2>1, <2>2, <4>1 DEF PoppingAt, Being
    <3>3. QED
      BY <3>1, <3>2
  <2>3. QED
    BY <2>2 DEF Popping
<1>17. OneReader'
  <2>1. \A x \in Consumer : Being(x, {"read", "release"}) => op[x].pos # tail
    BY <1>4, RingValues DEF Popping, PoppingAt
  <2>2. QED
    BY <1>2, <1>3, <2>1 DEF OneReader, Being
<1>18. QED
  BY <1>11, <1>12, <1>13, <1>14, <1>15, <1>16, <1>17

LEMMA ClaimPush_Inv ==
    ASSUME RingInv, Capacity >= 2, NEW p \in Producer, ClaimPush(p)
    PROVE  RingInv'
<1>1. CASE head = op[p].pos
  BY <1>1, Claims_Push
<1>2. CASE head # op[p].pos
  <2>1. Then(p, "retry") /\ UNCHANGED <<head, tail, cells, placed>> /\ Being(p, {"claim"})
    BY <1>2 DEF ClaimPush, Being, Does
  <2>2. PICK r \in RingOp : op' = [op EXCEPT ![p] = r] /\ r.at = "retry" /\ r.pos = op[p].pos
    BY <2>1, GoesTo DEF RingInv
  <2>3. op[p].pos <= head
    BY <2>1, RingValues DEF RingInv, Pushing, PushingAt, Being
  <2>4. QED
    BY <2>1, <2>2, <2>3, PushMoves
<1>3. QED
  BY <1>1, <1>2

LEMMA ClaimPop_Inv ==
    ASSUME RingInv, Capacity >= 2, NEW c \in Consumer, ClaimPop(c)
    PROVE  RingInv'
<1>1. CASE tail = op[c].pos
  BY <1>1, Claims_Pop
<1>2. CASE tail # op[c].pos
  <2>1. Then(c, "retry") /\ UNCHANGED <<head, tail, cells, placed>> /\ Being(c, {"claim"})
    BY <1>2 DEF ClaimPop, Being, Does
  <2>2. PICK r \in RingOp : op' = [op EXCEPT ![c] = r] /\ r.at = "retry" /\ r.pos = op[c].pos
    BY <2>1, GoesTo DEF RingInv
  <2>3. op[c].pos <= tail
    BY <2>1, RingValues DEF RingInv, Popping, PoppingAt, Being
  <2>4. QED
    BY <2>1, <2>2, <2>3, PopMoves
<1>3. QED
  BY <1>1, <1>2

(* Two positions one apart never share a cell, nor do two of one window.    *)
LEMMA Neighbours ==
    ASSUME Capacity >= 2, NEW a \in Nat
    PROVE  Cell(a) # Cell(a + 1)
<1>1. a <= a + 1 /\ a + 1 < a + Capacity /\ a + 1 \in Nat /\ a # a + 1
  BY RingAssumption, SMT
<1>2. QED
  BY <1>1, CellsApart

LEMMA OneWindow ==
    ASSUME NEW a \in Nat, NEW b \in Nat, a < b + Capacity, b < a + Capacity, Cell(a) = Cell(b)
    PROVE  a = b
<1>1. a <= b \/ b <= a
  OBVIOUS
<1>2. QED
  BY <1>1, CellsApart

(* What a store to the sequence number or the value of a cell leaves.       *)
LEMMA StoresSeq ==
    ASSUME RingTypeOK, NEW x \in Nat, NEW s \in 0..(MaxPush + Capacity),
           cells' = [cells EXCEPT ![Cell(x)].seq = s]
    PROVE  /\ \A q \in Nat : /\ SeqAt(q)' = IF Cell(q) = Cell(x) THEN s ELSE SeqAt(q)
                             /\ ItemAt(q)' = ItemAt(q)
           /\ cells' \in [0..(Capacity - 1) ->
                [seq : 0..(MaxPush + Capacity), val : Producer \cup {NoItem}]]
<1>1. ASSUME NEW q \in Nat
      PROVE  /\ SeqAt(q)' = IF Cell(q) = Cell(x) THEN s ELSE SeqAt(q)
             /\ ItemAt(q)' = ItemAt(q)
  <2>1. Cell(q) \in 0..(Capacity - 1)
    BY CellIsIndex
  <2>2. QED
    BY <2>1 DEF SeqAt, ItemAt, RingTypeOK
<1>2. QED
  BY <1>1 DEF RingTypeOK

LEMMA StoresVal ==
    ASSUME RingTypeOK, NEW x \in Nat, NEW v \in Producer,
           cells' = [cells EXCEPT ![Cell(x)].val = v]
    PROVE  /\ \A q \in Nat : /\ ItemAt(q)' = IF Cell(q) = Cell(x) THEN v ELSE ItemAt(q)
                             /\ SeqAt(q)' = SeqAt(q)
           /\ cells' \in [0..(Capacity - 1) ->
                [seq : 0..(MaxPush + Capacity), val : Producer \cup {NoItem}]]
<1>1. ASSUME NEW q \in Nat
      PROVE  /\ ItemAt(q)' = IF Cell(q) = Cell(x) THEN v ELSE ItemAt(q)
             /\ SeqAt(q)' = SeqAt(q)
  <2>1. Cell(q) \in 0..(Capacity - 1)
    BY CellIsIndex
  <2>2. QED
    BY <2>1 DEF SeqAt, ItemAt, RingTypeOK
<1>2. QED
  BY <1>1 DEF RingTypeOK

LEMMA WriteItem_Inv ==
    ASSUME RingInv, Capacity >= 2, NEW p \in Producer, WriteItem(p)
    PROVE  RingInv'
<1> USE DEF RingInv
<1>0. PICK x \in 0..MaxPush : x = op[p].pos
  BY RingValues
<1>1. /\ cells' = [cells EXCEPT ![Cell(x)].val = p] /\ Then(p, "publish")
      /\ UNCHANGED <<head, tail, placed>> /\ Being(p, {"write", "publish"})
  BY <1>0 DEF WriteItem, Being, Does
<1>2. PICK r \in RingOp : op' = [op EXCEPT ![p] = r] /\ r.at = "publish" /\ r.pos = x
  BY <1>0, <1>1, GoesTo
<1>3. op'[p] = r /\ \A g \in Producer \cup Consumer : g # p => op'[g] = op[g]
  BY <1>2 DEF RingTypeOK, Goroutine
<1>4. /\ head \in Nat /\ tail \in Nat /\ Capacity \in Nat /\ tail <= head
      /\ x \in Nat /\ \A q \in Nat : SeqAt(q) \in Nat
  BY <1>0, RingValues
<1>5. tail <= x /\ x < head /\ SeqAt(x) = x /\ placed[x] = p
  BY <1>0, <1>1, RingValues DEF Pushing, PushingAt
<1>6. p \notin Consumer
  BY RingAssumption
<1>7. /\ \A q \in Nat : /\ ItemAt(q)' = IF Cell(q) = Cell(x) THEN p ELSE ItemAt(q)
                        /\ SeqAt(q)' = SeqAt(q)
      /\ cells' \in [0..(Capacity - 1) ->
           [seq : 0..(MaxPush + Capacity), val : Producer \cup {NoItem}]]
  BY <1>1, <1>4, StoresVal
<1>8. ASSUME NEW q \in Nat, SeqAt(q) = q + 1 PROVE Cell(q) # Cell(x)
  <2>1. ASSUME Cell(q) = Cell(x) PROVE FALSE
    <3>1. SeqAt(q) = SeqAt(x)
      BY <2>1 DEF SeqAt
    <3>2. x = q + 1
      BY <3>1, <1>4, <1>5, <1>8
    <3>3. QED
      BY <2>1, <3>2, Neighbours
  <2>2. QED
    BY <2>1
<1>9. RingTypeOK'
  BY <1>1, <1>2, <1>7 DEF RingTypeOK, Goroutine, RingOp
<1>10. NeverOverrun'
  BY <1>1 DEF NeverOverrun
<1>11. Claimed'
  BY <1>1, <1>4, <1>7, <1>8 DEF Claimed
<1>12. Unclaimed'
  BY <1>1, <1>7 DEF Unclaimed
<1>13. Pushing'
  <2>1. ASSUME NEW y \in Producer, y # p, Being(y, {"publish"}), Being(y, {"write", "publish"})
        PROVE  Cell(op[y].pos) # Cell(x)
    <3>1. ASSUME Cell(op[y].pos) = Cell(x) PROVE FALSE
      <4>1. SeqAt(op[y].pos) = SeqAt(x)
        BY <3>1 DEF SeqAt
      <4>2. op[y].pos = x
        BY <2>1, <4>1, <1>5, RingValues DEF Pushing, PushingAt
      <4>3. QED
        BY <2>1, <4>2, <1>5, RingValues DEF Pushing, PushingAt
    <3>2. QED
      BY <3>1
  <2>2. ASSUME NEW y \in Producer, y # p, Being(y, {"publish"}), NEW k \in Nat, k = op[y].pos
        PROVE  ItemAt(k)' = y
    <3>1. Being(y, {"write", "publish"})
      BY <2>2 DEF Being
    <3>2. ItemAt(k) = y
      BY <2>2, RingValues DEF Pushing, PushingAt
    <3>3. QED
      BY <2>1, <2>2, <3>1, <3>2, <1>7
  <2>3. ItemAt(x)' = p
    BY <1>4, <1>7
  <2>4. ASSUME NEW y \in Producer, NEW k \in Nat, op'[y].pos = k
        PROVE  PushingAt(y, k)'
    <3>1. CASE y = p
      BY <1>1, <1>2, <1>3, <1>4, <1>5, <1>7, <2>3, <2>4, <3>1 DEF PushingAt, Being
    <3>2. CASE y # p
      <4>1. op'[y] = op[y] /\ PushingAt(y, k)
        BY <1>3, <2>4, <3>2 DEF Pushing
      <4>2. QED
        BY <1>1, <1>4, <1>7, <2>2, <2>4, <3>2, <4>1 DEF PushingAt, Being
    <3>3. QED
      BY <3>1, <3>2
  <2>5. QED
    BY <2>4 DEF Pushing
<1>14. Popping'
  <2>1. ASSUME NEW c \in Consumer, Being(c, {"read"}), Being(c, {"read", "release"})
        PROVE  Cell(op[c].pos) # Cell(x)
    BY <2>1, <1>8, RingValues DEF Popping, PoppingAt
  <2>2. ASSUME NEW y \in Consumer, NEW k \in Nat, op'[y].pos = k
        PROVE  PoppingAt(y, k)'
    <3>1. op'[y] = op[y] /\ PoppingAt(y, k)
      BY <1>3, <1>6, <2>2 DEF Popping
    <3>2. QED
      BY <1>1, <1>4, <1>7, <2>1, <2>2, <3>1 DEF PoppingAt, Being
  <2>3. QED
    BY <2>2 DEF Popping
<1>15. OneReader'
  BY <1>3, <1>6 DEF OneReader, Being
<1>16. QED
  BY <1>9, <1>10, <1>11, <1>12, <1>13, <1>14, <1>15

LEMMA Publish_Inv ==
    ASSUME RingInv, Capacity >= 2, NEW p \in Producer, Publish(p)
    PROVE  RingInv'
<1> USE DEF RingInv
<1>0. PICK x \in 0..MaxPush : x = op[p].pos
  BY RingValues
<1>1. /\ cells' = [cells EXCEPT ![Cell(x)].seq = x + 1] /\ Then(p, "call")
      /\ UNCHANGED <<head, tail, placed>> /\ Being(p, {"publish"}) /\ Being(p, {"write", "publish"})
  BY <1>0 DEF Publish, Being, Does
<1>2. PICK r \in RingOp : op' = [op EXCEPT ![p] = r] /\ r.at = "call" /\ r.pos = x
  BY <1>0, <1>1, GoesTo
<1>3. op'[p] = r /\ \A g \in Producer \cup Consumer : g # p => op'[g] = op[g]
  BY <1>2 DEF RingTypeOK, Goroutine
<1>4. /\ head \in Nat /\ tail \in Nat /\ Capacity \in Nat /\ tail <= head
      /\ x \in 0..MaxPush /\ x \in Nat /\ \A q \in Nat : SeqAt(q) \in Nat
  BY <1>0, RingValues
<1>5. tail <= x /\ x < head /\ SeqAt(x) = x /\ placed[x] = p /\ ItemAt(x) = p
  BY <1>0, <1>1, RingValues DEF Pushing, PushingAt
<1>6. p \notin Consumer
  BY RingAssumption
<1>7. /\ \A q \in Nat : /\ SeqAt(q)' = IF Cell(q) = Cell(x) THEN x + 1 ELSE SeqAt(q)
                        /\ ItemAt(q)' = ItemAt(q)
      /\ cells' \in [0..(Capacity - 1) ->
           [seq : 0..(MaxPush + Capacity), val : Producer \cup {NoItem}]]
  <2>1. x + 1 \in 0..(MaxPush + Capacity)
    BY <1>4, RingAssumption
  <2>2. QED
    BY <1>1, <1>4, <2>1, StoresSeq
<1>8. ASSUME NEW q \in Nat, SeqAt(q) # x PROVE SeqAt(q)' = SeqAt(q)
  <2>1. Cell(q) # Cell(x)
    BY <1>5, <1>8 DEF SeqAt
  <2>2. QED
    BY <2>1, <1>7
<1>9. RingTypeOK'
  BY <1>1, <1>2, <1>7 DEF RingTypeOK, Goroutine, RingOp
<1>10. NeverOverrun'
  BY <1>1 DEF NeverOverrun
<1>11. Claimed'
  <2>1. ASSUME NEW q \in Nat, tail <= q, q < head
        PROVE  SeqAt(q)' = q \/ (SeqAt(q)' = q + 1 /\ ItemAt(q)' = placed[q])
    <3>1. CASE Cell(q) = Cell(x)
      <4>1. q = x
        BY <2>1, <3>1, <1>4, <1>5, OneWindow DEF NeverOverrun
      <4>2. QED
        BY <4>1, <3>1, <1>5, <1>7
    <3>2. CASE Cell(q) # Cell(x)
      BY <2>1, <3>2, <1>7 DEF Claimed
    <3>3. QED
      BY <3>1, <3>2
  <2>2. QED
    BY <2>1, <1>1 DEF Claimed
<1>12. Unclaimed'
  <2>1. ASSUME NEW q \in Nat, head <= q, q < tail + Capacity
        PROVE  Cell(q) # Cell(x)
    BY <2>1, <1>4, <1>5, OneWindow
  <2>2. QED
    BY <2>1, <1>1, <1>7 DEF Unclaimed
<1>13. Pushing'
  <2>1. ASSUME NEW y \in Producer, y # p, Being(y, {"write", "publish"}), NEW k \in Nat, k = op[y].pos
        PROVE  SeqAt(k)' = k
    <3>1. SeqAt(k) = k /\ k # x
      BY <2>1, <1>5, RingValues DEF Pushing, PushingAt
    <3>2. QED
      BY <3>1, <1>8
  <2>2. ASSUME NEW k \in Nat, k = head, SeqAt(k) = k PROVE SeqAt(k)' = k
    BY <2>2, <1>4, <1>5, <1>8
  <2>3. ASSUME NEW y \in Producer, NEW k \in Nat, op'[y].pos = k
        PROVE  PushingAt(y, k)'
    <3>1. CASE y = p
      BY <1>1, <1>2, <1>3, <1>4, <2>3, <3>1 DEF PushingAt, Being
    <3>2. CASE y # p
      <4>1. op'[y] = op[y] /\ PushingAt(y, k)
        BY <1>3, <2>3, <3>2 DEF Pushing
      <4>2. QED
        BY <1>1, <1>4, <1>7, <2>1, <2>2, <2>3, <3>2, <4>1 DEF PushingAt, Being
    <3>3. QED
      BY <3>1, <3>2
  <2>4. QED
    BY <2>3 DEF Pushing
<1>14. Popping'
  <2>1. ASSUME NEW k \in Nat, SeqAt(k) = k + 1 PROVE SeqAt(k)' = k + 1
    <3>1. CASE k + 1 = x
      <4>1. Cell(k) # Cell(x)
        BY <3>1, Neighbours
      <4>2. QED
        BY <2>1, <4>1, <1>7
    <3>2. CASE k + 1 # x
      BY <2>1, <3>2, <1>8
    <3>3. QED
      BY <3>1, <3>2
  <2>2. ASSUME NEW y \in Consumer, NEW k \in Nat, op'[y].pos = k
        PROVE  PoppingAt(y, k)'
    <3>1. op'[y] = op[y] /\ PoppingAt(y, k)
      BY <1>3, <1>6, <2>2 DEF Popping
    <3>2. QED
      BY <1>1, <1>4, <1>7, <2>1, <2>2, <3>1 DEF PoppingAt, Being
  <2>3. QED
    BY <2>2 DEF Popping
<1>15. OneReader'
  BY <1>3, <1>6 DEF OneReader, Being
<1>16. QED
  BY <1>9, <1>10, <1>11, <1>12, <1>13, <1>14, <1>15

LEMMA FreeCell_Inv ==
    ASSUME RingInv, Capacity >= 2, NEW c \in Consumer, FreeCell(c)
    PROVE  RingInv'
<1> USE DEF RingInv
<1>0. PICK x \in 0..MaxPush : x = op[c].pos
  BY RingValues
<1>1. /\ cells' = [cells EXCEPT ![Cell(x)].seq = x + Capacity] /\ Then(c, "call")
      /\ UNCHANGED <<head, tail, placed>> /\ Being(c, {"release"}) /\ Being(c, {"read", "release"})
  BY <1>0 DEF FreeCell, Being, Does
<1>2. PICK r \in RingOp : op' = [op EXCEPT ![c] = r] /\ r.at = "call" /\ r.pos = x
  BY <1>0, <1>1, GoesTo
<1>3. op'[c] = r /\ \A g \in Producer \cup Consumer : g # c => op'[g] = op[g]
  BY <1>2 DEF RingTypeOK, Goroutine
<1>4. /\ head \in Nat /\ tail \in Nat /\ Capacity \in Nat /\ tail <= head
      /\ x \in 0..MaxPush /\ x \in Nat /\ \A q \in Nat : SeqAt(q) \in Nat
  BY <1>0, RingValues
<1>5. tail <= x + Capacity /\ x < tail /\ SeqAt(x) = x + 1
  BY <1>0, <1>1 DEF Popping, PoppingAt
<1>6. c \notin Producer
  BY RingAssumption
<1>7. /\ \A q \in Nat : /\ SeqAt(q)' = IF Cell(q) = Cell(x) THEN x + Capacity ELSE SeqAt(q)
                        /\ ItemAt(q)' = ItemAt(q)
      /\ cells' \in [0..(Capacity - 1) ->
           [seq : 0..(MaxPush + Capacity), val : Producer \cup {NoItem}]]
  <2>1. x + Capacity \in 0..(MaxPush + Capacity)
    BY <1>4, RingAssumption
  <2>2. QED
    BY <1>1, <1>4, <2>1, StoresSeq
<1>8. ASSUME NEW q \in Nat, SeqAt(q) # x + 1 PROVE SeqAt(q)' = SeqAt(q)
  <2>1. Cell(q) # Cell(x)
    BY <1>5, <1>8 DEF SeqAt
  <2>2. QED
    BY <2>1, <1>7
<1>9. ASSUME NEW q \in Nat, tail <= q, q < tail + Capacity, Cell(q) = Cell(x)
      PROVE  q = x + Capacity
  <2>1. Cell(x + Capacity) = Cell(q) /\ x + Capacity \in Nat
    BY <1>4, <1>9, CellRepeats
  <2>2. QED
    BY <1>4, <1>5, <1>9, <2>1, OneWindow
<1>10. RingTypeOK'
  BY <1>1, <1>2, <1>7 DEF RingTypeOK, Goroutine, RingOp
<1>11. NeverOverrun'
  BY <1>1 DEF NeverOverrun
<1>12. Claimed'
  <2>1. ASSUME NEW q \in Nat, tail <= q, q < head
        PROVE  SeqAt(q)' = q \/ (SeqAt(q)' = q + 1 /\ ItemAt(q)' = placed[q])
    <3>1. CASE Cell(q) = Cell(x)
      <4>1. q = x + Capacity
        BY <2>1, <3>1, <1>4, <1>9 DEF NeverOverrun
      <4>2. QED
        BY <3>1, <4>1, <1>7
    <3>2. CASE Cell(q) # Cell(x)
      BY <2>1, <3>2, <1>7 DEF Claimed
    <3>3. QED
      BY <3>1, <3>2
  <2>2. QED
    BY <2>1, <1>1 DEF Claimed
<1>13. Unclaimed'
  <2>1. ASSUME NEW q \in Nat, head <= q, q < tail + Capacity
        PROVE  SeqAt(q)' = q \/ SeqAt(q)' = q + 1 - Capacity
    <3>1. CASE Cell(q) = Cell(x)
      <4>1. q = x + Capacity
        BY <2>1, <3>1, <1>4, <1>9
      <4>2. QED
        BY <3>1, <4>1, <1>7
    <3>2. CASE Cell(q) # Cell(x)
      BY <2>1, <3>2, <1>7 DEF Unclaimed
    <3>3. QED
      BY <3>1, <3>2
  <2>2. QED
    BY <2>1, <1>1 DEF Unclaimed
<1>14. Pushing'
  <2>1. ASSUME NEW k \in Nat, SeqAt(k) = k PROVE SeqAt(k)' = k
    <3>1. CASE k = x + 1
      <4>1. Cell(k) # Cell(x)
        BY <3>1, <1>4, Neighbours
      <4>2. QED
        BY <2>1, <4>1, <1>7
    <3>2. CASE k # x + 1
      BY <2>1, <3>2, <1>8
    <3>3. QED
      BY <3>1, <3>2
  <2>2. ASSUME NEW y \in Producer, NEW k \in Nat, op'[y].pos = k
        PROVE  PushingAt(y, k)'
    <3>1. op'[y] = op[y] /\ PushingAt(y, k)
      BY <1>3, <1>6, <2>2 DEF Pushing
    <3>2. QED
      BY <1>1, <1>4, <1>7, <2>1, <2>2, <3>1 DEF PushingAt, Being
  <2>3. QED
    BY <2>2 DEF Pushing
<1>15. Popping'
  <2>1. ASSUME NEW y \in Consumer, y # c, Being(y, {"read", "release"}), NEW k \in Nat, k = op[y].pos
        PROVE  SeqAt(k)' = k + 1
    <3>1. SeqAt(k) = k + 1 /\ k # x
      BY <2>1, <1>0, <1>1 DEF Popping, PoppingAt, OneReader
    <3>2. QED
      BY <3>1, <1>4, <1>8
  <2>2. ASSUME NEW k \in Nat, k = tail, SeqAt(k) = k + 1 PROVE SeqAt(k)' = k + 1
    BY <2>2, <1>4, <1>5, <1>8
  <2>3. ASSUME NEW y \in Consumer, NEW k \in Nat, op'[y].pos = k
        PROVE  PoppingAt(y, k)'
    <3>1. CASE y = c
      BY <1>1, <1>2, <1>3, <1>4, <1>5, <2>3, <3>1 DEF PoppingAt, Being
    <3>2. CASE y # c
      <4>1. op'[y] = op[y] /\ PoppingAt(y, k)
        BY <1>3, <2>3, <3>2 DEF Popping
      <4>2. QED
        BY <1>1, <1>4, <1>7, <2>1, <2>2, <2>3, <3>2, <4>1 DEF PoppingAt, Being
    <3>3. QED
      BY <3>1, <3>2
  <2>4. QED
    BY <2>3 DEF Popping
<1>16. OneReader'
  BY <1>2, <1>3 DEF OneReader, Being
<1>17. QED
  BY <1>10, <1>11, <1>12, <1>13, <1>14, <1>15, <1>16

LEMMA RingInit_Inv == RingInit => RingInv
<1> SUFFICES ASSUME RingInit PROVE RingInv
  OBVIOUS
<1>1. Capacity \in Nat /\ Capacity > 0 /\ MaxPush \in Nat
  BY RingAssumption
<1>2. \A g \in Goroutine : op[g] = Ready
  BY DEF RingInit
<1>3. \A g \in Producer \cup Consumer : op[g].at = "call" /\ op[g].pos = 0
  BY <1>2 DEF Ready, Goroutine
<1>4. RingTypeOK
  <2>1. head \in 0..MaxPush /\ tail \in 0..head
    BY <1>1 DEF RingInit
  <2>2. cells \in [0..(Capacity - 1) -> [seq : 0..(MaxPush + Capacity), val : Producer \cup {NoItem}]]
    BY <1>1 DEF RingInit
  <2>3. Ready \in RingOp
    BY <1>1 DEF Ready, RingOp
  <2>4. op \in [Goroutine -> RingOp]
    BY <2>3 DEF RingInit
  <2>5. placed \in [0..(MaxPush - 1) -> Producer \cup {NoItem}]
    BY DEF RingInit
  <2>6. QED
    BY <2>1, <2>2, <2>4, <2>5 DEF RingTypeOK, RingOp
<1>5. NeverOverrun
  BY <1>1 DEF RingInit, NeverOverrun
<1>6. ASSUME NEW q \in Nat, q < Capacity PROVE SeqAt(q) = q
  <2>1. Cell(q) = q
    BY <1>1, <1>6, SMT DEF Cell
  <2>2. QED
    BY <2>1, <1>1, <1>6 DEF SeqAt, RingInit
<1>7. Claimed
  BY DEF RingInit, Claimed
<1>8. Unclaimed
  BY <1>1, <1>6 DEF RingInit, Unclaimed
<1>9. Pushing /\ Popping /\ OneReader
  BY <1>3 DEF Pushing, PushingAt, Popping, PoppingAt, OneReader, Being
<1>10. QED
  BY <1>4, <1>5, <1>7, <1>8, <1>9 DEF RingInv

LEMMA RingStutter_Inv == RingInv /\ UNCHANGED ringVars => RingInv'
BY DEF ringVars, RingInv, RingTypeOK, NeverOverrun, Claimed, Unclaimed, Pushing, PushingAt,
       Popping, PoppingAt, OneReader, SeqAt, ItemAt, Being

LEMMA RingNext_Inv ==
    ASSUME Capacity >= 2, RingInv, [RingNext]_ringVars
    PROVE  RingInv'
<1>1. ASSUME NEW p \in Producer, TryPush(p) PROVE RingInv'
  <2>1. CASE LoadPosition(p, head)
    BY <2>1, LoadPosition_Inv
  <2>2. CASE Compare(p, op[p].pos)
    BY <2>2, ComparePush_Inv
  <2>3. CASE ClaimPush(p)
    BY <2>3, ClaimPush_Inv
  <2>4. CASE WriteItem(p)
    BY <2>4, WriteItem_Inv
  <2>5. CASE Publish(p)
    BY <2>5, Publish_Inv
  <2>6. QED
    BY <1>1, <2>1, <2>2, <2>3, <2>4, <2>5 DEF TryPush
<1>2. ASSUME NEW c \in Consumer, TryPop(c) PROVE RingInv'
  <2>1. CASE LoadPosition(c, tail)
    BY <2>1, LoadPosition_Inv
  <2>2. CASE Compare(c, op[c].pos + 1)
    BY <2>2, ComparePop_Inv
  <2>3. CASE ClaimPop(c)
    BY <2>3, ClaimPop_Inv
  <2>4. CASE ReadItem(c)
    BY <2>4, ReadItem_Inv
  <2>5. CASE FreeCell(c)
    BY <2>5, FreeCell_Inv
  <2>6. QED
    BY <1>2, <2>1, <2>2, <2>3, <2>4, <2>5 DEF TryPop
<1>3. CASE UNCHANGED ringVars
  BY <1>3, RingStutter_Inv
<1>4. QED
  BY <1>1, <1>2, <1>3 DEF RingNext

LEMMA ReleasedIsPlaced == RingInv => ItemsInOrder
<1> SUFFICES ASSUME RingInv, NEW c \in Consumer, Does(c, "release")
             PROVE  op[c].got = placed[op[c].pos]
  BY DEF ItemsInOrder
<1>1. op[c].pos \in Nat
  BY RingValues DEF RingInv
<1>2. QED
  BY <1>1 DEF RingInv, Popping, PoppingAt, Being, Does

(* Counters, sequence numbers and the positions of goroutines stay within   *)
(* their bounds, in a ring of two cells or more.                            *)
THEOREM RingTypeCorrect == Capacity >= 2 /\ RingSpec => []RingTypeOK
<1> SUFFICES ASSUME Capacity >= 2 PROVE RingSpec => []RingTypeOK
  OBVIOUS
<1>1. RingInv /\ [RingNext]_ringVars => RingInv'
  BY RingNext_Inv
<1>2. RingInv => RingTypeOK
  BY DEF RingInv
<1>3. QED
  BY <1>1, <1>2, RingInit_Inv, PTL DEF RingSpec

(* TryPush and TryPop: in a ring of two cells or more, never more items     *)
(* than cells are claimed, and a position delivers what was pushed at it,   *)
(* whichever of the loads, swaps and stores of the goroutines interleave.   *)
(* A ring of one cell is not a queue: the run single_cell shows it.         *)
THEOREM RingKeepsOrder == Capacity >= 2 /\ RingSpec => []RingIsFifo
<1> SUFFICES ASSUME Capacity >= 2 PROVE RingSpec => []RingIsFifo
  OBVIOUS
<1>1. RingInv /\ [RingNext]_ringVars => RingInv'
  BY RingNext_Inv
<1>2. RingInv => RingIsFifo
  BY ReleasedIsPlaced DEF RingInv, RingIsFifo
<1>3. QED
  BY <1>1, <1>2, RingInit_Inv, PTL DEF RingSpec

(* The queue which the ring implements.                                     *)
Item == Producer \cup {NoItem}

LEMMA WindowOf ==
    ASSUME NEW h, NEW t, NEW P, NEW s, h \in 0..MaxPush, t \in 0..h, P \in [0..(MaxPush - 1) -> Item],
           s = [i \in 1..(h - t) |-> P[t + i - 1]]
    PROVE  /\ s \in Seq(Item) /\ Len(s) = h - t
           /\ \A i \in 1..(h - t) : s[i] = P[t + i - 1]
<1>1. h \in Nat /\ t \in Nat /\ h - t \in Nat /\ h <= MaxPush /\ MaxPush \in Nat
  BY RingAssumption
<1>2. ASSUME NEW i \in 1..(h - t) PROVE P[t + i - 1] \in Item
  <2>1. t + i - 1 \in 0..(MaxPush - 1)
    BY <1>1
  <2>2. QED
    BY <2>1
<1>3. PICK n \in Nat : n = h - t
  BY <1>1
<1>4. s \in [1..n -> Item]
  BY <1>2, <1>3
<1>5. s \in Seq(Item)
  BY <1>4, SeqDef
<1>6. Len(s) = n
  BY <1>3, <1>4, <1>5, LenProperties
<1>7. QED
  BY <1>3, <1>5, <1>6

LEMMA ContentsOf ==
    ASSUME RingTypeOK
    PROVE  /\ Contents \in Seq(Item) /\ Len(Contents) = head - tail
           /\ \A i \in 1..(head - tail) : Contents[i] = placed[tail + i - 1]
  BY WindowOf DEF RingTypeOK, Contents, Item

LEMMA ContentsAfter ==
    ASSUME RingTypeOK'
    PROVE  /\ Contents' \in Seq(Item) /\ Len(Contents') = head' - tail'
           /\ \A i \in 1..(head' - tail') : Contents'[i] = placed'[tail' + i - 1]
  BY WindowOf DEF RingTypeOK, Contents, Item

LEMMA RingQueueInit == RingInit => Queue!Init
<1> SUFFICES ASSUME RingInit PROVE Queue!Init
  OBVIOUS
<1>1. Contents \in Seq(Item) /\ Len(Contents) = 0
  BY RingInit_Inv, ContentsOf DEF RingInit, RingInv
<1>2. Contents = <<>>
  BY <1>1, EmptySeq
<1>3. Taken = [c \in Consumer |-> <<>>]
  BY DEF Taken, RingInit, Goroutine, Ready, Does
<1>4. QED
  BY <1>2, <1>3 DEF Queue!Init

(* A step of a producer leaves what consumers have in hand.                 *)
LEMMA ProducerKeepsTaken ==
    ASSUME RingInv, NEW p \in Producer, NEW r, op' = [op EXCEPT ![p] = r],
           \A q \in Nat : q < tail => placed'[q] = placed[q]
    PROVE  Taken' = Taken
<1>1. \A c \in Consumer : op'[c] = op[c]
  BY RingAssumption DEF RingInv, RingTypeOK, Goroutine
<1>2. ASSUME NEW c \in Consumer, Being(c, {"read", "release"}) PROVE placed'[op[c].pos] = placed[op[c].pos]
  <2>1. op[c].pos \in Nat
    BY RingValues DEF RingInv
  <2>2. op[c].pos < tail
    BY <1>2, <2>1 DEF RingInv, Popping, PoppingAt
  <2>3. QED
    BY <2>1, <2>2
<1>3. QED
  BY <1>1, <1>2 DEF Taken, Does, Being

LEMMA PushRefines ==
    ASSUME RingInv, RingInv', NEW p \in Producer, TryPush(p)
    PROVE  Queue!Push(p) \/ UNCHANGED <<Contents, Taken>>
<1>1. PICK r : op' = [op EXCEPT ![p] = r]
  BY DEF TryPush, LoadPosition, Compare, ClaimPush, WriteItem, Publish, Then
<1>2. CASE UNCHANGED <<head, tail, placed>>
  <2>1. Taken' = Taken
    BY <1>1, <1>2, ProducerKeepsTaken
  <2>2. QED
    BY <1>2, <2>1 DEF Contents
<1>3. CASE /\ head < MaxPush /\ head' = head + 1 /\ placed' = [placed EXCEPT ![head] = p] /\ tail' = tail
  <2>1. head \in Nat /\ tail \in Nat /\ tail <= head /\ head \in 0..(MaxPush - 1) /\ Capacity \in Nat
    BY <1>3, RingValues, RingAssumption DEF RingInv, RingTypeOK
  <2>2. placed'[head] = p /\ \A q \in Nat : q # head => placed'[q] = placed[q]
    BY <1>3, <2>1 DEF RingInv, RingTypeOK
  <2>3. Taken' = Taken
    <3>1. \A q \in Nat : q < tail => placed'[q] = placed[q]
      BY <2>1, <2>2
    <3>2. QED
      BY <1>1, <3>1, ProducerKeepsTaken
  <2>4. Contents \in Seq(Item) /\ Len(Contents) = head - tail /\ p \in Item
        /\ \A i \in 1..(head - tail) : Contents[i] = placed[tail + i - 1]
    BY ContentsOf DEF RingInv, Item
  <2>5. Contents' \in Seq(Item) /\ Len(Contents') = head + 1 - tail
        /\ \A i \in 1..(head + 1 - tail) : Contents'[i] = placed'[tail + i - 1]
    <3>1. /\ Contents' \in Seq(Item) /\ Len(Contents') = head' - tail'
          /\ \A i \in 1..(head' - tail') : Contents'[i] = placed'[tail' + i - 1]
      BY ContentsAfter DEF RingInv
    <3>2. head' = head + 1 /\ tail' = tail
      BY <1>3
    <3>3. QED
      BY <2>1, <3>1, <3>2
  <2>6. Contents' = Append(Contents, p)
    <3> DEFINE longer == Append(Contents, p)
    <3>1. longer \in Seq(Item) /\ Len(longer) = head + 1 - tail
          /\ longer[head + 1 - tail] = p
          /\ \A i \in 1..(head - tail) : longer[i] = placed[tail + i - 1]
      BY <2>1, <2>4, AppendProperties
    <3> HIDE DEF longer
    <3>2. ASSUME NEW i \in 1..(head + 1 - tail) PROVE Contents'[i] = longer[i]
      <4>1. CASE i = head + 1 - tail
        BY <2>1, <2>2, <2>5, <3>1, <4>1
      <4>2. CASE i # head + 1 - tail
        <5>1. i \in 1..(head - tail) /\ tail + i - 1 \in Nat /\ tail + i - 1 # head
          BY <2>1, <4>2
        <5>2. QED
          BY <2>2, <2>5, <3>1, <5>1
      <4>3. QED
        BY <4>1, <4>2
    <3>3. Contents' = longer
      BY <2>5, <3>1, <3>2, SeqEqual
    <3>4. QED
      BY <3>3 DEF longer
  <2>7. Len(Contents) < Capacity
    <3>1. head + 1 - tail <= Capacity
      BY <1>3, <2>1 DEF RingInv, NeverOverrun
    <3>2. QED
      BY <2>1, <2>4, <3>1
  <2>8. QED
    BY <2>3, <2>6, <2>7 DEF Queue!Push
<1>4. QED
  BY <1>2, <1>3 DEF TryPush, LoadPosition, Compare, ClaimPush, WriteItem, Publish

(* A step of one consumer, after which it has `item` in hand.               *)
LEMMA ConsumerTakes ==
    ASSUME RingInv, NEW c \in Consumer, NEW r, op' = [op EXCEPT ![c] = r], placed' = placed, NEW item,
           \/ r.at = "read" /\ item = <<placed[r.pos]>>
           \/ r.at = "release" /\ item = <<r.got>>
           \/ r.at \notin {"read", "release"} /\ item = <<>>
    PROVE  Taken' = [Taken EXCEPT ![c] = item]
<1>1. op'[c] = r /\ \A d \in Consumer : d # c => op'[d] = op[d]
  BY DEF RingInv, RingTypeOK, Goroutine
<1>2. \A d \in Consumer : Taken'[d] = [Taken EXCEPT ![c] = item][d]
  BY <1>1 DEF Taken, Does
<1>3. QED
  BY <1>2 DEF Taken

LEMMA PopRefines ==
    ASSUME RingInv, RingInv', NEW c \in Consumer, TryPop(c)
    PROVE  Queue!Pop(c) \/ Queue!Return(c) \/ UNCHANGED <<Contents, Taken>>
<1> USE DEF Does
<1>1. op[c] \in RingOp /\ op[c].pos \in Nat
  BY RingValues DEF RingInv, RingTypeOK, RingOp, Goroutine
<1>2. ASSUME NEW r, op' = [op EXCEPT ![c] = r], UNCHANGED <<head, tail, placed>>,
             op[c].at \notin {"read", "release"}, r.at \notin {"read", "release"}
      PROVE  UNCHANGED <<Contents, Taken>>
  <2>1. Taken' = [Taken EXCEPT ![c] = <<>>]
    BY <1>2, ConsumerTakes
  <2>2. Taken[c] = <<>>
    BY <1>2 DEF Taken
  <2>3. QED
    BY <1>2, <2>1, <2>2 DEF Contents, Taken
<1>3. CASE LoadPosition(c, tail)
  <2> DEFINE r == [Ready EXCEPT !.at = "compare", !.pos = tail]
  <2>1. r.at = "compare" /\ op' = [op EXCEPT ![c] = r]
    BY <1>3 DEF LoadPosition, Ready
  <2> HIDE DEF r
  <2>2. QED
    BY <1>2, <1>3, <2>1 DEF LoadPosition
<1>4. ASSUME NEW place \in {"call", "retry", "claim"}, Then(c, place), UNCHANGED <<head, tail, placed>>,
             op[c].at \in {"compare", "claim"}
      PROVE  UNCHANGED <<Contents, Taken>>
  <2>1. PICK r \in RingOp : op' = [op EXCEPT ![c] = r] /\ r.at = place
    BY <1>4, GoesTo DEF RingInv
  <2>2. QED
    BY <1>2, <1>4, <2>1
<1>5. CASE Compare(c, op[c].pos + 1)
  BY <1>4, <1>5 DEF Compare
<1>6. CASE ClaimPop(c) /\ tail # op[c].pos
  BY <1>4, <1>6 DEF ClaimPop
<1>7. CASE ClaimPop(c) /\ tail = op[c].pos
  <2>1. tail' = tail + 1 /\ UNCHANGED <<head, cells, placed>> /\ Then(c, "read") /\ op[c].at = "claim"
    BY <1>7 DEF ClaimPop
  <2>2. PICK r \in RingOp : op' = [op EXCEPT ![c] = r] /\ r.at = "read" /\ r.pos = tail
    BY <1>7, <2>1, GoesTo DEF RingInv
  <2>3. Taken' = [Taken EXCEPT ![c] = <<placed[tail]>>]
    <3>1. PICK item : item = <<placed[r.pos]>> /\ item = <<placed[tail]>>
      BY <2>2
    <3>2. Taken' = [Taken EXCEPT ![c] = item]
      BY <2>1, <2>2, <3>1, ConsumerTakes
    <3>3. QED
      BY <3>1, <3>2
  <2>4. Taken[c] = <<>>
    BY <2>1 DEF Taken
  <2>5. head \in Nat /\ tail \in Nat /\ tail + 1 <= head
    BY <2>1, RingValues DEF RingInv, RingTypeOK
  <2>6. Contents \in Seq(Item) /\ Len(Contents) = head - tail
        /\ \A i \in 1..(head - tail) : Contents[i] = placed[tail + i - 1]
    BY ContentsOf DEF RingInv
  <2>7. Contents # <<>> /\ Head(Contents) = placed[tail]
    <3>1. Contents # <<>>
      BY <2>5, <2>6, EmptySeq
    <3>2. Head(Contents) = Contents[1]
      BY <2>6, <3>1
    <3>3. 1 \in 1..(head - tail) /\ tail + 1 - 1 = tail
      BY <2>5
    <3>4. QED
      BY <2>6, <3>1, <3>2, <3>3
  <2>8. Contents' \in Seq(Item) /\ Len(Contents') = head - (tail + 1)
        /\ \A i \in 1..(head - (tail + 1)) : Contents'[i] = placed[(tail + 1) + i - 1]
    BY <2>1, ContentsAfter DEF RingInv
  <2>9. Contents' = Tail(Contents)
    <3> DEFINE rest == Tail(Contents)
    <3>1. rest \in Seq(Item) /\ Len(rest) = Len(Contents) - 1
          /\ \A i \in 1..Len(rest) : rest[i] = Contents[i + 1]
      BY <2>6, <2>7, HeadTailProperties
    <3> HIDE DEF rest
    <3>2. ASSUME NEW i \in 1..Len(Contents') PROVE Contents'[i] = rest[i]
      <4>1. i \in 1..(head - (tail + 1)) /\ i \in 1..Len(rest) /\ i + 1 \in 1..(head - tail)
            /\ (tail + 1) + i - 1 = tail + (i + 1) - 1
        BY <2>5, <2>6, <2>8, <3>1
      <4>2. QED
        BY <2>6, <2>8, <3>1, <4>1
    <3>3. Contents' = rest
      BY <2>5, <2>6, <2>8, <3>1, <3>2, SeqEqual
    <3>4. QED
      BY <3>3 DEF rest
  <2>10. QED
    BY <2>3, <2>4, <2>7, <2>9 DEF Queue!Pop
<1>8. CASE ReadItem(c)
  <2> DEFINE item == cells[Cell(op[c].pos)].val
             r == [op[c] EXCEPT !.at = "release", !.got = item]
  <2>1. op' = [op EXCEPT ![c] = r] /\ UNCHANGED <<head, tail, placed>> /\ op[c].at = "read"
    BY <1>8 DEF ReadItem
  <2>2. item = placed[op[c].pos]
    BY <1>1, <2>1 DEF RingInv, Popping, PoppingAt, Being, ItemAt
  <2>3. r.at = "release" /\ r.got = item
    BY <1>1 DEF RingOp
  <2> HIDE DEF item, r
  <2>4. Taken' = [Taken EXCEPT ![c] = <<item>>]
    <3>1. PICK one : one = <<r.got>> /\ one = <<item>>
      BY <2>3
    <3>2. Taken' = [Taken EXCEPT ![c] = one]
      BY <2>1, <2>3, <3>1, ConsumerTakes
    <3>3. QED
      BY <3>1, <3>2
  <2>5. Taken[c] = <<item>>
    BY <2>1, <2>2 DEF Taken
  <2>6. QED
    BY <2>1, <2>4, <2>5 DEF Contents, Taken
<1>9. CASE FreeCell(c)
  <2>1. Then(c, "call") /\ UNCHANGED <<head, tail, placed>> /\ op[c].at = "release"
    BY <1>9 DEF FreeCell
  <2>2. PICK r \in RingOp : op' = [op EXCEPT ![c] = r] /\ r.at = "call"
    BY <2>1, GoesTo DEF RingInv
  <2>3. Taken' = [Taken EXCEPT ![c] = <<>>]
    BY <2>1, <2>2, ConsumerTakes
  <2>4. Taken[c] = <<op[c].got>> /\ <<op[c].got>> # <<>>
    BY <2>1 DEF Taken
  <2>5. QED
    BY <2>1, <2>3, <2>4 DEF Queue!Return, Contents
<1>10. QED
  BY <1>3, <1>5, <1>6, <1>7, <1>8, <1>9 DEF TryPop

(* TryPush and TryPop implement a bounded queue: each takes effect at one   *)
(* instant, the swap by which it claims its position.  Whatever is read and *)
(* written after that, a pop returns the item that was first at its         *)
(* instant, and a push had room at its own.                                 *)
THEOREM RingImplementsQueue == Capacity >= 2 /\ RingSpec => ImplementsQueue
<1> SUFFICES ASSUME Capacity >= 2 PROVE RingSpec => ImplementsQueue
  OBVIOUS
<1>1. RingInv /\ [RingNext]_ringVars => RingInv'
  BY RingNext_Inv
<1>2. RingInv /\ RingInv' /\ [RingNext]_ringVars => [Queue!Next]_<<Contents, Taken>>
  <2> SUFFICES ASSUME RingInv, RingInv', [RingNext]_ringVars PROVE [Queue!Next]_<<Contents, Taken>>
    OBVIOUS
  <2>1. CASE UNCHANGED ringVars
    BY <2>1 DEF ringVars, Contents, Taken, Does
  <2>2. QED
    BY <2>1, PushRefines, PopRefines DEF RingNext, Queue!Next
<1>3. QED
  BY <1>1, <1>2, RingInit_Inv, RingQueueInit, PTL DEF RingSpec, ImplementsQueue, Queue!Spec

-----------------------------------------------------------------------------
(* The cache of the identity resolver.                                      *)

Waiter == [at : {"idle", "delete", "miss", "query", "store", "retire", "done", "wait", "returned"},
           joined : Resolver \cup {NoOne}, result : 0..Failed, done : BOOLEAN]

Entry   == [state : {"none", "fresh", "expired"}, version : 0..MaxVersion]
Leading == {"query", "store", "retire"}

(* The call in flight is the one of the goroutine between its miss and the  *)
(* removal of the call, so there is at most one; and whoever waits without  *)
(* an answer has joined a goroutine that has yet to call wg.Done.           *)
CacheInv ==
    /\ CacheTypeOK
    /\ \A g \in Resolver : resolving[g].at \in Leading <=> leader = g
    /\ \A g \in Resolver : resolving[g].at = "wait" /\ ~resolving[g].done =>
         /\ resolving[g].joined \in Resolver
         /\ resolving[resolving[g].joined].at \in Leading \cup {"done"}

LEMMA CacheInit_Inv == CacheInit => CacheInv
<1> SUFFICES ASSUME CacheInit PROVE CacheInv
  OBVIOUS
<1>1. Failed \in Nat /\ 0 \in 0..Failed /\ 0 \in 0..MaxVersion
  BY ResolverAssumption DEF Failed
<1>2. Resting \in Waiter /\ Resting.at = "idle"
  BY <1>1 DEF Resting, Waiter
<1>3. CacheTypeOK
  BY <1>1, <1>2 DEF CacheInit, CacheTypeOK, NoEntry, Waiter
<1>4. \A g \in Resolver : resolving[g].at = "idle" /\ leader = NoOne
  BY <1>2 DEF CacheInit
<1>5. QED
  BY <1>3, <1>4, ResolverAssumption DEF CacheInv, Leading

(* A step of one goroutine: it keeps the invariant when it leads exactly    *)
(* if it is the leader afterwards, still answers those that joined it, and  *)
(* waits only for the leader.                                               *)
LEMMA GoroutineMoves ==
    ASSUME CacheInv, NEW g \in Resolver, NEW r \in Waiter,
           entry' \in Entry, version' \in 0..MaxVersion,
           resolving' = [resolving EXCEPT ![g] = r],
           \/ leader' = leader /\ (r.at \in Leading <=> leader = g)
           \/ leader = NoOne /\ leader' = g /\ r.at \in Leading
           \/ leader = g /\ leader' = NoOne /\ r.at \notin Leading,
           resolving[g].at \in Leading \cup {"done"} => r.at \in Leading \cup {"done"},
           r.at = "wait" => leader \in Resolver /\ leader # g /\ r.joined = leader
    PROVE  CacheInv'
<1> USE DEF CacheInv
<1>1. resolving'[g] = r /\ \A h \in Resolver : h # g => resolving'[h] = resolving[h]
  BY DEF CacheTypeOK
<1>2. \A h \in Resolver : resolving'[h].at \in Leading <=> leader' = h
  BY <1>1, ResolverAssumption
<1>3. ASSUME NEW h \in Resolver, resolving'[h].at = "wait", ~resolving'[h].done
      PROVE  /\ resolving'[h].joined \in Resolver
             /\ resolving'[resolving'[h].joined].at \in Leading \cup {"done"}
  <2>1. CASE h = g
    <3>1. resolving'[h].joined = leader /\ leader \in Resolver /\ leader # g
      BY <1>1, <1>3, <2>1
    <3>2. resolving[leader].at \in Leading /\ resolving'[leader] = resolving[leader]
      BY <1>1, <3>1
    <3>3. QED
      BY <3>1, <3>2
  <2>2. CASE h # g
    <3>1. /\ resolving'[h] = resolving[h] /\ resolving[h].joined \in Resolver
          /\ resolving[resolving[h].joined].at \in Leading \cup {"done"}
      BY <1>1, <1>3, <2>2
    <3>2. QED
      BY <1>1, <3>1
  <2>3. QED
    BY <2>1, <2>2
<1>4. CacheTypeOK'
  <2>1. resolving' \in [Resolver -> Waiter]
    BY Zenon DEF CacheTypeOK, Waiter
  <2>2. leader' \in Resolver \cup {NoOne}
    BY DEF CacheTypeOK
  <2>3. QED
    BY <2>1, <2>2, Zenon DEF CacheTypeOK, Entry, Waiter
<1>5. QED
  BY <1>2, <1>3, <1>4

(* The records the steps build.                                             *)
LEMMA GoesOn ==
    ASSUME CacheTypeOK, NEW g \in Resolver, NEW place, Advances(g, place),
           place \in {"idle", "delete", "miss", "query", "store", "retire", "done", "wait", "returned"}
    PROVE  \E r \in Waiter : /\ resolving' = [resolving EXCEPT ![g] = r] /\ r.at = place
                             /\ r.joined = resolving[g].joined /\ r.result = resolving[g].result
<1> DEFINE r == [resolving[g] EXCEPT !.at = place]
<1>1. resolving[g] \in Waiter
  BY Zenon DEF CacheTypeOK, Waiter
<1>2. r \in Waiter /\ r.at = place /\ r.joined = resolving[g].joined /\ r.result = resolving[g].result
  BY <1>1 DEF Waiter
<1>3. resolving' = [resolving EXCEPT ![g] = r]
  BY Zenon DEF Advances
<1>4. QED
  BY <1>2, <1>3

LEMMA ReturnsRecord ==
    ASSUME NEW result \in 0..Failed
    PROVE  LET r == [Resting EXCEPT !.at = "returned", !.result = result] IN
           r \in Waiter /\ r.at = "returned"
BY DEF Resting, Waiter

LEMMA ReturnsMoves ==
    ASSUME CacheInv, NEW g \in Resolver, NEW result \in 0..Failed, Returns(g, result),
           resolving[g].at \notin Leading \cup {"done"},
           entry' \in Entry, version' \in 0..MaxVersion, leader' = leader
    PROVE  CacheInv'
<1> DEFINE r == [Resting EXCEPT !.at = "returned", !.result = result]
<1>1. r \in Waiter /\ r.at = "returned"
  BY ReturnsRecord
<1>2. resolving' = [resolving EXCEPT ![g] = r]
  BY DEF Returns
<1>3. leader # g
  BY DEF CacheInv
<1> HIDE DEF r
<1>4. QED
  BY <1>1, <1>2, <1>3, GoroutineMoves DEF Leading

LEMMA AdvancesMoves ==
    ASSUME CacheInv, NEW g \in Resolver, NEW place, Advances(g, place),
           place \in {"idle", "delete", "miss", "query", "store", "retire", "done", "returned"},
           entry' \in Entry, version' \in 0..MaxVersion,
           \/ leader' = leader /\ (place \in Leading <=> leader = g)
           \/ leader = NoOne /\ leader' = g /\ place \in Leading
           \/ leader = g /\ leader' = NoOne /\ place \notin Leading,
           resolving[g].at \in Leading \cup {"done"} => place \in Leading \cup {"done"}
    PROVE  CacheInv'
<1>1. PICK r \in Waiter : resolving' = [resolving EXCEPT ![g] = r] /\ r.at = place
  BY GoesOn DEF CacheInv
<1>2. QED
  BY <1>1, GoroutineMoves

LEMMA CacheValues ==
    ASSUME CacheInv
    PROVE  /\ entry \in Entry /\ version \in 0..MaxVersion /\ NoEntry \in Entry
           /\ 0..MaxVersion \subseteq 0..Failed /\ Failed \in 0..Failed
           /\ \A g \in Resolver : resolving[g] \in Waiter /\ resolving[g].result \in 0..Failed
<1>1. entry \in Entry /\ version \in 0..MaxVersion /\ \A g \in Resolver : resolving[g] \in Waiter
  BY Zenon DEF CacheInv, CacheTypeOK, Entry, Waiter
<1>2. 0..MaxVersion \subseteq 0..Failed /\ Failed \in 0..Failed /\ 0 \in 0..MaxVersion
  BY ResolverAssumption DEF Failed
<1>3. QED
  BY <1>1, <1>2 DEF Entry, Waiter, NoEntry

LEMMA Lookup_Inv == ASSUME CacheInv, NEW g \in Resolver, Lookup(g) PROVE CacheInv'
<1>1. resolving[g].at = "idle" /\ UNCHANGED <<entry, leader, version>> /\ leader # g
  BY DEF Lookup, In, CacheInv, Leading
<1>2. entry' \in Entry /\ version' \in 0..MaxVersion /\ entry.version \in 0..Failed
  BY <1>1, CacheValues DEF Entry
<1>3. CASE Returns(g, entry.version)
  BY <1>1, <1>2, <1>3, ReturnsMoves DEF Leading
<1>4. CASE Advances(g, "delete")
  BY <1>1, <1>2, <1>4, AdvancesMoves DEF Leading
<1>5. CASE Advances(g, "miss")
  BY <1>1, <1>2, <1>5, AdvancesMoves DEF Leading
<1>6. QED
  BY <1>3, <1>4, <1>5 DEF Lookup

LEMMA DeleteExpired_Inv == ASSUME CacheInv, NEW g \in Resolver, DeleteExpired(g) PROVE CacheInv'
<1>1. resolving[g].at = "delete" /\ leader # g /\ leader' = leader /\ Advances(g, "miss")
  BY DEF DeleteExpired, In, CacheInv, Leading
<1>2. entry' \in Entry /\ version' \in 0..MaxVersion
  BY CacheValues DEF DeleteExpired
<1>3. QED
  BY <1>1, <1>2, AdvancesMoves DEF Leading

LEMMA Join_Inv == ASSUME CacheInv, NEW g \in Resolver, Join(g) PROVE CacheInv'
<1>1. resolving[g].at = "miss" /\ leader # g /\ UNCHANGED <<entry, version>>
  BY DEF Join, In, CacheInv, Leading
<1>2. entry' \in Entry /\ version' \in 0..MaxVersion /\ entry.version \in 0..Failed
  BY <1>1, CacheValues DEF Entry
<1>3. CASE leader # NoOne
  <2> DEFINE r == [resolving[g] EXCEPT !.at = "wait", !.joined = leader]
  <2>1. resolving' = [resolving EXCEPT ![g] = r] /\ leader' = leader
    BY <1>3 DEF Join
  <2>2. leader \in Resolver
    BY <1>3 DEF CacheInv, CacheTypeOK
  <2>3. resolving[g] \in Waiter
    BY CacheValues
  <2>4. r \in Waiter /\ r.at = "wait" /\ r.joined = leader
    BY <2>2, <2>3 DEF Waiter
  <2> HIDE DEF r
  <2>5. QED
    BY <1>1, <1>2, <2>1, <2>2, <2>4, GoroutineMoves DEF Leading
<1>4. CASE leader = NoOne /\ entry.state = "fresh"
  <2>1. Returns(g, entry.version) /\ leader' = leader
    BY <1>4 DEF Join
  <2>2. QED
    BY <1>1, <1>2, <2>1, ReturnsMoves DEF Leading
<1>5. CASE leader = NoOne /\ entry.state # "fresh"
  <2>1. Advances(g, "query") /\ leader' = g
    BY <1>5 DEF Join
  <2>2. QED
    BY <1>1, <1>2, <1>5, <2>1, AdvancesMoves DEF Leading
<1>6. QED
  BY <1>3, <1>4, <1>5

LEMMA Query_Inv == ASSUME CacheInv, NEW g \in Resolver, Query(g) PROVE CacheInv'
<1>1. resolving[g].at = "query" /\ leader = g /\ UNCHANGED <<entry, leader, version>>
  BY DEF Query, In, CacheInv, Leading
<1>2. PICK result \in {version, Failed} :
        resolving' = [resolving EXCEPT ![g].at = "store", ![g].result = result]
  BY DEF Query
<1>3. entry' \in Entry /\ version' \in 0..MaxVersion /\ result \in 0..Failed /\ resolving[g] \in Waiter
  BY <1>1, CacheValues
<1> DEFINE r == [resolving[g] EXCEPT !.at = "store", !.result = result]
<1>4. resolving' = [resolving EXCEPT ![g] = r]
  BY <1>2
<1>5. r \in Waiter /\ r.at = "store"
  BY <1>3 DEF Waiter
<1> HIDE DEF r
<1>6. QED
  BY <1>1, <1>3, <1>4, <1>5, GoroutineMoves DEF Leading

LEMMA StoreEntry_Inv == ASSUME CacheInv, NEW g \in Resolver, StoreEntry(g) PROVE CacheInv'
<1>1. /\ resolving[g].at = "store" /\ leader = g /\ UNCHANGED <<leader, version>>
      /\ Advances(g, "retire")
  BY DEF StoreEntry, In, CacheInv, Leading
<1>2. entry' \in Entry
  <2>1. CASE resolving[g].result = Failed
    BY <2>1, CacheValues DEF StoreEntry
  <2>2. CASE resolving[g].result # Failed
    <3>1. resolving[g].result \in 0..MaxVersion
      BY <2>2, CacheValues, ResolverAssumption DEF Failed
    <3>2. entry' = [state |-> "fresh", version |-> resolving[g].result]
      BY <2>2 DEF StoreEntry
    <3>3. QED
      BY <3>1, <3>2 DEF Entry
  <2>3. QED
    BY <2>1, <2>2
<1>3. version' \in 0..MaxVersion
  BY <1>1, CacheValues
<1>4. QED
  BY <1>1, <1>2, <1>3, AdvancesMoves DEF Leading

LEMMA Retire_Inv == ASSUME CacheInv, NEW g \in Resolver, Retire(g) PROVE CacheInv'
<1>1. /\ resolving[g].at = "retire" /\ leader = g /\ leader' = NoOne /\ UNCHANGED <<entry, version>>
      /\ Advances(g, "done")
  BY DEF Retire, In, CacheInv, Leading
<1>2. entry' \in Entry /\ version' \in 0..MaxVersion
  BY <1>1, CacheValues
<1>3. QED
  BY <1>1, <1>2, AdvancesMoves DEF Leading

(* Nobody who waits for g is left without an answer, and g led no longer.   *)
LEMMA Finish_Inv == ASSUME CacheInv, NEW g \in Resolver, Finish(g) PROVE CacheInv'
<1> USE DEF CacheInv
<1>1. resolving[g].at = "done" /\ UNCHANGED <<entry, leader, version>>
  BY DEF Finish, In
<1>2. resolving[g].result \in 0..Failed /\ \A h \in Resolver : resolving[h] \in Waiter
  BY CacheValues
<1> DEFINE r == [Resting EXCEPT !.at = "returned", !.result = resolving[g].result]
           Woken(h) == [resolving[h] EXCEPT !.done = TRUE, !.result = resolving[g].result]
<1>3. r \in Waiter /\ r.at = "returned"
  BY <1>2, ReturnsRecord
<1>4. ASSUME NEW h \in Resolver
      PROVE  Woken(h) \in Waiter /\ Woken(h).at = resolving[h].at /\ Woken(h).done
  <2>1. resolving[h] \in Waiter /\ TRUE \in BOOLEAN
    BY <1>2
  <2>2. Woken(h) \in Waiter
    BY <1>2, <2>1 DEF Waiter
  <2>3. Woken(h).at = resolving[h].at /\ Woken(h).done = TRUE
    BY <2>1 DEF Waiter
  <2>4. QED
    BY <2>2, <2>3
<1>5. resolving' = [h \in Resolver |->
         IF h = g THEN r
         ELSE IF resolving[h].joined = g /\ ~resolving[h].done THEN Woken(h) ELSE resolving[h]]
  BY DEF Finish
<1> HIDE DEF r, Woken
<1>6. CacheTypeOK'
  <2>1. resolving' \in [Resolver -> Waiter]
    BY <1>2, <1>3, <1>4, <1>5
  <2>2. QED
    BY <1>1, <2>1, Zenon DEF CacheTypeOK, Waiter
<1>7. /\ resolving'[g].at = "returned"
      /\ \A h \in Resolver : h # g => resolving'[h].at = resolving[h].at
  BY <1>3, <1>4, <1>5
<1>8. \A h \in Resolver : resolving'[h].at \in Leading <=> leader' = h
  BY <1>1, <1>7 DEF Leading
<1>9. ASSUME NEW h \in Resolver, resolving'[h].at = "wait", ~resolving'[h].done
      PROVE  /\ resolving'[h].joined \in Resolver
             /\ resolving'[resolving'[h].joined].at \in Leading \cup {"done"}
  <2>1. h # g /\ resolving[h].at = "wait"
    BY <1>7, <1>9
  <2>2. ~(resolving[h].joined = g /\ ~resolving[h].done)
    BY <1>4, <1>5, <1>9, <2>1
  <2>3. resolving'[h] = resolving[h]
    BY <1>5, <2>1, <2>2
  <2>4. resolving[h].joined \in Resolver /\ resolving[h].joined # g
    BY <1>9, <2>1, <2>2, <2>3
  <2>5. QED
    BY <1>7, <1>9, <2>1, <2>3, <2>4
<1>10. QED
  BY <1>6, <1>8, <1>9

LEMMA Wake_Inv == ASSUME CacheInv, NEW g \in Resolver, Wake(g) PROVE CacheInv'
<1>1. /\ resolving[g].at = "wait" /\ Returns(g, resolving[g].result)
      /\ UNCHANGED <<entry, leader, version>>
  BY DEF Wake, In
<1>2. entry' \in Entry /\ version' \in 0..MaxVersion /\ resolving[g].result \in 0..Failed
  BY <1>1, CacheValues
<1>3. QED
  BY <1>1, <1>2, ReturnsMoves DEF Leading

LEMMA Again_Inv == ASSUME CacheInv, NEW g \in Resolver, Again(g) PROVE CacheInv'
<1>1. /\ resolving[g].at = "returned" /\ leader # g /\ resolving' = [resolving EXCEPT ![g] = Resting]
      /\ UNCHANGED <<entry, leader, version>>
  BY DEF Again, In, CacheInv, Leading
<1>2. entry' \in Entry /\ version' \in 0..MaxVersion /\ Resting \in Waiter /\ Resting.at = "idle"
  <2>1. 0 \in 0..Failed
    BY ResolverAssumption DEF Failed
  <2>2. QED
    BY <1>1, <2>1, CacheValues DEF Resting, Waiter
<1>3. QED
  BY <1>1, <1>2, GoroutineMoves DEF Leading

LEMMA CacheNext_Inv == CacheInv /\ [CacheNext]_cacheVars => CacheInv'
<1> SUFFICES ASSUME CacheInv, [CacheNext]_cacheVars PROVE CacheInv'
  OBVIOUS
<1>1. ASSUME UNCHANGED <<leader, resolving>>, entry' \in Entry, version' \in 0..MaxVersion
      PROVE  CacheInv'
  <2>1. CacheTypeOK'
    BY <1>1, Zenon DEF CacheInv, CacheTypeOK, Entry
  <2>2. QED
    BY <1>1, <2>1 DEF CacheInv
<1>2. CASE Expires
  <2>1. entry' \in Entry
    BY <1>2, CacheValues DEF Expires, Entry
  <2>2. QED
    BY <1>1, <1>2, <2>1, CacheValues DEF Expires
<1>3. CASE Invalidate
  BY <1>1, <1>3, CacheValues DEF Invalidate
<1>4. CASE MembershipChanges
  <2>1. version' \in 0..MaxVersion
    BY <1>4, CacheValues, ResolverAssumption DEF MembershipChanges
  <2>2. QED
    BY <1>1, <1>4, <2>1, CacheValues DEF MembershipChanges
<1>5. CASE UNCHANGED cacheVars
  BY <1>1, <1>5, CacheValues DEF cacheVars
<1>6. ASSUME NEW g \in Resolver, Lookup(g) \/ ResolverStep(g) \/ Again(g) PROVE CacheInv'
  BY <1>6, Lookup_Inv, DeleteExpired_Inv, Join_Inv, Query_Inv, StoreEntry_Inv, Retire_Inv,
     Finish_Inv, Wake_Inv, Again_Inv DEF ResolverStep
<1>7. QED
  BY <1>2, <1>3, <1>4, <1>5, <1>6 DEF CacheNext

LEMMA CacheInv_OneQuery == CacheInv => OneQueryAtATime
<1> SUFFICES ASSUME CacheInv PROVE OneQueryAtATime
  OBVIOUS
<1> DEFINE Q == {g \in Resolver : In(g, "query") \/ In(g, "store")}
<1>1. Q = {} \/ Q = {leader}
  BY DEF CacheInv, In, Leading
<1>2. Cardinality(Q) <= 1
  <2> HIDE DEF Q
  <2>1. Cardinality({}) = 0 /\ Cardinality({leader}) = 1
    BY FS_EmptySet, FS_Singleton
  <2>2. CASE Q = {}
    BY <2>1, <2>2
  <2>3. CASE Q = {leader}
    BY <2>1, <2>3
  <2>4. QED
    BY <1>1, <2>2, <2>3
<1>3. QED
  BY <1>2 DEF OneQueryAtATime, CacheInv, In, Leading

(* Entries, calls and answers of the resolver's cache hold values of their  *)
(* types.                                                                   *)
THEOREM CacheTypeCorrect == CacheSpec => []CacheTypeOK
<1>1. CacheSpec => []CacheInv
  BY CacheInit_Inv, CacheNext_Inv, PTL DEF CacheSpec
<1>2. CacheInv => CacheTypeOK
  BY DEF CacheInv
<1>3. QED
  BY <1>1, <1>2, PTL

(* Resolve: however many goroutines miss at once, and whenever entries      *)
(* expire or are deleted meanwhile, one of them queries the database, and   *)
(* whoever waits waits for a goroutine that has yet to answer.              *)
THEOREM MissesShareOneQuery == CacheSpec => []OneQueryAtATime
<1>1. CacheSpec => []CacheInv
  BY CacheInit_Inv, CacheNext_Inv, PTL DEF CacheSpec
<1>2. QED
  BY <1>1, CacheInv_OneQuery, PTL
=============================================================================
