------------------------- MODULE OfflineSyncProofs -------------------------
(***************************************************************************)
(* What the field application acknowledges and keeps, whatever the         *)
(* operator, the network and the server do, for any number of inspections, *)
(* of seals, of requests under way and of restarts.                        *)
(***************************************************************************)
EXTENDS OfflineSync, FiniteSetTheorems, SequenceTheorems, WellFoundedInduction, TLAPS

(* The largest of some bounded numbers, and the least of some numbers.      *)
LEMMA LeastExists ==
    ASSUME NEW S, S \subseteq Nat, S # {}
    PROVE  Min(S) \in S /\ \A y \in S : Min(S) <= y
<1>1. IsWellFoundedOn(OpToRel(<, Nat), Nat)
  BY NatLessThanWellFounded
<1>2. PICK x \in S : \A y \in S : ~(<<y, x>> \in OpToRel(<, Nat))
  BY <1>1, WFMin
<1>3. \A y \in S : x <= y
  <2> SUFFICES ASSUME NEW y \in S PROVE x <= y
    OBVIOUS
  <2>1. x \in Nat /\ y \in Nat
    OBVIOUS
  <2>2. ASSUME y < x PROVE FALSE
    <3>1. <<y, x>> \in Nat \X Nat /\ <<y, x>>[1] = y /\ <<y, x>>[2] = x
      BY <2>1
    <3>2. <<y, x>> \in {ss \in Nat \X Nat : ss[1] < ss[2]}
      BY <2>2, <3>1
    <3>3. QED
      BY <1>2, <3>2 DEF OpToRel
  <2>3. QED
    BY <2>1, <2>2
<1>4. QED
  BY <1>3 DEF Min

LEMMA LargestExists ==
    ASSUME NEW B \in Nat, NEW S, S \subseteq 0..B, S # {}
    PROVE  Max(S) \in S /\ \A y \in S : Max(S) >= y
<1> DEFINE T == {B - x : x \in S}
<1>1. T \subseteq Nat /\ T # {}
  <2>1. \A x \in S : x \in 0..B
    OBVIOUS
  <2>2. \A x \in S : B - x \in Nat
    BY <2>1
  <2>3. QED
    BY <2>2
<1>2. PICK m \in T : \A y \in T : m <= y
  BY <1>1, LeastExists
<1>3. PICK x \in S : m = B - x
  BY <1>2
<1>4. \A y \in S : x >= y
  <2> SUFFICES ASSUME NEW y \in S PROVE x >= y
    OBVIOUS
  <2>1. B - x <= B - y
    BY <1>2, <1>3
  <2>2. x \in Nat /\ y \in Nat
    OBVIOUS
  <2>3. QED
    BY <2>1, <2>2
<1>5. QED
  BY <1>4 DEF Max

-----------------------------------------------------------------------------
Numbers == 0..MaxSequence
Table   == [Tx -> Row \cup {None}]

FieldTypes ==
    /\ rows \in Table
    /\ sequence \in Numbers /\ accepted \in Numbers
    /\ draft \in Entry \cup {None} /\ sheet \in Entry \cup {None}
    /\ running \in Numbers \cup {None}
    /\ running = None => todo = <<>>
    /\ todo \in Seq(Request)
    /\ sent \in Request \cup {None}
    /\ replaying \in BOOLEAN
    /\ replaying => sent # None
    /\ epoch \in 1..MaxEpoch /\ issued \in 0..MaxTx /\ clock \in 0..MaxSeal
    /\ \A t \in Tx : rows[t] # None => t <= issued

ServerTypes ==
    /\ cache \in [Tx -> [body : Body, answer : Answers] \cup {None}]
    /\ receipt \in [Tx -> Receipt \cup {None}]
    /\ held \in [Tx -> 1..MaxSequence \cup {None}]
    /\ last \in Nat

(* What the server remembers: an answer that acknowledges is about applied  *)
(* work, and what it holds it has a receipt of.                             *)
ServerInv ==
    /\ ServerTypes
    /\ \A t \in Tx : cache[t] # None /\ cache[t].answer \in Acknowledged => OnServer(t)
    /\ \A t \in Tx : held[t] # None => receipt[t] # None

AckedOnServer == \A t \in In(Acknowledged) : OnServer(t)

OfflineInv ==
    /\ FieldTypes /\ net \subseteq Request
    /\ ServerInv
    /\ AckedOnServer
    /\ WorkIsKept

(* The two clocks and the count of the starts.                              *)
ClockTypes == valid \in BOOLEAN /\ restarts \in 0..MaxRestarts /\ lapsed \subseteq 1..MaxEpoch

LEMMA OfflineInv_Types == OfflineInv /\ ClockTypes => TypeOK
  BY DEF OfflineInv, ClockTypes, FieldTypes, ServerInv, ServerTypes, TypeOK, Table, Numbers

LEMMA ClockInit == Init => ClockTypes
  BY OutboxBounds DEF Init, FieldInit, ClockTypes

LEMMA Init_Inv == Init => OfflineInv
<1> SUFFICES ASSUME Init PROVE OfflineInv
  OBVIOUS
<1> USE DEF Init, FieldInit
<1>1. 0 \in Numbers /\ 1 \in 1..MaxEpoch /\ 0 \in 0..MaxTx /\ 0 \in 0..MaxSeal
  BY OutboxBounds DEF Numbers
<1>2. <<>> \in Seq(Request)
  BY EmptySeq
<1>3. FieldTypes
  BY <1>1, <1>2 DEF FieldTypes, Table
<1>4. ServerInv
  BY DEF ServerInv, ServerTypes
<1>5. AckedOnServer /\ WorkIsKept
  BY <1>1, OutboxBounds DEF AckedOnServer, WorkIsKept, In, Live
<1>6. QED
  BY <1>3, <1>4, <1>5 DEF OfflineInv

-----------------------------------------------------------------------------
(* What happens to the entries.  A step keeps the work if it acknowledges   *)
(* only what the server has applied, and drops or abandons an entry only    *)
(* when the operator did it or the server has it.                           *)
Kept(t) == rows[t] # None /\ rows[t].state # "abandoned"

LEMMA WorkStays ==
    ASSUME OfflineInv, FieldTypes', touched \subseteq touched',
           \A t \in Tx : OnServer(t) => OnServer(t)',
           \A t \in Tx : rows'[t] # None /\ rows'[t].state \in Acknowledged =>
               OnServer(t)' \/ (rows[t] # None /\ rows[t].state \in Acknowledged),
           \A t \in Tx : t <= issued /\ Kept(t) => t \in touched' \/ OnServer(t)' \/ Kept(t)',
           \A t \in Tx : t <= issued' /\ ~(t <= issued) => Kept(t)'
    PROVE  AckedOnServer' /\ WorkIsKept'
<1>1. AckedOnServer'
  BY DEF OfflineInv, AckedOnServer, In, Live
<1>2. ASSUME NEW t \in Tx, t <= issued' PROVE t \in touched' \/ OnServer(t)' \/ Kept(t)'
  <2>1. CASE t <= issued
    <3>1. t \in 1..issued
      BY <2>1, OutboxBounds DEF OfflineInv, FieldTypes, Tx
    <3>2. t \in touched \/ OnServer(t) \/ Kept(t)
      BY <3>1 DEF OfflineInv, WorkIsKept, In, Live, Kept
    <3>3. QED
      BY <2>1, <3>2
  <2>2. QED
    BY <1>2, <2>1
<1>3. \A t \in 1..issued' : t \in Tx /\ t <= issued'
  BY OutboxBounds DEF FieldTypes, Tx
<1>4. \A t \in Tx : Kept(t)' => rows'[t].state \in State
  BY DEF Kept, FieldTypes, Table, Row
<1>5. WorkIsKept'
  BY <1>2, <1>3, <1>4 DEF WorkIsKept, In, Live, Kept
<1>6. QED
  BY <1>1, <1>5

(* A mark changes the state of one entry, if there is one.                  *)
LEMMA MarkedRow ==
    ASSUME rows \in Table, NEW t, NEW s \in State
    PROVE  /\ Marked(t, s) \in Table
           /\ \A u \in Tx : Marked(t, s)[u] # None <=> rows[u] # None
           /\ \A u \in Tx \ {t} : Marked(t, s)[u] = rows[u]
           /\ t \in Tx /\ rows[t] # None => Marked(t, s)[t].state = s
           /\ \A u \in Tx : rows[u] # None => BodyOf(Marked(t, s)[u]) = BodyOf(rows[u])
<1>1. \A q \in Row : [q EXCEPT !.state = s] \in Row /\ [q EXCEPT !.state = s].state = s
                     /\ BodyOf([q EXCEPT !.state = s]) = BodyOf(q)
  BY DEF Row, BodyOf
<1>2. \A q \in Row : [q EXCEPT !.state = s] # None
  BY <1>1, NoneAssumption
<1>3. \A u \in Tx : rows[u] # None => rows[u] \in Row
  BY DEF Table
<1>4. \A u \in Tx : Marked(t, s)[u] =
         IF u = t /\ rows[u] # None THEN [rows[u] EXCEPT !.state = s] ELSE rows[u]
  BY DEF Marked, Table
<1>5. Marked(t, s) \in Table
  <2>1. \A u \in Tx : Marked(t, s)[u] \in Row \cup {None}
    BY <1>1, <1>3, <1>4
  <2>2. Marked(t, s) = [u \in Tx |-> Marked(t, s)[u]]
    BY DEF Marked, Table
  <2>3. QED
    BY <2>1, <2>2 DEF Table
<1>6. QED
  BY <1>1, <1>2, <1>3, <1>4, <1>5

(* reconcileOutboxIdentities leaves what is acknowledged or abandoned alone *)
(* and queues the rest, under numbers within the bound.                     *)
LEMMA HighestBounded ==
    ASSUME NEW R \in Table, NEW states PROVE Highest(R, states) \in Numbers
<1> DEFINE H == {0} \cup {R[t].seq : t \in {u \in Tx : R[u] # None /\ R[u].state \in states}}
<1>1. H \subseteq Numbers /\ H # {}
  BY OutboxBounds DEF Table, Row, Numbers
<1>2. Max(H) \in H
  BY <1>1, LargestExists, OutboxBounds DEF Numbers
<1>3. QED
  BY <1>1, <1>2 DEF Highest

LEMMA Places ==
    ASSUME NEW R \in Table
    PROVE  /\ Cardinality(Movable(R)) \in Nat
           /\ \A t \in Movable(R) : Place(R, t) \in 1..Cardinality(Movable(R))
<1>1. IsFiniteSet(Movable(R))
  <2>1. IsFiniteSet(Tx)
    BY FS_Interval, OutboxBounds DEF Tx
  <2>2. QED
    BY <2>1, FS_Subset DEF Movable
<1>2. Cardinality(Movable(R)) \in Nat
  BY <1>1, FS_CardinalityType
<1>3. ASSUME NEW t \in Movable(R) PROVE Place(R, t) \in 1..Cardinality(Movable(R))
  <2> DEFINE P == {u \in Movable(R) : R[u].at <= R[t].at}
  <2>1. P \subseteq Movable(R)
    OBVIOUS
  <2>2. IsFiniteSet(P) /\ Cardinality(P) <= Cardinality(Movable(R))
    BY <1>1, <2>1, FS_Subset
  <2>3. t \in P
    BY DEF Movable, Table, Row
  <2>4. Cardinality(P) \in Nat /\ Cardinality(P) # 0
    BY <2>2, <2>3, FS_CardinalityType, FS_EmptySet
  <2>5. QED
    BY <1>2, <2>2, <2>4 DEF Place
<1>4. QED
  BY <1>2, <1>3

LEMMA Reconciled ==
    ASSUME NEW R \in Table, NEW q \in Numbers, NEW a \in Numbers, NEW e \in 1..MaxEpoch,
           Reconcile(R, q, a, e)
    PROVE  /\ rows' \in Table /\ sequence' \in Numbers /\ accepted' \in Numbers
           /\ \A t \in Tx : \/ rows'[t] = R[t]
                            \/ /\ R[t] # None /\ R[t].state \notin Acknowledged \cup {"abandoned"}
                               /\ rows'[t] # None /\ rows'[t].state = "queued" /\ rows'[t].at = R[t].at
<1> DEFINE k == Cardinality(Movable(R))
<1>1. k \in Nat /\ a + k <= MaxSequence /\ a \in Nat
      /\ \A t \in Movable(R) : Place(R, t) \in 1..k
  BY Places, OutboxBounds DEF Reconcile, Numbers
<1>2. PICK n \in Reaches(R, a, e) :
        /\ rows' = Rebound(R, a, e, n)
        /\ sequence' = IF Stale(R, a, e, n) = {} THEN q ELSE a + Min({n + 1, Cardinality(Movable(R))})
  BY DEF Reconcile
<1> HIDE DEF k
<1>3. n \in Nat
  <2>1. n = k \/ \E t \in Movable(R) : n = Place(R, t) - 1
    BY <1>2 DEF Reaches, k
  <2>2. QED
    BY <1>1, <2>1
<1>4. a + Min({n + 1, k}) \in Numbers
  <2> DEFINE m == Min({n + 1, k})
  <2>1. {n + 1, k} \subseteq Nat
    BY <1>1, <1>3
  <2>2. m \in {n + 1, k} /\ m <= k
    BY <2>1, LeastExists
  <2> HIDE DEF m
  <2>3. m \in Nat /\ m <= k
    BY <2>1, <2>2
  <2>4. a + m \in Numbers
    BY <1>1, <2>3, OutboxBounds DEF Numbers
  <2>5. QED
    BY <2>4 DEF m
<1>5. sequence' \in Numbers
  BY <1>2, <1>4 DEF k
<1>6. accepted' \in Numbers
  <2>1. Highest(R, Acknowledged) \in Numbers
    BY HighestBounded
  <2>2. Max({a, Highest(R, Acknowledged)}) \in {a, Highest(R, Acknowledged)}
    BY <2>1, LargestExists, OutboxBounds DEF Numbers
  <2>3. QED
    BY <2>1, <2>2 DEF Reconcile
<1>7. ASSUME NEW t \in Stale(R, a, e, n)
      PROVE  /\ t \in Tx /\ R[t] # None /\ R[t].state \notin Acknowledged \cup {"abandoned"}
             /\ [seq |-> a + Place(R, t), at |-> R[t].at, epoch |-> e, state |-> "queued"] \in Row
  <2>1. t \in Movable(R) /\ t \in Tx /\ R[t] # None /\ R[t].state \notin Acknowledged \cup {"abandoned"}
    BY DEF Stale, Movable
  <2>2. a + Place(R, t) \in 1..MaxSequence
    BY <1>1, <2>1, OutboxBounds
  <2>3. R[t].at \in 1..MaxSeal
    BY <2>1 DEF Table, Row
  <2>4. QED
    BY <2>1, <2>2, <2>3 DEF Row, State, Pending
<1>8. \A t \in Tx : rows'[t] = IF t \in Stale(R, a, e, n)
         THEN [seq |-> a + Place(R, t), at |-> R[t].at, epoch |-> e, state |-> "queued"] ELSE R[t]
  BY <1>2 DEF Rebound
<1>9. rows' \in Table
  <2>1. \A t \in Tx : rows'[t] \in Row \cup {None}
    BY <1>7, <1>8 DEF Table
  <2>2. rows' = [t \in Tx |-> rows'[t]]
    BY <1>2 DEF Rebound
  <2>3. QED
    BY <2>1, <2>2 DEF Table
<1>10. ASSUME NEW t \in Tx
       PROVE  \/ rows'[t] = R[t]
              \/ /\ R[t] # None /\ R[t].state \notin Acknowledged \cup {"abandoned"}
                 /\ rows'[t] # None /\ rows'[t].state = "queued" /\ rows'[t].at = R[t].at
  <2>1. CASE t \in Stale(R, a, e, n)
    <3>1. rows'[t] = [seq |-> a + Place(R, t), at |-> R[t].at, epoch |-> e, state |-> "queued"]
      BY <1>8, <2>1
    <3>2. rows'[t] \in Row /\ rows'[t].state = "queued" /\ rows'[t].at = R[t].at
      BY <1>7, <2>1, <3>1
    <3>3. QED
      BY <1>7, <2>1, <3>2, NoneAssumption
  <2>2. CASE t \notin Stale(R, a, e, n)
    BY <1>8, <2>2
  <2>3. QED
    BY <2>1, <2>2
<1>11. QED
  BY <1>5, <1>6, <1>9, <1>10

-----------------------------------------------------------------------------
(* The server forgets no receipt and revokes none that is applied.          *)
Remembers ==
    /\ receipt' \in [Tx -> Receipt \cup {None}]
    /\ held' \in [Tx -> 1..MaxSequence \cup {None}]
    /\ last' \in Nat
    /\ \A t \in Tx : OnServer(t) => OnServer(t)'
    /\ \A t \in Tx : held'[t] # None => receipt'[t] # None

LEMMA Keep_Remembers == ASSUME ServerInv, Keep PROVE Remembers
  BY DEF ServerInv, ServerTypes, Keep, Remembers, OnServer

LEMMA NewReceipt ==
    ASSUME NEW b \in Body, NEW done \in BOOLEAN, NEW q,
           q = [seq |-> b.seq, at |-> b.at, applied |-> done]
    PROVE  q \in Receipt /\ q.applied = done
  BY DEF Body, Receipt

LEMMA AppliedAgain ==
    ASSUME NEW q \in Receipt
    PROVE  [q EXCEPT !.applied = TRUE] \in Receipt /\ [q EXCEPT !.applied = TRUE].applied = TRUE
  BY DEF Receipt

LEMMA Hold_Remembers ==
    ASSUME ServerInv, NEW t \in Tx, NEW b \in Body, Hold(t, b)
    PROVE  Remembers
<1> DEFINE new == [seq |-> b.seq, at |-> b.at, applied |-> FALSE]
<1>1. new \in Receipt /\ new # None
  BY NewReceipt, ReceiptAssumption
<1>2. receipt' = [receipt EXCEPT ![t] = IF receipt[t] = None THEN new ELSE receipt[t]]
      /\ held' = [held EXCEPT ![t] = b.seq] /\ last' = last
  BY DEF Hold, ServerInv, ServerTypes
<1> HIDE DEF new
<1>3. b.seq \in 1..MaxSequence
  BY DEF Body
<1>4. receipt' \in [Tx -> Receipt \cup {None}] /\ held' \in [Tx -> 1..MaxSequence \cup {None}]
  BY <1>1, <1>2, <1>3 DEF ServerInv, ServerTypes
<1>5. \A u \in Tx : receipt[u] # None => receipt'[u] = receipt[u]
  BY <1>2 DEF ServerInv, ServerTypes
<1>6. receipt'[t] # None /\ \A u \in Tx \ {t} : held'[u] = held[u]
  BY <1>1, <1>2 DEF ServerInv, ServerTypes
<1>7. \A u \in Tx : held'[u] # None => receipt'[u] # None
  BY <1>5, <1>6 DEF ServerInv
<1>8. QED
  BY <1>2, <1>4, <1>5, <1>7 DEF Remembers, OnServer, ServerInv, ServerTypes

LEMMA Accept_Remembers ==
    ASSUME ServerInv, NEW t \in Tx, NEW b \in Body, Accept(t, b)
    PROVE  Remembers /\ OnServer(t)'
<1>1. PICK D \in SUBSET {u \in Tx \ {t} : held[u] # None} :
        /\ receipt' = [u \in Tx |-> IF u = t THEN AppliedReceipt(t, b)
                                    ELSE IF u \in D THEN [receipt[u] EXCEPT !.applied = TRUE] ELSE receipt[u]]
        /\ held' = [u \in Tx |-> IF u \in D \cup {t} THEN None ELSE held[u]]
        /\ last' = b.seq + Cardinality(D)
  BY DEF Accept
<1>2. AppliedReceipt(t, b) \in Receipt /\ AppliedReceipt(t, b).applied = TRUE
  <2>1. CASE receipt[t] = None
    <3>1. AppliedReceipt(t, b) = [seq |-> b.seq, at |-> b.at, applied |-> TRUE]
      BY <2>1 DEF AppliedReceipt
    <3>2. QED
      BY <3>1, NewReceipt
  <2>2. CASE receipt[t] # None
    <3>1. AppliedReceipt(t, b) = [receipt[t] EXCEPT !.applied = TRUE] /\ receipt[t] \in Receipt
      BY <2>2 DEF AppliedReceipt, ServerInv, ServerTypes
    <3>2. QED
      BY <3>1, AppliedAgain
  <2>3. QED
    BY <2>1, <2>2
<1>3. \A u \in D : receipt[u] \in Receipt
  BY DEF ServerInv, ServerTypes
<1>4. \A u \in D : [receipt[u] EXCEPT !.applied = TRUE] \in Receipt
                   /\ [receipt[u] EXCEPT !.applied = TRUE].applied = TRUE
  BY <1>3, AppliedAgain
<1>5. last' \in Nat
  <2>1. IsFiniteSet(D)
    <3>1. IsFiniteSet(Tx)
      BY FS_Interval, OutboxBounds DEF Tx
    <3>2. QED
      BY <3>1, FS_Subset
  <2>2. Cardinality(D) \in Nat
    BY <2>1, FS_CardinalityType
  <2>3. b.seq \in Nat
    BY OutboxBounds DEF Body
  <2>4. QED
    BY <1>1, <2>2, <2>3
<1>6. receipt'[t] \in Receipt /\ receipt'[t].applied = TRUE
  BY <1>1, <1>2
<1>7. \A u \in D : receipt'[u] \in Receipt /\ receipt'[u].applied = TRUE
  BY <1>1, <1>4
<1>8. \A u \in Tx : u # t /\ u \notin D => receipt'[u] = receipt[u]
  BY <1>1
<1>9. receipt' \in [Tx -> Receipt \cup {None}]
  <2>1. \A u \in Tx : receipt'[u] \in Receipt \cup {None}
    BY <1>6, <1>7, <1>8 DEF ServerInv, ServerTypes
  <2>2. receipt' = [u \in Tx |-> receipt'[u]]
    BY <1>1
  <2>3. QED
    BY <2>1, <2>2
<1>10. held' \in [Tx -> 1..MaxSequence \cup {None}]
  BY <1>1 DEF ServerInv, ServerTypes
<1>11. \A u \in Tx : OnServer(u) => OnServer(u)'
  BY <1>6, <1>7, <1>8, ReceiptAssumption DEF OnServer
<1>12. \A u \in Tx : held'[u] # None => receipt'[u] # None
  <2>1. \A u \in Tx : held'[u] # None => u \notin D \cup {t} /\ held[u] # None
    BY <1>1
  <2>2. QED
    BY <1>8, <2>1 DEF ServerInv
<1>13. OnServer(t)'
  BY <1>6, ReceiptAssumption DEF OnServer
<1>14. QED
  BY <1>5, <1>9, <1>10, <1>11, <1>12, <1>13 DEF Remembers

LEMMA Process_Remembers ==
    ASSUME ServerInv, NEW t \in Tx, NEW b \in Body, NEW a \in Answers, Process(t, b, a)
    PROVE  Remembers /\ (a \in Acknowledged => OnServer(t)')
<1>1. CASE Keep /\ a \notin Acknowledged
  BY <1>1, Keep_Remembers
<1>2. CASE Keep /\ OnServer(t)
  BY <1>2, Keep_Remembers DEF Remembers
<1>3. CASE Hold(t, b) /\ a = "held"
  BY <1>3, Hold_Remembers DEF Acknowledged
<1>4. CASE Accept(t, b)
  BY <1>4, Accept_Remembers
<1>5. QED
  BY <1>1, <1>2, <1>3, <1>4 DEF Process, RefuseStale, OnServer, Acknowledged

(* A request that is answered, from the cache or by the server.             *)
LEMMA Guarded_Inv ==
    ASSUME ServerInv, NEW m \in Request, NEW a \in Answers, Guarded(m, a)
    PROVE  /\ ServerInv'
           /\ \A t \in Tx : OnServer(t) => OnServer(t)'
           /\ a \in Acknowledged => OnServer(m.tx)'
<1>1. m.tx \in Tx /\ m.body \in Body
  BY DEF Request
<1>2. CASE cache[m.tx] # None
  <2>1. /\ a = (IF cache[m.tx].body = m.body THEN cache[m.tx].answer ELSE "rejected")
        /\ UNCHANGED <<cache, receipt, held, last>>
    BY <1>2 DEF Guarded
  <2>2. a \in Acknowledged => OnServer(m.tx)
    BY <1>1, <1>2, <2>1 DEF ServerInv, Acknowledged
  <2>3. QED
    BY <1>1, <2>1, <2>2 DEF ServerInv, ServerTypes, OnServer
<1>3. CASE cache[m.tx] = None
  <2>1. Process(m.tx, m.body, a) /\ cache' = [cache EXCEPT ![m.tx] = [body |-> m.body, answer |-> a]]
    BY <1>3 DEF Guarded
  <2>2. Remembers /\ (a \in Acknowledged => OnServer(m.tx)')
    BY <1>1, <2>1, Process_Remembers
  <2>3. cache' \in [Tx -> [body : Body, answer : Answers] \cup {None}]
    BY <1>1, <2>1 DEF ServerInv, ServerTypes
  <2>4. cache'[m.tx].answer = a /\ \A t \in Tx \ {m.tx} : cache'[t] = cache[t]
    BY <1>1, <2>1 DEF ServerInv, ServerTypes
  <2>5. ASSUME NEW t \in Tx, cache'[t] # None, cache'[t].answer \in Acknowledged PROVE OnServer(t)'
    BY <2>2, <2>4, <2>5 DEF ServerInv, Remembers
  <2>6. QED
    BY <2>2, <2>3, <2>5 DEF ServerInv, ServerTypes, Remembers
<1>4. QED
  BY <1>2, <1>3

-----------------------------------------------------------------------------
(* The operator's steps, and those of the flush, which the server does not  *)
(* notice.                                                                  *)
LEMMA ServerUnchanged ==
    ASSUME OfflineInv, UNCHANGED <<cache, receipt, held, last>>
    PROVE  ServerInv' /\ \A t \in Tx : OnServer(t)' <=> OnServer(t)
  BY DEF OfflineInv, ServerInv, ServerTypes, OnServer

(* Steps that leave the rows and what is captured alone.                    *)
LEMMA SessionStep ==
    ASSUME OfflineInv, FieldTypes', net' \subseteq Request, touched \subseteq touched',
           UNCHANGED <<rows, issued, cache, receipt, held, last>>
    PROVE  OfflineInv'
<1>1. ServerInv' /\ \A t \in Tx : OnServer(t)' <=> OnServer(t)
  BY ServerUnchanged
<1>2. \A t \in Tx : Kept(t)' <=> Kept(t)
  BY DEF Kept
<1>3. AckedOnServer' /\ WorkIsKept'
  BY <1>1, <1>2, WorkStays
<1>4. QED
  BY <1>1, <1>3 DEF OfflineInv

(* Steps that change rows, in ways that keep the work.                      *)
LEMMA RowsStep ==
    ASSUME OfflineInv, FieldTypes', touched \subseteq touched', issued' = issued,
           UNCHANGED serverVars,
           \A t \in Tx : rows'[t] # None /\ rows'[t].state \in Acknowledged =>
               rows[t] # None /\ rows[t].state \in Acknowledged,
           \A t \in Tx : Kept(t) => t \in touched' \/ OnServer(t) \/ Kept(t)'
    PROVE  OfflineInv'
<1>1. ServerInv' /\ \A t \in Tx : OnServer(t)' <=> OnServer(t)
  BY ServerUnchanged DEF serverVars
<1>2. AckedOnServer' /\ WorkIsKept'
  BY <1>1, WorkStays
<1>3. QED
  BY <1>1, <1>2 DEF OfflineInv, serverVars

LEMMA BeginInspection_Inv == ASSUME OfflineInv, BeginInspection, UNCHANGED <<serverVars, touched>> PROVE OfflineInv'
<1>1. FieldTypes'
  BY DEF OfflineInv, FieldTypes, BeginInspection, durable
<1>2. QED
  BY <1>1, SessionStep DEF BeginInspection, durable, serverVars, OfflineInv

LEMMA QueueForSync_Inv == ASSUME OfflineInv, QueueForSync, UNCHANGED <<serverVars, touched>> PROVE OfflineInv'
<1> USE DEF QueueForSync
<1>1. FieldTypes
  BY DEF OfflineInv
<1>0. PICK n : n = issued + 1
  OBVIOUS
<1> DEFINE q == [seq |-> sequence + 1, at |-> clock + 1, epoch |-> epoch, state |-> "queued"]
<1>2. n \in Tx /\ n \in 0..MaxTx /\ ~(n <= issued) /\ issued <= n
  BY <1>0, <1>1, OutboxBounds DEF FieldTypes, Tx
<1>3. q \in Row /\ q # None /\ q.state = "queued"
  <2>1. sequence + 1 \in 1..MaxSequence /\ clock + 1 \in 1..MaxSeal /\ epoch \in 1..MaxEpoch
    BY <1>1, OutboxBounds DEF FieldTypes, Numbers
  <2>2. q \in Row /\ q.state = "queued"
    BY <2>1 DEF Row, State, Pending
  <2>3. QED
    BY <2>2, NoneAssumption
<1>4. rows' = [rows EXCEPT ![n] = q] /\ issued' = n
  BY <1>0
<1> HIDE DEF q
<1>5. /\ rows' \in Table /\ rows'[n] = q
      /\ \A t \in Tx \ {n} : rows'[t] = rows[t]
  BY <1>1, <1>2, <1>3, <1>4 DEF FieldTypes, Table
<1>6. \A t \in Tx : t <= issued => t <= n /\ t # n
  BY <1>0, <1>1, <1>2 DEF FieldTypes, Tx
<1>7. \A t \in Tx : t <= n /\ ~(t <= issued) => t = n
  BY <1>0, <1>1 DEF FieldTypes, Tx
<1>8. FieldTypes'
  <2>1. sequence' \in Numbers /\ clock' \in 0..MaxSeal
    BY <1>1, OutboxBounds DEF FieldTypes, Numbers
  <2>2. n <= n
    BY <1>2
  <2>3. \A t \in Tx : rows'[t] # None => t <= issued'
    BY <1>1, <1>4, <1>5, <1>6, <2>2 DEF FieldTypes
  <2>4. QED
    BY <1>1, <1>2, <1>4, <1>5, <2>1, <2>3 DEF FieldTypes
<1>9. ServerInv' /\ \A t \in Tx : OnServer(t)' <=> OnServer(t)
  BY ServerUnchanged DEF serverVars
<1>10. Kept(n)' /\ \A t \in Tx \ {n} : Kept(t)' <=> Kept(t)
  BY <1>3, <1>5 DEF Kept
<1>11. \A t \in Tx : rows'[t] # None /\ rows'[t].state \in Acknowledged =>
         rows[t] # None /\ rows[t].state \in Acknowledged
  BY <1>3, <1>5 DEF Acknowledged
<1>12. AckedOnServer' /\ WorkIsKept'
  <2>1. \A t \in Tx : t <= issued /\ Kept(t) => t \in touched' \/ OnServer(t)' \/ Kept(t)'
    BY <1>2, <1>10
  <2>2. \A t \in Tx : t <= issued' /\ ~(t <= issued) => Kept(t)'
    BY <1>4, <1>7, <1>10
  <2>3. QED
    BY <1>8, <1>9, <1>11, <2>1, <2>2, WorkStays
<1>13. QED
  BY <1>8, <1>9, <1>12 DEF OfflineInv, serverVars

LEMMA QueueEdited_Inv == ASSUME OfflineInv, QueueEdited, UNCHANGED <<serverVars, touched>> PROVE OfflineInv'
<1> USE DEF QueueEdited
<1>1. FieldTypes
  BY DEF OfflineInv
<1> DEFINE d == draft.tx
           q == [seq |-> draft.seq, at |-> clock + 1, epoch |-> epoch, state |-> "queued"]
           old == rows[d]
<1>2. d \in Tx /\ draft.seq \in 1..MaxSequence
  BY <1>1 DEF FieldTypes, Entry
<1>3. q \in Row /\ q # None /\ q.state = "queued"
  <2>1. clock + 1 \in 1..MaxSeal /\ epoch \in 1..MaxEpoch
    BY <1>1, OutboxBounds DEF FieldTypes
  <2>2. q \in Row /\ q.state = "queued"
    BY <1>2, <2>1 DEF Row, State, Pending
  <2>3. QED
    BY <2>2, NoneAssumption
<1>4. rows' = [rows EXCEPT ![d] = IF old = None \/ old.state \in Acknowledged THEN old ELSE q]
  BY <1>1 DEF FieldTypes, Table
<1> HIDE DEF q
<1>5. /\ rows' \in Table
      /\ rows'[d] = IF rows[d] = None \/ rows[d].state \in Acknowledged THEN rows[d] ELSE q
      /\ \A t \in Tx \ {d} : rows'[t] = rows[t]
  BY <1>1, <1>2, <1>3, <1>4 DEF FieldTypes, Table
<1>6. FieldTypes'
  <2>1. clock' \in 0..MaxSeal
    BY <1>1, OutboxBounds DEF FieldTypes
  <2>2. \A t \in Tx : rows'[t] # None => t <= issued'
    BY <1>1, <1>5 DEF FieldTypes
  <2>3. QED
    BY <1>1, <1>5, <2>1, <2>2 DEF FieldTypes
<1>7. \A t \in Tx : rows'[t] # None /\ rows'[t].state \in Acknowledged =>
        rows[t] # None /\ rows[t].state \in Acknowledged
  BY <1>3, <1>5 DEF Acknowledged
<1>8. \A t \in Tx : Kept(t) => Kept(t)'
  BY <1>3, <1>5 DEF Kept
<1>9. QED
  BY <1>6, <1>7, <1>8, RowsStep

LEMMA OpenSheet_Inv == ASSUME OfflineInv, NEW t \in Tx, OpenSheet(t), UNCHANGED <<serverVars, touched>> PROVE OfflineInv'
<1>1. [tx |-> t, seq |-> rows[t].seq] \in Entry
  <2>1. rows[t] # None
    BY DEF OpenSheet, In, Live
  <2>2. rows[t].seq \in 1..MaxSequence
    BY <2>1 DEF OfflineInv, FieldTypes, Table, Row
  <2>3. QED
    BY <2>2 DEF Entry
<1>2. FieldTypes'
  BY <1>1 DEF OfflineInv, FieldTypes, OpenSheet, durable
<1>3. QED
  BY <1>2, SessionStep DEF OpenSheet, durable, serverVars, OfflineInv

LEMMA CloseSheet_Inv == ASSUME OfflineInv, CloseSheet, UNCHANGED <<serverVars, touched>> PROVE OfflineInv'
<1>1. FieldTypes'
  BY DEF OfflineInv, FieldTypes, CloseSheet, durable
<1>2. QED
  BY <1>1, SessionStep DEF CloseSheet, durable, serverVars, OfflineInv

LEMMA Expire_Inv == ASSUME OfflineInv, Expire, UNCHANGED <<serverVars, touched>> PROVE OfflineInv'
<1>1. FieldTypes'
  BY DEF OfflineInv, FieldTypes, Expire, durable
<1>2. QED
  BY <1>1, SessionStep DEF Expire, durable, serverVars, OfflineInv

LEMMA EditOutboxEntry_Inv ==
    ASSUME OfflineInv, EditOutboxEntry, touched' = touched \cup {sheet.tx}, UNCHANGED serverVars
    PROVE  OfflineInv'
<1> USE DEF EditOutboxEntry
<1>1. FieldTypes /\ rows \in Table /\ "abandoned" \in State
  BY DEF OfflineInv, FieldTypes, State
<1>2. rows' \in Table /\ \A t \in Tx : rows'[t] # None <=> rows[t] # None
  BY <1>1, MarkedRow
<1>3. PICK d : d = sheet.tx
  OBVIOUS
<1>4. \A t \in Tx \ {d} : rows'[t] = rows[t]
  BY <1>1, <1>3, MarkedRow
<1>5. d \in Tx /\ rows[d] # None => rows'[d].state = "abandoned"
  BY <1>1, <1>3, MarkedRow
<1>6. FieldTypes'
  BY <1>1, <1>2 DEF FieldTypes
<1>7. \A t \in Tx : rows'[t] # None /\ rows'[t].state \in Acknowledged =>
        rows[t] # None /\ rows[t].state \in Acknowledged
  BY <1>2, <1>4, <1>5 DEF Acknowledged
<1>8. \A t \in Tx : Kept(t) => t \in touched' \/ Kept(t)'
  BY <1>3, <1>4 DEF Kept
<1>9. QED
  BY <1>6, <1>7, <1>8, RowsStep

LEMMA ClearFailures_Inv ==
    ASSUME OfflineInv, ClearFailures, touched' = touched \cup In(Failure), UNCHANGED serverVars
    PROVE  OfflineInv'
<1> USE DEF ClearFailures
<1>1. FieldTypes /\ rows \in Table
  BY DEF OfflineInv, FieldTypes
<1>2. \A q \in Row : [q EXCEPT !.state = "abandoned"] \in Row /\ [q EXCEPT !.state = "abandoned"].state = "abandoned"
  BY DEF Row, State
<1>3. \A t \in Tx : t \in In(Failure) =>
        rows[t] # None /\ rows'[t] \in Row /\ rows'[t].state = "abandoned"
  BY <1>1, <1>2 DEF In, Live, Table
<1>4. \A t \in Tx : t \notin In(Failure) => rows'[t] = rows[t]
  OBVIOUS
<1>5. rows' \in Table
  <2>1. \A t \in Tx : rows'[t] \in Row \cup {None}
    BY <1>1, <1>3, <1>4 DEF Table
  <2>2. rows' = [t \in Tx |-> rows'[t]]
    OBVIOUS
  <2>3. QED
    BY <2>1, <2>2 DEF Table
<1>6. FieldTypes'
  <2>1. \A t \in Tx : rows'[t] # None => t <= issued
    BY <1>1, <1>3, <1>4 DEF FieldTypes
  <2>2. QED
    BY <1>1, <1>5, <2>1 DEF FieldTypes, session
<1>7. \A t \in Tx : rows'[t] # None /\ rows'[t].state \in Acknowledged =>
        rows[t] # None /\ rows[t].state \in Acknowledged
  BY <1>3, <1>4 DEF Acknowledged
<1>8. \A t \in Tx : Kept(t) => t \in touched' \/ Kept(t)'
  BY <1>4 DEF Kept
<1>9. QED
  BY <1>6, <1>7, <1>8, RowsStep

LEMMA ClearApplied_Inv == ASSUME OfflineInv, ClearApplied, UNCHANGED <<serverVars, touched>> PROVE OfflineInv'
<1> USE DEF ClearApplied
<1>1. FieldTypes /\ rows \in Table
  BY DEF OfflineInv, FieldTypes
<1>2. \A t \in Tx : rows'[t] # None => rows'[t] = rows[t] /\ rows[t] # None
  OBVIOUS
<1>3. rows' \in Table
  BY <1>1 DEF Table
<1>4. FieldTypes'
  <2>1. \A t \in Tx : rows'[t] # None => t <= issued
    BY <1>1, <1>2 DEF FieldTypes
  <2>2. QED
    BY <1>1, <1>3, <2>1 DEF FieldTypes, session
<1>5. \A t \in Tx : Kept(t) => OnServer(t) \/ Kept(t)'
  <2> SUFFICES ASSUME NEW t \in Tx, Kept(t) PROVE OnServer(t) \/ Kept(t)'
    OBVIOUS
  <2>1. CASE rows[t].state \in Acknowledged
    BY <2>1 DEF OfflineInv, AckedOnServer, In, Live, Kept
  <2>2. CASE rows[t].state \notin Acknowledged
    BY <2>2 DEF In, Kept
  <2>3. QED
    BY <2>1, <2>2
<1>6. QED
  BY <1>2, <1>4, <1>5, RowsStep

(* A reconciled table: what was acknowledged in it, or kept, still is.      *)
LEMMA ReconcileStep ==
    ASSUME OfflineInv, UNCHANGED <<serverVars, touched>>, issued' = issued, FieldTypes',
           NEW R \in Table,
           \A t \in Tx : R[t] # None <=> rows[t] # None,
           \A t \in Tx : R[t] = rows[t] \/ R[t].state = "queued",
           \A t \in Tx : \/ rows'[t] = R[t]
                         \/ /\ R[t] # None /\ R[t].state \notin Acknowledged \cup {"abandoned"}
                            /\ rows'[t] # None /\ rows'[t].state = "queued"
    PROVE  OfflineInv'
<1>1. \A t \in Tx : rows'[t] # None /\ rows'[t].state \in Acknowledged =>
        rows[t] # None /\ rows[t].state \in Acknowledged
  BY DEF Acknowledged
<1>2. \A t \in Tx : Kept(t) => Kept(t)'
  BY DEF Kept
<1>3. QED
  BY <1>1, <1>2, RowsStep

LEMMA RetryFailedOutbox_Inv ==
    ASSUME OfflineInv, RetryFailedOutbox, UNCHANGED <<serverVars, touched>>
    PROVE  OfflineInv'
<1> DEFINE R == [t \in Tx |-> IF t \in In(Failure \cup {"held"}) THEN [rows[t] EXCEPT !.state = "queued"]
                              ELSE rows[t]]
<1>1. FieldTypes /\ rows \in Table
  BY DEF OfflineInv, FieldTypes
<1>2. \A q \in Row : [q EXCEPT !.state = "queued"] \in Row /\ [q EXCEPT !.state = "queued"].state = "queued"
  BY DEF Row, State, Pending
<1>3. \A t \in Tx : t \in In(Failure \cup {"held"}) =>
        rows[t] # None /\ R[t] \in Row /\ R[t].state = "queued"
  BY <1>1, <1>2 DEF In, Live, Table
<1>4. \A t \in Tx : t \notin In(Failure \cup {"held"}) => R[t] = rows[t]
  OBVIOUS
<1>5. Reconcile(R, sequence, accepted, epoch)
      /\ UNCHANGED <<issued, clock, draft, sheet, todo, running, sent, replaying, epoch, valid>>
  BY DEF RetryFailedOutbox
<1>6. \A t \in Tx : R[t] \in Row \cup {None}
  BY <1>1, <1>3, <1>4 DEF Table
<1>7. R \in Table
  BY <1>6 DEF Table
<1> HIDE DEF R
<1>8. \A t \in Tx : (R[t] # None <=> rows[t] # None) /\ (R[t] = rows[t] \/ R[t].state = "queued")
  BY <1>3, <1>4, NoneAssumption
<1>9. /\ rows' \in Table /\ sequence' \in Numbers /\ accepted' \in Numbers
      /\ \A t \in Tx : \/ rows'[t] = R[t]
                       \/ /\ R[t] # None /\ R[t].state \notin Acknowledged \cup {"abandoned"}
                          /\ rows'[t] # None /\ rows'[t].state = "queued"
  BY <1>1, <1>5, <1>7, Reconciled DEF FieldTypes
<1>10. FieldTypes'
  <2>1. \A t \in Tx : rows'[t] # None => t <= issued
    BY <1>1, <1>8, <1>9 DEF FieldTypes
  <2>2. QED
    BY <1>1, <1>5, <1>9, <2>1 DEF FieldTypes
<1>11. QED
  BY <1>5, <1>7, <1>8, <1>9, <1>10, ReconcileStep

LEMMA Restart_Inv == ASSUME OfflineInv, Restart, UNCHANGED <<serverVars, touched>> PROVE OfflineInv'
<1>1. FieldTypes /\ rows \in Table
  BY DEF OfflineInv, FieldTypes
<1>2. PICK e : e = epoch'
  OBVIOUS
<1>3. e \in 1..MaxEpoch /\ epoch' = e
  BY <1>1, <1>2, OutboxBounds DEF FieldTypes, Restart, Session
<1>4. PICK q \in Numbers, a \in Numbers : Reconcile(rows, q, a, e)
  BY <1>1, <1>3, HighestBounded DEF Restart
<1>5. /\ rows' \in Table /\ sequence' \in Numbers /\ accepted' \in Numbers
      /\ \A t \in Tx : \/ rows'[t] = rows[t]
                       \/ /\ rows[t] # None /\ rows[t].state \notin Acknowledged \cup {"abandoned"}
                          /\ rows'[t] # None /\ rows'[t].state = "queued"
  BY <1>1, <1>3, <1>4, Reconciled
<1>6. FieldTypes'
  <2>1. \A t \in Tx : rows'[t] # None => t <= issued
    BY <1>1, <1>5 DEF FieldTypes
  <2>2. <<>> \in Seq(Request)
    BY EmptySeq
  <2>3. UNCHANGED <<issued, clock>> /\ draft' = None /\ sheet' = None /\ todo' = <<>>
        /\ running' = None /\ sent' = None /\ replaying' = FALSE
    BY DEF Restart
  <2>4. QED
    BY <1>1, <1>3, <1>5, <2>1, <2>2, <2>3 DEF FieldTypes
<1>7. issued' = issued
  BY DEF Restart
<1>8. QED
  BY <1>1, <1>5, <1>6, <1>7, ReconcileStep

-----------------------------------------------------------------------------
(* The flush, the replay and what the network does.                         *)
LEMMA BodyOfRow == ASSUME NEW q \in Row PROVE BodyOf(q) \in Body
  BY DEF Row, Body, BodyOf

LEMMA FlushOutbox_Inv == ASSUME OfflineInv, FlushOutbox, UNCHANGED <<serverVars, touched>> PROVE OfflineInv'
<1>1. FieldTypes /\ rows \in Table
  BY DEF OfflineInv, FieldTypes
<1>2. PICK order \in [1..Cardinality(In(Pending)) -> In(Pending)] :
        todo' = [i \in DOMAIN order |-> [tx |-> order[i], body |-> BodyOf(rows[order[i]])]]
  BY DEF FlushOutbox
<1>3. Cardinality(In(Pending)) \in Nat
  <2>1. IsFiniteSet(Tx)
    BY FS_Interval, OutboxBounds DEF Tx
  <2>2. IsFiniteSet(In(Pending))
    BY <2>1, FS_Subset DEF In, Live
  <2>3. QED
    BY <2>2, FS_CardinalityType
<1>4. \A t \in In(Pending) : [tx |-> t, body |-> BodyOf(rows[t])] \in Request
  <2> SUFFICES ASSUME NEW t \in In(Pending) PROVE [tx |-> t, body |-> BodyOf(rows[t])] \in Request
    OBVIOUS
  <2>1. t \in Tx /\ rows[t] \in Row
    BY <1>1 DEF In, Live, Table
  <2>2. QED
    BY <2>1, BodyOfRow DEF Request
<1>5. todo' \in Seq(Request)
  <2> DEFINE k == Cardinality(In(Pending))
  <2>1. todo' = [i \in 1..k |-> [tx |-> order[i], body |-> BodyOf(rows[order[i]])]]
    BY <1>2
  <2>2. \A i \in 1..k : order[i] \in In(Pending)
    BY <1>2
  <2> HIDE DEF k
  <2>3. todo' \in [1..k -> Request]
    BY <1>4, <2>1, <2>2
  <2>4. QED
    BY <1>3, <2>3, SeqDef DEF k
<1>6. running' # None /\ running' \in Numbers
  BY <1>1, NoneAssumption, OutboxBounds DEF FlushOutbox, FieldTypes, Numbers
<1>7. UNCHANGED <<rows, issued, clock, sequence, accepted, draft, sheet, sent, replaying, epoch>>
  BY DEF FlushOutbox, durable
<1>8. FieldTypes'
  BY <1>1, <1>5, <1>6, <1>7 DEF FieldTypes
<1>9. QED
  BY <1>7, <1>8, SessionStep DEF serverVars, OfflineInv

LEMMA TailOfTodo ==
    ASSUME FieldTypes, todo # <<>>
    PROVE  Head(todo) \in Request /\ Tail(todo) \in Seq(Request) /\ running # None
  BY HeadTailProperties DEF FieldTypes

(* A mark that acknowledges nothing.                                        *)
LEMMA Mark_Inv ==
    ASSUME OfflineInv, NEW t, NEW s \in State \ (Acknowledged \cup {"abandoned"}), rows' = Marked(t, s),
           issued' = issued, touched' = touched, ServerInv', net' \subseteq Request,
           \A u \in Tx : OnServer(u) => OnServer(u)',
           rows' \in Table => FieldTypes'
    PROVE  OfflineInv'
<1>1. rows \in Table
  BY DEF OfflineInv, FieldTypes
<1>2. /\ rows' \in Table
      /\ \A u \in Tx : rows'[u] # None <=> rows[u] # None
      /\ \A u \in Tx \ {t} : rows'[u] = rows[u]
      /\ t \in Tx /\ rows[t] # None => rows'[t].state = s
  BY <1>1, MarkedRow
<1>3. \A u \in Tx : rows'[u] # None /\ rows'[u].state \in Acknowledged =>
        rows[u] # None /\ rows[u].state \in Acknowledged
  BY <1>2
<1>4. \A u \in Tx : Kept(u) => Kept(u)'
  BY <1>2 DEF Kept
<1>5. \A u \in Tx : ~(u <= issued' /\ ~(u <= issued))
  OBVIOUS
<1>6. AckedOnServer' /\ WorkIsKept'
  BY <1>2, <1>3, <1>4, <1>5, WorkStays
<1>7. QED
  BY <1>2, <1>6 DEF OfflineInv

LEMMA HoldLocally_Inv == ASSUME OfflineInv, HoldLocally, UNCHANGED <<serverVars, touched>> PROVE OfflineInv'
<1>1. FieldTypes
  BY DEF OfflineInv
<1>2. PICK t, s : t = Head(todo).tx /\ s = Denied(Head(todo).body)
  OBVIOUS
<1>3. s \in State \ (Acknowledged \cup {"abandoned"}) /\ rows' = Marked(t, s)
  BY <1>2 DEF HoldLocally, Denied, State, Pending, Failure, Acknowledged
<1>4. todo' \in Seq(Request) /\ running # None
  BY <1>1, TailOfTodo DEF HoldLocally
<1>5. UNCHANGED <<issued, clock, sequence, accepted, draft, sheet, running, sent, replaying, epoch>>
  BY DEF HoldLocally
<1>6. ServerInv' /\ \A u \in Tx : OnServer(u)' <=> OnServer(u)
  BY ServerUnchanged DEF serverVars
<1>7. ASSUME rows' \in Table PROVE FieldTypes'
  <2>1. \A u \in Tx : rows'[u] # None <=> rows[u] # None
    BY <1>1, <1>3, MarkedRow DEF FieldTypes
  <2>2. QED
    BY <1>1, <1>4, <1>5, <1>7, <2>1 DEF FieldTypes
<1>8. net' \subseteq Request
  BY DEF serverVars, OfflineInv
<1>9. QED
  BY <1>3, <1>5, <1>6, <1>7, <1>8, Mark_Inv

LEMMA EndFlush_Inv == ASSUME OfflineInv, EndFlush, UNCHANGED <<serverVars, touched>> PROVE OfflineInv'
<1>1. FieldTypes
  BY DEF OfflineInv
<1>2. accepted' \in Numbers
  <2>1. Highest(rows, Acknowledged) \in Numbers /\ accepted \in Numbers
    BY <1>1, HighestBounded DEF FieldTypes
  <2>2. Max({accepted, Highest(rows, Acknowledged)}) \in {accepted, Highest(rows, Acknowledged)}
    BY <2>1, LargestExists, OutboxBounds DEF Numbers
  <2>3. QED
    BY <2>1, <2>2 DEF EndFlush
<1>3. UNCHANGED <<rows, issued, clock, sequence, draft, sheet, todo, sent, replaying, epoch>>
      /\ running' = None /\ todo = <<>>
  BY DEF EndFlush, durable
<1>4. FieldTypes'
  BY <1>1, <1>2, <1>3 DEF FieldTypes
<1>5. QED
  BY <1>3, <1>4, SessionStep DEF serverVars, OfflineInv

LEMMA Sends_Inv == ASSUME OfflineInv, Sends PROVE OfflineInv'
<1>1. FieldTypes /\ rows \in Table
  BY DEF OfflineInv, FieldTypes
<1>2. ServerInv' /\ \A u \in Tx : OnServer(u)' <=> OnServer(u)
  BY ServerUnchanged DEF Sends
<1>3. CASE Submit
  <2>1. PICK t : t = Head(todo).tx
    OBVIOUS
  <2>2. sent' \in Request /\ todo' \in Seq(Request) /\ running # None
    BY <1>1, <1>3, TailOfTodo DEF Submit
  <2>3. rows' = Marked(t, "uploading") /\ "uploading" \in State \ (Acknowledged \cup {"abandoned"})
    BY <1>3, <2>1 DEF Submit, State, Pending, Acknowledged
  <2>4. UNCHANGED <<issued, clock, sequence, accepted, draft, sheet, running, replaying, epoch>>
    BY <1>3 DEF Submit
  <2>5. sent' # None
    BY <2>2, NoneAssumption DEF Request
  <2>6. ASSUME rows' \in Table PROVE FieldTypes'
    <3>1. \A u \in Tx : rows'[u] # None <=> rows[u] # None
      BY <1>1, <2>3, MarkedRow
    <3>2. QED
      BY <1>1, <2>2, <2>4, <2>5, <2>6, <3>1 DEF FieldTypes
  <2>7. net' \subseteq Request /\ touched' = touched
    BY <2>2 DEF Sends, OfflineInv
  <2>8. QED
    BY <1>2, <2>3, <2>4, <2>6, <2>7, Mark_Inv
<1>4. CASE Replay
  <2>1. PICK t : t = Max(In(Acknowledged))
    OBVIOUS
  <2>2. In(Acknowledged) \subseteq 0..MaxTx /\ In(Acknowledged) # {} /\ MaxTx \in Nat
    BY <1>4, OutboxBounds DEF In, Live, Tx, Replay
  <2>3. t \in In(Acknowledged)
    BY <2>1, <2>2, LargestExists
  <2>4. t \in Tx /\ rows[t] \in Row
    BY <1>1, <2>3 DEF In, Live, Table
  <2>5. sent' = [tx |-> t, body |-> BodyOf(rows[t])]
    BY <1>4, <2>1 DEF Replay
  <2>6. sent' \in Request
    BY <2>4, <2>5, BodyOfRow DEF Request
  <2>7. sent' # None
    BY <2>6, NoneAssumption DEF Request
  <2>8. UNCHANGED <<rows, issued, clock, sequence, accepted, draft, sheet, todo, running, epoch>> /\ replaying' = TRUE
    BY <1>4 DEF Replay, durable
  <2>9. FieldTypes'
    BY <1>1, <2>6, <2>7, <2>8 DEF FieldTypes
  <2>10. net' \subseteq Request
    BY <2>6 DEF Sends, OfflineInv
  <2>11. QED
    BY <2>8, <2>9, <2>10, SessionStep DEF Sends
<1>5. QED
  BY <1>3, <1>4 DEF Sends

-----------------------------------------------------------------------------
(* An answer, which acknowledges only what the server has.                  *)
LEMMA Answered_Inv ==
    ASSUME OfflineInv, NEW o \in Answers \cup {"queued"}, Answered(o), NEW m \in Request, m = sent,
           touched' = touched, ServerInv', net' \subseteq Request,
           \A u \in Tx : OnServer(u) => OnServer(u)',
           o \in Acknowledged => OnServer(m.tx)'
    PROVE  OfflineInv'
<1>1. FieldTypes /\ rows \in Table
  BY DEF OfflineInv, FieldTypes
<1>2. PICK t : t = m.tx
  OBVIOUS
<1>3. t \in Tx /\ m.body.seq \in Numbers \ {None}
  BY <1>2, NoneAssumption, OutboxBounds DEF Request, Body, Numbers
<1>4. rows' = Marked(t, o) /\ o \in State \ {"abandoned"}
  BY <1>2 DEF Answered, State, Pending, Acknowledged, Failure, Answers
<1>5. /\ rows' \in Table
      /\ \A u \in Tx : rows'[u] # None <=> rows[u] # None
      /\ \A u \in Tx \ {t} : rows'[u] = rows[u]
      /\ rows[t] # None => rows'[t].state = o
  BY <1>1, <1>3, <1>4, MarkedRow
<1>6. FieldTypes'
  <2>1. UNCHANGED <<issued, clock, sequence, accepted, draft, sheet, todo, epoch>>
        /\ sent' = None /\ replaying' = FALSE
    BY DEF Answered
  <2>2. running' = IF ~replaying /\ o \in Acknowledged THEN m.body.seq ELSE running
    BY DEF Answered
  <2>3. running' \in Numbers \cup {None} /\ (running' = None => running = None)
    BY <1>1, <1>3, <2>2 DEF FieldTypes
  <2>4. \A u \in Tx : rows'[u] # None => u <= issued
    BY <1>1, <1>5 DEF FieldTypes
  <2>5. QED
    BY <1>1, <1>5, <2>1, <2>3, <2>4 DEF FieldTypes
<1>7. issued' = issued
  BY DEF Answered
<1>8. \A u \in Tx : rows'[u] # None /\ rows'[u].state \in Acknowledged =>
        OnServer(u)' \/ (rows[u] # None /\ rows[u].state \in Acknowledged)
  BY <1>2, <1>5
<1>9. \A u \in Tx : Kept(u) => Kept(u)'
  BY <1>4, <1>5 DEF Kept
<1>10. \A u \in Tx : ~(u <= issued' /\ ~(u <= issued))
  BY <1>7
<1>11. AckedOnServer' /\ WorkIsKept'
  BY <1>6, <1>8, <1>9, <1>10, WorkStays
<1>12. QED
  BY <1>6, <1>11 DEF OfflineInv

LEMMA Delivered_Inv == ASSUME OfflineInv, NEW a \in Answers, Delivered(a) PROVE OfflineInv'
<1>1. PICK m \in Request : m = sent
  BY DEF Delivered, OfflineInv
<1>2. Guarded(m, a) /\ net' = net \ {m} /\ Answered(a) /\ touched' = touched
  BY <1>1 DEF Delivered
<1>3. /\ ServerInv'
      /\ \A t \in Tx : OnServer(t) => OnServer(t)'
      /\ a \in Acknowledged => OnServer(m.tx)'
  BY <1>2, Guarded_Inv DEF OfflineInv
<1>4. net' \subseteq Request
  BY <1>2 DEF OfflineInv
<1>5. QED
  BY <1>1, <1>2, <1>3, <1>4, Answered_Inv

LEMMA TimesOut_Inv == ASSUME OfflineInv, TimesOut PROVE OfflineInv'
<1>1. PICK m \in Request : m = sent
  BY DEF TimesOut, Answered, OfflineInv, FieldTypes
<1>2. ServerInv' /\ (\A t \in Tx : OnServer(t)' <=> OnServer(t)) /\ net' \subseteq Request
  BY ServerUnchanged DEF TimesOut, serverVars, OfflineInv
<1>3. "queued" \notin Acknowledged
  BY DEF Acknowledged
<1>4. QED
  BY <1>1, <1>2, <1>3, Answered_Inv DEF TimesOut

LEMMA Refused_Inv == ASSUME OfflineInv, Refused PROVE OfflineInv'
<1>1. PICK m \in Request : m = sent
  BY DEF Refused, OfflineInv
<1>2. ServerInv' /\ (\A t \in Tx : OnServer(t)' <=> OnServer(t)) /\ net' \subseteq Request
  BY ServerUnchanged DEF Refused, OfflineInv
<1>3. "rejected" \notin Acknowledged /\ "rejected" \in Answers
  BY DEF Acknowledged, Answers
<1>4. QED
  BY <1>1, <1>2, <1>3, Answered_Inv DEF Refused

(* The application does not notice what the server does by itself.          *)
LEMMA ServerStep ==
    ASSUME OfflineInv, UNCHANGED <<fieldVars, touched>>, ServerInv', net' \subseteq Request,
           \A u \in Tx : OnServer(u) => OnServer(u)'
    PROVE  OfflineInv'
<1>1. FieldTypes' /\ issued' = issued /\ rows' = rows
  BY DEF OfflineInv, FieldTypes, fieldVars, durable, session
<1>2. \A u \in Tx : Kept(u) => Kept(u)'
  BY <1>1 DEF Kept
<1>3. AckedOnServer' /\ WorkIsKept'
  BY <1>1, <1>2, WorkStays
<1>4. QED
  BY <1>1, <1>3 DEF OfflineInv

LEMMA ServedLate_Inv ==
    ASSUME OfflineInv, NEW m \in net, NEW a \in Answers, ServedLate(m, a) PROVE OfflineInv'
<1>1. m \in Request /\ Guarded(m, a) /\ net' \subseteq Request
  BY DEF ServedLate, OfflineInv
<1>2. ServerInv' /\ \A t \in Tx : OnServer(t) => OnServer(t)'
  BY <1>1, Guarded_Inv DEF OfflineInv
<1>3. QED
  BY <1>1, <1>2, ServerStep DEF ServedLate

LEMMA Lose_Inv == ASSUME OfflineInv, NEW m \in net, Lose(m) PROVE OfflineInv'
<1>1. ServerInv' /\ (\A t \in Tx : OnServer(t)' <=> OnServer(t)) /\ net' \subseteq Request
  BY ServerUnchanged DEF Lose, OfflineInv
<1>2. QED
  BY <1>1, ServerStep DEF Lose

LEMMA ResponseExpires_Inv == ASSUME OfflineInv, NEW t \in Tx, ResponseExpires(t) PROVE OfflineInv'
<1>1. cache' = [cache EXCEPT ![t] = None] /\ UNCHANGED <<receipt, held, last, net>>
  BY DEF ResponseExpires
<1>2. \A u \in Tx : OnServer(u)' <=> OnServer(u)
  BY <1>1 DEF OnServer
<1>3. ServerInv'
  <2>1. \A u \in Tx : cache'[u] # None => cache'[u] = cache[u]
    BY <1>1 DEF OfflineInv, ServerInv, ServerTypes
  <2>2. ServerTypes'
    BY <1>1 DEF OfflineInv, ServerInv, ServerTypes
  <2>3. QED
    BY <1>1, <1>2, <2>1, <2>2 DEF OfflineInv, ServerInv
<1>4. QED
  BY <1>1, <1>2, <1>3, ServerStep DEF ResponseExpires, OfflineInv

LEMMA Lapse_Inv == ASSUME OfflineInv, NEW e, Lapse(e) PROVE OfflineInv'
<1>1. ServerInv' /\ (\A t \in Tx : OnServer(t)' <=> OnServer(t)) /\ net' \subseteq Request
  BY ServerUnchanged DEF Lapse, OfflineInv
<1>2. QED
  BY <1>1, ServerStep DEF Lapse

-----------------------------------------------------------------------------
LEMMA Stutter_Inv == ASSUME OfflineInv, UNCHANGED vars PROVE OfflineInv'
<1>1. ServerInv' /\ (\A t \in Tx : OnServer(t)' <=> OnServer(t)) /\ net' \subseteq Request
  BY ServerUnchanged DEF vars, serverVars, OfflineInv
<1>2. QED
  BY <1>1, ServerStep DEF vars

LEMMA Next_Inv == ASSUME OfflineInv, [Next]_vars PROVE OfflineInv'
<1>1. CASE Local /\ UNCHANGED <<serverVars, touched>>
  BY <1>1, BeginInspection_Inv, QueueForSync_Inv, QueueEdited_Inv, OpenSheet_Inv, CloseSheet_Inv,
     RetryFailedOutbox_Inv, ClearApplied_Inv, FlushOutbox_Inv, HoldLocally_Inv, EndFlush_Inv,
     Expire_Inv, Restart_Inv DEF Local
<1>2. CASE Touching /\ UNCHANGED serverVars
  BY <1>2, EditOutboxEntry_Inv, ClearFailures_Inv DEF Touching
<1>3. CASE Sends
  BY <1>3, Sends_Inv
<1>4. CASE Network
  BY <1>4, Delivered_Inv, ServedLate_Inv, TimesOut_Inv, Refused_Inv, Lose_Inv, ResponseExpires_Inv,
     Lapse_Inv DEF Network
<1>5. CASE UNCHANGED vars
  BY <1>5, Stutter_Inv
<1>6. QED
  BY <1>1, <1>2, <1>3, <1>4, <1>5 DEF Next

LEMMA AlwaysOfflineInv == Spec => []OfflineInv
  BY Init_Inv, Next_Inv, PTL DEF Spec

(* Only a start and the passing of time touch the two clocks.               *)
LEMMA ClockNext == ASSUME OfflineInv, ClockTypes, [Next]_vars PROVE ClockTypes'
<1>1. CASE UNCHANGED <<valid, restarts, lapsed>>
  BY <1>1 DEF ClockTypes
<1>2. CASE Expire /\ UNCHANGED <<serverVars, touched>>
  BY <1>2 DEF Expire, serverVars, ClockTypes
<1>3. CASE Restart /\ UNCHANGED <<serverVars, touched>>
  <2>1. valid' \in BOOLEAN
    BY <1>3 DEF Restart, Session, ClockTypes
  <2>2. restarts' \in 0..MaxRestarts
    BY <1>3, OutboxBounds DEF Restart, ClockTypes
  <2>3. QED
    BY <1>3, <2>1, <2>2 DEF serverVars, ClockTypes
<1>4. ASSUME NEW e \in 1..epoch, Lapse(e) PROVE ClockTypes'
  <2>1. lapsed' \subseteq 1..MaxEpoch
    <3>1. e \in 1..MaxEpoch
      BY OutboxBounds DEF OfflineInv, FieldTypes
    <3>2. QED
      BY <1>4, <3>1 DEF Lapse, ClockTypes
  <2>2. QED
    BY <1>4, <2>1 DEF Lapse, fieldVars, session, ClockTypes
<1>5. CASE Local /\ UNCHANGED <<serverVars, touched>>
  BY <1>1, <1>2, <1>3, <1>5
     DEF Local, BeginInspection, QueueForSync, QueueEdited, OpenSheet, CloseSheet, RetryFailedOutbox,
         ClearApplied, FlushOutbox, HoldLocally, EndFlush, durable, session, serverVars
<1>6. CASE Touching /\ UNCHANGED serverVars
  BY <1>1, <1>6 DEF Touching, EditOutboxEntry, ClearFailures, session, serverVars
<1>7. CASE Sends
  BY <1>1, <1>7 DEF Sends, Submit, Replay
<1>8. CASE Network
  BY <1>1, <1>4, <1>8
     DEF Network, Delivered, ServedLate, Guarded, TimesOut, Refused, Answered, Lose, ResponseExpires,
         fieldVars, session, serverVars
<1>9. QED
  BY <1>1, <1>5, <1>6, <1>7, <1>8 DEF Next, vars, fieldVars, session, serverVars

LEMMA AlwaysClockTypes == Spec => []ClockTypes
  BY AlwaysOfflineInv, ClockInit, ClockNext, PTL DEF Spec

-----------------------------------------------------------------------------
(* What travels for a transaction the operator has not touched is what its  *)
(* row was sealed with: nothing under way, and no receipt, is of another    *)
(* sealing, nor of a transaction that is yet to be captured.                *)
Fits(m) == m.tx <= issued /\ (m.tx \notin touched /\ rows[m.tx] # None => m.body.at = rows[m.tx].at)

PayloadInv ==
    /\ draft # None => draft.tx \in touched
    /\ \A m \in net : Fits(m)
    /\ sent # None => Fits(sent)
    /\ \A i \in DOMAIN todo : Fits(todo[i])
    /\ \A t \in Tx : receipt[t] # None => t <= issued
    /\ \A t \in Tx \ touched : receipt[t] # None /\ rows[t] # None => receipt[t].at = rows[t].at

LEMMA PayloadInit == Init => PayloadInv
  BY DEF Init, FieldInit, PayloadInv

(* Only a capture adds a row, and only a touched entry is sealed again.     *)
SameSeal ==
    \A t \in Tx : t \notin touched' /\ rows'[t] # None =>
        (rows[t] # None /\ rows'[t].at = rows[t].at) \/ ~(t <= issued)

LEMMA FitsStays ==
    ASSUME SameSeal, touched \subseteq touched', issued' \in Nat, issued \in Nat, issued <= issued',
           NEW m \in Request, Fits(m)
    PROVE  Fits(m)'
<1>1. m.tx \in Tx /\ m.tx \in Nat
  BY OutboxBounds DEF Request, Tx
<1>2. m.tx <= issued'
  BY <1>1 DEF Fits
<1>3. ASSUME m.tx \notin touched', rows'[m.tx] # None PROVE m.body.at = rows'[m.tx].at
  <2>1. m.tx \notin touched /\ rows[m.tx] # None /\ rows'[m.tx].at = rows[m.tx].at
    BY <1>1, <1>3 DEF SameSeal, Fits
  <2>2. QED
    BY <2>1 DEF Fits
<1>4. QED
  BY <1>2, <1>3 DEF Fits

(* A receipt keeps its seal, and a new one takes that of a request which    *)
(* fits.                                                                    *)
Sealed ==
    \A t \in Tx : receipt'[t] # None =>
        \/ receipt[t] # None /\ receipt'[t].at = receipt[t].at
        \/ \E m \in Request : Fits(m) /\ m.tx = t /\ receipt'[t].at = m.body.at

(* A step that sends only what fits, and records only what fits.            *)
LEMMA SealedStep ==
    ASSUME OfflineInv, OfflineInv', PayloadInv, SameSeal, touched \subseteq touched', issued <= issued',
           Sealed,
           draft' # None => draft'.tx \in touched',
           \A m \in net' : m \in net \/ Fits(m),
           sent' # None => sent' = sent \/ Fits(sent'),
           \A i \in DOMAIN todo' : Fits(todo'[i])
    PROVE  PayloadInv'
<1>1. issued \in Nat /\ issued' \in Nat
  BY OutboxBounds DEF OfflineInv, FieldTypes
<1>2. \A m \in Request : Fits(m) => Fits(m)'
  BY <1>1, FitsStays
<1>3. \A m \in net' : Fits(m)'
  BY <1>2 DEF PayloadInv, OfflineInv
<1>4. ASSUME sent' # None PROVE Fits(sent)'
  <2>1. PICK m \in Request : m = sent'
    BY <1>4 DEF OfflineInv, FieldTypes
  <2>2. Fits(m)
    BY <1>4, <2>1 DEF PayloadInv
  <2>3. Fits(m)'
    BY <1>2, <2>2
  <2>4. QED
    BY <2>1, <2>3 DEF Fits
<1>5. ASSUME NEW i \in DOMAIN todo' PROVE Fits(todo[i])'
  <2>1. PICK m \in Request : m = todo'[i]
    BY <1>5, ElementOfSeq, LenProperties DEF OfflineInv, FieldTypes
  <2>2. Fits(m)'
    BY <1>2, <2>1
  <2>3. QED
    BY <2>1, <2>2 DEF Fits
<1>6. \A t \in Tx : receipt'[t] # None => t <= issued'
  <2> SUFFICES ASSUME NEW t \in Tx, receipt'[t] # None PROVE t <= issued'
    OBVIOUS
  <2>1. t <= issued /\ t \in Nat
    BY OutboxBounds DEF PayloadInv, Sealed, Fits, Tx
  <2>2. QED
    BY <1>1, <2>1
<1>7. \A t \in Tx \ touched' : receipt'[t] # None /\ rows'[t] # None => receipt'[t].at = rows'[t].at
  <2> SUFFICES ASSUME NEW t \in Tx \ touched', receipt'[t] # None, rows'[t] # None
               PROVE  receipt'[t].at = rows'[t].at
    OBVIOUS
  <2>1. t <= issued /\ t \notin touched
    BY OutboxBounds DEF PayloadInv, Sealed, Fits, Tx
  <2>2. rows[t] # None /\ rows'[t].at = rows[t].at
    BY <2>1 DEF SameSeal
  <2>3. receipt'[t].at = rows[t].at
    BY <2>1, <2>2 DEF PayloadInv, Sealed, Fits
  <2>4. QED
    BY <2>2, <2>3
<1>8. QED
  BY <1>3, <1>4, <1>5, <1>6, <1>7 DEF PayloadInv

LEMMA ReceiptsKept == receipt' = receipt => Sealed
  BY DEF Sealed

LEMMA RowsKept == rows' = rows => SameSeal
  BY DEF SameSeal

LEMMA MarkSeals == ASSUME OfflineInv, NEW t, NEW s \in State, rows' = Marked(t, s) PROVE SameSeal
<1>1. \A u \in Tx : rows'[u] # None => rows[u] # None /\ BodyOf(rows'[u]) = BodyOf(rows[u])
  BY MarkedRow DEF OfflineInv, FieldTypes
<1>2. QED
  BY <1>1 DEF SameSeal, BodyOf

LEMMA TailFits ==
    ASSUME OfflineInv, PayloadInv, todo # <<>>
    PROVE  /\ Fits(Head(todo))
           /\ \A i \in DOMAIN Tail(todo) : Fits(Tail(todo)[i])
<1>1. todo \in Seq(Request) /\ Len(todo) \in Nat /\ DOMAIN todo = 1..Len(todo) /\ Len(todo) # 0
  BY LenProperties, EmptySeq DEF OfflineInv, FieldTypes
<1>2. Head(todo) = todo[1] /\ 1 \in DOMAIN todo
  BY <1>1
<1>3. \A i \in DOMAIN Tail(todo) : i + 1 \in DOMAIN todo /\ Tail(todo)[i] = todo[i + 1]
  BY <1>1
<1>4. QED
  BY <1>2, <1>3 DEF PayloadInv

LEMMA GuardedSeals ==
    ASSUME OfflineInv, NEW m \in Request, Fits(m), NEW a \in Answers, Guarded(m, a)
    PROVE  Sealed
<1>1. m.tx \in Tx
  BY DEF Request
<1>2. CASE receipt' = receipt
  BY <1>2, ReceiptsKept
<1>3. CASE Hold(m.tx, m.body)
  <2> SUFFICES ASSUME NEW t \in Tx, receipt'[t] # None
               PROVE  \/ receipt[t] # None /\ receipt'[t].at = receipt[t].at
                      \/ t = m.tx /\ receipt'[t].at = m.body.at
    BY DEF Sealed
  <2>1. QED
    BY <1>1, <1>3 DEF Hold, OfflineInv, ServerInv, ServerTypes
<1>4. CASE Accept(m.tx, m.body)
  <2>1. PICK D \in SUBSET {u \in Tx \ {m.tx} : held[u] # None} :
          receipt' = [u \in Tx |-> IF u = m.tx THEN AppliedReceipt(m.tx, m.body)
                                   ELSE IF u \in D THEN [receipt[u] EXCEPT !.applied = TRUE] ELSE receipt[u]]
    BY <1>4 DEF Accept
  <2>2. \A q \in Receipt : [q EXCEPT !.applied = TRUE].at = q.at
    BY DEF Receipt
  <2>3. ASSUME NEW t \in Tx, t # m.tx, receipt'[t] # None
        PROVE  receipt[t] # None /\ receipt'[t].at = receipt[t].at
    <3>1. CASE t \in D
      <4>1. receipt[t] \in Receipt /\ receipt[t] # None
        BY <3>1, ReceiptAssumption DEF OfflineInv, ServerInv, ServerTypes
      <4>2. QED
        BY <2>1, <2>2, <2>3, <3>1, <4>1
    <3>2. CASE t \notin D
      BY <2>1, <2>3, <3>2
    <3>3. QED
      BY <3>1, <3>2
  <2>4. \/ receipt[m.tx] # None /\ receipt'[m.tx].at = receipt[m.tx].at
        \/ receipt'[m.tx].at = m.body.at
    <3>1. receipt'[m.tx] = AppliedReceipt(m.tx, m.body)
      BY <1>1, <2>1
    <3>2. CASE receipt[m.tx] = None
      BY <3>1, <3>2 DEF AppliedReceipt
    <3>3. CASE receipt[m.tx] # None
      <4>1. receipt[m.tx] \in Receipt
        BY <1>1, <3>3 DEF OfflineInv, ServerInv, ServerTypes
      <4>2. QED
        BY <2>2, <3>1, <3>3, <4>1 DEF AppliedReceipt
    <3>4. QED
      BY <3>2, <3>3
  <2>5. QED
    BY <2>3, <2>4 DEF Sealed
<1>5. QED
  BY <1>2, <1>3, <1>4 DEF Guarded, Process, RefuseStale, Keep

(* A step which sends nothing new.                                          *)
LEMMA FittingStep ==
    ASSUME OfflineInv, OfflineInv', PayloadInv, SameSeal, Sealed, touched \subseteq touched', issued' = issued,
           draft' = draft \/ draft' = None, net' \subseteq net, sent' = sent \/ sent' = None,
           todo' = todo \/ todo' = <<>>
    PROVE  PayloadInv'
<1>1. issued <= issued'
  BY OutboxBounds DEF OfflineInv, FieldTypes
<1>2. \A i \in DOMAIN todo' : Fits(todo'[i])
  BY DEF PayloadInv
<1>3. draft' # None => draft'.tx \in touched'
  BY DEF PayloadInv
<1>4. QED
  BY <1>1, <1>2, <1>3, SealedStep

LEMMA QueueForSync_Seals ==
    ASSUME OfflineInv, OfflineInv', PayloadInv, QueueForSync, UNCHANGED <<serverVars, touched>>
    PROVE  PayloadInv'
<1>1. issued \in Nat /\ issued + 1 \in Tx /\ issued' = issued + 1 /\ rows \in Table
  BY OutboxBounds DEF OfflineInv, FieldTypes, QueueForSync, Tx
<1>2. \A t \in Tx : t # issued + 1 => rows'[t] = rows[t]
  BY <1>1 DEF QueueForSync, Table
<1>3. ~(issued + 1 <= issued) /\ issued <= issued'
  BY <1>1
<1>4. SameSeal
  BY <1>2, <1>3 DEF SameSeal
<1>5. Sealed
  BY ReceiptsKept DEF serverVars
<1>6. UNCHANGED <<draft, sent, todo, net, touched>>
  BY DEF QueueForSync, serverVars
<1>7. QED
  BY <1>3, <1>4, <1>5, <1>6, SealedStep DEF PayloadInv

LEMMA QueueEdited_Seals ==
    ASSUME OfflineInv, OfflineInv', PayloadInv, QueueEdited, UNCHANGED <<serverVars, touched>>
    PROVE  PayloadInv'
<1>1. rows \in Table /\ draft.tx \in touched
  BY DEF OfflineInv, FieldTypes, QueueEdited, PayloadInv
<1>2. \A t \in Tx : t # draft.tx => rows'[t] = rows[t]
  BY <1>1 DEF QueueEdited, Table
<1>3. SameSeal
  BY <1>1, <1>2 DEF SameSeal
<1>4. Sealed
  BY ReceiptsKept DEF serverVars
<1>5. QED
  BY <1>3, <1>4, FittingStep DEF QueueEdited, serverVars

LEMMA EditOutboxEntry_Seals ==
    ASSUME OfflineInv, OfflineInv', PayloadInv, EditOutboxEntry, touched' = touched \cup {sheet.tx},
           UNCHANGED serverVars
    PROVE  PayloadInv'
<1>1. PICK d : d = sheet.tx
  OBVIOUS
<1>2. rows' = Marked(d, "abandoned") /\ "abandoned" \in State
  BY <1>1 DEF EditOutboxEntry, State
<1>3. SameSeal
  BY <1>2, MarkSeals
<1>4. Sealed
  BY ReceiptsKept DEF serverVars
<1>5. issued <= issued'
  BY OutboxBounds DEF OfflineInv, FieldTypes, EditOutboxEntry
<1>6. draft' = sheet /\ UNCHANGED <<sent, todo, net>>
  BY DEF EditOutboxEntry, serverVars
<1>7. QED
  BY <1>3, <1>4, <1>5, <1>6, SealedStep DEF PayloadInv

LEMMA ClearFailures_Seals ==
    ASSUME OfflineInv, OfflineInv', PayloadInv, ClearFailures, touched' = touched \cup In(Failure),
           UNCHANGED serverVars
    PROVE  PayloadInv'
<1>1. rows \in Table
  BY DEF OfflineInv, FieldTypes
<1>2. \A t \in Tx : t \notin touched' => rows'[t] = rows[t]
  BY DEF ClearFailures
<1>3. SameSeal
  BY <1>2 DEF SameSeal
<1>4. Sealed
  BY ReceiptsKept DEF serverVars
<1>5. QED
  BY <1>3, <1>4, FittingStep DEF ClearFailures, session, serverVars

LEMMA ClearApplied_Seals ==
    ASSUME OfflineInv, OfflineInv', PayloadInv, ClearApplied, UNCHANGED <<serverVars, touched>>
    PROVE  PayloadInv'
<1>1. \A t \in Tx : rows'[t] # None => rows'[t] = rows[t]
  BY DEF ClearApplied
<1>2. SameSeal
  BY <1>1 DEF SameSeal
<1>3. Sealed
  BY ReceiptsKept DEF serverVars
<1>4. QED
  BY <1>2, <1>3, FittingStep DEF ClearApplied, session, serverVars

(* What the retry hands to the renumbering.                                 *)
Retried == [t \in Tx |-> IF t \in In(Failure \cup {"held"}) THEN [rows[t] EXCEPT !.state = "queued"]
                         ELSE rows[t]]

LEMMA RetriedRows ==
    ASSUME rows \in Table
    PROVE  /\ Retried \in Table
           /\ \A t \in Tx : Retried[t] # None <=> rows[t] # None
           /\ \A t \in Tx :
                \/ Retried[t] = rows[t]
                \/ /\ rows[t].state \notin Acknowledged
                   /\ Retried[t].state = "queued" /\ Retried[t].at = rows[t].at
<1>1. \A q \in Row : /\ [q EXCEPT !.state = "queued"] \in Row
                     /\ [q EXCEPT !.state = "queued"].state = "queued"
                     /\ [q EXCEPT !.state = "queued"].at = q.at
  BY DEF Row, State, Pending
<1>2. \A t \in Tx : t \in In(Failure \cup {"held"}) =>
        rows[t] \in Row /\ rows[t].state \notin Acknowledged /\ Retried[t] = [rows[t] EXCEPT !.state = "queued"]
  BY DEF In, Live, Table, Retried, Failure, Acknowledged
<1>3. \A t \in Tx : t \notin In(Failure \cup {"held"}) => Retried[t] = rows[t]
  BY DEF Retried
<1>4. \A t \in Tx : Retried[t] \in Row \cup {None}
  BY <1>1, <1>2, <1>3 DEF Table
<1>5. Retried \in Table
  BY <1>4 DEF Retried, Table
<1>6. ASSUME NEW t \in Tx
      PROVE  /\ Retried[t] # None <=> rows[t] # None
             /\ \/ Retried[t] = rows[t]
                \/ /\ rows[t].state \notin Acknowledged
                   /\ Retried[t].state = "queued" /\ Retried[t].at = rows[t].at
  <2>1. CASE t \in In(Failure \cup {"held"})
    <3>1. PICK q \in Row : q = rows[t]
      BY <1>2, <2>1
    <3>2. Retried[t] = [q EXCEPT !.state = "queued"] /\ rows[t].state \notin Acknowledged
      BY <1>2, <2>1, <3>1
    <3>3. Retried[t] \in Row /\ Retried[t].state = "queued" /\ Retried[t].at = rows[t].at
      BY <1>1, <3>1, <3>2
    <3>4. QED
      BY <3>1, <3>2, <3>3, NoneAssumption
  <2>2. CASE t \notin In(Failure \cup {"held"})
    BY <1>3, <2>2
  <2>3. QED
    BY <2>1, <2>2
<1>7. QED
  BY <1>5, <1>6

LEMMA RetryFailedOutbox_Seals ==
    ASSUME OfflineInv, OfflineInv', PayloadInv, RetryFailedOutbox, UNCHANGED <<serverVars, touched>>
    PROVE  PayloadInv'
<1>1. rows \in Table /\ sequence \in Numbers /\ accepted \in Numbers /\ epoch \in 1..MaxEpoch
  BY DEF OfflineInv, FieldTypes
<1>2. Reconcile(Retried, sequence, accepted, epoch)
      /\ UNCHANGED <<issued, clock, draft, sheet, todo, running, sent, replaying, epoch, valid>>
  BY DEF RetryFailedOutbox, Retried
<1>3. SameSeal
  BY <1>1, <1>2, RetriedRows, Reconciled DEF SameSeal
<1>4. Sealed
  BY ReceiptsKept DEF serverVars
<1>5. QED
  BY <1>2, <1>3, <1>4, FittingStep DEF serverVars

LEMMA Restart_Seals ==
    ASSUME OfflineInv, OfflineInv', PayloadInv, Restart, UNCHANGED <<serverVars, touched>>
    PROVE  PayloadInv'
<1>1. rows \in Table /\ epoch \in 1..MaxEpoch
  BY DEF OfflineInv, FieldTypes
<1>2. PICK e \in 1..MaxEpoch : e = epoch'
  BY <1>1 DEF OfflineInv, FieldTypes
<1>3. PICK q \in Numbers, a \in Numbers : Reconcile(rows, q, a, e)
  BY <1>1, <1>2, HighestBounded DEF Restart
<1>4. SameSeal
  BY <1>1, <1>3, Reconciled DEF SameSeal
<1>5. Sealed
  BY ReceiptsKept DEF serverVars
<1>6. QED
  BY <1>4, <1>5, FittingStep DEF Restart, serverVars

LEMMA FlushOutbox_Seals ==
    ASSUME OfflineInv, OfflineInv', PayloadInv, FlushOutbox, UNCHANGED <<serverVars, touched>>
    PROVE  PayloadInv'
<1>1. PICK order \in [1..Cardinality(In(Pending)) -> In(Pending)] :
        todo' = [i \in DOMAIN order |-> [tx |-> order[i], body |-> BodyOf(rows[order[i]])]]
  BY DEF FlushOutbox
<1>2. \A t \in In(Pending) : Fits([tx |-> t, body |-> BodyOf(rows[t])])
  BY DEF In, Live, Fits, BodyOf, OfflineInv, FieldTypes
<1>3. \A i \in DOMAIN todo' : Fits(todo'[i])
  BY <1>1, <1>2
<1>4. SameSeal /\ Sealed
  BY RowsKept, ReceiptsKept DEF FlushOutbox, durable, serverVars
<1>5. issued <= issued'
  BY OutboxBounds DEF OfflineInv, FieldTypes, FlushOutbox, durable
<1>6. UNCHANGED <<draft, sent, net, touched>>
  BY DEF FlushOutbox, serverVars
<1>7. QED
  BY <1>3, <1>4, <1>5, <1>6, SealedStep DEF PayloadInv

LEMMA HoldLocally_Seals ==
    ASSUME OfflineInv, OfflineInv', PayloadInv, HoldLocally, UNCHANGED <<serverVars, touched>>
    PROVE  PayloadInv'
<1>1. PICK t, s : t = Head(todo).tx /\ s = Denied(Head(todo).body)
  OBVIOUS
<1>2. s \in State /\ rows' = Marked(t, s)
  BY <1>1 DEF HoldLocally, Denied, State, Pending, Failure
<1>3. SameSeal /\ Sealed
  BY <1>2, MarkSeals, ReceiptsKept DEF serverVars
<1>4. issued <= issued'
  BY OutboxBounds DEF OfflineInv, FieldTypes, HoldLocally
<1>5. todo # <<>> /\ todo' = Tail(todo) /\ UNCHANGED <<draft, sent, net, touched>>
  BY DEF HoldLocally, serverVars
<1>6. \A i \in DOMAIN todo' : Fits(todo'[i])
  BY <1>5, TailFits
<1>7. QED
  BY <1>3, <1>4, <1>5, <1>6, SealedStep DEF PayloadInv

LEMMA Sends_Seals == ASSUME OfflineInv, OfflineInv', PayloadInv, Sends PROVE PayloadInv'
<1>1. Sealed /\ net' = net \cup {sent'} /\ touched' = touched
  BY ReceiptsKept DEF Sends
<1>2. CASE Submit
  <2>1. PICK t : t = Head(todo).tx
    OBVIOUS
  <2>2. rows' = Marked(t, "uploading") /\ "uploading" \in State
    BY <1>2, <2>1 DEF Submit, State, Pending
  <2>3. SameSeal
    BY <2>2, MarkSeals
  <2>4. issued <= issued'
    BY <1>2, OutboxBounds DEF OfflineInv, FieldTypes, Submit
  <2>5. todo # <<>> /\ todo' = Tail(todo) /\ sent' = Head(todo) /\ draft' = draft
    BY <1>2 DEF Submit
  <2>6. Fits(sent') /\ \A i \in DOMAIN todo' : Fits(todo'[i])
    BY <2>5, TailFits
  <2>7. QED
    BY <1>1, <2>3, <2>4, <2>5, <2>6, SealedStep DEF PayloadInv
<1>3. CASE Replay
  <2>1. PICK t : t = Max(In(Acknowledged))
    OBVIOUS
  <2>2. In(Acknowledged) \subseteq 0..MaxTx /\ In(Acknowledged) # {} /\ MaxTx \in Nat
    BY <1>3, OutboxBounds DEF In, Live, Tx, Replay
  <2>3. t \in In(Acknowledged)
    BY <2>1, <2>2, LargestExists
  <2>4. sent' = [tx |-> t, body |-> BodyOf(rows[t])]
    BY <1>3, <2>1 DEF Replay
  <2>5. Fits(sent')
    BY <2>3, <2>4 DEF In, Live, Fits, BodyOf, OfflineInv, FieldTypes
  <2>6. SameSeal
    BY <1>3, RowsKept DEF Replay, durable
  <2>7. issued <= issued'
    BY <1>3, OutboxBounds DEF OfflineInv, FieldTypes, Replay, durable
  <2>8. UNCHANGED <<draft, todo>>
    BY <1>3 DEF Replay
  <2>9. QED
    BY <1>1, <2>5, <2>6, <2>7, <2>8, SealedStep DEF PayloadInv
<1>4. QED
  BY <1>2, <1>3 DEF Sends

LEMMA Answered_Seals ==
    ASSUME OfflineInv, OfflineInv', PayloadInv, NEW o \in Answers \cup {"queued"}, Answered(o),
           Sealed, net' \subseteq net, touched' = touched
    PROVE  PayloadInv'
<1>1. PICK t : t = sent.tx
  OBVIOUS
<1>2. rows' = Marked(t, o) /\ o \in State
  BY <1>1 DEF Answered, State, Pending, Acknowledged, Failure, Answers
<1>3. SameSeal
  BY <1>2, MarkSeals
<1>4. QED
  BY <1>3, FittingStep DEF Answered

LEMMA Network_Seals == ASSUME OfflineInv, OfflineInv', PayloadInv, Network PROVE PayloadInv'
<1>1. ASSUME NEW a \in Answers, Delivered(a) PROVE PayloadInv'
  <2>1. PICK m \in Request : m = sent /\ Fits(m) /\ Guarded(m, a)
    BY <1>1 DEF Delivered, OfflineInv, PayloadInv
  <2>2. Sealed
    BY <2>1, GuardedSeals
  <2>3. QED
    BY <1>1, <2>2, Answered_Seals DEF Delivered
<1>2. ASSUME NEW m \in net, NEW a \in Answers, ServedLate(m, a) PROVE PayloadInv'
  <2>1. m \in Request /\ Fits(m) /\ Guarded(m, a)
    BY <1>2 DEF ServedLate, OfflineInv, PayloadInv
  <2>2. Sealed
    BY <2>1, GuardedSeals
  <2>3. SameSeal
    BY <1>2, RowsKept DEF ServedLate, fieldVars, durable
  <2>4. QED
    BY <1>2, <2>2, <2>3, FittingStep DEF ServedLate, fieldVars, durable, session
<1>3. CASE TimesOut
  BY <1>3, ReceiptsKept, Answered_Seals DEF TimesOut, serverVars
<1>4. CASE Refused
  BY <1>4, ReceiptsKept, Answered_Seals DEF Refused, Answers
<1>5. ASSUME NEW m \in net, Lose(m) PROVE PayloadInv'
  <2>1. SameSeal /\ Sealed
    BY <1>5, RowsKept, ReceiptsKept DEF Lose, fieldVars, durable
  <2>2. QED
    BY <1>5, <2>1, FittingStep DEF Lose, fieldVars, durable, session
<1>6. ASSUME NEW t \in Tx, ResponseExpires(t) PROVE PayloadInv'
  <2>1. SameSeal /\ Sealed
    BY <1>6, RowsKept, ReceiptsKept DEF ResponseExpires, fieldVars, durable
  <2>2. QED
    BY <1>6, <2>1, FittingStep DEF ResponseExpires, fieldVars, durable, session
<1>7. ASSUME NEW e, Lapse(e) PROVE PayloadInv'
  <2>1. SameSeal /\ Sealed
    BY <1>7, RowsKept, ReceiptsKept DEF Lapse, fieldVars, durable
  <2>2. QED
    BY <1>7, <2>1, FittingStep DEF Lapse, fieldVars, durable, session
<1>8. QED
  BY <1>1, <1>2, <1>3, <1>4, <1>5, <1>6, <1>7 DEF Network

LEMMA Idle_Seals ==
    ASSUME OfflineInv, OfflineInv', PayloadInv, UNCHANGED <<rows, issued, sent, todo, net, receipt, touched>>,
           draft' = draft \/ draft' = None
    PROVE  PayloadInv'
<1>1. SameSeal /\ Sealed
  BY RowsKept, ReceiptsKept
<1>2. QED
  BY <1>1, FittingStep

LEMMA PayloadNext == ASSUME OfflineInv, OfflineInv', PayloadInv, [Next]_vars PROVE PayloadInv'
<1>1. CASE Local /\ UNCHANGED <<serverVars, touched>>
  <2>1. CASE BeginInspection \/ (\E t \in Tx : OpenSheet(t)) \/ CloseSheet \/ EndFlush \/ Expire
    BY <1>1, <2>1, Idle_Seals
       DEF BeginInspection, OpenSheet, CloseSheet, EndFlush, Expire, durable, serverVars
  <2>2. QED
    BY <1>1, <2>1, QueueForSync_Seals, QueueEdited_Seals, RetryFailedOutbox_Seals, ClearApplied_Seals,
       FlushOutbox_Seals, HoldLocally_Seals, Restart_Seals DEF Local
<1>2. CASE Touching /\ UNCHANGED serverVars
  BY <1>2, EditOutboxEntry_Seals, ClearFailures_Seals DEF Touching
<1>3. CASE UNCHANGED vars
  BY <1>3, Idle_Seals DEF vars, fieldVars, durable, session, serverVars
<1>4. QED
  BY <1>1, <1>2, <1>3, Sends_Seals, Network_Seals DEF Next

LEMMA AlwaysPayloadInv == Spec => []PayloadInv
  BY AlwaysOfflineInv, PayloadInit, PayloadNext, PTL DEF Spec

-----------------------------------------------------------------------------
(* The server counts what it applied: a number is accepted with the work it *)
(* was signed for, and a drain accepts one number for each held transaction *)
(* it applies.                                                              *)
Applied == {t \in Tx : OnServer(t)}

ServerCounts ==
    /\ last = Cardinality(Applied)
    /\ \A t \in Tx : held[t] # None => ~OnServer(t)

LEMMA FiniteTx == \A S \in SUBSET Tx : IsFiniteSet(S) /\ Cardinality(S) \in Nat
<1>1. IsFiniteSet(Tx)
  BY FS_Interval, OutboxBounds DEF Tx
<1>2. QED
  BY <1>1, FS_Subset, FS_CardinalityType

LEMMA ServerCountsInit == Init => ServerCounts
<1> SUFFICES ASSUME Init PROVE ServerCounts
  OBVIOUS
<1>1. Applied = {}
  BY DEF Init, Applied, OnServer
<1>2. QED
  BY <1>1, FS_EmptySet DEF Init, ServerCounts

LEMMA KeepCounts == ASSUME ServerCounts, Keep PROVE ServerCounts'
<1>1. \A t \in Tx : OnServer(t)' <=> OnServer(t)
  BY DEF Keep, OnServer
<1>2. Applied' = Applied
  BY <1>1 DEF Applied
<1>3. QED
  BY <1>1, <1>2 DEF Keep, ServerCounts

LEMMA HoldCounts ==
    ASSUME ServerInv, ServerCounts, NEW t \in Tx, NEW b \in Body, Hold(t, b), ~OnServer(t)
    PROVE  ServerCounts'
<1>1. \A u \in Tx : OnServer(u)' <=> OnServer(u)
  <2> SUFFICES ASSUME NEW u \in Tx PROVE OnServer(u)' <=> OnServer(u)
    OBVIOUS
  <2>1. CASE u # t
    BY <2>1 DEF Hold, OnServer, ServerInv, ServerTypes
  <2>2. CASE u = t /\ receipt[t] # None
    BY <2>2 DEF Hold, OnServer, ServerInv, ServerTypes
  <2>3. CASE u = t /\ receipt[t] = None
    BY <2>3 DEF Hold, OnServer, ServerInv, ServerTypes
  <2>4. QED
    BY <2>1, <2>2, <2>3
<1>2. Applied' = Applied
  BY <1>1 DEF Applied
<1>3. \A u \in Tx : held'[u] # None => u = t \/ held[u] # None
  BY DEF Hold, ServerInv, ServerTypes
<1>4. QED
  BY <1>1, <1>2, <1>3 DEF Hold, ServerCounts

LEMMA AcceptCounts ==
    ASSUME ServerInv, ServerCounts, NEW t \in Tx, NEW b \in Body, Accept(t, b), ~OnServer(t),
           b.seq = last + 1
    PROVE  ServerCounts'
<1>1. PICK D \in SUBSET {u \in Tx \ {t} : held[u] # None} :
        /\ receipt' = [u \in Tx |-> IF u = t THEN AppliedReceipt(t, b)
                                    ELSE IF u \in D THEN [receipt[u] EXCEPT !.applied = TRUE] ELSE receipt[u]]
        /\ held' = [u \in Tx |-> IF u \in D \cup {t} THEN None ELSE held[u]]
        /\ last' = b.seq + Cardinality(D)
  BY DEF Accept
<1>2. D \subseteq Tx /\ t \notin D /\ \A u \in D : ~OnServer(u) /\ receipt[u] # None
  BY DEF ServerCounts, ServerInv
<1>3. OnServer(t)'
  BY Accept_Remembers
<1>4. \A u \in D : OnServer(u)'
  <2> SUFFICES ASSUME NEW u \in D PROVE OnServer(u)'
    OBVIOUS
  <2>1. u \in Tx /\ receipt[u] \in Receipt /\ receipt'[u] = [receipt[u] EXCEPT !.applied = TRUE]
    BY <1>1, <1>2 DEF ServerInv, ServerTypes
  <2>2. receipt'[u] \in Receipt /\ receipt'[u].applied = TRUE
    BY <2>1, AppliedAgain
  <2>3. QED
    BY <2>2, ReceiptAssumption DEF OnServer
<1>5. \A u \in Tx \ (D \cup {t}) : (OnServer(u)' <=> OnServer(u)) /\ held'[u] = held[u]
  BY <1>1 DEF OnServer
<1>6. Applied' = (Applied \cup {t}) \cup D /\ t \notin Applied /\ (Applied \cup {t}) \cap D = {}
  BY <1>2, <1>3, <1>4, <1>5 DEF Applied
<1>7. last' = Cardinality(Applied')
  <2>1. IsFiniteSet(Applied) /\ IsFiniteSet(Applied \cup {t}) /\ IsFiniteSet(D)
        /\ Cardinality(Applied) \in Nat /\ Cardinality(D) \in Nat
    BY <1>2, FiniteTx DEF Applied
  <2>2. Cardinality(Applied \cup {t}) = Cardinality(Applied) + 1
    BY <1>6, <2>1, FS_AddElement
  <2>3. Cardinality((Applied \cup {t}) \cup D) =
          Cardinality(Applied \cup {t}) + Cardinality(D) - Cardinality((Applied \cup {t}) \cap D)
    BY <2>1, FS_Union
  <2>4. Cardinality((Applied \cup {t}) \cap D) = 0
    BY <1>6, FS_EmptySet
  <2>5. Cardinality(Applied') = Cardinality(Applied) + 1 + Cardinality(D)
    BY <1>6, <2>1, <2>2, <2>3, <2>4
  <2>6. QED
    BY <1>1, <2>1, <2>5 DEF ServerCounts
<1>8. \A u \in Tx : held'[u] # None => ~OnServer(u)'
  BY <1>1, <1>5 DEF ServerCounts
<1>9. QED
  BY <1>7, <1>8 DEF ServerCounts

LEMMA GuardedCounts ==
    ASSUME ServerInv, ServerCounts, NEW m \in Request, NEW a \in Answers, Guarded(m, a)
    PROVE  ServerCounts'
<1>1. m.tx \in Tx /\ m.body \in Body
  BY DEF Request
<1>2. CASE Keep
  BY <1>2, KeepCounts
<1>3. CASE Hold(m.tx, m.body) /\ ~OnServer(m.tx)
  BY <1>1, <1>3, HoldCounts
<1>4. CASE Accept(m.tx, m.body) /\ ~OnServer(m.tx) /\ m.body.seq = last + 1
  BY <1>1, <1>4, AcceptCounts
<1>5. QED
  BY <1>2, <1>3, <1>4 DEF Guarded, Process, RefuseStale, Keep, OnServer

LEMMA ServerCountsNext == ASSUME OfflineInv, ServerCounts, [Next]_vars PROVE ServerCounts'
<1>1. CASE UNCHANGED <<receipt, held, last>>
  BY <1>1, KeepCounts DEF Keep
<1>2. ASSUME NEW a \in Answers, Delivered(a) PROVE ServerCounts'
  BY <1>2, GuardedCounts DEF Delivered, OfflineInv
<1>3. ASSUME NEW m \in net, NEW a \in Answers, ServedLate(m, a) PROVE ServerCounts'
  BY <1>3, GuardedCounts DEF ServedLate, OfflineInv
<1>4. QED
  BY <1>1, <1>2, <1>3 DEF Next, Sends, Network, TimesOut, Refused, Lose, ResponseExpires, Lapse,
     serverVars, vars

LEMMA AlwaysServerCounts == Spec => []ServerCounts
  BY AlwaysOfflineInv, ServerCountsInit, ServerCountsNext, PTL DEF Spec

-----------------------------------------------------------------------------
(* The application counts what was acknowledged, as long as nothing is      *)
(* unsealed or cleared: each number it accepts is that of one entry.        *)
Reached == IF running = None THEN accepted ELSE running

Counted ==
    /\ Reached = Cardinality(In(Acknowledged))
    /\ \A t \in In(Acknowledged) : rows[t].seq <= Reached
    /\ Reached = 0 \/ \E t \in In(Acknowledged) : rows[t].seq = Reached

(* A request for an entry which waits for its answer, as it is.             *)
InHand(m) == m.tx \in In(Pending) /\ m.body = BodyOf(rows[m.tx])

InOrder ==
    /\ sent # None => running # None /\ InHand(sent) /\ sent.body.seq = running + 1
    /\ \A i \in DOMAIN todo : InHand(todo[i]) /\ (sent # None => todo[i].tx # sent.tx)
    /\ \A i, j \in DOMAIN todo : i # j => todo[i].tx # todo[j].tx

ClientInv ==
    /\ draft = None /\ replaying = FALSE
    /\ running # None => accepted <= running
    /\ \A t \in 1..issued : Kept(t)
    /\ Counted /\ InOrder

ClientCounts == touched = {} => ClientInv

(* Operations under which a number is given to one entry only, and no       *)
(* acknowledged entry is dropped.                                           *)
Steady == Operations \cap {"purge", "replay", "retry_in_flush"} = {}

LEMMA ClientInit == Init => ClientCounts
<1> SUFFICES ASSUME Init PROVE ClientInv
  BY DEF ClientCounts
<1> USE DEF Init, FieldInit
<1>1. In(Acknowledged) = {} /\ running = None /\ accepted = 0
  BY DEF In, Live
<1>2. Counted
  BY <1>1, FS_EmptySet DEF Counted, Reached
<1>3. \A t \in 1..issued : FALSE
  BY OutboxBounds
<1>4. QED
  BY <1>2, <1>3 DEF ClientInv, InOrder

LEMMA ReachedType == ASSUME FieldTypes PROVE Reached \in Numbers /\ Reached \in Nat
  BY OutboxBounds DEF FieldTypes, Reached, Numbers

LEMMA CountedStays ==
    ASSUME Counted, Reached' = Reached, In(Acknowledged)' = In(Acknowledged),
           \A t \in In(Acknowledged) : rows'[t].seq = rows[t].seq
    PROVE  Counted'
  BY DEF Counted

LEMMA CountedMore ==
    ASSUME FieldTypes, FieldTypes', Counted, NEW t \in Tx, t \notin In(Acknowledged),
           In(Acknowledged)' = In(Acknowledged) \cup {t},
           Reached' = Reached + 1, rows'[t].seq = Reached + 1,
           \A u \in In(Acknowledged) : rows'[u].seq = rows[u].seq
    PROVE  Counted'
<1>1. Reached \in Nat /\ IsFiniteSet(In(Acknowledged))
  BY ReachedType, FiniteTx DEF In, Live
<1>2. Cardinality(In(Acknowledged) \cup {t}) = Reached + 1
  BY <1>1, FS_AddElement DEF Counted
<1>3. \A u \in In(Acknowledged) : rows[u].seq \in Nat
  BY OutboxBounds DEF In, Live, FieldTypes, Table, Row
<1>4. \A u \in In(Acknowledged)' : rows'[u].seq <= Reached + 1
  BY <1>1, <1>3 DEF Counted
<1>5. QED
  BY <1>2, <1>4 DEF Counted

(* The highest acknowledged number is then the number reached.              *)
LEMMA HighestIs ==
    ASSUME NEW R \in Table, NEW n \in Numbers,
           \A t \in Tx : R[t] # None /\ R[t].state \in Acknowledged => R[t].seq <= n,
           n = 0 \/ \E t \in Tx : R[t] # None /\ R[t].state \in Acknowledged /\ R[t].seq = n
    PROVE  Highest(R, Acknowledged) = n
<1> DEFINE H == {0} \cup {R[t].seq : t \in {u \in Tx : R[u] # None /\ R[u].state \in Acknowledged}}
<1>1. H \subseteq Numbers /\ H # {} /\ n \in H /\ \A y \in H : y <= n
  BY OutboxBounds DEF Table, Row, Numbers
<1>2. Max(H) \in H /\ \A y \in H : Max(H) >= y
  BY <1>1, LargestExists, OutboxBounds DEF Numbers
<1>3. Max(H) \in Nat /\ n \in Nat /\ Max(H) <= n /\ Max(H) >= n
  BY <1>1, <1>2, OutboxBounds DEF Numbers
<1>4. Max(H) = n
  BY <1>3
<1>5. QED
  BY <1>4 DEF Highest

LEMMA HighestCounted ==
    ASSUME FieldTypes, Counted PROVE Highest(rows, Acknowledged) = Reached
<1>1. \A t \in Tx : t \in In(Acknowledged) <=> rows[t] # None /\ rows[t].state \in Acknowledged
  BY DEF In, Live
<1>2. rows \in Table /\ Reached \in Numbers
  BY ReachedType DEF FieldTypes
<1>3. \A t \in Tx : rows[t] # None /\ rows[t].state \in Acknowledged => rows[t].seq <= Reached
  BY <1>1 DEF Counted
<1>4. Reached = 0 \/ \E t \in Tx : rows[t] # None /\ rows[t].state \in Acknowledged /\ rows[t].seq = Reached
  BY <1>1 DEF Counted, In, Live
<1>5. QED
  BY <1>2, <1>3, <1>4, HighestIs

LEMMA LargerOf == ASSUME NEW a \in Nat, NEW b \in Nat, a <= b PROVE Max({a, b}) = b
<1>1. {a, b} \subseteq 0..b /\ {a, b} # {}
  OBVIOUS
<1>2. Max({a, b}) \in {a, b} /\ \A y \in {a, b} : Max({a, b}) >= y
  BY <1>1, LargestExists
<1>3. Max({a, b}) \in Nat /\ Max({a, b}) >= b /\ Max({a, b}) <= b
  BY <1>2
<1>4. QED
  BY <1>3

(* A flush which changes no row, or marks one that waits.                   *)
LEMMA Unmarked ==
    ASSUME ClientInv, rows' = rows, Reached' = Reached, issued' = issued
    PROVE  Counted' /\ (\A t \in 1..issued' : Kept(t)') /\ \A m \in Request : InHand(m)' <=> InHand(m)
<1>1. In(Acknowledged)' = In(Acknowledged) /\ In(Pending)' = In(Pending)
  BY DEF In, Live
<1>2. QED
  BY <1>1, CountedStays DEF ClientInv, InHand, Kept

LEMMA MarkedCounts ==
    ASSUME OfflineInv, ClientInv, NEW m \in Request, InHand(m), NEW s \in State \ {"abandoned"},
           rows' = Marked(m.tx, s), issued' = issued
    PROVE  /\ \A t \in 1..issued' : Kept(t)'
           /\ In(Acknowledged)' = In(Acknowledged) \cup (IF s \in Acknowledged THEN {m.tx} ELSE {})
           /\ m.tx \in Tx /\ m.tx \notin In(Acknowledged) /\ rows'[m.tx].seq = m.body.seq
           /\ \A t \in In(Acknowledged) : rows'[t].seq = rows[t].seq
           /\ \A n \in Request : InHand(n) /\ (n.tx # m.tx \/ s \in Pending) => InHand(n)'
<1> DEFINE u == m.tx
<1>1. u \in Tx /\ rows[u] # None /\ rows[u].state \in Pending /\ m.body = BodyOf(rows[u])
  BY DEF InHand, In, Live
<1> HIDE DEF u
<1>2. /\ rows \in Table /\ rows' \in Table
      /\ \A t \in Tx : rows'[t] # None <=> rows[t] # None
      /\ \A t \in Tx \ {u} : rows'[t] = rows[t]
      /\ rows'[u].state = s
      /\ \A t \in Tx : rows[t] # None => BodyOf(rows'[t]) = BodyOf(rows[t])
  BY <1>1, MarkedRow DEF OfflineInv, FieldTypes, u
<1>3. \A t \in Tx : rows[t] # None => rows'[t].seq = rows[t].seq
  BY <1>2 DEF BodyOf
<1>4. \A t \in 1..issued : t \in Tx
  BY OutboxBounds DEF OfflineInv, FieldTypes, Tx
<1>5. \A t \in 1..issued' : Kept(t)'
  <2> SUFFICES ASSUME NEW t \in 1..issued PROVE rows'[t] # None /\ rows'[t].state # "abandoned"
    BY DEF Kept
  <2>1. t \in Tx /\ rows[t] # None /\ rows[t].state # "abandoned"
    BY <1>4 DEF ClientInv, Kept
  <2>2. QED
    BY <1>2, <2>1
<1>6. u \notin In(Acknowledged) /\ rows'[u].seq = m.body.seq
  BY <1>1, <1>3 DEF In, Live, Pending, Acknowledged, BodyOf
<1>7. In(Acknowledged)' = In(Acknowledged) \cup (IF s \in Acknowledged THEN {u} ELSE {})
  <2>1. \A t \in Tx \ {u} : t \in In(Acknowledged)' <=> t \in In(Acknowledged)
    BY <1>2 DEF In, Live
  <2>2. u \in In(Acknowledged)' <=> s \in Acknowledged
    BY <1>1, <1>2 DEF In, Live
  <2>3. In(Acknowledged) \subseteq Tx /\ In(Acknowledged)' \subseteq Tx
    BY DEF In, Live
  <2>4. QED
    BY <1>1, <1>6, <2>1, <2>2, <2>3
<1>8. ASSUME NEW n \in Request, InHand(n), n.tx # u \/ s \in Pending PROVE InHand(n)'
  <2>1. n.tx \in Tx /\ rows[n.tx] # None /\ rows[n.tx].state \in Pending /\ n.body = BodyOf(rows[n.tx])
    BY <1>8 DEF InHand, In, Live
  <2>2. rows'[n.tx] # None /\ rows'[n.tx].state \in Pending /\ n.body = BodyOf(rows'[n.tx])
    BY <1>2, <1>8, <2>1
  <2>3. QED
    BY <2>1, <2>2 DEF InHand, In, Live
<1>9. QED
  BY <1>1, <1>3, <1>5, <1>6, <1>7, <1>8 DEF u, In, Live

-----------------------------------------------------------------------------
(* What the operator and a restart do to the count: nothing.                *)
LEMMA Idle_Counts ==
    ASSUME ClientInv, UNCHANGED <<rows, issued, accepted, running, replaying, sent, todo>>, draft' = None
    PROVE  ClientInv'
<1>1. Reached' = Reached /\ In(Acknowledged)' = In(Acknowledged) /\ In(Pending)' = In(Pending)
  BY DEF Reached, In, Live
<1>2. Counted'
  BY <1>1, CountedStays DEF ClientInv
<1>3. QED
  BY <1>1, <1>2 DEF ClientInv, InOrder, InHand, Kept

LEMMA QueueForSync_Counts == ASSUME OfflineInv, ClientInv, QueueForSync PROVE ClientInv'
<1>1. rows \in Table /\ issued \in Nat /\ issued + 1 \in Tx /\ issued' = issued + 1
  BY OutboxBounds DEF OfflineInv, FieldTypes, QueueForSync, Tx
<1>2. PICK n : n = issued + 1
  OBVIOUS
<1>3. n \in Tx /\ rows[n] = None
  BY <1>1, <1>2 DEF OfflineInv, FieldTypes
<1>4. \A t \in Tx \ {n} : rows'[t] = rows[t]
  BY <1>1, <1>2 DEF QueueForSync, Table
<1>5. rows'[n] = [seq |-> sequence', at |-> clock', epoch |-> epoch, state |-> "queued"]
  BY <1>1, <1>2, <1>3 DEF QueueForSync, Table
<1>6. rows'[n] \in Row /\ rows'[n] # None /\ rows'[n].state = "queued"
  <2>1. sequence' \in 1..MaxSequence /\ clock' \in 1..MaxSeal /\ epoch \in 1..MaxEpoch
    BY OutboxBounds DEF OfflineInv, FieldTypes, QueueForSync, Numbers
  <2>2. QED
    BY <1>5, <2>1, NoneAssumption DEF Row, State, Pending
<1>7. In(Acknowledged)' = In(Acknowledged) /\ n \notin In(Acknowledged)
  <2>1. n \notin In(Acknowledged) /\ n \notin In(Acknowledged)'
    BY <1>3, <1>6 DEF In, Live, Acknowledged
  <2>2. \A t \in Tx \ {n} : t \in In(Acknowledged)' <=> t \in In(Acknowledged)
    BY <1>4 DEF In, Live
  <2>3. QED
    BY <2>1, <2>2 DEF In, Live
<1>8. Counted'
  <2>1. Reached' = Reached
    BY DEF QueueForSync, Reached
  <2>2. \A t \in In(Acknowledged) : rows'[t].seq = rows[t].seq
    BY <1>4, <1>7 DEF In, Live
  <2>3. QED
    BY <1>7, <2>1, <2>2, CountedStays DEF ClientInv
<1>9. ASSUME NEW t \in 1..issued' PROVE Kept(t)'
  <2>1. t = n \/ (t # n /\ t \in Tx /\ t \in 1..issued)
    BY <1>1, <1>2, OutboxBounds DEF Tx
  <2>2. CASE t = n
    BY <1>6, <2>2 DEF Kept
  <2>3. CASE t # n /\ t \in Tx /\ t \in 1..issued
    BY <1>4, <2>3 DEF ClientInv, Kept
  <2>4. QED
    BY <2>1, <2>2, <2>3
<1>10. \A m \in Request : InHand(m) => InHand(m)'
  BY <1>3, <1>4 DEF InHand, In, Live
<1>11. InOrder'
  <2>1. UNCHANGED <<sent, todo, running>>
    BY DEF QueueForSync
  <2>2. sent # None => InHand(sent)'
    BY <1>10, <2>1 DEF ClientInv, InOrder, OfflineInv, FieldTypes
  <2>3. \A i \in DOMAIN todo : todo[i] \in Request
    BY ElementOfSeq, LenProperties DEF OfflineInv, FieldTypes
  <2>4. \A i \in DOMAIN todo : InHand(todo[i])'
    BY <1>10, <2>1, <2>3 DEF ClientInv, InOrder
  <2>5. QED
    BY <2>1, <2>2, <2>4 DEF ClientInv, InOrder
<1>12. QED
  BY <1>8, <1>9, <1>11 DEF ClientInv, QueueForSync

(* A reconciliation from the number reached stays there.                    *)
LEMMA ReconcileCounts ==
    ASSUME OfflineInv, ClientInv, NEW R \in Table, NEW q \in Numbers, NEW a \in Numbers, NEW e \in 1..MaxEpoch,
           a = Reached, Reconcile(R, q, a, e), issued' = issued, running' = None,
           \A t \in Tx : R[t] # None <=> rows[t] # None,
           \A t \in Tx : R[t] = rows[t] \/ (rows[t].state \notin Acknowledged /\ R[t].state = "queued")
    PROVE  Counted' /\ \A t \in 1..issued' : Kept(t)'
<1>1. FieldTypes /\ Counted
  BY DEF OfflineInv, ClientInv
<1>2. \A t \in Tx : t \in In(Acknowledged) <=> R[t] # None /\ R[t].state \in Acknowledged
  BY DEF In, Live, Acknowledged
<1>3. \A t \in In(Acknowledged) : R[t] = rows[t]
  BY DEF In, Live
<1>4. Highest(R, Acknowledged) = a
  <2>1. \A t \in Tx : R[t] # None /\ R[t].state \in Acknowledged => R[t].seq <= a
    BY <1>1, <1>2, <1>3 DEF Counted
  <2>2. a = 0 \/ \E t \in Tx : R[t] # None /\ R[t].state \in Acknowledged /\ R[t].seq = a
    BY <1>1, <1>2, <1>3 DEF Counted, In, Live
  <2>3. QED
    BY <2>1, <2>2, HighestIs
<1>5. Reached' = Reached
  <2>1. a \in Nat /\ Max({a, a}) = a
    BY LargerOf, OutboxBounds DEF Numbers
  <2>2. accepted' = a
    BY <1>4, <2>1 DEF Reconcile
  <2>3. QED
    BY <2>2 DEF Reached
<1>6. \A t \in Tx : \/ rows'[t] = R[t]
                    \/ /\ R[t] # None /\ R[t].state \notin Acknowledged \cup {"abandoned"}
                       /\ rows'[t] # None /\ rows'[t].state = "queued"
  BY Reconciled
<1>7. \A t \in Tx : t \in In(Acknowledged)' <=> t \in In(Acknowledged)
  BY <1>2, <1>6 DEF In, Live, Acknowledged
<1>8. In(Acknowledged)' = In(Acknowledged)
  BY <1>7 DEF In, Live
<1>9. \A t \in In(Acknowledged) : rows'[t].seq = rows[t].seq
  BY <1>2, <1>3, <1>6 DEF In, Live
<1>10. Counted'
  BY <1>1, <1>5, <1>8, <1>9, CountedStays
<1>11. ASSUME NEW t \in 1..issued' PROVE Kept(t)'
  <2>1. t \in Tx /\ rows[t] # None /\ rows[t].state # "abandoned"
    BY OutboxBounds DEF OfflineInv, FieldTypes, Tx, ClientInv, Kept
  <2>2. R[t] # None /\ R[t].state # "abandoned"
    BY <2>1
  <2>3. QED
    BY <1>6, <2>1, <2>2 DEF Kept
<1>12. QED
  BY <1>10, <1>11

(* With no flush running nothing is in hand.                                *)
LEMMA AtRest ==
    ASSUME OfflineInv, ClientInv, running = None PROVE sent = None /\ todo = <<>> /\ Reached = accepted
  BY DEF OfflineInv, FieldTypes, ClientInv, InOrder, Reached

LEMMA RetryFailedOutbox_Counts ==
    ASSUME Steady, OfflineInv, ClientInv, RetryFailedOutbox PROVE ClientInv'
<1>1. rows \in Table /\ sequence \in Numbers /\ accepted \in Numbers /\ epoch \in 1..MaxEpoch
  BY DEF OfflineInv, FieldTypes
<1>2. running = None
  BY DEF Steady, RetryFailedOutbox
<1>3. sent = None /\ todo = <<>> /\ Reached = accepted
  BY <1>2, AtRest
<1>4. Reconcile(Retried, sequence, accepted, epoch)
      /\ UNCHANGED <<issued, clock, draft, sheet, todo, running, sent, replaying, epoch, valid>>
  BY DEF RetryFailedOutbox, Retried
<1>5. Counted' /\ \A t \in 1..issued' : Kept(t)'
  BY <1>1, <1>2, <1>3, <1>4, RetriedRows, ReconcileCounts
<1>6. InOrder'
  BY <1>3, <1>4 DEF InOrder
<1>7. QED
  BY <1>2, <1>4, <1>5, <1>6 DEF ClientInv

LEMMA Restart_Counts == ASSUME OfflineInv, OfflineInv', ClientInv, Restart PROVE ClientInv'
<1>1. rows \in Table /\ FieldTypes
  BY DEF OfflineInv, FieldTypes
<1>2. PICK e \in 1..MaxEpoch : e = epoch'
  BY DEF OfflineInv, FieldTypes
<1>3. PICK a \in Numbers : a = Reached /\ a = Highest(rows, Acknowledged)
  BY <1>1, ReachedType, HighestCounted DEF ClientInv
<1>4. PICK q \in Numbers : Reconcile(rows, q, a, e)
  BY <1>1, <1>2, <1>3, HighestBounded DEF Restart
<1>5. Counted' /\ \A t \in 1..issued' : Kept(t)'
  BY <1>1, <1>3, <1>4, ReconcileCounts DEF Restart
<1>6. InOrder'
  BY DEF InOrder, Restart
<1>7. QED
  BY <1>5, <1>6 DEF ClientInv, Restart

-----------------------------------------------------------------------------
(* A flush, whose answers are counted one by one.                           *)
LEMMA FlushOutbox_Counts == ASSUME OfflineInv, ClientInv, FlushOutbox PROVE ClientInv'
<1>1. rows' = rows /\ issued' = issued /\ running = None /\ running' = accepted /\ sent' = sent
      /\ UNCHANGED <<accepted, draft, replaying>>
  BY DEF FlushOutbox, durable
<1>2. sent = None /\ Reached = accepted
  BY <1>1, AtRest
<1>3. accepted # None /\ accepted \in Nat
  BY NoneAssumption, OutboxBounds DEF OfflineInv, FieldTypes, Numbers
<1>4. Reached' = Reached
  BY <1>1, <1>2, <1>3 DEF Reached
<1>5. Counted' /\ \A t \in 1..issued' : Kept(t)'
  BY <1>1, <1>4, Unmarked
<1>6. PICK order \in [1..Cardinality(In(Pending)) -> In(Pending)] :
        /\ \A i, j \in DOMAIN order : i < j => order[i] < order[j]
        /\ todo' = [i \in DOMAIN order |-> [tx |-> order[i], body |-> BodyOf(rows[order[i]])]]
  BY DEF FlushOutbox
<1>7. DOMAIN todo' = DOMAIN order
      /\ \A i \in DOMAIN order : todo'[i].tx = order[i] /\ todo'[i].body = BodyOf(rows[order[i]])
  BY <1>6
<1>8. In(Pending)' = In(Pending) /\ \A i \in DOMAIN order : order[i] \in In(Pending)
  BY <1>1 DEF In, Live
<1>9. \A i \in DOMAIN todo' : InHand(todo[i])'
  BY <1>1, <1>7, <1>8 DEF InHand
<1>10. \A i, j \in DOMAIN todo' : i # j => todo'[i].tx # todo'[j].tx
  <2> SUFFICES ASSUME NEW i \in DOMAIN order, NEW j \in DOMAIN order, i # j PROVE order[i] # order[j]
    BY <1>7
  <2>1. i \in Nat /\ j \in Nat
    <3>1. Cardinality(In(Pending)) \in Nat
      BY FiniteTx DEF In, Live
    <3>2. QED
      BY <3>1
  <2>2. order[i] \in Nat /\ order[j] \in Nat
    BY <1>8, OutboxBounds DEF In, Live, Tx
  <2>3. i < j \/ j < i
    BY <2>1
  <2>4. QED
    BY <1>6, <2>2, <2>3
<1>11. InOrder'
  BY <1>1, <1>2, <1>9, <1>10 DEF InOrder
<1>12. QED
  BY <1>1, <1>3, <1>5, <1>11 DEF ClientInv

(* The first of the listed entries, and those after it.                     *)
LEMMA FirstOfTodo ==
    ASSUME OfflineInv, ClientInv, todo # <<>>, NEW m, m = Head(todo)
    PROVE  /\ m \in Request /\ InHand(m) /\ running # None /\ (sent # None => m.tx # sent.tx)
           /\ \A i \in DOMAIN Tail(todo) :
                /\ Tail(todo)[i] \in Request /\ InHand(Tail(todo)[i]) /\ Tail(todo)[i].tx # m.tx
                /\ sent # None => Tail(todo)[i].tx # sent.tx
           /\ \A i, j \in DOMAIN Tail(todo) : i # j => Tail(todo)[i].tx # Tail(todo)[j].tx
<1>1. todo \in Seq(Request) /\ Len(todo) \in Nat /\ DOMAIN todo = 1..Len(todo) /\ Len(todo) # 0
      /\ running # None
  BY LenProperties, EmptySeq DEF OfflineInv, FieldTypes
<1>2. m = todo[1] /\ 1 \in DOMAIN todo
  BY <1>1
<1>3. \A i \in DOMAIN Tail(todo) : i \in Nat /\ i + 1 # 1 /\ i + 1 \in DOMAIN todo /\ Tail(todo)[i] = todo[i + 1]
  BY <1>1
<1>4. \A i \in DOMAIN todo : todo[i] \in Request
  BY <1>1, ElementOfSeq
<1>5. \A i, j \in DOMAIN Tail(todo) : i # j => i + 1 # j + 1
  BY <1>3
<1>6. QED
  BY <1>1, <1>2, <1>3, <1>4, <1>5 DEF ClientInv, InOrder

LEMMA HoldLocally_Counts == ASSUME OfflineInv, ClientInv, HoldLocally PROVE ClientInv'
<1>1. PICK m, s : m = Head(todo) /\ s = Denied(Head(todo).body)
  OBVIOUS
<1>2. todo # <<>> /\ sent = None /\ s \in {"held", "securityFailure"} /\ rows' = Marked(m.tx, s)
      /\ todo' = Tail(todo) /\ UNCHANGED <<issued, accepted, draft, running, sent, replaying>>
  BY <1>1 DEF HoldLocally, Denied
<1>3. s \in State \ {"abandoned"} /\ s \notin Acknowledged
  BY <1>2 DEF State, Pending, Failure, Acknowledged
<1>4. m \in Request /\ InHand(m)
      /\ (\A i \in DOMAIN todo' : todo'[i] \in Request /\ InHand(todo'[i]) /\ todo'[i].tx # m.tx)
      /\ \A i, j \in DOMAIN todo' : i # j => todo'[i].tx # todo'[j].tx
  BY <1>1, <1>2, FirstOfTodo
<1>5. /\ \A t \in 1..issued' : Kept(t)'
      /\ In(Acknowledged)' = In(Acknowledged)
      /\ \A t \in In(Acknowledged) : rows'[t].seq = rows[t].seq
      /\ \A n \in Request : InHand(n) /\ n.tx # m.tx => InHand(n)'
  BY <1>2, <1>3, <1>4, MarkedCounts
<1>6. Counted'
  BY <1>2, <1>5, CountedStays DEF ClientInv, Reached
<1>7. \A i \in DOMAIN todo' : InHand(todo[i])'
  BY <1>4, <1>5 DEF InHand
<1>8. QED
  BY <1>2, <1>4, <1>5, <1>6, <1>7 DEF ClientInv, InOrder

LEMMA Submit_Counts == ASSUME OfflineInv, ClientInv, Submit PROVE ClientInv'
<1>1. PICK m : m = Head(todo)
  OBVIOUS
<1>2. todo # <<>> /\ sent = None /\ rows' = Marked(m.tx, "uploading") /\ sent' = m
      /\ todo' = Tail(todo) /\ UNCHANGED <<issued, accepted, draft, running, replaying>>
      /\ m.body.seq = running + 1
  BY <1>1 DEF Submit, Denied
<1>3. "uploading" \in State \ {"abandoned"} /\ "uploading" \notin Acknowledged /\ "uploading" \in Pending
  BY DEF State, Pending, Acknowledged
<1>4. m \in Request /\ InHand(m) /\ running # None
      /\ (\A i \in DOMAIN todo' : todo'[i] \in Request /\ InHand(todo'[i]) /\ todo'[i].tx # m.tx)
      /\ \A i, j \in DOMAIN todo' : i # j => todo'[i].tx # todo'[j].tx
  BY <1>1, <1>2, FirstOfTodo
<1>5. /\ \A t \in 1..issued' : Kept(t)'
      /\ In(Acknowledged)' = In(Acknowledged)
      /\ \A t \in In(Acknowledged) : rows'[t].seq = rows[t].seq
      /\ \A n \in Request : InHand(n) => InHand(n)'
  BY <1>2, <1>3, <1>4, MarkedCounts
<1>6. Counted'
  BY <1>2, <1>5, CountedStays DEF ClientInv, Reached
<1>7. (\A i \in DOMAIN todo' : InHand(todo[i])') /\ InHand(sent)'
  BY <1>2, <1>4, <1>5 DEF InHand
<1>8. QED
  BY <1>2, <1>4, <1>5, <1>6, <1>7 DEF ClientInv, InOrder

LEMMA Answered_Counts ==
    ASSUME OfflineInv, OfflineInv', ClientInv, NEW o \in Answers \cup {"queued"}, Answered(o) PROVE ClientInv'
<1>1. PICK m \in Request : m = sent
  BY DEF Answered, OfflineInv, FieldTypes
<1>2. sent # None /\ running # None /\ InHand(m) /\ m.body.seq = running + 1
  BY <1>1 DEF Answered, ClientInv, InOrder
<1>3. o \in State \ {"abandoned"}
  BY DEF State, Pending, Acknowledged, Failure, Answers
<1>4. rows' = Marked(m.tx, o) /\ running' = (IF o \in Acknowledged THEN m.body.seq ELSE running)
      /\ sent' = None /\ replaying' = FALSE /\ UNCHANGED <<issued, accepted, draft, todo>>
  BY <1>1 DEF Answered, ClientInv
<1>5. /\ \A t \in 1..issued' : Kept(t)'
      /\ In(Acknowledged)' = In(Acknowledged) \cup (IF o \in Acknowledged THEN {m.tx} ELSE {})
      /\ m.tx \in Tx /\ m.tx \notin In(Acknowledged) /\ rows'[m.tx].seq = m.body.seq
      /\ \A t \in In(Acknowledged) : rows'[t].seq = rows[t].seq
      /\ \A n \in Request : InHand(n) /\ n.tx # m.tx => InHand(n)'
  BY <1>2, <1>3, <1>4, MarkedCounts
<1>6. running \in Nat /\ running + 1 # None /\ accepted \in Nat
  BY <1>2, NoneAssumption, OutboxBounds DEF OfflineInv, FieldTypes, Numbers
<1>7. Counted' /\ running' # None /\ accepted' <= running'
  <2>1. CASE o \in Acknowledged
    <3>1. running' = running + 1
      BY <1>2, <1>4, <2>1
    <3>2. Reached = running /\ Reached' = running + 1
      BY <1>2, <1>6, <3>1 DEF Reached
    <3>3. In(Acknowledged)' = In(Acknowledged) \cup {m.tx} /\ rows'[m.tx].seq = Reached + 1
      BY <1>2, <1>5, <2>1, <3>2
    <3>4. Counted'
      BY <1>5, <3>2, <3>3, CountedMore DEF OfflineInv, ClientInv
    <3>5. accepted <= running
      BY <1>2 DEF ClientInv
    <3>6. QED
      BY <1>4, <1>6, <3>1, <3>4, <3>5
  <2>2. CASE o \notin Acknowledged
    <3>1. Reached' = Reached /\ In(Acknowledged)' = In(Acknowledged)
      BY <1>2, <1>4, <1>5, <2>2 DEF Reached
    <3>2. QED
      BY <1>2, <1>4, <1>5, <2>2, <3>1, CountedStays DEF ClientInv
  <2>3. QED
    BY <2>1, <2>2
<1>8. \A i \in DOMAIN todo : todo[i] \in Request
  BY ElementOfSeq, LenProperties DEF OfflineInv, FieldTypes
<1>9. \A i \in DOMAIN todo : InHand(todo[i]) /\ todo[i].tx # m.tx
  BY <1>1, <1>2 DEF ClientInv, InOrder
<1>10. \A i \in DOMAIN todo' : InHand(todo[i])'
  BY <1>4, <1>5, <1>8, <1>9 DEF InHand
<1>11. InOrder'
  BY <1>4, <1>10 DEF ClientInv, InOrder
<1>12. QED
  BY <1>4, <1>5, <1>7, <1>11 DEF ClientInv

LEMMA EndFlush_Counts == ASSUME OfflineInv, ClientInv, EndFlush PROVE ClientInv'
<1>1. running # None /\ todo = <<>> /\ sent = None /\ running' = None
      /\ UNCHANGED <<rows, issued, draft, replaying, sent, todo>>
  BY DEF EndFlush, durable
<1>2. Highest(rows, Acknowledged) = running
  BY <1>1, HighestCounted DEF OfflineInv, ClientInv, Reached
<1>3. accepted \in Nat /\ running \in Nat /\ accepted <= running
  BY <1>1, OutboxBounds DEF OfflineInv, FieldTypes, Numbers, ClientInv
<1>4. accepted' = running
  BY <1>2, <1>3, LargerOf DEF EndFlush
<1>5. Reached' = Reached
  BY <1>1, <1>4 DEF Reached
<1>6. Counted' /\ \A t \in 1..issued' : Kept(t)'
  BY <1>1, <1>5, Unmarked
<1>7. InOrder'
  BY <1>1 DEF InOrder
<1>8. QED
  BY <1>1, <1>6, <1>7 DEF ClientInv

LEMMA ClientNext ==
    ASSUME Steady, OfflineInv, OfflineInv', ClientCounts, [Next]_vars PROVE ClientCounts'
<1> SUFFICES ASSUME touched' = {} PROVE ClientInv'
  BY DEF ClientCounts
<1>1. ASSUME touched' = touched PROVE ClientInv
  BY <1>1 DEF ClientCounts
<1>2. CASE Local /\ UNCHANGED <<serverVars, touched>>
  <2>1. ClientInv
    BY <1>1, <1>2
  <2>2. CASE (\E t \in Tx : OpenSheet(t)) \/ CloseSheet \/ Expire
    BY <2>1, <2>2, Idle_Counts DEF OpenSheet, CloseSheet, Expire, durable, ClientInv
  <2>3. ~BeginInspection /\ ~QueueEdited /\ ~ClearApplied
    BY <2>1 DEF BeginInspection, QueueEdited, ClearApplied, ClientInv, Steady
  <2>4. QED
    BY <1>2, <2>1, <2>2, <2>3, QueueForSync_Counts, RetryFailedOutbox_Counts, FlushOutbox_Counts,
       HoldLocally_Counts, EndFlush_Counts, Restart_Counts DEF Local
<1>3. CASE Touching
  BY <1>3 DEF Touching, ClearFailures
<1>4. CASE Sends
  <2>1. ClientInv /\ ~Replay
    BY <1>1, <1>4 DEF Sends, Replay, Steady
  <2>2. QED
    BY <1>4, <2>1, Submit_Counts DEF Sends
<1>5. CASE Network
  <2>1. ClientInv
    BY <1>1, <1>5
       DEF Network, Delivered, ServedLate, TimesOut, Refused, Lose, ResponseExpires, Lapse
  <2>2. CASE UNCHANGED fieldVars
    BY <2>1, <2>2, Idle_Counts DEF fieldVars, durable, session, ClientInv
  <2>3. ASSUME NEW a \in Answers, Delivered(a) PROVE ClientInv'
    BY <2>1, <2>3, Answered_Counts DEF Delivered
  <2>4. CASE TimesOut
    BY <2>1, <2>4, Answered_Counts DEF TimesOut
  <2>5. CASE Refused
    BY <2>1, <2>5, Answered_Counts DEF Refused, Answers
  <2>6. QED
    BY <1>5, <2>2, <2>3, <2>4, <2>5 DEF Network, ServedLate, Lose, ResponseExpires, Lapse
<1>6. CASE UNCHANGED vars
  BY <1>1, <1>6, Idle_Counts DEF vars, fieldVars, durable, session, ClientInv
<1>7. QED
  BY <1>2, <1>3, <1>4, <1>5, <1>6 DEF Next

-----------------------------------------------------------------------------
(* The states of FieldOutbox and of the server stay what TypeOK says.       *)
THEOREM OfflineTypeCorrect == Spec => []TypeOK
  BY AlwaysOfflineInv, AlwaysClockTypes, OfflineInv_Types, PTL

(* An entry the application shows as applied was applied by the server,     *)
(* with the payload it shows unless the operator unsealed it: neither a     *)
(* late answer, nor a cached one, nor the mark of a row that changed under  *)
(* the flush (SyncClient.flush, _mark), nor a restart, under the cached     *)
(* session or a new one, acknowledges work that /sync does not have, while  *)
(* requests signed under an earlier authority are still served.             *)
THEOREM AcknowledgedWasApplied == Spec => []AcknowledgedIsApplied
<1>1. OfflineInv /\ PayloadInv => AcknowledgedIsApplied
  BY DEF OfflineInv, AckedOnServer, PayloadInv, AcknowledgedIsApplied, OnServer, In, Live
<1>2. QED
  BY <1>1, AlwaysOfflineInv, AlwaysPayloadInv, PTL

(* Captured work stays in the outbox, under a state the next retry picks up *)
(* or on the server, until the operator edits or clears it: neither a purge *)
(* of the acknowledged entries, nor reconcileOutboxIdentities, nor any      *)
(* answer drops it.                                                         *)
THEOREM WorkIsNeverLost == Spec => []WorkIsKept
<1>1. OfflineInv => WorkIsKept
  BY DEF OfflineInv
<1>2. QED
  BY <1>1, AlwaysOfflineInv, PTL

(* Once everything is acknowledged and nothing is under way, the next       *)
(* number the application signs is the one /sync expects: for an operator   *)
(* who neither purges the acknowledged entries, nor replays one, nor        *)
(* retries during a flush, and as long as nothing is unsealed or cleared.   *)
(* Each of the three lets one number stand for two entries, or for none.    *)
THEOREM WatermarksMeet ==
    ASSUME Operations \cap {"purge", "replay", "retry_in_flush"} = {}
    PROVE  Spec => []WatermarksAgree
<1>1. Steady
  BY DEF Steady
<1>2. Spec => []ClientCounts
  <2>1. Init => ClientCounts
    BY ClientInit
  <2>2. OfflineInv /\ OfflineInv' /\ ClientCounts /\ [Next]_vars => ClientCounts'
    BY <1>1, ClientNext
  <2>3. QED
    BY <2>1, <2>2, AlwaysOfflineInv, PTL DEF Spec
<1>3. OfflineInv /\ PayloadInv /\ ServerCounts /\ ClientCounts => WatermarksAgree
  <2> SUFFICES ASSUME OfflineInv, PayloadInv, ServerCounts, ClientCounts, Quiet, touched = {}
               PROVE  accepted = last
    BY DEF WatermarksAgree
  <2>1. ClientInv /\ Reached = accepted
    BY DEF ClientCounts, Quiet, Reached
  <2>2. ASSUME NEW t \in Applied PROVE t \in In(Acknowledged)
    <3>1. t \in Tx /\ t \in 1..issued
      BY OutboxBounds DEF Applied, OnServer, PayloadInv, Tx, OfflineInv, FieldTypes
    <3>2. t \in Live /\ rows[t].state \in State \ {"abandoned"}
      BY <2>1, <3>1 DEF ClientInv, Kept, Live, OfflineInv, FieldTypes, Table, Row
    <3>3. t \notin In(Pending \cup Failure)
      BY DEF Quiet
    <3>4. QED
      BY <3>2, <3>3 DEF In, State
  <2>3. In(Acknowledged) = Applied
    BY <2>2 DEF OfflineInv, AckedOnServer, Applied, In, Live
  <2>4. QED
    BY <2>1, <2>3 DEF ClientInv, Counted, ServerCounts
<1>4. QED
  BY <1>2, <1>3, AlwaysOfflineInv, AlwaysPayloadInv, AlwaysServerCounts, PTL
=============================================================================
