------------------------- MODULE SyncLedgerProofs -------------------------
(***************************************************************************)
(* The ledger: the accepted envelopes of every device were signed for the  *)
(* sequences 1..last_accepted_sequence, one each, whatever clients sign,   *)
(* re-sign and repeat, and the in-memory watermark leads the table only at *)
(* a number of a re-signed and applied mutation.  The tables alone give    *)
(* the first part, whatever the handlers race; the second needs that a     *)
(* drain owns p.mu.                                                        *)
(***************************************************************************)
EXTENDS SyncProcessorProofs, SequenceTheorems

(* A receipt is the one of its transaction, and a held row belongs to one, *)
(* under a device the transaction was signed for.                          *)
TablesConsistent ==
    /\ \A t \in Tx : Exists(t) => receipt[t].tx = t
    /\ \A t \in Tx : heldRow[t] # None =>
          Exists(t) /\ heldRow[t].env.tx = t /\ SignedFor(t, heldRow[t].dev)

(* What handler q's drain applies is a transaction signed for its device,   *)
(* and either the envelope it picked or the receipt carries the next        *)
(* number.                                                                  *)
PickedNext(q) ==
    /\ SignedFor(cand[q].tx, env[q].dev)
    /\ \E e \in Envelopes : /\ e.tx = cand[q].tx
                            /\ e.seq = lastSequence[env[q].dev] + 1
                            /\ e = cand[q] \/ e = receipt[e.tx]

(* Only a handler that owns p.mu drains. *)
DrainExclusive ==
    \A q \in Req :
        /\ pc[q] \in Draining => mu = q
        /\ pc[q] \in {"drainSelect", "drainCommit"} => PickedNext(q)

LedgerInv == TablesConsistent /\ LedgerExact

(* Every write of the tables is one of the two commits. *)
Commits ==
    \E e \in Envelopes, b \in BOOLEAN :
        /\ b => Recorded(e)
        /\ \/ ReceiptAccepted(e, b) /\ CommitReceipt(e, b)
           \/ (b \/ MayInsert(e)) /\ CommitHold(e, b)

(* Every step commits one receipt, commits one hold, or leaves the tables *)
(* alone, whichever handler takes it and under whichever lock.            *)
LEMMA TableWrites ==
    ASSUME TypeInv, DurableInv, [Next]_vars
    PROVE  UNCHANGED durable \/ Commits
<1>1. ASSUME NEW r \in Req, PersistReceipt(r)
      PROVE  UNCHANGED durable \/ Commits
  BY <1>1 DEF PersistReceipt, Commits, TypeInv, TypeOK, Carrying, DurableInv, Backed
<1>2. ASSUME NEW r \in Req, PersistHold(r)
      PROVE  UNCHANGED durable \/ Commits
  BY <1>2 DEF PersistHold, Commits, TypeInv, TypeOK, Carrying, DurableInv, Backed
<1>3. ASSUME NEW r \in Req, DrainCommit(r)
      PROVE  UNCHANGED durable \/ Commits
  BY <1>3 DEF DrainCommit, Commits, TypeInv, TypeOK, Carrying, DurableInv, Backed
<1>4. ASSUME NEW r \in Req, CommitUnacknowledged(r)
      PROVE  UNCHANGED durable \/ Commits
  BY <1>4 DEF CommitUnacknowledged, Commits, TypeInv, TypeOK, Carrying, DurableInv, Backed
<1>5. ASSUME NEW r \in Req, Handle(r), ~PersistReceipt(r), ~PersistHold(r), ~DrainCommit(r)
      PROVE  UNCHANGED durable
  BY <1>5 DEF Handle, BeginSubmit, LookupReceipt, LookupMemory, CheckSequence, SelectReceipt, PublishApplied,
              SelectHold, PublishHeld, DrainLock, DrainScan, DrainSelect, Respond
<1> QED BY <1>1, <1>2, <1>3, <1>4, <1>5
        DEF Next, vars, Receive, DatabaseFails, Restart, SaveRevocation, RevokeDevice

(* What is logged are envelopes, and an accepted receipt adds its own. *)
LEMMA LoggedTyped ==
    ASSUME TypeOK
    PROVE  Logged \subseteq Envelopes
<1>1. \A d \in Device : ledger[d] \in Seq(Envelopes)
  BY DEF TypeOK, Ledgers
<1>2. \A d \in Device : \A n \in DOMAIN ledger[d] : ledger[d][n] \in Envelopes
  BY <1>1
<1> QED BY <1>2 DEF Logged

LEMMA LoggedExtended ==
    ASSUME TypeOK, NEW e \in Envelopes, NEW b, CommitReceipt(e, b)
    PROVE  /\ Logged' = Logged \cup {e}
           /\ \A d \in Device \ {e.dev} : ledger'[d] = ledger[d]
           /\ Len(ledger'[e.dev]) = Len(ledger[e.dev]) + 1
           /\ Len(ledger[e.dev]) \in Nat
           /\ \A n \in 1..Len(ledger[e.dev]) : ledger'[e.dev][n] = ledger[e.dev][n]
           /\ ledger'[e.dev][Len(ledger[e.dev]) + 1] = e
<1>1. e.dev \in Device /\ ledger \in [Device -> Seq(Envelopes)]
  BY EnvelopesAssumption DEF Envelope, TypeOK, Ledgers
<1> DEFINE s == ledger[e.dev]
<1>2. s \in Seq(Envelopes) /\ ledger' = [ledger EXCEPT ![e.dev] = Append(s, e)]
  BY <1>1 DEF CommitReceipt
<1>3. ledger'[e.dev] = Append(s, e) /\ \A d \in Device \ {e.dev} : ledger'[d] = ledger[d]
  BY <1>1, <1>2
<1> HIDE DEF s
<1>4. /\ Len(Append(s, e)) = Len(s) + 1 /\ Len(s) \in Nat
      /\ \A n \in 1..Len(s) : Append(s, e)[n] = s[n]
      /\ Append(s, e)[Len(s) + 1] = e
      /\ DOMAIN s = 1..Len(s) /\ DOMAIN Append(s, e) = 1..(Len(s) + 1)
  BY <1>2, AppendProperties
<1>5. {Append(s, e)[n] : n \in DOMAIN Append(s, e)} = {s[n] : n \in DOMAIN s} \cup {e}
  BY <1>4
<1> DEFINE L(d) == {ledger[d][n] : n \in DOMAIN ledger[d]}
           M(d) == {ledger'[d][n] : n \in DOMAIN ledger'[d]}
<1>6. M(e.dev) = L(e.dev) \cup {e} /\ \A d \in Device \ {e.dev} : M(d) = L(d)
  BY <1>3, <1>5 DEF s
<1>7. Logged = UNION {L(d) : d \in Device} /\ Logged' = UNION {M(d) : d \in Device}
  BY DEF Logged
<1> HIDE DEF L, M
<1>8. Logged' = Logged \cup {e}
  BY <1>1, <1>6, <1>7
<1> QED BY <1>3, <1>4, <1>8 DEF s

(* A mutation that was never re-signed has one device and sequence. *)
LEMMA SameIdentity ==
    ASSUME NEW e \in Envelopes, NEW f \in Envelopes, e.tx = f.tx, ~Resigned(e.tx)
    PROVE  e.dev = f.dev /\ e.seq = f.seq
<1>1. <<e.dev, e.seq>> = <<f.dev, f.seq>>
  BY DEF Resigned
<1> QED BY <1>1

(* Envelopes are records: their fields make them. *)
LEMMA SameEnvelope ==
    ASSUME NEW e \in Envelopes, NEW f \in Envelopes,
           e.tx = f.tx, e.dev = f.dev, e.seq = f.seq, e.hash = f.hash
    PROVE  e = f
<1>1. e \in [tx : Tx, dev : Device, seq : Nat \ {0}, hash : Hash]
      /\ f \in [tx : Tx, dev : Device, seq : Nat \ {0}, hash : Hash]
  BY EnvelopesAssumption DEF Envelope
<1> QED BY <1>1

(* A receipt commits at the end of its device's ledger, in SubmitContext and *)
(* in DrainHeld alike: the row count of the guarded UPDATE sees to it.       *)
LEMMA ReceiptKeepsLedger ==
    ASSUME TypeOK, LedgerInv, NEW e \in Envelopes, NEW b \in BOOLEAN, b => Recorded(e),
           ReceiptAccepted(e, b), CommitReceipt(e, b)
    PROVE  LedgerInv'
<1> e.tx \in Tx /\ e.dev \in Device /\ e.seq \in Nat \ {0} /\ e # None
  BY EnvelopesAssumption, NoneAssumption DEF Envelope
<1>1. /\ receipt' \in [Tx -> Envelopes \cup {None}]
      /\ \A t \in Tx \ {e.tx} : receipt'[t] = receipt[t]
      /\ receipt'[e.tx] \in Envelopes /\ receipt'[e.tx].tx = e.tx
      /\ Exists(e.tx)'
  BY NoneAssumption, EnvelopesAssumption
     DEF TypeOK, CommitReceipt, ReceiptAccepted, MayInsert, Recorded, Exists, LedgerInv, TablesConsistent
<1>2. RowsKept /\ Accepted(e)'
  BY ReceiptCommitted
<1>3. TablesConsistent'
  <2>1. \A t \in Tx : Exists(t)' => receipt'[t].tx = t
    BY <1>1 DEF LedgerInv, TablesConsistent, Exists
  <2>2. ASSUME NEW t \in Tx, heldRow'[t] # None
        PROVE  Exists(t)' /\ heldRow'[t].env.tx = t /\ SignedFor(t, heldRow'[t].dev)
    BY <1>1, <2>2 DEF LedgerInv, TablesConsistent, Exists, CommitReceipt, TypeOK
  <2> QED BY <2>1, <2>2 DEF TablesConsistent, SignedFor
<1>4. lastAccepted' = [lastAccepted EXCEPT ![e.dev] = e.seq] /\ lastAccepted[e.dev] + 1 = e.seq
      /\ applied' = applied \cup {e.tx}
  BY DEF CommitReceipt, ReceiptAccepted
<1>5. Logged \subseteq Envelopes /\ Logged' = Logged \cup {e}
  BY LoggedTyped, LoggedExtended
<1>6. ASSUME NEW d \in Device
      PROVE  /\ Len(ledger'[d]) = lastAccepted'[d]
             /\ \A n \in 1..lastAccepted'[d] : ledger'[d][n].dev = d /\ ledger'[d][n].seq = n
  <2>1. /\ Len(ledger[d]) = lastAccepted[d]
        /\ \A n \in 1..lastAccepted[d] : ledger[d][n].dev = d /\ ledger[d][n].seq = n
    BY DEF LedgerInv, LedgerExact
  <2>2. CASE d = e.dev
    <3>1. lastAccepted'[d] = lastAccepted[d] + 1 /\ lastAccepted[d] \in Nat
      BY <1>4, <2>2 DEF TypeOK
    <3>2. /\ Len(ledger'[d]) = lastAccepted'[d]
          /\ \A n \in 1..lastAccepted[d] : ledger'[d][n] = ledger[d][n]
          /\ ledger'[d][lastAccepted[d] + 1] = e
      BY <2>1, <2>2, <3>1, LoggedExtended
    <3>3. ASSUME NEW n \in 1..lastAccepted'[d]
          PROVE  ledger'[d][n].dev = d /\ ledger'[d][n].seq = n
      <4>1. CASE n = lastAccepted[d] + 1
        BY <1>4, <2>2, <3>2, <4>1
      <4>2. CASE n # lastAccepted[d] + 1
        <5>1. n \in 1..lastAccepted[d]
          BY <3>1, <4>2
        <5> QED BY <2>1, <3>2, <5>1
      <4> QED BY <4>1, <4>2
    <3> QED BY <3>2, <3>3
  <2>3. CASE d # e.dev
    BY <1>4, <2>1, <2>3, LoggedExtended DEF TypeOK
  <2> QED BY <2>2, <2>3
<1>7. applied' = {f.tx : f \in Logged'}
  BY <1>4, <1>5 DEF LedgerInv, LedgerExact
<1>8. ASSUME NEW f \in Logged'
      PROVE  Recorded(f)'
  BY <1>2, <1>5, <1>8, Kept DEF LedgerInv, LedgerExact, Accepted
<1>9. ASSUME NEW t \in applied', ~Resigned(t)
      PROVE  receipt'[t] \in Logged'
  <2>1. CASE t \in applied
    <3>1. receipt[t] \in Logged
      BY <1>9, <2>1 DEF LedgerInv, LedgerExact
    <3>2. receipt[t] # None /\ t \in Tx
      BY <1>5, <2>1, <3>1, EnvelopesAssumption, NoneAssumption DEF TypeOK
    <3> QED BY <1>2, <1>5, <3>1, <3>2 DEF RowsKept, Exists
  <2>2. CASE t \notin applied
    <3>1. t = e.tx
      BY <1>4, <2>2
    <3>2. receipt'[t].hash = e.hash
      BY <1>2, <3>1 DEF Accepted, Recorded
    <3>3. receipt'[t] = e
      BY <1>1, <1>9, <3>1, <3>2, SameIdentity, SameEnvelope
    <3> QED BY <1>5, <3>3
  <2> QED BY <2>1, <2>2
<1>10. LedgerExact'
  BY <1>6, <1>7, <1>8, <1>9 DEF LedgerExact, Resigned
<1> QED BY <1>3, <1>10 DEF LedgerInv

(* A hold leaves the ledger alone. *)
LEMMA HoldKeepsLedger ==
    ASSUME TypeOK, LedgerInv, NEW e \in Envelopes, NEW b \in BOOLEAN, b => Recorded(e),
           b \/ MayInsert(e), CommitHold(e, b)
    PROVE  LedgerInv'
<1> e.tx \in Tx /\ e.dev \in Device /\ e.seq \in Nat \ {0} /\ e # None
  BY EnvelopesAssumption, NoneAssumption DEF Envelope
<1>1. /\ \A t \in Tx \ {e.tx} : receipt'[t] = receipt[t]
      /\ receipt'[e.tx] \in Envelopes /\ receipt'[e.tx].tx = e.tx
      /\ Exists(e.tx)'
  BY NoneAssumption, EnvelopesAssumption
     DEF TypeOK, CommitHold, MayInsert, Recorded, Exists, LedgerInv, TablesConsistent
<1>2. RowsKept
  BY HoldCommitted
<1>3. TablesConsistent'
  <2>1. \A t \in Tx : Exists(t)' => receipt'[t].tx = t
    BY <1>1 DEF LedgerInv, TablesConsistent, Exists
  <2>2. ASSUME NEW t \in Tx, heldRow'[t] # None
        PROVE  Exists(t)' /\ heldRow'[t].env.tx = t /\ SignedFor(t, heldRow'[t].dev)
    <3>1. CASE t # e.tx
      BY <1>1, <2>2, <3>1 DEF LedgerInv, TablesConsistent, Exists, CommitHold, TypeOK
    <3>2. CASE t = e.tx
      <4>1. heldRow'[t].env = e
        BY <3>2 DEF CommitHold, TypeOK
      <4>2. heldRow[t] = None => heldRow'[t].dev = e.dev
        BY <3>2 DEF CommitHold, TypeOK
      <4>3. heldRow[t] # None => heldRow'[t].dev = heldRow[t].dev
        BY <3>2 DEF CommitHold, TypeOK
      <4>4. SignedFor(t, e.dev)
        BY <3>2 DEF SignedFor
      <4> QED BY <1>1, <3>2, <4>1, <4>2, <4>3, <4>4 DEF LedgerInv, TablesConsistent
    <3> QED BY <3>1, <3>2
  <2> QED BY <2>1, <2>2 DEF TablesConsistent, SignedFor
<1>4. LedgerExact'
  <2>1. applied' = applied /\ lastAccepted' = lastAccepted /\ ledger' = ledger /\ Logged' = Logged
    BY DEF CommitHold, Logged
  <2>2. \A f \in Logged : Recorded(f)'
    BY <1>2, LoggedTyped, Kept DEF LedgerInv, LedgerExact
  <2>3. ASSUME NEW t \in applied, ~Resigned(t)
        PROVE  receipt'[t] \in Logged
    <3>1. receipt[t] \in Logged
      BY <2>3 DEF LedgerInv, LedgerExact
    <3>2. receipt[t] # None /\ t \in Tx
      BY <2>3, <3>1, LoggedTyped, EnvelopesAssumption, NoneAssumption DEF TypeOK
    <3> QED BY <1>2, <3>1, <3>2 DEF RowsKept, Exists
  <2> QED BY <2>1, <2>2, <2>3 DEF LedgerInv, LedgerExact, Resigned
<1> QED BY <1>3, <1>4 DEF LedgerInv

(* So every step keeps the ledger exact. *)
LEMMA NextLedger ==
    ASSUME TypeInv, DurableInv, LedgerInv, [Next]_vars
    PROVE  LedgerInv'
<1>1. CASE UNCHANGED durable
  BY <1>1 DEF durable, LedgerInv, TablesConsistent, LedgerExact, Exists, Logged, Recorded, Resigned, SignedFor
<1>2. CASE Commits
  BY <1>2, ReceiptKeepsLedger, HoldKeepsLedger DEF Commits, TypeInv
<1> QED BY <1>1, <1>2, TableWrites

(* The ledger invariant is inductive. *)
LEMMA LedgerInductive == Spec => [](TypeInv /\ DurableInv /\ LedgerInv)
<1>1. Init => LedgerInv
  <2>1. Init => Logged = {}
    BY DEF Init, Logged
  <2>2. Init => LedgerExact
    BY <2>1 DEF Init, LedgerExact
  <2> QED BY <2>2 DEF Init, LedgerInv, TablesConsistent, Exists
<1>2. Init => TypeInv /\ DurableInv
  BY InitDurable
<1>3. TypeInv /\ DurableInv /\ LedgerInv /\ [Next]_vars => (TypeInv /\ DurableInv /\ LedgerInv)'
  BY NextTyped, NextDurable, NextLedger
<1> QED BY <1>1, <1>2, <1>3, PTL DEF Spec

(* Nothing is lost or applied out of order, and a mutation that was never *)
(* re-signed is applied once.                                             *)
THEOREM LedgerCorrect == Spec => []LedgerExact
<1>1. TypeInv /\ DurableInv /\ LedgerInv => LedgerExact
  BY DEF LedgerInv
<1> QED BY <1>1, LedgerInductive, PTL

(* An applied payload has consumed a sequence, and the envelope that was   *)
(* never re-signed its own.                                                *)
LEMMA AcceptedIsConsumed ==
    ASSUME TypeOK, LedgerInv, NEW e \in Envelopes, Accepted(e)
    PROVE  \E f \in Logged : f.tx = e.tx /\ f.hash = e.hash /\ (f = e \/ Resigned(f.tx))
<1>1. PICK f \in Logged : f.tx = e.tx
  BY DEF Accepted, LedgerInv, LedgerExact
<1>2. f \in Envelopes /\ f.hash = e.hash
  BY <1>1, LoggedTyped DEF Accepted, Recorded, LedgerInv, LedgerExact
<1>3. ~Resigned(f.tx) => f = e
  BY <1>1, <1>2, SameIdentity, SameEnvelope
<1> QED BY <1>1, <1>2, <1>3

(* The client may number its next mutation after an acknowledged one. *)
THEOREM AcknowledgedConsumed == Spec => []AcknowledgedIsConsumed
<1>1. TypeInv /\ DurableInv /\ LedgerInv => AcknowledgedIsConsumed
  BY AcceptedIsConsumed DEF TypeInv, TypeOK, DurableInv, AnswersAreDurable, AcknowledgedIsConsumed
<1> QED BY <1>1, LedgerInductive, PTL

-----------------------------------------------------------------------------
(* The in-memory watermark.  A handler that drains owns p.mu, so what it    *)
(* picked is still next when it publishes it, and nobody moves the          *)
(* watermark meanwhile.                                                     *)
WatermarkInv == DrainExclusive /\ WatermarkBacked

(* What the drain may pick was signed for its device, and it, or the receipt *)
(* it was found by, carries the next sequence.                               *)
LEMMA CandidatesNext ==
    ASSUME TypeOK, LedgerInv, NEW d \in Device, NEW e \in Candidates(d)
    PROVE  /\ SignedFor(e.tx, d)
           /\ \E f \in Envelopes : /\ f.tx = e.tx /\ f.seq = lastSequence[d] + 1
                                   /\ f = e \/ f = receipt[f.tx]
<1> DEFINE n == lastSequence[d] + 1
<1>1. CASE e \in HeldInMemory(d, n)
  <2>1. e \in Envelopes /\ e.dev = d /\ e.seq = n
    BY <1>1 DEF HeldInMemory, TypeOK
  <2> QED BY <2>1 DEF SignedFor
<1>2. CASE e \in HeldInDatabase(d, n)
  <2>1. PICK t \in Tx : heldRow[t] # None /\ heldRow[t].dev = d /\ receipt[t].seq = n /\ e = heldRow[t].env
    BY <1>2 DEF HeldInDatabase
  <2>2. receipt[t] \in Envelopes /\ receipt[t].tx = t /\ e.tx = t /\ SignedFor(t, d)
    BY <2>1 DEF TypeOK, LedgerInv, TablesConsistent, Exists
  <2> QED BY <2>1, <2>2
<1> QED BY <1>1, <1>2 DEF Candidates

(* Every step keeps the receipts. *)
LEMMA NextKeepsRows ==
    ASSUME TypeInv, DurableInv, [Next]_vars
    PROVE  RowsKept
BY TableWrites, TablesUnchanged, ReceiptCommitted, HoldCommitted DEF Commits, TypeInv

(* last_accepted_sequence never decreases. *)
LEMMA SequenceGrows ==
    ASSUME TypeInv, DurableInv, [Next]_vars
    PROVE  \A d \in Device : lastAccepted[d] <= lastAccepted'[d]
<1>1. CASE UNCHANGED durable
  BY <1>1 DEF durable, TypeInv, TypeOK
<1>2. CASE Commits
  <2>1. PICK e \in Envelopes :
           \/ lastAccepted[e.dev] + 1 = e.seq /\ lastAccepted' = [lastAccepted EXCEPT ![e.dev] = e.seq]
           \/ lastAccepted' = lastAccepted
    BY <1>2 DEF Commits, CommitReceipt, ReceiptAccepted, CommitHold
  <2>2. lastAccepted \in [Device -> Nat]
    BY DEF TypeInv, TypeOK
  <2> QED BY <2>1, <2>2
<1> QED BY <1>1, <1>2, TableWrites

(* What a drain picked stays next while the watermark stands. *)
LEMMA PickedKept ==
    ASSUME RowsKept, UNCHANGED lastSequence, NEW q \in Req, cand'[q] = cand[q], env'[q] = env[q],
           PickedNext(q)
    PROVE  PickedNext(q)'
<1>1. PICK e \in Envelopes : /\ e.tx = cand[q].tx /\ e.seq = lastSequence[env[q].dev] + 1
                             /\ e = cand[q] \/ e = receipt[e.tx]
  BY DEF PickedNext
<1>2. e.tx \in Tx /\ e # None
  BY EnvelopesAssumption, NoneAssumption DEF Envelope
<1>3. e = receipt[e.tx] => e = receipt'[e.tx]
  BY <1>2 DEF RowsKept, Exists
<1> QED BY <1>1, <1>3 DEF PickedNext, SignedFor

(* A watermark that stands stays backed. *)
LEMMA WatermarkStands ==
    ASSUME TypeOK, TypeOK', RowsKept, WatermarkBacked, UNCHANGED lastSequence,
           \A d \in Device : lastAccepted[d] <= lastAccepted'[d]
    PROVE  WatermarkBacked'
<1> SUFFICES ASSUME NEW d \in Device, lastSequence'[d] > lastAccepted'[d]
             PROVE  \E e \in Envelopes : /\ Accepted(e)' /\ e.seq = lastSequence'[d]
                                         /\ Resigned(e.tx) /\ SignedFor(e.tx, d)
  BY DEF WatermarkBacked, Resigned, SignedFor
<1>1. lastSequence[d] > lastAccepted[d]
  BY DEF TypeOK
<1> QED BY <1>1, Kept DEF WatermarkBacked

(* The watermark may be moved to the number of an applied envelope whose   *)
(* transaction was signed for the device: if it was never re-signed, that  *)
(* is the number of its receipt, which is logged.                          *)
LEMMA WatermarkMoves ==
    ASSUME TypeOK, TypeOK', LedgerInv', RowsKept, WatermarkBacked,
           \A d \in Device : lastAccepted[d] <= lastAccepted'[d],
           NEW c \in Device, NEW e \in Envelopes, Accepted(e)', SignedFor(e.tx, c),
           lastSequence' = [lastSequence EXCEPT ![c] = e.seq]
    PROVE  WatermarkBacked'
<1> SUFFICES ASSUME NEW d \in Device, lastSequence'[d] > lastAccepted'[d]
             PROVE  \E f \in Envelopes : /\ Accepted(f)' /\ f.seq = lastSequence'[d]
                                         /\ Resigned(f.tx) /\ SignedFor(f.tx, d)
  BY DEF WatermarkBacked, Resigned, SignedFor
<1>1. CASE d # c
  <2>1. lastSequence[d] > lastAccepted[d]
    BY <1>1 DEF TypeOK
  <2>2. lastSequence'[d] = lastSequence[d]
    BY <1>1 DEF TypeOK
  <2> QED BY <2>1, <2>2, Kept DEF WatermarkBacked
<1>2. CASE d = c
  <2>1. lastSequence'[d] = e.seq
    BY <1>2 DEF TypeOK
  <2>2. ASSUME ~Resigned(e.tx)
        PROVE  FALSE
    <3>1. PICK f \in Envelopes : f.tx = e.tx /\ f.dev = d
      BY <1>2 DEF SignedFor
    <3>2. e.dev = d
      BY <2>2, <3>1, SameIdentity
    <3>3. e.tx \in Tx /\ e.tx \in applied' /\ receipt'[e.tx] \in Envelopes /\ receipt'[e.tx].tx = e.tx
      BY EnvelopesAssumption DEF Accepted, Recorded, Exists, TypeOK, LedgerInv, TablesConsistent, Envelope
    <3>4. receipt'[e.tx].dev = d /\ receipt'[e.tx].seq = e.seq
      BY <2>2, <3>2, <3>3, SameIdentity
    <3>5. receipt'[e.tx] \in Logged'
      BY <2>2, <3>3 DEF LedgerInv, LedgerExact, Resigned
    <3>0. PICK b \in Device : receipt'[e.tx] \in {ledger'[b][m] : m \in DOMAIN ledger'[b]}
      BY <3>5 DEF Logged
    <3>6. PICK n \in DOMAIN ledger'[b] : ledger'[b][n] = receipt'[e.tx]
      BY <3>0
    <3>7. ledger'[b] \in Seq(Envelopes) /\ Len(ledger'[b]) = lastAccepted'[b]
      BY DEF TypeOK, Ledgers, LedgerInv, LedgerExact
    <3>8. n \in 1..lastAccepted'[b]
      BY <3>6, <3>7
    <3>9. b = d /\ n = e.seq
      BY <3>4, <3>6, <3>8 DEF LedgerInv, LedgerExact
    <3> QED BY <2>1, <3>8, <3>9 DEF TypeOK
  <2> QED BY <1>2, <2>1, <2>2
<1> QED BY <1>1, <1>2

(* A step of handler r that publishes nothing. *)
LEMMA WatermarkFrame ==
    ASSUME TypeInv, TypeInv', RowsKept, WatermarkInv, NEW r \in Req, OthersUntouched(r),
           UNCHANGED lastSequence, \A d \in Device : lastAccepted[d] <= lastAccepted'[d],
           mu' = mu \/ mu \in {r, None},
           pc'[r] \in Draining => mu' = r,
           pc'[r] \in {"drainSelect", "drainCommit"} => PickedNext(r)'
    PROVE  WatermarkInv'
<1>1. WatermarkBacked'
  BY WatermarkStands DEF TypeInv, WatermarkInv
<1>2. ASSUME NEW q \in Req
      PROVE  /\ pc'[q] \in Draining => mu' = q
             /\ pc'[q] \in {"drainSelect", "drainCommit"} => PickedNext(q)'
  <2>1. CASE q = r
    BY <2>1
  <2>2. CASE q # r
    <3>1. pc'[q] = pc[q] /\ cand'[q] = cand[q] /\ env'[q] = env[q]
      BY <2>2 DEF OthersUntouched, Untouched
    <3>2. pc[q] \in Draining => mu = q
      BY DEF WatermarkInv, DrainExclusive
    <3>3. pc[q] \in {"drainSelect", "drainCommit"} => PickedNext(q)
      BY DEF WatermarkInv, DrainExclusive
    <3>4. pc[q] \in Draining => mu' = q
      BY <2>2, <3>2, NoneAssumption
    <3>5. PickedNext(q) => PickedNext(q)'
      BY <3>1, PickedKept
    <3> QED BY <3>1, <3>3, <3>4, <3>5
  <2> QED BY <2>1, <2>2
<1> QED BY <1>1, <1>2 DEF WatermarkInv, DrainExclusive

(* A step of handler r that publishes the sequence of an applied envelope, *)
(* when nobody else drains.                                                *)
LEMMA WatermarkPublished ==
    ASSUME TypeInv, TypeInv', LedgerInv', RowsKept, WatermarkInv, NEW r \in Req, OthersUntouched(r),
           \A d \in Device : lastAccepted[d] <= lastAccepted'[d],
           NEW c \in Device, NEW e \in Envelopes, Accepted(e)', SignedFor(e.tx, c),
           lastSequence' = [lastSequence EXCEPT ![c] = e.seq],
           mu' = mu, mu \in {r, None},
           pc'[r] \in Draining => mu = r,
           pc'[r] \notin {"drainSelect", "drainCommit"}
    PROVE  WatermarkInv'
<1>1. WatermarkBacked'
  BY WatermarkMoves DEF TypeInv, WatermarkInv
<1>2. ASSUME NEW q \in Req
      PROVE  /\ pc'[q] \in Draining => mu' = q
             /\ pc'[q] \notin {"drainSelect", "drainCommit"}
  <2>1. CASE q = r
    BY <2>1
  <2>2. CASE q # r
    BY <2>2, NoneAssumption DEF OthersUntouched, Untouched, WatermarkInv, DrainExclusive, Draining
  <2> QED BY <2>1, <2>2
<1> QED BY <1>1, <1>2 DEF WatermarkInv, DrainExclusive

(* Every section of SubmitContext and DrainHeld keeps p.lastSequence backed *)
(* by the tables, and only the holder of p.mu drains.                       *)
LEMMA HandleWatermark ==
    ASSUME TypeInv, TypeInv', DurableInv, LedgerInv, WatermarkInv, NEW r \in Req,
           Handle(r) \/ DatabaseFails(r) \/ CommitUnacknowledged(r)
    PROVE  WatermarkInv'
<1> USE DEF Draining
<1>0. /\ TypeOK /\ Carrying /\ Backed(r) /\ OthersUntouched(r)
      /\ \A d \in Device : lastAccepted[d] <= lastAccepted'[d]
      /\ pc[r] \in Draining => mu = r
      /\ pc[r] \in {"drainSelect", "drainCommit"} => PickedNext(r)
      /\ RowsKept
  BY HandleTouchesOne, SequenceGrows, NextKeepsRows
     DEF TypeInv, DurableInv, WatermarkInv, DrainExclusive, Next
<1>00. LedgerInv'
  BY NextLedger DEF Next
(* Steps that end outside of the drain and touch neither p.mu nor the maps. *)
<1>1. ASSUME UNCHANGED <<lastSequence, mu>>, pc'[r] \notin Draining
      PROVE  WatermarkInv'
  BY <1>0, <1>1, WatermarkFrame
<1>2. CASE BeginSubmit(r) \/ LookupReceipt(r) \/ LookupMemory(r) \/ CheckSequence(r)
  BY <1>0, <1>1, <1>2
     DEF BeginSubmit, LookupReceipt, LookupMemory, CheckSequence, memory, Goto, Answer, Return, TypeOK
<1>3. CASE SelectReceipt(r) \/ PersistReceipt(r) \/ SelectHold(r) \/ PersistHold(r)
  BY <1>0, <1>1, <1>3
     DEF SelectReceipt, PersistReceipt, SelectHold, PersistHold, memory, Goto, Answer, Return, TypeOK
<1>4. CASE PublishHeld(r) \/ Respond(r)
  BY <1>0, <1>1, <1>4 DEF PublishHeld, Respond, memory, Answer, Return, TypeOK
(* The drain leaves p.mu. *)
<1>5. ASSUME UNCHANGED lastSequence, EndDrain(r), mu \in {r, None}
      PROVE  WatermarkInv'
  BY <1>0, <1>5, WatermarkFrame DEF EndDrain, Goto, TypeOK
<1>6. CASE PublishApplied(r)
  <2>1. PICK e \in Envelopes : env[r] = e
    BY <1>0, <1>6 DEF PublishApplied, Carrying
  <2>2. Accepted(e)'
    BY <1>0, <1>6, <2>1, Kept DEF PublishApplied, Backed
  <2>3. e.dev \in Device /\ SignedFor(e.tx, e.dev)
    BY EnvelopesAssumption DEF Envelope, SignedFor
  <2>4. /\ lastSequence' = [lastSequence EXCEPT ![e.dev] = e.seq]
        /\ mu' = mu /\ mu = None /\ pc'[r] = "drain"
    BY <1>0, <1>6, <2>1 DEF PublishApplied, Goto, TypeOK
  <2> QED BY <1>0, <1>00, <2>2, <2>3, <2>4, WatermarkPublished
<1>7. CASE DrainLock(r)
  <2>1. CASE mu' = r /\ Goto(r, "scan")
    BY <1>0, <1>7, <2>1, WatermarkFrame DEF DrainLock, memory, Goto, TypeOK
  <2>2. CASE EndDrain(r)
    BY <1>5, <1>7, <2>2 DEF DrainLock, memory
  <2> QED BY <1>7, <2>1, <2>2 DEF DrainLock
<1>8. CASE DrainScan(r)
  <2>1. ASSUME NEW e \in Candidates(env[r].dev), Pick(r, e), Goto(r, "drainSelect"), UNCHANGED mu
        PROVE  WatermarkInv'
    <3>1. env[r].dev \in Device
      BY <1>0, <1>8, EnvelopesAssumption DEF DrainScan, Carrying, Envelope
    <3>2. /\ SignedFor(e.tx, env[r].dev)
          /\ \E f \in Envelopes : /\ f.tx = e.tx /\ f.seq = lastSequence[env[r].dev] + 1
                                  /\ f = e \/ f = receipt[f.tx]
      BY <1>0, <2>1, <3>1, CandidatesNext
    <3>3. cand'[r] = e /\ env' = env /\ pc'[r] = "drainSelect" /\ UNCHANGED <<lastSequence, receipt>>
      BY <1>0, <1>8, <2>1 DEF DrainScan, memory, durable, Pick, Goto, TypeOK
    <3>4. PickedNext(r)'
      BY <3>2, <3>3 DEF PickedNext, SignedFor
    <3>5. mu' = mu /\ mu = r
      BY <1>0, <1>8, <2>1 DEF DrainScan
    <3> QED BY <1>0, <3>3, <3>4, <3>5, WatermarkFrame
  <2>2. CASE EndDrain(r)
    BY <1>0, <1>5, <1>8, <2>2 DEF DrainScan, memory
  <2> QED BY <1>8, <2>1, <2>2 DEF DrainScan
<1>9. ASSUME pc[r] \in {"drainSelect", "drainCommit"}, PublishDrained(r),
             NEW c \in Envelopes, cand[r] = c, Accepted(c)'
      PROVE  WatermarkInv'
  <2>1. cand[r] \in Envelopes /\ env[r] \in Envelopes /\ env[r].dev \in Device
    BY <1>0, <1>9, EnvelopesAssumption DEF Carrying, Envelope
  <2>2. PICK e \in Envelopes : /\ e.tx = cand[r].tx /\ e.seq = lastSequence[env[r].dev] + 1
                               /\ e = cand[r] \/ e = receipt[e.tx]
    BY <1>0, <1>9 DEF PickedNext
  <2>3. Accepted(e)'
    <3>1. e.tx \in Tx /\ e # None
      BY EnvelopesAssumption, NoneAssumption DEF Envelope
    <3>2. e = receipt[e.tx] => receipt'[e.tx] = e
      BY <1>0, <3>1 DEF RowsKept, Exists
    <3> QED BY <1>9, <2>2, <3>1, <3>2 DEF Accepted, Recorded, Exists
  <2>4. lastSequence' = [lastSequence EXCEPT ![env[r].dev] = e.seq]
    BY <1>9, <2>2 DEF PublishDrained
  <2>5. pc'[r] = "scan" /\ mu' = mu /\ mu = r
    BY <1>0, <1>9 DEF PublishDrained, Goto, TypeOK
  <2>6. SignedFor(e.tx, env[r].dev)
    BY <1>0, <1>9, <2>2 DEF PickedNext
  <2> QED BY <1>0, <1>00, <2>1, <2>3, <2>4, <2>5, <2>6, WatermarkPublished
<1>10. CASE DrainSelect(r)
  <2>1. CASE EndDrain(r) /\ UNCHANGED memory
    BY <1>0, <1>5, <1>10, <2>1 DEF DrainSelect, memory
  <2>2. CASE AlreadyApplied(cand[r]) /\ PublishDrained(r)
    <3>1. PICK e \in Envelopes : e = cand[r]
      BY <1>0, <1>10 DEF DrainSelect, Carrying
    <3>2. Accepted(e)'
      BY <1>0, <1>10, <2>2, <3>1 DEF DrainSelect, AlreadyApplied, Accepted, Recorded, Exists, durable
    <3> QED BY <1>9, <1>10, <2>2, <3>1, <3>2 DEF DrainSelect
  <2>3. CASE Goto(r, "drainCommit") /\ UNCHANGED <<memory, mu, cand>>
    <3>1. cand' = cand /\ env' = env /\ mu' = mu /\ mu = r /\ lastSequence' = lastSequence
      BY <1>0, <1>10, <2>3 DEF DrainSelect, memory, Goto
    <3>2. PickedNext(r)'
      BY <1>0, <1>10, <3>1, PickedKept DEF DrainSelect
    <3> QED BY <1>0, <3>1, <3>2, WatermarkFrame
  <2> QED BY <1>10, <2>1, <2>2, <2>3 DEF DrainSelect
<1>11. CASE DrainCommit(r)
  <2>1. CASE CommitReceipt(cand[r], found[r]) /\ PublishDrained(r)
    <3>1. cand[r] \in Envelopes /\ ReceiptAccepted(cand[r], found[r]) /\ (found[r] => Recorded(cand[r]))
      BY <1>0, <1>11, <2>1 DEF DrainCommit, Carrying, Backed, PublishDrained, EndDrain, Goto, TypeOK
    <3>2. found[r] \in BOOLEAN
      BY <1>0 DEF TypeOK
    <3>3. PICK e \in Envelopes : e = cand[r]
      BY <3>1
    <3>4. Accepted(e)'
      BY <1>0, <2>1, <3>1, <3>2, <3>3, ReceiptCommitted
    <3> QED BY <1>9, <1>11, <2>1, <3>3, <3>4 DEF DrainCommit
  <2>2. CASE EndDrain(r) /\ UNCHANGED memory
    BY <1>0, <1>5, <1>11, <2>2 DEF DrainCommit, memory
  <2> QED BY <1>11, <2>1, <2>2 DEF DrainCommit
<1>12. CASE DatabaseFails(r) \/ CommitUnacknowledged(r)
  <2>1. CASE Return(r, "SECURITY_FAILURE") /\ UNCHANGED mu
    BY <1>0, <1>1, <1>12, <2>1 DEF DatabaseFails, CommitUnacknowledged, memory, Return, Answer, TypeOK
  <2>2. CASE EndDrain(r) /\ pc[r] \in Draining
    BY <1>0, <1>5, <1>12, <2>2 DEF DatabaseFails, CommitUnacknowledged, memory
  <2> QED BY <1>12, <2>1, <2>2 DEF DatabaseFails, CommitUnacknowledged
<1> QED BY <1>2, <1>3, <1>4, <1>6, <1>7, <1>8, <1>10, <1>11, <1>12 DEF Handle

(* So does every step of the system. *)
LEMMA NextWatermark ==
    ASSUME TypeInv, DurableInv, LedgerInv, WatermarkInv, [Next]_vars
    PROVE  WatermarkInv'
<1> USE DEF WatermarkBacked, PickedNext, SignedFor, Accepted, Recorded, Exists
<1>0. TypeInv' /\ TypeOK
  BY NextTyped DEF TypeInv
<1>1. ASSUME NEW r \in Req, Handle(r) \/ DatabaseFails(r) \/ CommitUnacknowledged(r)
      PROVE  WatermarkInv'
  BY <1>0, <1>1, HandleWatermark
<1>2. ASSUME NEW r \in Req, NEW e \in Envelopes, Receive(r, e)
      PROVE  WatermarkInv'
  BY <1>0, <1>2
     DEF Receive, durable, memory, WatermarkInv, DrainExclusive, Draining, TypeOK
<1>3. CASE Restart
  BY <1>0, <1>3 DEF Restart, durable, WatermarkInv, DrainExclusive, Draining, TypeOK
<1>4. ASSUME NEW d \in Revocable, SaveRevocation(d) \/ RevokeDevice(d)
      PROVE  WatermarkInv'
  BY <1>4 DEF SaveRevocation, RevokeDevice, durable, memory, WatermarkInv, DrainExclusive
<1>5. CASE UNCHANGED vars
  BY <1>5 DEF vars, durable, memory, WatermarkInv, DrainExclusive
<1> QED BY <1>1, <1>2, <1>3, <1>4, <1>5 DEF Next

(* The watermark the drain trusts leads the table only at a number of a *)
(* mutation that was re-signed and is applied.                          *)
THEOREM WatermarkCorrect == Spec => []WatermarkBacked
<1>1. Init => WatermarkInv
  BY DEF Init, WatermarkInv, WatermarkBacked, DrainExclusive, Draining
<1>2. TypeInv /\ DurableInv /\ LedgerInv /\ WatermarkInv /\ [Next]_vars => WatermarkInv'
  BY NextWatermark
<1>3. WatermarkInv => WatermarkBacked
  BY DEF WatermarkInv
<1> QED BY <1>1, <1>2, <1>3, LedgerInductive, PTL DEF Spec

-----------------------------------------------------------------------------
(***************************************************************************)
(* The processor implements SyncLedger.  A commit of a receipt appends to  *)
(* the log, an answer acknowledges, every other step stutters.             *)
(***************************************************************************)

(* A commit of a receipt appends the next envelope of its device, of the    *)
(* payload that was logged if the transaction was; any other write of the   *)
(* tables leaves the log alone.                                             *)
LEMMA CommitsRefine ==
    ASSUME TypeOK, LedgerInv, Commits
    PROVE  \/ ledger' = ledger
           \/ \E e \in Envelopes :
                 /\ e.seq = Len(ledger[e.dev]) + 1
                 /\ \A f \in Logged : f.tx = e.tx => f.hash = e.hash
                 /\ ledger' = [ledger EXCEPT ![e.dev] = Append(@, e)]
<1>1. PICK e \in Envelopes, b \in BOOLEAN :
         /\ b => Recorded(e)
         /\ \/ ReceiptAccepted(e, b) /\ CommitReceipt(e, b)
            \/ (b \/ MayInsert(e)) /\ CommitHold(e, b)
  BY DEF Commits
<1>2. CASE CommitHold(e, b)
  BY <1>2 DEF CommitHold
<1>3. CASE ReceiptAccepted(e, b) /\ CommitReceipt(e, b)
  <2>1. RowsKept /\ Accepted(e)'
    BY <1>1, <1>3, ReceiptCommitted
  <2>2. e.seq = Len(ledger[e.dev]) + 1
    BY <1>3, EnvelopesAssumption DEF ReceiptAccepted, LedgerInv, LedgerExact, Envelope
  <2>3. ASSUME NEW f \in Logged, f.tx = e.tx
        PROVE  f.hash = e.hash
    <3>1. f \in Envelopes /\ Recorded(f)
      BY LoggedTyped DEF LedgerInv, LedgerExact
    <3>2. Recorded(f)'
      BY <2>1, <3>1, Kept
    <3> QED BY <2>1, <2>3, <3>2 DEF Accepted, Recorded
  <2>4. ledger' = [ledger EXCEPT ![e.dev] = Append(@, e)]
    BY <1>3 DEF CommitReceipt
  <2> QED BY <2>2, <2>3, <2>4
<1> QED BY <1>1, <1>2, <1>3

(* What clients are told grows by one backed answer at a time, and never in *)
(* a step that writes the tables.                                           *)
LEMMA Telling ==
    ASSUME TypeInv, DurableInv, [Next]_vars
    PROVE  \/ told' = told
           \/ /\ UNCHANGED durable
              /\ \E e \in Envelopes, o \in Promises :
                    /\ told' = told \cup {<<e, o>>}
                    /\ o \in {"APPLIED", "DUPLICATE"} => Accepted(e)
<1>1. ASSUME NEW r \in Req, Handle(r)
      PROVE  \/ told' = told
             \/ UNCHANGED durable /\ \E o \in Promises : told' = told \cup {<<env[r], o>>}
  <2> USE DEF Goto, Return, Answer
  <2>1. CASE BeginSubmit(r) \/ LookupReceipt(r) \/ LookupMemory(r) \/ CheckSequence(r)
    BY <2>1 DEF BeginSubmit, LookupReceipt, LookupMemory, CheckSequence
  <2>2. CASE SelectReceipt(r) \/ SelectHold(r) \/ PublishHeld(r) \/ Respond(r)
    BY <2>2 DEF SelectReceipt, SelectHold, PublishHeld, Respond
  <2>3. CASE PersistReceipt(r) \/ PersistHold(r)
    BY <2>3 DEF PersistReceipt, PersistHold, Promises
  <2>4. CASE PublishApplied(r) \/ DrainLock(r) \/ DrainScan(r) \/ DrainSelect(r) \/ DrainCommit(r)
    BY <2>4 DEF PublishApplied, DrainLock, DrainScan, DrainSelect, DrainCommit, EndDrain, PublishDrained
  <2> QED BY <1>1, <2>1, <2>2, <2>3, <2>4 DEF Handle
<1>2. ASSUME NEW r \in Req, DatabaseFails(r) \/ CommitUnacknowledged(r)
      PROVE  told' = told
  BY <1>2 DEF DatabaseFails, CommitUnacknowledged, Return, Answer, EndDrain, Goto, Promises
<1>3. ASSUME NEW r \in Req, Handle(r), told' # told
      PROVE  env[r] \in Envelopes
  <2>1. pc[r] # "idle"
    BY <1>3 DEF Handle, BeginSubmit, LookupReceipt, LookupMemory, CheckSequence, SelectReceipt, PersistReceipt,
                PublishApplied, SelectHold, PersistHold, PublishHeld, DrainLock, DrainScan, DrainSelect,
                DrainCommit, Respond
  <2> QED BY <2>1 DEF TypeInv, Carrying
<1>4. ASSUME NEW e \in Envelopes, NEW o \in Promises, UNCHANGED durable, told' = told \cup {<<e, o>>},
             o \in {"APPLIED", "DUPLICATE"}
      PROVE  Accepted(e)
  <2>1. DurableInv'
    BY NextDurable
  <2>2. \A a \in told' : a[2] \in {"APPLIED", "DUPLICATE"} => Accepted(a[1])'
    BY <2>1 DEF DurableInv, AnswersAreDurable
  <2>3. <<e, o>> \in told' /\ <<e, o>>[1] = e /\ <<e, o>>[2] = o
    BY <1>4
  <2>4. Accepted(e)'
    <3> DEFINE a == <<e, o>>
    <3>1. a \in told' /\ a[1] = e /\ a[2] \in {"APPLIED", "DUPLICATE"}
      BY <1>4, <2>3
    <3> HIDE DEF a
    <3>2. receipt'[a[1].tx] # None /\ receipt'[a[1].tx].hash = a[1].hash /\ a[1].tx \in applied'
      BY <2>2, <3>1 DEF Accepted, Recorded, Exists
    <3> QED BY <3>1, <3>2 DEF Accepted, Recorded, Exists
  <2> QED BY <1>4, <2>4 DEF Accepted, Recorded, Exists, durable
<1>5. ASSUME NEW r \in Req, Handle(r)
      PROVE  \/ told' = told
             \/ /\ UNCHANGED durable
                /\ \E e \in Envelopes, o \in Promises :
                      /\ told' = told \cup {<<e, o>>}
                      /\ o \in {"APPLIED", "DUPLICATE"} => Accepted(e)
  BY <1>1, <1>3, <1>4, <1>5
<1> QED BY <1>2, <1>5 DEF Next, vars, Receive, Restart, SaveRevocation, RevokeDevice

(* Empty tables encode the empty ledger. *)
LEMMA InitRefines ==
    ASSUME Init
    PROVE  Ledger!Init
BY DEF Init, Acknowledged, Ledger!Init

(* Every step is a step of the ledger or a stutter. *)
LEMMA NextRefines ==
    ASSUME TypeInv, DurableInv, LedgerInv, [Next]_vars
    PROVE  [Ledger!Next]_<<ledger, Acknowledged>>
<1>1. TypeOK /\ Ledger!Logged = Logged
  BY DEF TypeInv, Ledger!Logged, Logged
<1>2. UNCHANGED durable => ledger' = ledger
  BY DEF durable
<1>3. told' = told => Acknowledged' = Acknowledged
  BY DEF Acknowledged
<1>4. CASE Commits /\ told' = told
  <2>1. ASSUME NEW e \in Envelopes, e.seq = Len(ledger[e.dev]) + 1,
               \A f \in Logged : f.tx = e.tx => f.hash = e.hash,
               ledger' = [ledger EXCEPT ![e.dev] = Append(@, e)]
        PROVE  Ledger!Next
    BY <1>1, <1>3, <1>4, <2>1 DEF Ledger!Accept, Ledger!Next
  <2> QED BY <1>1, <1>3, <1>4, <2>1, CommitsRefine
<1>5. CASE UNCHANGED durable /\ told' = told
  BY <1>2, <1>3, <1>5
<1>6. ASSUME UNCHANGED durable, NEW e \in Envelopes, NEW o \in Promises, told' = told \cup {<<e, o>>},
             o \in {"APPLIED", "DUPLICATE"} => Accepted(e)
      PROVE  [Ledger!Next]_<<ledger, Acknowledged>>
  <2>1. CASE o \notin {"APPLIED", "DUPLICATE"}
    <3>1. Acknowledged' = Acknowledged
      BY <1>6, <2>1 DEF Acknowledged
    <3> QED BY <1>2, <1>6, <3>1
  <2>2. CASE o \in {"APPLIED", "DUPLICATE"}
    <3>1. Acknowledged' = Acknowledged \cup {<<e.tx, e.hash>>}
      <4> DEFINE Acked(T) == {<<a[1].tx, a[1].hash>> : a \in {a \in T : a[2] \in {"APPLIED", "DUPLICATE"}}}
      <4>1. <<e, o>>[1] = e /\ <<e, o>>[2] = o
        OBVIOUS
      <4>2. Acked(told \cup {<<e, o>>}) = Acked(told) \cup {<<e.tx, e.hash>>}
        BY <2>2, <4>1
      <4>3. Acknowledged' = Acked(told') /\ Acknowledged = Acked(told)
        BY DEF Acknowledged
      <4> QED BY <1>6, <4>2, <4>3
    <3>2. PICK f \in Logged : f.tx = e.tx /\ f.hash = e.hash
      BY <1>1, <1>6, <2>2, AcceptedIsConsumed
    <3>3. f \in Envelopes
      BY <1>1, LoggedTyped
    <3>4. Ledger!Acknowledge(f)
      BY <1>1, <1>2, <1>6, <3>1, <3>2 DEF Ledger!Acknowledge
    <3> QED BY <3>3, <3>4 DEF Ledger!Next
  <2> QED BY <2>1, <2>2
<1> QED BY <1>4, <1>5, <1>6, TableWrites, Telling

(* The processor implements the ledger. *)
THEOREM Refinement == Spec => ImplementsLedger
<1>1. Init => Ledger!Init
  BY InitRefines
<1>2. TypeInv /\ DurableInv /\ LedgerInv /\ [Next]_vars => [Ledger!Next]_<<ledger, Acknowledged>>
  BY NextRefines
<1> QED BY <1>1, <1>2, LedgerInductive, PTL DEF Spec, ImplementsLedger, Ledger!Spec
=============================================================================
