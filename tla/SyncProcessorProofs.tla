------------------------ MODULE SyncProcessorProofs ------------------------
(***************************************************************************)
(* Type correctness of the processor.  TypeOK is not inductive by itself:  *)
(* a section that reads env[r] or cand[r] needs them to be envelopes, so   *)
(* Carrying says at which program points they are.                         *)
(***************************************************************************)
EXTENDS SyncProcessor, TLAPS

(* A handler past "idle" carries an envelope, and its drain loop one while *)
(* it applies it.                                                          *)
Carrying ==
    \A r \in Req :
        /\ pc[r] # "idle" => env[r] \in Envelopes
        /\ pc[r] \in {"drainSelect", "drainCommit"} => cand[r] \in Envelopes

TypeInv == TypeOK /\ Carrying

(* What a drain may pick is an envelope. *)
LEMMA CandidatesTyped ==
    ASSUME TypeOK, NEW d \in Device
    PROVE  Candidates(d) \subseteq Envelopes
<1>1. \A n : HeldInMemory(d, n) \subseteq Envelopes
  BY DEF HeldInMemory, TypeOK
<1>2. \A n : HeldInDatabase(d, n) \subseteq Envelopes
  BY DEF HeldInDatabase, TypeOK, HeldRow
<1> QED BY <1>1, <1>2 DEF Candidates

(* An accepted receipt extends the history of its device. *)
LEMMA LedgerExtended ==
    ASSUME TypeOK, NEW e \in Envelopes, NEW b, CommitReceipt(e, b)
    PROVE  ledger' \in Ledgers
<1>1. e.dev \in Device /\ ledger \in [Device -> Seq(Envelopes)]
  BY EnvelopesAssumption DEF Envelope, TypeOK, Ledgers
<1>2. Append(ledger[e.dev], e) \in Seq(Envelopes)
  BY <1>1
<1> QED BY <1>1, <1>2 DEF CommitReceipt, Ledgers

(* Every section of SubmitContext and DrainHeld keeps the types, and never *)
(* works on an envelope it does not carry.                                 *)
LEMMA HandleTyped ==
    ASSUME TypeInv, NEW r \in Req, Handle(r)
    PROVE  TypeInv'
<1> USE EnvelopesAssumption, StripeAssumption, BoundsAssumption, NoneAssumption
<1> USE DEF TypeInv, TypeOK, Carrying, durable, memory, trust, Goto, Answer, Return, Unlocked, Remember, Pick,
     PC, Submitting, Draining, Promises, Stripes
<1>1. CASE BeginSubmit(r)
  BY <1>1 DEF BeginSubmit
<1>2. CASE LookupReceipt(r)
  BY <1>2 DEF LookupReceipt
<1>3. CASE LookupMemory(r)
  BY <1>3 DEF LookupMemory
<1>4. CASE CheckSequence(r)
  BY <1>4 DEF CheckSequence
<1>5. CASE SelectReceipt(r)
  <2>1. CASE Return(r, "SECURITY_FAILURE") /\ UNCHANGED found
    BY <1>5, <2>1 DEF SelectReceipt
  <2>2. CASE Goto(r, "publish") /\ UNCHANGED <<deviceLock, found>>
    BY <1>5, <2>2 DEF SelectReceipt
  <2>3. CASE Goto(r, "commit") /\ Remember(r, Exists(env[r].tx)) /\ UNCHANGED deviceLock
    BY <1>5, <2>3 DEF SelectReceipt, Exists
  <2> QED BY <1>5, <2>1, <2>2, <2>3 DEF SelectReceipt
<1>6. CASE PersistReceipt(r)
  <2>1. CASE CommitReceipt(env[r], found[r]) /\ Goto(r, "publish") /\ UNCHANGED deviceLock
    <3>1. ledger' \in Ledgers
      BY <1>6, <2>1, LedgerExtended DEF PersistReceipt
    <3> QED BY <1>6, <2>1, <3>1 DEF PersistReceipt, CommitReceipt, Envelope
  <2>2. CASE Return(r, "SECURITY_FAILURE") /\ UNCHANGED durable
    BY <1>6, <2>2 DEF PersistReceipt
  <2> QED BY <1>6, <2>1, <2>2 DEF PersistReceipt
<1>7. CASE PublishApplied(r)
  BY <1>7 DEF PublishApplied, Envelope
<1>8. CASE SelectHold(r)
  <2>1. CASE Return(r, "SECURITY_FAILURE") /\ UNCHANGED found
    BY <1>8, <2>1 DEF SelectHold
  <2>2. CASE Goto(r, "holdCommit") /\ Remember(r, Exists(env[r].tx)) /\ UNCHANGED deviceLock
    BY <1>8, <2>2 DEF SelectHold, Exists
  <2> QED BY <1>8, <2>1, <2>2 DEF SelectHold
<1>9. CASE PersistHold(r)
  <2>1. CASE CommitHold(env[r], found[r]) /\ Goto(r, "holdPublish") /\ UNCHANGED deviceLock
    BY <1>9, <2>1 DEF PersistHold, CommitHold, HeldRow, Envelope
  <2>2. CASE Return(r, "SECURITY_FAILURE") /\ UNCHANGED durable
    BY <1>9, <2>2 DEF PersistHold
  <2> QED BY <1>9, <2>1, <2>2 DEF PersistHold
<1>10. CASE PublishHeld(r)
  BY <1>10 DEF PublishHeld, Envelope
<1>11. CASE DrainLock(r)
  BY <1>11 DEF DrainLock, EndDrain
<1>12. CASE DrainScan(r)
  <2> DEFINE d == env[r].dev
  <2>1. Candidates(d) \subseteq Envelopes
    BY <1>12, CandidatesTyped DEF DrainScan, Envelope
  <2>2. CASE \E e \in Candidates(d) : Pick(r, e) /\ Goto(r, "drainSelect") /\ UNCHANGED mu
    <3> HIDE DEF d
    <3>1. PICK e \in Envelopes : Pick(r, e) /\ Goto(r, "drainSelect") /\ UNCHANGED mu
      BY <2>1, <2>2
    <3> QED BY <1>12, <2>2, <3>1 DEF DrainScan
  <2>3. CASE EndDrain(r) /\ UNCHANGED cand
    BY <1>12, <2>3 DEF DrainScan, EndDrain
  <2> QED BY <1>12, <2>2, <2>3 DEF DrainScan
<1>13. CASE DrainSelect(r)
  <2>1. CASE EndDrain(r) /\ Pick(r, None) /\ UNCHANGED <<memory, found>>
    BY <1>13, <2>1 DEF DrainSelect, EndDrain
  <2>2. CASE PublishDrained(r) /\ UNCHANGED found
    BY <1>13, <2>2 DEF DrainSelect, PublishDrained, Envelope
  <2>3. CASE Goto(r, "drainCommit") /\ Remember(r, Exists(cand[r].tx)) /\ UNCHANGED <<memory, mu, cand>>
    BY <1>13, <2>3 DEF DrainSelect, Exists
  <2> QED BY <1>13, <2>1, <2>2, <2>3 DEF DrainSelect
<1>14. CASE DrainCommit(r)
  <2>1. CASE CommitReceipt(cand[r], found[r]) /\ PublishDrained(r)
    <3>1. ledger' \in Ledgers
      BY <1>14, <2>1, LedgerExtended DEF DrainCommit
    <3>2. cand[r] \in Envelope /\ env[r] \in Envelope /\ cand[r] \in Envelopes /\ env[r] \in Envelopes
      BY <1>14 DEF DrainCommit
    <3>3. /\ receipt' \in [Tx -> Envelopes \cup {None}] /\ applied' \subseteq Tx
          /\ heldRow' \in [Tx -> HeldRow \cup {None}] /\ lastAccepted' \in [Device -> Nat]
      BY <2>1, <3>2 DEF CommitReceipt, Envelope
    <3>4. /\ lastSequence' \in [Device -> Nat] /\ transactions' \in [Tx -> Hash \cup {None}]
          /\ held' \in [Tx -> Envelopes \cup {None}]
      BY <2>1, <3>2 DEF PublishDrained, Envelope
    <3>5. /\ cand' \in [Req -> Envelopes \cup {None}] /\ pc' \in [Req -> PC] /\ found' \in [Req -> BOOLEAN]
          /\ pc'[r] = "scan" /\ UNCHANGED <<mu, env, told>>
      BY <1>14, <2>1 DEF DrainCommit, PublishDrained
    <3> QED BY <1>14, <2>1, <3>1, <3>2, <3>3, <3>4, <3>5 DEF DrainCommit, PublishDrained
  <2>2. CASE EndDrain(r) /\ Pick(r, None) /\ UNCHANGED <<durable, memory>>
    BY <1>14, <2>2 DEF DrainCommit, EndDrain
  <2> QED BY <1>14, <2>1, <2>2 DEF DrainCommit
<1>15. CASE Respond(r)
  BY <1>15 DEF Respond
<1> QED BY <1>1, <1>2, <1>3, <1>4, <1>5, <1>6, <1>7, <1>8, <1>9, <1>10, <1>11, <1>12, <1>13, <1>14, <1>15 DEF Handle

(* Failures, restarts, arrivals and revocations keep the types too. *)
LEMMA FailureTyped ==
    ASSUME TypeInv, NEW r \in Req, DatabaseFails(r) \/ CommitUnacknowledged(r)
    PROVE  TypeInv'
<1> USE EnvelopesAssumption, StripeAssumption, BoundsAssumption, NoneAssumption
<1> USE DEF TypeInv, TypeOK, Carrying, durable, memory, trust, Goto, Answer, Return, Unlocked, Remember, Pick,
     PC, Submitting, Draining, Promises, Stripes
<1>1. CASE DatabaseFails(r)
  <2>1. CASE Return(r, "SECURITY_FAILURE") /\ UNCHANGED mu
    BY <1>1, <2>1 DEF DatabaseFails
  <2>2. CASE EndDrain(r) /\ UNCHANGED deviceLock
    BY <1>1, <2>2 DEF DatabaseFails, EndDrain
  <2> QED BY <1>1, <2>1, <2>2 DEF DatabaseFails
<1>2. CASE CommitUnacknowledged(r)
  <2>1. CASE pc[r] = "commit" /\ CommitReceipt(env[r], found[r]) /\ Return(r, "SECURITY_FAILURE") /\ UNCHANGED mu
    <3>1. ledger' \in Ledgers
      BY <2>1, LedgerExtended
    <3> QED BY <1>2, <2>1, <3>1 DEF CommitUnacknowledged, CommitReceipt, Envelope
  <2>2. CASE pc[r] = "holdCommit" /\ CommitHold(env[r], found[r]) /\ Return(r, "SECURITY_FAILURE") /\ UNCHANGED mu
    BY <1>2, <2>2 DEF CommitUnacknowledged, CommitHold, HeldRow, Envelope
  <2>3. CASE pc[r] = "drainCommit" /\ CommitReceipt(cand[r], found[r]) /\ EndDrain(r) /\ UNCHANGED deviceLock
    <3>1. ledger' \in Ledgers
      BY <2>3, LedgerExtended
    <3> QED BY <1>2, <2>3, <3>1 DEF CommitUnacknowledged, CommitReceipt, EndDrain, Envelope
  <2> QED BY <1>2, <2>1, <2>2, <2>3 DEF CommitUnacknowledged
<1> QED BY <1>1, <1>2

(* So does every step of the system. *)
LEMMA NextTyped ==
    ASSUME TypeInv, [Next]_vars
    PROVE  TypeInv'
<1> USE EnvelopesAssumption, StripeAssumption, BoundsAssumption, NoneAssumption
<1> USE DEF TypeInv, TypeOK, Carrying, durable, memory, trust, PC, Submitting, Draining, Stripes
<1>1. ASSUME NEW r \in Req, NEW e \in Envelopes, Receive(r, e)
      PROVE  TypeInv'
  BY <1>1 DEF Receive
<1>2. ASSUME NEW r \in Req, Handle(r) \/ DatabaseFails(r) \/ CommitUnacknowledged(r)
      PROVE  TypeInv'
  BY <1>2, HandleTyped, FailureTyped
<1>3. CASE Restart
  BY <1>3 DEF Restart
<1>4. ASSUME NEW d \in Revocable, SaveRevocation(d) \/ RevokeDevice(d)
      PROVE  TypeInv'
  BY <1>4 DEF SaveRevocation, RevokeDevice
<1>5. CASE UNCHANGED vars
  BY <1>5 DEF vars
<1> QED BY <1>1, <1>2, <1>3, <1>4, <1>5 DEF Next

(* The tables of freshly enrolled devices and an idle processor are typed. *)
LEMMA InitTyped == Init => TypeInv
<1>1. Init => ledger \in Ledgers
  BY DEF Init, Ledgers
<1> QED BY <1>1, EnvelopesAssumption, StripeAssumption, BoundsAssumption, NoneAssumption
   DEF Init, TypeInv, TypeOK, Carrying, PC, Stripes

(* Every behaviour is well typed. *)
THEOREM TypeCorrect == Spec => []TypeOK
<1>1. Init => TypeInv
  BY InitTyped
<1>2. TypeInv /\ [Next]_vars => TypeInv'
  BY NextTyped
<1>3. TypeInv => TypeOK
  BY DEF TypeInv
<1> QED BY <1>1, <1>2, <1>3, PTL DEF Spec

-----------------------------------------------------------------------------
(***************************************************************************)
(* What the processor answers, and what it remembers, is in the tables:    *)
(* AnswersAreDurable and MemoryIsDurable hold for every set of envelopes,  *)
(* devices, locks and handlers.  The argument: no step removes or rewrites *)
(* a receipt (RowsKept), so what a handler established with a SELECT or a  *)
(* COMMIT (Backed) stays true until it publishes or answers it.            *)
(***************************************************************************)

(* What handler q knows of the tables, from where it stands. *)
Backed(q) ==
    /\ pc[q] \in {"publish", "drain", "respond"} \cup Draining => Accepted(env[q])
    /\ pc[q] \in {"commit", "holdCommit"} /\ found[q] => Recorded(env[q])
    /\ pc[q] = "holdPublish" => Recorded(env[q])
    /\ pc[q] = "drainCommit" /\ found[q] => Recorded(cand[q])

DurableInv ==
    /\ AnswersAreDurable
    /\ MemoryIsDurable
    /\ \A q \in Req : Backed(q)

(* A step keeps every receipt and every acceptance. *)
RowsKept ==
    /\ \A t \in Tx : Exists(t) => receipt'[t] = receipt[t]
    /\ applied \subseteq applied'

(* Receipts are never deleted and never rewritten: what the tables vouch for *)
(* once, they vouch for ever.                                                *)
LEMMA Kept ==
    ASSUME RowsKept, NEW e \in Envelopes
    PROVE  /\ Recorded(e) => Recorded(e)'
           /\ Accepted(e) => Accepted(e)'
BY EnvelopesAssumption DEF RowsKept, Recorded, Accepted, Exists, Envelope

(* A step that writes no table keeps the rows. *)
LEMMA TablesUnchanged ==
    ASSUME UNCHANGED durable
    PROVE  RowsKept
BY DEF durable, RowsKept

(* SaveReceipt(APPLIED) keeps the rows and leaves its envelope applied, if *)
(* the row it found is of its payload.                                     *)
LEMMA ReceiptCommitted ==
    ASSUME TypeOK, NEW e \in Envelopes, NEW b \in BOOLEAN, b => Recorded(e),
           ReceiptAccepted(e, b), CommitReceipt(e, b)
    PROVE  RowsKept /\ Accepted(e)'
BY EnvelopesAssumption, NoneAssumption
   DEF TypeOK, Envelope, ReceiptAccepted, MayInsert, CommitReceipt, RowsKept, Recorded, Accepted, Exists

(* SaveHeld keeps the rows and leaves its envelope recorded. *)
LEMMA HoldCommitted ==
    ASSUME TypeOK, NEW e \in Envelopes, NEW b \in BOOLEAN, b => Recorded(e),
           b \/ MayInsert(e), CommitHold(e, b)
    PROVE  RowsKept /\ Recorded(e)'
BY EnvelopesAssumption, NoneAssumption
   DEF TypeOK, Envelope, MayInsert, CommitHold, RowsKept, Recorded, Exists

(* The memory stays backed when it does not change, and when a durably *)
(* applied envelope is published.                                      *)
LEMMA MemoryKept ==
    ASSUME TypeOK, MemoryIsDurable, RowsKept, UNCHANGED memory
    PROVE  MemoryIsDurable'
BY Kept DEF TypeOK, MemoryIsDurable, memory, RowsKept, Exists, Recorded

(* Publishing a durably applied envelope in p.transactions is honest. *)
LEMMA MemoryPublished ==
    ASSUME TypeOK, MemoryIsDurable, RowsKept, NEW e \in Envelopes, Accepted(e)',
           transactions' = [transactions EXCEPT ![e.tx] = e.hash],
           held' = [held EXCEPT ![e.tx] = None]
    PROVE  MemoryIsDurable'
<1> e.tx \in Tx
  BY EnvelopesAssumption DEF Envelope
<1>1. ASSUME NEW t \in Tx, transactions'[t] # None
      PROVE  t \in applied' /\ Exists(t)' /\ receipt'[t].hash = transactions'[t]
  <2>1. CASE t = e.tx
    BY <2>1 DEF TypeOK, Accepted, Recorded
  <2>2. CASE t # e.tx
    BY <1>1, <2>2 DEF TypeOK, MemoryIsDurable, RowsKept, Exists
  <2> QED BY <2>1, <2>2
<1>2. ASSUME NEW t \in Tx, held'[t] # None
      PROVE  held'[t].tx = t /\ (Recorded(held[t]))'
  <2>1. held'[t] = held[t]
    BY <1>2 DEF TypeOK
  <2>2. held[t] \in Envelopes /\ held[t].tx = t /\ Recorded(held[t])
    BY <1>2, <2>1 DEF TypeOK, MemoryIsDurable
  <2> QED BY <2>1, <2>2 DEF RowsKept, Recorded, Exists, TypeOK
<1> QED BY <1>1, <1>2 DEF MemoryIsDurable

(* What is told stays true, and an answer may be given when it is. *)
LEMMA NothingTold ==
    ASSUME TypeOK, AnswersAreDurable, RowsKept, UNCHANGED told
    PROVE  AnswersAreDurable'
BY Kept DEF TypeOK, AnswersAreDurable

(* An answer may be given when the tables back it. *)
LEMMA Answered ==
    ASSUME TypeInv, AnswersAreDurable, RowsKept, NEW r \in Req, NEW e \in Envelopes, env[r] = e,
           NEW o, Answer(r, o),
           o \in {"APPLIED", "DUPLICATE"} => Accepted(e)',
           o = "HELD" => Recorded(e)'
    PROVE  AnswersAreDurable' /\ Backed(r)'
<1>1. \A a \in told : a[1] \in Envelopes
  BY DEF TypeInv, TypeOK
<1>2. \A a \in told' : a \in told \/ a = <<e, o>>
  BY DEF Answer
<1>3. ASSUME NEW a \in told'
      PROVE  /\ a[2] \in {"APPLIED", "DUPLICATE"} => Accepted(a[1])'
             /\ a[2] = "HELD" => Recorded(a[1])'
  <2>1. CASE a \in told
    BY <1>1, <2>1, Kept DEF AnswersAreDurable
  <2>2. CASE a = <<e, o>>
    BY <2>2
  <2> QED BY <1>2, <2>1, <2>2
<1>4. pc'[r] = "idle"
  BY DEF Answer, TypeInv, TypeOK
<1> QED BY <1>3, <1>4 DEF AnswersAreDurable, Backed, Draining

-----------------------------------------------------------------------------
(* A step of handler r leaves what the others know. *)
Untouched(q) == pc'[q] = pc[q] /\ env'[q] = env[q] /\ cand'[q] = cand[q] /\ found'[q] = found[q]
OthersUntouched(r) == \A q \in Req \ {r} : Untouched(q)

(* What a handler has read and relies on stays true when another one steps. *)
LEMMA OthersBacked ==
    ASSUME TypeInv, RowsKept, NEW r \in Req, OthersUntouched(r), NEW q \in Req \ {r}, Backed(q)
    PROVE  Backed(q)'
<1> pc[q] = "idle" \/ env[q] \in Envelopes
  BY DEF TypeInv, Carrying
<1>1. pc'[q] \in {"publish", "drain", "respond"} \cup Draining => Accepted(env[q])'
  BY Kept DEF OthersUntouched, Untouched, Backed, Draining, Accepted, Recorded, Exists
<1>2. pc'[q] \in {"commit", "holdCommit", "holdPublish"} /\ Recorded(env[q]) => Recorded(env[q])'
  BY Kept DEF OthersUntouched, Untouched, Recorded, Exists
<1>3. pc'[q] = "drainCommit" /\ found'[q] => Recorded(cand[q])'
  BY Kept DEF OthersUntouched, Untouched, Backed, Recorded, Exists, TypeInv, Carrying
<1> QED BY <1>1, <1>2, <1>3 DEF Backed, OthersUntouched, Untouched

(* A section of a handler moves no other handler. *)
LEMMA HandleTouchesOne ==
    ASSUME TypeInv, NEW r \in Req, Handle(r) \/ DatabaseFails(r) \/ CommitUnacknowledged(r)
    PROVE  OthersUntouched(r)
<1> USE DEF TypeInv, TypeOK, OthersUntouched, Untouched, Goto, Answer, Return, Remember, Pick
<1>1. CASE BeginSubmit(r)
  BY <1>1 DEF BeginSubmit
<1>2. CASE LookupReceipt(r)
  BY <1>2 DEF LookupReceipt
<1>3. CASE LookupMemory(r)
  BY <1>3 DEF LookupMemory
<1>4. CASE CheckSequence(r)
  BY <1>4 DEF CheckSequence
<1>5. CASE SelectReceipt(r)
  BY <1>5 DEF SelectReceipt
<1>6. CASE PersistReceipt(r)
  BY <1>6 DEF PersistReceipt
<1>7. CASE PublishApplied(r)
  BY <1>7 DEF PublishApplied
<1>8. CASE SelectHold(r)
  BY <1>8 DEF SelectHold
<1>9. CASE PersistHold(r)
  BY <1>9 DEF PersistHold
<1>10. CASE PublishHeld(r)
  BY <1>10 DEF PublishHeld
<1>11. CASE DrainLock(r)
  BY <1>11 DEF DrainLock, EndDrain
<1>12. CASE DrainScan(r)
  BY <1>12 DEF DrainScan, EndDrain
<1>13. CASE DrainSelect(r)
  BY <1>13 DEF DrainSelect, PublishDrained, EndDrain
<1>14. CASE DrainCommit(r)
  BY <1>14 DEF DrainCommit, PublishDrained, EndDrain
<1>15. CASE Respond(r)
  BY <1>15 DEF Respond
<1>16. CASE DatabaseFails(r)
  BY <1>16 DEF DatabaseFails, EndDrain
<1>17. CASE CommitUnacknowledged(r)
  BY <1>17 DEF CommitUnacknowledged, EndDrain
<1> QED BY <1>1, <1>2, <1>3, <1>4, <1>5, <1>6, <1>7, <1>8, <1>9, <1>10, <1>11, <1>12, <1>13,
           <1>14, <1>15, <1>16, <1>17 DEF Handle

(* What each step must show for the handler that takes it. *)
StepDurable(r) == RowsKept /\ MemoryIsDurable' /\ AnswersAreDurable' /\ Backed(r)'

(* A step that writes no table and publishes nothing has only its own new *)
(* position or its answer to justify.                                     *)
LEMMA Moved ==
    ASSUME TypeInv, DurableInv, NEW r \in Req, UNCHANGED <<durable, memory>>, NEW l, Goto(r, l), Backed(r)'
    PROVE  StepDurable(r)
BY TablesUnchanged, MemoryKept, NothingTold DEF StepDurable, DurableInv, TypeInv, Goto

(* An answer given straight from the tables or the maps, writing nothing. *)
LEMMA AnsweredFromTables ==
    ASSUME TypeInv, DurableInv, NEW r \in Req, UNCHANGED <<durable, memory>>, pc[r] # "idle",
           NEW o, Answer(r, o),
           o \in {"APPLIED", "DUPLICATE"} => Accepted(env[r]),
           o = "HELD" => Recorded(env[r])
    PROVE  StepDurable(r)
<1>1. PICK e \in Envelopes : env[r] = e
  BY DEF TypeInv, Carrying
<1>2. RowsKept
  BY TablesUnchanged
<1>3. /\ o \in {"APPLIED", "DUPLICATE"} => Accepted(e)'
      /\ o = "HELD" => Recorded(e)'
  BY <1>1, <1>2, Kept
<1>4. AnswersAreDurable' /\ Backed(r)'
  BY <1>1, <1>2, <1>3, Answered DEF DurableInv
<1> QED BY <1>2, <1>4, MemoryKept DEF StepDurable, DurableInv, TypeInv

(* The outcomes of the two write operations, for the handler that commits. *)
LEMMA AppliedPublished ==
    ASSUME TypeInv, DurableInv, NEW r \in Req, RowsKept, NEW e \in Envelopes, Accepted(e)',
           transactions' = [transactions EXCEPT ![e.tx] = e.hash],
           held' = [held EXCEPT ![e.tx] = None],
           UNCHANGED told, Backed(r)'
    PROVE  StepDurable(r)
BY MemoryPublished, NothingTold DEF StepDurable, DurableInv, TypeInv

(* Every section of SubmitContext and DrainHeld keeps answers and memory *)
(* backed by the tables.                                                 *)
LEMMA HandleDurable ==
    ASSUME TypeInv, DurableInv, NEW r \in Req, Handle(r)
    PROVE  StepDurable(r)
<1> USE DEF Draining
<1>0. Backed(r) /\ TypeOK /\ Carrying
  BY DEF DurableInv, TypeInv
<1>1. CASE BeginSubmit(r)
  <2>1. CASE Goto(r, "receipt")
    <3>1. Backed(r)'
      BY <2>1, <1>0 DEF Goto, Backed, TypeOK
    <3> QED BY <1>1, <2>1, <3>1, Moved DEF BeginSubmit
  <2>2. CASE Answer(r, "SECURITY_FAILURE")
    BY <1>1, <2>2, AnsweredFromTables DEF BeginSubmit
  <2> QED BY <1>1, <2>1, <2>2 DEF BeginSubmit
<1>2. CASE LookupReceipt(r)
  <2>1. CASE OtherPayload(env[r]) /\ Return(r, "CONFLICT")
    BY <1>2, <2>1, AnsweredFromTables DEF LookupReceipt, Return
  <2>2. CASE AlreadyApplied(env[r]) /\ Return(r, "DUPLICATE")
    BY <1>2, <2>2, AnsweredFromTables DEF LookupReceipt, Return, AlreadyApplied, Accepted, Recorded
  <2>3. CASE Goto(r, "memory")
    <3>1. Backed(r)'
      BY <2>3, <1>0 DEF Goto, Backed, TypeOK
    <3> QED BY <1>2, <2>3, <3>1, Moved DEF LookupReceipt
  <2> QED BY <1>2, <2>1, <2>2, <2>3 DEF LookupReceipt
<1>3. CASE LookupMemory(r)
  <2>1. CASE transactions[env[r].tx] = env[r].hash /\ Return(r, "DUPLICATE")
    <3>1. Accepted(env[r])
      BY <1>0, <1>3, <2>1, EnvelopesAssumption, NoneAssumption
         DEF LookupMemory, DurableInv, MemoryIsDurable, Accepted, Recorded, Carrying, Envelope
    <3> QED BY <1>3, <2>1, <3>1, AnsweredFromTables DEF LookupMemory, Return
  <2>2. CASE Return(r, "CONFLICT")
    BY <1>3, <2>2, AnsweredFromTables DEF LookupMemory, Return
  <2>3. CASE Goto(r, "sequence")
    <3>1. Backed(r)'
      BY <2>3, <1>0 DEF Goto, Backed, TypeOK
    <3> QED BY <1>3, <2>3, <3>1, Moved DEF LookupMemory
  <2> QED BY <1>3, <2>1, <2>2, <2>3 DEF LookupMemory
<1>4. CASE CheckSequence(r)
  <2>1. ASSUME NEW l \in {"holdSelect", "select"}, Goto(r, l)
        PROVE  StepDurable(r)
    <3>1. Backed(r)'
      BY <2>1, <1>0 DEF Goto, Backed, TypeOK
    <3> QED BY <1>4, <2>1, <3>1, Moved DEF CheckSequence
  <2>2. ASSUME NEW o \in {"CONFLICT", "REJECTED"}, Return(r, o)
        PROVE  StepDurable(r)
    BY <1>4, <2>2, AnsweredFromTables DEF CheckSequence, Return
  <2> QED BY <1>4, <2>1, <2>2 DEF CheckSequence
<1>5. CASE SelectReceipt(r)
  <2>1. CASE Return(r, "SECURITY_FAILURE")
    BY <1>5, <2>1, AnsweredFromTables DEF SelectReceipt, Return
  <2>2. CASE AlreadyApplied(env[r]) /\ Goto(r, "publish") /\ UNCHANGED <<deviceLock, found>>
    <3>1. Backed(r)'
      BY <1>5, <2>2, <1>0
         DEF SelectReceipt, durable, Goto, Backed, TypeOK, AlreadyApplied, Accepted, Recorded, Exists
    <3> QED BY <1>5, <2>2, <3>1, Moved DEF SelectReceipt
  <2>3. CASE ~OtherPayload(env[r]) /\ Goto(r, "commit") /\ Remember(r, Exists(env[r].tx))
    <3>1. Backed(r)'
      BY <1>5, <2>3, <1>0
         DEF SelectReceipt, durable, Goto, Remember, Backed, TypeOK, OtherPayload, Recorded, Exists
    <3> QED BY <1>5, <2>3, <3>1, Moved DEF SelectReceipt
  <2> QED BY <1>5, <2>1, <2>2, <2>3 DEF SelectReceipt
<1>6. CASE PersistReceipt(r)
  <2>1. CASE ReceiptAccepted(env[r], found[r]) /\ CommitReceipt(env[r], found[r]) /\ Goto(r, "publish")
    <3>1. PICK e \in Envelopes : env[r] = e
      BY <1>0, <1>6 DEF PersistReceipt, Carrying
    <3>2. RowsKept /\ Accepted(e)'
      BY <1>0, <1>6, <2>1, <3>1, ReceiptCommitted DEF PersistReceipt, Backed, TypeOK
    <3>3. Backed(r)'
      BY <1>0, <2>1, <3>1, <3>2 DEF Goto, Backed, TypeOK, Accepted, Recorded, Exists
    <3>4. MemoryIsDurable'
      BY <1>6, <3>2, MemoryKept DEF PersistReceipt, DurableInv, TypeInv
    <3>5. AnswersAreDurable'
      BY <2>1, <3>2, NothingTold DEF Goto, DurableInv, TypeInv
    <3> QED BY <3>2, <3>3, <3>4, <3>5 DEF StepDurable
  <2>2. CASE Return(r, "SECURITY_FAILURE") /\ UNCHANGED durable
    BY <1>6, <2>2, AnsweredFromTables DEF PersistReceipt, Return
  <2> QED BY <1>6, <2>1, <2>2 DEF PersistReceipt
<1>7. CASE PublishApplied(r)
  <2>1. PICK e \in Envelopes : env[r] = e
    BY <1>0, <1>7 DEF PublishApplied, Carrying
  <2>2. RowsKept
    BY <1>7, TablesUnchanged DEF PublishApplied
  <2>3. Accepted(e)'
    BY <1>0, <1>7, <2>1, <2>2, Kept DEF PublishApplied, Backed
  <2>4. Backed(r)'
    BY <1>0, <1>7, <2>1, <2>3 DEF PublishApplied, Goto, Backed, TypeOK, Accepted, Recorded, Exists
  <2> QED BY <1>7, <2>1, <2>2, <2>3, <2>4, AppliedPublished DEF PublishApplied, Goto
<1>8. CASE SelectHold(r)
  <2>1. CASE Return(r, "SECURITY_FAILURE")
    BY <1>8, <2>1, AnsweredFromTables DEF SelectHold, Return
  <2>2. CASE ~HoldRefused(env[r]) /\ Goto(r, "holdCommit") /\ Remember(r, Exists(env[r].tx))
    <3>1. Backed(r)'
      BY <1>8, <2>2, <1>0
         DEF SelectHold, durable, Goto, Remember, Backed, TypeOK, HoldRefused, OtherPayload, Recorded, Exists
    <3> QED BY <1>8, <2>2, <3>1, Moved DEF SelectHold
  <2> QED BY <1>8, <2>1, <2>2 DEF SelectHold
<1>9. CASE PersistHold(r)
  <2>1. CASE (found[r] \/ MayInsert(env[r])) /\ CommitHold(env[r], found[r]) /\ Goto(r, "holdPublish")
    <3>1. PICK e \in Envelopes : env[r] = e
      BY <1>0, <1>9 DEF PersistHold, Carrying
    <3>2. RowsKept /\ Recorded(e)'
      BY <1>0, <1>9, <2>1, <3>1, HoldCommitted DEF PersistHold, Backed, TypeOK
    <3>3. Backed(r)'
      BY <1>0, <2>1, <3>1, <3>2 DEF Goto, Backed, TypeOK, Recorded, Exists
    <3>4. MemoryIsDurable'
      BY <1>9, <3>2, MemoryKept DEF PersistHold, DurableInv, TypeInv
    <3>5. AnswersAreDurable'
      BY <2>1, <3>2, NothingTold DEF Goto, DurableInv, TypeInv
    <3> QED BY <3>2, <3>3, <3>4, <3>5 DEF StepDurable
  <2>2. CASE Return(r, "SECURITY_FAILURE") /\ UNCHANGED durable
    BY <1>9, <2>2, AnsweredFromTables DEF PersistHold, Return
  <2> QED BY <1>9, <2>1, <2>2 DEF PersistHold
<1>10. CASE PublishHeld(r)
  <2>1. PICK e \in Envelopes : env[r] = e
    BY <1>0, <1>10 DEF PublishHeld, Carrying
  <2>2. RowsKept
    BY <1>10, TablesUnchanged DEF PublishHeld
  <2>3. Recorded(e)'
    BY <1>0, <1>10, <2>1, <2>2, Kept DEF PublishHeld, Backed
  <2>4. AnswersAreDurable' /\ Backed(r)'
    BY <1>10, <2>1, <2>2, <2>3, Answered DEF PublishHeld, Return, DurableInv
  <2>5. MemoryIsDurable'
    <3>0. held' = [held EXCEPT ![e.tx] = e]
      BY <1>10, <2>1 DEF PublishHeld
    <3>1. \A t \in Tx : held'[t] # None => held'[t] = held[t] \/ (t = e.tx /\ held'[t] = e)
      BY <1>0, <3>0 DEF TypeOK
    <3> QED BY <1>0, <1>10, <2>2, <2>3, <3>1
            DEF PublishHeld, DurableInv, MemoryIsDurable, RowsKept, Exists, Recorded, durable, TypeOK
  <2> QED BY <2>2, <2>4, <2>5 DEF StepDurable
<1>11. CASE DrainLock(r)
  <2>1. ASSUME NEW l \in {"scan", "respond"}, Goto(r, l)
        PROVE  StepDurable(r)
    <3>1. Backed(r)'
      BY <1>0, <1>11, <2>1 DEF DrainLock, durable, Goto, Backed, TypeOK, Accepted, Recorded, Exists
    <3> QED BY <1>11, <2>1, <3>1, Moved DEF DrainLock
  <2> QED BY <1>11, <2>1 DEF DrainLock, EndDrain
<1>12. CASE DrainScan(r)
  <2>1. ASSUME NEW l \in {"drainSelect", "respond"}, Goto(r, l)
        PROVE  StepDurable(r)
    <3>1. Backed(r)'
      BY <1>0, <1>12, <2>1 DEF DrainScan, durable, Goto, Backed, TypeOK, Accepted, Recorded, Exists
    <3> QED BY <1>12, <2>1, <3>1, Moved DEF DrainScan
  <2> QED BY <1>12, <2>1 DEF DrainScan, EndDrain
<1>13. CASE DrainSelect(r)
  <2>1. CASE EndDrain(r) /\ UNCHANGED memory
    <3>1. Backed(r)'
      BY <1>0, <1>13, <2>1 DEF DrainSelect, EndDrain, durable, Goto, Backed, TypeOK, Accepted, Recorded, Exists
    <3> QED BY <1>13, <2>1, <3>1, Moved DEF DrainSelect, EndDrain
  <2>2. CASE AlreadyApplied(cand[r]) /\ PublishDrained(r)
    <3>1. PICK e \in Envelopes : cand[r] = e
      BY <1>0, <1>13 DEF DrainSelect, Carrying
    <3>2. RowsKept
      BY <1>13, TablesUnchanged DEF DrainSelect
    <3>3. Accepted(e)'
      BY <2>2, <3>1, <3>2, Kept DEF AlreadyApplied, Accepted, Recorded
    <3>4. Backed(r)'
      BY <1>0, <1>13, <2>2 DEF DrainSelect, PublishDrained, durable, Goto, Backed, TypeOK, Accepted, Recorded, Exists
    <3> QED BY <2>2, <3>1, <3>2, <3>3, <3>4, AppliedPublished DEF PublishDrained, Goto
  <2>3. CASE /\ ~OtherPayload(cand[r])
             /\ Goto(r, "drainCommit")
             /\ Remember(r, Exists(cand[r].tx))
             /\ UNCHANGED <<memory, mu, cand>>
    <3>1. Backed(r)'
      BY <1>0, <1>13, <2>3
         DEF DrainSelect, durable, Goto, Remember, Backed, TypeOK, OtherPayload, Accepted, Recorded, Exists
    <3> QED BY <1>13, <2>3, <3>1, Moved DEF DrainSelect
  <2> QED BY <1>13, <2>1, <2>2, <2>3 DEF DrainSelect
<1>14. CASE DrainCommit(r)
  <2>1. CASE ReceiptAccepted(cand[r], found[r]) /\ CommitReceipt(cand[r], found[r]) /\ PublishDrained(r)
    <3>1. PICK e \in Envelopes : cand[r] = e
      BY <1>0, <1>14 DEF DrainCommit, Carrying
    <3>2. RowsKept /\ Accepted(e)'
      BY <1>0, <1>14, <2>1, <3>1, ReceiptCommitted DEF DrainCommit, Backed, TypeOK
    <3>3. PICK f \in Envelopes : env[r] = f
      BY <1>0, <1>14 DEF DrainCommit, Carrying
    <3>4. Accepted(f)'
      BY <1>0, <1>14, <3>2, <3>3, Kept DEF DrainCommit, Backed
    <3>5. Backed(r)'
      BY <1>0, <2>1, <3>3, <3>4 DEF PublishDrained, Goto, Backed, TypeOK, Accepted, Recorded, Exists
    <3> QED BY <2>1, <3>1, <3>2, <3>5, AppliedPublished DEF PublishDrained, Goto
  <2>2. CASE EndDrain(r) /\ UNCHANGED <<durable, memory>>
    <3>1. Backed(r)'
      BY <1>0, <1>14, <2>2 DEF DrainCommit, EndDrain, durable, Goto, Backed, TypeOK, Accepted, Recorded, Exists
    <3> QED BY <2>2, <3>1, Moved DEF EndDrain
  <2> QED BY <1>14, <2>1, <2>2 DEF DrainCommit
<1>15. CASE Respond(r)
  BY <1>0, <1>15, AnsweredFromTables DEF Respond, Backed
<1> QED BY <1>1, <1>2, <1>3, <1>4, <1>5, <1>6, <1>7, <1>8, <1>9, <1>10, <1>11, <1>12, <1>13, <1>14, <1>15
        DEF Handle

(* So do a database error and a COMMIT whose acknowledgement is lost: the   *)
(* handler answers SECURITY_FAILURE, or APPLIED for what it applied before. *)
LEMMA FailureDurable ==
    ASSUME TypeInv, DurableInv, NEW r \in Req, DatabaseFails(r) \/ CommitUnacknowledged(r)
    PROVE  StepDurable(r)
<1> USE DEF Draining
<1>0. Backed(r) /\ TypeOK /\ Carrying
  BY DEF DurableInv, TypeInv
<1>1. CASE DatabaseFails(r)
  <2>1. CASE pc[r] # "idle" /\ Return(r, "SECURITY_FAILURE")
    BY <1>1, <2>1, AnsweredFromTables DEF DatabaseFails, Return
  <2>2. CASE pc[r] \in {"scan", "drainSelect", "drainCommit"} /\ EndDrain(r)
    <3>1. Backed(r)'
      BY <1>0, <1>1, <2>2 DEF DatabaseFails, EndDrain, durable, Goto, Backed, TypeOK, Accepted, Recorded, Exists
    <3> QED BY <1>1, <2>2, <3>1, Moved DEF DatabaseFails, EndDrain
  <2> QED BY <1>1, <2>1, <2>2 DEF DatabaseFails
<1>2. CASE CommitUnacknowledged(r)
  <2>1. RowsKept => MemoryIsDurable'
    BY <1>2, MemoryKept DEF CommitUnacknowledged, DurableInv, TypeInv
  <2>2. CASE pc[r] = "commit" /\ ReceiptAccepted(env[r], found[r]) /\ CommitReceipt(env[r], found[r])
                /\ Return(r, "SECURITY_FAILURE")
    <3>1. PICK e \in Envelopes : env[r] = e
      BY <1>0, <2>2 DEF Carrying
    <3>2. RowsKept
      BY <1>0, <2>2, <3>1, ReceiptCommitted DEF Backed, TypeOK
    <3>3. AnswersAreDurable' /\ Backed(r)'
      BY <2>2, <3>1, <3>2, Answered DEF Return, DurableInv
    <3> QED BY <2>1, <3>2, <3>3 DEF StepDurable
  <2>3. CASE pc[r] = "holdCommit" /\ (found[r] \/ MayInsert(env[r])) /\ CommitHold(env[r], found[r])
                /\ Return(r, "SECURITY_FAILURE")
    <3>1. PICK e \in Envelopes : env[r] = e
      BY <1>0, <2>3 DEF Carrying
    <3>2. RowsKept
      BY <1>0, <2>3, <3>1, HoldCommitted DEF Backed, TypeOK
    <3>3. AnswersAreDurable' /\ Backed(r)'
      BY <2>3, <3>1, <3>2, Answered DEF Return, DurableInv
    <3> QED BY <2>1, <3>2, <3>3 DEF StepDurable
  <2>4. CASE pc[r] = "drainCommit" /\ ReceiptAccepted(cand[r], found[r]) /\ CommitReceipt(cand[r], found[r])
                /\ EndDrain(r)
    <3>1. PICK e \in Envelopes : cand[r] = e
      BY <1>0, <2>4 DEF Carrying
    <3>2. RowsKept
      BY <1>0, <2>4, <3>1, ReceiptCommitted DEF Backed, TypeOK
    <3>3. PICK f \in Envelopes : env[r] = f
      BY <1>0, <2>4 DEF Carrying
    <3>4. Accepted(f)'
      BY <1>0, <2>4, <3>2, <3>3, Kept DEF Backed
    <3>5. Backed(r)'
      BY <1>0, <2>4, <3>3, <3>4 DEF EndDrain, Goto, Backed, TypeOK, Accepted, Recorded, Exists
    <3>6. AnswersAreDurable'
      BY <2>4, <3>2, NothingTold DEF EndDrain, Goto, DurableInv, TypeInv
    <3> QED BY <2>1, <3>2, <3>5, <3>6 DEF StepDurable
  <2> QED BY <1>2, <2>2, <2>3, <2>4 DEF CommitUnacknowledged
<1> QED BY <1>1, <1>2

(* So does every step, a restart included. *)
LEMMA NextDurable ==
    ASSUME TypeInv, DurableInv, [Next]_vars
    PROVE  DurableInv'
<1> USE DEF Draining
<1>0. TypeOK /\ Carrying
  BY DEF TypeInv
(* A step that changes no table, no memory and no answer, and moves handlers *)
(* only to places where they need to know nothing.                           *)
<1>1. ASSUME UNCHANGED <<durable, told>>, MemoryIsDurable',
             \A q \in Req : pc'[q] \in {"idle", "waiting"} \/ Untouched(q)
      PROVE  DurableInv'
  <2>1. RowsKept
    BY <1>1, TablesUnchanged
  <2>2. AnswersAreDurable'
    BY <1>0, <1>1, <2>1, NothingTold DEF DurableInv
  <2>3. ASSUME NEW q \in Req
        PROVE  Backed(q)'
    BY <1>1, <2>3 DEF DurableInv, Backed, Untouched, durable, Accepted, Recorded, Exists
  <2> QED BY <1>1, <2>2, <2>3 DEF DurableInv
<1>2. ASSUME NEW r \in Req, Handle(r) \/ DatabaseFails(r) \/ CommitUnacknowledged(r)
      PROVE  DurableInv'
  <2>1. StepDurable(r)
    BY <1>2, HandleDurable, FailureDurable
  <2>2. \A q \in Req \ {r} : Backed(q)'
    BY <1>2, <2>1, HandleTouchesOne, OthersBacked DEF StepDurable, DurableInv
  <2> QED BY <2>1, <2>2 DEF StepDurable, DurableInv
<1>3. ASSUME NEW r \in Req, NEW e \in Envelopes, Receive(r, e)
      PROVE  DurableInv'
  <2>1. MemoryIsDurable'
    BY <1>0, <1>3, TablesUnchanged, MemoryKept DEF Receive, DurableInv
  <2>2. UNCHANGED <<durable, told>>
    BY <1>3 DEF Receive
  <2>3. ASSUME NEW q \in Req
        PROVE  pc'[q] \in {"idle", "waiting"} \/ Untouched(q)
    BY <1>0, <1>3 DEF Receive, TypeOK, Untouched
  <2> QED BY <1>1, <2>1, <2>2, <2>3
<1>4. CASE Restart
  <2>1. MemoryIsDurable'
    BY <1>4 DEF Restart, MemoryIsDurable
  <2>2. UNCHANGED <<durable, told>>
    BY <1>4 DEF Restart
  <2>3. \A q \in Req : pc'[q] = "idle"
    BY <1>4 DEF Restart
  <2> QED BY <1>1, <2>1, <2>2, <2>3
<1>5. ASSUME NEW d \in Revocable, SaveRevocation(d) \/ RevokeDevice(d)
      PROVE  DurableInv'
  <2>1. MemoryIsDurable'
    BY <1>0, <1>5, TablesUnchanged, MemoryKept DEF SaveRevocation, RevokeDevice, DurableInv
  <2> QED BY <1>1, <1>5, <2>1 DEF SaveRevocation, RevokeDevice, Untouched
<1>6. CASE UNCHANGED vars
  <2>1. MemoryIsDurable'
    BY <1>0, <1>6, TablesUnchanged, MemoryKept DEF vars, DurableInv
  <2> QED BY <1>1, <1>6, <2>1 DEF vars, Untouched
<1> QED BY <1>2, <1>3, <1>4, <1>5, <1>6 DEF Next

(* Nothing is told and nothing remembered at first. *)
LEMMA InitDurable == Init => TypeInv /\ DurableInv
<1>1. Init => DurableInv
  BY DEF Init, DurableInv, AnswersAreDurable, MemoryIsDurable, Backed, Draining
<1> QED BY <1>1, InitTyped

(* DurableInv is inductive. *)
LEMMA DurableInductive == Spec => [](TypeInv /\ DurableInv)
<1>1. Init => TypeInv /\ DurableInv
  BY InitDurable
<1>2. TypeInv /\ DurableInv /\ [Next]_vars => (TypeInv /\ DurableInv)'
  BY NextTyped, NextDurable
<1> QED BY <1>1, <1>2, PTL DEF Spec

(* A client answered APPLIED or DUPLICATE can forget the mutation, and one *)
(* answered HELD has left it with the server.                              *)
THEOREM AnswersDurable == Spec => []AnswersAreDurable
<1>1. TypeInv /\ DurableInv => AnswersAreDurable
  BY DEF DurableInv
<1> QED BY <1>1, DurableInductive, PTL

(* The processor's maps claim nothing the tables do not hold. *)
THEOREM MemoryDurable == Spec => []MemoryIsDurable
<1>1. TypeInv /\ DurableInv => MemoryIsDurable
  BY DEF DurableInv
<1> QED BY <1>1, DurableInductive, PTL
=============================================================================
