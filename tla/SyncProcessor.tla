--------------------------- MODULE SyncProcessor ---------------------------
(***************************************************************************)
(* The server side of offline synchronisation: one Processor               *)
(* (internal/domain/sync/sync.go) shared by the HTTP handlers that run     *)
(* internal/syncapi/http.go, over the PostgreSQL tables written by         *)
(* internal/syncstate/postgres.go.                                         *)
(*                                                                         *)
(* A step of the model is a section of code between two points where       *)
(* another goroutine can interleave: a critical section of p.mu, a SELECT, *)
(* or a COMMIT.  SaveReceipt and SaveHeld are a SELECT and a later COMMIT  *)
(* because they run at READ COMMITTED: their writes take effect together   *)
(* at the commit, and re-evaluate their WHERE clauses and the UNIQUE       *)
(* constraints there, while the row they branch on was read before.        *)
(*                                                                         *)
(* Payloads, signatures, timestamps, tenants and reasons are abstracted:   *)
(* an envelope keeps what the processor branches on.  Genuine is the set   *)
(* of envelopes that pass every check of identity, authority, capability,  *)
(* hash and signature; PolicyRejects those the optional pre-acceptance     *)
(* policy refuses (empty when no policy is installed).                     *)
(***************************************************************************)
EXTENDS Naturals, Sequences

CONSTANTS
    Device,         \* devices with a device_registry and a sync_device_state row
    Tx,             \* transaction identifiers
    Hash,           \* payload hashes
    Envelopes,      \* the signed mutations clients may send, a set of Envelope
    Genuine,        \* those that pass every check made before the receipt lookup
    PolicyRejects,  \* those a PreAcceptancePolicy refuses
    Req,            \* handler goroutines that may run at the same time
    Stripe,         \* deviceLock: the index of the lock a device hashes to
    Revocable,      \* devices an administrator may revoke
    CrashBudget,    \* bound on process restarts
    FaultyDB,       \* whether a database call may fail
    None            \* SQL NULL, a missing row, an absent map entry, a free lock

Envelope == [tx : Tx, dev : Device, seq : Nat \ {0}, hash : Hash]

ASSUME EnvelopesAssumption ==
    /\ Envelopes \subseteq Envelope
    /\ Genuine \subseteq Envelopes
    /\ PolicyRejects \subseteq Envelopes
    /\ Revocable \subseteq Device

ASSUME StripeAssumption == DOMAIN Stripe = Device

ASSUME BoundsAssumption == CrashBudget \in Nat /\ FaultyDB \in BOOLEAN

HeldRow == [dev : Device, env : Envelopes]
Ledgers == [Device -> Seq(Envelopes)]

ASSUME NoneAssumption ==
    /\ None \notin Envelope
    /\ None \notin HeldRow
    /\ None \notin Hash
    /\ None \notin Req

VARIABLES
    (* durable: the PostgreSQL tables *)
    receipt,      \* sync_receipt by transaction_id: the envelope first recorded
    applied,      \* the transactions whose sync_receipt.outcome is APPLIED
    heldRow,      \* sync_held_transaction by transaction_id
    lastAccepted, \* sync_device_state.last_accepted_sequence by device
    ledger,       \* history of lastAccepted: the envelopes that advanced it, by device
    registry,     \* device_registry.state by device
    (* the Processor, lost in a restart *)
    devices,      \* p.devices: what the processor knows of a device
    lastSequence, \* p.lastSequence
    transactions, \* p.transactions: hash of each transaction seen applied
    held,         \* p.held
    mu,           \* the request that holds p.mu for writing across a step
    deviceLock,   \* p.deviceLocks
    (* each handler goroutine *)
    pc,           \* where it is
    env,          \* the envelope it handles
    cand,         \* the held envelope its drain loop is applying
    found,        \* whether its SELECT of the receipt found a row
    (* the outside world *)
    told,         \* the promises made: <<envelope, outcome>> pairs clients have been answered
    crashes       \* restarts so far, at most CrashBudget

durable == <<receipt, applied, heldRow, lastAccepted, ledger>>
memory  == <<lastSequence, transactions, held>>
trust   == <<registry, devices>>
vars == <<durable, memory, trust, mu, deviceLock, pc, env, cand, found, told, crashes>>

Stripes  == {Stripe[d] : d \in Device}

(* The answers that promise a client something; REJECTED, CONFLICT and *)
(* SECURITY_FAILURE leave it with its mutation.                        *)
Promises == {"APPLIED", "DUPLICATE", "HELD"}

(* Program points inside SubmitContext, where the device lock is held. *)
Submitting == {"receipt", "memory", "sequence", "select", "commit", "publish",
               "holdSelect", "holdCommit", "holdPublish"}
(* Program points inside drainHeldLocked, where p.mu is held. *)
Draining   == {"scan", "drainSelect", "drainCommit"}
PC == {"idle", "waiting", "drain", "respond"} \cup Submitting \cup Draining

-----------------------------------------------------------------------------
Init ==
    /\ receipt = [t \in Tx |-> None]
    /\ applied = {}
    /\ heldRow = [t \in Tx |-> None]
    /\ lastAccepted = [d \in Device |-> 0]
    /\ ledger = [d \in Device |-> <<>>]
    /\ registry = [d \in Device |-> "TRUSTED"]
    /\ devices = registry
    /\ lastSequence = [d \in Device |-> 0]
    /\ transactions = [t \in Tx |-> None]
    /\ held = [t \in Tx |-> None]
    /\ mu = None
    /\ deviceLock = [s \in Stripes |-> None]
    /\ pc = [r \in Req |-> "idle"]
    /\ env = [r \in Req |-> None]
    /\ cand = [r \in Req |-> None]
    /\ found = [r \in Req |-> FALSE]
    /\ told = {}
    /\ crashes = 0

-----------------------------------------------------------------------------
(* What a handler does with its own state. *)

Goto(r, label) ==
    /\ pc' = [pc EXCEPT ![r] = label]
    /\ UNCHANGED <<env, told>>

(* Whether the SELECT found a row matters until the COMMIT. *)
Remember(r, b) == found' = [found EXCEPT ![r] = b]

(* The response leaves the server. *)
Answer(r, outcome) ==
    /\ pc' = [pc EXCEPT ![r] = "idle"]
    /\ env' = [env EXCEPT ![r] = None]
    /\ told' = IF outcome \in Promises THEN told \cup {<<env[r], outcome>>} ELSE told

Unlocked(r) == deviceLock' = [deviceLock EXCEPT ![Stripe[env[r].dev]] = None]

(* SubmitContext returns without having applied: the deferred unlock, then *)
(* ServeHTTP writes the response.                                          *)
Return(r, outcome) == Answer(r, outcome) /\ Unlocked(r)

-----------------------------------------------------------------------------
(* The repository's two write operations, as their SELECT and their COMMIT. *)
(* A definition X_Fault is X with a fault, for testing the properties; no   *)
(* action uses it.                                                          *)

Exists(t) == receipt[t] # None

(* UNIQUE (tenant_id, device_id, sequence_number) and the primary key. *)
MayInsert(e) ==
    /\ ~Exists(e.tx)
    /\ \A t \in Tx : Exists(t) => receipt[t].dev # e.dev \/ receipt[t].seq # e.seq

(* The row carries another payload: refused by every reader. *)
OtherPayload_AnyReceipt(e) == Exists(e.tx)
OtherPayload(e) == Exists(e.tx) /\ receipt[e.tx].hash # e.hash

(* The row is an APPLIED one of this payload: SubmitContext answers DUPLICATE, *)
(* SaveReceipt(APPLIED) commits and writes nothing.                            *)
AlreadyApplied_AnyOutcome(e) == Exists(e.tx) /\ receipt[e.tx].hash = e.hash
AlreadyApplied_AnyPayload(e) == Exists(e.tx) /\ e.tx \in applied
AlreadyApplied(e) ==
    /\ Exists(e.tx)
    /\ receipt[e.tx].hash = e.hash
    /\ e.tx \in applied

(* The writes of SaveReceipt(APPLIED) succeed: the row can be inserted if none *)
(* was found, and the device stands just below the sequence.                   *)
ReceiptAccepted(e, existed) ==
    /\ existed \/ MayInsert(e)
    /\ lastAccepted[e.dev] + 1 = e.seq

CommitReceipt_SequenceKept(e, existed) ==
    /\ receipt' = IF existed THEN receipt ELSE [receipt EXCEPT ![e.tx] = e]
    /\ applied' = applied \cup {e.tx}
    /\ heldRow' = [heldRow EXCEPT ![e.tx] = None]
    /\ UNCHANGED <<lastAccepted, ledger>>
CommitReceipt(e, existed) ==
    /\ receipt' = IF existed THEN receipt ELSE [receipt EXCEPT ![e.tx] = e]
    /\ applied' = applied \cup {e.tx}
    /\ lastAccepted' = [lastAccepted EXCEPT ![e.dev] = e.seq]
    /\ ledger' = [ledger EXCEPT ![e.dev] = Append(@, e)]
    /\ heldRow' = [heldRow EXCEPT ![e.tx] = None]

(* SaveHeld read a row that is not a hold of this payload. *)
HoldRefused(e) == OtherPayload(e) \/ (Exists(e.tx) /\ e.tx \in applied)

(* The writes of SaveHeld: insert or touch the receipt, upsert the held row. *)
CommitHold_NullDevice(e, existed) ==
    /\ receipt' = IF existed THEN receipt ELSE [receipt EXCEPT ![e.tx] = e]
    /\ heldRow' = [heldRow EXCEPT ![e.tx] = [dev |-> None, env |-> e]]
    /\ UNCHANGED <<applied, lastAccepted, ledger>>
CommitHold_RowOnly(e, existed) ==
    /\ heldRow' = [heldRow EXCEPT ![e.tx] = [dev |-> e.dev, env |-> e]]
    /\ UNCHANGED <<receipt, applied, lastAccepted, ledger>>
CommitHold(e, existed) ==
    /\ receipt' = IF existed THEN receipt ELSE [receipt EXCEPT ![e.tx] = e]
    /\ heldRow' = [heldRow EXCEPT ![e.tx] =
                     [dev |-> IF @ = None THEN e.dev ELSE @.dev, env |-> e]]
    /\ UNCHANGED <<applied, lastAccepted, ledger>>

-----------------------------------------------------------------------------
(* SubmitContext *)

Receive(r, e) ==
    /\ pc[r] = "idle"
    /\ pc' = [pc EXCEPT ![r] = "waiting"]
    /\ env' = [env EXCEPT ![r] = e]
    /\ UNCHANGED <<durable, memory, trust, mu, deviceLock, cand, found, told, crashes>>

(* Take the device lock, look the device up and check everything that needs *)
(* neither the receipts nor the sequence.                                   *)
BeginSubmit(r) ==
    LET e == env[r] IN
    /\ pc[r] = "waiting"
    /\ deviceLock[Stripe[e.dev]] = None
    /\ mu = None
    /\ IF devices[e.dev] = "TRUSTED" /\ e \in Genuine
       THEN /\ deviceLock' = [deviceLock EXCEPT ![Stripe[e.dev]] = r]
            /\ Goto(r, "receipt")
       ELSE Answer(r, "SECURITY_FAILURE") /\ UNCHANGED deviceLock
    /\ UNCHANGED <<durable, memory, trust, mu, cand, found, crashes>>

(* GetReceipt: a HELD receipt of the same payload is no answer yet. *)
LookupReceipt(r) ==
    LET e == env[r] IN
    /\ pc[r] = "receipt"
    /\ \/ OtherPayload(e) /\ Return(r, "CONFLICT")
       \/ AlreadyApplied(e) /\ Return(r, "DUPLICATE")
       \/ /\ ~OtherPayload(e) /\ ~AlreadyApplied(e)
          /\ Goto(r, "memory")
          /\ UNCHANGED deviceLock
    /\ UNCHANGED <<durable, memory, trust, mu, cand, found, crashes>>

(* p.transactions and p.held.  The code reads them in two critical sections; *)
(* a drain between the two moves the transaction from one to the other, and  *)
(* a payload of another hash has already been refused by its receipt.        *)
LookupMemory(r) ==
    LET e == env[r] IN
    /\ pc[r] = "memory"
    /\ mu = None
    /\ \/ /\ transactions[e.tx] = e.hash
          /\ Return(r, "DUPLICATE")
       \/ /\ \/ transactions[e.tx] \notin {None, e.hash}
             \/ transactions[e.tx] = None /\ held[e.tx] # None /\ held[e.tx].hash # e.hash
          /\ Return(r, "CONFLICT")
       \/ /\ transactions[e.tx] = None
          /\ held[e.tx] # None => held[e.tx].hash = e.hash
          /\ Goto(r, "sequence")
          /\ UNCHANGED deviceLock
    /\ UNCHANGED <<durable, memory, trust, mu, cand, found, crashes>>

(* The sequence gate, then the policy for the one that is next. *)
CheckSequence(r) ==
    LET e == env[r]
        expected == lastAccepted[e.dev] + 1
    IN
    /\ pc[r] = "sequence"
    /\ \/ e.seq > expected /\ Goto(r, "holdSelect") /\ UNCHANGED deviceLock
       \/ e.seq < expected /\ Return(r, "CONFLICT")
       \/ e.seq = expected /\ e \in PolicyRejects /\ Return(r, "REJECTED")
       \/ e.seq = expected /\ e \notin PolicyRejects /\ Goto(r, "select") /\ UNCHANGED deviceLock
    /\ UNCHANGED <<durable, memory, trust, mu, cand, found, crashes>>

(* SaveReceipt's SELECT. *)
SelectReceipt(r) ==
    LET e == env[r] IN
    /\ pc[r] = "select"
    /\ \/ OtherPayload(e) /\ Return(r, "SECURITY_FAILURE") /\ UNCHANGED found
       \/ AlreadyApplied(e) /\ Goto(r, "publish") /\ UNCHANGED <<deviceLock, found>>
       \/ /\ ~OtherPayload(e) /\ ~AlreadyApplied(e)
          /\ Goto(r, "commit")
          /\ Remember(r, Exists(e.tx))
          /\ UNCHANGED deviceLock
    /\ UNCHANGED <<durable, memory, trust, mu, cand, crashes>>

(* SaveReceipt's writes and COMMIT. *)
PersistReceipt(r) ==
    LET e == env[r] IN
    /\ pc[r] = "commit"
    /\ \/ /\ ReceiptAccepted(e, found[r])
          /\ CommitReceipt(e, found[r])
          /\ Goto(r, "publish")
          /\ UNCHANGED deviceLock
       \/ /\ ~ReceiptAccepted(e, found[r])
          /\ Return(r, "SECURITY_FAILURE")
          /\ UNCHANGED durable
    /\ Remember(r, FALSE)
    /\ UNCHANGED <<memory, trust, mu, cand, crashes>>

(* The in-memory acceptance, the deferred unlock and the return to ServeHTTP. *)
PublishApplied(r) ==
    LET e == env[r] IN
    /\ pc[r] = "publish"
    /\ mu = None
    /\ lastSequence' = [lastSequence EXCEPT ![e.dev] = e.seq]
    /\ transactions' = [transactions EXCEPT ![e.tx] = e.hash]
    /\ held' = [held EXCEPT ![e.tx] = None]
    /\ Goto(r, "drain")
    /\ Unlocked(r)
    /\ UNCHANGED <<durable, trust, mu, cand, found, crashes>>

(* SaveHeld's SELECT. *)
SelectHold(r) ==
    LET e == env[r] IN
    /\ pc[r] = "holdSelect"
    /\ \/ HoldRefused(e) /\ Return(r, "SECURITY_FAILURE") /\ UNCHANGED found
       \/ /\ ~HoldRefused(e)
          /\ Goto(r, "holdCommit")
          /\ Remember(r, Exists(e.tx))
          /\ UNCHANGED deviceLock
    /\ UNCHANGED <<durable, memory, trust, mu, cand, crashes>>

(* SaveHeld's writes and COMMIT. *)
PersistHold(r) ==
    LET e == env[r] IN
    /\ pc[r] = "holdCommit"
    /\ \/ /\ found[r] \/ MayInsert(e)
          /\ CommitHold(e, found[r])
          /\ Goto(r, "holdPublish")
          /\ UNCHANGED deviceLock
       \/ /\ ~found[r] /\ ~MayInsert(e)
          /\ Return(r, "SECURITY_FAILURE")
          /\ UNCHANGED durable
    /\ Remember(r, FALSE)
    /\ UNCHANGED <<memory, trust, mu, cand, crashes>>

PublishHeld(r) ==
    /\ pc[r] = "holdPublish"
    /\ mu = None
    /\ held' = [held EXCEPT ![env[r].tx] = env[r]]
    /\ Return(r, "HELD")
    /\ UNCHANGED <<durable, lastSequence, transactions, trust, mu, cand, found, crashes>>

-----------------------------------------------------------------------------
(* DrainHeld, called by ServeHTTP after an APPLIED result: it owns p.mu from *)
(* DrainLock to EndDrain and no device lock.                                 *)

EndDrain(r) == mu' = None /\ Goto(r, "respond")

DrainLock(r) ==
    /\ pc[r] = "drain"
    /\ mu = None
    /\ \/ devices[env[r].dev] # "ABSENT" /\ mu' = r /\ Goto(r, "scan")
       \/ devices[env[r].dev] = "ABSENT" /\ EndDrain(r)
    /\ UNCHANGED <<durable, memory, trust, deviceLock, cand, found, crashes>>

(* The held envelopes the loop may pick for the next sequence of a device: *)
(* those in p.held, or else the envelopes that ListHeld returns under a    *)
(* receipt of that sequence.                                               *)
HeldInMemory(d, n) ==
    {held[t] : t \in {t \in Tx : held[t] # None /\ held[t].dev = d /\ held[t].seq = n}}
HeldInDatabase(d, n) ==
    {heldRow[t].env : t \in {t \in Tx : /\ heldRow[t] # None
                                        /\ heldRow[t].dev = d
                                        /\ receipt[t].seq = n}}
Candidates(d) ==
    LET n == lastSequence[d] + 1
    IN  IF HeldInMemory(d, n) # {} THEN HeldInMemory(d, n) ELSE HeldInDatabase(d, n)

(* The candidate of the loop's current iteration; None between iterations. *)
Pick(r, e) == cand' = [cand EXCEPT ![r] = e]

DrainScan(r) ==
    LET d == env[r].dev IN
    /\ pc[r] = "scan"
    /\ \/ \E e \in Candidates(d) : Pick(r, e) /\ Goto(r, "drainSelect") /\ UNCHANGED mu
       \/ Candidates(d) = {} /\ EndDrain(r) /\ UNCHANGED cand
    /\ UNCHANGED <<durable, memory, trust, deviceLock, found, crashes>>

(* The loop body after persistReceipt succeeded. *)
PublishDrained_Unconsumed(r) ==
    /\ transactions' = [transactions EXCEPT ![cand[r].tx] = cand[r].hash]
    /\ UNCHANGED <<lastSequence, held>>
    /\ Pick(r, None)
    /\ Goto(r, "scan")
    /\ UNCHANGED mu
PublishDrained(r) ==
    /\ lastSequence' = [lastSequence EXCEPT ![env[r].dev] = @ + 1]
    /\ transactions' = [transactions EXCEPT ![cand[r].tx] = cand[r].hash]
    /\ held' = [held EXCEPT ![cand[r].tx] = None]
    /\ Pick(r, None)
    /\ Goto(r, "scan")
    /\ UNCHANGED mu

DrainSelect(r) ==
    LET e == cand[r] IN
    /\ pc[r] = "drainSelect"
    /\ \/ OtherPayload(e) /\ EndDrain(r) /\ Pick(r, None) /\ UNCHANGED <<memory, found>>
       \/ AlreadyApplied(e) /\ PublishDrained(r) /\ UNCHANGED found
       \/ /\ ~OtherPayload(e) /\ ~AlreadyApplied(e)
          /\ Goto(r, "drainCommit")
          /\ Remember(r, Exists(e.tx))
          /\ UNCHANGED <<memory, mu, cand>>
    /\ UNCHANGED <<durable, trust, deviceLock, crashes>>

DrainCommit(r) ==
    LET e == cand[r] IN
    /\ pc[r] = "drainCommit"
    /\ \/ /\ ReceiptAccepted(e, found[r])
          /\ CommitReceipt(e, found[r])
          /\ PublishDrained(r)
       \/ /\ ~ReceiptAccepted(e, found[r])
          /\ EndDrain(r)
          /\ Pick(r, None)
          /\ UNCHANGED <<durable, memory>>
    /\ Remember(r, FALSE)
    /\ UNCHANGED <<trust, deviceLock, crashes>>

Respond(r) ==
    /\ pc[r] = "respond"
    /\ Answer(r, "APPLIED")
    /\ UNCHANGED <<durable, memory, trust, mu, deviceLock, cand, found, crashes>>

-----------------------------------------------------------------------------
(* Failures: a database call returns an error, the acknowledgement of a *)
(* COMMIT is lost, the process restarts.                                *)

DatabaseFails(r) ==
    /\ FaultyDB
    /\ \/ /\ pc[r] \in {"receipt", "sequence", "select", "commit", "holdSelect", "holdCommit"}
          /\ Return(r, "SECURITY_FAILURE")
          /\ UNCHANGED mu
       \/ /\ \/ pc[r] \in {"drainSelect", "drainCommit"}
             \/ pc[r] = "scan" /\ HeldInMemory(env[r].dev, lastSequence[env[r].dev] + 1) = {}
          /\ EndDrain(r)
          /\ UNCHANGED deviceLock
    /\ Pick(r, None)
    /\ Remember(r, FALSE)
    /\ UNCHANGED <<durable, memory, trust, crashes>>

CommitUnacknowledged(r) ==
    /\ FaultyDB
    /\ \/ /\ pc[r] = "commit"
          /\ ReceiptAccepted(env[r], found[r])
          /\ CommitReceipt(env[r], found[r])
          /\ Return(r, "SECURITY_FAILURE")
          /\ UNCHANGED mu
       \/ /\ pc[r] = "holdCommit"
          /\ found[r] \/ MayInsert(env[r])
          /\ CommitHold(env[r], found[r])
          /\ Return(r, "SECURITY_FAILURE")
          /\ UNCHANGED mu
       \/ /\ pc[r] = "drainCommit"
          /\ ReceiptAccepted(cand[r], found[r])
          /\ CommitReceipt(cand[r], found[r])
          /\ EndDrain(r)
          /\ UNCHANGED deviceLock
    /\ Pick(r, None)
    /\ Remember(r, FALSE)
    /\ UNCHANGED <<memory, trust, crashes>>

(* Every handler is gone with its locks and its unanswered request; startup *)
(* reloads the devices from the registry and nothing else.                  *)
Restart ==
    /\ crashes < CrashBudget
    /\ crashes' = crashes + 1
    /\ devices' = registry
    /\ lastSequence' = [d \in Device |-> 0]
    /\ transactions' = [t \in Tx |-> None]
    /\ held' = [t \in Tx |-> None]
    /\ mu' = None
    /\ deviceLock' = [s \in Stripes |-> None]
    /\ pc' = [r \in Req |-> "idle"]
    /\ env' = [r \in Req |-> None]
    /\ cand' = [r \in Req |-> None]
    /\ found' = [r \in Req |-> FALSE]
    /\ UNCHANGED <<durable, registry, told>>

-----------------------------------------------------------------------------
(* The revocation handler saves the device as REVOKED, then drops it from *)
(* the processor's map.                                                   *)

SaveRevocation(d) ==
    /\ registry[d] = "TRUSTED"
    /\ registry' = [registry EXCEPT ![d] = "REVOKED"]
    /\ UNCHANGED <<durable, memory, devices, mu, deviceLock, pc, env, cand, found, told, crashes>>

RevokeDevice(d) ==
    /\ registry[d] = "REVOKED"
    /\ devices[d] # "ABSENT"
    /\ mu = None
    /\ devices' = [devices EXCEPT ![d] = "ABSENT"]
    /\ UNCHANGED <<durable, memory, registry, mu, deviceLock, pc, env, cand, found, told, crashes>>

-----------------------------------------------------------------------------
Handle(r) ==
    \/ BeginSubmit(r)    \/ LookupReceipt(r)  \/ LookupMemory(r) \/ CheckSequence(r)
    \/ SelectReceipt(r)  \/ PersistReceipt(r) \/ PublishApplied(r)
    \/ SelectHold(r)     \/ PersistHold(r)    \/ PublishHeld(r)
    \/ DrainLock(r)      \/ DrainScan(r)      \/ DrainSelect(r)  \/ DrainCommit(r)
    \/ Respond(r)

Next ==
    \/ \E r \in Req, e \in Envelopes : Receive(r, e)
    \/ \E r \in Req : Handle(r) \/ DatabaseFails(r) \/ CommitUnacknowledged(r)
    \/ Restart
    \/ \E d \in Revocable : SaveRevocation(d) \/ RevokeDevice(d)

Spec == Init /\ [][Next]_vars

(* A goroutine that can take a step eventually does.  What it waits for is a *)
(* Go mutex, which starves no waiter: one that keeps being released is       *)
(* eventually granted, hence strong fairness.                                *)
Progress(r) == SF_vars(Handle(r))

(* The field client keeps what is not acknowledged and submits it again. *)
Resubmission(e) == SF_vars(\E r \in Req : Receive(r, e))

FairSpec ==
    /\ Spec
    /\ \A r \in Req : Progress(r)
    /\ \A e \in Envelopes : Resubmission(e)

-----------------------------------------------------------------------------
TypeOK ==
    /\ receipt \in [Tx -> Envelopes \cup {None}]
    /\ applied \subseteq Tx
    /\ heldRow \in [Tx -> HeldRow \cup {None}]
    /\ lastAccepted \in [Device -> Nat]
    /\ ledger \in Ledgers
    /\ registry \in [Device -> {"TRUSTED", "REVOKED"}]
    /\ devices \in [Device -> {"TRUSTED", "REVOKED", "ABSENT"}]
    /\ lastSequence \in [Device -> Nat]
    /\ transactions \in [Tx -> Hash \cup {None}]
    /\ held \in [Tx -> Envelopes \cup {None}]
    /\ mu \in Req \cup {None}
    /\ deviceLock \in [Stripes -> Req \cup {None}]
    /\ pc \in [Req -> PC]
    /\ env \in [Req -> Envelopes \cup {None}]
    /\ cand \in [Req -> Envelopes \cup {None}]
    /\ found \in [Req -> BOOLEAN]
    /\ told \subseteq Envelopes \X Promises
    /\ crashes \in 0..CrashBudget

(* The receipt table vouches for this payload; it says it was applied. *)
Recorded(e) == Exists(e.tx) /\ receipt[e.tx].hash = e.hash
Accepted(e) == Recorded(e) /\ e.tx \in applied

(* Whatever the races, faults and restarts, a client that was answered      *)
(* APPLIED or DUPLICATE can forget the mutation: its payload is durably     *)
(* applied; one answered HELD is at least durably recorded.                 *)
AnswersAreDurable ==
    \A a \in told :
        /\ a[2] \in {"APPLIED", "DUPLICATE"} => Accepted(a[1])
        /\ a[2] = "HELD" => Recorded(a[1])

(* The processor's maps never claim what the tables do not hold: a          *)
(* transaction it would answer DUPLICATE from memory is durably applied,    *)
(* and one it would drain from memory is durably recorded.                  *)
MemoryIsDurable ==
    \A t \in Tx :
        /\ transactions[t] # None => t \in applied /\ Exists(t) /\ receipt[t].hash = transactions[t]
        /\ held[t] # None => held[t].tx = t /\ Recorded(held[t])

(* A mutation that was signed more than once, for another position or device. *)
(* The field app does that when it renumbers what a restart left pending.     *)
Resigned(t) == \E e, f \in Envelopes : e.tx = t /\ f.tx = t /\ <<e.dev, e.seq>> # <<f.dev, f.seq>>
SignedFor(t, d) == \E e \in Envelopes : e.tx = t /\ e.dev = d

Logged == UNION {{ledger[d][n] : n \in DOMAIN ledger[d]} : d \in Device}

(* Each of the sequences 1 to last_accepted_sequence of a device was         *)
(* consumed by one envelope signed for it, of the payload its receipt        *)
(* vouches for, and the transactions recorded as APPLIED are those of the    *)
(* consumed sequences: nothing is lost or applied out of order, although two *)
(* goroutines write the same device, one under the device lock and one under *)
(* p.mu.  A mutation that was never re-signed consumes one sequence, the one *)
(* of its receipt.                                                           *)
LedgerExact ==
    /\ \A d \in Device :
          /\ Len(ledger[d]) = lastAccepted[d]
          /\ \A n \in 1..lastAccepted[d] : ledger[d][n].dev = d /\ ledger[d][n].seq = n
    /\ applied = {e.tx : e \in Logged}
    /\ \A e \in Logged : Recorded(e)
    /\ \A t \in applied : Resigned(t) \/ receipt[t] \in Logged

(* The in-memory watermark that DrainHeld trusts may lag the table.  It      *)
(* leads the table only at a sequence that was signed for a mutation applied *)
(* under another one.                                                        *)
WatermarkBacked ==
    \A d \in Device : lastSequence[d] > lastAccepted[d] =>
        \E e \in Envelopes :
            /\ Accepted(e) /\ e.seq = lastSequence[d]
            /\ Resigned(e.tx) /\ SignedFor(e.tx, d)

(* A mutation acknowledged to its client has consumed a sequence of the      *)
(* ledger with the payload acknowledged, and the one it was signed for       *)
(* unless it was re-signed: the client may number the next one after it.     *)
AcknowledgedIsConsumed ==
    \A a \in told : a[2] \in {"APPLIED", "DUPLICATE"} =>
        \E e \in Logged :
            /\ e.tx = a[1].tx /\ e.hash = a[1].hash
            /\ e = a[1] \/ Resigned(e.tx)

(* Every request is answered, however the goroutines contend for the device *)
(* lock, p.mu and the tables.                                               *)
EveryRequestAnswered == \A r \in Req : pc[r] = "waiting" ~> pc[r] = "idle"

(* Every mutation of the chain is eventually acknowledged to the client     *)
(* that keeps submitting it, in whatever order it does and although the     *)
(* process may restart.                                                     *)
ChainConverges ==
    \A e \in Envelopes : <>(\E o \in {"APPLIED", "DUPLICATE"} : <<e, o>> \in told)

(* What clients were told is applied. *)
Acknowledged == {<<a[1].tx, a[1].hash>> : a \in {a \in told : a[2] \in {"APPLIED", "DUPLICATE"}}}

Ledger == INSTANCE SyncLedger WITH log <- ledger, acknowledged <- Acknowledged

(* The processor implements the ledger: every step of every goroutine        *)
(* appends at most one envelope, the next of its device and never another    *)
(* payload of a logged transaction, and acknowledges only what is logged.    *)
ImplementsLedger == Ledger!Spec

-----------------------------------------------------------------------------
(* A claim of the code's comments that its races refute. *)

Quiescent == \A r \in Req : pc[r] = "idle"

(* "Server-side cascade drain of any held transactions awaiting this        *)
(* sequence": when nothing is in flight, no held envelope has the sequence  *)
(* its device is waiting for.                                               *)
NoHoldLeftBehind ==
    Quiescent => \A t \in Tx \ applied :
        heldRow[t] # None /\ devices[receipt[t].dev] = "TRUSTED"
            => receipt[t].seq # lastAccepted[receipt[t].dev] + 1
=============================================================================
