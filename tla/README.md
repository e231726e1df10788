# INTEGIN: TLA+ models and proofs

INTEGIN is a field-inspection platform. Inspectors work offline on a device; the
device signs its mutations and queues them in an outbox; the server accepts them
one at a time, in the order of the device's sequence numbers, and records every
decision in PostgreSQL. Around that core are the services an inspection passes
through: enrolment of devices, uploads of evidence, work orders, certificates,
releases. This directory holds specifications of the parts in which several actors
or failures meet, the TLC configurations that check them and TLAPS proofs about
them. Source paths below are relative to `src/integin-pilot-source/`.

## 1. Inventory

### The synchronisation path, where the hard behaviour is

| Component | State | Operations | What is hard | What makes it correct |
|---|---|---|---|---|
| **Sync processor** `internal/domain/sync/sync.go`, `internal/syncstate/postgres.go`, `internal/syncapi/http.go` | tables `sync_receipt`, `sync_held_transaction`, `sync_device_state`, `device_registry`; in memory `devices`, `lastSequence`, `transactions`, `held`, a striped device lock, `p.mu` | `SubmitContext`, `DrainHeld`, `RevokeDevice`, startup load | a submission and a drain of one device share no lock; SELECT then write at READ COMMITTED; lost COMMIT acknowledgements; memory lost in restarts | an answer is durable; the ledger of a device has no gap, duplicate or reordering; memory never leads the tables; the client converges |
| **Idempotency guard** `internal/idempotency`, migration `0071` | table `sync_idempotency_cache`, advisory and row locks, open transactions | `Acquire`, the downstream handler, `Commit`, `Done`, eviction by a trigger | a transaction and a connection held while another handler runs; the end of the request's context; deadlocks between evictions; expiry | one handler per key; one answer per key; nothing leaks; every request ends |
| **Concurrency gate** `internal/server/concurrency_gate.go` | two semaphores, counters | admit, reject, time out | a timeout answers the client and leaves the handler running | admitted requests can finish |
| **Device trust, enrolment, revocation** `internal/domain/device_trust`, `internal/deviceenrollhttp`, `internal/localprovision`, the registry in `syncapi` | device states, authority packages and epochs, in tables and in memory | enrol, approve, issue, suspend, revoke | a revocation in several writes that can fail half-way, beside requests in flight | a revoked device authorises nothing new |
| **Schema handshake, device proof** `internal/domain/sync/{versioning,schema_registry,device_proof}.go` | a registry of versions | negotiate, verify | version comparisons at their limits | the chosen version is one both sides support |
| **Field outbox** `field_app/lib/{outbox,sync,application,storage}` | entries with a state and a sequence, the last accepted sequence | queue, flush, reconcile, retry, clear, edit, restore | entries change across awaits; lost responses; crashes while uploading | no unacknowledged work is lost; numbering converges |
| **Resumable uploads** `internal/storage/tus_*.go`, `field_app/lib/sync/tus_client.dart` | chunk file, sidecar, offset | create, append, recover, expire | a crash between file and sidecar | bytes on disk agree with the acknowledged offset |
| **Evidence ingress** `internal/evidenceapi`, `internal/evidenceregistration` | evidence rows, stored objects | register, verify | registration against an incomplete upload | an evidence row has its object |

How they interact: the outbox posts envelopes to `/sync`; the concurrency gate
admits the request and bounds its time; the idempotency guard claims the
`Idempotency-Key` in an open transaction and runs the sync handler inside it; the
handler calls `SubmitContext`, then `DrainHeld` when the answer is APPLIED; the
guard records the response. An administrator's revocation reaches the processor
through a callback. Evidence files travel over the uploads and are referred to by
envelopes. All of it shares one PostgreSQL pool.

### The services and records around it

| Component | State | Operations | What is hard | What makes it correct |
|---|---|---|---|---|
| **Scoped transactions** `internal/shared/pgtx` | the circuit breaker's state, count and last failure | begin, record success or failure | fields that are atomics, and a lock for some of the writes | a closed circuit is below its limit; it closes for good once the database answers |
| **Identity cache** `internal/identity/cached_resolver.go` | a cache entry, the call in flight | resolve, invalidate | joining a call that is about to end; failed leaders | one query at a time; everyone is answered |
| **Sessions** `internal/oidchttp` | rows of the session store | open, touch, consult, revoke, purge | read, then save a whole row, beside a revocation | what begins after a revocation is refused |
| **Edge coordinator** `pkg/edgecoordinator` | leases, tombstones, draft work orders, audit events | dispatch, submit, sweep, override | a submission at the instant of expiry; two statements at READ COMMITTED | lease, tombstone, draft and event agree; nothing stays expired and ACTIVE |
| **Work orders** `internal/domain/workorder`, `workorderpg` | order, assignments, inspections, segments, the operation log | eight commands | retries and stale revisions beside each other | no lost update, no command twice, no inspection submitted twice |
| **Certificates** `certificatepg` | certificates, the number sequence, audit events | draft, review, sign, issue, revoke, supersede, expire | an issue that the timestamp authority fails; concurrent supersessions | numbers have no gap; supersession is linear; the audit tells the status |
| **Evidence packs** `evidencepackpg` | packs and releases with revisions | create, change status | rows loaded without a lock and written by id | nothing is released unapproved |
| **Ring buffer** `pkg/perf/ring` | head, tail, cells | push, pop | lock-free hand-over | a bounded FIFO |

Inspections, work packages and manifests, the audit chain and event store, the
event bus and streams, the job queue, rate limiting, custody handover, short links,
federation, scheduling, the engineering computation (`pkg/cad`, `pkg/engine`,
`pkg/mathcore`, ...), the advisory services, the read-only endpoints, the web
interface and the scripts are not modelled; section 6 and `PROJECT.json` say why.

## 2. The order of the work

1. `SyncLedger`, the abstract promise; `SyncProcessor`, the server side that
   implements it; its proofs.
2. `IdempotencyGuard` and its proofs.
3. `FieldOutbox`, the client; `OfflineSync`, its composition with a lossy network
   and the server; proofs about the two.
4. The services: `TusUpload`, `EdgeLease`, `CircuitBreaker`, `IdentityCache`,
   `SessionLifecycle`, `DeviceEnrollment`, composed for checking in `MCServices`;
   proofs about each of them.
5. The records: `WorkOrder`, `Certificate`, `EvidencePack`, `RingBuffer` with
   the queue it implements (`RingQueue`), composed for checking in `MCRecords`; proofs about each of them.

What would come next: the chain of audit entries (`auditlogpg`), whose fork is listed as
a hazard; the renewal of certificates.

## 3. The modules

### `SyncLedger`

What synchronisation promises, with nothing of how: a device has a log of accepted
envelopes that only grows at its end, by the envelope signed for the next number,
and never holds two payloads of one transaction; a payload may be acknowledged once
it is logged. A transaction is logged once, unless its client signed it again for
another number, as the field application does when it renumbers its outbox.

### `SyncProcessor` (instances in `MCSyncProcessor`)

A step is the code between two points where another goroutine can interleave: a
critical section of `p.mu`, a SELECT, or a COMMIT.

| Variables | Code |
|---|---|
| `receipt`, `applied` | `sync_receipt`: the row's transaction, device, sequence and hash; whether its outcome is APPLIED |
| `heldRow` | `sync_held_transaction`: the device of the row and the envelope in it |
| `lastAccepted` | `sync_device_state.last_accepted_sequence` |
| `registry`, `devices` | `device_registry.state`; `p.devices` |
| `lastSequence`, `transactions`, `held` | the maps of `Processor` |
| `mu`, `deviceLock` | the write lock of `p.mu` when it is held across steps (only a drain does that); the striped locks |
| `pc`, `env`, `cand`, `found` | the handler goroutines |
| `told` | the promises made to clients: APPLIED, DUPLICATE and HELD answers |
| `ledger` | history: for each device, the envelopes that advanced `last_accepted_sequence`, in order |

| Actions | Code |
|---|---|
| `Receive`, `Respond` | `Handler.ServeHTTP` |
| `BeginSubmit` | the device lock, the trust check and all checks up to the signature |
| `LookupReceipt`, `LookupMemory`, `CheckSequence` | the three gates of `SubmitContext`, the last with the policy |
| `SelectReceipt`, `PersistReceipt` / `SelectHold`, `PersistHold` | `SaveReceipt` / `SaveHeld`: what is read, and the writes that take effect together at the COMMIT, where the conditional UPDATE of the sequence and the UNIQUE constraints are evaluated |
| `PublishApplied`, `PublishHeld` | the in-memory updates and the deferred unlock |
| `DrainLock`, `DrainScan`, `DrainSelect`, `DrainCommit` | `DrainHeld`, one pass of its loop after another, with `p.mu` held |
| `DatabaseFails`, `CommitUnacknowledged`, `Restart` | an error of any database call, a COMMIT whose acknowledgement is lost, a process restart |
| `SaveRevocation`, `RevokeDevice` | the revocation handler's durable save and its callback |

Abstractions. Genuine is the set of envelopes that pass every check of identity,
capability, schema, hash and signature; an envelope keeps its transaction, device,
sequence and payload hash. Tenants are one. The database-less processor
(`state == nil`) is a development fallback and is left out. A device in the model
has its row in `sync_device_state`. Two successive reads of `p.transactions` and
`p.held` are one step; the comment at `LookupMemory` says why nothing is lost.

### `IdempotencyGuard` (instances in `MCIdempotencyGuard`)

| Variables | Code |
|---|---|
| `cache` | the committed rows: request hash, response, `expires_at` |
| `advisory`, `rowLock` | the advisory lock of a key; who has deleted an expired row and not yet committed |
| `open`, `since` | open transactions, each on a connection, and their `now()` |
| `pc`, `req`, `response` | the goroutines |
| `clock`, `told` | the database's time; answers of handlers that reached a client |

`BeginTx`, `Lock`, `ReadCached`, `Reclaim`, `Evict` and `Insert` are the statements of
`Acquire` and of the trigger its INSERT fires; `Execute` is the downstream handler;
`Commit` and `Finish` end it. `AcquireFails`, `CommitFails`, `Panic`, `Cancel`
(client gone, or the 30-second timeout of the gate), `Restart` and
`DeadlockDetected` are what can go wrong. A response is its outcome; a database
error is STATE_UNAVAILABLE from the sync handler (an HTTP 200) and UNAVAILABLE
from the others (a 503). Requests refused with 400 touch no state and are left out.

### `FieldOutbox` and `OfflineSync`

| Variables | Code |
|---|---|
| `rows` | the outbox table: a mutation and its state (`OutboxState`) |
| `sequence`, `accepted` | `_sequence`, `_lastAcceptedSequence` of the controller |
| `draft`, `sheet` | the unsealed entry being edited; the entry of the modal review sheet |
| `todo`, `running`, `sent`, `replaying` | the flush: what it listed and has not submitted, its local sequence, the request it awaits |
| `epoch`, `valid` | the provisioned authority, and whether the application may still take it for valid |
| `restarts` | history: how often the application was restarted |
| `net` | requests on their way, given up by the client or not |
| `cache`, `receipt`, `held`, `last` | the server's idempotency rows, receipts, holds and sequence |
| `lapsed` | the authorities that the server's clock is past |

`BeginInspection`, `QueueForSync`, `QueueEdited`, `EditOutboxEntry`, `RetryFailedOutbox`,
`ClearFailures`, `ClearApplied` are the controller's operations; `FlushOutbox`,
`HoldLocally`, `Submit`, `Answered`, `EndFlush` the steps of `SyncClient.flush`; `Replay`
its replay of an accepted entry; `Reconcile` the renumbering that retries and the
start of the application share; `Restart` is `restoreOutbox` of a new process, under the
cached session or under a new authority (`Session`). Provisioning adds an authority to
those the server knows and withdraws none, so `Process` serves a request of an earlier
authority as well as one of the last, until `Lapse` ends it. `Delivered`, `ServedLate`,
`TimesOut`, `Refused` and `Lose` are what the network does with a request and its
answer. The server handles a request in one step here, guard, processor and drain
(`Process`, `Guarded`): its own interleavings are `SyncProcessor`'s and
`IdempotencyGuard`'s.

Abstractions. The application is one event loop: an operation that awaits only the
local database and the signing key is one step, and one flush or replay runs at a
time. A mutation keeps its sequence number, the time of its sealing, which stands for
its payload, and its authority. Every provisioned authority has the epoch 1 in the
code and an identifier of its own; the model numbers the identifiers. The hash chain
and the encryption of rows are left out.

### The services

| Module | Variables and code | Steps |
|---|---|---|
| `TusUpload` | `offset`: the manager's sessions; `file`, `sidecar`: the disk; `creating`, `sweep`: calls under way | `AppendChunk` with `WriteFails` (a torn write) and `SidecarFails`; `SweepList`, `SweepRestore`, `SweepRemove` are the janitor's passes of `RecoverOrphans`; `TusRestart` recovers |
| `EdgeLease` | `lease`, `tomb`, `draft`, `chain`, `drawn`: the tables and the sequence of the log; `submitting`, `overriding`: transactions between two statements | `SubmitUpdate` then `SubmitDiagnose`; `OverrideRead` then `OverrideWrite`; `SweepExpiredLeases` |
| `CircuitBreaker` | `circuit`, `failCount`, `cooled`; `at`: the callers | one per load and store of `Allow`, `RecordSuccess`, `RecordFailure`; `MutexFree` guards those that take the mutex |
| `IdentityCache` | `entry`, `leader`; `resolving`: the goroutines | `Lookup`, `DeleteExpired`, `Join`, `Query`, `StoreEntry`, `Retire`, `Finish`, `Wake` |
| `SessionLifecycle` | `row`; `req`: the requests with what they have read | one per `Get` and `Save` of the store |
| `DeviceEnrollment` | `rec`, `dev`, `auth`, `revoked`, `proc`, `registry`; `calls` | the handlers' steps between mutex and transactions; `Fails`; `ServerRestart` |

Abstractions. Uploads: bytes are numbered, so that a file is whole when it counts
from 1 to `Size`; `recent` stands for the modification time of the file and for
`UpdatedAt`, which the code sets together. Two exceptions in `UploadIntact` are
behaviours of the code: an upload whose session is registered across a sweep's last
look may lose its file (`raced`), and one with a torn write may
hold bytes that were never acknowledged (`failed`). Leases: signatures of the
quorum are taken as valid. Sessions: the PostgreSQL store only; a refresh that read
its row before a revocation can write the tombstone away, which `tombstoned` keeps
apart from the tombstones the properties speak of. An override record names its
sub-assembly, its epoch and its draft independently of each other, as in the code,
and any record may be presented at any time; a stale one is refused by
`FreshOverride`. Breaker: callers pass a database
and a scope; the mutex is held across two steps only between the two stores of
`RecordSuccess` (`ResetLocked`, `Close`), so that a caller there stands for it.

### The records

| Module | Variables and code | Steps |
|---|---|---|
| `WorkOrder` | `order`, `asg`, `insp`, `segment`, `prov`: the tables; `log`: `work_order_operation`; `call` | `Validate` (outside the transaction), `Find` (a receipt), `Start` (the transaction's own lookup), `Commit` (the locked order to the commit) |
| `Certificate` | `cert`, `nextValue`, `audit`; `issuing`, `attesting`: transactions under way | one per transaction, two for `Attest` and for `Issue` |
| `EvidencePack` | `packs`, `releases`; `editing`: what each call has loaded | the load and the write of `UpdateStatus` |
| `RingBuffer` | `head`, `tail`, `cells`; `op`: the goroutines | one per atomic operation and per plain access of the value |

Abstractions. An order's commands keep the fields that decide about them; the
constant `Fingerprint` is the set of provisional records' fingerprints. An
inspection belongs to the assignment it was made under. Certificates may expire at
any moment after their issue. The ring's counters are 64 bits and do not wrap.

`RingQueue` is what the ring promises its callers: a bounded queue whose `Push`, `Pop`
and `Return` are each one step. `RingBuffer` maps its own state to it.

### `MCServices` and `MCRecords`

These put components that share no state side by side: a behaviour is of one of
them, chosen in the first state, and the others stay as they are. The states visited
are the sum, not the product, and each property is decided in the behaviours of its
own component. Nothing is claimed of their interaction.

## 4. What the runs check

Definitions whose name has a second part after an underscore (`Commit_LeaksFailure`)
are faulty variants of the definition they stand beside, for testing that the
properties notice such a fault. No action uses them.

| Run | Instance | Shows |
|---|---|---|
| `contended` | two transactions that contend for a sequence, one of them re-signed for the numbers before and after its own, an edited payload, a forgery, a policy refusal, a revocation, faults, 1 restart, 2 goroutines; 2 584 000 states | `TypeOK`; `AnswersAreDurable`, `MemoryIsDurable`, `WatermarkBacked`, `AcknowledgedIsConsumed`, `LedgerExact`, and that the processor implements `SyncLedger` (`ImplementsLedger`) |
| `liveness` | 3 mutations of a device in a chain, fair goroutines, 1 restart; 94 000 states | `EveryRequestAnswered`, `ChainConverges` |
| `claims` | 3 requests, one key reused with another body, every failure; 402 000 states | `TypeOK`, `OneAnswerPerKey`, `ClaimsAreReleased` |
| `waiting` | responses that expire, 2 requests, 2 ticks, fairness; 83 000 states | `LeaderFindsNoAnswer`, and `EveryRequestEnds` through lock waits, evictions and deadlocks |
| `outbox` | every operation of the client but a retry inside a flush, 2 transactions, 1 request under way, 1 restart; 5 215 000 states | `TypeOK`; `AcknowledgedIsApplied`, `WorkIsKept`: nothing is shown as applied that the server lacks, or has with another payload than a sealed entry shows; no captured work disappears |
| `delivery` | 2 transactions, 2 requests under way, 1 restart, expiry of the authorities by either clock, fairness; 140 000 states | `SessionDelivers` until the authority expires or the application restarts; `WatermarksAgree` |
| `services` | the six services side by side; 304 000 states | uploads: `UploadIntact`, `RestartResumes`; leases: `LeasesAreAccounted`, `ExpiredIsResolved`; breaker: `ClosedBelowLimit`, `BreakerRecovers`; cache: `OneQueryAtATime`, `EveryResolveReturns`; sessions: `RevokedIsRefused`; enrolment: `WithdrawnNeverAuthorises`, `SingleUse` |
| `records` | the four records side by side; 1 350 000 states | orders: `NoLostUpdate`, `AppliedOnce`, `SubmittedOnce`, `OneActiveAssignment`; certificates: `NumbersAreGapless`, `CertificateHistory`; packs: `ApprovedBeforeRelease`; ring: that it implements `RingQueue` (`ImplementsQueue`) |

Four runs end in a violation, each of a sentence of the repository:

| Run | Sentence | What the code does |
|---|---|---|
| `hold_left_behind` | `internal/syncapi/http.go:232`: the cascade drains "any held transactions awaiting this sequence" | a hold saved after the drain scanned past its sequence stays behind with nothing in flight; only another applied submission of the device, or the client's own retry, frees it |
| `restart` | `field_app/lib/application/field_app_controller.dart:111-114`: reconciled entries are returned "to `queued` so the next flush can deliver them ... (applied becomes a harmless duplicate)" | a restart numbers on from the pending rows and forgets a rejected one: a new mutation takes its number, is applied, and its answer is lost; the retry then renumbers both, one is stale and the other a payload conflict, for good |
| `released_reopened` | `internal/domain/evidencepack/evidencepack.go:302`: "RELEASED can only transition to SUPERSEDED" | an approval that loaded the release before it was approved and released by others writes APPROVED over RELEASED |
| `single_cell` | `pkg/perf/ring/ring.go:63`: TryPush "reports false when the ring is full; the item is not placed" | with one cell, which the constructor accepts, the sequence a push leaves is the one the next position waits for: a second push overwrites the item and returns true |

Other places where the code and a sentence about it part are behaviours of the models,
and `PROJECT.json` lists them as hazards. A retry that the drain overtakes is answered
CONFLICT, and `SaveHeld` can recreate a held row the drain removed, where the decision
of 2026-08-21, line 11, says DUPLICATE and "removes the held envelope". The drain does
not ask the policy, which `internal/domain/sync/preacceptance.go:5-7` puts before any
receipt. After a cancelled claim two handlers of one key run at once
(`internal/idempotency/store.go:30-31`). A database error is replayed as the answer of
a key, as HTTP 200 (`internal/idempotency/postgres.go:24-25` says failures are not
cached). An entry that is edited and sealed again while its old body is in a running
flush is marked applied by the old body's answer
(`field_app/lib/sync/sync_client.dart:24-60`: `mark` writes whatever row the
transaction has): the edit looks applied and never was. That is why
`AcknowledgedIsApplied` compares the payload of untouched entries only; TLC refutes it
at once without the exemption.

The field application signs a mutation again when it renumbers its outbox
(`reconcileOutboxIdentities`), and a late request may then meet the new one. In
`contended` one transaction is signed for three numbers, and TLC reaches states in which
it was accepted at two of them: a submission and a drain have both read its HELD receipt,
and `SaveReceipt` does not look at the row count of the UPDATE that makes it APPLIED
(`internal/syncstate/postgres.go:248`). In memory, `lastSequence` may then lead
`last_accepted_sequence`: a drain that finds its candidate applied counts up, though it
was applied under another number. Neither disturbs the ledger: each number
is still taken by one envelope, signed for it, and no transaction has two payloads in it.
`LedgerExact`, `AcknowledgedIsConsumed` and `WatermarkBacked` say so, and say more of the
transactions that were never re-signed: one number each, that of their receipt, and no
lead of the memory.

### Bounds

*Sync processor.* `CrashBudget` bounds restarts: one is enough to lose all memory, and
a second starts from states the first can produce. Three mutations are the fewest that
let a drain apply two in a row while another is being held. Two goroutines are the
fewest that interleave; every hazard listed is a race of two. `contended` has two
transactions over three sequences, one signed for each of them; the chain of three
transactions is in `liveness` and `hold_left_behind`. A goroutine is freed when it
answers and takes any envelope again, so retries and repetitions are not bounded.

*Guard.* `MaxClock` bounds the clock: with `TTL` 1 and two ticks a response can
expire, be replaced, and its replacement reach the boundary. `claims` lets no time
pass (`OneAnswerPerKey` is about responses in force) and `waiting` lets it pass.
`Conns` is one more than the number of requests: then a handler always finds the
second connection it needs. The code does not guarantee it: the gate admits 1000
requests to a pool of 90 (`INTEGIN_DB_MAX_OPEN_CONNS`), and as many claims as there
are connections wait for each other until their 30-second timeout.

*Client.* Two transactions (`MaxTx`) are the fewest that can exchange numbers, two
seals (`MaxSeal`) let one be signed again, `MaxSequence` 3 leaves a number beyond
both, and two requests under way (`MaxNet`) let a late one overtake its repetition.
`MaxEpoch` bounds the provisioned authorities and `MaxRestarts` the restarts: one
restart and two authorities are the fewest in which a request of one authority is served
after the application was given another, or after it took the same one up again.
`outbox` has the operator's edits, clearings, purges and replays with one request and a
restart; a retry inside a flush, which multiplies its states, is left to the proofs of
section 5, which cover it. `delivery` and `restart` have two requests, and of the
optional operations only the expiry.

*Services.* An upload of 3 bytes in chunks of 2 has a full and a partial chunk. Two
sub-assemblies with 2 epochs, a tick, a submission and 2 inserted events let a lease
be dispatched over its overrun one, two overrides overlap and fork the log, and a
record that names the other sub-assembly's draft release a lease that was dispatched
since. Three callers with a limit of 2 failures let one probe while
another still counts. Three resolvers let one join a call while another misses it. A
revocation races one request that began before and one after it. Two enrolment
requests, 4 calls and 3 authority epochs let a device be revoked, approved again and
revoked beside a proof that is repeated.

*Records.* Three calls of two keys, two of them at once, include a retry beside its
first attempt and a stale command; an order begins fresh or under way, which spares
the calls that bring it there. Clients choose the revision and state an order starts
with; the model fixes them to those two, since commands compare revisions with the
order's and with nothing absolute. Three certificates of two inspections of an asset
are the fewest for a chain of supersessions and for a rival successor. Two editors are
the race of the releases. A ring of 2 cells with 4 pushes goes round twice.

`CHECK_DEADLOCK FALSE` stands where a bound ends the behaviour: a ring that has
taken its pushes, an outbox whose transactions are all delivered.

### Fairness

`SyncProcessor!FairSpec` has strong fairness of each goroutine, because what it
waits for is a Go mutex, which hands over to a waiter that has waited too long; and
strong fairness of each envelope's resubmission, because the field client keeps
what is not acknowledged (`field_app/ARCHITECTURE.md:14`; the decision of 2026-08-21,
line 15: "The Field client remains responsible for resubmitting"). The run excludes
database faults: with endless faults nothing converges.

`IdempotencyGuard!FairSpec` has strong fairness of each request's steps: PostgreSQL
queues lock waiters, the pool serves its waiters first-in first-out, deadlocks are
detected, and handlers end. Nothing is assumed of `Cancel`, of failures or of new
requests.

`OfflineSync!FairSpec`: the event loop goes on (weak fairness of the flush's own
steps, of sending, and of the transport's timeout); the operator, for whom the
application offers the buttons as long as entries are pending or failed, presses them
again and again and the device key signs (strong fairness of `FlushOutbox` and
`RetryFailedOutbox`); a request that is sent again and again is answered in time once
(strong fairness of `Delivered` of an acknowledging answer); a request given up ends,
and cached responses expire. Nothing is assumed of restarts, refusals, new work, or
the end of an authority on either side.

`EdgeFairness`: the sweep is called from a ticker (strong, because a lease may be
dispatched and end in between), and an override transaction ends.
`BreakerFairness`: time passes and a goroutine that has begun goes on; that the
database answers from some moment on is the hypothesis of `BreakerRecovers`.
`CacheFairness`: a resolver goes on; a query ends.

## 5. What is proved

The constants are arbitrary: any number of devices, transactions, envelopes,
goroutines, keys, tokens, requests, calls, restarts.

`SyncProcessorProofs` - `TypeCorrect`. The invariant `TypeInv` adds to `TypeOK` that
a goroutine past its first step carries an envelope and a draining one a candidate
when it needs one (`Carrying`).

In the same module, `AnswersDurable` and `MemoryDurable`. The invariant
`DurableInv` adds `Backed` to the two properties: between its COMMIT and its answer,
a goroutine's claim is already true of the tables. Each step is then one of three:
the tables only grow in what they vouch for (lemmas about `CommitReceipt` and
`CommitHold`), memory takes over what a backed goroutine knows, or an answer is given
from a backed one. No assumption about the clients.

`SyncLedgerProofs` - `LedgerCorrect`, `AcknowledgedConsumed`, `WatermarkCorrect`, for
every set of envelopes: a transaction may be signed for any numbers and devices.
`LedgerInv` adds that the tables are consistent (a receipt is under its own identifier,
a held row under its receipt's device) and ties the history `ledger` to them: what is
logged has a receipt of its payload. That a step which writes a receipt appends the next
number, and one at most, is the conditional UPDATE of the sequence (`ReceiptKeepsLedger`).
`WatermarkCorrect` needs that drains exclude each other (`DrainExclusive`) and that what a
drain has picked is signed for its device and stays next while the watermark stands
(`PickedNext`).

The same module has `Refinement`: every step appends the next envelope to one device's
log or leaves the logs alone, and acknowledges only what is logged. The mapping reads
the logs off `ledger` and the payloads acknowledged off `told`.

`IdempotencyGuardProofs` - `GuardTypeCorrect`, `NothingLeaks`, `OneExecution`: the
invariant `GuardInv` says that a request past `Lock` owns its key's advisory lock
(`Owned`), that its transaction is open (`InFlightIsOpen`), and that every lock
belongs to an open transaction. `OneExecution` follows because only the owner of a
key's advisory lock can write its row. `OneAnswer` assumes `TTL > MaxClock`, that no
response expires; with expiry the property is not meant to hold.

`LockFreeProofs` has the three components that synchronise by atomic operations.

- Breaker: `BreakerTypeCorrect`, `ClosedStaysBelowLimit`. A closing `RecordSuccess`
  stores the count and then the state, and failures are counted without the lock
  between the two, so the property is not inductive. `CountedIsOpening` treats a
  circuit whose closing has begun as closed already: its count starts again from zero,
  and the failure that brings it to the limit leaves its caller about to open the
  circuit, for which it waits until the mutex is free.
- Ring: `RingTypeCorrect`, `RingKeepsOrder`, `RingImplementsQueue`. They assume
  `Capacity >= 2`; `single_cell` shows that the second is false without it. Of the positions from `tail` to `tail +
  Capacity`, `RingInv` says that one claimed by a push is being written or holds its
  item (`Claimed`), and that any other is free or its cell still read by the pop of the
  round before (`Unclaimed`). Of each goroutine it says what it may rely on (`Pushing`,
  `Popping`): a sequence number it compared stays as long as its counter has not moved,
  which is what makes the swap of the counter a claim of the cell. `OneReader`: no two
  consumers hold a position. That these positions are in different cells is arithmetic
  modulo the capacity. The refinement reads the queue off the positions from `tail` to
  `head` (`Contents`) and what a pop has in hand off its own operation (`Taken`): a push
  or pop takes effect at the swap that claims its position, the later reads and writes
  are stutters (`PushRefines`, `PopRefines`), and that the read finds the item of its
  position is `RingInv`.
- Identity cache: `CacheTypeCorrect`, `MissesShareOneQuery`. `CacheInv` says that the
  goroutine between its claim and its retirement is `leader`, so there is one, and that
  whoever waits has joined a call that has not answered its joiners yet.

`OfflineSyncProofs` - `OfflineTypeCorrect`, `AcknowledgedWasApplied`,
`WorkIsNeverLost`, of the client, the network and the server together, with all the
operator's operations at once and restarts, under a cached session or a new authority,
while the server still serves what was signed under the earlier ones. `OfflineInv`
adds to the properties that a cached answer which acknowledges is about applied work,
so that it may be replayed at any time, and that what the server holds it has a
receipt of, so that a drain revokes nothing (`ServerInv`). The server's side of the
argument is that a step keeps applied receipts applied (`Remembers`, `Guarded_Inv`);
the client's is one lemma about a step that keeps the work (`WorkStays`), to which the
steps are brought: those that leave the rows alone (`SessionStep`), those that change
them without the server (`RowsStep`), a renumbering (`Reconciled`: it touches neither
acknowledged nor abandoned rows and queues the others under their seal), and an answer
(`Answered_Inv`). For the payload, `PayloadInv` says that whatever travels for a
transaction the operator has not touched - listed, sent, delayed in the network -
carries the seal of its row, and so does its receipt (`Fits`). A step keeps that if it
seals only what is new or touched (`SameSeal`) and records receipts only from requests
that fit (`Sealed`).

In the same module, `WatermarksMeet`: `WatermarksAgree` for an operator who neither
purges, nor replays, nor retries during a flush (`Steady`); the end of this section says
why it is false for the others. Two counts meet in it. The server's: its number is that
of the transactions it applied, because an acceptance takes the next number and a drain
one number for each transaction it applies, none of which was applied before
(`ServerCounts`, which needs no assumption). The client's: as long as nothing was
unsealed or cleared, the number it has reached, in a flush or at rest, is that of its
acknowledged entries and the highest of theirs (`Counted`), because an answer it is
still waiting for is to the very number after it, for an entry that still waits and
carries that number (`InOrder`). A restart, which rebuilds the number from the rows,
therefore finds the same one (`ReconcileCounts`). When all is acknowledged and quiet,
the two sets of transactions are one, by the invariants above.

`UploadLeaseProofs` has the two components whose records outlive their callers.

- Leases: `EdgeTypeCorrect`, `LeasesStayAccounted`. `EdgeInv` orders the epochs of a
  sub-assembly (`LeaseInv`): no tombstone, draft or submission is of a later epoch
  than the lease, and the state of the lease tells what became of its own epoch.
  Because an override may name a draft of another lease, a draft waits for the lease
  in overrun or is one that such an override left behind (`Stranded`), and a lease in
  overrun has its draft or one such event has merged it (`MergedElsewhere`). `LockInv`
  says that a tombstone keeps its epoch while an override has it locked. `ChainInv`
  makes the audit chain the drafts merged, each once, with a last event. An override
  that read a draft before another merged it finds it merged, because a draft never
  leaves MERGED.
- Uploads: `TusTypeCorrect`, `UploadsStayIntact`, and the action property
  `UploadsSurviveRestart`. `TusInv` says what a file without a session, a session
  without a file, and the two together mean (`SessionAndFile`); that an upload being
  created has no sidecar, and nothing written or told (`BeingCreated`); and that what a
  sweep has listed and does not track has no session and gets none, except one that
  Create registers after the sweep's second look (`SweepInv`). Lemmas about the
  numbered bytes (`BytesJoin`, `BytesCut`) carry appends and truncations. A by-product
  (`SweepRestoresNothing`): a janitor's sweep of a running process never restores an
  upload; restoring is the work of a restart.

`RecordsProofs` has the records.

- Releases: `PackTypeCorrect`, `ReleasedWasApproved`. The rows that editors have loaded
  and will write back are part of `PackInv`: a stale row may overwrite a fresh one, but
  it was itself approved before it says RELEASED.
- Certificates: `CertTypeCorrect`, `IssuedNumbersHaveNoGap`, `OneHistory`. `CertInv`
  counts issues under way, of which there is one at most (the lock of the number
  sequence), says what each certificate's audit events tell of it (`Tells`), and that
  the numbers are those before `nextValue` (`Numbered`). A number drawn by an issue that
  fails is drawn again, because the draw is rolled back with it.
- Work orders: `WoTypeCorrect`, `NoUpdateIsLost`, `CommandsAppliedOnce`,
  `InspectionsSubmittedOnce`, `AssignmentsExclude`. The four properties are inductive
  together, with two facts more: a command that changes the order was made from a
  revision below the bound (`Grows`), and an order at revision 0 has no logged
  changes. The log is of any length, the calls any number.

`TrustProofs` - `SessionTypeCorrect`, `TombstonesAreKept`,
`RevokedIsRefusedAlways`. The invariant `SessionInv` says that a tombstone which no
refresh overlapped is in its row (purges spare it), and, for each request (`Fits`), that
a copy it will save shows the tombstone. A refresh can lose a tombstone only through
an earlier copy, which is what "overlapped" means; a request that begins later
therefore meets the tombstone at each of its reads that succeeds.

The same module has `WithdrawnStaysWithdrawn` and `RequestsAreSingleUse`, of
enrolment. The invariant `EnrolInv` says that after an answered revocation the
device's row is REVOKED and the processor does not trust it (`StaysWithdrawn`), and
that an approved request has a record whose proof is consumed, so that nothing
replaces it (`ApprovedIsConsumed`). The first is needed because a restart loads the
maps from the tables, the second because a proof read before the approval may arrive
after it. `EnrolTypeCorrect` has an invariant of its own, `EnrolTypes`: what its
bounds rest on is that a record is replaced by a proof once at most before the process
restarts, which forgets it (`RowsTyped`), and that a revocation under way has only
saved packages left, in a call whose identifier no other has (`CallsTyped`).

The compositions that TLC runs are proved from these parts: `ServicesTypeCorrect` (in
`TrustProofs`, for finitely many calls of the enrolment) and `RecordsTypeCorrect` (in
`RecordsProofs`, for a ring of two cells or more). A step of a composition is a step of
each component or leaves it alone (`StepsOfOneService`, `StepsOfOneRecord`), so that
whatever is proved inductive of a component holds of the composition too.

The assumptions on the constants are named and stand in the modules that declare them
(`UploadAssumption`, `RingAssumption`, `WoAssumption`, ...): kinds of values are
disjoint, bounds are natural numbers. TLC evaluates them in every run.

Only model-checked: the liveness properties (`EveryRequestAnswered`, `ChainConverges`,
`EveryRequestEnds`, `SessionDelivers`, `ExpiredIsResolved`, `BreakerRecovers`,
`EveryResolveReturns`), which rest on fairness and ENABLED and are out of the proof
system's reach; and the four violations.

`WatermarksAgree` is false once the operator may do one of three things, as TLC shows
when `Operations` of `delivery` names it, which is why `WatermarksMeet` excludes them.

- `purge`: acknowledged entries are cleared before the flush that submitted them ends,
  or before a restart; the client derives its number from the rows it still has.
- `replay`: the replay of an accepted entry meets a transient status, which marks the
  entry rejected; a retry numbers it anew, after itself; the server answers DUPLICATE
  of the old number, and the client takes the new one for accepted.
- `retry_in_flush`: a retry while a flush goes on numbers the waiting entries from an
  accepted sequence that the flush has yet to update; what was listed is applied under
  its old number and its row keeps the new one.

## 6. Not modelled

In the modelled components: cryptography, JSON, logging, HTTP validation, and tenants
other than one; the notes of `PROJECT.json` name the operations left out of each.

Of the other components, with the reason:

- the engineering computation, the rules engine, jurisdictions and standards (by far
  the largest part of the code): numerical functions over floating-point values and
  documents, without steps or actors, which TLC cannot evaluate;
- schema negotiation, device proofs, work-package manifests, timestamps, licensing,
  federation, Merkle proofs: signature checks and comparisons of single values;
- custody handover: its UPDATE compares the revision in the statement that writes it;
- the job queue: an adapter of a library that owns leases and retries;
- the audit chain and the event store: a short append whose race is a listed hazard;
- short links, read-only endpoints, settings, reports: CRUD over single rows;
- the concurrency gate's semaphores, the event bus, the stream hub, the rate limiter:
  nothing of theirs interleaves beyond one lock or one channel operation;
- the wiring of the server, the web interface and the scripts: no state of their own.

The in-memory processor of `internal/sync` predates the modelled one and is not
booted. A large part of the implementation is therefore outside these models; they
cover the parts in which actors and failures meet.
