------------------------- MODULE IdempotencyGuard -------------------------
(***************************************************************************)
(* The guard in front of /sync and /evidence (internal/idempotency): a     *)
(* request claims its Idempotency-Key in a PostgreSQL transaction that     *)
(* stays open while the downstream handler runs, and the response it       *)
(* commits is replayed to later requests of the key.                       *)
(*                                                                         *)
(* A step of the model is one SQL statement of the claim, or the end of    *)
(* the handler.  The claim runs at READ COMMITTED: every statement sees    *)
(* what is committed when it starts, and waits for the rows other open     *)
(* transactions have deleted; now() is the time the transaction began.     *)
(* All of it belongs to one tenant and organization, because row-level     *)
(* security hides the rows of the others.                                  *)
(*                                                                         *)
(* A response is its outcome.  A database error is reported under HTTP 200 *)
(* by the sync processor (SECURITY_FAILURE, "durable sync state is         *)
(* unavailable": STATE_UNAVAILABLE here) and as a 503 by the other         *)
(* handlers (UNAVAILABLE).                                                 *)
(***************************************************************************)
EXTENDS Naturals, FiniteSets

CONSTANTS
    Key,        \* cache row keys: hashes of organization, endpoint and client key
    Request,    \* the requests clients may send, a set of [key, body]
    Req,        \* handler goroutines that may run at the same time
    Answers,    \* what a handler may answer when nothing fails
    Conns,      \* the size of the database connection pool
    TTL,        \* how long a response is replayed
    MaxClock,   \* bound on the passing of time
    FaultyDB,   \* whether database calls may fail
    None        \* no row, no lock, no request

Failures == {"STATE_UNAVAILABLE", "UNAVAILABLE"}
Response == Answers \cup Failures

ASSUME RequestAssumption ==
    \A q \in Request : q = [key |-> q.key, body |-> q.body] /\ q.key \in Key

ASSUME ResponseAssumption == Failures \cap Answers = {}

ASSUME BoundsAssumption ==
    /\ Conns \in Nat /\ MaxClock \in Nat /\ TTL \in Nat \ {0}
    /\ FaultyDB \in BOOLEAN

Row == [body : {q.body : q \in Request}, response : Response, expires : Nat]

ASSUME NoneAssumption == None \notin Row /\ None \notin Req /\ None \notin Request /\ None \notin Response

VARIABLES
    cache,      \* sync_idempotency_cache: the committed rows by key
    rowLock,    \* the request whose open transaction has deleted the row
    advisory,   \* the request that holds the advisory lock of a key
    open,       \* the requests whose transaction is open, on a connection
    since,      \* now() in their transaction
    pc,         \* where each goroutine is
    req,        \* the request it handles
    response,   \* what its handler answered
    clock,      \* the time
    told        \* <<request, response>>: the answers of handlers that reached a client

store == <<cache, rowLock, advisory, open>>
vars  == <<store, since, pc, req, response, clock, told>>

(* Program points of Acquire at which the transaction is open, then those of *)
(* the leader.  A detached handler has lost its claim and still runs.        *)
Acquiring == {"lock", "read", "reclaim", "evict"}
Leading   == {"execute", "commit"}
PC == {"idle", "connect", "detached"} \cup Acquiring \cup Leading

Init ==
    /\ cache = [k \in Key |-> None]
    /\ rowLock = [k \in Key |-> None]
    /\ advisory = [k \in Key |-> None]
    /\ open = {}
    /\ since = [r \in Req |-> 0]
    /\ pc = [r \in Req |-> "idle"]
    /\ req = [r \in Req |-> None]
    /\ response = [r \in Req |-> None]
    /\ clock = 0
    /\ told = {}

-----------------------------------------------------------------------------
Goto(r, label) ==
    /\ pc' = [pc EXCEPT ![r] = label]
    /\ UNCHANGED <<since, req, response, clock, told>>

(* Nothing is left of r but, possibly, the answer of a handler. *)
Leave(r, answers) ==
    /\ pc' = [pc EXCEPT ![r] = "idle"]
    /\ req' = [req EXCEPT ![r] = None]
    /\ since' = [since EXCEPT ![r] = 0]
    /\ response' = [response EXCEPT ![r] = None]
    /\ told' = told \cup {<<req[r], a>> : a \in answers}
    /\ UNCHANGED clock

Freed(locks, r) == [k \in Key |-> IF locks[k] = r THEN None ELSE locks[k]]

(* The transaction ends: its locks and its connection are free again. *)
EndTx(r) ==
    /\ rowLock' = Freed(rowLock, r)
    /\ advisory' = Freed(advisory, r)
    /\ open' = open \ {r}

Rollback(r) == EndTx(r) /\ UNCHANGED cache

(* The committed row that readCached finds, and the row a DELETE reclaims. *)
Live(r)     == cache[req[r].key] # None /\ cache[req[r].key].expires > since[r]
Stale(r, k) == cache[k] # None /\ cache[k].expires <= since[r]

(* The rows the eviction trigger of r has yet to delete. *)
Evictable(r) == {k \in Key : cache[k] # None /\ cache[k].expires < since[r] /\ rowLock[k] # r}

-----------------------------------------------------------------------------
(* Acquire *)

Receive(r, q) ==
    /\ pc[r] = "idle"
    /\ pc' = [pc EXCEPT ![r] = "connect"]
    /\ req' = [req EXCEPT ![r] = q]
    /\ UNCHANGED <<store, since, response, clock, told>>

BeginTx(r) ==
    /\ pc[r] = "connect"
    /\ Cardinality(open) < Conns
    /\ open' = open \cup {r}
    /\ pc' = [pc EXCEPT ![r] = "lock"]
    /\ since' = [since EXCEPT ![r] = clock]
    /\ UNCHANGED <<cache, rowLock, advisory, req, response, clock, told>>

Lock_Unserialized(r) ==
    /\ pc[r] = "lock"
    /\ Goto(r, "read")
    /\ UNCHANGED store
Lock(r) ==
    /\ pc[r] = "lock"
    /\ advisory[req[r].key] = None
    /\ advisory' = [advisory EXCEPT ![req[r].key] = r]
    /\ Goto(r, "read")
    /\ UNCHANGED <<cache, rowLock, open>>

(* A live row answers the request: its response, or a conflict. *)
SameRequest_AnyBody(r) == Live(r)
SameRequest(r) == Live(r) /\ cache[req[r].key].body = req[r].body

ReadCached(r) ==
    /\ pc[r] = "read"
    /\ \/ SameRequest(r) /\ Rollback(r) /\ Leave(r, {cache[req[r].key].response})
       \/ Live(r) /\ ~SameRequest(r) /\ Rollback(r) /\ Leave(r, {})
       \/ ~Live(r) /\ Goto(r, "reclaim") /\ UNCHANGED store

(* DELETE the expired row of the key, once no other transaction has. *)
Reclaim(r) ==
    LET k == req[r].key IN
    /\ pc[r] = "reclaim"
    /\ \/ Stale(r, k) /\ rowLock[k] = None /\ rowLock' = [rowLock EXCEPT ![k] = r]
       \/ ~Stale(r, k) /\ UNCHANGED rowLock
    /\ Goto(r, "evict")
    /\ UNCHANGED <<cache, advisory, open>>

(* The trigger of the INSERT deletes the expired rows of every key. *)
Evict(r, k) ==
    /\ pc[r] = "evict"
    /\ k \in Evictable(r)
    /\ rowLock[k] = None
    /\ rowLock' = [rowLock EXCEPT ![k] = r]
    /\ UNCHANGED <<cache, advisory, open, since, pc, req, response, clock, told>>

(* The INSERT waits for one of the same key by an open transaction. *)
Insert(r) ==
    /\ pc[r] = "evict"
    /\ Evictable(r) = {}
    /\ \A q \in Req \ {r} : pc[q] \in Leading => req[q].key # req[r].key
    /\ Goto(r, "execute")
    /\ UNCHANGED store

-----------------------------------------------------------------------------
(* The downstream handler runs while the claim is open, and takes a second *)
(* connection for its own database calls.                                  *)
Execute(r, a) ==
    /\ pc[r] = "execute"
    /\ Cardinality(open) < Conns
    /\ response' = [response EXCEPT ![r] = a]
    /\ pc' = [pc EXCEPT ![r] = "commit"]
    /\ UNCHANGED <<store, since, req, clock, told>>

(* 5xx responses are not recorded. *)
Cacheable(a) == a # "UNAVAILABLE"

Record_StillInProgress(r) ==
    cache' = [cache EXCEPT ![req[r].key] =
        [body |-> req[r].body, response |-> None, expires |-> since[r] + TTL]]
Record(r) ==
    cache' = [k \in Key |->
        CASE k = req[r].key -> [body |-> req[r].body, response |-> response[r], expires |-> since[r] + TTL]
          [] k # req[r].key /\ rowLock[k] = r -> None
          [] OTHER -> cache[k]]

Commit_LeaksFailure(r) ==
    /\ pc[r] = "commit"
    /\ \/ Cacheable(response[r]) /\ Record(r) /\ EndTx(r)
       \/ ~Cacheable(response[r]) /\ UNCHANGED store
    /\ Leave(r, {response[r]})
Commit(r) ==
    /\ pc[r] = "commit"
    /\ \/ Cacheable(response[r]) /\ Record(r) /\ EndTx(r)
       \/ ~Cacheable(response[r]) /\ Rollback(r)
    /\ Leave(r, {response[r]})

(* A handler whose claim is gone ends, unheard. *)
Finish(r) ==
    /\ pc[r] = "detached"
    /\ Leave(r, {})
    /\ UNCHANGED store

-----------------------------------------------------------------------------
(* Failures *)

(* A statement of Acquire fails: 503. *)
AcquireFails(r) ==
    /\ FaultyDB
    /\ pc[r] \in {"connect"} \cup Acquiring
    /\ Rollback(r)
    /\ Leave(r, {})

(* PostgreSQL breaks a cycle of transactions that wait for each other. *)
WaitsFor(r, q) ==
    \/ pc[r] = "reclaim" /\ Stale(r, req[r].key) /\ rowLock[req[r].key] = q
    \/ pc[r] = "evict" /\ \E k \in Evictable(r) : rowLock[k] = q

DeadlockDetected(r) ==
    /\ \E S \in SUBSET Req :
          /\ r \in S
          /\ \A q \in S : (\E p \in S : WaitsFor(q, p)) /\ (\E p \in S : WaitsFor(p, q))
    /\ Rollback(r)
    /\ Leave(r, {})

(* The COMMIT fails, or succeeds and the leader does not learn it: 500. *)
CommitFails(r) ==
    /\ FaultyDB
    /\ pc[r] = "commit"
    /\ Cacheable(response[r])
    /\ \/ Rollback(r)
       \/ Record(r) /\ EndTx(r)
    /\ Leave(r, {})

(* The handler panics: Done. *)
Panic(r) ==
    /\ pc[r] = "execute"
    /\ Rollback(r)
    /\ Leave(r, {})

(* The request's context ends, because its client is gone or the timeout has *)
(* answered it: database/sql rolls the transaction back at once, while the   *)
(* handler keeps running.                                                    *)
Cancel(r) ==
    /\ pc[r] \notin {"idle", "detached"}
    /\ Rollback(r)
    /\ \/ pc[r] # "execute" /\ Leave(r, {})
       \/ pc[r] = "execute" /\ Goto(r, "detached")

Restart ==
    /\ rowLock' = [k \in Key |-> None]
    /\ advisory' = [k \in Key |-> None]
    /\ open' = {}
    /\ since' = [r \in Req |-> 0]
    /\ pc' = [r \in Req |-> "idle"]
    /\ req' = [r \in Req |-> None]
    /\ response' = [r \in Req |-> None]
    /\ UNCHANGED <<cache, clock, told>>

Tick ==
    /\ clock < MaxClock
    /\ clock' = clock + 1
    /\ UNCHANGED <<store, since, pc, req, response, told>>

-----------------------------------------------------------------------------
Answered(r) == \E a \in Answers \cup (IF FaultyDB THEN Failures ELSE {"UNAVAILABLE"}) : Execute(r, a)

Handle(r) ==
    \/ BeginTx(r) \/ Lock(r) \/ ReadCached(r) \/ Reclaim(r)
    \/ \E k \in Key : Evict(r, k)
    \/ Insert(r)
    \/ Answered(r)
    \/ Commit(r) \/ Finish(r)
    \/ DeadlockDetected(r)

Next ==
    \/ \E r \in Req, q \in Request : Receive(r, q)
    \/ \E r \in Req : Handle(r) \/ AcquireFails(r) \/ CommitFails(r) \/ Panic(r) \/ Cancel(r)
    \/ Restart
    \/ Tick

Spec == Init /\ [][Next]_vars

(* PostgreSQL grants an advisory lock, a row lock and the pool a connection *)
(* in the order of the queue, and the handlers end: a step that keeps       *)
(* becoming possible is taken.  Nothing says that a client gives up.        *)
FairSpec == Spec /\ \A r \in Req : SF_vars(Handle(r))

-----------------------------------------------------------------------------
TypeOK ==
    /\ cache \in [Key -> Row \cup {None}]
    /\ rowLock \in [Key -> Req \cup {None}]
    /\ advisory \in [Key -> Req \cup {None}]
    /\ open \subseteq Req
    /\ since \in [Req -> Nat]
    /\ pc \in [Req -> PC]
    /\ req \in [Req -> Request \cup {None}]
    /\ response \in [Req -> Response \cup {None}]
    /\ clock \in Nat
    /\ told \subseteq Request \X Response

(* No handler is run for a key whose recorded response is still in force,  *)
(* as its transaction sees the time: concurrent requests of a key, restarts *)
(* and lost connections never make a second execution of what was answered. *)
LeaderFindsNoAnswer == \A r \in Req : pc[r] \in Leading => ~Live(r)

(* A key has one answer: as long as no response expires, whoever asks under *)
(* it is told the same recorded response, and only for the same request.    *)
OneAnswerPerKey ==
    \A a, b \in told :
        a[1].key = b[1].key /\ Cacheable(a[2]) /\ Cacheable(b[2]) => a = b

(* Transactions that hold the claim of a key exclude each other, and the    *)
(* connections in use are those of requests in flight: no path leaks one.   *)
ClaimsAreReleased ==
    /\ \A r \in open : pc[r] \in Acquiring \cup Leading
    /\ \A k \in Key : {advisory[k], rowLock[k]} \subseteq open \cup {None}

(* Every request ends although its key is claimed, expired rows are being   *)
(* evicted by others, or the transactions deadlock, if the pool is large.   *)
EveryRequestEnds == \A r \in Req : pc[r] = "connect" ~> pc[r] = "idle"
=============================================================================
