--------------------------- MODULE CircuitBreaker ---------------------------
(***************************************************************************)
(* The circuit breaker every tenant-scoped transaction begins behind       *)
(* (internal/shared/pgtx): BeginScopeOpts asks Allow, begins and scopes    *)
(* the transaction, and records whether the database answered.             *)
(*                                                                         *)
(* The breaker's fields are atomics and only the writes of the state hold  *)
(* its mutex, so each load, store and locked section is a step of its own. *)
(* Time is one bit: whether the cooldown has passed since the last failure *)
(* recorded.  A failure is whatever makes the begin fail: the database is  *)
(* down, or the request's own context has ended.                           *)
(* Callers pass a database and a scope, as the repositories do: a probe    *)
(* that BeginScopeOpts refuses for their lack would record nothing.        *)
(***************************************************************************)
EXTENDS Naturals

CONSTANTS
    Caller,       \* goroutines that begin transactions
    MaxFailures,  \* maxFailures
    MaxCount      \* bound on the failures counted

ASSUME BreakerAssumption == MaxFailures \in Nat \ {0} /\ MaxCount \in Nat

VARIABLES
    circuit,      \* state: closed, open or half-open
    failCount,    \* failCount
    cooled,       \* time.Since(lastFailure) > cooldown
    at,           \* where each caller is
    healthy       \* no begin fails any more

breakerVars == <<circuit, failCount, cooled, at, healthy>>

Place == {"idle", "notClosed", "elapsed", "cooling", "admitted", "succeeded",
          "resetting", "closing", "storing", "failed", "counting", "opening", "refused"}

BreakerInit ==
    /\ circuit = "closed"
    /\ failCount = 0
    /\ cooled = TRUE
    /\ at = [c \in Caller |-> "idle"]
    /\ healthy = FALSE

Go(c, from, to) == at[c] = from /\ at' = [at EXCEPT ![c] = to]

\* mu is held across two steps only between the two stores of RecordSuccess.
MutexFree == \A c \in Caller : at[c] # "storing"

\* Allow's first load of the state.
Allow(c) ==
    /\ Go(c, "idle", IF circuit = "closed" THEN "admitted" ELSE "notClosed")
    /\ UNCHANGED <<circuit, failCount, cooled, healthy>>

\* Allow compares the time of the last failure with the cooldown.
Elapsed(c) ==
    /\ Go(c, "notClosed", IF cooled THEN "elapsed" ELSE "cooling")
    /\ UNCHANGED <<circuit, failCount, cooled, healthy>>

\* A breaker that stays open once it has opened.
HalfOpen_Never(c) ==
    /\ MutexFree
    /\ Go(c, "elapsed", "refused")
    /\ UNCHANGED <<circuit, failCount, cooled, healthy>>

\* Allow after the cooldown, under the mutex: the first caller half-opens the
\* circuit; with the mutex still held the others find it half-open, or refuse
\* although it has been closed meanwhile.
HalfOpen(c) ==
    /\ MutexFree
    /\ Go(c, "elapsed", IF circuit = "closed" THEN "refused" ELSE "admitted")
    /\ circuit' = IF circuit = "open" THEN "half-open" ELSE circuit
    /\ UNCHANGED <<failCount, cooled, healthy>>

\* Allow within the cooldown: a half-open circuit admits everyone.
Probe(c) ==
    /\ Go(c, "cooling", IF circuit = "half-open" THEN "admitted" ELSE "refused")
    /\ UNCHANGED <<circuit, failCount, cooled, healthy>>

\* ErrCircuitOpen, and a later transaction of the same goroutine.
FailFast(c) ==
    /\ Go(c, "refused", "idle")
    /\ UNCHANGED <<circuit, failCount, cooled, healthy>>

\* BeginTx and set_config answer, or one of them fails.
Begin(c) ==
    /\ \/ Go(c, "admitted", "succeeded")
       \/ ~healthy /\ failCount < MaxCount /\ Go(c, "admitted", "failed")
    /\ UNCHANGED <<circuit, failCount, cooled, healthy>>

\* RecordSuccess's load of the state.
RecordSuccess(c) ==
    /\ Go(c, "succeeded", IF circuit = "closed" THEN "resetting" ELSE "closing")
    /\ UNCHANGED <<circuit, failCount, cooled, healthy>>

\* RecordSuccess on a closed circuit.
ResetCount(c) ==
    /\ Go(c, "resetting", "idle")
    /\ failCount' = 0
    /\ UNCHANGED <<circuit, cooled, healthy>>

\* A success that takes the mutex and keeps the count.
ResetLocked_KeepsCount(c) ==
    /\ MutexFree
    /\ Go(c, "closing", "storing")
    /\ UNCHANGED <<circuit, failCount, cooled, healthy>>

\* RecordSuccess on any other: the first store under the mutex.
ResetLocked(c) ==
    /\ MutexFree
    /\ Go(c, "closing", "storing")
    /\ failCount' = 0
    /\ UNCHANGED <<circuit, cooled, healthy>>

\* The second store, and the mutex is released: failures may have been counted
\* since the first one, as CountFailure takes no lock.
Close(c) ==
    /\ Go(c, "storing", "idle")
    /\ circuit' = "closed"
    /\ UNCHANGED <<failCount, cooled, healthy>>

\* RecordFailure stores the time of the failure.
RecordFailure(c) ==
    /\ Go(c, "failed", "counting")
    /\ cooled' = FALSE
    /\ UNCHANGED <<circuit, failCount, healthy>>

\* RecordFailure adds one, and goes for the mutex at the limit.
CountFailure(c) ==
    /\ Go(c, "counting", IF failCount + 1 >= MaxFailures THEN "opening" ELSE "idle")
    /\ failCount' = failCount + 1
    /\ UNCHANGED <<circuit, cooled, healthy>>

\* RecordFailure opens the circuit under the mutex, whatever happened since it
\* counted.
OpenCircuit(c) ==
    /\ MutexFree
    /\ Go(c, "opening", "idle")
    /\ circuit' = "open"
    /\ UNCHANGED <<failCount, cooled, healthy>>

Cooldown == ~cooled /\ cooled' = TRUE /\ UNCHANGED <<circuit, failCount, at, healthy>>

\* The database, or the patience of the clients, goes and comes back.
Health == healthy' = ~healthy /\ UNCHANGED <<circuit, failCount, cooled, at>>

BreakerStep(c) ==
    \/ Allow(c) \/ Elapsed(c) \/ HalfOpen(c) \/ Probe(c) \/ FailFast(c) \/ Begin(c)
    \/ RecordSuccess(c) \/ ResetCount(c) \/ ResetLocked(c) \/ Close(c)
    \/ RecordFailure(c) \/ CountFailure(c) \/ OpenCircuit(c)

BreakerNext == Cooldown \/ Health \/ \E c \in Caller : BreakerStep(c)

\* Time passes, goroutines run, and transactions keep being begun, while the
\* process runs.
BreakerFairness == WF_breakerVars(Cooldown) /\ \A c \in Caller : WF_breakerVars(BreakerStep(c))

BreakerSpec == BreakerInit /\ [][BreakerNext]_breakerVars /\ BreakerFairness

\* Every field holds a value of its type.
BreakerTypeOK ==
    /\ circuit \in {"closed", "open", "half-open"}
    /\ failCount \in Nat
    /\ cooled \in BOOLEAN /\ healthy \in BOOLEAN
    /\ at \in [Caller -> Place]

\* RecordSuccess and RecordFailure: a closed circuit whose count is at the limit
\* is about to be opened by the caller that reached it, failures counted between
\* the two stores of a recovery included.  Otherwise one failure after a recovery
\* would shut every tenant out.
ClosedBelowLimit ==
    circuit = "closed" /\ failCount >= MaxFailures => \E c \in Caller : at[c] = "opening"

\* Allow and RecordSuccess: once begins no longer fail, the circuit closes for
\* good, whichever callers were refused, probing or recording meanwhile.
BreakerRecovers == <>[]healthy => <>[](circuit = "closed")
=============================================================================
