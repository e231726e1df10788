--------------------------- MODULE IdentityCache ---------------------------
(***************************************************************************)
(* The cache of the identity resolver (internal/identity, CachedResolver): *)
(* the membership of one principal, kept for a time, and the call that     *)
(* concurrent misses join instead of querying the database themselves.     *)
(*                                                                         *)
(* The cache is a sync.Map: its loads, stores and deletes are steps, and   *)
(* so is each section of sfMu.  Time is whether the entry has expired.  A  *)
(* membership is a version that the database increments.  A query of the   *)
(* database ends, with an answer or an error; a panic in it is not         *)
(* modelled (it would leave the call in flight for good).                  *)
(***************************************************************************)
EXTENDS Naturals, FiniteSets

CONSTANTS
    Resolver,    \* goroutines that resolve the principal
    MaxVersion,  \* bound on the changes of the membership
    NoOne        \* no call in flight

ASSUME ResolverAssumption == NoOne \notin Resolver /\ MaxVersion \in Nat

VARIABLES
    entry,      \* the cache's entry for the principal
    leader,     \* inFlight: the goroutine whose call the others join
    resolving,  \* the goroutines
    version     \* the membership in the database

cacheVars == <<entry, leader, resolving, version>>

NoEntry == [state |-> "none", version |-> 0]
Failed == MaxVersion + 1
Resting == [at |-> "idle", joined |-> NoOne, result |-> 0, done |-> FALSE]

CacheInit ==
    /\ entry = NoEntry
    /\ leader = NoOne
    /\ resolving = [g \in Resolver |-> Resting]
    /\ version = 0

In(g, at) == resolving[g].at = at
Advances(g, at) == resolving' = [resolving EXCEPT ![g].at = at]
Returns(g, result) == resolving' = [resolving EXCEPT ![g] =
    [Resting EXCEPT !.at = "returned", !.result = result]]

\* Resolve's fast path.
Lookup(g) ==
    /\ In(g, "idle")
    /\ \/ entry.state = "fresh" /\ Returns(g, entry.version)
       \/ entry.state = "expired" /\ Advances(g, "delete")
       \/ entry.state = "none" /\ Advances(g, "miss")
    /\ UNCHANGED <<entry, leader, version>>

\* It deletes the entry it found expired, whatever the cache holds by now.
DeleteExpired(g) ==
    /\ In(g, "delete")
    /\ entry' = NoEntry
    /\ Advances(g, "miss")
    /\ UNCHANGED <<leader, version>>

\* A miss that does not look for a call in flight.
Join_Never(g) ==
    /\ In(g, "miss")
    /\ IF entry.state = "fresh"
       THEN Returns(g, entry.version) /\ UNCHANGED leader
       ELSE leader' = g /\ Advances(g, "query")
    /\ UNCHANGED <<entry, version>>

\* A miss under sfMu: join the call in flight, or find what its leader stored, or
\* lead.
Join(g) ==
    /\ In(g, "miss")
    /\ IF leader # NoOne
       THEN /\ resolving' = [resolving EXCEPT ![g].at = "wait", ![g].joined = leader]
            /\ UNCHANGED leader
       ELSE IF entry.state = "fresh"
       THEN Returns(g, entry.version) /\ UNCHANGED leader
       ELSE leader' = g /\ Advances(g, "query")
    /\ UNCHANGED <<entry, version>>

\* The leader's query, or its error.
Query(g) ==
    /\ In(g, "query")
    /\ \E result \in {version, Failed} :
         resolving' = [resolving EXCEPT ![g].at = "store", ![g].result = result]
    /\ UNCHANGED <<entry, leader, version>>

\* An answer, and no error, is stored.
StoreEntry(g) ==
    /\ In(g, "store")
    /\ entry' = IF resolving[g].result = Failed THEN entry
                ELSE [state |-> "fresh", version |-> resolving[g].result]
    /\ Advances(g, "retire")
    /\ UNCHANGED <<leader, version>>

\* A failed leader that leaves its call in flight.
Retire_OnSuccess(g) ==
    /\ In(g, "retire")
    /\ leader' = IF resolving[g].result = Failed THEN leader ELSE NoOne
    /\ Advances(g, "done")
    /\ UNCHANGED <<entry, version>>

\* The call is no longer in flight.
Retire(g) ==
    /\ In(g, "retire")
    /\ leader' = NoOne
    /\ Advances(g, "done")
    /\ UNCHANGED <<entry, version>>

\* wg.Done releases those that joined, and the leader returns.
Finish(g) ==
    /\ In(g, "done")
    /\ resolving' = [h \in Resolver |->
         IF h = g THEN [Resting EXCEPT !.at = "returned", !.result = resolving[g].result]
         ELSE IF resolving[h].joined = g /\ ~resolving[h].done
         THEN [resolving[h] EXCEPT !.done = TRUE, !.result = resolving[g].result]
         ELSE resolving[h]]
    /\ UNCHANGED <<entry, leader, version>>

\* Wait returns the leader's answer or its error.
Wake(g) ==
    /\ In(g, "wait") /\ resolving[g].done
    /\ Returns(g, resolving[g].result)
    /\ UNCHANGED <<entry, leader, version>>

\* The caller has its answer; the goroutine serves another request.
Again(g) ==
    /\ In(g, "returned")
    /\ resolving' = [resolving EXCEPT ![g] = Resting]
    /\ UNCHANGED <<entry, leader, version>>

Expires ==
    /\ entry.state = "fresh"
    /\ entry' = [entry EXCEPT !.state = "expired"]
    /\ UNCHANGED <<leader, resolving, version>>

Invalidate ==
    /\ entry # NoEntry
    /\ entry' = NoEntry
    /\ UNCHANGED <<leader, resolving, version>>

MembershipChanges ==
    /\ version < MaxVersion
    /\ version' = version + 1
    /\ UNCHANGED <<entry, leader, resolving>>

ResolverStep(g) ==
    \/ DeleteExpired(g) \/ Join(g) \/ Query(g) \/ StoreEntry(g)
    \/ Retire(g) \/ Finish(g) \/ Wake(g)

CacheNext ==
    \/ Expires \/ Invalidate \/ MembershipChanges
    \/ \E g \in Resolver : Lookup(g) \/ ResolverStep(g) \/ Again(g)

\* Goroutines run, while the process does; nobody has to ask.
CacheFairness == \A g \in Resolver : WF_cacheVars(ResolverStep(g))

CacheSpec == CacheInit /\ [][CacheNext]_cacheVars /\ CacheFairness

\* The entry, the calls and their answers hold values of their types.
CacheTypeOK ==
    /\ entry \in [state : {"none", "fresh", "expired"}, version : 0..MaxVersion]
    /\ leader \in Resolver \cup {NoOne}
    /\ resolving \in [Resolver ->
         [at : {"idle", "delete", "miss", "query", "store", "retire", "done", "wait", "returned"},
          joined : Resolver \cup {NoOne}, result : 0..Failed, done : BOOLEAN]]
    /\ version \in 0..MaxVersion

\* Resolve: of the goroutines that miss, one at most is at the database, and whoever
\* waits waits for a call that is still going to answer.  A second query after the
\* first is possible: an answer may expire, or fail, before it is looked up again.
OneQueryAtATime ==
    /\ Cardinality({g \in Resolver : In(g, "query") \/ In(g, "store")}) <= 1
    /\ \A g \in Resolver : In(g, "wait") /\ ~resolving[g].done =>
         \E h \in {resolving[g].joined} : resolving[h].at \in {"query", "store", "retire", "done"}

\* Resolve: every request for the principal gets an answer, its own or the one it
\* joined, although the calls it waits for may fail and the entry come and go.
EveryResolveReturns ==
    \A g \in Resolver : ~In(g, "idle") ~> In(g, "returned")
=============================================================================
