----------------------------- MODULE MCServices -----------------------------
(***************************************************************************)
(* The services that share no state with each other, side by side: each    *)
(* behaviour is of one component, the others stay as they are at the start.*)
(* The states TLC visits are the sum of theirs, not the product, and a     *)
(* property of one component is checked in the behaviours of that one.     *)
(***************************************************************************)
EXTENDS TusUpload, EdgeLease, CircuitBreaker, IdentityCache, SessionLifecycle, DeviceEnrollment

VARIABLE component

serviceVars ==
    <<tusVars, edgeVars, breakerVars, cacheVars, sessionVars, enrolVars, component>>

ServicesInit ==
    /\ TusInit /\ EdgeInit /\ BreakerInit /\ CacheInit /\ SessionInit /\ EnrolInit
    /\ component \in {"uploads", "leases", "breaker", "cache", "sessions", "enrolment"}

Uploads ==
    /\ component = "uploads" /\ TusNext
    /\ UNCHANGED <<edgeVars, breakerVars, cacheVars, sessionVars, enrolVars, component>>
Leases ==
    /\ component = "leases" /\ EdgeNext
    /\ UNCHANGED <<tusVars, breakerVars, cacheVars, sessionVars, enrolVars, component>>
Breaker ==
    /\ component = "breaker" /\ BreakerNext
    /\ UNCHANGED <<tusVars, edgeVars, cacheVars, sessionVars, enrolVars, component>>
Cache ==
    /\ component = "cache" /\ CacheNext
    /\ UNCHANGED <<tusVars, edgeVars, breakerVars, sessionVars, enrolVars, component>>
LoginSessions ==
    /\ component = "sessions" /\ SessionNext
    /\ UNCHANGED <<tusVars, edgeVars, breakerVars, cacheVars, enrolVars, component>>
Enrolment ==
    /\ component = "enrolment" /\ EnrolNext
    /\ UNCHANGED <<tusVars, edgeVars, breakerVars, cacheVars, sessionVars, component>>

ServicesNext == Uploads \/ Leases \/ Breaker \/ Cache \/ LoginSessions \/ Enrolment

\* The fairness of each component in its own behaviours: EdgeFairness,
\* BreakerFairness and CacheFairness.
ServicesFairness ==
    /\ SF_edgeVars(component = "leases" /\ SweepExpiredLeases)
    /\ WF_edgeVars(component = "leases" /\ OverrideEnds)
    /\ WF_breakerVars(component = "breaker" /\ Cooldown)
    /\ \A c \in Caller : WF_breakerVars(component = "breaker" /\ BreakerStep(c))
    /\ \A g \in Resolver : WF_cacheVars(component = "cache" /\ ResolverStep(g))

ServicesSpec == ServicesInit /\ [][ServicesNext]_serviceVars /\ ServicesFairness

\* The type invariants of the components.
ServicesTypeOK ==
    /\ TusTypeOK /\ EdgeTypeOK /\ BreakerTypeOK
    /\ CacheTypeOK /\ SessionTypeOK /\ EnrolTypeOK
=============================================================================
