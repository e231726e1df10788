----------------------------- MODULE EdgeLease -----------------------------
(***************************************************************************)
(* The edge coordinator (pkg/edgecoordinator): exclusive leases of         *)
(* sub-assemblies, the sweep that turns an expired lease into a tombstone  *)
(* and a draft work order, and the escrow override that merges the draft   *)
(* and appends an event to the tenant's audit chain.                       *)
(*                                                                         *)
(* The tables of one tenant are variables.  A transaction is one step,     *)
(* except where READ COMMITTED lets another one in between two of its      *)
(* statements: SubmitInspection's UPDATE and its diagnosis, and            *)
(* CommitEscrowOverride's reads and its writes.  A draft is identified by  *)
(* the pair its unique key holds, an event by the draft it merges.         *)
(* Signatures are taken as valid: ValidateQuorum's checks of the tombstone *)
(* sequence and of the service level are kept.  The two signers may sign   *)
(* any record: which draft it names is a field of its own, which nothing   *)
(* compares with its sub-assembly.                                         *)
(***************************************************************************)
EXTENDS Naturals, FiniteSets

CONSTANTS
    Sub,          \* sub-assemblies
    MaxEpoch,     \* bound: lease epochs
    MaxTime,      \* bound: the edge clock
    MaxSubmit,    \* bound: inspections submitted
    MaxDraw,      \* bound: events inserted
    SLA,          \* configuredSLA
    Root          \* the previous hash of the first event

ASSUME EdgeAssumption ==
    MaxEpoch \in Nat /\ MaxTime \in Nat /\ MaxSubmit \in Nat /\ MaxDraw \in Nat /\ SLA \in Nat

Draft == Sub \X (1..MaxEpoch)

ASSUME RootAssumption == Root \notin Draft

VARIABLES
    lease,        \* sub_assembly_leases
    tomb,         \* lease_tombstones; sequence 0: no row
    draft,        \* draft_work_orders
    chain,        \* merkle_audit_log: events with the event before them
    drawn,        \* merkle_audit_log_sequence_id_seq, which no rollback returns
    submitting,   \* SubmitInspection calls under way
    overriding,   \* CommitEscrowOverride transactions past their reads
    edgeNow,      \* the edge clock
    completed     \* history: the leases that ended with an inspection

tables   == <<lease, tomb, draft, chain, drawn>>
edgeVars == <<tables, submitting, overriding, edgeNow, completed>>

LeaseState == {"none", "ACTIVE", "COMPLETED", "OVERRUN_DRAFT", "RELEASED"}
Override   == [sub : Sub, epoch : 1..MaxEpoch, seq : 1..MaxEpoch, draft : Draft]
Event      == [sub : Sub, epoch : 1..MaxEpoch, merges : Draft, prev : Draft \cup {Root}, nth : Nat]
Submission == [sub : Sub, at : 0..MaxTime, phase : {"update", "diagnose"}, n : 1..MaxSubmit]

EdgeTypeOK ==
    /\ lease \in [Sub -> [epoch : 0..MaxEpoch, state : LeaseState, until : 0..MaxTime]]
    /\ tomb \in [Sub -> [epoch : 0..MaxEpoch, seq : Nat, at : 0..MaxTime]]
    /\ draft \in [Draft -> {"none", "AWAITING", "MERGED"}]
    /\ chain \subseteq Event /\ drawn \in Nat
    /\ submitting \subseteq Submission
    /\ overriding \subseteq [rec : Override, prev : Draft \cup {Root}, nth : Nat]
    /\ edgeNow \in 0..MaxTime
    /\ completed \subseteq Draft

EdgeInit ==
    /\ lease = [s \in Sub |-> [epoch |-> 0, state |-> "none", until |-> 0]]
    /\ tomb = [s \in Sub |-> [epoch |-> 0, seq |-> 0, at |-> 0]]
    /\ draft = [d \in Draft |-> "none"]
    /\ chain = {} /\ drawn = 0 /\ submitting = {} /\ overriding = {}
    /\ edgeNow = 0 /\ completed = {}

-----------------------------------------------------------------------------
(* DispatchLease: a first lease, or a later epoch over a terminal one. *)
Dispatchable(s, e) ==
    lease[s].state \in {"none", "RELEASED", "COMPLETED"} /\ e > lease[s].epoch

DispatchLease(s, e, until) ==
    /\ Dispatchable(s, e)
    /\ lease' = [lease EXCEPT ![s] = [epoch |-> e, state |-> "ACTIVE", until |-> until]]
    /\ UNCHANGED <<tomb, draft, chain, drawn, submitting, overriding, edgeNow, completed>>

-----------------------------------------------------------------------------
(* A transaction that writes the tombstone of s waits for the override that   *)
(* has locked it.                                                             *)
Locked(s) == \E o \in overriding : o.rec.sub = s

(* provisionOverrunArtifacts, with the transition of its leases. *)
Overrun_NoUpsert(S, at) ==
    /\ \A s \in S : tomb[s].seq = 0
    /\ lease' = [s \in Sub |-> IF s \in S THEN [lease[s] EXCEPT !.state = "OVERRUN_DRAFT"] ELSE lease[s]]
    /\ tomb' = [s \in Sub |-> IF s \in S THEN [epoch |-> lease[s].epoch, seq |-> 1, at |-> at] ELSE tomb[s]]
    /\ draft' = [d \in Draft |-> IF d[1] \in S /\ d[2] = lease[d[1]].epoch /\ draft[d] = "none"
                                 THEN "AWAITING" ELSE draft[d]]
Overrun(S, at) ==
    /\ lease' = [s \in Sub |-> IF s \in S THEN [lease[s] EXCEPT !.state = "OVERRUN_DRAFT"] ELSE lease[s]]
    /\ tomb' = [s \in Sub |-> IF s \in S THEN [epoch |-> lease[s].epoch, seq |-> tomb[s].seq + 1, at |-> at]
                              ELSE tomb[s]]
    /\ draft' = [d \in Draft |-> IF d[1] \in S /\ d[2] = lease[d[1]].epoch /\ draft[d] = "none"
                                 THEN "AWAITING" ELSE draft[d]]

Expired(s) == lease[s].state = "ACTIVE" /\ lease[s].until <= edgeNow

SweepExpiredLeases ==
    LET S == {s \in Sub : Expired(s)} IN
    /\ S # {} /\ \A s \in S : ~Locked(s)
    /\ Overrun(S, edgeNow)
    /\ UNCHANGED <<chain, drawn, submitting, overriding, edgeNow, completed>>

(* SubmitInspection is called with the time of the call. *)
SubmitInspection(s, n) ==
    /\ \A c \in submitting : c.n # n
    /\ lease[s].state # "none"
    /\ submitting' = submitting \cup {[sub |-> s, at |-> edgeNow, phase |-> "update", n |-> n]}
    /\ UNCHANGED <<tables, overriding, edgeNow, completed>>

InWindow(c) == lease[c.sub].state = "ACTIVE" /\ lease[c.sub].until >= c.at

SubmitUpdate(c) ==
    /\ c.phase = "update"
    /\ \/ /\ InWindow(c)
          /\ lease' = [lease EXCEPT ![c.sub].state = "COMPLETED"]
          /\ completed' = completed \cup {<<c.sub, lease[c.sub].epoch>>}
          /\ submitting' = submitting \ {c}
       \/ /\ ~InWindow(c)
          /\ submitting' = (submitting \ {c}) \cup {[c EXCEPT !.phase = "diagnose"]}
          /\ UNCHANGED <<lease, completed>>
    /\ UNCHANGED <<tomb, draft, chain, drawn, overriding, edgeNow>>

(* An expired lease is overrun just in time; any other state is an error, a   *)
(* lease that was dispatched in between included.                             *)
SubmitDiagnose(c) ==
    /\ c.phase = "diagnose" /\ ~Locked(c.sub)
    /\ IF lease[c.sub].state = "ACTIVE" /\ c.at > lease[c.sub].until
       THEN Overrun({c.sub}, c.at) ELSE UNCHANGED <<lease, tomb, draft>>
    /\ submitting' = submitting \ {c}
    /\ UNCHANGED <<chain, drawn, overriding, edgeNow, completed>>

-----------------------------------------------------------------------------
LastEvent == IF chain = {} THEN Root ELSE (CHOOSE e \in chain : \A f \in chain : f.nth <= e.nth).merges

(* CommitEscrowOverride, the reads: the tombstone row is locked, the record   *)
(* must name its epoch and its sequence and the service level have passed;    *)
(* the last event is read in the snapshot of that statement, and the insert   *)
(* draws its sequence_id.  A record may be presented late, or twice.          *)
FreshOverride(rec) ==
    /\ tomb[rec.sub].epoch = rec.epoch /\ tomb[rec.sub].seq = rec.seq
    /\ edgeNow - tomb[rec.sub].at >= SLA

OverrideRead(rec) ==
    /\ ~Locked(rec.sub) /\ FreshOverride(rec) /\ drawn < MaxDraw
    /\ overriding' = overriding \cup {[rec |-> rec, prev |-> LastEvent, nth |-> drawn + 1]}
    /\ drawn' = drawn + 1
    /\ UNCHANGED <<lease, tomb, draft, chain, submitting, edgeNow, completed>>

(* The last event is locked by the override that read it first; an empty log  *)
(* has no row to lock.                                                        *)
HoldsLastEvent(o) == \A p \in overriding : p.prev = o.prev /\ p.prev # Root => o.nth <= p.nth

Mergeable_Merged(d) == draft[d] # "none"
Mergeable(d) == draft[d] = "AWAITING"

(* The writes: the event, the draft that the record names if it still waits,  *)
(* the lease of the sub-assembly that the record names, whatever its epoch    *)
(* and state.  Otherwise everything is rolled back.                           *)
OverrideWrite(o) ==
    /\ HoldsLastEvent(o) /\ Mergeable(o.rec.draft)
    /\ chain' = chain \cup {[sub |-> o.rec.sub, epoch |-> o.rec.epoch, merges |-> o.rec.draft,
                            prev |-> o.prev, nth |-> o.nth]}
    /\ draft' = [draft EXCEPT ![o.rec.draft] = "MERGED"]
    /\ lease' = [lease EXCEPT ![o.rec.sub].state = "RELEASED"]
    /\ overriding' = overriding \ {o}
    /\ UNCHANGED <<tomb, drawn, submitting, edgeNow, completed>>

OverrideRollback(o) ==
    /\ overriding' = overriding \ {o}
    /\ UNCHANGED <<tables, submitting, edgeNow, completed>>

EdgeTick ==
    /\ edgeNow < MaxTime /\ edgeNow' = edgeNow + 1
    /\ UNCHANGED <<tables, submitting, overriding, completed>>

EdgeNext ==
    \/ \E s \in Sub :
        \/ \E e \in 1..MaxEpoch, until \in 0..MaxTime : DispatchLease(s, e, until)
        \/ \E n \in 1..MaxSubmit : SubmitInspection(s, n)
    \/ SweepExpiredLeases
    \/ \E c \in submitting : SubmitUpdate(c) \/ SubmitDiagnose(c)
    \/ \E rec \in Override : OverrideRead(rec)
    \/ \E o \in overriding : OverrideWrite(o) \/ OverrideRollback(o)
    \/ EdgeTick

(* The sweeper's ticker runs as long as the daemon does, its failures are     *)
(* only logged, and a sweep that waits for a locked tombstone is in that      *)
(* row's queue; a transaction ends.                                           *)
OverrideEnds == \E o \in overriding : OverrideWrite(o) \/ OverrideRollback(o)
EdgeFairness == SF_edgeVars(SweepExpiredLeases) /\ WF_edgeVars(OverrideEnds)

EdgeSpec == EdgeInit /\ [][EdgeNext]_edgeVars /\ EdgeFairness

-----------------------------------------------------------------------------
(* Properties *)

(* An event of s whose override named the draft of another lease.             *)
Misfiled(v) == v.merges # <<v.sub, v.epoch>>

(* The three tables agree whatever sweeps, submissions and overrides raced:   *)
(* a draft waits exactly for a lease in overrun, which then carries the       *)
(* tombstone of its own epoch (provisionOverrunArtifacts, CommitEscrowOverride). *)
(* The audit log accounts for every exception: an override of that lease that *)
(* merged another draft and left this one waiting, or one of another          *)
(* sub-assembly that merged this draft and left the lease in overrun.         *)
OverrunHasDraft ==
    \A s \in Sub, e \in 1..MaxEpoch :
        LET overrun == lease[s].state = "OVERRUN_DRAFT" /\ lease[s].epoch = e IN
        /\ overrun => tomb[s].epoch = e
        /\ draft[<<s, e>>] = "AWAITING" /\ ~overrun =>
             \E v \in chain : v.sub = s /\ v.epoch = e /\ Misfiled(v)
        /\ overrun /\ draft[<<s, e>>] # "AWAITING" =>
             \E v \in chain : v.merges = <<s, e>> /\ v.sub # s

(* A lease is released by the merge of its own draft, unless an override of   *)
(* its sub-assembly has named the draft of another lease.                     *)
ReleasedWasMerged ==
    \A s \in Sub : lease[s].state = "RELEASED" =>
        draft[<<s, lease[s].epoch>>] = "MERGED" \/ \E v \in chain : v.sub = s /\ Misfiled(v)

(* A lease ends one way: a completed inspection is never also a draft that    *)
(* awaits reconciliation, at the instant of expiry included.                  *)
CompletedOrOverrun == \A d \in completed : draft[d] = "none"

(* A tombstone never suppresses the device that holds the lease now           *)
(* (AssertsSupremacy: "re-admission is an explicit re-issue").                *)
HolderNotSuppressed ==
    \A s \in Sub : lease[s].state \in {"ACTIVE", "COMPLETED"} => lease[s].epoch > tomb[s].epoch

(* A draft is merged by exactly one event of the audit log, however often an  *)
(* override is presented ("Resolve the draft exactly once").                  *)
MergedOnce ==
    \A d \in Draft : Cardinality({e \in chain : e.merges = d}) = (IF draft[d] = "MERGED" THEN 1 ELSE 0)

(* A lease, its tombstone, its draft and the event that merges it agree, or   *)
(* the log has the override that named two of them which do not belong        *)
(* together.                                                                  *)
LeasesAreAccounted ==
    OverrunHasDraft /\ ReleasedWasMerged /\ CompletedOrOverrun /\ HolderNotSuppressed /\ MergedOnce

(* A lease that has expired does not stay ACTIVE (SweepExpiredLeases). *)
ExpiredIsResolved == \A s \in Sub : Expired(s) ~> ~Expired(s)
=============================================================================
