------------------------- MODULE UploadLeaseProofs -------------------------
(***************************************************************************)
(* What holds of resumable uploads and of edge leases for any number of    *)
(* uploads, sub-assemblies, epochs and submissions.                        *)
(***************************************************************************)
EXTENDS TusUpload, EdgeLease, SequenceTheorems, FiniteSetTheorems, TLAPS

-----------------------------------------------------------------------------
(* The leases of the edge coordinator.                                      *)

LeaseRow == [epoch : 0..MaxEpoch, state : LeaseState, until : 0..MaxTime]
TombRow  == [epoch : 0..MaxEpoch, seq : Nat, at : 0..MaxTime]
Attempt  == [rec : Override, prev : Draft \cup {Root}, nth : Nat]

(* What the log says of a lease that an override named together with a       *)
(* draft of another: it was released without its draft, its draft was merged *)
(* without it, or it was released by a record of some epoch.                 *)
Stranded(s, e)        == \E v \in chain : v.sub = s /\ v.epoch = e /\ Misfiled(v)
MergedElsewhere(s, e) == \E v \in chain : v.merges = <<s, e>> /\ v.sub # s
Strayed(s)            == \E v \in chain : v.sub = s /\ Misfiled(v)

(* What a sub-assembly's rows say of each other: no row of a later epoch    *)
(* than its lease's exists, a draft waits for the lease in overrun or was   *)
(* stranded, and the state of the lease tells what became of its own epoch. *)
LeaseInv(s) ==
    /\ lease[s].state = "none" <=> lease[s].epoch = 0
    /\ lease[s].state \in {"ACTIVE", "COMPLETED"} =>
         tomb[s].epoch < lease[s].epoch /\ draft[<<s, lease[s].epoch>>] = "none"
    /\ lease[s].state = "OVERRUN_DRAFT" => tomb[s].epoch = lease[s].epoch
    /\ lease[s].state = "RELEASED" => draft[<<s, lease[s].epoch>>] = "MERGED" \/ Strayed(s)
    /\ tomb[s].epoch <= lease[s].epoch
    /\ tomb[s].seq > 0 => tomb[s].epoch >= 1
    /\ \A e \in 1..MaxEpoch :
         /\ e > lease[s].epoch => draft[<<s, e>>] = "none" /\ <<s, e>> \notin completed
         /\ draft[<<s, e>>] = "AWAITING" =>
              (lease[s].state = "OVERRUN_DRAFT" /\ lease[s].epoch = e) \/ Stranded(s, e)
         /\ lease[s].state = "OVERRUN_DRAFT" /\ lease[s].epoch = e =>
              draft[<<s, e>>] = "AWAITING" \/ MergedElsewhere(s, e)
         /\ <<s, e>> \in completed => draft[<<s, e>>] = "none"
         /\ <<s, e>> \in completed /\ e = lease[s].epoch => lease[s].state \in {"COMPLETED", "RELEASED"}

(* The audit chain has one event for each draft merged, and a last one.     *)
ChainInv ==
    /\ IsFiniteSet(chain) /\ IsFiniteSet(overriding)
    /\ chain # {} => \E e \in chain : \A f \in chain : f.nth <= e.nth
    /\ \A e \in chain : draft[e.merges] = "MERGED"
    /\ \A e, f \in chain : e.merges = f.merges => e = f
    /\ \A d \in Draft : draft[d] = "MERGED" => \E e \in chain : e.merges = d

(* The tombstone an override has locked keeps the epoch it was read with.   *)
LockInv == \A o \in overriding : tomb[o.rec.sub].epoch = o.rec.epoch

EdgeInv == EdgeTypeOK /\ ChainInv /\ LockInv /\ \A s \in Sub : LeaseInv(s)

LEMMA EdgeInv_Accounted == EdgeInv => LeasesAreAccounted
<1> SUFFICES ASSUME EdgeInv PROVE LeasesAreAccounted
  OBVIOUS
<1> USE DEF EdgeInv
<1>1. \A s \in Sub : lease[s] \in LeaseRow /\ tomb[s] \in TombRow
  BY DEF EdgeTypeOK, LeaseRow, TombRow
<1>2. OverrunHasDraft /\ ReleasedWasMerged
  <2>1. ASSUME NEW s \in Sub, NEW e \in 1..MaxEpoch, draft[<<s, e>>] = "AWAITING",
               ~(lease[s].state = "OVERRUN_DRAFT" /\ lease[s].epoch = e)
        PROVE  \E v \in chain : v.sub = s /\ v.epoch = e /\ Misfiled(v)
    BY <2>1 DEF LeaseInv, Stranded
  <2>2. ASSUME NEW s \in Sub, NEW e \in 1..MaxEpoch, lease[s].state = "OVERRUN_DRAFT", lease[s].epoch = e
        PROVE  /\ tomb[s].epoch = e
               /\ draft[<<s, e>>] # "AWAITING" => \E v \in chain : v.merges = <<s, e>> /\ v.sub # s
    BY <2>2 DEF LeaseInv, MergedElsewhere
  <2>3. ReleasedWasMerged
    BY DEF ReleasedWasMerged, LeaseInv, Strayed
  <2>4. QED
    BY <2>1, <2>2, <2>3 DEF OverrunHasDraft
<1>3. CompletedOrOverrun
  <2>1. ASSUME NEW d \in completed PROVE draft[d] = "none"
    <3>1. d \in Draft
      BY DEF EdgeTypeOK
    <3>2. PICK s \in Sub, e \in 1..MaxEpoch : d = <<s, e>>
      BY <3>1 DEF Draft
    <3>3. QED
      BY <2>1, <3>2 DEF LeaseInv
  <2>2. QED
    BY <2>1 DEF CompletedOrOverrun
<1>4. HolderNotSuppressed
  BY <1>1, EdgeAssumption DEF HolderNotSuppressed, LeaseInv, LeaseRow, TombRow
<1>5. MergedOnce
  <2>1. ASSUME NEW d \in Draft
        PROVE  Cardinality({e \in chain : e.merges = d}) = IF draft[d] = "MERGED" THEN 1 ELSE 0
    <3> DEFINE E == {e \in chain : e.merges = d}
    <3>1. CASE draft[d] = "MERGED"
      <4>1. PICK x \in chain : x.merges = d
        BY <3>1 DEF ChainInv
      <4>2. E = {x}
        BY <4>1 DEF ChainInv
      <4>3. Cardinality({x}) = 1
        BY FS_Singleton
      <4>4. QED
        BY <3>1, <4>2, <4>3
    <3>2. CASE draft[d] # "MERGED"
      <4>1. E = {}
        BY <3>2 DEF ChainInv
      <4>2. Cardinality({}) = 0
        BY FS_EmptySet
      <4>3. QED
        BY <3>2, <4>1, <4>2
    <3>3. QED
      BY <3>1, <3>2
  <2>2. QED
    BY <2>1 DEF MergedOnce
<1>6. QED
  BY <1>2, <1>3, <1>4, <1>5 DEF LeasesAreAccounted

LEMMA EdgeInit_Inv == EdgeInit => EdgeInv
<1> SUFFICES ASSUME EdgeInit PROVE EdgeInv
  OBVIOUS
<1>1. EdgeTypeOK
  BY EdgeAssumption DEF EdgeInit, EdgeTypeOK, LeaseState
<1>2. ChainInv
  BY FS_EmptySet DEF EdgeInit, ChainInv
<1>4. LockInv
  BY DEF EdgeInit, LockInv
<1>3. \A s \in Sub : LeaseInv(s)
  BY EdgeAssumption DEF EdgeInit, LeaseInv, Draft
<1>5. QED
  BY <1>1, <1>2, <1>3, <1>4 DEF EdgeInv

LEMMA EdgeRows ==
    ASSUME EdgeInv, NEW s \in Sub
    PROVE  /\ lease[s] \in LeaseRow /\ lease[s].epoch \in 0..MaxEpoch /\ lease[s].until \in 0..MaxTime
           /\ tomb[s] \in TombRow /\ tomb[s].epoch \in 0..MaxEpoch /\ tomb[s].seq \in Nat
           /\ \A e \in 1..MaxEpoch : <<s, e>> \in Draft /\ draft[<<s, e>>] \in {"none", "AWAITING", "MERGED"}
<1>1. lease[s] \in LeaseRow /\ tomb[s] \in TombRow
  BY DEF EdgeInv, EdgeTypeOK, LeaseRow, TombRow
<1>2. \A e \in 1..MaxEpoch : <<s, e>> \in Draft /\ draft[<<s, e>>] \in {"none", "AWAITING", "MERGED"}
  BY DEF EdgeInv, EdgeTypeOK, Draft
<1>3. QED
  BY <1>1, <1>2 DEF LeaseRow, TombRow

(* The log only grows.                                                      *)
LEMMA LogGrows ==
    ASSUME chain \subseteq chain'
    PROVE  /\ \A s, e : (Stranded(s, e) => Stranded(s, e)') /\ (MergedElsewhere(s, e) => MergedElsewhere(s, e)')
           /\ \A s : Strayed(s) => Strayed(s)'
BY DEF Stranded, MergedElsewhere, Strayed, Misfiled

(* Steps that leave the rows of every sub-assembly, the locks, or the chain. *)
LEMMA RowsKept ==
    ASSUME EdgeInv, UNCHANGED <<lease, tomb, draft, completed, chain>>
    PROVE  \A s \in Sub : LeaseInv(s)'
BY LogGrows DEF EdgeInv, LeaseInv

LEMMA LocksKept ==
    ASSUME EdgeInv, overriding' \subseteq overriding, UNCHANGED tomb
    PROVE  LockInv'
BY DEF EdgeInv, LockInv

LEMMA ChainKept ==
    ASSUME EdgeInv, UNCHANGED <<chain, overriding>>,
           \A d \in Draft : draft'[d] = "MERGED" <=> draft[d] = "MERGED"
    PROVE  ChainInv'
<1>1. \A e \in chain : e.merges \in Draft
  BY DEF EdgeInv, EdgeTypeOK, Event
<1>2. QED
  BY <1>1 DEF EdgeInv, ChainInv

LEMMA DispatchLease_Inv ==
    ASSUME EdgeInv, NEW s \in Sub, NEW e \in 1..MaxEpoch, NEW until \in 0..MaxTime,
           DispatchLease(s, e, until)
    PROVE  EdgeInv'
<1>1. /\ lease[s].state \in {"none", "RELEASED", "COMPLETED"} /\ e > lease[s].epoch
      /\ lease' = [lease EXCEPT ![s] = [epoch |-> e, state |-> "ACTIVE", until |-> until]]
      /\ UNCHANGED <<tomb, draft, chain, drawn, submitting, overriding, edgeNow, completed>>
  BY DEF DispatchLease, Dispatchable
<1>2. [epoch |-> e, state |-> "ACTIVE", until |-> until] \in LeaseRow
  BY EdgeAssumption DEF LeaseRow, LeaseState
<1>3. EdgeTypeOK'
  BY <1>1, <1>2 DEF EdgeInv, EdgeTypeOK, LeaseRow
<1>4. ChainInv'
  BY <1>1, ChainKept
<1>5. ASSUME NEW z \in Sub PROVE LeaseInv(z)'
  <2>1. LeaseInv(z)
    BY DEF EdgeInv
  <2>2. CASE z # s
    <3>1. lease'[z] = lease[z]
      BY <1>1, <2>2 DEF EdgeInv, EdgeTypeOK
    <3>2. QED
      BY <1>1, <2>1, <3>1, LogGrows DEF LeaseInv
  <2>3. CASE z = s
    <3>1. lease'[s].epoch = e /\ lease'[s].state = "ACTIVE"
      BY <1>1 DEF EdgeInv, EdgeTypeOK
    <3>2. draft[<<s, e>>] = "none" /\ tomb[s].epoch < e /\ <<s, e>> \notin completed
      BY <1>1, <2>1, <2>3, EdgeRows, EdgeAssumption DEF LeaseInv
    <3>3. ASSUME NEW k \in 1..MaxEpoch, draft[<<s, k>>] = "AWAITING" PROVE Stranded(s, k)'
      BY <1>1, <2>1, <2>3, <3>3, LogGrows DEF LeaseInv
    <3>4. ASSUME NEW k \in 1..MaxEpoch, k > e
          PROVE  draft[<<s, k>>] = "none" /\ <<s, k>> \notin completed
      BY <1>1, <2>1, <2>3, <3>4, EdgeRows, EdgeAssumption DEF LeaseInv
    <3>5. QED
      BY <1>1, <2>1, <2>3, <3>1, <3>2, <3>3, <3>4, EdgeRows, EdgeAssumption DEF LeaseInv
  <2>4. QED
    BY <2>2, <2>3
<1>6. QED
  BY <1>1, <1>3, <1>4, <1>5, LocksKept DEF EdgeInv

(* provisionOverrunArtifacts, for leases that are ACTIVE.                   *)
LEMMA Overrun_Keeps ==
    ASSUME EdgeInv, NEW S \in SUBSET Sub, NEW time \in 0..MaxTime, Overrun(S, time),
           \A s \in S : lease[s].state = "ACTIVE" /\ ~Locked(s),
           UNCHANGED <<chain, drawn, overriding, edgeNow, completed>>, submitting' \subseteq Submission
    PROVE  EdgeInv'
<1> DEFINE Over(s) == [lease[s] EXCEPT !.state = "OVERRUN_DRAFT"]
           Tomb(s) == [epoch |-> lease[s].epoch, seq |-> tomb[s].seq + 1, at |-> time]
<1>1. ASSUME NEW s \in Sub
      PROVE  /\ Over(s) \in LeaseRow /\ Over(s).state = "OVERRUN_DRAFT" /\ Over(s).epoch = lease[s].epoch
             /\ Tomb(s) \in TombRow /\ Tomb(s).epoch = lease[s].epoch /\ Tomb(s).seq = tomb[s].seq + 1
  <2>1. lease[s] \in LeaseRow /\ tomb[s] \in TombRow /\ lease[s].epoch \in 0..MaxEpoch
    BY EdgeRows
  <2>2. tomb[s].seq + 1 \in Nat
    BY <2>1 DEF TombRow
  <2>3. Tomb(s) \in TombRow
    BY <2>1, <2>2 DEF TombRow
  <2>4. Over(s) \in LeaseRow /\ Over(s).state = "OVERRUN_DRAFT" /\ Over(s).epoch = lease[s].epoch
    BY <2>1 DEF LeaseRow, LeaseState
  <2>5. QED
    BY <2>3, <2>4
<1>2. /\ lease' = [s \in Sub |-> IF s \in S THEN Over(s) ELSE lease[s]]
      /\ tomb' = [s \in Sub |-> IF s \in S THEN Tomb(s) ELSE tomb[s]]
      /\ draft' = [d \in Draft |-> IF d[1] \in S /\ d[2] = lease[d[1]].epoch /\ draft[d] = "none"
                                   THEN "AWAITING" ELSE draft[d]]
  BY DEF Overrun
<1> HIDE DEF Over, Tomb
<1>3. EdgeTypeOK'
  <2>1. \A s \in Sub : lease[s] \in LeaseRow /\ tomb[s] \in TombRow
    BY EdgeRows
  <2>2. lease' \in [Sub -> LeaseRow] /\ tomb' \in [Sub -> TombRow]
    BY <1>1, <1>2, <2>1
  <2>3. draft' \in [Draft -> {"none", "AWAITING", "MERGED"}]
    BY <1>2 DEF EdgeInv, EdgeTypeOK
  <2>4. QED
    BY <2>2, <2>3 DEF EdgeInv, EdgeTypeOK, LeaseRow, TombRow
<1>4. ChainInv'
  <2>1. \A d \in Draft : draft'[d] = "MERGED" <=> draft[d] = "MERGED"
    BY <1>2
  <2>2. QED
    BY <2>1, ChainKept
<1>5. ASSUME NEW s \in Sub PROVE LeaseInv(s)'
  <2>1. LeaseInv(s)
    BY DEF EdgeInv
  <2>2. /\ lease[s].epoch \in Nat /\ tomb[s].epoch \in Nat /\ tomb[s].seq \in Nat
        /\ \A e \in 1..MaxEpoch : e \in Nat
    BY EdgeRows, EdgeAssumption
  <2>3. \A e \in 1..MaxEpoch :
          draft'[<<s, e>>] = IF s \in S /\ e = lease[s].epoch /\ draft[<<s, e>>] = "none"
                             THEN "AWAITING" ELSE draft[<<s, e>>]
    BY <1>2 DEF Draft
  <2>4. CASE s \notin S
    <3>1. lease'[s] = lease[s] /\ tomb'[s] = tomb[s]
      BY <1>2, <2>4
    <3>2. \A e \in 1..MaxEpoch : draft'[<<s, e>>] = draft[<<s, e>>]
      BY <2>3, <2>4
    <3>3. lease[s].epoch \in 0..MaxEpoch
      BY EdgeRows
    <3>4. lease[s].state # "none" => lease[s].epoch \in 1..MaxEpoch
      BY <2>1, <2>2, <3>3, EdgeAssumption DEF LeaseInv
    <3>5. QED
      BY <2>1, <3>1, <3>2, <3>4, LogGrows DEF LeaseInv
  <2>5. CASE s \in S
    <3>1. lease[s].state = "ACTIVE" /\ lease[s].epoch \in 1..MaxEpoch
      BY <2>1, <2>5, EdgeRows, EdgeAssumption DEF LeaseInv
    <3>2. /\ lease'[s].state = "OVERRUN_DRAFT" /\ lease'[s].epoch = lease[s].epoch
          /\ tomb'[s].epoch = lease[s].epoch /\ tomb'[s].seq = tomb[s].seq + 1
      BY <1>1, <1>2, <2>5
    <3>3. draft'[<<s, lease[s].epoch>>] = "AWAITING"
      BY <2>1, <2>3, <2>5, <3>1 DEF LeaseInv
    <3>4. \A e \in 1..MaxEpoch : e # lease[s].epoch => draft'[<<s, e>>] = draft[<<s, e>>]
      BY <2>3
    <3>5. <<s, lease[s].epoch>> \notin completed
      BY <2>1, <3>1 DEF LeaseInv
    <3>6. QED
      BY <2>1, <2>2, <3>1, <3>2, <3>3, <3>4, <3>5, LogGrows DEF LeaseInv
  <2>6. QED
    BY <2>4, <2>5
<1>6. LockInv'
  <2>1. ASSUME NEW o \in overriding PROVE tomb'[o.rec.sub].epoch = o.rec.epoch
    <3>1. o.rec.sub \in Sub /\ o.rec.sub \notin S
      BY DEF EdgeInv, EdgeTypeOK, Override, Locked
    <3>2. QED
      BY <1>2, <3>1 DEF EdgeInv, LockInv
  <2>2. QED
    BY <2>1 DEF LockInv
<1>7. QED
  BY <1>3, <1>4, <1>5, <1>6 DEF EdgeInv

LEMMA SweepExpiredLeases_Inv == ASSUME EdgeInv, SweepExpiredLeases PROVE EdgeInv'
<1> DEFINE S == {s \in Sub : Expired(s)}
<1>1. /\ Overrun(S, edgeNow) /\ S \in SUBSET Sub
      /\ \A s \in S : lease[s].state = "ACTIVE" /\ ~Locked(s)
      /\ UNCHANGED <<chain, drawn, submitting, overriding, edgeNow, completed>>
  BY DEF SweepExpiredLeases, Expired
<1>2. edgeNow \in 0..MaxTime /\ submitting' \subseteq Submission
  BY <1>1 DEF EdgeInv, EdgeTypeOK
<1> HIDE DEF S
<1>3. QED
  BY <1>1, <1>2, Overrun_Keeps

LEMMA SubmitInspection_Inv ==
    ASSUME EdgeInv, NEW s \in Sub, NEW n \in 1..MaxSubmit, SubmitInspection(s, n) PROVE EdgeInv'
<1>1. UNCHANGED <<lease, tomb, draft, chain, drawn, overriding, edgeNow, completed>>
  BY DEF SubmitInspection, tables
<1>2. submitting' \subseteq Submission
  BY DEF SubmitInspection, Submission, EdgeInv, EdgeTypeOK
<1>3. EdgeTypeOK'
  BY <1>1, <1>2 DEF EdgeInv, EdgeTypeOK
<1>4. ChainInv' /\ LockInv' /\ \A z \in Sub : LeaseInv(z)'
  BY <1>1, RowsKept, ChainKept, LocksKept
<1>5. QED
  BY <1>3, <1>4 DEF EdgeInv

LEMMA SubmitUpdate_Inv ==
    ASSUME EdgeInv, NEW c \in submitting, SubmitUpdate(c) PROVE EdgeInv'
<1>1. c \in Submission /\ c.sub \in Sub
  BY DEF EdgeInv, EdgeTypeOK, Submission
<1>2. UNCHANGED <<tomb, draft, chain, drawn, overriding, edgeNow>>
  BY DEF SubmitUpdate
<1>3. ChainInv' /\ LockInv'
  BY <1>2, ChainKept, LocksKept
<1>4. CASE InWindow(c) /\ submitting' = submitting \ {c}
           /\ lease' = [lease EXCEPT ![c.sub].state = "COMPLETED"]
           /\ completed' = completed \cup {<<c.sub, lease[c.sub].epoch>>}
  <2>1. lease[c.sub].state = "ACTIVE"
    BY <1>4 DEF InWindow
  <2>2. lease[c.sub].epoch \in 1..MaxEpoch
    <3>1. LeaseInv(c.sub) /\ lease[c.sub].epoch \in 0..MaxEpoch
      BY <1>1, EdgeRows DEF EdgeInv
    <3>2. QED
      BY <2>1, <3>1, EdgeAssumption DEF LeaseInv
  <2>3. EdgeTypeOK'
    <3>1. lease' \in [Sub -> LeaseRow]
      BY <1>4 DEF EdgeInv, EdgeTypeOK, LeaseRow, LeaseState
    <3>2. completed' \subseteq Draft /\ submitting' \subseteq Submission
      BY <1>1, <1>4, <2>2 DEF EdgeInv, EdgeTypeOK, Draft
    <3>3. QED
      BY <1>2, <3>1, <3>2 DEF EdgeInv, EdgeTypeOK, LeaseRow
  <2>4. ASSUME NEW z \in Sub PROVE LeaseInv(z)'
    <3>1. LeaseInv(z)
      BY DEF EdgeInv
    <3>2. \A e \in 1..MaxEpoch :
            <<z, e>> \in completed' <=> <<z, e>> \in completed \/ (z = c.sub /\ e = lease[z].epoch)
      BY <1>4
    <3>3. /\ lease'[z].epoch = lease[z].epoch
          /\ lease'[z].state = IF z = c.sub THEN "COMPLETED" ELSE lease[z].state
      BY <1>1, <1>4 DEF EdgeInv, EdgeTypeOK
    <3>4. /\ lease[z].epoch \in Nat /\ tomb[z].epoch \in Nat /\ \A e \in 1..MaxEpoch : e \in Nat
      BY EdgeRows, EdgeAssumption
    <3>5. CASE z = c.sub
      BY <1>2, <2>1, <3>1, <3>2, <3>3, <3>4, <3>5, LogGrows DEF LeaseInv
    <3>6. CASE z # c.sub
      BY <1>2, <3>1, <3>2, <3>3, <3>4, <3>6, LogGrows DEF LeaseInv
    <3>7. QED
      BY <3>5, <3>6
  <2>5. QED
    BY <1>3, <2>3, <2>4 DEF EdgeInv
<1>5. CASE UNCHANGED <<lease, completed>>
           /\ submitting' = (submitting \ {c}) \cup {[c EXCEPT !.phase = "diagnose"]}
  <2>1. [c EXCEPT !.phase = "diagnose"] \in Submission
    BY <1>1 DEF Submission
  <2>2. EdgeTypeOK'
    BY <1>2, <1>5, <2>1 DEF EdgeInv, EdgeTypeOK
  <2>3. QED
    BY <1>2, <1>3, <1>5, <2>2, RowsKept DEF EdgeInv
<1>6. QED
  BY <1>4, <1>5 DEF SubmitUpdate

LEMMA SubmitDiagnose_Inv ==
    ASSUME EdgeInv, NEW c \in submitting, SubmitDiagnose(c) PROVE EdgeInv'
<1>1. c \in Submission /\ c.sub \in Sub /\ c.at \in 0..MaxTime
  BY DEF EdgeInv, EdgeTypeOK, Submission
<1>2. /\ UNCHANGED <<chain, drawn, overriding, edgeNow, completed>> /\ submitting' \subseteq Submission
      /\ ~Locked(c.sub)
  BY DEF SubmitDiagnose, EdgeInv, EdgeTypeOK
<1>3. CASE lease[c.sub].state = "ACTIVE" /\ Overrun({c.sub}, c.at)
  <2>1. {c.sub} \in SUBSET Sub /\ \A s \in {c.sub} : lease[s].state = "ACTIVE" /\ ~Locked(s)
    BY <1>1, <1>2, <1>3
  <2>2. QED
    BY <1>1, <1>2, <1>3, <2>1, Overrun_Keeps
<1>4. CASE UNCHANGED <<lease, tomb, draft>>
  <2>1. EdgeTypeOK'
    BY <1>2, <1>4 DEF EdgeInv, EdgeTypeOK
  <2>2. QED
    BY <1>2, <1>4, <2>1, RowsKept, ChainKept, LocksKept DEF EdgeInv
<1>5. QED
  BY <1>3, <1>4 DEF SubmitDiagnose

LEMMA OverrideRead_Inv ==
    ASSUME EdgeInv, NEW rec \in Override, OverrideRead(rec) PROVE EdgeInv'
<1> DEFINE o == [rec |-> rec, prev |-> LastEvent, nth |-> drawn + 1]
<1>1. /\ UNCHANGED <<lease, tomb, draft, chain, submitting, edgeNow, completed>>
      /\ overriding' = overriding \cup {o} /\ drawn' = drawn + 1
      /\ tomb[rec.sub].epoch = rec.epoch
  BY DEF OverrideRead, FreshOverride
<1>2. drawn \in Nat /\ drawn + 1 \in Nat
  BY DEF EdgeInv, EdgeTypeOK
<1>3. LastEvent \in Draft \cup {Root}
  <2>1. CASE chain = {}
    BY <2>1 DEF LastEvent
  <2>2. CASE chain # {}
    <3>1. \E e \in chain : \A f \in chain : f.nth <= e.nth
      BY <2>2 DEF EdgeInv, ChainInv
    <3>2. (CHOOSE e \in chain : \A f \in chain : f.nth <= e.nth) \in chain
      BY <3>1
    <3>3. QED
      BY <2>2, <3>2 DEF LastEvent, EdgeInv, EdgeTypeOK, Event
  <2>3. QED
    BY <2>1, <2>2
<1>4. o \in Attempt /\ o.rec = rec
  BY <1>2, <1>3 DEF Attempt
<1> HIDE DEF o
<1>5. EdgeTypeOK'
  BY <1>1, <1>2, <1>4 DEF EdgeInv, EdgeTypeOK, Attempt, Event
<1>6. IsFiniteSet(overriding')
  BY <1>1, FS_AddElement DEF EdgeInv, ChainInv
<1>7. ChainInv'
  BY <1>1, <1>6 DEF EdgeInv, ChainInv
<1>8. LockInv'
  BY <1>1, <1>4 DEF EdgeInv, LockInv
<1>9. QED
  BY <1>1, <1>5, <1>7, <1>8, RowsKept DEF EdgeInv

LEMMA OverrideWrite_Inv ==
    ASSUME EdgeInv, NEW o \in overriding, OverrideWrite(o) PROVE EdgeInv'
<1> DEFINE s == o.rec.sub
           e == o.rec.epoch
           t == o.rec.draft
           x == [sub |-> s, epoch |-> e, merges |-> t, prev |-> o.prev, nth |-> o.nth]
<1>1. o \in Attempt /\ s \in Sub /\ e \in 1..MaxEpoch /\ t \in Draft
  BY DEF EdgeInv, EdgeTypeOK, Attempt, Override
<1>2. /\ draft[t] = "AWAITING" /\ chain' = chain \cup {x}
      /\ draft' = [draft EXCEPT ![t] = "MERGED"]
      /\ lease' = [lease EXCEPT ![s].state = "RELEASED"]
      /\ overriding' = overriding \ {o}
      /\ UNCHANGED <<tomb, drawn, submitting, edgeNow, completed>>
  BY DEF OverrideWrite, Mergeable
<1>3. x \in Event /\ x.merges = t /\ x.sub = s /\ x.epoch = e /\ x.nth \in Nat
  BY <1>1 DEF Event, Attempt
<1>4. tomb[s].epoch = e
  BY DEF EdgeInv, LockInv
<1> HIDE DEF s, e, t, x
<1>5. EdgeTypeOK'
  <2>1. lease' \in [Sub -> LeaseRow]
    BY <1>2 DEF EdgeInv, EdgeTypeOK, LeaseRow, LeaseState
  <2>2. chain' \subseteq Event /\ draft' \in [Draft -> {"none", "AWAITING", "MERGED"}]
    BY <1>2, <1>3 DEF EdgeInv, EdgeTypeOK
  <2>3. QED
    BY <1>2, <2>1, <2>2 DEF EdgeInv, EdgeTypeOK, LeaseRow
<1>6. ChainInv'
  <2>1. IsFiniteSet(chain') /\ IsFiniteSet(overriding')
    BY <1>2, FS_AddElement, FS_RemoveElement DEF EdgeInv, ChainInv
  <2>2. \A f \in chain : f.nth \in Nat /\ f.merges \in Draft /\ draft[f.merges] = "MERGED"
    BY DEF EdgeInv, EdgeTypeOK, ChainInv, Event
  <2>3. \A d \in Draft : draft'[d] = IF d = t THEN "MERGED" ELSE draft[d]
    BY <1>2 DEF EdgeInv, EdgeTypeOK
  <2>4. \E g \in chain' : \A f \in chain' : f.nth <= g.nth
    <3>1. CASE chain = {}
      BY <1>2, <1>3, <3>1
    <3>2. CASE chain # {}
      <4>1. PICK g \in chain : \A f \in chain : f.nth <= g.nth
        BY <3>2 DEF EdgeInv, ChainInv
      <4>2. CASE g.nth <= x.nth
        BY <1>2, <1>3, <2>2, <4>1, <4>2
      <4>3. CASE x.nth < g.nth
        BY <1>2, <1>3, <2>2, <4>1, <4>3
      <4>4. QED
        BY <1>3, <2>2, <4>2, <4>3
    <3>3. QED
      BY <3>1, <3>2
  <2>5. \A f \in chain' : draft'[f.merges] = "MERGED"
    BY <1>1, <1>2, <1>3, <2>2, <2>3
  <2>6. \A f, g \in chain' : f.merges = g.merges => f = g
    <3>1. \A f \in chain : f.merges # t
      BY <1>2, <2>2
    <3>2. QED
      BY <1>2, <1>3, <3>1 DEF EdgeInv, ChainInv
  <2>7. \A d \in Draft : draft'[d] = "MERGED" => \E f \in chain' : f.merges = d
    BY <1>2, <1>3, <2>3 DEF EdgeInv, ChainInv
  <2>8. QED
    BY <2>1, <2>4, <2>5, <2>6, <2>7 DEF ChainInv
<1>7. ASSUME NEW z \in Sub PROVE LeaseInv(z)'
  <2>1. LeaseInv(z)
    BY DEF EdgeInv
  <2>2. /\ lease'[z].epoch = lease[z].epoch
        /\ lease'[z].state = IF z = s THEN "RELEASED" ELSE lease[z].state
    BY <1>1, <1>2 DEF EdgeInv, EdgeTypeOK
  <2>3. \A k \in 1..MaxEpoch :
          draft'[<<z, k>>] = IF t = <<z, k>> THEN "MERGED" ELSE draft[<<z, k>>]
    BY <1>1, <1>2 DEF EdgeInv, EdgeTypeOK, Draft
  <2>4. /\ lease[z].epoch \in 0..MaxEpoch /\ lease[z].epoch \in Nat /\ tomb[z].epoch \in Nat
        /\ \A k \in 1..MaxEpoch : k \in Nat
    BY EdgeRows, EdgeAssumption
  <2>5. lease[z].state # "none" => lease[z].epoch \in 1..MaxEpoch
    BY <2>1, <2>4, EdgeAssumption DEF LeaseInv
  <2>6. /\ \A k \in 1..MaxEpoch : /\ Stranded(z, k) => Stranded(z, k)'
                                  /\ MergedElsewhere(z, k) => MergedElsewhere(z, k)'
                                  /\ t = <<z, k>> => draft[<<z, k>>] = "AWAITING"
        /\ Strayed(z) => Strayed(z)'
    BY <1>2, LogGrows
  <2>7. CASE z # s
    <3>1. ASSUME NEW k \in 1..MaxEpoch, t = <<z, k>> PROVE MergedElsewhere(z, k)'
      BY <1>2, <1>3, <2>7, <3>1 DEF MergedElsewhere
    <3>2. \A k \in 1..MaxEpoch : t = <<z, k>> => draft[<<z, k>>] = "AWAITING" /\ draft'[<<z, k>>] = "MERGED"
      BY <2>3, <2>6
    <3>3. lease'[z].state = lease[z].state
      BY <2>2, <2>7
    <3>4. QED
      BY <1>2, <2>1, <2>2, <2>3, <2>4, <2>5, <2>6, <3>1, <3>2, <3>3 DEF LeaseInv
  <2>8. CASE z = s
    <3>1. t # <<s, e>> => Strayed(s)' /\ Stranded(s, e)'
      BY <1>2, <1>3 DEF Strayed, Stranded, Misfiled
    <3>2. lease[s].state # "none" /\ tomb[s].epoch >= 1
      BY <1>1, <1>4, <2>1, <2>4, <2>8, EdgeAssumption DEF LeaseInv
    <3>3. draft'[<<s, lease[s].epoch>>] = "MERGED" \/ Strayed(s)'
      <4>1. CASE t = <<s, e>> /\ lease[s].state = "OVERRUN_DRAFT"
        BY <1>4, <2>1, <2>3, <2>5, <2>8, <4>1 DEF LeaseInv
      <4>2. CASE t = <<s, e>> /\ lease[s].state # "OVERRUN_DRAFT"
        <5>1. Stranded(s, e)
          BY <1>1, <1>2, <2>1, <2>8, <4>2 DEF LeaseInv
        <5>2. Strayed(s)
          BY <5>1 DEF Stranded, Strayed
        <5>3. QED
          BY <2>6, <2>8, <5>2
      <4>3. QED
        BY <3>1, <4>1, <4>2
    <3>4. ASSUME NEW k \in 1..MaxEpoch, draft'[<<s, k>>] = "AWAITING" PROVE Stranded(s, k)'
      <4>1. draft[<<s, k>>] = "AWAITING" /\ t # <<s, k>>
        BY <2>3, <2>8, <3>4
      <4>2. CASE lease[s].state = "OVERRUN_DRAFT" /\ lease[s].epoch = k
        BY <1>4, <2>1, <2>8, <3>1, <4>1, <4>2 DEF LeaseInv
      <4>3. CASE Stranded(s, k)
        BY <2>6, <2>8, <4>3
      <4>4. QED
        BY <2>1, <2>8, <4>1, <4>2, <4>3 DEF LeaseInv
    <3>5. \A k \in 1..MaxEpoch : draft[<<s, k>>] = "none" => draft'[<<s, k>>] = "none"
      BY <2>3, <2>6, <2>8
    <3>6. QED
      BY <1>2, <2>1, <2>2, <2>4, <2>5, <2>8, <3>2, <3>3, <3>4, <3>5 DEF LeaseInv
  <2>9. QED
    BY <2>7, <2>8
<1>8. QED
  BY <1>2, <1>5, <1>6, <1>7, LocksKept DEF EdgeInv

LEMMA OverrideRollback_Inv ==
    ASSUME EdgeInv, NEW o \in overriding, OverrideRollback(o) PROVE EdgeInv'
<1>1. /\ overriding' = overriding \ {o}
      /\ UNCHANGED <<lease, tomb, draft, chain, drawn, submitting, edgeNow, completed>>
  BY DEF OverrideRollback, tables
<1>2. EdgeTypeOK'
  BY <1>1 DEF EdgeInv, EdgeTypeOK
<1>3. IsFiniteSet(overriding')
  BY <1>1, FS_RemoveElement DEF EdgeInv, ChainInv
<1>4. ChainInv'
  BY <1>1, <1>3 DEF EdgeInv, ChainInv
<1>5. QED
  BY <1>1, <1>2, <1>4, RowsKept, LocksKept DEF EdgeInv

LEMMA EdgeNext_Inv == EdgeInv /\ [EdgeNext]_edgeVars => EdgeInv'
<1> SUFFICES ASSUME EdgeInv, [EdgeNext]_edgeVars PROVE EdgeInv'
  OBVIOUS
<1>1. CASE EdgeTick
  <2>1. UNCHANGED <<lease, tomb, draft, chain, drawn, overriding, completed>>
    BY <1>1 DEF EdgeTick, tables
  <2>2. edgeNow' \in 0..MaxTime
    BY <1>1, EdgeAssumption DEF EdgeTick, EdgeInv, EdgeTypeOK
  <2>3. EdgeTypeOK'
    BY <1>1, <2>1, <2>2 DEF EdgeTick, EdgeInv, EdgeTypeOK
  <2>4. QED
    BY <2>1, <2>3, RowsKept, ChainKept, LocksKept DEF EdgeInv
<1>2. CASE UNCHANGED edgeVars
  <2>1. /\ UNCHANGED <<lease, tomb, draft, chain, overriding, completed>>
        /\ EdgeTypeOK'
    BY <1>2 DEF edgeVars, tables, EdgeInv, EdgeTypeOK
  <2>2. QED
    BY <2>1, RowsKept, ChainKept, LocksKept DEF EdgeInv
<1>3. QED
  BY <1>1, <1>2, DispatchLease_Inv, SubmitInspection_Inv, SweepExpiredLeases_Inv,
     SubmitUpdate_Inv, SubmitDiagnose_Inv, OverrideRead_Inv, OverrideWrite_Inv, OverrideRollback_Inv
     DEF EdgeNext

(* The tables of the coordinator and its transactions hold rows of their    *)
(* types.                                                                   *)
THEOREM EdgeTypeCorrect == EdgeSpec => []EdgeTypeOK
<1>1. EdgeSpec => []EdgeInv
  BY EdgeInit_Inv, EdgeNext_Inv, PTL DEF EdgeSpec
<1>2. EdgeInv => EdgeTypeOK
  BY DEF EdgeInv
<1>3. QED
  BY <1>1, <1>2, PTL

(* provisionOverrunArtifacts, SubmitInspection and CommitEscrowOverride: a  *)
(* lease, its tombstone, its draft and the event that merges the draft      *)
(* agree, for any number of leases, whichever transactions interleave and   *)
(* whichever drafts the override records name; where such a record named    *)
(* another lease's draft, its event in the audit log tells.                 *)
THEOREM LeasesStayAccounted == EdgeSpec => []LeasesAreAccounted
<1>1. EdgeSpec => []EdgeInv
  BY EdgeInit_Inv, EdgeNext_Inv, PTL DEF EdgeSpec
<1>2. QED
  BY <1>1, EdgeInv_Accounted, PTL

-----------------------------------------------------------------------------
(* Resumable uploads.                                                       *)

UploadTypes ==
    /\ offset \in [Upload -> 0..Size \cup {NoUpload}]
    /\ sidecar \in [Upload -> 0..Size \cup {NoUpload}]
    /\ file \in [Upload -> Seq(1..Size) \cup {NoUpload}]
    /\ creating \in [Upload -> {"new", "file", "registered", "done"}]
    /\ told \in [Upload -> 0..Size]
    /\ recent \subseteq Upload /\ failed \subseteq Upload /\ raced \subseteq Upload
    /\ boot \in BOOLEAN
    /\ sweep \in [phase : {"idle", "listed", "restored"}, chunks : SUBSET Upload,
                  sidecars : SUBSET Upload, tracked : SUBSET Upload]
    /\ stored \in [Upload -> {NoUpload, Whole}]

(* An upload that is being created has nothing to lose: nothing was written *)
(* and nobody was told of it.                                               *)
BeingCreated(u) ==
    /\ creating[u] = "new" => offset[u] = NoUpload /\ file[u] = NoUpload
    /\ creating[u] = "file" => offset[u] = NoUpload
    /\ creating[u] = "registered" => offset[u] = 0
    /\ creating[u] # "done" =>
         sidecar[u] = NoUpload /\ told[u] = 0 /\ u \notin failed /\ file[u] \in {NoUpload, <<>>}
    /\ creating[u] \in {"file", "registered"} => u \in recent

(* A file without a session is one that Create has just made; a session     *)
(* without a file has lost it to a sweep that raced with Create; otherwise  *)
(* the file holds what the session counts, which is what clients know of,   *)
(* and nothing else unless a write failed half-way.                         *)
SessionAndFile(u) ==
    /\ offset[u] = NoUpload /\ file[u] # NoUpload => creating[u] = "file"
    /\ offset[u] # NoUpload /\ file[u] = NoUpload => u \in raced
    /\ creating[u] = "file" /\ file[u] = NoUpload => u \in raced
    /\ offset[u] # NoUpload /\ file[u] # NoUpload =>
         /\ told[u] <= offset[u] /\ offset[u] <= Len(file[u])
         /\ u \notin failed => file[u] = Bytes(0, offset[u])

(* What a sweep takes for garbage has no session and gets none any more,    *)
(* except where Create registers it after the sweep's second look.          *)
SweepInv(u) ==
    /\ sweep.phase = "listed" =>
         /\ u \in sweep.chunks => creating[u] # "new"
         /\ u \in sweep.sidecars \ sweep.tracked => offset[u] = NoUpload /\ creating[u] = "done"
    /\ sweep.phase = "restored" /\ u \in sweep.chunks \ sweep.tracked =>
         u \in raced \/ (offset[u] = NoUpload /\ creating[u] = "done")

TusInv ==
    /\ UploadTypes
    /\ \A u \in Upload : BeingCreated(u) /\ SessionAndFile(u) /\ SweepInv(u)

LEMMA BytesAreNumbered ==
    ASSUME NEW a \in Nat, NEW n \in Nat, a + n <= Size
    PROVE  /\ Bytes(a, n) \in Seq(1..Size) /\ Len(Bytes(a, n)) = n
           /\ DOMAIN Bytes(a, n) = 1..n /\ \A i \in 1..n : Bytes(a, n)[i] = a + i
<1>1. \A i \in 1..n : a + i \in 1..Size
  BY UploadAssumption
<1>2. Bytes(a, n) \in [1..n -> 1..Size]
  BY <1>1 DEF Bytes
<1>3. Bytes(a, n) \in Seq(1..Size)
  BY <1>2, SeqDef
<1>4. DOMAIN Bytes(a, n) = 1..n /\ \A i \in 1..n : Bytes(a, n)[i] = a + i
  BY DEF Bytes
<1>5. Len(Bytes(a, n)) \in Nat /\ 1..Len(Bytes(a, n)) = 1..n
  BY <1>3, <1>4, LenProperties
<1>6. Len(Bytes(a, n)) = n
  <2> DEFINE m == Len(Bytes(a, n))
  <2> HIDE DEF m
  <2>1. ASSUME m \in Nat, 1..m = 1..n PROVE m = n
    <3>1. CASE m < n
      <4>1. n \in 1..n /\ n \notin 1..m
        BY <2>1, <3>1
      <4>2. QED
        BY <2>1, <4>1
    <3>2. CASE n < m
      <4>1. m \in 1..m /\ m \notin 1..n
        BY <2>1, <3>2
      <4>2. QED
        BY <2>1, <4>1
    <3>3. QED
      BY <2>1, <3>1, <3>2
  <2>2. QED
    BY <1>5, <2>1 DEF m
<1>7. QED
  BY <1>3, <1>4, <1>6

LEMMA NoBytes == Bytes(0, 0) = <<>> /\ Len(<<>>) = 0
<1>1. Bytes(0, 0) \in Seq(1..Size) /\ Len(Bytes(0, 0)) = 0
  <2>1. 0 \in Nat /\ 0 + 0 <= Size
    BY UploadAssumption
  <2>2. QED
    BY <2>1, BytesAreNumbered, Zenon
<1>2. QED
  BY <1>1, EmptySeq

(* A chunk that follows the first m bytes makes the first m + k bytes, and  *)
(* cut back to m leaves them.                                               *)
LEMMA BytesJoin ==
    ASSUME NEW m \in Nat, NEW k \in Nat, m + k <= Size
    PROVE  Bytes(0, m) \o Bytes(m, k) = Bytes(0, m + k)
<1>1. m + k \in Nat /\ m <= Size /\ 0 + m <= Size /\ 0 + (m + k) <= Size
  BY UploadAssumption
<1> DEFINE p == Bytes(0, m)
           q == Bytes(m, k)
           w == Bytes(0, m + k)
<1>2. /\ p \in Seq(1..Size) /\ Len(p) = m /\ \A i \in 1..m : p[i] = i
      /\ q \in Seq(1..Size) /\ Len(q) = k /\ \A i \in 1..k : q[i] = m + i
      /\ w \in Seq(1..Size) /\ Len(w) = m + k /\ \A i \in 1..(m + k) : w[i] = i
  <2>1. \A i \in Nat : 0 + i = i
    OBVIOUS
  <2>2. p \in Seq(1..Size) /\ Len(p) = m /\ \A i \in 1..m : p[i] = 0 + i
    <3>1. 0 \in Nat /\ 0 + m <= Size
      BY <1>1
    <3>2. QED
      BY <3>1, BytesAreNumbered, Zenon
  <2>3. q \in Seq(1..Size) /\ Len(q) = k /\ \A i \in 1..k : q[i] = m + i
    BY BytesAreNumbered, Zenon
  <2>4. w \in Seq(1..Size) /\ Len(w) = m + k /\ \A i \in 1..(m + k) : w[i] = 0 + i
    <3>1. 0 \in Nat /\ 0 + (m + k) <= Size
      BY <1>1
    <3>2. QED
      BY <1>1, <3>1, BytesAreNumbered, Zenon
  <2> HIDE DEF p, q, w
  <2>5. QED
    BY <2>2, <2>3, <2>4
<1> HIDE DEF p, q, w
<1>3. p \o q \in Seq(1..Size) /\ Len(p \o q) = m + k
      /\ \A i \in 1..(m + k) : (p \o q)[i] = IF i <= m THEN p[i] ELSE q[i - m]
  <2>1. p \in Seq(1..Size) /\ q \in Seq(1..Size) /\ Len(p) = m /\ Len(q) = k
    BY <1>2
  <2>2. /\ p \o q \in Seq(1..Size) /\ Len(p \o q) = Len(p) + Len(q)
        /\ \A i \in 1..(Len(p) + Len(q)) : (p \o q)[i] = IF i <= Len(p) THEN p[i] ELSE q[i - Len(p)]
    BY <2>1, ConcatProperties, Zenon
  <2>3. QED
    BY <2>1, <2>2, Zenon
<1>4. \A i \in 1..(m + k) : (p \o q)[i] = i
  BY <1>1, <1>2, <1>3
<1>5. QED
  BY <1>2, <1>3, <1>4, SeqEqual DEF p, q, w

LEMMA BytesCut ==
    ASSUME NEW m \in Nat, NEW n \in Nat, m + n <= Size
    PROVE  SubSeq(Bytes(0, m) \o Bytes(m, n), 1, m) = Bytes(0, m)
<1> DEFINE p == Bytes(0, m)
           q == Bytes(m, n)
           b == p \o q
<1>1. p \in Seq(1..Size) /\ Len(p) = m /\ q \in Seq(1..Size)
  <2>1. 0 \in Nat /\ 0 + m <= Size
    BY UploadAssumption
  <2>2. p \in Seq(1..Size) /\ Len(p) = m
    BY <2>1, BytesAreNumbered, Zenon
  <2>3. q \in Seq(1..Size)
    BY BytesAreNumbered, Zenon
  <2>4. QED
    BY <2>2, <2>3
<1> HIDE DEF p, q
<1>2. /\ p \in Seq(1..Size) /\ Len(p) = m /\ b \in Seq(1..Size) /\ m <= Len(b)
      /\ \A i \in 1..m : i \in 1..Len(b) /\ b[i] = p[i]
  <2>1. b \in Seq(1..Size) /\ Len(b) = m + Len(q) /\ Len(q) \in Nat
        /\ \A i \in 1..(m + Len(q)) : b[i] = IF i <= m THEN p[i] ELSE q[i - m]
    BY <1>1, ConcatProperties, LenProperties
  <2> HIDE DEF b
  <2>2. QED
    BY <1>1, <2>1
<1> HIDE DEF b
<1>3. \A i \in 1..m : b[i] \in 1..Size
  BY <1>2, ElementOfSeq
<1>4. /\ SubSeq(b, 1, m) \in Seq(1..Size)
      /\ Len(SubSeq(b, 1, m)) = IF 1 <= m THEN m - 1 + 1 ELSE 0
      /\ \A i \in 1..(m - 1 + 1) : SubSeq(b, 1, m)[i] = b[1 + i - 1]
  BY <1>3, SubSeqProperties
<1>5. Len(SubSeq(b, 1, m)) = m /\ \A i \in 1..m : SubSeq(b, 1, m)[i] = p[i]
  BY <1>2, <1>4
<1>6. SubSeq(b, 1, m) = p
  BY <1>2, <1>4, <1>5, SeqEqual
<1>7. QED
  BY <1>6 DEF b, p, q

LEMMA NoUploadIsNoFile == \A f \in Seq(1..Size) : f # NoUpload /\ Len(f) \in Nat
<1> SUFFICES ASSUME NEW f \in Seq(1..Size) PROVE f # NoUpload /\ Len(f) \in Nat
  OBVIOUS
<1>1. Len(f) \in Nat
  BY LenProperties
<1>2. f \in Seq(Nat)
  <2>1. 1..Size \subseteq Nat
    BY UploadAssumption
  <2>2. QED
    BY <2>1, SeqMonotonic
<1>3. QED
  BY <1>1, <1>2, UploadAssumption

(* The object the file of an upload holds after an Append, or a failed one. *)
LEMMA FileGrows ==
    ASSUME UploadTypes, NEW u \in Upload, offset[u] \in 0..Size, file[u] # NoUpload,
           NEW k \in Nat, offset[u] + k <= Size
    PROVE  /\ Grown(u, offset[u], k) \in [Upload -> Seq(1..Size) \cup {NoUpload}]
           /\ \A z \in Upload \ {u} : Grown(u, offset[u], k)[z] = file[z]
           /\ Grown(u, offset[u], k)[u] \in Seq(1..Size) /\ Grown(u, offset[u], k)[u] # NoUpload
           /\ Len(Grown(u, offset[u], k)[u]) = Len(file[u]) + k
           /\ file[u] = Bytes(0, offset[u]) =>
                /\ Grown(u, offset[u], k)[u] = Bytes(0, offset[u] + k)
                /\ Len(Grown(u, offset[u], k)[u]) = offset[u] + k
<1> DEFINE m == offset[u]
           b == Bytes(m, k)
           f == file[u] \o b
<1>1. m \in Nat /\ m + k \in Nat /\ 0 \in Nat /\ 0 + (m + k) <= Size
  BY UploadAssumption
<1>2. b \in Seq(1..Size) /\ Len(b) = k
  BY <1>1, BytesAreNumbered, Zenon
<1>3. file[u] \in Seq(1..Size)
  BY DEF UploadTypes
<1>4. f \in Seq(1..Size) /\ Len(f) = Len(file[u]) + k
  <2> HIDE DEF b
  <2>1. QED
    BY <1>2, <1>3, ConcatProperties
<1>5. Grown(u, m, k) = [file EXCEPT ![u] = f]
  BY DEF Grown
<1>6. ASSUME file[u] = Bytes(0, m) PROVE f = Bytes(0, m + k) /\ Len(f) = m + k
  <2>1. f = Bytes(0, m + k)
    BY <1>1, <1>6, BytesJoin, Zenon
  <2>2. Len(Bytes(0, m + k)) = m + k
    BY <1>1, BytesAreNumbered, Zenon
  <2>3. QED
    BY <2>1, <2>2
<1>7. f # NoUpload
  BY <1>4, NoUploadIsNoFile
<1> HIDE DEF f
<1>8. file \in [Upload -> Seq(1..Size) \cup {NoUpload}]
  BY DEF UploadTypes
<1>9. /\ Grown(u, m, k) \in [Upload -> Seq(1..Size) \cup {NoUpload}]
      /\ \A z \in Upload \ {u} : Grown(u, m, k)[z] = file[z]
      /\ Grown(u, m, k)[u] = f
  BY <1>4, <1>5, <1>8
<1>10. Len(Grown(u, m, k)[u]) = Len(file[u]) + k
  BY <1>4, <1>9
<1>11. file[u] = Bytes(0, m) =>
         Grown(u, m, k)[u] = Bytes(0, m + k) /\ Len(Grown(u, m, k)[u]) = m + k
  BY <1>6, <1>9
<1>12. Grown(u, m, k)[u] \in Seq(1..Size) /\ Grown(u, m, k)[u] # NoUpload
  BY <1>4, <1>7, <1>9
<1>13. QED
  BY <1>9, <1>10, <1>11, <1>12, Zenon

LEMMA TusInit_Inv == TusInit => TusInv
<1> SUFFICES ASSUME TusInit PROVE TusInv
  OBVIOUS
<1>1. UploadTypes
  <2>1. 0 \in 0..Size
    BY UploadAssumption
  <2>2. /\ offset \in [Upload -> 0..Size \cup {NoUpload}]
        /\ sidecar \in [Upload -> 0..Size \cup {NoUpload}]
        /\ file \in [Upload -> Seq(1..Size) \cup {NoUpload}]
        /\ told \in [Upload -> 0..Size]
        /\ stored \in [Upload -> {NoUpload, Whole}]
    BY <2>1 DEF TusInit
  <2>3. sweep \in [phase : {"idle", "listed", "restored"}, chunks : SUBSET Upload,
                   sidecars : SUBSET Upload, tracked : SUBSET Upload]
    BY DEF TusInit, Idle
  <2>4. QED
    BY <2>2, <2>3 DEF TusInit, UploadTypes
<1>2. \A u \in Upload : BeingCreated(u) /\ SessionAndFile(u) /\ SweepInv(u)
  BY DEF TusInit, BeingCreated, SessionAndFile, SweepInv, Idle
<1>3. QED
  BY <1>1, <1>2 DEF TusInv

(* A request touches one upload: the others stay as they are.               *)
OnlyTouches(u) ==
    /\ \A z \in Upload \ {u} :
         /\ offset'[z] = offset[z] /\ file'[z] = file[z] /\ sidecar'[z] = sidecar[z]
         /\ creating'[z] = creating[z] /\ told'[z] = told[z]
         /\ z \in recent' <=> z \in recent
         /\ z \in failed' <=> z \in failed
    /\ raced' = raced /\ sweep' = sweep

LEMMA OneUpload ==
    ASSUME TusInv, NEW u \in Upload, OnlyTouches(u), UploadTypes',
           BeingCreated(u)', SessionAndFile(u)', SweepInv(u)'
    PROVE  TusInv'
<1>1. ASSUME NEW z \in Upload \ {u} PROVE BeingCreated(z)' /\ SessionAndFile(z)' /\ SweepInv(z)'
  <2>1. BeingCreated(z) /\ SessionAndFile(z) /\ SweepInv(z)
    BY DEF TusInv
  <2>2. /\ offset'[z] = offset[z] /\ file'[z] = file[z] /\ sidecar'[z] = sidecar[z]
        /\ creating'[z] = creating[z] /\ told'[z] = told[z]
        /\ z \in recent' <=> z \in recent
        /\ z \in failed' <=> z \in failed
        /\ raced' = raced /\ sweep' = sweep
    BY DEF OnlyTouches
  <2>3. BeingCreated(z)'
    BY <2>1, <2>2 DEF BeingCreated
  <2>4. SessionAndFile(z)'
    BY <2>1, <2>2 DEF SessionAndFile
  <2>5. SweepInv(z)'
    BY <2>1, <2>2 DEF SweepInv
  <2>6. QED
    BY <2>3, <2>4, <2>5
<1>2. QED
  BY <1>1 DEF TusInv

LEMMA CreateFile_Inv == ASSUME TusInv, NEW u \in Upload, CreateFile(u) PROVE TusInv'
<1>1. BeingCreated(u) /\ SessionAndFile(u) /\ SweepInv(u) /\ UploadTypes
  BY DEF TusInv
<1> USE DEF CreateFile, tusHistory
<1>2. <<>> \in Seq(1..Size) /\ <<>> # NoUpload
  BY EmptySeq, NoUploadIsNoFile
<1>3. file'[u] = <<>> /\ creating'[u] = "file" /\ \A z \in Upload \ {u} : file'[z] = file[z] /\ creating'[z] = creating[z]
  BY <1>1 DEF UploadTypes
<1>4. UploadTypes'
  BY <1>1, <1>2 DEF UploadTypes, Whole, Bytes
<1>5. OnlyTouches(u)
  BY <1>3 DEF OnlyTouches
<1>6. BeingCreated(u)'
  BY <1>1, <1>3 DEF BeingCreated
<1>7. SessionAndFile(u)'
  BY <1>1, <1>2, <1>3 DEF BeingCreated, SessionAndFile
<1>8. SweepInv(u)'
  BY <1>1, <1>3 DEF SweepInv
<1>9. QED
  BY <1>4, <1>5, <1>6, <1>7, <1>8, OneUpload

LEMMA Register_Inv == ASSUME TusInv, NEW u \in Upload, Register(u) PROVE TusInv'
<1>1. BeingCreated(u) /\ SessionAndFile(u) /\ SweepInv(u) /\ UploadTypes
  BY DEF TusInv
<1> USE DEF Register, disk, tusHistory
<1>2. 0 \in 0..Size /\ 0 # NoUpload /\ 0 + 0 = 0
  BY UploadAssumption
<1>3. offset'[u] = 0 /\ creating'[u] = "registered"
      /\ \A z \in Upload \ {u} : offset'[z] = offset[z] /\ creating'[z] = creating[z]
  BY <1>1 DEF UploadTypes
<1>4. UploadTypes'
  BY <1>1, <1>2 DEF UploadTypes, Whole, Bytes
<1>5. OnlyTouches(u)
  BY <1>3 DEF OnlyTouches
<1>6. BeingCreated(u)'
  BY <1>1, <1>3 DEF BeingCreated
<1>7. SessionAndFile(u)'
  <2>1. file[u] # NoUpload => file[u] = Bytes(0, 0) /\ Len(file[u]) = 0
    BY <1>1, NoBytes DEF BeingCreated
  <2>2. QED
    BY <1>1, <1>2, <1>3, <2>1 DEF BeingCreated, SessionAndFile
<1>8. SweepInv(u)'
  BY <1>1, <1>3 DEF SweepInv
<1>9. QED
  BY <1>4, <1>5, <1>6, <1>7, <1>8, OneUpload

LEMMA CreateDone_Inv == ASSUME TusInv, NEW u \in Upload, CreateDone(u) PROVE TusInv'
<1>1. BeingCreated(u) /\ SessionAndFile(u) /\ SweepInv(u) /\ UploadTypes
  BY DEF TusInv
<1> USE DEF CreateDone, Gone, tusHistory
<1>2. 0 \in 0..Size /\ 0 # NoUpload
  BY UploadAssumption
<1>3. creating'[u] = "done" /\ \A z \in Upload \ {u} : creating'[z] = creating[z]
  BY <1>1 DEF UploadTypes
<1>4. CASE sidecar' = [sidecar EXCEPT ![u] = 0] /\ UNCHANGED <<offset, file>>
  <2>1. \A z \in Upload \ {u} : sidecar'[z] = sidecar[z]
    BY <1>1, <1>4 DEF UploadTypes
  <2>2. UploadTypes'
    BY <1>1, <1>2, <1>4 DEF UploadTypes, Whole, Bytes
  <2>3. OnlyTouches(u)
    BY <1>3, <1>4, <2>1 DEF OnlyTouches
  <2>4. BeingCreated(u)'
    BY <1>3 DEF BeingCreated
  <2>5. SessionAndFile(u)'
    BY <1>1, <1>2, <1>3, <1>4 DEF BeingCreated, SessionAndFile
  <2>6. SweepInv(u)'
    BY <1>1, <1>3, <1>4 DEF SweepInv
  <2>7. QED
    BY <2>2, <2>3, <2>4, <2>5, <2>6, OneUpload
<1>5. CASE offset' = Gone(offset, {u}) /\ file' = Gone(file, {u}) /\ UNCHANGED sidecar
  <2>1. /\ offset'[u] = NoUpload /\ file'[u] = NoUpload
        /\ \A z \in Upload \ {u} : offset'[z] = offset[z] /\ file'[z] = file[z]
    BY <1>5
  <2>2. UploadTypes'
    BY <1>1, <1>5 DEF UploadTypes, Whole, Bytes
  <2>3. OnlyTouches(u)
    BY <1>3, <1>5, <2>1 DEF OnlyTouches
  <2>4. BeingCreated(u)'
    BY <1>3 DEF BeingCreated
  <2>5. SessionAndFile(u)'
    BY <1>3, <2>1 DEF SessionAndFile
  <2>6. SweepInv(u)'
    BY <1>1, <1>3, <2>1 DEF SweepInv
  <2>7. QED
    BY <2>2, <2>3, <2>4, <2>5, <2>6, OneUpload
<1>6. QED
  BY <1>4, <1>5

(* What a request that passed the checks of Append finds.                   *)
LEMMA AcceptsFinds ==
    ASSUME TusInv, NEW u \in Upload, NEW from \in Nat, NEW n \in Nat, Accepts(u, from, n)
    PROVE  /\ BeingCreated(u) /\ SessionAndFile(u) /\ SweepInv(u) /\ UploadTypes
           /\ offset[u] \in 0..Size /\ offset[u] + n \in 0..Size /\ from = offset[u]
           /\ offset[u] # NoUpload /\ file[u] # NoUpload /\ creating[u] = "done"
           /\ file[u] \in Seq(1..Size) /\ Len(file[u]) \in Nat
           /\ told[u] \in 0..Size /\ told[u] <= offset[u] /\ offset[u] <= Len(file[u])
<1>1. BeingCreated(u) /\ SessionAndFile(u) /\ SweepInv(u) /\ UploadTypes
  BY DEF TusInv
<1>2. offset[u] # NoUpload /\ file[u] # NoUpload /\ creating[u] = "done"
  BY DEF Accepts, Writable, Usable, Sessions
<1>3. offset[u] \in 0..Size /\ file[u] \in Seq(1..Size) /\ told[u] \in 0..Size
  BY <1>1, <1>2 DEF UploadTypes
<1>4. offset[u] + n \in 0..Size
  BY <1>3, UploadAssumption DEF Accepts, Writable
<1>5. told[u] <= offset[u] /\ offset[u] <= Len(file[u])
  BY <1>1, <1>2 DEF SessionAndFile
<1>6. QED
  BY <1>1, <1>2, <1>3, <1>4, <1>5, NoUploadIsNoFile DEF Accepts

LEMMA AppendChunk_Inv ==
    ASSUME TusInv, NEW u \in Upload, NEW from \in 0..Size, NEW n \in 1..ChunkSize,
           AppendChunk(u, from, n)
    PROVE  TusInv'
<1> USE DEF AppendChunk
<1>1. from \in Nat /\ n \in Nat /\ Accepts(u, from, n)
  BY UploadAssumption
<1> DEFINE m == offset[u]
           f == Grown(u, m, n)
<1>2. /\ BeingCreated(u) /\ SessionAndFile(u) /\ SweepInv(u) /\ UploadTypes
      /\ m \in 0..Size /\ m + n \in 0..Size /\ from = m
      /\ m # NoUpload /\ file[u] # NoUpload /\ creating[u] = "done"
      /\ Len(file[u]) \in Nat /\ m <= Len(file[u])
  BY <1>1, AcceptsFinds
<1>3. /\ f \in [Upload -> Seq(1..Size) \cup {NoUpload}]
      /\ \A z \in Upload \ {u} : f[z] = file[z]
      /\ f[u] # NoUpload /\ Len(f[u]) = Len(file[u]) + n
      /\ file[u] = Bytes(0, m) => f[u] = Bytes(0, m + n)
  <2>1. m + n <= Size
    BY <1>2, UploadAssumption
  <2>2. QED
    BY <1>1, <1>2, <2>1, FileGrows, Zenon
<1>4. /\ offset' = [offset EXCEPT ![u] = m + n] /\ offset'[u] = m + n
      /\ sidecar' = [sidecar EXCEPT ![u] = m + n] /\ told' = [told EXCEPT ![u] = m + n]
      /\ told'[u] = m + n /\ file' = f
      /\ \A z \in Upload \ {u} :
           offset'[z] = offset[z] /\ sidecar'[z] = sidecar[z] /\ told'[z] = told[z]
  BY <1>2 DEF UploadTypes
<1> HIDE DEF f
<1>5. UploadTypes'
  BY <1>2, <1>3, <1>4 DEF UploadTypes, Whole, Bytes
<1>6. OnlyTouches(u)
  BY <1>3, <1>4 DEF OnlyTouches
<1>7. m + n # NoUpload /\ m + n <= m + n /\ m + n <= Len(f[u])
  BY <1>1, <1>2, <1>3, UploadAssumption
<1>8. BeingCreated(u)'
  BY <1>2 DEF BeingCreated
<1>9. SessionAndFile(u)'
  BY <1>2, <1>3, <1>4, <1>7 DEF SessionAndFile
<1>10. SweepInv(u)'
  BY <1>2 DEF SweepInv
<1>11. QED
  BY <1>5, <1>6, <1>8, <1>9, <1>10, OneUpload

LEMMA WriteFails_Inv ==
    ASSUME TusInv, NEW u \in Upload, NEW from \in 0..Size, NEW n \in 1..ChunkSize,
           NEW k \in 1..ChunkSize, WriteFails(u, from, n, k)
    PROVE  TusInv'
<1> USE DEF WriteFails, memory
<1>1. from \in Nat /\ n \in Nat /\ k \in Nat /\ k <= n /\ Accepts(u, from, n)
  BY UploadAssumption
<1> DEFINE m == offset[u]
           f == Grown(u, m, k)
<1>2. /\ BeingCreated(u) /\ SessionAndFile(u) /\ SweepInv(u) /\ UploadTypes
      /\ m \in 0..Size /\ m + n \in 0..Size /\ from = m
      /\ m # NoUpload /\ file[u] # NoUpload /\ creating[u] = "done"
      /\ Len(file[u]) \in Nat /\ told[u] <= m /\ m <= Len(file[u])
  BY <1>1, AcceptsFinds
<1>3. /\ f \in [Upload -> Seq(1..Size) \cup {NoUpload}]
      /\ \A z \in Upload \ {u} : f[z] = file[z]
      /\ f[u] # NoUpload /\ Len(f[u]) = Len(file[u]) + k
  <2>1. m + k <= Size
    BY <1>1, <1>2, UploadAssumption
  <2>2. QED
    BY <1>1, <1>2, <2>1, FileGrows, Zenon
<1>4. file' = f
  BY <1>2
<1> HIDE DEF f
<1>5. UploadTypes'
  BY <1>2, <1>3, <1>4 DEF UploadTypes, Whole, Bytes
<1>6. OnlyTouches(u)
  BY <1>3, <1>4 DEF OnlyTouches
<1>7. m <= Len(f[u])
  BY <1>1, <1>2, <1>3
<1>8. BeingCreated(u)'
  BY <1>2 DEF BeingCreated
<1>9. SessionAndFile(u)'
  BY <1>2, <1>3, <1>4, <1>7 DEF SessionAndFile
<1>10. SweepInv(u)'
  BY <1>2 DEF SweepInv
<1>11. QED
  BY <1>5, <1>6, <1>8, <1>9, <1>10, OneUpload

LEMMA SidecarFails_Inv ==
    ASSUME TusInv, NEW u \in Upload, NEW from \in 0..Size, NEW n \in 1..ChunkSize,
           SidecarFails(u, from, n)
    PROVE  TusInv'
<1> USE DEF SidecarFails
<1>1. from \in Nat /\ n \in Nat /\ Accepts(u, from, n)
  BY UploadAssumption
<1> DEFINE m == offset[u]
           f == Grown(u, m, n)
           b == file[u] \o Bytes(m, n)
           cut == SubSeq(b, 1, m)
<1>2. /\ BeingCreated(u) /\ SessionAndFile(u) /\ SweepInv(u) /\ UploadTypes
      /\ m \in 0..Size /\ m + n \in 0..Size /\ from = m
      /\ m # NoUpload /\ file[u] # NoUpload /\ creating[u] = "done"
      /\ file[u] \in Seq(1..Size) /\ Len(file[u]) \in Nat
      /\ told[u] \in 0..Size /\ told[u] <= m /\ m <= Len(file[u])
  BY <1>1, AcceptsFinds
<1>3. m + n <= Size /\ m \in Nat /\ m + n \in Nat /\ told[u] <= m + n
  BY <1>1, <1>2, UploadAssumption
<1>4. /\ f \in [Upload -> Seq(1..Size) \cup {NoUpload}]
      /\ \A z \in Upload \ {u} : f[z] = file[z]
      /\ f[u] # NoUpload /\ Len(f[u]) = Len(file[u]) + n
  BY <1>1, <1>2, <1>3, FileGrows, Zenon
<1>5. BeingCreated(u)'
  BY <1>2 DEF BeingCreated
<1>6. CASE file' = [file EXCEPT ![u] = cut] /\ UNCHANGED <<offset, failed>>
  <2>1. b \in Seq(1..Size) /\ Len(b) = Len(file[u]) + n
    <3>1. Bytes(m, n) \in Seq(1..Size) /\ Len(Bytes(m, n)) = n
      BY <1>1, <1>3, BytesAreNumbered, Zenon
    <3>2. QED
      BY <1>2, <3>1, ConcatProperties
  <2>2. file[u] = Bytes(0, m) => cut = Bytes(0, m)
    BY <1>1, <1>3, BytesCut, Zenon
  <2> HIDE DEF b
  <2>3. cut \in Seq(1..Size) /\ Len(cut) = m
    <3>1. \A i \in 1..m : b[i] \in 1..Size
      <4>1. \A i \in 1..m : i \in 1..Len(b)
        BY <1>1, <1>2, <1>3, <2>1
      <4>2. QED
        BY <2>1, <4>1, ElementOfSeq
    <3>2. cut \in Seq(1..Size) /\ Len(cut) = IF 1 <= m THEN m - 1 + 1 ELSE 0
      BY <3>1, <1>3, SubSeqProperties
    <3>3. QED
      BY <1>3, <3>2
  <2>4. cut # NoUpload /\ told[u] <= m /\ m <= Len(cut)
    <3>1. cut # NoUpload
      BY <2>3, NoUploadIsNoFile, Zenon
    <3>2. m <= m
      BY <1>3
    <3>3. QED
      BY <1>2, <2>3, <3>1, <3>2, Zenon
  <2> HIDE DEF cut
  <2>5. /\ file' \in [Upload -> Seq(1..Size) \cup {NoUpload}] /\ file'[u] = cut
        /\ \A z \in Upload \ {u} : file'[z] = file[z]
    BY <1>2, <1>6, <2>3 DEF UploadTypes
  <2>6. UploadTypes'
    BY <1>2, <1>6, <2>5 DEF UploadTypes, Whole, Bytes
  <2>7. OnlyTouches(u)
    BY <1>6, <2>5 DEF OnlyTouches
  <2>8. SessionAndFile(u)'
    BY <1>2, <1>6, <2>2, <2>4, <2>5 DEF SessionAndFile
  <2>9. SweepInv(u)'
    BY <1>2, <1>6 DEF SweepInv
  <2>10. QED
    BY <1>5, <2>6, <2>7, <2>8, <2>9, OneUpload
<1>7. CASE /\ file' = Grown(u, from, n) /\ offset' = [offset EXCEPT ![u] = @ + n]
           /\ failed' = failed \cup {u}
  <2>1. file' = f
    BY <1>2, <1>7
  <2>2. /\ offset' = [offset EXCEPT ![u] = m + n] /\ offset'[u] = m + n
        /\ \A z \in Upload \ {u} : offset'[z] = offset[z]
    BY <1>2, <1>7 DEF UploadTypes
  <2> HIDE DEF f
  <2>3. UploadTypes'
    BY <1>2, <1>4, <1>7, <2>1, <2>2 DEF UploadTypes, Whole, Bytes
  <2>4. OnlyTouches(u)
    BY <1>4, <1>7, <2>1, <2>2 DEF OnlyTouches
  <2>5. m + n # NoUpload /\ m + n <= Len(f[u])
    BY <1>1, <1>2, <1>3, <1>4, UploadAssumption
  <2>6. SessionAndFile(u)'
    BY <1>2, <1>3, <1>4, <1>7, <2>1, <2>2, <2>5 DEF SessionAndFile
  <2>7. SweepInv(u)'
    BY <1>2, <1>7, <2>2 DEF SweepInv
  <2>8. QED
    BY <1>5, <2>3, <2>4, <2>6, <2>7, OneUpload
<1>8. QED
  BY <1>2, <1>6, <1>7

LEMMA QueryOffset_Inv == ASSUME TusInv, NEW u \in Upload, QueryOffset(u) PROVE TusInv'
<1> USE DEF QueryOffset, memory, disk
<1>1. BeingCreated(u) /\ SessionAndFile(u) /\ SweepInv(u) /\ UploadTypes
  BY DEF TusInv
<1>2. offset[u] # NoUpload /\ creating[u] = "done" /\ offset[u] \in 0..Size
  BY <1>1 DEF Usable, Sessions, UploadTypes
<1>3. told'[u] = offset[u] /\ \A z \in Upload \ {u} : told'[z] = told[z]
  BY <1>1 DEF UploadTypes
<1>4. UploadTypes'
  BY <1>1, <1>2 DEF UploadTypes, Whole, Bytes
<1>5. OnlyTouches(u)
  BY <1>3 DEF OnlyTouches
<1>6. offset[u] <= offset[u]
  BY <1>2, UploadAssumption
<1>7. BeingCreated(u)'
  BY <1>2 DEF BeingCreated
<1>8. SessionAndFile(u)'
  BY <1>1, <1>2, <1>3, <1>6 DEF SessionAndFile
<1>9. SweepInv(u)'
  BY <1>1 DEF SweepInv
<1>10. QED
  BY <1>4, <1>5, <1>7, <1>8, <1>9, OneUpload

(* A session that is taken apart, by Complete or Abort.                     *)
LEMMA Reclaim_Inv ==
    ASSUME TusInv, NEW u \in Usable, Reclaim(u), sidecar' \in {sidecar, Gone(sidecar, {u})},
           stored' \in [Upload -> {NoUpload, Whole}],
           UNCHANGED <<creating, recent, sweep, boot, told, failed, raced>>
    PROVE  TusInv'
<1>1. u \in Upload /\ creating[u] = "done"
  BY DEF Usable, Sessions
<1>2. BeingCreated(u) /\ SessionAndFile(u) /\ SweepInv(u) /\ UploadTypes
  BY <1>1 DEF TusInv
<1>3. /\ offset'[u] = NoUpload /\ file'[u] = NoUpload
      /\ \A z \in Upload \ {u} :
           offset'[z] = offset[z] /\ file'[z] = file[z] /\ sidecar'[z] = sidecar[z]
  BY <1>1 DEF Reclaim, Gone
<1>4. UploadTypes'
  <2>1. /\ offset' \in [Upload -> 0..Size \cup {NoUpload}]
        /\ sidecar' \in [Upload -> 0..Size \cup {NoUpload}]
        /\ file' \in [Upload -> Seq(1..Size) \cup {NoUpload}]
    BY <1>2 DEF Reclaim, Gone, UploadTypes
  <2>2. QED
    BY <1>2, <2>1 DEF UploadTypes, Whole, Bytes
<1>5. OnlyTouches(u)
  BY <1>3 DEF OnlyTouches
<1>6. BeingCreated(u)'
  BY <1>1 DEF BeingCreated
<1>7. SessionAndFile(u)'
  BY <1>1, <1>3 DEF SessionAndFile
<1>8. SweepInv(u)'
  BY <1>1, <1>2, <1>3 DEF SweepInv
<1>9. QED
  BY <1>1, <1>4, <1>5, <1>6, <1>7, <1>8, OneUpload

LEMMA Complete_Inv == ASSUME TusInv, NEW u \in Upload, Complete(u) PROVE TusInv'
<1>1. file[u] = Whole /\ stored \in [Upload -> {NoUpload, Whole}]
  BY DEF Complete, Verified, TusInv, UploadTypes
<1>2. stored' \in [Upload -> {NoUpload, Whole}]
  BY <1>1 DEF Complete
<1>3. QED
  BY <1>2, Reclaim_Inv DEF Complete

LEMMA Abort_Inv == ASSUME TusInv, NEW u \in Upload, Abort(u) PROVE TusInv'
<1>1. stored' \in [Upload -> {NoUpload, Whole}]
  BY DEF Abort, tusHistory, TusInv, UploadTypes
<1>2. QED
  BY <1>1, Reclaim_Inv DEF Abort, tusHistory

LEMMA GrowStale_Inv == ASSUME TusInv, NEW u \in Upload, GrowStale(u) PROVE TusInv'
<1> USE DEF GrowStale, memory, disk, tusHistory
<1>1. BeingCreated(u) /\ SessionAndFile(u) /\ SweepInv(u) /\ UploadTypes
  BY DEF TusInv
<1>2. creating[u] = "done"
  BY DEF Usable
<1>3. UploadTypes'
  BY <1>1 DEF UploadTypes, Whole, Bytes
<1>4. OnlyTouches(u)
  BY DEF OnlyTouches
<1>5. BeingCreated(u)'
  BY <1>2 DEF BeingCreated
<1>6. SessionAndFile(u)'
  BY <1>1 DEF SessionAndFile
<1>7. SweepInv(u)'
  BY <1>1 DEF SweepInv
<1>8. QED
  BY <1>3, <1>4, <1>5, <1>6, <1>7, OneUpload

LEMMA SweepList_Inv == ASSUME TusInv, SweepList PROVE TusInv'
<1> USE DEF SweepList, disk, tusHistory
<1>1. UploadTypes'
  BY DEF TusInv, UploadTypes, Whole, Bytes, Sessions
<1>2. ASSUME NEW z \in Upload PROVE BeingCreated(z)' /\ SessionAndFile(z)' /\ SweepInv(z)'
  <2>1. BeingCreated(z) /\ SessionAndFile(z)
    BY DEF TusInv
  <2>2. BeingCreated(z)'
    BY <2>1 DEF BeingCreated
  <2>3. SessionAndFile(z)'
    BY <2>1 DEF SessionAndFile
  <2>4. SweepInv(z)'
    BY <2>1 DEF SweepInv, BeingCreated, Sessions
  <2>5. QED
    BY <2>2, <2>3, <2>4
<1>3. QED
  BY <1>1, <1>2 DEF TusInv

(* The untracked sidecars a sweep lists have lost their files with their    *)
(* sessions: it never restores an upload, it only clears them away.         *)
LEMMA SweepRestoresNothing ==
    ASSUME TusInv, sweep.phase = "listed",
           NEW u \in Upload, u \in sweep.sidecars \ sweep.tracked
    PROVE  offset[u] = NoUpload /\ file[u] = NoUpload /\ ~Plausible(file, sidecar, u)
  BY DEF TusInv, SweepInv, SessionAndFile, Plausible

LEMMA SweepRestore_Inv == ASSUME TusInv, SweepRestore PROVE TusInv'
<1> USE DEF SweepRestore
<1> DEFINE orphans == sweep.sidecars \ sweep.tracked
<1>1. UploadTypes
  BY DEF TusInv
<1>2. \A u \in orphans : u \in Upload /\ offset[u] = NoUpload /\ file[u] = NoUpload
                         /\ ~Plausible(file, sidecar, u)
  BY <1>1, SweepRestoresNothing DEF UploadTypes
<1>3. {u \in orphans : Plausible(file, sidecar, u)} = {}
  BY <1>2
<1> HIDE DEF orphans
<1>4. /\ offset' = [u \in Upload |-> offset[u]]
      /\ file' = Gone(file, orphans) /\ sidecar' = Gone(sidecar, orphans)
      /\ sweep' = [sweep EXCEPT !.phase = "restored", !.chunks = @ \ orphans,
                                !.tracked = @ \cup Sessions]
  BY <1>3 DEF orphans
<1>5. /\ sweep'.phase = "restored" /\ sweep'.chunks = sweep.chunks \ orphans
      /\ sweep'.tracked = sweep.tracked \cup Sessions
      /\ sweep' \in [phase : {"idle", "listed", "restored"}, chunks : SUBSET Upload,
                     sidecars : SUBSET Upload, tracked : SUBSET Upload]
  <2>1. Sessions \subseteq Upload
    BY DEF Sessions
  <2> DEFINE T == Sessions
             q == sweep'
  <2>2. sweep \in [phase : {"idle", "listed", "restored"}, chunks : SUBSET Upload,
                   sidecars : SUBSET Upload, tracked : SUBSET Upload]
    BY <1>1 DEF UploadTypes
  <2>3. q = [sweep EXCEPT !.phase = "restored", !.chunks = @ \ orphans, !.tracked = @ \cup T]
    BY <1>4
  <2> HIDE DEF T, q
  <2>4. q.phase = "restored" /\ q.chunks = sweep.chunks \ orphans /\ q.tracked = sweep.tracked \cup T
        /\ q.sidecars = sweep.sidecars
    BY <2>2, <2>3
  <2>5. q \in [phase : {"idle", "listed", "restored"}, chunks : SUBSET Upload,
               sidecars : SUBSET Upload, tracked : SUBSET Upload]
    BY <2>1, <2>2, <2>3 DEF T
  <2>6. QED
    BY <2>4, <2>5 DEF T, q
<1>6. UploadTypes'
  <2>1. raced' \subseteq Upload
    BY <1>1 DEF UploadTypes
  <2>2. /\ offset' \in [Upload -> 0..Size \cup {NoUpload}]
        /\ sidecar' \in [Upload -> 0..Size \cup {NoUpload}]
        /\ file' \in [Upload -> Seq(1..Size) \cup {NoUpload}]
    BY <1>1, <1>4 DEF UploadTypes, Gone
  <2>3. QED
    BY <1>1, <1>5, <2>1, <2>2 DEF UploadTypes, Whole, Bytes
<1>7. ASSUME NEW z \in Upload PROVE BeingCreated(z)' /\ SessionAndFile(z)' /\ SweepInv(z)'
  <2>1. BeingCreated(z) /\ SessionAndFile(z) /\ SweepInv(z)
    BY DEF TusInv
  <2>2. /\ offset'[z] = offset[z] /\ file'[z] = file[z]
        /\ sidecar'[z] \in {sidecar[z], NoUpload}
        /\ z \in raced => z \in raced'
    BY <1>2, <1>4 DEF Gone
  <2>3. BeingCreated(z)'
    BY <2>1, <2>2 DEF BeingCreated
  <2>4. SessionAndFile(z)'
    BY <2>1, <2>2 DEF SessionAndFile
  <2>5. ASSUME z \in sweep.chunks \ orphans, z \notin sweep.tracked \cup Sessions
        PROVE  z \in raced' \/ (offset[z] = NoUpload /\ creating[z] = "done")
    <3>1. offset[z] = NoUpload
      BY <2>5 DEF Sessions
    <3>2. creating[z] \in {"file", "registered", "done"}
      BY <1>1, <2>1, <2>5 DEF SweepInv, UploadTypes
    <3>3. CASE creating[z] = "file"
      BY <2>5, <3>3
    <3>4. CASE creating[z] = "registered"
      <4>1. offset[z] = 0 /\ 0 # NoUpload
        BY <2>1, <3>4, UploadAssumption DEF BeingCreated
      <4>2. QED
        BY <3>1, <4>1
    <3>5. QED
      BY <3>1, <3>2, <3>3, <3>4
  <2>6. SweepInv(z)'
    BY <1>5, <2>2, <2>5 DEF SweepInv
  <2>7. QED
    BY <2>3, <2>4, <2>6
<1>8. QED
  BY <1>6, <1>7 DEF TusInv

LEMMA SweepRemove_Inv == ASSUME TusInv, SweepRemove PROVE TusInv'
<1> USE DEF SweepRemove, tusHistory
<1> DEFINE garbage == sweep.chunks \ sweep.tracked
           purged  == {u \in Sessions \ recent : file[u] # NoUpload}
<1>1. UploadTypes
  BY DEF TusInv
<1>2. /\ file' = Gone(file, garbage \cup purged)
      /\ sidecar' = Gone(sidecar, purged) /\ offset' = Gone(offset, purged)
  OBVIOUS
<1>3. \A z \in garbage : z \in raced \/ (offset[z] = NoUpload /\ creating[z] = "done")
  BY <1>1 DEF TusInv, SweepInv, UploadTypes
<1>4. \A z \in purged : offset[z] # NoUpload /\ z \notin recent
  BY DEF Sessions
<1> HIDE DEF garbage, purged
<1>5. UploadTypes'
  BY <1>1, <1>2 DEF UploadTypes, Gone, Idle, Whole, Bytes
<1>6. ASSUME NEW z \in Upload PROVE BeingCreated(z)' /\ SessionAndFile(z)' /\ SweepInv(z)'
  <2>1. BeingCreated(z) /\ SessionAndFile(z) /\ creating[z] \in {"new", "file", "registered", "done"}
    BY <1>1 DEF TusInv, UploadTypes
  <2>2. SweepInv(z)'
    BY DEF SweepInv, Idle
  <2>3. CASE z \in purged
    <3>1. offset'[z] = NoUpload /\ file'[z] = NoUpload
      BY <1>2, <2>3 DEF Gone
    <3>2. creating[z] = "done"
      BY <1>4, <2>1, <2>3 DEF BeingCreated
    <3>3. QED
      BY <2>2, <3>1, <3>2 DEF BeingCreated, SessionAndFile
  <2>4. CASE z \notin purged /\ z \in garbage
    <3>1. offset'[z] = offset[z] /\ file'[z] = NoUpload /\ sidecar'[z] = sidecar[z]
      BY <1>2, <2>4 DEF Gone
    <3>2. BeingCreated(z)'
      BY <2>1, <3>1 DEF BeingCreated
    <3>3. SessionAndFile(z)'
      BY <1>3, <2>4, <3>1 DEF SessionAndFile
    <3>4. QED
      BY <2>2, <3>2, <3>3
  <2>5. CASE z \notin purged /\ z \notin garbage
    <3>1. offset'[z] = offset[z] /\ file'[z] = file[z] /\ sidecar'[z] = sidecar[z]
      BY <1>2, <2>5 DEF Gone
    <3>2. BeingCreated(z)' /\ SessionAndFile(z)'
      BY <2>1, <3>1 DEF BeingCreated, SessionAndFile
    <3>3. QED
      BY <2>2, <3>2
  <2>6. QED
    BY <2>3, <2>4, <2>5
<1>7. QED
  BY <1>5, <1>6 DEF TusInv

(* What a restart needs of the files f it finds: those of the sessions, or  *)
(* more of them, or fewer files.                                            *)
Found(f) ==
    /\ f \in [Upload -> Seq(1..Size) \cup {NoUpload}]
    /\ \A u \in Upload : f[u] # NoUpload =>
         /\ file[u] # NoUpload /\ Len(file[u]) <= Len(f[u])
         /\ offset[u] # NoUpload /\ u \notin failed => f[u] = Bytes(0, Len(f[u]))

LEMMA Recovered_Inv == ASSUME TusInv, NEW f, Found(f), Recovered(f, sidecar) PROVE TusInv'
<1> DEFINE back == {u \in Upload : Plausible(f, sidecar, u)}
<1>1. UploadTypes
  BY DEF TusInv
<1>2. \A u \in back : /\ u \in Upload /\ sidecar[u] # NoUpload /\ f[u] # NoUpload
                      /\ Len(f[u]) \in sidecar[u]..Size
  BY DEF Plausible
<1>3. /\ offset' = [u \in Upload |-> IF u \in back THEN Len(f[u]) ELSE NoUpload]
      /\ file' = Gone(f, Upload \ back) /\ sidecar' = Gone(sidecar, Upload \ back)
      /\ creating' = [u \in Upload |-> IF creating[u] = "new" THEN "new" ELSE "done"]
      /\ sweep' = Idle /\ boot' = ~boot /\ UNCHANGED <<recent, told, failed, raced, stored>>
  BY DEF Recovered, tusHistory
<1> HIDE DEF back
<1>4. \A u \in back : Len(f[u]) \in 0..Size
  <2> SUFFICES ASSUME NEW u \in back PROVE Len(f[u]) \in 0..Size
    OBVIOUS
  <2>1. sidecar[u] \in 0..Size
    BY <1>1, <1>2 DEF UploadTypes
  <2>2. QED
    BY <1>2, <2>1, UploadAssumption
<1>5. UploadTypes'
  <2>1. /\ offset' \in [Upload -> 0..Size \cup {NoUpload}]
        /\ sidecar' \in [Upload -> 0..Size \cup {NoUpload}]
        /\ file' \in [Upload -> Seq(1..Size) \cup {NoUpload}]
    BY <1>1, <1>3, <1>4 DEF UploadTypes, Gone, Found
  <2>2. QED
    BY <1>1, <1>3, <2>1 DEF UploadTypes, Idle, Whole, Bytes
<1>6. ASSUME NEW u \in Upload PROVE BeingCreated(u)' /\ SessionAndFile(u)' /\ SweepInv(u)'
  <2>1. BeingCreated(u) /\ SessionAndFile(u) /\ creating[u] \in {"new", "file", "registered", "done"}
    BY <1>1 DEF TusInv, UploadTypes
  <2>2. SweepInv(u)'
    BY <1>3 DEF SweepInv, Idle
  <2>3. CASE u \in back
    <3>1. creating[u] = "done" /\ creating'[u] = "done"
      BY <1>2, <1>3, <2>1, <2>3 DEF BeingCreated
    <3>2. offset'[u] = Len(f[u]) /\ file'[u] = f[u]
      BY <1>3, <2>3 DEF Gone
    <3>3. f[u] # NoUpload /\ file[u] # NoUpload /\ Len(file[u]) <= Len(f[u])
      BY <1>2, <2>3 DEF Found
    <3>4. offset[u] # NoUpload /\ told[u] <= offset[u] /\ offset[u] <= Len(file[u])
      BY <2>1, <3>1, <3>3 DEF SessionAndFile
    <3>5. u \notin failed => f[u] = Bytes(0, Len(f[u]))
      BY <1>2, <2>3, <3>4 DEF Found
    <3>6. told[u] <= Len(f[u]) /\ Len(f[u]) <= Len(f[u])
      <4>1. /\ told[u] \in 0..Size /\ offset[u] \in 0..Size
            /\ file[u] \in Seq(1..Size) /\ f[u] \in Seq(1..Size)
        BY <1>1, <3>3, <3>4 DEF UploadTypes, Found
      <4>2. Len(file[u]) \in Nat /\ Len(f[u]) \in Nat
        BY <4>1, NoUploadIsNoFile
      <4> DEFINE a == Len(file[u])
                 b == Len(f[u])
      <4> HIDE DEF a, b
      <4>3. ASSUME a \in Nat, b \in Nat, offset[u] <= a, a <= b PROVE told[u] <= b /\ b <= b
        BY <3>4, <4>1, <4>3, UploadAssumption
      <4>4. QED
        BY <3>3, <3>4, <4>2, <4>3 DEF a, b
    <3>7. BeingCreated(u)'
      BY <3>1 DEF BeingCreated
    <3>8. SessionAndFile(u)'
      <4>1. Len(f[u]) # NoUpload
        BY <1>4, <2>3, UploadAssumption
      <4>2. QED
        BY <1>3, <3>1, <3>2, <3>3, <3>5, <3>6, <4>1 DEF SessionAndFile
    <3>9. QED
      BY <2>2, <3>7, <3>8
  <2>4. CASE u \notin back
    <3>1. offset'[u] = NoUpload /\ file'[u] = NoUpload /\ sidecar'[u] = NoUpload
          /\ creating'[u] = IF creating[u] = "new" THEN "new" ELSE "done"
      BY <1>3, <2>4 DEF Gone
    <3>2. BeingCreated(u)'
      BY <1>3, <2>1, <3>1 DEF BeingCreated
    <3>3. SessionAndFile(u)'
      BY <3>1 DEF SessionAndFile
    <3>4. QED
      BY <2>2, <3>2, <3>3
  <2>5. QED
    BY <2>3, <2>4
<1>7. QED
  BY <1>5, <1>6 DEF TusInv

(* The three things the process may be doing when it dies.                  *)
LEMMA FoundAsItWas == ASSUME TusInv PROVE Found(file)
<1>1. UploadTypes
  BY DEF TusInv
<1>2. ASSUME NEW u \in Upload, file[u] # NoUpload
      PROVE  /\ Len(file[u]) <= Len(file[u])
             /\ offset[u] # NoUpload /\ u \notin failed => file[u] = Bytes(0, Len(file[u]))
  <2>1. Len(file[u]) <= Len(file[u])
    <3>1. Len(file[u]) \in Nat
      BY <1>1, <1>2, NoUploadIsNoFile DEF UploadTypes
    <3> DEFINE a == Len(file[u])
    <3> HIDE DEF a
    <3>2. a \in Nat => a <= a
      OBVIOUS
    <3>3. QED
      BY <3>1, <3>2 DEF a
  <2>2. ASSUME offset[u] # NoUpload, u \notin failed PROVE file[u] = Bytes(0, Len(file[u]))
    <3>1. file[u] = Bytes(0, offset[u]) /\ offset[u] \in 0..Size
      BY <1>1, <1>2, <2>2 DEF TusInv, SessionAndFile, UploadTypes
    <3>2. 0 \in Nat /\ offset[u] \in Nat /\ 0 + offset[u] <= Size
      BY <3>1, UploadAssumption
    <3>3. Len(Bytes(0, offset[u])) = offset[u]
      BY <3>2, BytesAreNumbered, Zenon
    <3>4. QED
      BY <3>1, <3>3
  <2>3. QED
    BY <2>1, <2>2
<1>3. QED
  BY <1>1, <1>2 DEF Found, UploadTypes

LEMMA FoundHalfAppended ==
    ASSUME TusInv, NEW u \in Upload, NEW k \in 1..ChunkSize, Accepts(u, offset[u], k)
    PROVE  Found(Grown(u, offset[u], k))
<1> DEFINE m == offset[u]
           f == Grown(u, m, k)
<1>1. k \in Nat /\ m \in Nat
  <2>1. m \in 0..Size
    BY DEF TusInv, UploadTypes, Accepts, Writable, Usable, Sessions
  <2>2. QED
    BY <2>1, UploadAssumption
<1>2. /\ SessionAndFile(u) /\ UploadTypes /\ m \in 0..Size /\ m + k \in 0..Size
      /\ m # NoUpload /\ file[u] # NoUpload /\ Len(file[u]) \in Nat
  BY <1>1, AcceptsFinds
<1>3. /\ f \in [Upload -> Seq(1..Size) \cup {NoUpload}]
      /\ \A z \in Upload \ {u} : f[z] = file[z]
      /\ f[u] # NoUpload /\ Len(f[u]) = Len(file[u]) + k
      /\ file[u] = Bytes(0, m) => f[u] = Bytes(0, m + k) /\ Len(f[u]) = m + k
  <2>1. m + k <= Size
    BY <1>2, UploadAssumption
  <2>2. QED
    BY <1>1, <1>2, <2>1, FileGrows, Zenon
<1> HIDE DEF f
<1>4. ASSUME NEW z \in Upload, f[z] # NoUpload
      PROVE  /\ file[z] # NoUpload /\ Len(file[z]) <= Len(f[z])
             /\ offset[z] # NoUpload /\ z \notin failed => f[z] = Bytes(0, Len(f[z]))
  <2>1. CASE z = u
    <3>1. Len(file[u]) <= Len(f[u])
      BY <1>1, <1>2, <1>3
    <3>2. u \notin failed => f[u] = Bytes(0, Len(f[u]))
      BY <1>2, <1>3 DEF SessionAndFile
    <3>3. QED
      BY <1>2, <2>1, <3>1, <3>2
  <2>2. CASE z # u
    <3>1. f[z] = file[z]
      BY <1>3, <2>2
    <3>2. QED
      BY <1>4, <3>1, FoundAsItWas DEF Found
  <2>3. QED
    BY <2>1, <2>2
<1>5. QED
  BY <1>3, <1>4 DEF Found, f

LEMMA FoundHalfCompleted == ASSUME TusInv, NEW u \in Upload PROVE Found(Gone(file, {u}))
  BY FoundAsItWas DEF Found, Gone

LEMMA TusRestart_Inv == ASSUME TusInv, TusRestart PROVE TusInv'
<1>1. CASE Recovered(file, sidecar)
  BY <1>1, FoundAsItWas, Recovered_Inv
<1>2. ASSUME NEW u \in Upload, NEW k \in 1..ChunkSize, Accepts(u, offset[u], k),
             Recovered(Grown(u, offset[u], k), sidecar)
      PROVE  TusInv'
  BY <1>2, FoundHalfAppended, Recovered_Inv
<1>3. ASSUME NEW u \in Usable, Recovered(Gone(file, {u}), sidecar) PROVE TusInv'
  <2>1. u \in Upload
    BY DEF Usable, Sessions
  <2>2. QED
    BY <1>3, <2>1, FoundHalfCompleted, Recovered_Inv
<1>4. QED
  BY <1>1, <1>2, <1>3 DEF TusRestart

LEMMA TusNext_Inv == TusInv /\ [TusNext]_tusVars => TusInv'
<1> SUFFICES ASSUME TusInv, [TusNext]_tusVars PROVE TusInv'
  OBVIOUS
<1>1. CASE UNCHANGED tusVars
  <2>1. UploadTypes'
    BY <1>1 DEF TusInv, UploadTypes, Whole, Bytes, tusVars, memory, disk, tusHistory
  <2>2. \A u \in Upload : BeingCreated(u)' /\ SessionAndFile(u)' /\ SweepInv(u)'
    BY <1>1 DEF TusInv, BeingCreated, SessionAndFile, SweepInv, Bytes, tusVars, memory, disk, tusHistory
  <2>3. QED
    BY <2>1, <2>2 DEF TusInv
<1>2. ASSUME NEW u \in Upload,
             CreateFile(u) \/ Register(u) \/ CreateDone(u) \/ QueryOffset(u) \/ Complete(u)
               \/ Abort(u) \/ GrowStale(u)
      PROVE  TusInv'
  BY <1>2, CreateFile_Inv, Register_Inv, CreateDone_Inv, QueryOffset_Inv, Complete_Inv,
     Abort_Inv, GrowStale_Inv
<1>3. ASSUME NEW u \in Upload, NEW from \in 0..Size, NEW n \in 1..ChunkSize,
             \/ AppendChunk(u, from, n) \/ SidecarFails(u, from, n)
             \/ \E k \in 1..ChunkSize : WriteFails(u, from, n, k)
      PROVE  TusInv'
  BY <1>3, AppendChunk_Inv, SidecarFails_Inv, WriteFails_Inv
<1>4. CASE SweepList \/ SweepRestore \/ SweepRemove \/ TusRestart
  BY <1>4, SweepList_Inv, SweepRestore_Inv, SweepRemove_Inv, TusRestart_Inv
<1>5. QED
  BY <1>1, <1>2, <1>3, <1>4 DEF TusNext

LEMMA TusInv_Types == TusInv => TusTypeOK
<1> SUFFICES ASSUME TusInv PROVE TusTypeOK
  OBVIOUS
<1>1. UploadTypes
  BY DEF TusInv
<1>2. ASSUME NEW u \in Upload, file[u] # NoUpload PROVE \A i \in DOMAIN file[u] : file[u][i] \in 1..Size
  <2>1. file[u] \in Seq(1..Size)
    BY <1>1, <1>2 DEF UploadTypes
  <2>2. QED
    BY <2>1, LenProperties, ElementOfSeq
<1>3. QED
  BY <1>1, <1>2 DEF TusTypeOK, UploadTypes

LEMMA TusInv_Intact == TusInv => UploadIntact
<1> SUFFICES ASSUME TusInv PROVE UploadIntact
  OBVIOUS
<1>1. StoredIsWhole
  BY DEF TusInv, UploadTypes, StoredIsWhole
<1>2. ToldIsOnDisk
  BY DEF TusInv, SessionAndFile, ToldIsOnDisk, Usable, Sessions
<1>3. FileIsPrefix
  BY DEF TusInv, SessionAndFile, FileIsPrefix, Usable, Sessions
<1>4. QED
  BY <1>1, <1>2, <1>3 DEF UploadIntact

(* The variables of an upload keep their types (TUSManager, its directory   *)
(* and its janitor).                                                        *)
THEOREM TusTypeCorrect == TusSpec => []TusTypeOK
<1>1. TusInit => TusInv
  BY TusInit_Inv
<1>2. TusInv /\ [TusNext]_tusVars => TusInv'
  BY TusNext_Inv
<1>3. TusInv => TusTypeOK
  BY TusInv_Types
<1>4. QED
  BY <1>1, <1>2, <1>3, PTL DEF TusSpec

(* What handleComplete stores is the declared object, what a client was     *)
(* told is on disk, and the file is the prefix the session counts, however  *)
(* writes fail, sweeps race with requests and processes restart             *)
(* (Append, Complete, RecoverOrphans, sweepOnce).                           *)
THEOREM UploadsStayIntact == TusSpec => []UploadIntact
<1>1. TusInit => TusInv
  BY TusInit_Inv
<1>2. TusInv /\ [TusNext]_tusVars => TusInv'
  BY TusNext_Inv
<1>3. TusInv => UploadIntact
  BY TusInv_Intact
<1>4. QED
  BY <1>1, <1>2, <1>3, PTL DEF TusSpec

(* An unfinished upload before the process dies, and the session the next   *)
(* process gives it when it finds at most one chunk more than the sidecar   *)
(* records.                                                                 *)
LEMMA UnfinishedHas ==
    ASSUME TusInv, NEW u \in Upload, Unfinished(u)
    PROVE  /\ UploadTypes /\ offset[u] \in Nat /\ offset[u] < Size /\ offset[u] # NoUpload
           /\ file[u] # NoUpload /\ Len(file[u]) = offset[u] /\ u \in recent
           /\ told[u] \in Nat /\ told[u] <= offset[u]
<1>1. UploadTypes /\ SessionAndFile(u)
  BY DEF TusInv
<1>2. offset[u] # NoUpload /\ file[u] # NoUpload /\ offset[u] < Size /\ u \in recent /\ u \notin failed
  BY DEF Unfinished, Usable, Sessions
<1>3. offset[u] \in 0..Size /\ told[u] \in 0..Size
  BY <1>1, <1>2 DEF UploadTypes
<1>4. told[u] <= offset[u] /\ file[u] = Bytes(0, offset[u])
  BY <1>1, <1>2 DEF SessionAndFile
<1>5. Len(file[u]) = offset[u]
  <2>1. 0 \in Nat /\ offset[u] \in Nat /\ 0 + offset[u] <= Size
    BY <1>3, UploadAssumption
  <2>2. Len(Bytes(0, offset[u])) = offset[u]
    BY <2>1, BytesAreNumbered, Zenon
  <2>3. QED
    BY <1>4, <2>2
<1>6. QED
  BY <1>1, <1>2, <1>3, <1>4, <1>5, UploadAssumption

LEMMA ResumesWithin ==
    ASSUME TusInv, NEW f, Recovered(f, sidecar), NEW u \in Upload, Unfinished(u),
           sidecar[u] = offset[u], f[u] # NoUpload,
           NEW k \in 0..ChunkSize, Len(f[u]) = offset[u] + k, offset[u] + k <= Size
    PROVE  Resumed(u)
<1>1. /\ offset[u] \in Nat /\ offset[u] # NoUpload /\ u \in recent
      /\ told[u] \in Nat /\ told[u] <= offset[u] /\ UploadTypes
  BY UnfinishedHas
<1> DEFINE l == Len(f[u])
<1> HIDE DEF l
<1>2. l = offset[u] + k
  BY DEF l
<1>3. l \in Nat /\ l \in offset[u]..Size /\ l - offset[u] <= ChunkSize /\ l >= told[u]
  BY <1>1, <1>2, UploadAssumption
<1>4. Plausible(f, sidecar, u)
  BY <1>1, <1>3 DEF Plausible, l
<1>5. offset'[u] = l
  BY <1>4 DEF Recovered, l
<1>6. told' = told
  BY DEF Recovered, tusHistory
<1>7. l # NoUpload
  BY <1>3, UploadAssumption
<1>8. QED
  BY <1>3, <1>5, <1>6, <1>7 DEF Resumed

LEMMA RestartStep ==
    ASSUME TusInv, TusRestart, NEW u \in Upload, Unfinished(u), sidecar[u] = offset[u]
    PROVE  Resumed(u)
<1>1. /\ offset[u] \in Nat /\ offset[u] < Size
      /\ file[u] # NoUpload /\ Len(file[u]) = offset[u]
  BY UnfinishedHas
<1>2. 0 \in 0..ChunkSize /\ offset[u] + 0 = offset[u] /\ offset[u] + 0 <= Size
  BY <1>1, UploadAssumption
<1>3. ASSUME NEW f, Recovered(f, sidecar), f[u] = file[u] PROVE Resumed(u)
  <2>1. f[u] # NoUpload /\ Len(f[u]) = offset[u] + 0
    BY <1>1, <1>2, <1>3
  <2>2. QED
    BY <1>2, <1>3, <2>1, ResumesWithin, Zenon
<1>4. CASE Recovered(file, sidecar)
  BY <1>3, <1>4
<1>5. ASSUME NEW v \in Upload, NEW k \in 1..ChunkSize, Accepts(v, offset[v], k),
             Recovered(Grown(v, offset[v], k), sidecar)
      PROVE  Resumed(u)
  <2> DEFINE f == Grown(v, offset[v], k)
  <2>1. UploadTypes /\ offset[v] \in 0..Size /\ file[v] # NoUpload /\ k \in Nat /\ offset[v] + k <= Size
    <3>1. UploadTypes
      BY DEF TusInv
    <3>2. offset[v] \in 0..Size
      BY <1>5, <3>1 DEF UploadTypes, Accepts, Writable, Usable, Sessions
    <3>3. QED
      BY <1>5, <3>1, <3>2, UploadAssumption DEF Accepts, Writable
  <2>2. /\ \A z \in Upload \ {v} : f[z] = file[z]
        /\ f[v] # NoUpload /\ Len(f[v]) = Len(file[v]) + k
    BY <2>1, FileGrows, Zenon
  <2> HIDE DEF f
  <2>3. Recovered(f, sidecar)
    BY <1>5 DEF f
  <2>4. CASE u = v
    <3>1. f[u] # NoUpload /\ Len(f[u]) = offset[u] + k /\ offset[u] + k <= Size /\ k \in 0..ChunkSize
      BY <1>1, <2>1, <2>2, <2>4, UploadAssumption
    <3>2. QED
      BY <2>3, <3>1, ResumesWithin, Zenon
  <2>5. CASE u # v
    BY <1>3, <2>2, <2>3, <2>5
  <2>6. QED
    BY <2>4, <2>5
<1>6. ASSUME NEW v \in Usable, Verified(v), Recovered(Gone(file, {v}), sidecar) PROVE Resumed(u)
  <2>1. u # v
    BY <1>1, <1>6, UploadAssumption DEF Verified
  <2>2. Gone(file, {v})[u] = file[u]
    BY <2>1 DEF Gone
  <2>3. QED
    BY <1>3, <1>6, <2>2
<1>7. QED
  BY <1>4, <1>5, <1>6 DEF TusRestart

(* A process that starts again resumes each fresh, unfinished upload whose  *)
(* sidecar is up to date, with what its client was told of, wherever the    *)
(* old one stopped in an Append or a Complete (NewTUSManager,               *)
(* RecoverOrphans).                                                         *)
THEOREM UploadsSurviveRestart == TusSpec => RestartResumes
<1>1. TusInit => TusInv
  BY TusInit_Inv
<1>2. TusInv /\ [TusNext]_tusVars => TusInv'
  BY TusNext_Inv
<1>3. ASSUME TusInv, TusNext, boot' # boot
      PROVE  \A u \in Upload : Unfinished(u) /\ sidecar[u] = offset[u] => Resumed(u)
  <2>1. TusRestart
    <3>1. ASSUME NEW u \in Upload,
                 CreateFile(u) \/ Register(u) \/ CreateDone(u) \/ QueryOffset(u) \/ Complete(u)
                   \/ Abort(u) \/ GrowStale(u)
          PROVE  FALSE
      BY <1>3, <3>1 DEF CreateFile, Register, CreateDone, QueryOffset, Complete, Abort, GrowStale, memory
    <3>2. ASSUME NEW u \in Upload, NEW from \in 0..Size, NEW n \in 1..ChunkSize,
                 \/ AppendChunk(u, from, n) \/ SidecarFails(u, from, n)
                 \/ \E k \in 1..ChunkSize : WriteFails(u, from, n, k)
          PROVE  FALSE
      BY <1>3, <3>2 DEF AppendChunk, SidecarFails, WriteFails, memory
    <3>3. CASE SweepList \/ SweepRestore \/ SweepRemove
      BY <1>3, <3>3 DEF SweepList, SweepRestore, SweepRemove
    <3>4. QED
      BY <1>3, <3>1, <3>2, <3>3 DEF TusNext
  <2>2. QED
    BY <1>3, <2>1, RestartStep
<1>4. TusInv /\ [TusNext]_tusVars =>
        [boot' # boot => \A u \in Upload : Unfinished(u) /\ sidecar[u] = offset[u] => Resumed(u)]_tusVars
  BY <1>3
<1>5. QED
  BY <1>1, <1>2, <1>4, PTL DEF TusSpec, RestartResumes
=============================================================================
