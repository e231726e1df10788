------------------------------ MODULE MCRecords ------------------------------
(***************************************************************************)
(* The records of the business side by side: work orders, certificates,    *)
(* evidence packs, and the ring buffer.  As in MCServices each behaviour   *)
(* is of one component.                                                    *)
(***************************************************************************)
EXTENDS WorkOrder, Certificate, EvidencePack, RingBuffer, TLC

CONSTANTS c1, c2, c3

VARIABLE component

recordVars == <<woVars, certVars, packVars, ringVars, component>>

OneAsset == [i \in Inspection |-> "asset"]

\* Certificates are told apart by their rows alone.
Interchangeable == Permutations(Cert)

RecordsInit ==
    /\ WoInit /\ CertInit /\ PackInit /\ RingInit
    /\ component \in {"orders", "certificates", "packs", "ring"}
    /\ component = "orders" \/ order.rev = 0

Orders ==
    /\ component = "orders" /\ WoNext
    /\ UNCHANGED <<certVars, packVars, ringVars, component>>
Certificates ==
    /\ component = "certificates" /\ CertNext
    /\ UNCHANGED <<woVars, packVars, ringVars, component>>
Packs ==
    /\ component = "packs" /\ PackNext
    /\ UNCHANGED <<woVars, certVars, ringVars, component>>
Ring ==
    /\ component = "ring" /\ RingNext
    /\ UNCHANGED <<woVars, certVars, packVars, component>>

RecordsNext == Orders \/ Certificates \/ Packs \/ Ring

RecordsSpec == RecordsInit /\ [][RecordsNext]_recordVars

\* The type invariants of the components.
RecordsTypeOK == WoTypeOK /\ CertTypeOK /\ PackTypeOK /\ RingTypeOK
=============================================================================
