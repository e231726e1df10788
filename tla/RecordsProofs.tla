---------------------------- MODULE RecordsProofs ----------------------------
(***************************************************************************)
(* The records of the business: proofs about evidence packs, work orders   *)
(* and certificates, and about the composition of these with the ring.     *)
(***************************************************************************)
EXTENDS MCRecords, LockFreeProofs

-----------------------------------------------------------------------------
(* Evidence packs                                                          *)

PackRow    == [status : PackStatus \cup {"none"}, revision : 0..MaxRevision]
ReleaseRow == [status : ReleaseStatus \cup {"none"}, revision : 0..MaxRevision,
               pack : Pack \cup {Nobody}, approvedBy : Editor \cup {Nobody},
               releasedBy : Editor \cup {Nobody}]

(* A release names its approver from its approval on, and its releaser only *)
(* when it is released.                                                     *)
Signed(row) ==
    /\ row.status \in {"APPROVED", "RELEASED"} => row.approvedBy # Nobody
    /\ row.releasedBy # Nobody => row.status = "RELEASED"

(* What a request has loaded was once a row that allows what it will write: *)
(* whatever the row has become, saving the copy is a legal step of the copy.*)
LoadedPack(m) ==
    m.of \in Pack /\ m.row \in PackRow /\ m.row.revision = 1 /\ m.target = "SEALED"
LoadedRelease(m) ==
    /\ m.of \in Release /\ m.row \in ReleaseRow /\ Signed(m.row)
    /\ m.row.revision \in 1..(MaxRevision - 1)
    /\ CanRelease(m.row.status, m.target)

PackInv ==
    /\ packs \in [Pack -> PackRow]
    /\ \A p \in Pack : packs[p].status = "DRAFT" => packs[p].revision = 1
    /\ releases \in [Release -> ReleaseRow]
    /\ \A r \in Release : releases[r].status # "none" => releases[r].revision > 0
    /\ \A r \in Release : Signed(releases[r])
    /\ DOMAIN editing = Editor
    /\ \A e \in Editor :
         editing[e] = NotEditing \/ LoadedPack(editing[e]) \/ LoadedRelease(editing[e])

LEMMA PackInit_Inv == PackInit => PackInv
BY PackAssumption DEF PackInit, PackInv, PackRow, ReleaseRow, NoPack, NoRelease, Signed

(* A row of five typed columns is a release row. *)
LEMMA ReleaseRowTyped ==
    ASSUME NEW s \in ReleaseStatus, NEW n \in 1..MaxRevision, NEW p \in Pack \cup {Nobody},
           NEW a \in Editor \cup {Nobody}, NEW b \in Editor \cup {Nobody}
    PROVE  [status |-> s, revision |-> n, pack |-> p, approvedBy |-> a, releasedBy |-> b]
             \in ReleaseRow
BY DEF ReleaseRow

(* The row ReleaseRepository.Create inserts. *)
LEMMA ReleaseCreated ==
    ASSUME NEW s, NEW p, NEW row,
           row = [NoRelease EXCEPT !.status = s, !.revision = 1, !.pack = p]
    PROVE  row = [status |-> s, revision |-> 1, pack |-> p,
                  approvedBy |-> Nobody, releasedBy |-> Nobody]
BY DEF NoRelease

(* The row saveRelease writes: a legal status change of the copy it loaded. *)
LEMMA ReleaseSaved ==
    ASSUME NEW m, LoadedRelease(m), NEW e \in Editor, NEW row,
           row = [m.row EXCEPT !.status = m.target, !.revision = @ + 1,
                    !.approvedBy = IF m.target = "APPROVED" THEN e ELSE @,
                    !.releasedBy = IF m.target = "RELEASED" THEN e ELSE @]
    PROVE  row \in ReleaseRow /\ Signed(row) /\ row.revision > 0
<1>1. \/ m.row.status = "PENDING" /\ m.target = "APPROVED"
      \/ m.row.status = "APPROVED" /\ m.target = "RELEASED"
  BY DEF LoadedRelease, CanRelease
<1>2. e # Nobody
  BY PackAssumption
<1>3. m.row.revision + 1 \in 1..MaxRevision
  BY PackAssumption DEF LoadedRelease
<1>4. m.row = [status |-> m.row.status, revision |-> m.row.revision, pack |-> m.row.pack,
               approvedBy |-> m.row.approvedBy, releasedBy |-> m.row.releasedBy]
  BY DEF LoadedRelease, ReleaseRow
<1>7. /\ m.row.pack \in Pack \cup {Nobody} /\ m.row.approvedBy \in Editor \cup {Nobody}
      /\ m.row.releasedBy \in Editor \cup {Nobody}
      /\ m.row.status = "APPROVED" => m.row.approvedBy # Nobody
      /\ m.row.status # "RELEASED" => m.row.releasedBy = Nobody
  BY DEF LoadedRelease, ReleaseRow, Signed
<1>5. CASE m.row.status = "PENDING" /\ m.target = "APPROVED"
  <2>1. row = [status |-> "APPROVED", revision |-> m.row.revision + 1, pack |-> m.row.pack,
               approvedBy |-> e, releasedBy |-> m.row.releasedBy]
    BY <1>4, <1>5
  <2>2. row \in ReleaseRow
    <3>1. "APPROVED" \in ReleaseStatus /\ "RELEASED" \in ReleaseStatus
      BY DEF ReleaseStatus
    <3>2. [status |-> "APPROVED", revision |-> m.row.revision + 1, pack |-> m.row.pack,
           approvedBy |-> e, releasedBy |-> m.row.releasedBy] \in ReleaseRow
      BY <3>1, <1>3, <1>7, ReleaseRowTyped, Zenon
    <3> QED
      BY <3>2, <2>1, Zenon
  <2>3. Signed(row) /\ row.revision > 0
    BY <2>1, <1>2, <1>3, <1>5, <1>7 DEF Signed
  <2> QED
    BY <2>2, <2>3
<1>6. CASE m.row.status = "APPROVED" /\ m.target = "RELEASED"
  <2>1. row = [status |-> "RELEASED", revision |-> m.row.revision + 1, pack |-> m.row.pack,
               approvedBy |-> m.row.approvedBy, releasedBy |-> e]
    BY <1>4, <1>6
  <2>2. row \in ReleaseRow
    <3>1. "APPROVED" \in ReleaseStatus /\ "RELEASED" \in ReleaseStatus
      BY DEF ReleaseStatus
    <3>2. [status |-> "RELEASED", revision |-> m.row.revision + 1, pack |-> m.row.pack,
           approvedBy |-> m.row.approvedBy, releasedBy |-> e] \in ReleaseRow
      BY <3>1, <1>3, <1>7, ReleaseRowTyped, Zenon
    <3> QED
      BY <3>2, <2>1, Zenon
  <2>3. Signed(row) /\ row.revision > 0
    BY <2>1, <1>2, <1>3, <1>6, <1>7 DEF Signed
  <2> QED
    BY <2>2, <2>3
<1> QED
  BY <1>1, <1>5, <1>6

LEMMA PackNext_Inv == PackInv /\ [PackNext]_packVars => PackInv'
<1> SUFFICES ASSUME PackInv, [PackNext]_packVars PROVE PackInv'
  OBVIOUS
<1> USE DEF PackInv
<1>1. ASSUME NEW p \in Pack, CreatePack(p) PROVE PackInv'
  BY <1>1, PackAssumption DEF CreatePack, PackRow
<1>2. ASSUME NEW p \in Pack, NEW e \in Editor, LoadPack(e, p) PROVE PackInv'
  <2>1. LoadedPack(editing'[e])
    BY <1>2 DEF LoadPack, LoadedPack
  <2> QED
    BY <1>2, <2>1 DEF LoadPack
<1>3. ASSUME NEW r \in Release, CreateRelease(r) PROVE PackInv'
  <2>1. PICK p \in Pack, s \in {"PENDING", "SUPERSEDED"} :
          releases' = [releases EXCEPT ![r] =
                        [NoRelease EXCEPT !.status = s, !.revision = 1, !.pack = p]]
    BY <1>3 DEF CreateRelease
  <2> DEFINE row == [status |-> s, revision |-> 1, pack |-> p,
                     approvedBy |-> Nobody, releasedBy |-> Nobody]
  <2>2. releases' = [releases EXCEPT ![r] = row]
    <3>1. [NoRelease EXCEPT !.status = s, !.revision = 1, !.pack = p] = row
      BY ReleaseCreated
    <3> QED
      BY <2>1, <3>1
  <2>3. row \in ReleaseRow /\ Signed(row) /\ row.revision > 0
    BY PackAssumption DEF ReleaseRow, ReleaseStatus, Signed
  <2> HIDE DEF row
  <2> QED
    BY <1>3, <2>2, <2>3 DEF CreateRelease
<1>4. ASSUME NEW r \in Release, NEW e \in Editor, LoadRelease(e, r) PROVE PackInv'
  <2>1. LoadedRelease(editing'[e])
    BY <1>4 DEF LoadRelease, LoadedRelease
  <2> QED
    BY <1>4, <2>1 DEF LoadRelease
<1>5. ASSUME NEW e \in Editor, SavePack(e) PROVE PackInv'
  <2>1. LoadedPack(editing[e])
    BY <1>5, PackAssumption DEF SavePack, LoadedRelease, NotEditing
  <2>2. /\ packs' = [packs EXCEPT ![editing[e].of] = [status |-> "SEALED", revision |-> 2]]
        /\ editing' = [editing EXCEPT ![e] = NotEditing] /\ releases' = releases
    BY <1>5, <2>1 DEF SavePack, LoadedPack
  <2> QED
    BY <2>1, <2>2, PackAssumption DEF LoadedPack, PackRow, PackStatus
<1>6. ASSUME NEW e \in Editor, SaveRelease(e) PROVE PackInv'
  <2> DEFINE row == [editing[e].row EXCEPT
                       !.status = editing[e].target, !.revision = @ + 1,
                       !.approvedBy = IF editing[e].target = "APPROVED" THEN e ELSE @,
                       !.releasedBy = IF editing[e].target = "RELEASED" THEN e ELSE @]
  <2>1. LoadedRelease(editing[e])
    BY <1>6, PackAssumption DEF SaveRelease, LoadedPack, NotEditing
  <2>2. row \in ReleaseRow /\ Signed(row) /\ row.revision > 0
    BY <2>1, ReleaseSaved
  <2>3. /\ releases' = [releases EXCEPT ![editing[e].of] = row]
        /\ editing' = [editing EXCEPT ![e] = NotEditing] /\ packs' = packs
    BY <1>6 DEF SaveRelease
  <2> HIDE DEF row
  <2> QED
    BY <2>2, <2>3
<1>7. ASSUME NEW e \in Editor, Abandon(e) PROVE PackInv'
  BY <1>7 DEF Abandon
<1>8. CASE UNCHANGED packVars
  BY <1>8 DEF packVars
<1> QED
  BY <1>1, <1>2, <1>3, <1>4, <1>5, <1>6, <1>7, <1>8 DEF PackNext

LEMMA PackInv_Types == PackInv => PackTypeOK
  BY DEF PackInv, PackTypeOK, PackRow, ReleaseRow

(* Rows of packs and releases hold values of their types, and every release *)
(* that exists a revision (PackRepository, ReleaseRepository).              *)
THEOREM PackTypeCorrect == PackSpec => []PackTypeOK
  BY PackInit_Inv, PackNext_Inv, PackInv_Types, PTL DEF PackSpec

(* UpdateStatus, whose load and save other requests may overtake: nothing is *)
(* released that nobody approved.                                           *)
THEOREM ReleasedWasApproved == PackSpec => []ApprovedBeforeRelease
<1>1. PackInv => ApprovedBeforeRelease
  BY DEF PackInv, ApprovedBeforeRelease, Signed
<1> QED
  BY <1>1, PackInit_Inv, PackNext_Inv, PTL DEF PackSpec

-----------------------------------------------------------------------------
(* Certificates                                                            *)

CertRow == [status : Status, insp : Inspection, number : Nat,
            supersedes : Cert \cup {NoCert}, supersededBy : Cert \cup {NoCert}]

Unsigned == {"none", "DRAFT", "PENDING_REVIEW", "APPROVED"}
Unissued == Unsigned \cup {"SIGNED"}

(* What the status of a certificate says of its number, its links and its   *)
(* events.                                                                  *)
Tells(row, events) ==
    /\ row.number # 0 <=> row.status \notin Unissued
    /\ row.status = "none" => row.supersedes = NoCert /\ row.supersededBy = NoCert /\ events = {}
    /\ "ISSUED" \in events <=> row.number # 0
    /\ "REVOKED" \in events <=> row.status = "REVOKED"
    /\ "SUPERSEDED" \in events <=> row.status = "SUPERSEDED"
    /\ row.status \in Unsigned => "SIGNED" \notin events /\ "SIGN_WAIVED" \notin events
    /\ row.status \notin Unsigned => ("SIGNED" \in events <=> "SIGN_WAIVED" \notin events)

(* The numbers drawn are those of the issued certificates, each of one.     *)
Issued == {c \in Cert : cert[c].number # 0}
Numbered ==
    /\ nextValue = Cardinality(Issued) + 1
    /\ \A c \in Cert : cert[c].number < nextValue
    /\ \A n \in 1..(nextValue - 1) : \E c \in Cert : cert[c].number = n
    /\ \A c, d \in Cert : c # d /\ cert[c].number = cert[d].number => cert[c].number = 0

CertInv ==
    /\ cert \in [Cert -> CertRow]
    /\ nextValue \in Nat \ {0}
    /\ issuing \subseteq Cert /\ attesting \subseteq Cert
    /\ issuing = {} \/ \E c \in Cert : issuing = {c}
    /\ audit \in [Cert -> SUBSET Action]
    /\ \A c \in issuing : cert[c].status = "SIGNED"
    /\ \A c \in attesting : cert[c].status # "none"
    /\ \A c \in Cert : Tells(cert[c], audit[c])
    /\ Numbered
    /\ SupersessionIsLinear

LEMMA CertInit_Inv == CertInit => CertInv
<1> SUFFICES ASSUME CertInit PROVE CertInv
  OBVIOUS
<1>1. NoRow \in CertRow /\ Tells(NoRow, {})
  BY CertAssumption DEF NoRow, CertRow, Status, Tells, Unissued, Unsigned
<1>2. Issued = {} /\ Cardinality(Issued) = 0
  BY FS_EmptySet DEF CertInit, Issued, NoRow
<1>3. Numbered
  BY <1>2 DEF CertInit, Numbered, NoRow
<1>4. SupersessionIsLinear
  BY CertAssumption DEF CertInit, SupersessionIsLinear, NoRow
<1> QED
  BY <1>1, <1>3, <1>4 DEF CertInit, CertInv

(* A step that draws no number keeps the numbers as they are. *)
LEMMA NumbersKept ==
    ASSUME Numbered, nextValue' = nextValue, \A c \in Cert : cert'[c].number = cert[c].number
    PROVE  Numbered'
<1>1. Issued' = Issued
  BY DEF Issued
<1> QED
  BY <1>1 DEF Numbered

(* A status that changes without an issue or a supersession: the numbers    *)
(* and the links stay, and the event inserted tells the change.             *)
LEMMA StatusChanges ==
    ASSUME CertInv, NEW c \in Cert, c \notin issuing, NEW to \in Status \ {"none"},
           cert' = [cert EXCEPT ![c].status = to],
           cert[c].status # "SUPERSEDED",
           audit' \in [Cert -> SUBSET Action], Tells(cert'[c], audit'[c]),
           \A d \in Cert : d # c => audit'[d] = audit[d],
           UNCHANGED <<nextValue, issuing, attesting>>
    PROVE  CertInv'
<1>1. /\ cert' \in [Cert -> CertRow]
      /\ cert'[c].status = to
      /\ \A d \in Cert : d # c => cert'[d] = cert[d]
      /\ \A d \in Cert : /\ cert'[d].number = cert[d].number
                         /\ cert'[d].insp = cert[d].insp
                         /\ cert'[d].supersedes = cert[d].supersedes
                         /\ cert'[d].supersededBy = cert[d].supersededBy
  BY DEF CertInv, CertRow
<1>2. Numbered'
  BY <1>1, NumbersKept DEF CertInv
<1>3. \A d \in Cert : Tells(cert'[d], audit'[d])
  BY <1>1 DEF CertInv
<1>4. SupersessionIsLinear'
  BY <1>1 DEF CertInv, SupersessionIsLinear
<1> QED
  BY <1>1, <1>2, <1>3, <1>4 DEF CertInv

(* The events of the transactions that only change a status. *)
LEMMA EventInserted ==
    ASSUME CertInv, NEW c \in Cert, NEW to \in Status, NEW action \in Action,
           cert' = [cert EXCEPT ![c].status = to], Records(c, action)
    PROVE  /\ audit' \in [Cert -> SUBSET Action]
           /\ audit'[c] = audit[c] \cup {action}
           /\ \A d \in Cert : d # c => audit'[d] = audit[d]
           /\ cert'[c].status = to
           /\ cert'[c].number = cert[c].number
           /\ cert'[c].supersedes = cert[c].supersedes
           /\ cert'[c].supersededBy = cert[c].supersededBy
BY DEF CertInv, CertRow, Records

LEMMA CertStatus_Inv ==
    ASSUME CertInv, NEW c \in Cert,
           Submit(c) \/ Review(c) \/ Sign(c) \/ WaiveSign(c) \/ Revoke(c) \/ Expire(c)
    PROVE  CertInv'
<1>0. Tells(cert[c], audit[c])
  BY DEF CertInv
<1>1. CASE Submit(c)
  <2>1. /\ cert'[c].status = "PENDING_REVIEW" /\ cert'[c].number = cert[c].number
        /\ audit' = audit /\ c \notin issuing
    BY <1>1 DEF Submit, CertInv, CertRow
  <2>2. Tells(cert'[c], audit'[c])
    BY <1>0, <1>1, <2>1 DEF Submit, Tells, Unissued, Unsigned
  <2> QED
    BY <1>1, <2>1, <2>2, StatusChanges DEF Submit, Status, Active, CertInv
<1>2. CASE Review(c)
  <2>1. /\ cert[c].status = "PENDING_REVIEW" /\ c \notin issuing
        /\ cert' = [cert EXCEPT ![c].status = "APPROVED"]
        /\ Records(c, "REVIEWED") /\ UNCHANGED <<nextValue, issuing, attesting>>
        /\ "APPROVED" \in Status /\ "REVIEWED" \in Action
    BY <1>2 DEF Review, Transition, Status, Active, Action
  <2>2. /\ audit' \in [Cert -> SUBSET Action] /\ audit'[c] = audit[c] \cup {"REVIEWED"}
        /\ \A d \in Cert : d # c => audit'[d] = audit[d]
        /\ cert'[c].status = "APPROVED" /\ cert'[c].number = cert[c].number
    BY <2>1, EventInserted
  <2>3. Tells(cert'[c], audit'[c])
    BY <1>0, <2>1, <2>2 DEF Tells, Unissued, Unsigned
  <2> QED
    BY <2>1, <2>2, <2>3, StatusChanges
<1>3. CASE Sign(c)
  <2>1. /\ cert[c].status = "APPROVED" /\ c \notin issuing
        /\ cert' = [cert EXCEPT ![c].status = "SIGNED"]
        /\ Records(c, "SIGNED") /\ UNCHANGED <<nextValue, issuing, attesting>>
        /\ "SIGNED" \in Status /\ "SIGNED" \in Action
    BY <1>3 DEF Sign, Transition, Status, Active, Action
  <2>2. /\ audit' \in [Cert -> SUBSET Action] /\ audit'[c] = audit[c] \cup {"SIGNED"}
        /\ \A d \in Cert : d # c => audit'[d] = audit[d]
        /\ cert'[c].status = "SIGNED" /\ cert'[c].number = cert[c].number
    BY <2>1, EventInserted
  <2>3. Tells(cert'[c], audit'[c])
    BY <1>0, <2>1, <2>2 DEF Tells, Unissued, Unsigned
  <2> QED
    BY <2>1, <2>2, <2>3, StatusChanges
<1>4. CASE WaiveSign(c)
  <2>1. /\ cert[c].status = "APPROVED" /\ c \notin issuing
        /\ cert' = [cert EXCEPT ![c].status = "SIGNED"]
        /\ Records(c, "SIGN_WAIVED") /\ UNCHANGED <<nextValue, issuing, attesting>>
        /\ "SIGNED" \in Status /\ "SIGN_WAIVED" \in Action
    BY <1>4 DEF WaiveSign, Transition, Status, Active, Action
  <2>2. /\ audit' \in [Cert -> SUBSET Action] /\ audit'[c] = audit[c] \cup {"SIGN_WAIVED"}
        /\ \A d \in Cert : d # c => audit'[d] = audit[d]
        /\ cert'[c].status = "SIGNED" /\ cert'[c].number = cert[c].number
    BY <2>1, EventInserted
  <2>3. Tells(cert'[c], audit'[c])
    BY <1>0, <2>1, <2>2 DEF Tells, Unissued, Unsigned
  <2> QED
    BY <2>1, <2>2, <2>3, StatusChanges
<1>5. CASE Revoke(c)
  <2>1. /\ cert[c].status \in {"ISSUED", "EXPIRED"} /\ c \notin issuing
        /\ cert' = [cert EXCEPT ![c].status = "REVOKED"]
        /\ Records(c, "REVOKED") /\ UNCHANGED <<nextValue, issuing, attesting>>
        /\ "REVOKED" \in Status /\ "REVOKED" \in Action
    BY <1>5 DEF Revoke, Transition, Status, Active, Action
  <2>2. /\ audit' \in [Cert -> SUBSET Action] /\ audit'[c] = audit[c] \cup {"REVOKED"}
        /\ \A d \in Cert : d # c => audit'[d] = audit[d]
        /\ cert'[c].status = "REVOKED" /\ cert'[c].number = cert[c].number
    BY <2>1, EventInserted
  <2>3. Tells(cert'[c], audit'[c])
    BY <1>0, <2>1, <2>2 DEF Tells, Unissued, Unsigned
  <2> QED
    BY <2>1, <2>2, <2>3, StatusChanges
<1>6. CASE Expire(c)
  <2>1. /\ cert[c].status = "ISSUED" /\ c \notin issuing
        /\ cert' = [cert EXCEPT ![c].status = "EXPIRED"]
        /\ Records(c, "EXPIRED") /\ UNCHANGED <<nextValue, issuing, attesting>>
        /\ "EXPIRED" \in Status /\ "EXPIRED" \in Action
    BY <1>6 DEF Expire, Transition, Status, Active, Action
  <2>2. /\ audit' \in [Cert -> SUBSET Action] /\ audit'[c] = audit[c] \cup {"EXPIRED"}
        /\ \A d \in Cert : d # c => audit'[d] = audit[d]
        /\ cert'[c].status = "EXPIRED" /\ cert'[c].number = cert[c].number
    BY <2>1, EventInserted
  <2>3. Tells(cert'[c], audit'[c])
    BY <1>0, <2>1, <2>2 DEF Tells, Unissued, Unsigned
  <2> QED
    BY <2>1, <2>2, <2>3, StatusChanges
<1> QED
  BY <1>1, <1>2, <1>3, <1>4, <1>5, <1>6

LEMMA CreateDraft_Inv ==
    ASSUME CertInv, NEW c \in Cert, NEW i \in Inspection, CreateDraft(c, i)
    PROVE  CertInv'
<1> DEFINE row == [status |-> "DRAFT", insp |-> i, number |-> 0,
                   supersedes |-> NoCert, supersededBy |-> NoCert]
<1>1. [NoRow EXCEPT !.status = "DRAFT", !.insp = i] = row
  <2>1. ASSUME NEW q, q = [NoRow EXCEPT !.status = "DRAFT", !.insp = i] PROVE q = row
    BY <2>1 DEF NoRow
  <2> QED
    BY <2>1
<1>2. cert' = [cert EXCEPT ![c] = row] /\ row \in CertRow
  BY <1>1 DEF CreateDraft, CertRow, Status, Active
<1>3. /\ row.status = "DRAFT" /\ row.number = 0
      /\ row.supersedes = NoCert /\ row.supersededBy = NoCert
  OBVIOUS
<1> HIDE DEF row
<1>4. /\ cert[c].status = "none" /\ cert[c].number = 0
      /\ cert[c].supersedes = NoCert /\ cert[c].supersededBy = NoCert /\ audit[c] = {}
      /\ c \notin issuing
  BY DEF CreateDraft, CertInv, Tells, Unissued, Unsigned
<1>5. audit' \in [Cert -> SUBSET Action] /\ audit'[c] = {"DRAFT_CREATED"}
  BY <1>4 DEF CreateDraft, Records, CertInv, Action
<1>6. \A d \in Cert : d # c => cert'[d] = cert[d] /\ audit'[d] = audit[d]
  BY <1>2 DEF CreateDraft, Records, CertInv
<1>7. cert'[c] = row /\ cert' \in [Cert -> CertRow]
  BY <1>2 DEF CertInv
<1>8. Tells(cert'[c], audit'[c])
  BY <1>3, <1>5, <1>7 DEF Tells, Unissued, Unsigned
<1>9. Numbered'
  BY <1>3, <1>4, <1>6, <1>7, NumbersKept DEF CreateDraft, CertInv
<1>10. SupersessionIsLinear'
  BY <1>3, <1>4, <1>6, <1>7, CertAssumption DEF CertInv, SupersessionIsLinear
<1> QED
  BY <1>4, <1>5, <1>6, <1>7, <1>8, <1>9, <1>10 DEF CreateDraft, CertInv

LEMMA Attest_Inv ==
    ASSUME CertInv, NEW c \in Cert, AttestRead(c) \/ AttestCommit(c)
    PROVE  CertInv'
<1>1. cert' = cert /\ nextValue' = nextValue /\ issuing' = issuing /\ attesting' \subseteq Cert
  BY DEF AttestRead, AttestCommit, CertInv
<1>2. audit' \in [Cert -> SUBSET Action]
  BY DEF AttestRead, AttestCommit, CertInv, Records, Action
<1>3. ASSUME NEW d \in Cert PROVE Tells(cert'[d], audit'[d])
  <2>1. Tells(cert[d], audit[d])
    BY DEF CertInv
  <2>2. CASE audit'[d] = audit[d]
    BY <1>1, <2>1, <2>2
  <2>3. CASE audit'[d] # audit[d]
    <3>1. audit'[d] = audit[d] \cup {"ATTESTED"} /\ cert[d].status # "none"
      BY <2>3 DEF AttestRead, AttestCommit, Records, CertInv
    <3> QED
      BY <1>1, <2>1, <3>1 DEF Tells
  <2> QED
    BY <2>2, <2>3
<1>4. Numbered'
  BY <1>1, NumbersKept DEF CertInv
<1>5. SupersessionIsLinear'
  BY <1>1 DEF CertInv, SupersessionIsLinear
<1>6. \A d \in attesting' : cert[d].status # "none"
  BY DEF AttestRead, AttestCommit, CertInv
<1> QED
  BY <1>1, <1>2, <1>3, <1>4, <1>5, <1>6 DEF CertInv

LEMMA IssueBegin_Inv ==
    ASSUME CertInv, NEW c \in Cert, IssueBegin(c) \/ IssueFails(c)
    PROVE  CertInv'
<1>1. UNCHANGED <<cert, nextValue, attesting, audit>> /\ issuing' \subseteq Cert
  BY DEF IssueBegin, IssueFails, CertInv
<1>2. /\ issuing' = {} \/ issuing' = {c}
      /\ \A d \in issuing' : cert[d].status = "SIGNED"
  BY DEF IssueBegin, IssueFails
<1>3. Numbered'
  BY <1>1, NumbersKept DEF CertInv
<1> QED
  BY <1>1, <1>2, <1>3 DEF CertInv, SupersessionIsLinear

(* The number drawn is one more than the certificates issued before.        *)
LEMMA IssueCommit_Inv ==
    ASSUME CertInv, NEW c \in Cert, IssueCommit(c)
    PROVE  CertInv'
<1>1. cert[c].status = "SIGNED" /\ Tells(cert[c], audit[c])
  BY DEF IssueCommit, CertInv
<1>2. cert[c].number = 0
  BY <1>1 DEF Tells, Unissued
<1>3. /\ cert' \in [Cert -> CertRow]
      /\ cert'[c].status = "ISSUED" /\ cert'[c].number = nextValue
      /\ \A d \in Cert : d # c => cert'[d] = cert[d]
      /\ \A d \in Cert : /\ cert'[d].insp = cert[d].insp
                         /\ cert'[d].supersedes = cert[d].supersedes
                         /\ cert'[d].supersededBy = cert[d].supersededBy
  BY DEF IssueCommit, CertInv, CertRow, Status, Active
<1>4. /\ audit' \in [Cert -> SUBSET Action] /\ audit'[c] = audit[c] \cup {"ISSUED"}
      /\ \A d \in Cert : d # c => audit'[d] = audit[d]
  BY DEF IssueCommit, CertInv, Records, Action
<1>5. nextValue' = nextValue + 1 /\ nextValue \in Nat \ {0} /\ issuing' = {} /\ attesting' = attesting
  BY DEF IssueCommit, CertInv
<1>6. Tells(cert'[c], audit'[c])
  BY <1>1, <1>3, <1>4, <1>5 DEF Tells, Unissued, Unsigned
<1>7. Cardinality(Issued') = Cardinality(Issued) + 1
  <2>1. Issued' = Issued \cup {c} /\ c \notin Issued
    BY <1>2, <1>3, <1>5 DEF Issued
  <2>2. IsFiniteSet(Issued)
    BY FS_Subset, CertAssumption DEF Issued
  <2> QED
    BY <2>1, <2>2, FS_AddElement
<1>8. Numbered'
  <2>1. Numbered /\ \A d \in Cert : cert[d].number \in Nat /\ cert'[d].number \in Nat
    BY <1>3 DEF CertInv, CertRow
  <2>2. \A n \in 1..(nextValue' - 1) : \E d \in Cert : cert'[d].number = n
    <3> SUFFICES ASSUME NEW n \in 1..nextValue PROVE \E d \in Cert : cert'[d].number = n
      BY <1>5
    <3>1. CASE n = nextValue
      BY <1>3, <3>1
    <3>2. CASE n # nextValue
      <4>1. PICK d \in Cert : cert[d].number = n
        BY <1>5, <2>1, <3>2 DEF Numbered
      <4> QED
        BY <1>2, <1>3, <4>1
    <3> QED
      BY <3>1, <3>2
  <2>3. \A d \in Cert : d # c => cert'[d].number < nextValue
    BY <1>3, <2>1 DEF Numbered
  <2>4. \A d, e \in Cert : d # e /\ cert'[d].number = cert'[e].number => cert'[d].number = 0
    BY <1>3, <1>5, <2>1, <2>3 DEF Numbered
  <2>5. \A d \in Cert : cert'[d].number < nextValue'
    BY <1>3, <1>5, <2>1, <2>3
  <2>6. nextValue' = Cardinality(Issued') + 1
    BY <1>5, <1>7, <2>1 DEF Numbered
  <2> QED
    BY <2>2, <2>4, <2>5, <2>6 DEF Numbered
<1>9. SupersessionIsLinear'
  BY <1>1, <1>2, <1>3, <1>5 DEF CertInv, SupersessionIsLinear
<1>10. \A d \in Cert : Tells(cert'[d], audit'[d])
  BY <1>3, <1>4, <1>6 DEF CertInv
<1> QED
  BY <1>3, <1>4, <1>5, <1>8, <1>9, <1>10 DEF CertInv

(* A certificate that can still be superseded has no successor, and one that *)
(* replaces it had no predecessor: the new link is the only one of either.   *)
LEMMA Supersede_Inv ==
    ASSUME CertInv, NEW c \in Cert, NEW d \in Cert, Supersede(c, d)
    PROVE  CertInv'
<1>1. /\ c # d /\ cert[c].status \in {"ISSUED", "EXPIRED"} /\ cert[d].status = "ISSUED"
      /\ cert[d].supersedes = NoCert /\ AssetOf[cert[d].insp] = AssetOf[cert[c].insp]
      /\ UNCHANGED <<nextValue, issuing, attesting>>
  BY DEF Supersede, Replaces
<1>2. cert[c] \in CertRow /\ cert[d] \in CertRow
  BY DEF CertInv
<1>3. /\ cert'[c] = [cert[c] EXCEPT !.status = "SUPERSEDED", !.supersededBy = d]
      /\ cert'[d] = [cert[d] EXCEPT !.supersedes = c]
      /\ \A e \in Cert \ {c, d} : cert'[e] = cert[e]
      /\ cert' = [e \in Cert |-> cert'[e]]
  BY <1>1 DEF Supersede, CertInv
<1>4. /\ cert'[c].status = "SUPERSEDED" /\ cert'[c].supersededBy = d
      /\ cert'[c].number = cert[c].number /\ cert'[c].insp = cert[c].insp
      /\ cert'[c].supersedes = cert[c].supersedes
      /\ cert'[c] \in CertRow
  BY <1>2, <1>3 DEF CertRow, Status
<1>5. /\ cert'[d].status = "ISSUED" /\ cert'[d].supersedes = c
      /\ cert'[d].number = cert[d].number /\ cert'[d].insp = cert[d].insp
      /\ cert'[d].supersededBy = cert[d].supersededBy
      /\ cert'[d] \in CertRow
  BY <1>1, <1>2, <1>3 DEF CertRow
<1>6. cert' \in [Cert -> CertRow]
  BY <1>3, <1>4, <1>5 DEF CertInv
<1>7. /\ audit' \in [Cert -> SUBSET Action] /\ audit'[c] = audit[c] \cup {"SUPERSEDED"}
      /\ \A e \in Cert : e # c => audit'[e] = audit[e]
  BY DEF Supersede, CertInv, Records, Action
<1>8. \A e \in Cert : Tells(cert[e], audit[e])
  BY DEF CertInv
<1>9. Tells(cert'[c], audit'[c])
  BY <1>1, <1>4, <1>7, <1>8 DEF Tells, Unissued, Unsigned
<1>10. Tells(cert'[d], audit'[d])
  BY <1>1, <1>5, <1>7, <1>8 DEF Tells, Unissued, Unsigned
<1>11. \A e \in Cert : Tells(cert'[e], audit'[e])
  BY <1>3, <1>7, <1>8, <1>9, <1>10
<1>12. Numbered'
  <2>1. \A e \in Cert : cert'[e].number = cert[e].number
    BY <1>3, <1>4, <1>5
  <2> QED
    BY <1>1, <2>1, NumbersKept DEF CertInv
<1>13. SupersessionIsLinear'
  <2>1. SupersessionIsLinear /\ cert[c].number # 0 /\ cert[d].number # 0
    BY <1>1, <1>8 DEF CertInv, Tells, Unissued, Unsigned
  <2>2. /\ \A e \in Cert : cert[c].supersededBy # e /\ cert[e].supersedes # c
        /\ \A e \in Cert : cert[e].supersededBy # d
    BY <1>1, <2>1, CertAssumption DEF SupersessionIsLinear
  <2>3. \A e \in Cert : /\ cert'[e].insp = cert[e].insp /\ cert'[e].number = cert[e].number
                        /\ e # c => cert'[e].supersededBy = cert[e].supersededBy
                        /\ e # d => cert'[e].supersedes = cert[e].supersedes
                        /\ cert[e].status = "SUPERSEDED" => cert'[e].status = "SUPERSEDED"
    BY <1>1, <1>3, <1>4, <1>5
  <2>4. ASSUME NEW e \in Cert, NEW f \in Cert
        PROVE  /\ cert'[e].supersededBy = f <=> cert'[f].supersedes = e
               /\ cert'[e].supersededBy = f =>
                    /\ cert'[e].status = "SUPERSEDED" /\ cert'[f].number # 0 /\ e # f
                    /\ AssetOf[cert'[e].insp] = AssetOf[cert'[f].insp]
    <3>1. CASE e = c
      BY <1>1, <1>4, <1>5, <2>1, <2>2, <2>3, <3>1
    <3>2. CASE e # c /\ f = d
      BY <1>1, <1>4, <1>5, <2>1, <2>2, <2>3, <3>2
    <3>3. CASE e # c /\ f # d
      BY <2>1, <2>3, <3>3 DEF SupersessionIsLinear
    <3> QED
      BY <3>1, <3>2, <3>3
  <2> QED
    BY <2>4 DEF SupersessionIsLinear
<1>14. /\ \A e \in issuing' : cert'[e].status = "SIGNED"
       /\ \A e \in attesting' : cert'[e].status # "none"
  <2>1. \A e \in Cert : e # c => cert'[e].status = cert[e].status
    BY <1>1, <1>3, <1>5
  <2>2. c \notin issuing /\ issuing \subseteq Cert /\ attesting \subseteq Cert
    BY <1>1 DEF CertInv
  <2> QED
    BY <1>1, <1>4, <2>1, <2>2 DEF CertInv
<1> QED
  BY <1>1, <1>6, <1>7, <1>11, <1>12, <1>13, <1>14 DEF CertInv

LEMMA CertNext_Inv == CertInv /\ [CertNext]_certVars => CertInv'
<1>1. ASSUME CertInv, UNCHANGED certVars PROVE CertInv'
  BY <1>1 DEF certVars, CertInv, Numbered, Issued, SupersessionIsLinear
<1> QED
  BY <1>1, CreateDraft_Inv, CertStatus_Inv, Attest_Inv, IssueBegin_Inv, IssueCommit_Inv,
     Supersede_Inv DEF CertNext

LEMMA CertInvAlways == CertSpec => []CertInv
BY CertInit_Inv, CertNext_Inv, PTL DEF CertSpec

LEMMA CertInv_Types == CertInv => CertTypeOK
<1> SUFFICES ASSUME CertInv PROVE CertTypeOK
  OBVIOUS
<1>1. /\ IsFiniteSet(Issued) /\ Cardinality(Issued) \in Nat
      /\ Cardinality(Cert) \in Nat /\ Cardinality(Issued) <= Cardinality(Cert)
  BY CertAssumption, FS_Subset, FS_CardinalityType DEF Issued
<1>2. nextValue \in 1..(Cardinality(Cert) + 1)
  BY <1>1 DEF CertInv, Numbered
<1>3. \A c \in Cert : cert[c].number \in 0..Cardinality(Cert)
  BY <1>1, <1>2 DEF CertInv, CertRow, Numbered
<1>4. Cardinality(issuing) <= 1
  <2>1. issuing = {} => Cardinality(issuing) = 0
    BY FS_EmptySet
  <2>2. ASSUME NEW c \in Cert, issuing = {c} PROVE Cardinality(issuing) = 1
    BY <2>2, FS_Singleton
  <2> QED
    BY <2>1, <2>2 DEF CertInv
<1> QED
  BY <1>2, <1>3, <1>4 DEF CertInv, CertRow, CertTypeOK

(* Columns of the certificate tables hold values of their types, one Issue  *)
(* at most holds the sequence, and it never runs past the certificates.     *)
THEOREM CertTypeCorrect == CertSpec => []CertTypeOK
  BY CertInvAlways, CertInv_Types, PTL

(* allocateNumber inside Issue's transaction: the numbers of the issued     *)
(* certificates are 1, 2, 3 and so on, whichever issues fail.               *)
THEOREM IssuedNumbersHaveNoGap == CertSpec => []NumbersAreGapless
<1>1. CertInv => NumbersAreGapless
  <2> SUFFICES ASSUME CertInv PROVE NumbersAreGapless
    OBVIOUS
  <2>1. \A c \in Cert : cert[c].number \in 0..(nextValue - 1)
    BY DEF CertInv, CertRow, Numbered
  <2>2. {cert[c].number : c \in Cert} \ {0} = 1..(nextValue - 1)
    BY <2>1 DEF CertInv, Numbered
  <2> QED
    BY <2>2 DEF CertInv, Numbered, NumbersAreGapless
<1> QED
  BY <1>1, CertInvAlways, PTL

(* Supersede and the event each transaction inserts: links and events tell  *)
(* one history of every certificate.                                        *)
THEOREM OneHistory == CertSpec => []CertificateHistory
<1>1. CertInv => CertificateHistory
  <2> SUFFICES ASSUME CertInv, NEW c \in Cert
               PROVE  /\ "ISSUED" \in audit[c] <=> cert[c].number # 0
                      /\ cert[c].status \in {"REVOKED", "SUPERSEDED"} => EndsOf(c) = {cert[c].status}
                      /\ cert[c].status \in Active => EndsOf(c) = {}
                      /\ cert[c].number # 0 => Cardinality(audit[c] \cap {"SIGNED", "SIGN_WAIVED"}) = 1
    BY DEF CertInv, CertificateHistory, AuditTellsStatus
  <2>1. Tells(cert[c], audit[c])
    BY DEF CertInv
  <2>2. cert[c].status \in {"REVOKED", "SUPERSEDED"} => EndsOf(c) = {cert[c].status}
    BY <2>1 DEF Tells, EndsOf
  <2>3. cert[c].status \in Active => EndsOf(c) = {}
    BY <2>1 DEF Tells, EndsOf, Active
  <2>4. ASSUME cert[c].number # 0
        PROVE  Cardinality(audit[c] \cap {"SIGNED", "SIGN_WAIVED"}) = 1
    <3>1. \/ audit[c] \cap {"SIGNED", "SIGN_WAIVED"} = {"SIGNED"}
          \/ audit[c] \cap {"SIGNED", "SIGN_WAIVED"} = {"SIGN_WAIVED"}
      BY <2>1, <2>4 DEF Tells, Unissued
    <3> QED
      BY <3>1, FS_Singleton
  <2> QED
    BY <2>1, <2>2, <2>3, <2>4 DEF Tells
<1> QED
  BY <1>1, CertInvAlways, PTL

-----------------------------------------------------------------------------
(* Work orders                                                             *)

CallRow == [phase : {"validate", "find", "start", "commit", "done"}, key : Key, cmd : Command]
LogRow  == [key : Key, cmd : Command, rev : 0..MaxRev]
Answers == [key : Key, accepted : BOOLEAN, rev : 0..MaxRev]

(* A command that changes the order was made from a revision that can still *)
(* grow.                                                                    *)
Grows(cmd) == cmd.kind \in Bumping => cmd.rev < MaxRev

WoInv ==
    /\ WoTypeOK
    /\ \A n \in 1..Len(call) : Grows(call[n].cmd)
    /\ OneActiveAssignment
    /\ SubmittedOnce
    /\ AppliedOnce
    /\ NoLostUpdate
    /\ order.rev = 0 => Bumps = {}

(* The fields of the commands, by kind. *)
LEMMA CommandFields ==
    ASSUME NEW cmd \in Command
    PROVE  /\ cmd.rev \in 0..MaxRev
           /\ cmd.kind \in {"create", "evidence", "assign", "transition", "submit", "reassign",
                            "certify", "reconcile"}
           /\ cmd.kind \in {"assign", "reassign", "submit"} => cmd.asg \in Asg
           /\ cmd.kind \in {"submit", "certify"} => cmd.insp \subseteq Insp
           /\ cmd.kind = "transition" => cmd.from \in Execution /\ cmd.to \in Goal
           /\ cmd.kind = "reassign" => cmd.prev \in Asg
           /\ cmd.kind = "reconcile" => cmd.print \in Fingerprint /\ cmd.outcome \in Outcome
BY DEF Command

LEMMA WoInit_Inv == WoInit => WoInv
<1> SUFFICES ASSUME WoInit PROVE WoInv
  OBVIOUS
<1>1. log = <<>> /\ call = <<>> /\ Len(log) = 0 /\ Len(call) = 0 /\ 3 \in 0..MaxRev /\ 0 \in 0..MaxRev
  BY WoAssumption DEF WoInit
<1>2. Bumps = {} /\ Cardinality(Bumps) = 0
  BY <1>1, FS_EmptySet DEF Bumps
<1>3. order \in [rev : 0..MaxRev, state : Execution, cert : BOOLEAN] /\ order.rev \in Nat
  <2>1. PICK r \in 0..MaxRev, t \in Execution : order = [rev |-> r, state |-> t, cert |-> FALSE]
    BY <1>1 DEF WoInit, Execution
  <2> QED
    BY <2>1
<1>4. {log[e].rev : e \in Bumps} = (order.rev - Cardinality(Bumps) + 1)..order.rev
  BY <1>2, <1>3
<1>5. NoLostUpdate
  BY <1>2, <1>4 DEF NoLostUpdate
<1>6. WoTypeOK
  BY <1>1, <1>3, WoAssumption, EmptySeq DEF WoInit, WoTypeOK, Final, Outcome
<1>7. OneActiveAssignment
  BY DEF WoInit, OneActiveAssignment
<1>8. SubmittedOnce /\ AppliedOnce
  BY <1>1 DEF WoInit, SubmittedOnce, AppliedOnce
<1> QED
  BY <1>1, <1>2, <1>5, <1>6, <1>7, <1>8 DEF WoInv

(* findReceipt: the receipt of a key is the one row that carries it. *)
LEMMA ReceiptIs ==
    ASSUME AppliedOnce, NEW e \in 1..Len(log)
    PROVE  Logged(log[e].key) /\ Receipt(log[e].key) = log[e]
<1>1. \A f \in 1..Len(log) : log[f].key = log[e].key => f = e
  BY DEF AppliedOnce
<1> QED
  BY <1>1 DEF Logged, Receipt

LEMMA ReceiptLogged ==
    ASSUME WoInv, NEW k, Logged(k)
    PROVE  Receipt(k) \in LogRow /\ Receipt(k).key = k /\ Receipt(k).rev \in 0..MaxRev
<1>1. PICK e \in 1..Len(log) : log[e].key = k
  BY DEF Logged
<1>2. Receipt(k) = log[e]
  BY <1>1, ReceiptIs DEF WoInv
<1>3. log[e] \in LogRow
  BY ElementOfSeq DEF WoInv, WoTypeOK, LogRow
<1> QED
  BY <1>1, <1>2, <1>3 DEF LogRow

(* A step of a call that commits nothing. *)
LEMMA NothingCommitted ==
    ASSUME WoInv, UNCHANGED <<woRows, log>>,
           call' \in Seq(CallRow), \A n \in 1..Len(call') : Grows(call'[n].cmd),
           answers' \subseteq Answers,
           \A t \in answers' : t \in answers
             \/ (t.accepted => Logged(t.key) /\ Receipt(t.key).rev = t.rev)
    PROVE  WoInv'
<1>1. UNCHANGED <<order, asg, insp, segment, prov, log>> /\ Bumps' = Bumps
  BY DEF woRows, Bumps
<1>2. WoTypeOK'
  BY <1>1 DEF WoInv, WoTypeOK, CallRow, Answers
<1>3. AppliedOnce'
  BY <1>1 DEF WoInv, AppliedOnce, Logged, Receipt
<1> QED
  BY <1>1, <1>2, <1>3 DEF WoInv, OneActiveAssignment, SubmittedOnce, NoLostUpdate

LEMMA Moves ==
    ASSUME WoInv, NEW n \in 1..Len(call), NEW phase \in {"find", "start", "commit", "done"},
           Becomes(n, phase)
    PROVE  call' \in Seq(CallRow) /\ \A m \in 1..Len(call') : Grows(call'[m].cmd)
<1> DEFINE c == [call[n] EXCEPT !.phase = phase]
<1>1. call \in Seq(CallRow) /\ call[n] \in CallRow
  BY ElementOfSeq DEF WoInv, WoTypeOK, CallRow
<1>2. c \in CallRow /\ c.cmd = call[n].cmd
  BY <1>1 DEF CallRow
<1>3. call' = [call EXCEPT ![n] = c]
  BY DEF Becomes
<1> HIDE DEF c
<1>4. /\ call' \in Seq(CallRow) /\ Len(call') = Len(call)
      /\ \A m \in 1..Len(call) : call'[m] = IF m = n THEN c ELSE call[m]
  BY <1>1, <1>2, <1>3, ExceptSeq
<1> QED
  BY <1>2, <1>4 DEF WoInv

LEMMA Answered ==
    ASSUME WoInv, NEW n \in 1..Len(call), NEW accepted \in BOOLEAN, NEW rev \in 0..MaxRev,
           Answer(n, accepted, rev), UNCHANGED <<woRows, log>>,
           accepted => Logged(call[n].key) /\ Receipt(call[n].key).rev = rev
    PROVE  WoInv'
<1> DEFINE t == [key |-> call[n].key, accepted |-> accepted, rev |-> rev]
<1>1. call[n] \in CallRow /\ answers \subseteq Answers
  BY ElementOfSeq DEF WoInv, WoTypeOK, CallRow, Answers
<1>2. t \in Answers /\ t.key = call[n].key /\ t.accepted = accepted /\ t.rev = rev
  BY <1>1 DEF CallRow, Answers
<1>3. answers' = answers \cup {t}
  BY DEF Answer
<1>4. call' \in Seq(CallRow) /\ \A m \in 1..Len(call') : Grows(call'[m].cmd)
  BY Moves DEF Answer
<1> HIDE DEF t
<1>5. \A a \in answers' : a \in answers \/ (a.accepted => Logged(a.key) /\ Receipt(a.key).rev = a.rev)
  BY <1>2, <1>3
<1> QED
  BY <1>1, <1>2, <1>3, <1>4, <1>5, NothingCommitted

LEMMA Proceeds ==
    ASSUME WoInv, NEW n \in 1..Len(call), NEW phase \in {"find", "start", "commit", "done"},
           Becomes(n, phase), UNCHANGED <<woRows, log, answers>>
    PROVE  WoInv'
<1>1. call' \in Seq(CallRow) /\ \A m \in 1..Len(call') : Grows(call'[m].cmd)
  BY Moves
<1>2. answers \subseteq Answers
  BY DEF WoInv, WoTypeOK, Answers
<1> QED
  BY <1>1, <1>2, NothingCommitted

LEMMA Open_Inv ==
    ASSUME WoInv, NEW k \in Key, NEW cmd \in Command, Grows(cmd), Open(k, cmd)
    PROVE  WoInv'
<1> DEFINE c == [phase |-> IF Loads(cmd) THEN "validate" ELSE "find", key |-> k, cmd |-> cmd]
<1>1. call \in Seq(CallRow) /\ answers \subseteq Answers
  BY DEF WoInv, WoTypeOK, CallRow, Answers
<1>2. c \in CallRow /\ c.cmd = cmd
  BY DEF CallRow
<1>3. call' = Append(call, c) /\ UNCHANGED <<woRows, log, answers>>
  BY DEF Open
<1> HIDE DEF c
<1>4. call' \in Seq(CallRow) /\ \A m \in 1..Len(call') : Grows(call'[m].cmd)
  <2>1. /\ call' \in Seq(CallRow) /\ Len(call') = Len(call) + 1 /\ Len(call) \in Nat
        /\ \A i \in 1..Len(call) : call'[i] = call[i]
        /\ call'[Len(call) + 1] = c
    BY <1>1, <1>2, <1>3, AppendProperties, LenProperties
  <2>2. ASSUME NEW m \in 1..Len(call') PROVE Grows(call'[m].cmd)
    <3>1. CASE m \in 1..Len(call)
      BY <2>1, <3>1 DEF WoInv
    <3>2. CASE m = Len(call) + 1
      BY <1>2, <2>1, <3>2
    <3> QED
      BY <2>1, <3>1, <3>2
  <2> QED
    BY <2>1, <2>2
<1> QED
  BY <1>1, <1>3, <1>4, NothingCommitted

(* New commands and repeated ones, and the steps of a call before it locks  *)
(* the order.                                                               *)
LEMMA Calls_Inv ==
    ASSUME WoInv, NEW n \in 1..Len(call), Retry(n) \/ Validate(n) \/ Find(n) \/ Start(n)
    PROVE  WoInv'
<1>1. call[n] \in CallRow /\ Grows(call[n].cmd)
  BY ElementOfSeq DEF WoInv, WoTypeOK, CallRow
<1>2. 0 \in 0..MaxRev /\ TRUE \in BOOLEAN /\ FALSE \in BOOLEAN
  BY WoAssumption
<1>3. CASE Retry(n)
  BY <1>1, <1>3, Open_Inv DEF Retry, CallRow
<1>4. Refuse(n) => WoInv'
  BY <1>2, Answered DEF Refuse
<1>5. CASE Validate(n)
  BY <1>4, <1>5, Proceeds DEF Validate
<1>6. CASE Find(n)
  <2>1. CASE Logged(call[n].key)
    BY <1>2, <1>6, <2>1, ReceiptLogged, Answered DEF Find
  <2>2. CASE ~Logged(call[n].key)
    BY <1>6, <2>2, Proceeds DEF Find
  <2> QED
    BY <2>1, <2>2
<1>7. CASE Start(n)
  <2>1. CASE Logged(call[n].key)
    BY <1>2, <1>7, <2>1, ReceiptLogged, Answered DEF Start
  <2>2. CASE ~Logged(call[n].key)
    BY <1>7, <2>2, Proceeds DEF Start
  <2> QED
    BY <2>1, <2>2
<1> QED
  BY <1>3, <1>5, <1>6, <1>7

LEMMA Send_Inv ==
    ASSUME WoInv, NEW k \in Key, Send(k)
    PROVE  WoInv'
<1>1. PICK cmd \in Fresh : Open(k, cmd)
  BY DEF Send
<1>2. cmd \in Command /\ cmd.rev = (IF order.rev = 0 THEN 1 ELSE order.rev)
      /\ (cmd.kind = "create" <=> order.rev = 0) /\ (cmd.kind \in Bumping => order.rev < MaxRev)
  BY DEF Fresh
<1>3. Grows(cmd)
  BY <1>2, WoAssumption DEF Grows
<1> QED
  BY <1>1, <1>2, <1>3, Open_Inv

(* An inspection is made: it is in no segment, because it was not submitted. *)
LEMMA Inspected_Inv ==
    ASSUME WoInv, NEW i \in Insp, NEW a \in Asg, Inspected(i, a)
    PROVE  WoInv'
<1>1. /\ insp \in [Insp -> [asg : Asg \cup {NoAsg}, final : Final]]
      /\ insp' = [insp EXCEPT ![i] = [asg |-> a, final |-> "OPEN"]] /\ insp[i].final = "none"
      /\ UNCHANGED <<order, asg, segment, prov, log, call, answers>>
  BY DEF Inspected, WoInv, WoTypeOK
<1>2. /\ insp' \in [Insp -> [asg : Asg \cup {NoAsg}, final : Final]]
      /\ insp'[i].final = "OPEN" /\ \A j \in Insp : j # i => insp'[j] = insp[j]
  BY <1>1 DEF Final
<1>3. WoTypeOK'
  BY <1>1, <1>2 DEF WoInv, WoTypeOK
<1>4. \A s \in segment : i \notin s.insp
  BY <1>1 DEF WoInv, SubmittedOnce
<1>5. SubmittedOnce'
  BY <1>1, <1>2, <1>4 DEF WoInv, SubmittedOnce
<1>6. AppliedOnce' /\ Bumps' = Bumps
  BY <1>1 DEF WoInv, AppliedOnce, Logged, Receipt, Bumps
<1> QED
  BY <1>1, <1>3, <1>5, <1>6 DEF WoInv, OneActiveAssignment, NoLostUpdate

-----------------------------------------------------------------------------
(* The commit of an admissible command: its row effects, one property each.  *)
Commits(n) ==
    /\ call[n].phase = "commit" /\ Admissible(call[n].cmd) /\ Insertable(call[n].key)
    /\ Effect(call[n].key, call[n].cmd)
    /\ log' = Append(log, [key |-> call[n].key, cmd |-> call[n].cmd, rev |-> NewRev(call[n].cmd)])
    /\ Answer(n, TRUE, NewRev(call[n].cmd))

LEMMA CommitRev ==
    ASSUME WoInv, NEW cmd \in Command, Grows(cmd), Admissible(cmd)
    PROVE  /\ NewRev(cmd) \in 0..MaxRev
           /\ cmd.kind \in Bumping => cmd.rev = order.rev /\ order.rev # 0 /\ NewRev(cmd) = order.rev + 1
<1>1. order.rev \in 0..MaxRev /\ cmd.rev \in 0..MaxRev
  BY CommandFields DEF WoInv, WoTypeOK
<1>2. /\ cmd.kind \in {"create", "evidence", "assign", "transition", "submit", "reassign",
                       "certify", "reconcile"}
      /\ cmd.kind \in Bumping => Loads(cmd)
      /\ cmd.kind \in Bumping => NewRev(cmd) = order.rev + 1
  BY CommandFields DEF Bumping, Loads, NewRev
<1>3. Loads(cmd) => order.rev # 0 /\ cmd.rev = order.rev
  BY DEF Admissible, Current
<1>4. CASE cmd.kind \in Bumping
  BY <1>1, <1>2, <1>3, <1>4, WoAssumption DEF Grows
<1>5. CASE cmd.kind \notin Bumping
  BY <1>1, <1>2, <1>5, WoAssumption DEF Bumping, NewRev
<1> QED
  BY <1>4, <1>5

LEMMA CommitOrder ==
    ASSUME WoInv, NEW k, NEW cmd \in Command, Grows(cmd), Admissible(cmd), Effect(k, cmd)
    PROVE  /\ order' \in [rev : 0..MaxRev, state : Execution, cert : BOOLEAN]
           /\ order'.rev = IF cmd.kind = "create" THEN 1
                           ELSE IF cmd.kind \in Bumping THEN order.rev + 1 ELSE order.rev
           /\ order'.state = IF cmd.kind \in Bumping THEN NewState(cmd) ELSE order.state
           /\ cmd.kind = "create" => order.rev = 0
<1>1. /\ order \in [rev : 0..MaxRev, state : Execution, cert : BOOLEAN] /\ 1 \in 0..MaxRev
      /\ order.state \in Execution /\ order.rev \in Nat
  BY WoAssumption DEF WoInv, WoTypeOK
<1>2. CASE cmd.kind = "create"
  BY <1>1, <1>2 DEF Effect, Admissible, Bumping, Loads
<1>3. CASE cmd.kind \in Bumping
  <2>1. order' = [rev |-> order.rev + 1, state |-> NewState(cmd), cert |-> order.cert \/ cmd.kind = "certify"]
    BY <1>3, CommitRev DEF Effect, Bumping
  <2>2. NewState(cmd) \in Execution
    BY <1>1, CommandFields, WoAssumption DEF NewState, Execution
  <2>3. order.rev + 1 \in 0..MaxRev
    BY <1>3, CommitRev
  <2>4. (order.cert \/ cmd.kind = "certify") \in BOOLEAN
    OBVIOUS
  <2> QED
    BY <1>3, <2>1, <2>2, <2>3, <2>4 DEF Bumping
<1>4. CASE cmd.kind \notin Bumping \cup {"create"}
  BY <1>1, <1>4 DEF Effect
<1> QED
  BY <1>2, <1>3, <1>4

(* Assignments: assigned from a ready order, which has none, or transferred. *)
LEMMA CommitAssignments ==
    ASSUME WoInv, NEW k, NEW cmd \in Command, Grows(cmd), Admissible(cmd), Effect(k, cmd)
    PROVE  asg' \in [Asg -> {"none", "active", "transferred"}] /\ OneActiveAssignment'
<1>1. asg \in [Asg -> {"none", "active", "transferred"}] /\ OneActiveAssignment
  BY DEF WoInv, WoTypeOK
<1>2. order'.state = IF cmd.kind \in Bumping THEN NewState(cmd) ELSE order.state
  BY CommitOrder
<1>3. /\ cmd.kind \in {"create", "evidence", "assign", "transition", "submit", "reassign",
                       "certify", "reconcile"}
      /\ cmd.kind = "assign" => order.state = "ready"
      /\ cmd.kind = "reassign" => asg[cmd.prev] = "active" /\ asg[cmd.asg] = "none" /\ cmd.prev \in Asg
      /\ cmd.kind \in {"assign", "reassign"} => cmd.asg \in Asg /\ asg[cmd.asg] = "none"
      /\ cmd.kind = "transition" => CanTransition(order.state, cmd.to)
  BY CommandFields DEF Admissible, Loads, Valid, Reassignable
<1>4. /\ asg' = [a \in Asg |->
                   IF cmd.kind \in {"assign", "reassign"} /\ a = cmd.asg THEN "active"
                   ELSE IF cmd.kind = "reassign" /\ a = cmd.prev THEN "transferred" ELSE asg[a]]
      /\ asg' \in [Asg -> {"none", "active", "transferred"}]
  BY <1>1 DEF Effect
<1>5. CASE cmd.kind = "assign"
  <2>1. \A a \in Asg : asg[a] = "none"
    BY <1>1, <1>3, <1>5 DEF OneActiveAssignment
  <2>2. order'.state = "assigned"
    BY <1>2, <1>5 DEF Bumping, NewState
  <2> QED
    BY <1>3, <1>4, <1>5, <2>1, <2>2 DEF OneActiveAssignment
<1>6. CASE cmd.kind = "reassign"
  <2>1. order'.state = "assigned"
    BY <1>2, <1>6 DEF Bumping, NewState
  <2>2. \A a \in Asg : asg'[a] = "active" => a = cmd.asg
    BY <1>1, <1>3, <1>4, <1>6 DEF OneActiveAssignment
  <2> QED
    BY <1>4, <2>1, <2>2 DEF OneActiveAssignment
<1>7. CASE cmd.kind \notin {"assign", "reassign"}
  <2>1. asg' = asg
    BY <1>1, <1>4, <1>7
  <2>2. order'.state = "ready" => order.state = "ready"
    <3>1. CASE cmd.kind = "transition"
      BY <1>2, <1>3, <3>1 DEF Bumping, NewState, CanTransition, Next_
    <3>2. CASE cmd.kind # "transition"
      BY <1>2, <1>3, <1>7, <3>2 DEF Bumping, NewState
    <3> QED
      BY <3>1, <3>2
  <2> QED
    BY <1>1, <2>1, <2>2 DEF OneActiveAssignment
<1> QED
  BY <1>3, <1>5, <1>6, <1>7

(* Segments: submitAssignment takes open inspections that no segment holds.  *)
LEMMA CommitSegments ==
    ASSUME WoInv, NEW k \in Key, NEW cmd \in Command, Admissible(cmd), Effect(k, cmd)
    PROVE  /\ insp' \in [Insp -> [asg : Asg \cup {NoAsg}, final : Final]]
           /\ segment' \subseteq [key : Key, asg : Asg, insp : SUBSET Insp]
           /\ SubmittedOnce'
<1>1. /\ insp \in [Insp -> [asg : Asg \cup {NoAsg}, final : Final]]
      /\ segment \subseteq [key : Key, asg : Asg, insp : SUBSET Insp] /\ SubmittedOnce
  BY DEF WoInv, WoTypeOK
<1>2. CASE cmd.kind # "submit"
  <2>1. insp' = insp /\ segment' = segment
    BY <1>1, <1>2 DEF Effect, Finalised
  <2> QED
    BY <1>1, <2>1 DEF SubmittedOnce
<1>3. CASE cmd.kind = "submit"
  <2> DEFINE t == [key |-> k, asg |-> cmd.asg, insp |-> cmd.insp]
  <2>1. /\ cmd.asg \in Asg /\ cmd.insp \subseteq Insp
        /\ \A i \in cmd.insp : /\ insp[i].asg = cmd.asg /\ insp[i].final = "OPEN"
                               /\ \A s \in segment : i \notin s.insp
    BY <1>3, CommandFields DEF Admissible, Submittable
  <2>2. t \in [key : Key, asg : Asg, insp : SUBSET Insp] /\ t.asg = cmd.asg /\ t.insp = cmd.insp
    BY <2>1
  <2>3. segment' = segment \cup {t}
    BY <1>3 DEF Effect
  <2> HIDE DEF t
  <2>4. \A i \in Insp : /\ insp'[i].asg = insp[i].asg
                        /\ insp'[i].final = IF i \in cmd.insp THEN "SUBMITTED" ELSE insp[i].final
    BY <1>1, <1>3 DEF Effect, Finalised
  <2>5. insp' \in [Insp -> [asg : Asg \cup {NoAsg}, final : Final]]
    BY <1>1, <1>3 DEF Effect, Finalised, Final
  <2>6. \A i \in Insp : insp'[i].final = "SUBMITTED" <=> \E s \in segment' : i \in s.insp
    BY <1>1, <2>1, <2>2, <2>3, <2>4 DEF SubmittedOnce
  <2>7. \A s, u \in segment' : s # u => s.insp \cap u.insp = {}
    BY <1>1, <2>1, <2>2, <2>3 DEF SubmittedOnce
  <2>8. \A s \in segment', i \in Insp : i \in s.insp => insp'[i].asg = s.asg
    BY <1>1, <2>1, <2>2, <2>3, <2>4 DEF SubmittedOnce
  <2> QED
    BY <1>1, <2>2, <2>3, <2>5, <2>6, <2>7, <2>8 DEF SubmittedOnce
<1> QED
  BY <1>2, <1>3

(* The operation is appended to the log under a key that was free. *)
LEMMA CommitLog ==
    ASSUME WoInv, NEW n \in 1..Len(call), call[n] \in CallRow, Commits(n), NEW rev \in 0..MaxRev,
           rev = NewRev(call[n].cmd)
    PROVE  /\ log' \in Seq(LogRow) /\ Len(log') = Len(log) + 1 /\ Len(log) \in Nat
           /\ \A e \in 1..Len(log) : log'[e] = log[e]
           /\ log'[Len(log) + 1] = [key |-> call[n].key, cmd |-> call[n].cmd, rev |-> rev]
           /\ answers' \subseteq Answers
           /\ AppliedOnce'
<1> DEFINE row == [key |-> call[n].key, cmd |-> call[n].cmd, rev |-> rev]
<1> DEFINE t == [key |-> call[n].key, accepted |-> TRUE, rev |-> rev]
<1>1. log \in Seq(LogRow) /\ answers \subseteq Answers /\ AppliedOnce
  BY DEF WoInv, WoTypeOK, LogRow, Answers
<1>2. /\ row \in LogRow /\ row.key = call[n].key /\ row.rev = rev
      /\ t \in Answers /\ t.key = call[n].key /\ t.rev = rev
  BY DEF LogRow, Answers, CallRow
<1>3. log' = Append(log, row) /\ answers' = answers \cup {t}
  BY DEF Commits, Answer
<1>4. ~Logged(row.key)
  BY <1>2 DEF Commits, Insertable
<1>5. log'[Len(log) + 1] = row => log'[Len(log) + 1] = [key |-> call[n].key, cmd |-> call[n].cmd, rev |-> rev]
  OBVIOUS
<1> HIDE DEF row, t
<1>6. /\ log' \in Seq(LogRow) /\ Len(log') = Len(log) + 1 /\ Len(log) \in Nat
      /\ \A e \in 1..Len(log) : log'[e] = log[e]
      /\ log'[Len(log) + 1] = row
  BY <1>1, <1>2, <1>3, AppendProperties, LenProperties
<1>7. \A e, f \in 1..Len(log') : log'[e].key = log'[f].key => e = f
  <2>1. \A e \in 1..Len(log) : log[e].key # row.key
    BY <1>4 DEF Logged
  <2>2. \A e \in 1..Len(log') : e \in 1..Len(log) \/ e = Len(log) + 1
    BY <1>6
  <2> QED
    BY <1>1, <1>6, <2>1, <2>2 DEF AppliedOnce
<1>8. ASSUME NEW k, NEW e \in 1..Len(log'), log'[e].key = k
      PROVE  Logged(k)' /\ Receipt(k)' = log'[e]
  <2>1. \A f \in 1..Len(log') : log'[f].key = k => f = e
    BY <1>7, <1>8
  <2> QED
    BY <1>8, <2>1 DEF Logged, Receipt
<1>9. ASSUME NEW a \in answers', a.accepted
      PROVE  Logged(a.key)' /\ Receipt(a.key)'.rev = a.rev
  <2>1. CASE a \in answers
    <3>1. Logged(a.key) /\ Receipt(a.key).rev = a.rev
      BY <1>1, <1>9, <2>1 DEF AppliedOnce
    <3>2. PICK e \in 1..Len(log) : log[e].key = a.key
      BY <3>1 DEF Logged
    <3>3. Receipt(a.key) = log[e]
      BY <1>1, <3>2, ReceiptIs
    <3>4. e \in 1..Len(log') /\ log'[e] = log[e]
      BY <1>6
    <3>5. Logged(a.key)' /\ Receipt(a.key)' = log'[e]
      BY <1>8, <3>2, <3>4
    <3> QED
      BY <3>1, <3>3, <3>4, <3>5
  <2>2. CASE a = t
    <3>1. Len(log) + 1 \in 1..Len(log')
      BY <1>6
    <3>2. Logged(a.key)' /\ Receipt(a.key)' = log'[Len(log) + 1]
      BY <1>2, <1>6, <1>8, <2>2, <3>1
    <3> QED
      BY <1>2, <1>6, <2>2, <3>2
  <2> QED
    BY <1>3, <2>1, <2>2
<1> QED
  BY <1>1, <1>2, <1>3, <1>5, <1>6, <1>7, <1>9 DEF AppliedOnce

LEMMA NextInRange ==
    ASSUME NEW r \in Nat, NEW c \in Nat, NEW s, NEW d, s = r + 1, d = c + 1
    PROVE  ((r - c + 1)..r) \cup {r + 1} = (s - d + 1)..s
OBVIOUS

(* bumpOrder: the revisions of the operations that change the order follow   *)
(* each other, because each was checked against the order it is applied to.  *)
LEMMA CommitBumps ==
    ASSUME WoInv, NEW n \in 1..Len(call), call[n] \in CallRow, Grows(call[n].cmd), Commits(n)
    PROVE  NoLostUpdate' /\ (order'.rev = 0 => Bumps' = {})
<1> DEFINE cmd == call[n].cmd
           rev == NewRev(cmd)
           last == Len(log) + 1
<1>1. /\ cmd \in Command /\ rev \in 0..MaxRev
      /\ cmd.kind \in Bumping => cmd.rev = order.rev /\ order.rev # 0 /\ rev = order.rev + 1
  BY CommitRev DEF CallRow, Commits
<1>2. /\ order'.rev = IF cmd.kind = "create" THEN 1
                      ELSE IF cmd.kind \in Bumping THEN order.rev + 1 ELSE order.rev
      /\ cmd.kind = "create" => order.rev = 0
      /\ order.rev \in Nat
  BY <1>1, CommitOrder DEF Commits, WoInv, WoTypeOK
<1>3. /\ Len(log') = last /\ Len(log) \in Nat
      /\ \A e \in 1..Len(log) : log'[e] = log[e]
      /\ log'[last].cmd = cmd /\ log'[last].rev = rev
  <2>1. /\ Len(log') = Len(log) + 1 /\ Len(log) \in Nat
        /\ \A e \in 1..Len(log) : log'[e] = log[e]
        /\ log'[Len(log) + 1] = [key |-> call[n].key, cmd |-> cmd, rev |-> rev]
    BY <1>1, CommitLog
  <2> QED
    BY <2>1
<1> HIDE DEF cmd, rev
<1>4. \A e \in 1..last : e \in 1..Len(log) \/ e = last
  BY <1>3
<1>5. /\ IsFiniteSet(Bumps) /\ Cardinality(Bumps) \in Nat /\ last \notin Bumps
      /\ \A e \in Bumps : e \in 1..Len(log) /\ log'[e] = log[e]
  <2>1. IsFiniteSet(1..Len(log)) /\ Bumps \in SUBSET (1..Len(log))
    BY <1>3, FS_Interval DEF Bumps
  <2>2. IsFiniteSet(Bumps) /\ Cardinality(Bumps) \in Nat
    BY <2>1, FS_Subset, FS_CardinalityType
  <2> QED
    BY <1>3, <2>1, <2>2
<1>6. /\ {log[e].rev : e \in Bumps} = (order.rev - Cardinality(Bumps) + 1)..order.rev
      /\ \A e \in Bumps : log[e].rev = log[e].cmd.rev + 1
      /\ order.rev = 0 => Bumps = {}
  BY DEF WoInv, NoLostUpdate
<1>7. CASE cmd.kind \in Bumping
  <2>1. Bumps' = Bumps \cup {last}
    BY <1>3, <1>4, <1>7 DEF Bumps
  <2>2. Cardinality(Bumps') = Cardinality(Bumps) + 1
    BY <1>5, <2>1, FS_AddElement
  <2>3. order'.rev = order.rev + 1 /\ rev = order.rev + 1 /\ cmd.rev = order.rev
    BY <1>1, <1>2, <1>7 DEF Bumping
  <2>4. {log'[e].rev : e \in Bumps'} = {log[e].rev : e \in Bumps} \cup {order.rev + 1}
    BY <1>3, <1>5, <2>1, <2>3
  <2>6. {log'[e].rev : e \in Bumps'} = (order'.rev - Cardinality(Bumps') + 1)..order'.rev
    <3> DEFINE new == {log'[e].rev : e \in Bumps'}
               old == {log[e].rev : e \in Bumps}
    <3>1. /\ new = old \cup {order.rev + 1}
          /\ old = (order.rev - Cardinality(Bumps) + 1)..order.rev
      BY <1>6, <2>4
    <3> HIDE DEF new, old
    <3>2. /\ order.rev \in Nat /\ Cardinality(Bumps) \in Nat
          /\ order'.rev = order.rev + 1 /\ Cardinality(Bumps') = Cardinality(Bumps) + 1
      BY <1>2, <1>5, <2>2, <2>3
    <3>3. new = (order'.rev - Cardinality(Bumps') + 1)..order'.rev
      BY <3>1, <3>2, NextInRange
    <3> QED
      BY <3>3 DEF new
  <2>7. \A e \in Bumps' : log'[e].rev = log'[e].cmd.rev + 1
    BY <1>3, <1>5, <1>6, <2>1, <2>3
  <2> QED
    BY <1>2, <2>3, <2>6, <2>7 DEF NoLostUpdate
<1>8. CASE cmd.kind \notin Bumping
  <2>1. Bumps' = Bumps
    BY <1>3, <1>4, <1>8 DEF Bumps
  <2>2. {log'[e].rev : e \in Bumps'} = {log[e].rev : e \in Bumps}
    BY <1>5, <2>1
  <2>3. \A e \in Bumps' : log'[e].rev = log'[e].cmd.rev + 1
    BY <1>5, <1>6, <2>1
  <2>4. CASE order'.rev = order.rev
    BY <1>6, <2>1, <2>2, <2>3, <2>4 DEF NoLostUpdate
  <2>5. CASE order'.rev # order.rev
    <3>1. order.rev = 0 /\ order'.rev = 1 /\ Bumps = {} /\ Cardinality(Bumps) = 0
      BY <1>2, <1>6, <1>8, <2>5, FS_EmptySet
    <3>2. {log'[e].rev : e \in Bumps'} = (order'.rev - Cardinality(Bumps') + 1)..order'.rev
      BY <2>1, <3>1
    <3> QED
      BY <2>3, <3>1, <3>2 DEF NoLostUpdate
  <2> QED
    BY <2>4, <2>5
<1> QED
  BY <1>7, <1>8

LEMMA Commit_Inv ==
    ASSUME WoInv, NEW n \in 1..Len(call), Commit(n)
    PROVE  WoInv'
<1>1. call[n] \in CallRow /\ Grows(call[n].cmd) /\ 0 \in 0..MaxRev /\ FALSE \in BOOLEAN
  <2>1. call \in Seq(CallRow)
    BY DEF WoInv, WoTypeOK, CallRow
  <2>2. call[n] \in CallRow
    BY <2>1, ElementOfSeq
  <2> QED
    BY <2>2, WoAssumption DEF WoInv
<1>2. CASE Refuse(n)
  BY <1>1, <1>2, Answered DEF Refuse
<1>3. CASE Commits(n)
  <2>1. call[n].cmd \in Command /\ call[n].key \in Key
    BY <1>1 DEF CallRow
  <2>2. NewRev(call[n].cmd) \in 0..MaxRev
    BY <1>1, <1>3, <2>1, CommitRev DEF Commits
  <2>3. /\ order' \in [rev : 0..MaxRev, state : Execution, cert : BOOLEAN]
        /\ asg' \in [Asg -> {"none", "active", "transferred"}] /\ OneActiveAssignment'
        /\ insp' \in [Insp -> [asg : Asg \cup {NoAsg}, final : Final]]
        /\ segment' \subseteq [key : Key, asg : Asg, insp : SUBSET Insp] /\ SubmittedOnce'
    BY <1>1, <1>3, <2>1, CommitOrder, CommitAssignments, CommitSegments DEF Commits
  <2>4. log' \in Seq(LogRow) /\ answers' \subseteq Answers /\ AppliedOnce'
    BY <1>1, <1>3, <2>2, CommitLog
  <2>5. NoLostUpdate' /\ (order'.rev = 0 => Bumps' = {})
    BY <1>1, <1>3, CommitBumps
  <2>6. prov' \in [print : Fingerprint \cup {NoFingerprint}, outcome : Outcome]
    BY <1>3, <2>1, CommandFields DEF Commits, Effect, WoInv, WoTypeOK
  <2>7. call' \in Seq(CallRow) /\ \A m \in 1..Len(call') : Grows(call'[m].cmd)
    BY <1>3, Moves DEF Commits, Answer
  <2>8. WoTypeOK'
    BY <2>3, <2>4, <2>6, <2>7 DEF WoTypeOK, LogRow, CallRow, Answers
  <2> QED
    BY <2>3, <2>4, <2>5, <2>7, <2>8 DEF WoInv
<1> QED
  BY <1>2, <1>3 DEF Commit, Commits

LEMMA WoNext_Inv == WoInv /\ [WoNext]_woVars => WoInv'
<1>1. ASSUME WoInv, UNCHANGED woVars PROVE WoInv'
  BY <1>1, NothingCommitted DEF woVars, WoInv, WoTypeOK, CallRow, Answers
<1> QED
  BY <1>1, Send_Inv, Calls_Inv, Commit_Inv, Inspected_Inv DEF WoNext

LEMMA WoInvAlways == WoSpec => []WoInv
BY WoInit_Inv, WoNext_Inv, PTL DEF WoSpec

(* The rows of the work-order tables, the log and the calls hold values of   *)
(* their types; a revision never passes the bound its commands were made in. *)
THEOREM WoTypeCorrect == WoSpec => []WoTypeOK
BY WoInvAlways, PTL DEF WoInv

(* bumpOrder under the order's lock: no operation is built on a revision      *)
(* other than the one it follows, so no concurrent update is overwritten.    *)
THEOREM NoUpdateIsLost == WoSpec => []NoLostUpdate
BY WoInvAlways, PTL DEF WoInv

(* finishMutation and findReceipt: a key is applied once, and every receipt  *)
(* that was returned for it is the one in the log.                           *)
THEOREM CommandsAppliedOnce == WoSpec => []AppliedOnce
BY WoInvAlways, PTL DEF WoInv

(* submitAssignment: an inspection is submitted when one segment, of its own *)
(* assignment, holds it, and never twice.                                    *)
THEOREM InspectionsSubmittedOnce == WoSpec => []SubmittedOnce
BY WoInvAlways, PTL DEF WoInv

(* AssignScope and ReassignScope: one assignment of the order is active at   *)
(* most, whatever assignments and reassignments race.                        *)
THEOREM AssignmentsExclude == WoSpec => []OneActiveAssignment
BY WoInvAlways, PTL DEF WoInv

-----------------------------------------------------------------------------
(* The records side by side, with the ring.                                 *)

RecordsInv == WoInv /\ CertInv /\ PackInv /\ RingInv

LEMMA RecordsInit_Inv == RecordsInit => RecordsInv
  BY WoInit_Inv, CertInit_Inv, PackInit_Inv, RingInit_Inv DEF RecordsInit, RecordsInv

(* A step of the records is a step of one of them, and leaves the rows of   *)
(* every other as they are.                                                 *)
LEMMA StepsOfOneRecord ==
    ASSUME [RecordsNext]_recordVars
    PROVE  [WoNext]_woVars /\ [CertNext]_certVars /\ [PackNext]_packVars /\ [RingNext]_ringVars
  BY Zenon DEF RecordsNext, Orders, Certificates, Packs, Ring, recordVars

LEMMA RecordsNext_Inv ==
    ASSUME Capacity >= 2, RecordsInv, [RecordsNext]_recordVars
    PROVE  RecordsInv'
  BY StepsOfOneRecord, WoNext_Inv, CertNext_Inv, PackNext_Inv, RingNext_Inv DEF RecordsInv

(* Work orders, certificates, evidence packs and a ring of two cells or     *)
(* more hold values of their types, as they run beside each other.          *)
THEOREM RecordsTypeCorrect == Capacity >= 2 /\ RecordsSpec => []RecordsTypeOK
<1> SUFFICES ASSUME Capacity >= 2 PROVE RecordsSpec => []RecordsTypeOK
  OBVIOUS
<1>1. RecordsInv /\ [RecordsNext]_recordVars => RecordsInv'
  BY RecordsNext_Inv
<1>2. RecordsInv => RecordsTypeOK
  BY CertInv_Types, PackInv_Types DEF RecordsInv, RecordsTypeOK, WoInv, RingInv
<1>3. QED
  BY <1>1, <1>2, RecordsInit_Inv, PTL DEF RecordsSpec
=============================================================================
