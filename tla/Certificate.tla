---------------------------- MODULE Certificate ----------------------------
(***************************************************************************)
(* The certificate lifecycle (internal/certificatepg): drafts of an        *)
(* asset's inspections, their review, signature and issue under a number   *)
(* of the organization's sequence, and their end by expiry, revocation or  *)
(* supersession, with the audit events each transaction inserts.           *)
(*                                                                         *)
(* A transaction is one step: it locks the certificate in the state it     *)
(* expects.  Two are more: Attest reads the status without a lock, and     *)
(* Issue holds the row of the sequence, with the number it drew, until it  *)
(* commits or the timestamp authority fails it.  Who may act (capability,  *)
(* profile, evidence of a signature) only refuses and is left out, and so  *)
(* are the snapshots.  Time is left out: a certificate may expire at any   *)
(* moment after its issue.                                                 *)
(***************************************************************************)
EXTENDS Naturals, FiniteSets

CONSTANTS
    Cert,         \* certificates
    Inspection,   \* inspections, with one revision each
    AssetOf,      \* the asset of an inspection
    NoCert        \* NULL

ASSUME CertAssumption ==
    NoCert \notin Cert /\ IsFiniteSet(Cert) /\ Inspection # {}

VARIABLES
    cert,         \* certificate_record
    nextValue,    \* certificate_number_sequence.next_value
    issuing,      \* Issue transactions that hold the sequence
    attesting,    \* Attest transactions that have read the status
    audit         \* certificate_audit_event: the actions of each certificate

certVars == <<cert, nextValue, issuing, attesting, audit>>

Active == {"DRAFT", "PENDING_REVIEW", "APPROVED", "SIGNED", "ISSUED", "EXPIRED"}
Status == Active \cup {"none", "REVOKED", "SUPERSEDED"}
Action == {"DRAFT_CREATED", "ATTESTED", "REVIEWED", "SIGNED", "SIGN_WAIVED", "ISSUED",
           "EXPIRED", "REVOKED", "SUPERSEDED"}

NoRow == [status |-> "none", insp |-> CHOOSE i \in Inspection : TRUE, number |-> 0,
          supersedes |-> NoCert, supersededBy |-> NoCert]

CertTypeOK ==
    /\ cert \in [Cert -> [status : Status, insp : Inspection, number : 0..Cardinality(Cert),
                          supersedes : Cert \cup {NoCert}, supersededBy : Cert \cup {NoCert}]]
    /\ nextValue \in 1..(Cardinality(Cert) + 1)
    /\ issuing \subseteq Cert /\ Cardinality(issuing) <= 1
    /\ attesting \subseteq Cert
    /\ audit \in [Cert -> SUBSET Action]

CertInit ==
    /\ cert = [c \in Cert |-> NoRow]
    /\ nextValue = 1 /\ issuing = {} /\ attesting = {}
    /\ audit = [c \in Cert |-> {}]

-----------------------------------------------------------------------------
Records(c, action) == audit' = [audit EXCEPT ![c] = @ \cup {action}]

(* CreateDraft; a unique index allows one active certificate an inspection.   *)
CreateDraft(c, i) ==
    /\ cert[c].status = "none"
    /\ \A d \in Cert : cert[d].insp = i => cert[d].status \notin Active
    /\ cert' = [cert EXCEPT ![c] = [NoRow EXCEPT !.status = "DRAFT", !.insp = i]]
    /\ Records(c, "DRAFT_CREATED")
    /\ UNCHANGED <<nextValue, issuing, attesting>>

Submit(c) ==
    /\ cert[c].status = "DRAFT"
    /\ cert' = [cert EXCEPT ![c].status = "PENDING_REVIEW"]
    /\ UNCHANGED <<nextValue, issuing, attesting, audit>>

(* A transaction waits for the one that has locked the certificate.           *)
Transition(c, from, to, action) ==
    /\ cert[c].status \in from /\ c \notin issuing
    /\ cert' = [cert EXCEPT ![c].status = to]
    /\ Records(c, action)
    /\ UNCHANGED <<nextValue, issuing, attesting>>

Review(c)    == Transition(c, {"PENDING_REVIEW"}, "APPROVED", "REVIEWED")
Sign(c)      == Transition(c, {"APPROVED"}, "SIGNED", "SIGNED")
WaiveSign(c) == Transition(c, {"APPROVED"}, "SIGNED", "SIGN_WAIVED")

Revoke(c)    == Transition(c, {"ISSUED", "EXPIRED"}, "REVOKED", "REVOKED")
Expire(c)    == Transition(c, {"ISSUED"}, "EXPIRED", "EXPIRED")

(* Attest reads the status, and inserts the event whatever became of it.      *)
AttestRead(c) ==
    /\ cert[c].status \in {"DRAFT", "PENDING_REVIEW", "APPROVED"}
    /\ attesting' = attesting \cup {c}
    /\ UNCHANGED <<cert, nextValue, issuing, audit>>
AttestCommit(c) ==
    /\ c \in attesting
    /\ attesting' = attesting \ {c}
    /\ Records(c, "ATTESTED")
    /\ UNCHANGED <<cert, nextValue, issuing>>

(* Issue: the number is drawn in the transaction, which may yet fail.         *)
IssueBegin(c) ==
    /\ cert[c].status = "SIGNED" /\ issuing = {}
    /\ issuing' = {c}
    /\ UNCHANGED <<cert, nextValue, attesting, audit>>
IssueCommit(c) ==
    /\ c \in issuing
    /\ issuing' = {}
    /\ cert' = [cert EXCEPT ![c] = [@ EXCEPT !.status = "ISSUED", !.number = nextValue]]
    /\ nextValue' = nextValue + 1
    /\ Records(c, "ISSUED")
    /\ UNCHANGED attesting
IssueFails_DrawsNumber(c) ==
    /\ c \in issuing
    /\ issuing' = {}
    /\ nextValue' = nextValue + 1
    /\ UNCHANGED <<cert, attesting, audit>>
IssueFails(c) ==
    /\ c \in issuing
    /\ issuing' = {}
    /\ UNCHANGED <<cert, nextValue, attesting, audit>>

(* Supersede: the original, then its replacement, in one transaction.         *)
Replaces_Anyone(d, c) ==
    /\ AssetOf[cert[d].insp] = AssetOf[cert[c].insp]
    /\ cert[d].status = "ISSUED"
Replaces(d, c) ==
    /\ AssetOf[cert[d].insp] = AssetOf[cert[c].insp]
    /\ cert[d].status = "ISSUED" /\ cert[d].supersedes = NoCert

Supersede(c, d) ==
    /\ c # d /\ cert[c].status \in {"ISSUED", "EXPIRED"} /\ Replaces(d, c)
    /\ cert' = [cert EXCEPT ![c] = [@ EXCEPT !.status = "SUPERSEDED", !.supersededBy = d],
                            ![d].supersedes = c]
    /\ Records(c, "SUPERSEDED")
    /\ UNCHANGED <<nextValue, issuing, attesting>>

CertNext ==
    \/ \E c \in Cert, i \in Inspection : CreateDraft(c, i)
    \/ \E c \in Cert :
        \/ Submit(c) \/ Review(c) \/ Sign(c) \/ WaiveSign(c)
        \/ AttestRead(c) \/ AttestCommit(c)
        \/ IssueBegin(c) \/ IssueCommit(c) \/ IssueFails(c)
        \/ Revoke(c) \/ Expire(c)
    \/ \E c, d \in Cert : Supersede(c, d)

CertSpec == CertInit /\ [][CertNext]_certVars

-----------------------------------------------------------------------------
(* allocateNumber in the transaction of the issue: the certificates ever      *)
(* issued carry exactly the numbers drawn, each once, and none is skipped     *)
(* because an issue failed.                                                   *)
NumbersAreGapless ==
    /\ {cert[c].number : c \in Cert} \ {0} = 1..(nextValue - 1)
    /\ \A c, d \in Cert : c # d /\ cert[c].number = cert[d].number => cert[c].number = 0

(* The links of Supersede agree in both directions, so each certificate has   *)
(* one predecessor and one successor at most, only superseded certificates    *)
(* have a successor, and a successor was issued for the same asset: from any  *)
(* certificate of an asset the links lead to one that nothing superseded.     *)
SupersessionIsLinear ==
    \A c, d \in Cert :
        /\ cert[c].supersededBy = d <=> cert[d].supersedes = c
        /\ cert[c].supersededBy = d =>
             /\ cert[c].status = "SUPERSEDED" /\ cert[d].number # 0 /\ c # d
             /\ AssetOf[cert[c].insp] = AssetOf[cert[d].insp]

(* Each transaction inserts its event: the events of a certificate tell its   *)
(* state, and its end is told once.                                           *)
EndsOf(c) == audit[c] \cap {"REVOKED", "SUPERSEDED"}
AuditTellsStatus ==
    \A c \in Cert :
        /\ "ISSUED" \in audit[c] <=> cert[c].number # 0
        /\ cert[c].status \in {"REVOKED", "SUPERSEDED"} => EndsOf(c) = {cert[c].status}
        /\ cert[c].status \in Active => EndsOf(c) = {}
        /\ cert[c].number # 0 => Cardinality(audit[c] \cap {"SIGNED", "SIGN_WAIVED"}) = 1

(* The links between certificates and the events of each tell one history.    *)
CertificateHistory == SupersessionIsLinear /\ AuditTellsStatus
=============================================================================
