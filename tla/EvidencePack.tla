---------------------------- MODULE EvidencePack ----------------------------
(***************************************************************************)
(* Evidence packs and the ledger of their releases (internal/evidencepackpg*)
(* behind internal/evidencepackhttp): a pack is drafted and sealed, and a  *)
(* release of it to a recipient is requested, approved and released.       *)
(*                                                                         *)
(* UpdateStatus loads the row without a lock, compares its revision and    *)
(* its status in memory, and writes it back by its id alone: the load and  *)
(* the write, with its commit, are the two steps of a call.  The row       *)
(* carries a revision, and the client the one it expects.  A refused call  *)
(* changes nothing and is left out, and so are records, checksums and      *)
(* privacy attributes; a pack's row is its status and revision.            *)
(***************************************************************************)
EXTENDS Naturals

CONSTANTS
    Pack, Release,  \* rows of the two tables
    Editor,         \* requests that change a status, each by an actor of its own
    MaxRevision,    \* bound on the revisions
    Nobody          \* NULL, of an actor or a request

\* The identifiers are UUIDs: a row of one table is no row of the other, nor NULL.
ASSUME PackAssumption ==
    /\ Nobody \notin Editor \cup Pack \cup Release /\ Pack \cap Release = {}
    /\ MaxRevision \in Nat \ {0, 1}

VARIABLES
    packs,      \* evidence_pack
    releases,   \* release_pack
    editing     \* what each request has loaded, and the status it will write

packVars == <<packs, releases, editing>>

PackStatus == {"DRAFT", "SEALED", "RELEASED", "SUPERSEDED"}
ReleaseStatus == {"PENDING", "APPROVED", "RELEASED", "SUPERSEDED"}

NoPack == [status |-> "none", revision |-> 0]
NoRelease == [status |-> "none", revision |-> 0, pack |-> Nobody,
              approvedBy |-> Nobody, releasedBy |-> Nobody]
NotEditing == [of |-> Nobody, row |-> NoPack, target |-> "none"]

PackInit ==
    /\ packs = [p \in Pack |-> NoPack]
    /\ releases = [r \in Release |-> NoRelease]
    /\ editing = [e \in Editor |-> NotEditing]

\* Create, with the status of the request's body.
CreatePack(p) ==
    /\ packs[p].status = "none"
    /\ \E s \in PackStatus : packs' = [packs EXCEPT ![p] = [status |-> s, revision |-> 1]]
    /\ UNCHANGED <<releases, editing>>

\* A release without its first revision.
CreateRelease_Unnumbered(r) ==
    /\ releases[r].status = "none"
    /\ \E p \in Pack :
         /\ packs[p].status # "none"
         /\ releases' = [releases EXCEPT ![r] = [NoRelease EXCEPT !.status = "PENDING", !.pack = p]]
    /\ UNCHANGED <<packs, editing>>

\* Create: the foreign key wants the pack, whatever its status; the checks of
\* the table refuse an approval or a release that names nobody.
CreateRelease(r) ==
    /\ releases[r].status = "none"
    /\ \E p \in Pack, s \in {"PENDING", "SUPERSEDED"} :
         /\ packs[p].status # "none"
         /\ releases' = [releases EXCEPT ![r] =
                           [NoRelease EXCEPT !.status = s, !.revision = 1, !.pack = p]]
    /\ UNCHANGED <<packs, editing>>

\* Transitions that ask only whether the status is the last one.
CanRelease_UnlessTerminal(from, to) == from \notin {"RELEASED", "SUPERSEDED"}

\* ReleasePack.CanTransitionTo, for the targets the routes ask for.
CanRelease(from, to) == <<from, to>> \in {<<"PENDING", "APPROVED">>, <<"APPROVED", "RELEASED">>}

\* UpdateStatus up to its write: the revision the client expects is the row's.
LoadPack(e, p) ==
    /\ editing[e] = NotEditing
    /\ packs[p].status = "DRAFT"
    /\ editing' = [editing EXCEPT ![e] = [of |-> p, row |-> packs[p], target |-> "SEALED"]]
    /\ UNCHANGED <<packs, releases>>

LoadRelease(e, r) ==
    /\ editing[e] = NotEditing
    /\ releases[r].revision \in 1..(MaxRevision - 1)
    /\ \E to \in ReleaseStatus :
         /\ CanRelease(releases[r].status, to)
         /\ editing' = [editing EXCEPT ![e] = [of |-> r, row |-> releases[r], target |-> to]]
    /\ UNCHANGED <<packs, releases>>

\* savePack writes what was loaded over what is there.
SavePack(e) ==
    LET m == editing[e] IN
    /\ m.of \in Pack
    /\ packs' = [packs EXCEPT ![m.of] = [status |-> m.target, revision |-> m.row.revision + 1]]
    /\ editing' = [editing EXCEPT ![e] = NotEditing]
    /\ UNCHANGED releases

\* saveRelease, which writes every column that was loaded.
SaveRelease(e) ==
    LET m == editing[e] IN
    /\ m.of \in Release
    /\ releases' = [releases EXCEPT ![m.of] =
         [m.row EXCEPT !.status = m.target,
                       !.revision = @ + 1,
                       !.approvedBy = IF m.target = "APPROVED" THEN e ELSE @,
                       !.releasedBy = IF m.target = "RELEASED" THEN e ELSE @]]
    /\ editing' = [editing EXCEPT ![e] = NotEditing]
    /\ UNCHANGED packs

\* The request's context ends before it commits.
Abandon(e) ==
    /\ editing[e] # NotEditing
    /\ editing' = [editing EXCEPT ![e] = NotEditing]
    /\ UNCHANGED <<packs, releases>>

PackNext ==
    \/ \E p \in Pack : CreatePack(p) \/ \E e \in Editor : LoadPack(e, p)
    \/ \E r \in Release : CreateRelease(r) \/ \E e \in Editor : LoadRelease(e, r)
    \/ \E e \in Editor : SavePack(e) \/ SaveRelease(e) \/ Abandon(e)

PackSpec == PackInit /\ [][PackNext]_packVars

\* Rows hold values of their types, and a row that exists a revision of its own.
PackTypeOK ==
    /\ packs \in [Pack -> [status : PackStatus \cup {"none"}, revision : 0..MaxRevision]]
    /\ releases \in [Release ->
         [status : ReleaseStatus \cup {"none"}, revision : 0..MaxRevision,
          pack : Pack \cup {Nobody}, approvedBy : Editor \cup {Nobody},
          releasedBy : Editor \cup {Nobody}]]
    /\ \A r \in Release : releases[r].status # "none" => releases[r].revision > 0
    /\ DOMAIN editing = Editor

\* evidencepack.go, CanTransitionTo and Validate: nothing is released that nobody
\* approved, although approvals and releases overwrite each other's rows.
ApprovedBeforeRelease ==
    \A r \in Release :
        /\ releases[r].status = "RELEASED" => releases[r].approvedBy # Nobody
        /\ releases[r].releasedBy # Nobody => releases[r].status = "RELEASED"

\* evidencepack.go: "RELEASED can only transition to SUPERSEDED".
ReleasedIsFinal ==
    [][\A r \in Release : releases[r].status = "RELEASED" =>
                            releases'[r].status \in {"RELEASED", "SUPERSEDED"}]_packVars
=============================================================================
