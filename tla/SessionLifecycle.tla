-------------------------- MODULE SessionLifecycle --------------------------
(***************************************************************************)
(* Sessions of bearer tokens and their revocation (internal/oidchttp), with*)
(* the PostgreSQL store: the middleware that opens and refreshes sessions, *)
(* the validator that only consults them, the revocation of one token or of*)
(* a subject, and the purge of expired rows.                               *)
(*                                                                         *)
(* Every Get and every Save of the store is a step; Save upserts the whole *)
(* row from what the call has read.  A Get may fail.  Tokens are those of  *)
(* one subject and always pass the signature check and the projection of   *)
(* the membership, which only refuse.  A row is live, then expired (issued *)
(* or last active too long ago), then purgeable (expires_at has passed);   *)
(* hours pass only while no request is under way.                          *)
(***************************************************************************)
EXTENDS Naturals

CONSTANTS
    Token,      \* tokens of the subject
    Request,    \* HTTP requests
    NoToken     \* a request that has not begun

ASSUME TokenAssumption == NoToken \notin Token

VARIABLES
    row,          \* oidc_session_store
    req,          \* the requests
    tombstoned    \* tokens a revocation has committed: overlapped by a refresh or not

sessionVars == <<row, req, tombstoned>>

NoRow == [age |-> "none", revoked |-> FALSE]
Live == [age |-> "live", revoked |-> FALSE]
NotBegun == [op |-> "none", token |-> NoToken, at |-> "done", active |-> FALSE,
             copy |-> NoRow, late |-> FALSE, blind |-> FALSE]

SessionInit ==
    /\ row = [t \in Token |-> NoRow]
    /\ req = [r \in Request |-> NotBegun]
    /\ tombstoned = [t \in Token |-> "no"]

At(r, at) == req[r].at = at /\ req[r].op # "none"
Of(r) == row[req[r].token]
Moves(r, at) == req' = [req EXCEPT ![r].at = at]

\* A request, one of the middleware's, the validator's or the revocation handler's,
\* in the place of one that has ended.
Arrive(r, op, t) ==
    /\ req[r].at \in {"done", "served", "refused"}
    /\ req' = [req EXCEPT ![r] = [NotBegun EXCEPT
                 !.op = op, !.token = t, !.late = tombstoned[t] = "clean",
                 !.at = IF op = "revoke" THEN "load" ELSE "revoked?"]]
    /\ UNCHANGED <<row, tombstoned>>

\* IsRevoked: a failed Get answers false.
IsRevoked(r) ==
    LET next == IF req[r].op = "validate" THEN "known?" ELSE "active?" IN
    /\ At(r, "revoked?")
    /\ \/ Of(r).revoked /\ Moves(r, "refused")
       \/ ~Of(r).revoked /\ Moves(r, next)
       \/ req' = [req EXCEPT ![r] = [@ EXCEPT !.at = next, !.blind = TRUE]]
    /\ UNCHANGED <<row, tombstoned>>

\* IsActive: a failed Get answers false.  It is the middleware's second question
\* and the validator's last.
IsActive(r) ==
    /\ At(r, "active?")
    /\ \E active \in {FALSE, Of(r) = Live} :
         IF req[r].op = "serve"
         THEN req' = [req EXCEPT ![r] = [@ EXCEPT !.at = "known?", !.active = active]]
         ELSE Moves(r, IF active THEN "served" ELSE "refused")
    /\ UNCHANGED <<row, tombstoned>>

\* Known, which a failed Get answers with false too: a session that is known and
\* not active is refused.
Known(r) ==
    /\ At(r, "known?")
    /\ \E known \in {FALSE, Of(r) # NoRow} :
         Moves(r, IF req[r].op = "validate" THEN IF known THEN "active?" ELSE "served"
                  ELSE IF known /\ ~req[r].active THEN "refused" ELSE "load")
    /\ UNCHANGED <<row, tombstoned>>

\* Open's Get: a row that is there, expired ones too, is opened again.
Open(r) ==
    /\ At(r, "load") /\ req[r].op = "serve" /\ ~req[r].active
    /\ \/ ~Of(r).revoked /\ req' = [req EXCEPT ![r] = [@ EXCEPT !.at = "save", !.copy = Live]]
       \/ Moves(r, "refused")
    /\ UNCHANGED <<row, tombstoned>>

\* Touch's Get: within the throttle nothing is written.
Touch(r) ==
    /\ At(r, "load") /\ req[r].op = "serve" /\ req[r].active
    /\ \/ Of(r) = Live /\ req' = [req EXCEPT ![r] = [@ EXCEPT !.at = "save", !.copy = Live]]
       \/ Of(r) = Live /\ Moves(r, "served")
       \/ Moves(r, "refused")
    /\ UNCHANGED <<row, tombstoned>>

\* RevokeSession that tombstones whatever the Get returned.
Revoke_Unknown(r) ==
    /\ At(r, "load") /\ req[r].op = "revoke"
    /\ req' = [req EXCEPT ![r] = [@ EXCEPT !.at = "save", !.copy = [Of(r) EXCEPT !.revoked = TRUE]]]
    /\ UNCHANGED <<row, tombstoned>>

\* RevokeSession's Get: a token without a session is answered as revoked.
Revoke(r) ==
    /\ At(r, "load") /\ req[r].op = "revoke"
    /\ \/ /\ Of(r) # NoRow
          /\ req' = [req EXCEPT ![r] = [@ EXCEPT !.at = "save", !.copy = [Of(r) EXCEPT !.revoked = TRUE]]]
       \/ Moves(r, "done")
    /\ UNCHANGED <<row, tombstoned>>

\* Requests that are about to write what they read before the tombstone.
Overlapped(t) == \E r \in Request : At(r, "save") /\ req[r].token = t /\ ~req[r].copy.revoked

Tombstone(T) ==
    tombstoned' = [t \in Token |->
        IF t \in T THEN IF Overlapped(t) THEN "overlapped" ELSE "clean" ELSE tombstoned[t]]

\* A save that fails, of a refresh or of a revocation.
SaveFails(r) ==
    /\ At(r, "save")
    /\ Moves(r, "refused")
    /\ UNCHANGED <<row, tombstoned>>

\* Save, the upsert of Open, Touch and RevokeSession.
Save(r) ==
    LET t == req[r].token
        revokes == req[r].op = "revoke" IN
    /\ At(r, "save")
    /\ row' = [row EXCEPT ![t] = req[r].copy]
    /\ Moves(r, IF revokes THEN "done" ELSE "served")
    /\ IF revokes THEN Tombstone({t}) ELSE UNCHANGED tombstoned

\* RevokeSubject: one statement for the rows of the subject.
RevokeSubject ==
    LET unrevoked == {t \in Token : row[t] # NoRow /\ ~row[t].revoked} IN
    /\ row' = [t \in Token |-> IF t \in unrevoked THEN [row[t] EXCEPT !.revoked = TRUE] ELSE row[t]]
    /\ Tombstone(unrevoked)
    /\ UNCHANGED req

\* A purge of every row that is past its time.
PurgeExpired_Tombstones ==
    /\ \E t \in Token : row[t].age = "purgeable"
    /\ row' = [t \in Token |-> IF row[t].age = "purgeable" THEN NoRow ELSE row[t]]
    /\ UNCHANGED <<req, tombstoned>>

\* PurgeExpired keeps the tombstones.
PurgeExpired ==
    /\ \E t \in Token : row[t].age = "purgeable" /\ ~row[t].revoked
    /\ row' = [t \in Token |->
                 IF row[t].age = "purgeable" /\ ~row[t].revoked THEN NoRow ELSE row[t]]
    /\ UNCHANGED <<req, tombstoned>>

\* Hours pass.
Age(t) ==
    /\ \A r \in Request : req[r].at \in {"done", "served", "refused"}
    /\ row[t].age \in {"live", "expired"}
    /\ row' = [row EXCEPT ![t].age = IF @ = "live" THEN "expired" ELSE "purgeable"]
    /\ UNCHANGED <<req, tombstoned>>

SessionStep(r) ==
    \/ \E op \in {"serve", "validate", "revoke"}, t \in Token : Arrive(r, op, t)
    \/ IsRevoked(r) \/ IsActive(r) \/ Known(r)
    \/ Open(r) \/ Touch(r) \/ Revoke(r) \/ Save(r) \/ SaveFails(r)

SessionNext ==
    \/ RevokeSubject \/ PurgeExpired
    \/ \E t \in Token : Age(t)
    \/ \E r \in Request : SessionStep(r)

SessionSpec == SessionInit /\ [][SessionNext]_sessionVars

SessionRow == [age : {"none", "live", "expired", "purgeable"}, revoked : BOOLEAN]
SessionRequest ==
    [op : {"none", "serve", "validate", "revoke"}, token : Token \cup {NoToken},
     at : {"revoked?", "active?", "known?", "load", "save", "served", "refused", "done"},
     active : BOOLEAN, copy : SessionRow, late : BOOLEAN, blind : BOOLEAN]

\* Rows and requests hold values of their types; only an existing row is revoked.
SessionTypeOK ==
    /\ row \in [Token -> SessionRow]
    /\ \A t \in Token : row[t].revoked => row[t].age # "none"
    /\ req \in [Request -> SessionRequest]
    /\ tombstoned \in [Token -> {"no", "clean", "overlapped"}]

\* session_store.go, PurgeExpired: "Revoked tombstones are retained".  A tombstone
\* that no refresh overlapped outlives refreshes, expiry, purges and restarts.
TombstoneKept == \A t \in Token : tombstoned[t] = "clean" => row[t].revoked

\* session_auth.go, SessionAwareValidator: "any consumer of TokenValidator fails
\* closed if the session is revoked".  Of the requests that begin once the
\* tombstone is there, the middleware serves none although it reads the row again
\* at every step and may fail to, and the validator only one whose read failed.
RevokedIsRefused ==
    \A r \in Request : At(r, "served") /\ req[r].late => req[r].op = "validate" /\ req[r].blind
=============================================================================
