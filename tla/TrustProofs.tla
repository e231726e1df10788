---------------------------- MODULE TrustProofs ----------------------------
(***************************************************************************)
(* What revocation withdraws: of a session, for any number of tokens and   *)
(* of requests; of a device, for any number of enrolment requests and of   *)
(* concurrent calls of the handlers, failed and crashed ones included.     *)
(* And the type invariant of the services that run side by side.           *)
(***************************************************************************)
EXTENDS MCServices, UploadLeaseProofs, LockFreeProofs

-----------------------------------------------------------------------------
(* Sessions.                                                                *)

Clean(t) == tombstoned[t] = "clean"

(* A request that came after the tombstone: the middleware has not taken    *)
(* its session for active, and the validator's read failed wherever it is   *)
(* past the first question.                                                 *)
CameLate(q) ==
    /\ q.token \in Token /\ Clean(q.token)
    /\ q.op = "serve" =>
         /\ q.at \notin {"save", "served"}
         /\ q.at \in {"known?", "load"} => q.active = FALSE
    /\ q.op = "validate" /\ q.at \in {"known?", "active?", "served"} => q.blind = TRUE

(* What a request may be: what it is about to write carries the tombstone   *)
(* where it is a revocation or where the tombstone is committed.            *)
Fits(q) ==
    /\ q.op # "none" => q.token \in Token
    /\ q.at = "save" =>
         /\ q.copy.age # "none"
         /\ q.op \in {"serve", "revoke"}
         /\ q.op = "revoke" \/ Clean(q.token) => q.copy.revoked = TRUE
    /\ q.op = "revoke" => q.at \in {"load", "save", "refused", "done"}
    /\ q.op = "validate" => q.at \notin {"load", "save"}
    /\ q.late = TRUE => CameLate(q)

TombstonesHold == \A t \in Token : Clean(t) => row[t].revoked = TRUE

SessionInv ==
    /\ SessionTypeOK
    /\ TombstonesHold
    /\ \A r \in Request : Fits(req[r])

LEMMA SessionInit_Inv == SessionInit => SessionInv
<1> SUFFICES ASSUME SessionInit PROVE SessionInv
  OBVIOUS
<1>1. NoRow \in SessionRow /\ NotBegun \in SessionRequest
  BY DEF NoRow, NotBegun, SessionRow, SessionRequest
<1>2. SessionTypeOK
  BY <1>1 DEF SessionInit, SessionTypeOK, NoRow
<1>3. TombstonesHold
  BY DEF SessionInit, TombstonesHold, Clean
<1>4. Fits(NotBegun)
  BY DEF Fits, NotBegun
<1>5. \A r \in Request : Fits(req[r])
  BY <1>4 DEF SessionInit
<1>6. QED
  BY <1>2, <1>3, <1>5 DEF SessionInv

(* A request that has begun is about a token, whose row it may read.        *)
LEMMA RequestReads ==
    ASSUME SessionInv, NEW r \in Request
    PROVE  /\ req[r] \in SessionRequest /\ Fits(req[r])
           /\ req[r].op # "none" => Of(r) \in SessionRow
  BY DEF SessionInv, SessionTypeOK, Fits, Of

(* A step that only moves one request, to what a request may be.            *)
LEMMA OneRequestMoves ==
    ASSUME SessionInv, NEW r \in Request, NEW q \in SessionRequest, Fits(q),
           req' = [req EXCEPT ![r] = q], UNCHANGED <<row, tombstoned>>
    PROVE  SessionInv'
<1>1. SessionTypeOK'
  BY DEF SessionInv, SessionTypeOK
<1>2. TombstonesHold'
  BY DEF SessionInv, TombstonesHold, Clean
<1>3. \A p \in Request : req'[p] = IF p = r THEN q ELSE req[p]
  BY DEF SessionInv, SessionTypeOK
<1>4. \A p \in Request : Fits(req'[p])
  BY <1>3 DEF SessionInv
<1>5. \A p \in Request : Fits(req[p])'
  BY <1>4 DEF Fits, CameLate, Clean
<1>6. QED
  BY <1>1, <1>2, <1>5 DEF SessionInv

(* At a token with the tombstone nothing is live.                           *)
LEMMA RevokedIsNotLive ==
    ASSUME SessionInv, NEW t \in Token, Clean(t)
    PROVE  row[t].revoked = TRUE /\ row[t] # Live
  BY DEF SessionInv, TombstonesHold, Live

(* A row that is there has an age.                                          *)
LEMMA RowIsThere ==
    ASSUME NEW x \in SessionRow, x # NoRow, x.revoked => x.age # "none"
    PROVE  x.age # "none"
<1>1. CASE x.revoked
  BY <1>1
<1>2. CASE ~(x.revoked)
  BY <1>2, SMT DEF SessionRow, NoRow
<1>3. QED
  BY <1>1, <1>2

LEMMA Arrive_Inv ==
    ASSUME SessionInv, NEW r \in Request, NEW t \in Token,
           NEW kind \in {"serve", "validate", "revoke"}, Arrive(r, kind, t)
    PROVE  SessionInv'
<1>1. PICK late \in BOOLEAN : late = (tombstoned[t] = "clean")
  BY Zenon
<1>2. PICK next : next = IF kind = "revoke" THEN "load" ELSE "revoked?"
  OBVIOUS
<1>3. \/ kind = "revoke" /\ next = "load"
      \/ kind \in {"serve", "validate"} /\ next = "revoked?"
  BY <1>2
<1> DEFINE q == [NotBegun EXCEPT !.op = kind, !.token = t, !.late = late, !.at = next]
<1>4. req' = [req EXCEPT ![r] = q]
  BY <1>1, <1>2, Zenon DEF Arrive
<1>5. NotBegun \in SessionRequest
  BY DEF NoRow, NotBegun, SessionRow, SessionRequest
<1>6. q \in SessionRequest
  BY <1>3, <1>5, Zenon DEF SessionRequest
<1>7. late = TRUE => Clean(t)
  BY <1>1, Zenon DEF Clean
<1>8. Fits(q)
  BY <1>3, <1>7, SMT DEF Fits, CameLate, NotBegun
<1>9. QED
  BY <1>4, <1>6, <1>8, OneRequestMoves DEF Arrive

(* A step that changes only where a request is.                             *)
LEMMA OnlyMoves ==
    ASSUME SessionInv, NEW r \in Request, UNCHANGED <<row, tombstoned>>,
           NEW next \in {"revoked?", "active?", "known?", "load", "save", "served", "refused", "done"},
           Moves(r, next), Fits([req[r] EXCEPT !.at = next])
    PROVE  SessionInv'
<1> DEFINE q == [req[r] EXCEPT !.at = next]
<1>1. req[r] \in SessionRequest
  BY RequestReads
<1>2. q \in SessionRequest
  BY <1>1, Zenon DEF SessionRequest
<1>3. QED
  BY <1>2, OneRequestMoves DEF Moves

LEMMA IsRevoked_Inv ==
    ASSUME SessionInv, NEW r \in Request, IsRevoked(r)
    PROVE  SessionInv'
<1>1. PICK next : next = IF req[r].op = "validate" THEN "known?" ELSE "active?"
  OBVIOUS
<1>2. \/ next = "known?" /\ req[r].op = "validate"
      \/ next = "active?" /\ req[r].op # "validate"
  BY <1>1
<1>3. At(r, "revoked?") /\ UNCHANGED <<row, tombstoned>>
  BY DEF IsRevoked
<1>4. req[r] \in SessionRequest /\ Fits(req[r])
  BY RequestReads
<1>5. CASE Moves(r, "refused")
  <2>1. Fits([req[r] EXCEPT !.at = "refused"])
    BY <1>3, <1>4, SMT DEF At, SessionRequest, Fits, CameLate
  <2>2. QED
    BY <1>3, <1>5, <2>1, OnlyMoves
<1>6. CASE ~(Of(r).revoked) /\ Moves(r, next)
  <2>1. ~Clean(req[r].token)
    BY <1>3, <1>4, <1>6, RevokedIsNotLive DEF At, Of, Fits
  <2>2. Fits([req[r] EXCEPT !.at = next])
    BY <1>2, <1>3, <1>4, <2>1, SMT DEF At, SessionRequest, Fits, CameLate
  <2>3. QED
    BY <1>2, <1>3, <1>6, <2>2, OnlyMoves
<1>7. CASE req' = [req EXCEPT ![r] = [@ EXCEPT !.at = next, !.blind = TRUE]]
  <2> DEFINE q == [req[r] EXCEPT !.at = next, !.blind = TRUE]
  <2>1. q \in SessionRequest
    BY <1>2, <1>4, Zenon DEF SessionRequest
  <2>2. Fits(q)
    BY <1>2, <1>3, <1>4, SMT DEF At, SessionRequest, Fits, CameLate
  <2>3. QED
    BY <1>3, <1>7, <2>1, <2>2, OneRequestMoves
<1>8. QED
  BY <1>1, <1>5, <1>6, <1>7, Zenon DEF IsRevoked

LEMMA IsActive_Inv ==
    ASSUME SessionInv, NEW r \in Request, IsActive(r)
    PROVE  SessionInv'
<1>1. At(r, "active?") /\ UNCHANGED <<row, tombstoned>>
  BY DEF IsActive
<1>2. req[r] \in SessionRequest /\ Fits(req[r])
  BY RequestReads
<1>3. PICK active \in {FALSE, Of(r) = Live} :
          IF req[r].op = "serve"
          THEN req' = [req EXCEPT ![r] = [@ EXCEPT !.at = "known?", !.active = active]]
          ELSE Moves(r, IF active THEN "served" ELSE "refused")
  BY Zenon DEF IsActive
<1>4. req[r].late = TRUE => Of(r) # Live
  BY <1>2, RevokedIsNotLive DEF Of, Fits, CameLate
<1>5. active \in BOOLEAN /\ (req[r].late = TRUE => active = FALSE)
  <2>1. CASE active = FALSE
    BY <2>1
  <2>2. CASE active = (Of(r) = Live)
    BY <1>4, <2>2, Zenon
  <2>3. QED
    BY <1>3, <2>1, <2>2, Zenon
<1>6. CASE req[r].op = "serve"
  <2> DEFINE q == [req[r] EXCEPT !.at = "known?", !.active = active]
  <2>1. q \in SessionRequest
    BY <1>2, <1>5, Zenon DEF SessionRequest
  <2>2. Fits(q)
    BY <1>1, <1>2, <1>5, <1>6, SMT DEF At, SessionRequest, Fits, CameLate
  <2>3. req' = [req EXCEPT ![r] = q]
    BY <1>3, <1>6, Zenon
  <2>4. QED
    BY <1>1, <2>1, <2>2, <2>3, OneRequestMoves
<1>7. CASE req[r].op # "serve"
  <2>1. PICK next \in {"served", "refused"} : Moves(r, next)
    BY <1>3, <1>7, Zenon
  <2>2. Fits([req[r] EXCEPT !.at = next])
    BY <1>1, <1>2, <1>7, SMT DEF At, SessionRequest, Fits, CameLate
  <2>3. QED
    BY <1>1, <2>1, <2>2, OnlyMoves
<1>8. QED
  BY <1>6, <1>7

LEMMA Known_Inv ==
    ASSUME SessionInv, NEW r \in Request, Known(r)
    PROVE  SessionInv'
<1>1. At(r, "known?") /\ UNCHANGED <<row, tombstoned>>
  BY DEF Known
<1>2. req[r] \in SessionRequest /\ Fits(req[r])
  BY RequestReads
<1>3. CASE req[r].op = "validate"
  <2>1. PICK next \in {"active?", "served"} : Moves(r, next)
    BY <1>3, Zenon DEF Known
  <2>2. Fits([req[r] EXCEPT !.at = next])
    BY <1>1, <1>2, <1>3, SMT DEF At, SessionRequest, Fits, CameLate
  <2>3. QED
    BY <1>1, <2>1, <2>2, OnlyMoves
<1>4. CASE req[r].op # "validate"
  <2>1. PICK next \in {"refused", "load"} : Moves(r, next)
    BY <1>4, Zenon DEF Known
  <2>2. Fits([req[r] EXCEPT !.at = next])
    BY <1>1, <1>2, <1>4, SMT DEF At, SessionRequest, Fits, CameLate
  <2>3. QED
    BY <1>1, <2>1, <2>2, OnlyMoves
<1>5. QED
  BY <1>3, <1>4

(* Open and Touch write a live row only where no tombstone was read, so     *)
(* that none was committed without an overlap.                              *)
LEMMA Refresh_Inv ==
    ASSUME SessionInv, NEW r \in Request, UNCHANGED <<row, tombstoned>>,
           At(r, "load"), req[r].op = "serve", ~Clean(req[r].token),
           req' = [req EXCEPT ![r] = [@ EXCEPT !.at = "save", !.copy = Live]]
    PROVE  SessionInv'
<1> DEFINE q == [req[r] EXCEPT !.at = "save", !.copy = Live]
<1>1. req[r] \in SessionRequest /\ Fits(req[r])
  BY RequestReads
<1>2. Live \in SessionRow /\ Live.age # "none"
  BY DEF Live, SessionRow
<1>3. q \in SessionRequest
  BY <1>1, <1>2, Zenon DEF SessionRequest
<1>4. Fits(q)
  BY <1>1, <1>2, SMT DEF SessionRequest, Fits, CameLate
<1>5. QED
  BY <1>3, <1>4, OneRequestMoves

LEMMA Open_Inv ==
    ASSUME SessionInv, NEW r \in Request, Open(r)
    PROVE  SessionInv'
<1>1. At(r, "load") /\ req[r].op = "serve" /\ UNCHANGED <<row, tombstoned>>
  BY DEF Open
<1>2. req[r] \in SessionRequest /\ Fits(req[r])
  BY RequestReads
<1>3. CASE Moves(r, "refused")
  <2>1. Fits([req[r] EXCEPT !.at = "refused"])
    BY <1>1, <1>2, SMT DEF At, SessionRequest, Fits, CameLate
  <2>2. QED
    BY <1>1, <1>3, <2>1, OnlyMoves
<1>4. CASE ~(Of(r).revoked) /\ req' = [req EXCEPT ![r] = [@ EXCEPT !.at = "save", !.copy = Live]]
  <2>1. ~Clean(req[r].token)
    BY <1>1, <1>2, <1>4, RevokedIsNotLive DEF Of, Fits
  <2>2. QED
    BY <1>1, <1>4, <2>1, Refresh_Inv
<1>5. QED
  BY <1>3, <1>4 DEF Open

LEMMA Touch_Inv ==
    ASSUME SessionInv, NEW r \in Request, Touch(r)
    PROVE  SessionInv'
<1>1. At(r, "load") /\ req[r].op = "serve" /\ UNCHANGED <<row, tombstoned>>
  BY DEF Touch
<1>2. req[r] \in SessionRequest /\ Fits(req[r])
  BY RequestReads
<1>3. CASE Moves(r, "refused")
  <2>1. Fits([req[r] EXCEPT !.at = "refused"])
    BY <1>1, <1>2, SMT DEF At, SessionRequest, Fits, CameLate
  <2>2. QED
    BY <1>1, <1>3, <2>1, OnlyMoves
<1>4. CASE Of(r) = Live /\ ~Moves(r, "refused")
  <2>1. ~Clean(req[r].token)
    BY <1>1, <1>2, <1>4, RevokedIsNotLive DEF Of, Fits
  <2>2. CASE req' = [req EXCEPT ![r] = [@ EXCEPT !.at = "save", !.copy = Live]]
    BY <1>1, <2>1, <2>2, Refresh_Inv
  <2>3. CASE Moves(r, "served")
    <3>1. Fits([req[r] EXCEPT !.at = "served"])
      BY <1>1, <1>2, <2>1, SMT DEF At, SessionRequest, Fits, CameLate
    <3>2. QED
      BY <1>1, <2>3, <3>1, OnlyMoves
  <2>4. QED
    BY <1>4, <2>2, <2>3 DEF Touch
<1>5. QED
  BY <1>3, <1>4 DEF Touch

LEMMA Revoke_Inv ==
    ASSUME SessionInv, NEW r \in Request, Revoke(r)
    PROVE  SessionInv'
<1>1. At(r, "load") /\ req[r].op = "revoke" /\ UNCHANGED <<row, tombstoned>>
  BY DEF Revoke
<1>2. req[r] \in SessionRequest /\ Fits(req[r]) /\ Of(r) \in SessionRow
  BY <1>1, RequestReads
<1>3. CASE Moves(r, "done")
  <2>1. Fits([req[r] EXCEPT !.at = "done"])
    BY <1>1, <1>2, SMT DEF At, SessionRequest, Fits, CameLate
  <2>2. QED
    BY <1>1, <1>3, <2>1, OnlyMoves
<1>4. CASE /\ Of(r) # NoRow
           /\ req' = [req EXCEPT ![r] = [@ EXCEPT !.at = "save",
                                                  !.copy = [Of(r) EXCEPT !.revoked = TRUE]]]
  <2>1. PICK copy : copy = [Of(r) EXCEPT !.revoked = TRUE]
    OBVIOUS
  <2>2. copy \in SessionRow
    BY <1>2, <2>1, Zenon DEF SessionRow
  <2>3. copy.revoked = TRUE /\ copy.age = Of(r).age
    BY <1>2, <2>1, SMT DEF SessionRow
  <2>4. Of(r).age # "none"
    <3>1. Of(r).revoked => Of(r).age # "none"
      BY <1>1, <1>2, Zenon DEF SessionInv, SessionTypeOK, Of, Fits
    <3>2. QED
      BY <1>2, <1>4, <3>1, RowIsThere, Zenon
  <2> DEFINE q == [req[r] EXCEPT !.at = "save", !.copy = copy]
  <2>5. q \in SessionRequest
    BY <1>2, <2>2, Zenon DEF SessionRequest
  <2>6. Fits(q)
    BY <1>1, <1>2, <2>3, <2>4, SMT DEF SessionRequest, Fits, CameLate
  <2>7. req' = [req EXCEPT ![r] = q]
    BY <1>4, <2>1, Zenon
  <2>8. QED
    BY <1>1, <2>5, <2>6, <2>7, OneRequestMoves
<1>5. QED
  BY <1>3, <1>4 DEF Revoke

LEMMA SaveFails_Inv ==
    ASSUME SessionInv, NEW r \in Request, SaveFails(r)
    PROVE  SessionInv'
<1>1. At(r, "save") /\ Moves(r, "refused") /\ UNCHANGED <<row, tombstoned>>
  BY DEF SaveFails
<1>2. req[r] \in SessionRequest /\ Fits(req[r])
  BY RequestReads
<1>3. Fits([req[r] EXCEPT !.at = "refused"])
  BY <1>1, <1>2, SMT DEF At, SessionRequest, Fits, CameLate
<1>4. QED
  BY <1>1, <1>3, OnlyMoves

(* A revocation keeps the tombstones there are, for nobody is about to      *)
(* write over one; those it adds, nobody is about to write over either.     *)
LEMMA TombstoneAdds ==
    ASSUME SessionInv, NEW T, Tombstone(T)
    PROVE  /\ tombstoned' \in [Token -> {"no", "clean", "overlapped"}]
           /\ \A t \in Token : Clean(t) => Clean(t)'
           /\ \A t \in Token : Clean(t)' => Clean(t) \/ (t \in T /\ ~Overlapped(t))
<1>1. \A t \in Token : tombstoned'[t] =
          IF t \in T THEN IF Overlapped(t) THEN "overlapped" ELSE "clean" ELSE tombstoned[t]
  BY Zenon DEF Tombstone
<1>2. tombstoned' \in [Token -> {"no", "clean", "overlapped"}]
  BY Zenon DEF Tombstone, SessionInv, SessionTypeOK
<1>3. \A t \in Token : Clean(t) => ~Overlapped(t)
  BY SMT DEF SessionInv, SessionTypeOK, SessionRequest, SessionRow, Fits, Overlapped, At
<1>4. QED
  BY <1>1, <1>2, <1>3, Zenon DEF Clean

(* A request that the revocation leaves alone is what a request may be.     *)
LEMMA TombstoneFits ==
    ASSUME SessionInv, NEW T, Tombstone(T), NEW r \in Request, req'[r] = req[r]
    PROVE  Fits(req[r])'
<1>1. req[r] \in SessionRequest /\ Fits(req[r])
  BY RequestReads
<1>2. \A t \in Token : /\ Clean(t) => Clean(t)'
                       /\ Clean(t)' => Clean(t) \/ ~Overlapped(t)
  BY TombstoneAdds
<1>3. At(r, "save") => (Clean(req[r].token)' => req[r].copy.revoked = TRUE)
  <2>1. CASE Clean(req[r].token)
    BY <1>1, <2>1, SMT DEF At, Fits
  <2>2. CASE ~Overlapped(req[r].token)
    BY <1>1, <2>2, SMT DEF At, Overlapped, SessionRequest, SessionRow
  <2>3. QED
    BY <1>1, <1>2, <2>1, <2>2 DEF At, Fits
<1>4. req[r].late = TRUE => CameLate(req[r]) /\ Clean(req[r].token)'
  BY <1>1, <1>2 DEF Fits, CameLate
<1>5. QED
  BY <1>1, <1>3, <1>4, SMT DEF Fits, CameLate, At, Clean

LEMMA Save_Inv ==
    ASSUME SessionInv, NEW r \in Request, Save(r)
    PROVE  SessionInv'
<1> DEFINE t == req[r].token
           copy == req[r].copy
<1>1. At(r, "save") /\ row' = [row EXCEPT ![t] = copy]
  BY DEF Save
<1>2. req[r] \in SessionRequest /\ Fits(req[r]) /\ t \in Token
  BY <1>1, RequestReads DEF At, Fits
<1>3. copy \in SessionRow /\ copy.age # "none" /\ (Clean(t) => copy.revoked = TRUE)
  BY <1>1, <1>2, SMT DEF At, Fits, SessionRequest
<1>4. row' \in [Token -> SessionRow] /\ \A u \in Token : row'[u].revoked => row'[u].age # "none"
  BY <1>1, <1>2, <1>3 DEF SessionInv, SessionTypeOK
<1>5. CASE req[r].op = "revoke"
  <2>1. Moves(r, "done") /\ Tombstone({t})
    BY <1>5 DEF Save
  <2>2. copy.revoked = TRUE
    BY <1>1, <1>2, <1>5 DEF At, Fits
  <2>3. TombstonesHold'
    <3>1. \A u \in Token : Clean(u)' => Clean(u) \/ u = t
      BY <2>1, TombstoneAdds
    <3>2. \A u \in Token : row'[u] = IF u = t THEN copy ELSE row[u]
      BY <1>1, <1>2 DEF SessionInv, SessionTypeOK
    <3>3. \A u \in Token : Clean(u)' => row'[u].revoked = TRUE
      BY <2>2, <3>1, <3>2 DEF SessionInv, TombstonesHold
    <3>4. QED
      BY <3>3 DEF TombstonesHold
  <2> DEFINE q == [req[r] EXCEPT !.at = "done"]
  <2>4. q \in SessionRequest
    BY <1>2, Zenon DEF SessionRequest
  <2>5. \A p \in Request : req'[p] = IF p = r THEN q ELSE req[p]
    BY <2>1, Zenon DEF Moves, SessionInv, SessionTypeOK
  <2>6. SessionTypeOK'
    <3>1. req' \in [Request -> SessionRequest]
      BY <2>1, <2>4, Zenon DEF Moves, SessionInv, SessionTypeOK
    <3>2. QED
      BY <1>4, <2>1, <3>1, TombstoneAdds DEF SessionTypeOK
  <2>7. Fits(req[r])'
    <3>1. req'[r].op = "revoke" /\ req'[r].at = "done" /\ req'[r].token = t /\ req'[r].late = req[r].late
      BY <1>2, <1>5, <2>5, SMT DEF SessionRequest
    <3>2. req[r].late = TRUE => tombstoned'[t] = "clean"
      BY <1>2, <2>1, TombstoneAdds DEF Fits, CameLate, Clean
    <3>3. QED
      BY <1>2, <3>1, <3>2, SMT DEF Fits, CameLate, Clean
  <2>8. \A p \in Request : Fits(req[p])'
    BY <2>1, <2>5, <2>7, TombstoneFits
  <2>9. QED
    BY <2>3, <2>6, <2>8 DEF SessionInv
<1>6. CASE req[r].op # "revoke"
  <2>1. Moves(r, "served") /\ tombstoned' = tombstoned
    BY <1>6 DEF Save
  <2> DEFINE q == [req[r] EXCEPT !.at = "served"]
  <2>2. q \in SessionRequest
    BY <1>2, Zenon DEF SessionRequest
  <2>3. req' \in [Request -> SessionRequest] /\ \A p \in Request : req'[p] = IF p = r THEN q ELSE req[p]
    BY <2>1, <2>2, Zenon DEF Moves, SessionInv, SessionTypeOK
  <2>4. SessionTypeOK'
    BY <1>4, <2>1, <2>3 DEF SessionInv, SessionTypeOK
  <2>5. TombstonesHold'
    BY <1>1, <1>2, <1>3, <2>1 DEF SessionInv, SessionTypeOK, TombstonesHold, Clean
  <2>6. Fits(q)
    BY <1>1, <1>2, <1>6, SMT DEF At, SessionRequest, Fits, CameLate
  <2>7. \A p \in Request : Fits(req'[p])
    BY <2>3, <2>6, Zenon DEF SessionInv
  <2>8. \A p \in Request : Fits(req[p])'
    BY <2>1, <2>7 DEF Fits, CameLate, Clean
  <2>9. QED
    BY <2>4, <2>5, <2>8 DEF SessionInv
<1>7. QED
  BY <1>5, <1>6

LEMMA RevokeSubject_Inv ==
    ASSUME SessionInv, RevokeSubject
    PROVE  SessionInv'
<1> DEFINE unrevoked == {t \in Token : row[t] # NoRow /\ ~(row[t].revoked)}
<1>1. Tombstone(unrevoked) /\ req' = req
  BY Zenon DEF RevokeSubject
<1>2. \A t \in Token : row'[t] = IF t \in unrevoked THEN [row[t] EXCEPT !.revoked = TRUE] ELSE row[t]
  BY Zenon DEF RevokeSubject
<1>3. \A t \in unrevoked : row'[t] \in SessionRow /\ row'[t].revoked = TRUE /\ row'[t].age # "none"
  <2> SUFFICES ASSUME NEW t \in unrevoked
               PROVE  row'[t] \in SessionRow /\ row'[t].revoked = TRUE /\ row'[t].age # "none"
    OBVIOUS
  <2>1. row[t] \in SessionRow /\ row'[t] = [row[t] EXCEPT !.revoked = TRUE]
    BY <1>2 DEF SessionInv, SessionTypeOK
  <2>2. row'[t] \in SessionRow
    BY <2>1, Zenon DEF SessionRow
  <2>3. row'[t].revoked = TRUE /\ row'[t].age = row[t].age
    BY <2>1, SMT DEF SessionRow
  <2>4. row[t].age # "none"
    <3>1. row[t] # NoRow /\ (row[t].revoked => row[t].age # "none")
      OBVIOUS
    <3>2. QED
      BY <2>1, <3>1, RowIsThere, Zenon
  <2>5. QED
    BY <2>2, <2>3, <2>4
<1>4. row' \in [Token -> SessionRow]
  <2>1. \A t \in Token : row'[t] \in SessionRow
    BY <1>2, <1>3, Zenon DEF SessionInv, SessionTypeOK
  <2>2. row' = [t \in Token |-> row'[t]]
    BY Zenon DEF RevokeSubject
  <2>3. QED
    BY <2>1, <2>2, Zenon
<1>5. \A t \in Token : row'[t].revoked => row'[t].age # "none"
  BY <1>2, <1>3, Zenon DEF SessionInv, SessionTypeOK
<1>6. TombstonesHold'
  <2>1. \A t \in Token : Clean(t)' => Clean(t) \/ t \in unrevoked
    BY <1>1, TombstoneAdds
  <2>2. \A t \in Token : Clean(t)' => row'[t].revoked = TRUE
    BY <1>2, <1>3, <2>1, Zenon DEF SessionInv, TombstonesHold
  <2>3. QED
    BY <2>2 DEF TombstonesHold
<1>7. SessionTypeOK'
  BY <1>1, <1>4, <1>5, TombstoneAdds, Zenon DEF SessionInv, SessionTypeOK
<1>8. \A r \in Request : Fits(req[r])'
  BY <1>1, TombstoneFits
<1>9. QED
  BY <1>6, <1>7, <1>8 DEF SessionInv

(* A step that changes rows but no tombstone, and requests not at all.      *)
LEMMA RowsChange ==
    ASSUME SessionInv, UNCHANGED <<req, tombstoned>>, row' \in [Token -> SessionRow],
           \A t \in Token : row'[t].revoked => row'[t].age # "none",
           \A t \in Token : row[t].revoked = TRUE => row'[t].revoked = TRUE
    PROVE  SessionInv'
<1>1. SessionTypeOK'
  BY DEF SessionInv, SessionTypeOK
<1>2. TombstonesHold'
  BY DEF SessionInv, TombstonesHold, Clean
<1>3. \A r \in Request : Fits(req[r])'
  BY DEF SessionInv, Fits, CameLate, Clean
<1>4. QED
  BY <1>1, <1>2, <1>3 DEF SessionInv

LEMMA PurgeExpired_Inv ==
    ASSUME SessionInv, PurgeExpired
    PROVE  SessionInv'
<1>1. \A t \in Token : \/ row'[t] = row[t]
                       \/ row'[t] = NoRow /\ ~(row[t].revoked)
  BY Zenon DEF PurgeExpired
<1>2. NoRow \in SessionRow /\ NoRow.revoked = FALSE
  BY DEF NoRow, SessionRow
<1>3. row' = [t \in Token |-> row'[t]]
  BY Zenon DEF PurgeExpired
<1>4. row' \in [Token -> SessionRow]
  BY <1>1, <1>2, <1>3, Zenon DEF SessionInv, SessionTypeOK
<1>5. \A t \in Token : row'[t].revoked => row'[t].age # "none"
  BY <1>1, <1>2, Zenon DEF SessionInv, SessionTypeOK
<1>6. \A t \in Token : row[t].revoked = TRUE => row'[t].revoked = TRUE
  BY <1>1, Zenon
<1>7. QED
  BY <1>4, <1>5, <1>6, RowsChange DEF PurgeExpired

LEMMA Age_Inv ==
    ASSUME SessionInv, NEW t \in Token, Age(t)
    PROVE  SessionInv'
<1>1. PICK age \in {"expired", "purgeable"} : row' = [row EXCEPT ![t] = [@ EXCEPT !.age = age]]
  BY Zenon DEF Age
<1> DEFINE aged == [row[t] EXCEPT !.age = age]
<1>2. row[t] \in SessionRow
  BY DEF SessionInv, SessionTypeOK
<1>3. aged \in SessionRow
  BY <1>2, Zenon DEF SessionRow
<1>4. aged.age # "none" /\ aged.revoked = row[t].revoked
  BY <1>2, SMT DEF SessionRow
<1>5. row' \in [Token -> SessionRow] /\ \A u \in Token : row'[u] = IF u = t THEN aged ELSE row[u]
  BY <1>1, <1>3, Zenon DEF SessionInv, SessionTypeOK
<1>6. \A u \in Token : row'[u].revoked => row'[u].age # "none"
  BY <1>4, <1>5, Zenon DEF SessionInv, SessionTypeOK
<1>7. \A u \in Token : row[u].revoked = TRUE => row'[u].revoked = TRUE
  BY <1>4, <1>5, Zenon
<1>8. QED
  BY <1>5, <1>6, <1>7, RowsChange DEF Age

LEMMA SessionNext_Inv == SessionInv /\ [SessionNext]_sessionVars => SessionInv'
<1> SUFFICES ASSUME SessionInv, [SessionNext]_sessionVars
             PROVE  SessionInv'
  OBVIOUS
<1>1. ASSUME NEW r \in Request, SessionStep(r) PROVE SessionInv'
  BY <1>1, Arrive_Inv, IsRevoked_Inv, IsActive_Inv, Known_Inv, Open_Inv, Touch_Inv, Revoke_Inv,
     Save_Inv, SaveFails_Inv DEF SessionStep
<1>2. CASE UNCHANGED sessionVars
  BY <1>2 DEF sessionVars, SessionInv, SessionTypeOK, TombstonesHold, Fits, CameLate, Clean
<1>3. QED
  BY <1>1, <1>2, RevokeSubject_Inv, PurgeExpired_Inv, Age_Inv DEF SessionNext

LEMMA SessionInvariant == SessionSpec => []SessionInv
  BY SessionInit_Inv, SessionNext_Inv, PTL DEF SessionSpec

(* The store's rows and what the requests have read of them keep the values *)
(* of their types.                                                          *)
THEOREM SessionTypeCorrect == SessionSpec => []SessionTypeOK
<1>1. SessionInv => SessionTypeOK
  BY DEF SessionInv
<1>2. QED
  BY <1>1, SessionInvariant, PTL

(* PurgeExpired retains the tombstones, and no refresh writes over one that *)
(* it did not overlap.                                                      *)
THEOREM TombstonesAreKept == SessionSpec => []TombstoneKept
<1>1. SessionInv => TombstoneKept
  BY DEF SessionInv, TombstonesHold, TombstoneKept, Clean
<1>2. QED
  BY <1>1, SessionInvariant, PTL

(* SessionAwareValidator and Middleware: a request that begins once the     *)
(* tombstone is there is refused, but for a validator whose first read      *)
(* failed.                                                                  *)
THEOREM RevokedIsRefusedAlways == SessionSpec => []RevokedIsRefused
<1>1. SessionInv => RevokedIsRefused
  <2> SUFFICES ASSUME SessionInv, NEW r \in Request, At(r, "served"), req[r].late = TRUE
               PROVE  req[r].op = "validate" /\ req[r].blind = TRUE
    BY Zenon DEF RevokedIsRefused, SessionInv, SessionTypeOK, SessionRequest
  <2>1. req[r] \in SessionRequest /\ Fits(req[r])
    BY RequestReads
  <2>2. QED
    BY <2>1, SMT DEF At, SessionRequest, Fits, CameLate
<1>2. QED
  BY <1>1, SessionInvariant, PTL
-----------------------------------------------------------------------------
(* The enrolment and the revocation of a device.                            *)

(* After an answered revocation the table holds the device as revoked, so   *)
(* that a restart loads it as such, and the map does not hold it trusted.   *)
StaysWithdrawn == withdrawn = TRUE => dev.state = "REVOKED" /\ proc.state # "TRUSTED"

Records == [status : {"none", "PENDING", "APPROVED", "lost"}, proved : BOOLEAN, gen : Nat]

(* A request that was approved has consumed its proof, and so nothing       *)
(* replaces its record.                                                     *)
ApprovedIsConsumed ==
    /\ rec \in [Req -> Records]
    /\ \A r \in Req : rec[r].status = "APPROVED" => rec[r].proved = TRUE
    /\ \A r \in Req : rec[r].proved = TRUE => rec[r].status # "none"
    /\ \A c \in calls : c.kind = "proof" => c.req \in Req /\ rec[c.req].status \in {"PENDING", "APPROVED"}
    /\ \A c \in calls : c.kind = "read" => c.req \in Req /\ rec[c.req].proved = TRUE
    /\ \A g \in granted : g.req \in Req /\ rec[g.req].status \in {"APPROVED", "lost"}

HasKind(c) == "kind" \in DOMAIN c

EnrolInv ==
    /\ StaysWithdrawn /\ ApprovedIsConsumed /\ SingleUse
    /\ \A c \in calls : HasKind(c)

(* A call that goes to its next step is of that step's kind.                *)
LEMMA Turned ==
    ASSUME NEW c, HasKind(c), NEW k, NEW d, d = [c EXCEPT !.kind = k]
    PROVE  HasKind(d) /\ d.kind = k
  BY Zenon DEF HasKind

LEMMA Left ==
    ASSUME NEW c, HasKind(c), NEW l, NEW d, d = [c EXCEPT !.left = l]
    PROVE  HasKind(d) /\ d.kind = c.kind
  BY Zenon DEF HasKind

LEMMA EnrolInit_Inv == EnrolInit => EnrolInv
<1> SUFFICES ASSUME EnrolInit PROVE EnrolInv
  OBVIOUS
<1>1. StaysWithdrawn
  BY Zenon DEF EnrolInit, StaysWithdrawn
<1>2. rec \in [Req -> Records] /\ calls = {} /\ granted = {} /\ \A r \in Req : rec[r].status = "none" /\ rec[r].proved = FALSE
  BY SMT DEF EnrolInit, NoRequest, Records
<1>3. QED
  BY <1>1, <1>2 DEF EnrolInv, ApprovedIsConsumed, SingleUse

(* A step that leaves the records, the approvals and the withdrawal alone,  *)
(* and opens no proof nor approval but of a request that is there.          *)
LEMMA NothingGranted ==
    ASSUME EnrolInv, UNCHANGED <<rec, granted, withdrawn, dev, proc>>,
           \A c \in calls' \ calls :
             /\ HasKind(c)
             /\ c.kind = "proof" => c.req \in Req /\ rec[c.req].status \in {"PENDING", "APPROVED"}
             /\ c.kind = "read" => c.req \in Req /\ rec[c.req].proved = TRUE
    PROVE  EnrolInv'
<1>1. StaysWithdrawn'
  BY DEF EnrolInv, StaysWithdrawn
<1>2. \A c \in calls' :
        /\ c.kind = "proof" => c.req \in Req /\ rec[c.req].status \in {"PENDING", "APPROVED"}
        /\ c.kind = "read" => c.req \in Req /\ rec[c.req].proved = TRUE
  BY DEF EnrolInv, ApprovedIsConsumed
<1>3. ApprovedIsConsumed' /\ SingleUse'
  BY <1>2 DEF EnrolInv, ApprovedIsConsumed, SingleUse
<1>4. QED
  BY <1>1, <1>3 DEF EnrolInv

(* A step that changes the device or its map, under the same conditions.    *)
LEMMA DeviceChanges ==
    ASSUME EnrolInv, UNCHANGED <<rec, granted>>, StaysWithdrawn',
           \A c \in calls' \ calls : HasKind(c) /\ c.kind \notin {"proof", "read"}
    PROVE  EnrolInv'
<1>1. \A c \in calls' :
        /\ c.kind = "proof" => c.req \in Req /\ rec[c.req].status \in {"PENDING", "APPROVED"}
        /\ c.kind = "read" => c.req \in Req /\ rec[c.req].proved = TRUE
  BY DEF EnrolInv, ApprovedIsConsumed
<1>2. ApprovedIsConsumed' /\ SingleUse'
  BY <1>1 DEF EnrolInv, ApprovedIsConsumed, SingleUse
<1>3. QED
  BY <1>2 DEF EnrolInv

LEMMA EnrolNext_Inv == EnrolInv /\ [EnrolNext]_enrolVars => EnrolInv'
<1> SUFFICES ASSUME EnrolInv, [EnrolNext]_enrolVars
             PROVE  EnrolInv'
  OBVIOUS
<1>1. ASSUME NEW r \in Req, CreateRequest(r) PROVE EnrolInv'
  <2>1. StaysWithdrawn'
    BY <1>1 DEF CreateRequest, tables_, caches_, history_, EnrolInv, StaysWithdrawn
  <2>2. ApprovedIsConsumed'
    BY <1>1, SMT DEF CreateRequest, history_, EnrolInv, ApprovedIsConsumed, Records
  <2>3. QED
    BY <1>1, <2>1, <2>2 DEF CreateRequest, history_, EnrolInv, SingleUse
<1>2. ASSUME NEW n \in Call, NEW r \in Req, ReadChallenge(n, r) PROVE EnrolInv'
  <2>1. PICK d : d = [id |-> n, kind |-> "proof", req |-> r]
    OBVIOUS
  <2>2. HasKind(d) /\ d.kind = "proof" /\ d.req = r
    BY <2>1, SMT DEF HasKind
  <2>3. calls' = calls \cup {d}
    BY <1>2, <2>1, Zenon DEF ReadChallenge, Opens
  <2>4. QED
    BY <1>2, <2>2, <2>3, NothingGranted DEF ReadChallenge, tables_, caches_, history_
<1>3. ASSUME NEW n \in Call, NEW r \in Req, ReadRequest(n, r) PROVE EnrolInv'
  <2>1. PICK d : d = [id |-> n, kind |-> "read", req |-> r, gen |-> rec[r].gen]
    OBVIOUS
  <2>2. HasKind(d) /\ d.kind = "read" /\ d.req = r
    BY <2>1, SMT DEF HasKind
  <2>3. calls' = calls \cup {d}
    BY <1>3, <2>1, Zenon DEF ReadRequest, Opens
  <2>4. QED
    BY <1>3, <2>2, <2>3, NothingGranted DEF ReadRequest, tables_, caches_, history_, EnrolInv, ApprovedIsConsumed
<1>4. ASSUME NEW n \in Call, ReadDevice(n) PROVE EnrolInv'
  <2>1. PICK d : d = [id |-> n, kind |-> "save", epoch |-> dev.epoch + 1, left |-> {}]
    OBVIOUS
  <2>2. HasKind(d) /\ d.kind = "save"
    BY <2>1, SMT DEF HasKind
  <2>3. calls' = calls \cup {d}
    BY <1>4, <2>1, Zenon DEF ReadDevice, Opens
  <2>4. QED
    BY <1>4, <2>2, <2>3, NothingGranted DEF ReadDevice, tables_, caches_, history_
<1>5. ASSUME NEW c \in calls, SubmitProof(c) PROVE EnrolInv'
  <2>1. StaysWithdrawn'
    BY <1>5 DEF SubmitProof, tables_, caches_, history_, EnrolInv, StaysWithdrawn
  <2>2. c.kind = "proof" /\ c.req \in Req /\ rec[c.req].status \in {"PENDING", "APPROVED"}
    BY <1>5 DEF SubmitProof, EnrolInv, ApprovedIsConsumed
  <2>3. calls' \subseteq calls /\ granted' = granted
    BY <1>5 DEF SubmitProof, Ends, history_
  <2>4. CASE rec' = rec
    BY <2>3, <2>4, <2>1 DEF EnrolInv, ApprovedIsConsumed, SingleUse
  <2>5. CASE ~Consumed(c.req) /\ rec' = [rec EXCEPT ![c.req] =
                                          [status |-> "PENDING", proved |-> TRUE, gen |-> @.gen + 1]]
    <3>1. rec[c.req].proved # TRUE
      BY <2>5 DEF Consumed
    <3>2. rec[c.req].status = "PENDING"
      BY <2>2, <3>1 DEF EnrolInv, ApprovedIsConsumed
    <3>3. ApprovedIsConsumed'
      BY <2>2, <2>3, <2>5, <3>2, SMT DEF EnrolInv, ApprovedIsConsumed, Records
    <3>4. QED
      BY <2>1, <2>3, <3>3 DEF EnrolInv, SingleUse
  <2>6. QED
    BY <1>5, <2>4, <2>5, Zenon DEF SubmitProof
<1>6. ASSUME NEW c \in calls, ApproveEnrollment(c) PROVE EnrolInv'
  <2>1. c.kind = "read" /\ c.req \in Req /\ rec[c.req].proved = TRUE /\ UNCHANGED <<dev, proc, withdrawn>>
    BY <1>6 DEF ApproveEnrollment, tables_, caches_, EnrolInv, ApprovedIsConsumed
  <2>2. CASE rec' = rec /\ granted' = granted /\ Ends(c)
    BY <2>1, <2>2, NothingGranted DEF Ends
  <2>3. CASE /\ rec[c.req].gen = c.gen /\ rec[c.req].status = "PENDING"
             /\ rec' = [rec EXCEPT ![c.req].status = "APPROVED"]
             /\ granted' = granted \cup {[id |-> c.id, req |-> c.req]}
             /\ Goes(c, [c EXCEPT !.kind = "device"])
    <3>1. PICK d : d = [c EXCEPT !.kind = "device"]
      OBVIOUS
    <3>2. calls' \subseteq calls \cup {d}
      BY <2>3, <3>1, Zenon DEF Goes
    <3>3. HasKind(d) /\ d.kind = "device"
      BY <3>1, Turned, Zenon DEF EnrolInv
    <3>4. PICK g : g = [id |-> c.id, req |-> c.req]
      OBVIOUS
    <3>5. g.req = c.req /\ granted' = granted \cup {g}
      BY <2>3, <3>4
    <3>6. \A h \in granted : h.req # c.req
      BY <2>3 DEF EnrolInv, ApprovedIsConsumed
    <3>7. SingleUse'
      BY <3>5, <3>6 DEF EnrolInv, SingleUse
    <3> DEFINE record == [rec[c.req] EXCEPT !.status = "APPROVED"]
    <3>8. record \in Records /\ record.status = "APPROVED" /\ record.proved = TRUE
      BY <2>1, SMT DEF EnrolInv, ApprovedIsConsumed, Records
    <3>9. rec' \in [Req -> Records] /\ \A r \in Req : rec'[r] = IF r = c.req THEN record ELSE rec[r]
      BY <2>1, <2>3, <3>8, Zenon DEF EnrolInv, ApprovedIsConsumed
    <3> HIDE DEF record
    <3>10. ApprovedIsConsumed'
      <4>1. \A r \in Req : /\ rec'[r].status = "APPROVED" => rec'[r].proved = TRUE
                           /\ rec'[r].proved = TRUE => rec'[r].status # "none"
        BY <3>8, <3>9 DEF EnrolInv, ApprovedIsConsumed
      <4>2. \A b \in calls' :
              /\ b.kind = "proof" => b.req \in Req /\ rec'[b.req].status \in {"PENDING", "APPROVED"}
              /\ b.kind = "read" => b.req \in Req /\ rec'[b.req].proved = TRUE
        BY <3>2, <3>3, <3>8, <3>9 DEF EnrolInv, ApprovedIsConsumed
      <4>3. \A h \in granted' : h.req \in Req /\ rec'[h.req].status \in {"APPROVED", "lost"}
        BY <2>1, <3>5, <3>8, <3>9 DEF EnrolInv, ApprovedIsConsumed
      <4>4. QED
        BY <3>9, <4>1, <4>2, <4>3 DEF ApprovedIsConsumed
    <3>11. QED
      BY <2>1, <3>2, <3>3, <3>7, <3>10 DEF EnrolInv, StaysWithdrawn
  <2>4. QED
    BY <1>6, <2>2, <2>3, Zenon DEF ApproveEnrollment
<1>7. ASSUME NEW c \in calls, SaveTrusted(c) PROVE EnrolInv'
  <2>1. HasKind(c)
    BY DEF EnrolInv
  <2>2. \A b \in calls' \ calls : HasKind(b) /\ b.kind = "authority"
    <3>1. PICK d : d = [c EXCEPT !.kind = "authority"]
      OBVIOUS
    <3>2. calls' \subseteq calls \cup {d}
      BY <1>7, <3>1, Zenon DEF SaveTrusted, Goes
    <3>3. HasKind(d) /\ d.kind = "authority"
      BY <2>1, <3>1, Turned, Zenon
    <3>4. QED
      BY <3>2, <3>3
  <2>3. StaysWithdrawn' /\ UNCHANGED <<rec, granted>>
    BY <1>7 DEF SaveTrusted, StaysWithdrawn
  <2>4. QED
    BY <2>2, <2>3, DeviceChanges
<1>8. ASSUME NEW c \in calls, SaveAuthority(c) PROVE EnrolInv'
  BY <1>8, NothingGranted DEF SaveAuthority, Ends, caches_, history_
<1>9. ASSUME NEW c \in calls, SaveRevoked(c) PROVE EnrolInv'
  <2>1. HasKind(c)
    BY DEF EnrolInv
  <2>2. \A b \in calls' \ calls : HasKind(b) /\ b.kind = "list"
    <3>1. PICK d : d = [c EXCEPT !.kind = "list"]
      OBVIOUS
    <3>2. calls' \subseteq calls \cup {d}
      BY <1>9, <3>1, Zenon DEF SaveRevoked, Goes
    <3>3. HasKind(d) /\ d.kind = "list"
      BY <2>1, <3>1, Turned, Zenon
    <3>4. QED
      BY <3>2, <3>3
  <2>3. StaysWithdrawn' /\ UNCHANGED <<rec, granted>>
    BY <1>9 DEF SaveRevoked, EnrolInv, StaysWithdrawn, caches_, history_
  <2>4. QED
    BY <2>2, <2>3, DeviceChanges
<1>10. ASSUME NEW c \in calls, ListAuthorities(c) PROVE EnrolInv'
  <2>1. HasKind(c)
    BY DEF EnrolInv
  <2>2. \A b \in calls' \ calls : HasKind(b) /\ b.kind = "each"
    <3>0. PICK left : left = auth \ revoked
      OBVIOUS
    <3>1. PICK d : d = [c EXCEPT !.kind = "each", !.left = left]
      OBVIOUS
    <3>2. calls' \subseteq calls \cup {d}
      BY <1>10, <3>0, <3>1, Zenon DEF ListAuthorities, Goes
    <3>3. HasKind(d) /\ d.kind = "each"
      BY <2>1, <3>1, Zenon DEF HasKind
    <3>4. QED
      BY <3>2, <3>3
  <2>3. QED
    BY <1>10, <2>2, NothingGranted DEF ListAuthorities, tables_, caches_, history_
<1>11. ASSUME NEW c \in calls, OnDeviceRevoked(c) PROVE EnrolInv'
  <2>1. proc'.state # "TRUSTED" /\ dev' = dev
    BY <1>11 DEF OnDeviceRevoked, Withdraw, NoDevice, tables_
  <2>2. withdrawn' = TRUE => dev.state = "REVOKED"
    BY <1>11, Zenon DEF OnDeviceRevoked
  <2>3. StaysWithdrawn'
    BY <2>1, <2>2 DEF StaysWithdrawn
  <2>4. QED
    BY <1>11, <2>3, DeviceChanges DEF OnDeviceRevoked, Ends
<1>12. ASSUME NEW c \in calls, Fails(c) PROVE EnrolInv'
  BY <1>12, NothingGranted DEF Fails, Ends, tables_, caches_, history_
<1>13. ASSUME NEW c \in calls, NEW a \in c.left, RevokeAuthority(c, a) PROVE EnrolInv'
  <2>1. HasKind(c) /\ c.kind = "each"
    BY <1>13, Zenon DEF EnrolInv, RevokeAuthority
  <2>2. \A b \in calls' \ calls : HasKind(b) /\ b.kind = "each"
    <3>1. PICK d : d = [c EXCEPT !.left = @ \ {a}]
      OBVIOUS
    <3>2. calls' \subseteq calls \cup {d}
      BY <1>13, <3>1, Zenon DEF RevokeAuthority, Ends, Goes
    <3>3. HasKind(d) /\ d.kind = "each"
      BY <2>1, <3>1, Left, Zenon
    <3>4. QED
      BY <3>2, <3>3
  <2>3. QED
    BY <1>13, <2>2, NothingGranted DEF RevokeAuthority, caches_, history_
<1>14. CASE ServerRestart
  <2>1. StaysWithdrawn'
    BY <1>14 DEF ServerRestart, Loaded, tables_, history_, EnrolInv, StaysWithdrawn
  <2>2. PICK lost : lost = [NoRequest EXCEPT !.status = "lost"]
    OBVIOUS
  <2>3. /\ NoRequest \in Records /\ NoRequest.status = "none" /\ NoRequest.proved = FALSE
        /\ lost \in Records /\ lost.status = "lost"
    <3>1. NoRequest \in Records /\ NoRequest.status = "none" /\ NoRequest.proved = FALSE
      BY SMT DEF NoRequest, Records
    <3>2. lost \in Records
      BY <2>2, <3>1, Zenon DEF Records
    <3>3. lost.status = "lost"
      BY <2>2, Zenon DEF NoRequest
    <3>4. QED
      BY <3>1, <3>2, <3>3
  <2>4. rec' = [r \in Req |-> IF rec[r] = NoRequest THEN NoRequest ELSE lost]
    BY <1>14, <2>2, Zenon DEF ServerRestart
  <2>5. /\ rec' \in [Req -> Records]
        /\ \A r \in Req : rec'[r].status \in {"none", "lost"}
        /\ \A r \in Req : rec'[r].proved = TRUE => rec'[r].status # "none"
    BY <2>3, <2>4
  <2>6. \A r \in Req : rec[r].status \in {"APPROVED", "lost"} => rec'[r].status = "lost"
    BY <2>3, <2>4
  <2>7. calls' = {} /\ granted' = granted
    BY <1>14 DEF ServerRestart, history_
  <2>8. ApprovedIsConsumed'
    BY <2>5, <2>6, <2>7 DEF EnrolInv, ApprovedIsConsumed
  <2>9. QED
    BY <2>1, <2>7, <2>8 DEF EnrolInv, SingleUse
<1>15. CASE UNCHANGED enrolVars
  BY <1>15 DEF enrolVars, EnrolInv, StaysWithdrawn, ApprovedIsConsumed, SingleUse
<1>16. QED
  BY <1>1, <1>2, <1>3, <1>4, <1>5, <1>6, <1>7, <1>8, <1>9, <1>10, <1>11, <1>12, <1>13, <1>14, <1>15
     DEF EnrolNext

LEMMA EnrolInvariant == EnrolSpec => []EnrolInv
  BY EnrolInit_Inv, EnrolNext_Inv, PTL DEF EnrolSpec

(* revokeDevice and the restart: once a revocation was answered nothing     *)
(* authorizes the device before an approval saves it as trusted again.      *)
THEOREM WithdrawnStaysWithdrawn == EnrolSpec => []WithdrawnNeverAuthorises
<1>1. EnrolInv => WithdrawnNeverAuthorises
  BY Zenon DEF EnrolInv, StaysWithdrawn, WithdrawnNeverAuthorises, Authorised
<1>2. QED
  BY <1>1, EnrolInvariant, PTL

(* submitProof and approveRequest: however they race, a request is approved *)
(* once.                                                                    *)
THEOREM RequestsAreSingleUse == EnrolSpec => []SingleUse
<1>1. EnrolInv => SingleUse
  BY DEF EnrolInv
<1>2. QED
  BY <1>1, EnrolInvariant, PTL

-----------------------------------------------------------------------------
(* The types of the enrolment: what the generations of a request's record,  *)
(* the identifiers of the calls and the packages left to revoke have to do  *)
(* with each other.                                                         *)

AnyCall == ProofCall \cup ApproveCall \cup RevokeCall
RequestRow ==
    [status : {"none", "PENDING", "APPROVED", "lost"}, proved : BOOLEAN, gen : 0..Cardinality(Call)]

(* A record is replaced once, by the proof; a call under way has an         *)
(* identifier of its own, and revokes packages that were saved.             *)
RowsTyped ==
    /\ rec \in [Req -> RequestRow]
    /\ \A r \in Req : rec[r].proved = FALSE => rec[r].gen = 0
DeviceTyped(d) == d \in Device /\ (d.state = "none" <=> d.epoch = 0)
TablesTyped ==
    /\ DeviceTyped(dev) /\ DeviceTyped(proc)
    /\ auth \subseteq Package /\ revoked \subseteq auth /\ registry \subseteq auth
    /\ withdrawn \in BOOLEAN
CallsTyped ==
    /\ calls \subseteq AnyCall
    /\ \A c, d \in calls : c.id = d.id => c = d
    /\ spent \subseteq Call
    /\ \A c \in calls : c.id \in spent
    /\ \A c \in calls : c.kind = "each" => c.left \subseteq auth
EnrolTypes ==
    /\ RowsTyped /\ TablesTyped /\ CallsTyped
    /\ granted \subseteq [id : Call, req : Req]

LEMMA EnrolTypes_OK == EnrolTypes => EnrolTypeOK
  BY DEF EnrolTypes, RowsTyped, RequestRow, TablesTyped, DeviceTyped, CallsTyped, AnyCall, EnrolTypeOK

(* The three things a step does to the calls: Opens, Ends and Goes.         *)
LEMMA CallOpens ==
    ASSUME CallsTyped, NEW c \in AnyCall, c.id \in Call, Opens(c), auth' = auth, c.kind # "each"
    PROVE  CallsTyped'
  BY DEF CallsTyped, Opens

LEMMA CallEnds ==
    ASSUME CallsTyped, NEW c \in calls, Ends(c), auth \subseteq auth'
    PROVE  CallsTyped'
<1>1. calls' \subseteq calls /\ spent' = spent
  BY DEF Ends
<1>2. \A b \in calls' : b.kind = "each" => b.left \subseteq auth'
  BY <1>1 DEF CallsTyped
<1>3. QED
  BY <1>1, <1>2 DEF CallsTyped

LEMMA CallGoes ==
    ASSUME CallsTyped, NEW c \in calls, NEW d \in AnyCall, d.id = c.id, Goes(c, d), auth' = auth,
           d.kind = "each" => d.left \subseteq auth
    PROVE  CallsTyped'
<1>1. calls' = (calls \ {c}) \cup {d} /\ spent' = spent
  BY DEF Goes
<1>2. \A a, b \in calls' : a.id = b.id => a = b
  BY <1>1 DEF CallsTyped
<1>3. QED
  BY <1>1, <1>2 DEF CallsTyped

(* A call of a kind has the fields of its handler.                          *)
LEMMA Kinds ==
    ASSUME NEW c \in AnyCall
    PROVE  /\ c.id \in Call
           /\ c.kind = "proof" => c \in ProofCall
           /\ c.kind \in {"read", "device", "authority"} => c \in ApproveCall
           /\ c.kind \in {"save", "list", "each"} => c \in RevokeCall
  BY DEF AnyCall, ProofCall, ApproveCall, RevokeCall

LEMMA ApproveTurns ==
    ASSUME NEW c \in ApproveCall, NEW k \in {"device", "authority"}, NEW d, d = [c EXCEPT !.kind = k]
    PROVE  d \in AnyCall /\ d.id = c.id /\ d.kind = k
  BY DEF AnyCall, ApproveCall

LEMMA RevokeTurns ==
    ASSUME NEW c \in RevokeCall, NEW k \in {"list", "each"}, NEW l \in SUBSET Package, NEW d,
           d = [id |-> c.id, kind |-> k, epoch |-> c.epoch, left |-> l]
    PROVE  d \in AnyCall /\ d.id = c.id /\ d.kind = k /\ d.left = l
  BY DEF AnyCall, RevokeCall

LEMMA EnrolInit_Types == ASSUME IsFiniteSet(Call), EnrolInit PROVE EnrolTypes
<1>1. Cardinality(Call) \in Nat
  BY FS_CardinalityType
<1>2. NoRequest \in RequestRow /\ NoRequest.gen = 0
  BY <1>1 DEF NoRequest, RequestRow
<1>3. DeviceTyped(NoDevice)
  BY EnrolAssumption DEF NoDevice, DeviceTyped, Device
<1>4. RowsTyped
  BY <1>2 DEF RowsTyped, EnrolInit
<1>5. QED
  BY <1>3, <1>4 DEF EnrolInit, EnrolTypes, TablesTyped, CallsTyped

(* A step that changes neither the tables nor the records but opens, ends   *)
(* or turns a call.                                                         *)
LEMMA OnlyCalls ==
    ASSUME EnrolTypes, CallsTyped', UNCHANGED <<rec, tables_, caches_, history_>>
    PROVE  EnrolTypes'
  BY DEF tables_, caches_, history_, EnrolTypes, RowsTyped, TablesTyped

LEMMA OpensTyped ==
    ASSUME EnrolTypes,
           \/ \E n \in Call, r \in Req : ReadChallenge(n, r) \/ ReadRequest(n, r)
           \/ \E n \in Call : ReadDevice(n)
    PROVE  EnrolTypes'
<1>1. ASSUME NEW n \in Call, NEW r \in Req, ReadChallenge(n, r) PROVE EnrolTypes'
  <2> DEFINE c == [id |-> n, kind |-> "proof", req |-> r]
  <2>1. c \in AnyCall /\ c.id \in Call /\ c.kind # "each"
    BY DEF AnyCall, ProofCall
  <2>2. Opens(c) /\ UNCHANGED <<rec, tables_, caches_, history_>>
    BY <1>1 DEF ReadChallenge
  <2> HIDE DEF c
  <2>3. QED
    BY <2>1, <2>2, CallOpens, OnlyCalls DEF EnrolTypes, tables_
<1>2. ASSUME NEW n \in Call, NEW r \in Req, ReadRequest(n, r) PROVE EnrolTypes'
  <2> DEFINE c == [id |-> n, kind |-> "read", req |-> r, gen |-> rec[r].gen]
  <2>1. rec[r].gen \in 0..Cardinality(Call)
    BY DEF EnrolTypes, RowsTyped, RequestRow
  <2>2. c \in AnyCall /\ c.id \in Call /\ c.kind # "each"
    BY <2>1 DEF AnyCall, ApproveCall
  <2>3. Opens(c) /\ UNCHANGED <<rec, tables_, caches_, history_>>
    BY <1>2 DEF ReadRequest
  <2> HIDE DEF c
  <2>4. QED
    BY <2>2, <2>3, CallOpens, OnlyCalls DEF EnrolTypes, tables_
<1>3. ASSUME NEW n \in Call, ReadDevice(n) PROVE EnrolTypes'
  <2> DEFINE c == [id |-> n, kind |-> "save", epoch |-> dev.epoch + 1, left |-> {}]
  <2>1. dev.epoch + 1 \in 1..MaxAuthority
    BY <1>3, EnrolAssumption DEF ReadDevice, EnrolTypes, TablesTyped, DeviceTyped, Device
  <2>2. c \in AnyCall /\ c.id \in Call /\ c.kind # "each"
    BY <2>1 DEF AnyCall, RevokeCall
  <2>3. Opens(c) /\ UNCHANGED <<rec, tables_, caches_, history_>>
    BY <1>3 DEF ReadDevice
  <2> HIDE DEF c
  <2>4. QED
    BY <2>2, <2>3, CallOpens, OnlyCalls DEF EnrolTypes, tables_
<1>4. QED
  BY <1>1, <1>2, <1>3

(* createRequest, and submitProof under the mutex.                          *)
LEMMA RequestsTyped ==
    ASSUME IsFiniteSet(Call), EnrolTypes,
           (\E r \in Req : CreateRequest(r)) \/ (\E c \in calls : SubmitProof(c))
    PROVE  EnrolTypes'
<1>1. Cardinality(Call) \in Nat
  BY FS_CardinalityType
<1>2. ASSUME NEW r \in Req, CreateRequest(r) PROVE EnrolTypes'
  <2> DEFINE record == [status |-> "PENDING", proved |-> FALSE, gen |-> 0]
  <2>1. record \in RequestRow /\ record.gen = 0
    BY <1>1 DEF RequestRow
  <2>2. rec' = [rec EXCEPT ![r] = record]
    BY <1>2 DEF CreateRequest
  <2> HIDE DEF record
  <2>3. RowsTyped'
    BY <2>1, <2>2 DEF EnrolTypes, RowsTyped
  <2>4. QED
    BY <1>2, <2>3 DEF CreateRequest, tables_, caches_, history_, EnrolTypes, TablesTyped, CallsTyped
<1>3. ASSUME NEW c \in calls, SubmitProof(c) PROVE EnrolTypes'
  <2>1. c \in ProofCall
    BY <1>3, Kinds DEF SubmitProof, EnrolTypes, CallsTyped
  <2>2. Cardinality(Call) >= 1
    <3>1. Call # {}
      BY <2>1 DEF ProofCall
    <3>2. QED
      BY <1>1, <3>1, FS_EmptySet
  <2>3. RowsTyped'
    <3>1. CASE rec' = rec
      BY <3>1 DEF EnrolTypes, RowsTyped
    <3>2. CASE ~Consumed(c.req) /\ rec' = [rec EXCEPT ![c.req] =
                                          [status |-> "PENDING", proved |-> TRUE, gen |-> @.gen + 1]]
      <4> DEFINE record == [status |-> "PENDING", proved |-> TRUE, gen |-> rec[c.req].gen + 1]
      <4>1. c.req \in Req
        BY <2>1 DEF ProofCall
      <4>2. rec[c.req].gen = 0
        BY <3>2, <4>1 DEF Consumed, EnrolTypes, RowsTyped, RequestRow
      <4>3. record \in RequestRow /\ record.proved = TRUE
        BY <1>1, <2>2, <4>2 DEF RequestRow
      <4>4. rec' = [rec EXCEPT ![c.req] = record]
        BY <3>2
      <4> HIDE DEF record
      <4>5. QED
        BY <4>1, <4>3, <4>4 DEF EnrolTypes, RowsTyped
    <3>3. QED
      BY <1>3, <3>1, <3>2, Zenon DEF SubmitProof
  <2>4. CallsTyped'
    BY <1>3, CallEnds DEF SubmitProof, tables_, EnrolTypes
  <2>5. QED
    BY <1>3, <2>3, <2>4 DEF SubmitProof, tables_, caches_, history_, EnrolTypes, TablesTyped
<1>4. QED
  BY <1>2, <1>3

(* approveRequest: under the mutex, then the device and its package.        *)
LEMMA ApprovalTyped ==
    ASSUME EnrolTypes, NEW c \in calls, ApproveEnrollment(c) \/ SaveTrusted(c) \/ SaveAuthority(c)
    PROVE  EnrolTypes'
<1>1. c \in ApproveCall /\ c.id \in Call /\ c.req \in Req
  <2>1. c \in ApproveCall
    BY Kinds DEF ApproveEnrollment, SaveTrusted, SaveAuthority, EnrolTypes, CallsTyped
  <2>2. QED
    BY <2>1 DEF ApproveCall
<1>2. CASE ApproveEnrollment(c)
  <2>1. CASE rec' = rec /\ granted' = granted /\ Ends(c)
    BY <1>2, <2>1, CallEnds, OnlyCalls DEF ApproveEnrollment, tables_, caches_, history_, EnrolTypes
  <2>2. CASE /\ rec' = [rec EXCEPT ![c.req].status = "APPROVED"]
             /\ granted' = granted \cup {[id |-> c.id, req |-> c.req]}
             /\ Goes(c, [c EXCEPT !.kind = "device"])
    <3>1. CallsTyped'
      <4>1. PICK d : d = [c EXCEPT !.kind = "device"]
        OBVIOUS
      <4>2. d \in AnyCall /\ d.id = c.id /\ d.kind # "each"
        BY <1>1, <4>1, ApproveTurns
      <4>3. auth' = auth
        BY <1>2 DEF ApproveEnrollment, tables_
      <4>4. QED
        BY <2>2, <4>1, <4>2, <4>3, CallGoes DEF EnrolTypes
    <3>2. RowsTyped'
      <4> DEFINE record == [rec[c.req] EXCEPT !.status = "APPROVED"]
      <4>1. record \in RequestRow /\ record.proved = rec[c.req].proved /\ record.gen = rec[c.req].gen
        BY <1>1 DEF EnrolTypes, RowsTyped, RequestRow
      <4>2. rec' = [rec EXCEPT ![c.req] = record]
        BY <2>2
      <4> HIDE DEF record
      <4>3. QED
        BY <1>1, <4>1, <4>2 DEF EnrolTypes, RowsTyped
    <3>3. QED
      BY <1>1, <1>2, <2>2, <3>1, <3>2 DEF ApproveEnrollment, tables_, caches_, EnrolTypes, TablesTyped
  <2>3. QED
    BY <1>2, <2>1, <2>2, Zenon DEF ApproveEnrollment
<1>3. CASE SaveTrusted(c)
  <2>1. DeviceTyped([state |-> "TRUSTED", epoch |-> 1])
    BY EnrolAssumption DEF DeviceTyped, Device
  <2>2. CallsTyped'
    <3>1. PICK d : d = [c EXCEPT !.kind = "authority"]
      OBVIOUS
    <3>2. d \in AnyCall /\ d.id = c.id /\ d.kind # "each"
      BY <1>1, <3>1, ApproveTurns
    <3>3. auth' = auth
      BY <1>3 DEF SaveTrusted
    <3>4. QED
      BY <1>3, <3>1, <3>2, <3>3, CallGoes DEF SaveTrusted, EnrolTypes
  <2>3. QED
    BY <1>3, <2>1, <2>2 DEF SaveTrusted, caches_, EnrolTypes, RowsTyped, TablesTyped
<1>4. CASE SaveAuthority(c)
  <2>1. [id |-> c.id, epoch |-> 1] \in Package
    BY <1>1, EnrolAssumption DEF Package
  <2>2. auth' \subseteq Package /\ auth \subseteq auth'
    BY <1>4, <2>1 DEF SaveAuthority, EnrolTypes, TablesTyped
  <2>3. CallsTyped'
    BY <1>4, <2>2, CallEnds DEF SaveAuthority, EnrolTypes
  <2>4. QED
    BY <1>4, <2>2, <2>3 DEF SaveAuthority, caches_, history_, EnrolTypes, RowsTyped, TablesTyped
<1>5. QED
  BY <1>2, <1>3, <1>4

(* revokeDevice: the device, then its packages, then the caches.            *)
LEMMA RevocationTyped ==
    ASSUME EnrolTypes, NEW c \in calls,
           \/ SaveRevoked(c) \/ ListAuthorities(c) \/ OnDeviceRevoked(c)
           \/ c.kind = "each" /\ \E a \in c.left : RevokeAuthority(c, a)
    PROVE  EnrolTypes'
<1>1. c \in RevokeCall /\ c.epoch \in 1..MaxAuthority /\ c.left \in SUBSET Package
  <2>1. c \in RevokeCall
    BY Kinds DEF SaveRevoked, ListAuthorities, OnDeviceRevoked, EnrolTypes, CallsTyped
  <2>2. QED
    BY <2>1 DEF RevokeCall
<1>2. auth \subseteq Package /\ revoked \subseteq auth
  BY DEF EnrolTypes, TablesTyped
<1>3. CASE SaveRevoked(c)
  <2>1. DeviceTyped([state |-> "REVOKED", epoch |-> c.epoch])
    BY <1>1, EnrolAssumption DEF DeviceTyped, Device
  <2>2. CallsTyped'
    <3>1. PICK d : d = [c EXCEPT !.kind = "list"]
      OBVIOUS
    <3>2. d = [id |-> c.id, kind |-> "list", epoch |-> c.epoch, left |-> c.left]
      BY <1>1, <3>1 DEF RevokeCall
    <3>3. d \in AnyCall /\ d.id = c.id /\ d.kind = "list"
      BY <1>1, <3>2, RevokeTurns
    <3>4. auth' = auth
      BY <1>3 DEF SaveRevoked
    <3>5. QED
      BY <1>3, <3>1, <3>3, <3>4, CallGoes DEF SaveRevoked, EnrolTypes
  <2>3. withdrawn' = withdrawn /\ granted' = granted /\ UNCHANGED caches_
    BY <1>3 DEF SaveRevoked, history_
  <2>4. QED
    BY <1>3, <2>1, <2>2, <2>3 DEF SaveRevoked, caches_, EnrolTypes, RowsTyped, TablesTyped
<1>4. CASE ListAuthorities(c)
  <2>1. PICK d : d = [c EXCEPT !.kind = "each", !.left = auth \ revoked]
    OBVIOUS
  <2>2. d = [id |-> c.id, kind |-> "each", epoch |-> c.epoch, left |-> auth \ revoked]
    BY <1>1, <2>1 DEF RevokeCall
  <2>3. d \in AnyCall /\ d.id = c.id /\ d.left \subseteq auth
    BY <1>1, <1>2, <2>2, RevokeTurns
  <2>4. CallsTyped'
    BY <1>4, <2>1, <2>3, CallGoes DEF ListAuthorities, tables_, EnrolTypes
  <2>5. QED
    BY <1>4, <2>4, OnlyCalls DEF ListAuthorities
<1>5. CASE OnDeviceRevoked(c)
  <2>1. DeviceTyped(NoDevice)
    BY EnrolAssumption DEF NoDevice, DeviceTyped, Device
  <2>2. CallsTyped'
    BY <1>5, CallEnds DEF OnDeviceRevoked, tables_, EnrolTypes
  <2>3. withdrawn' \in BOOLEAN
    BY <1>5, Zenon DEF OnDeviceRevoked
  <2>4. QED
    BY <1>5, <2>1, <2>2, <2>3
       DEF OnDeviceRevoked, Withdraw, tables_, EnrolTypes, RowsTyped, TablesTyped
<1>6. ASSUME c.kind = "each", NEW a \in c.left, RevokeAuthority(c, a) PROVE EnrolTypes'
  <2>1. c.left \subseteq auth /\ auth' = auth
    BY <1>6 DEF RevokeAuthority, EnrolTypes, CallsTyped
  <2>2. revoked' \subseteq auth
    BY <1>2, <1>6, <2>1 DEF RevokeAuthority
  <2>3. CallsTyped'
    <3>1. PICK d : d = [c EXCEPT !.left = @ \ {a}]
      OBVIOUS
    <3>2. d = [id |-> c.id, kind |-> "each", epoch |-> c.epoch, left |-> c.left \ {a}]
      BY <1>1, <1>6, <3>1 DEF RevokeCall
    <3>3. d \in AnyCall /\ d.id = c.id /\ d.left \subseteq auth
      BY <1>1, <2>1, <3>2, RevokeTurns
    <3>4. Ends(c) \/ Goes(c, d)
      BY <1>6, <3>1, Zenon DEF RevokeAuthority
    <3>5. QED
      BY <2>1, <3>3, <3>4, CallEnds, CallGoes DEF EnrolTypes
  <2>4. QED
    BY <1>6, <2>1, <2>2, <2>3
       DEF RevokeAuthority, caches_, history_, EnrolTypes, RowsTyped, TablesTyped
<1>7. QED
  BY <1>3, <1>4, <1>5, <1>6

LEMMA RestartTyped == ASSUME IsFiniteSet(Call), EnrolTypes, ServerRestart PROVE EnrolTypes'
<1>1. Cardinality(Call) \in Nat
  BY FS_CardinalityType
<1>2. NoRequest \in RequestRow /\ NoRequest.gen = 0
  BY <1>1 DEF NoRequest, RequestRow
<1>3. PICK lost : lost = [NoRequest EXCEPT !.status = "lost"]
  OBVIOUS
<1>4. lost \in RequestRow /\ lost.gen = 0
  BY <1>2, <1>3 DEF NoRequest, RequestRow
<1>5. rec' = [r \in Req |-> IF rec[r] = NoRequest THEN NoRequest ELSE lost]
  BY <1>3, Zenon DEF ServerRestart
<1>6. RowsTyped'
  BY <1>2, <1>4, <1>5 DEF RowsTyped
<1>7. CallsTyped'
  BY DEF ServerRestart, CallsTyped, EnrolTypes
<1>8. TablesTyped'
  BY DEF ServerRestart, Loaded, tables_, history_, TablesTyped, EnrolTypes
<1>9. QED
  BY <1>6, <1>7, <1>8 DEF ServerRestart, history_, EnrolTypes

LEMMA EnrolNext_Types == ASSUME IsFiniteSet(Call), EnrolTypes, [EnrolNext]_enrolVars PROVE EnrolTypes'
<1>1. ASSUME NEW c \in calls, Fails(c) PROVE EnrolTypes'
  <2>1. CallsTyped'
    BY <1>1, CallEnds DEF Fails, tables_, EnrolTypes
  <2>2. QED
    BY <1>1, <2>1, OnlyCalls DEF Fails
<1>2. CASE UNCHANGED enrolVars
  <2>1. CallsTyped'
    BY <1>2 DEF enrolVars, EnrolTypes, CallsTyped
  <2>2. QED
    BY <1>2, <2>1, OnlyCalls DEF enrolVars, tables_, caches_, history_
<1>3. QED
  BY <1>1, <1>2, OpensTyped, RequestsTyped, ApprovalTyped, RevocationTyped, RestartTyped, Zenon
     DEF EnrolNext

LEMMA EnrolTypesInvariant == ASSUME IsFiniteSet(Call) PROVE EnrolSpec => []EnrolTypes
<1>1. EnrolInit => EnrolTypes
  BY EnrolInit_Types
<1>2. EnrolTypes /\ [EnrolNext]_enrolVars => EnrolTypes'
  BY EnrolNext_Types
<1>3. QED
  BY <1>1, <1>2, PTL DEF EnrolSpec

(* The tables, the caches and the calls hold values of their types: a       *)
(* device without a row has no epoch, the packages that are revoked and     *)
(* those that authorize were saved, the identifiers of calls under way      *)
(* differ, and a proof replaces a request's record once at most.            *)
THEOREM EnrolTypeCorrect == ASSUME IsFiniteSet(Call) PROVE EnrolSpec => []EnrolTypeOK
  BY EnrolTypesInvariant, EnrolTypes_OK, PTL

-----------------------------------------------------------------------------
(* The services side by side.                                               *)

ServicesInv == BreakerInv /\ CacheInv /\ EdgeInv /\ TusInv /\ SessionInv /\ EnrolTypes

LEMMA ServicesInit_Inv == ASSUME IsFiniteSet(Call), ServicesInit PROVE ServicesInv
  BY BreakerInit_Inv, CacheInit_Inv, EdgeInit_Inv, TusInit_Inv, SessionInit_Inv, EnrolInit_Types
     DEF ServicesInit, ServicesInv

(* A step of the services is a step of one of them, and leaves the state of *)
(* every other as it is.                                                    *)
LEMMA StepsOfOneService ==
    ASSUME [ServicesNext]_serviceVars
    PROVE  /\ [BreakerNext]_breakerVars /\ [CacheNext]_cacheVars /\ [EdgeNext]_edgeVars
           /\ [TusNext]_tusVars /\ [SessionNext]_sessionVars /\ [EnrolNext]_enrolVars
  BY Zenon DEF ServicesNext, Uploads, Leases, Breaker, Cache, LoginSessions, Enrolment, serviceVars

LEMMA ServicesNext_Inv ==
    ASSUME IsFiniteSet(Call), ServicesInv, [ServicesNext]_serviceVars
    PROVE  ServicesInv'
<1>1. BreakerInv' /\ CacheInv' /\ EdgeInv' /\ TusInv' /\ SessionInv'
  BY StepsOfOneService, BreakerNext_Inv, CacheNext_Inv, EdgeNext_Inv, TusNext_Inv, SessionNext_Inv
     DEF ServicesInv
<1>2. EnrolTypes'
  BY StepsOfOneService, EnrolNext_Types DEF ServicesInv
<1>3. QED
  BY <1>1, <1>2 DEF ServicesInv

(* Uploads, leases, the breaker, the resolver's cache, sessions and the     *)
(* enrolment hold values of their types, as they run beside each other.     *)
THEOREM ServicesTypeCorrect == ASSUME IsFiniteSet(Call) PROVE ServicesSpec => []ServicesTypeOK
<1>1. ServicesInit => ServicesInv
  BY ServicesInit_Inv
<1>2. ServicesInv /\ [ServicesNext]_serviceVars => ServicesInv'
  BY ServicesNext_Inv
<1>3. ServicesInv => ServicesTypeOK
  BY TusInv_Types, EnrolTypes_OK
     DEF ServicesInv, ServicesTypeOK, BreakerInv, CacheInv, EdgeInv, SessionInv
<1>4. QED
  BY <1>1, <1>2, <1>3, PTL DEF ServicesSpec
=============================================================================
