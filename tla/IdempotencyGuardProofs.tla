---------------------- MODULE IdempotencyGuardProofs ----------------------
(***************************************************************************)
(* The guard runs no handler for a key whose response is in force, and     *)
(* releases what its transactions hold, for every set of keys, requests,   *)
(* goroutines, every pool and every TTL.  The argument: from Lock to the   *)
(* end of its transaction a request owns its key (Owned), so the absence   *)
(* of a live row it has read is still true when its handler runs; and a    *)
(* lock always belongs to an open transaction of a request in flight.      *)
(* While nothing expires a row is never replaced, so it says what every    *)
(* client of its key was told (AnswerInv).                                 *)
(***************************************************************************)
EXTENDS IdempotencyGuard, TLAPS

(* A goroutine past "idle" has a request, and a leader that commits what    *)
(* its handler answered.                                                    *)
Carrying ==
    \A r \in Req :
        /\ pc[r] # "idle" => req[r] \in Request
        /\ pc[r] = "commit" => response[r] \in Response

TypeInv == TypeOK /\ Carrying

(* A request owns its key from Lock on, and what it read stays true. *)
Owned ==
    \A r \in Req :
        /\ pc[r] \in {"read", "reclaim", "evict"} \cup Leading => advisory[req[r].key] = r
        /\ pc[r] \in {"reclaim", "evict"} \cup Leading => ~Live(r)

(* The transactions in flight are the open ones. *)
InFlightIsOpen == \A r \in Req : pc[r] \in Acquiring \cup Leading => r \in open

GuardInv == TypeInv /\ Owned /\ InFlightIsOpen /\ ClaimsAreReleased

(* The end of a transaction frees its locks and no other. *)
LEMMA FreedTyped ==
    ASSUME NEW locks \in [Key -> Req \cup {None}], NEW r \in Req
    PROVE  /\ Freed(locks, r) \in [Key -> Req \cup {None}]
           /\ \A k \in Key : Freed(locks, r)[k] # r
           /\ \A k \in Key : Freed(locks, r)[k] \in {locks[k], None}
           /\ \A k \in Key : locks[k] # r => Freed(locks, r)[k] = locks[k]
BY NoneAssumption DEF Freed

(* What Commit writes: the row of its own key, typed; of any other key, the *)
(* row that was there or none.                                              *)
LEMMA RecordTyped ==
    ASSUME TypeInv, NEW r \in Req, pc[r] = "commit", Record(r)
    PROVE  /\ cache' \in [Key -> Row \cup {None}]
           /\ \A k \in Key : k # req[r].key => cache'[k] \in {cache[k], None}
<1>1. req[r] \in Request /\ response[r] \in Response /\ since[r] + TTL \in Nat
  BY BoundsAssumption DEF TypeInv, TypeOK, Carrying
<1> DEFINE row == [body |-> req[r].body, response |-> response[r], expires |-> since[r] + TTL]
<1>2. row \in Row
  BY <1>1 DEF Row
<1>3. cache' = [k \in Key |-> IF k = req[r].key THEN row ELSE IF rowLock[k] = r THEN None ELSE cache[k]]
  BY DEF Record
<1> HIDE DEF row
<1> QED BY <1>2, <1>3 DEF TypeInv, TypeOK

(* The goroutines end and start alone. *)
LEMMA LeaveTyped ==
    ASSUME TypeInv, NEW r \in Req, NEW answers \in SUBSET Response, pc[r] # "idle", Leave(r, answers)
    PROVE  /\ since' \in [Req -> Nat] /\ pc' \in [Req -> PC]
           /\ req' \in [Req -> Request \cup {None}]
           /\ response' \in [Req -> Response \cup {None}]
           /\ clock' \in Nat
           /\ told' \subseteq Request \X Response
           /\ Carrying'
           /\ pc'[r] = "idle"
           /\ \A q \in Req \ {r} : pc'[q] = pc[q] /\ req'[q] = req[q] /\ since'[q] = since[q]
<1>1. req[r] \in Request
  BY DEF TypeInv, Carrying
<1>2. {<<req[r], a>> : a \in answers} \subseteq Request \X Response
  BY <1>1
<1> QED BY <1>2 DEF Leave, TypeInv, TypeOK, Carrying, PC

(* Any end of a transaction by a rollback or a commit keeps the invariant. *)
LEMMA Ended ==
    ASSUME GuardInv, NEW r \in Req, NEW answers \in SUBSET Response, pc[r] # "idle",
           Leave(r, answers), EndTx(r),
           UNCHANGED cache \/ (pc[r] = "commit" /\ Record(r))
    PROVE  GuardInv'
<1>1. TypeInv'
  <2>1. cache' \in [Key -> Row \cup {None}]
    BY RecordTyped DEF GuardInv, TypeInv, TypeOK
  <2>2. rowLock' \in [Key -> Req \cup {None}] /\ advisory' \in [Key -> Req \cup {None}] /\ open' \subseteq Req
    BY FreedTyped DEF GuardInv, TypeInv, TypeOK, EndTx
  <2> QED BY <2>1, <2>2, LeaveTyped DEF GuardInv, TypeInv, TypeOK
<1>2. ASSUME NEW q \in Req \ {r}
      PROVE  pc'[q] = pc[q] /\ req'[q] = req[q] /\ since'[q] = since[q]
  BY <1>2, LeaveTyped DEF GuardInv
<1>3. pc'[r] = "idle"
  BY LeaveTyped DEF GuardInv
<1>4. Owned'
  <2>1. ASSUME NEW q \in Req, pc'[q] \in {"read", "reclaim", "evict"} \cup Leading
        PROVE  /\ q # r /\ req[q].key \in Key /\ advisory[req[q].key] = q /\ advisory'[req[q].key] = q
               /\ pc[q] = pc'[q]
    <3>1. q # r /\ pc[q] = pc'[q]
      BY <1>2, <1>3, <2>1 DEF Leading
    <3>2. req[q] \in Request /\ advisory[req[q].key] = q
      BY <2>1, <3>1 DEF GuardInv, TypeInv, Carrying, Owned, Leading
    <3>3. req[q].key \in Key
      BY <3>2, RequestAssumption
    <3> QED BY <3>1, <3>2, <3>3, FreedTyped DEF GuardInv, TypeInv, TypeOK, EndTx
  <2>2. ASSUME NEW q \in Req, pc'[q] \in {"reclaim", "evict"} \cup Leading
        PROVE  ~Live(q)'
    <3>1. q # r /\ req[q].key \in Key /\ advisory[req[q].key] = q /\ pc[q] = pc'[q]
      BY <2>1, <2>2
    <3>2. ~Live(q)
      BY <2>2, <3>1 DEF GuardInv, Owned
    <3>3. cache'[req[q].key] \in {cache[req[q].key], None}
      <4>1. CASE UNCHANGED cache
        BY <4>1
      <4>2. CASE pc[r] = "commit" /\ Record(r)
        <5>1. advisory[req[r].key] = r
          BY <4>2 DEF GuardInv, Owned, Leading
        <5>2. req[q].key # req[r].key
          BY <3>1, <5>1
        <5> QED BY <3>1, <4>2, <5>2, RecordTyped DEF GuardInv
      <4> QED BY <4>1, <4>2
    <3>4. req'[q] = req[q] /\ since'[q] = since[q]
      BY <1>2, <3>1
    <3> QED BY <3>2, <3>3, <3>4 DEF Live
  <2>3. ASSUME NEW q \in Req, pc'[q] \in {"read", "reclaim", "evict"} \cup Leading
        PROVE  advisory'[req'[q].key] = q
    BY <1>2, <2>1, <2>3
  <2> QED BY <2>2, <2>3 DEF Owned
<1>5. InFlightIsOpen'
  <2>1. ASSUME NEW q \in Req, pc'[q] \in Acquiring \cup Leading
        PROVE  q \in open'
    <3>1. q # r /\ pc[q] = pc'[q]
      BY <1>2, <1>3, <2>1 DEF Acquiring, Leading
    <3> QED BY <2>1, <3>1 DEF GuardInv, InFlightIsOpen, EndTx
  <2> QED BY <2>1 DEF InFlightIsOpen
<1>6. ClaimsAreReleased'
  <2>1. ASSUME NEW q \in open'
        PROVE  pc'[q] \in Acquiring \cup Leading
    <3>1. q \in open /\ q # r
      BY <2>1 DEF EndTx
    <3>2. q \in Req
      BY <3>1 DEF GuardInv, TypeInv, TypeOK
    <3> QED BY <1>2, <3>1, <3>2 DEF GuardInv, ClaimsAreReleased
  <2>2. ASSUME NEW k \in Key
        PROVE  {advisory'[k], rowLock'[k]} \subseteq open' \cup {None}
    <3>1. advisory'[k] # r /\ advisory'[k] \in {advisory[k], None}
      BY FreedTyped DEF GuardInv, TypeInv, TypeOK, EndTx
    <3>2. rowLock'[k] # r /\ rowLock'[k] \in {rowLock[k], None}
      BY FreedTyped DEF GuardInv, TypeInv, TypeOK, EndTx
    <3> QED BY <3>1, <3>2 DEF GuardInv, ClaimsAreReleased, EndTx
  <2> QED BY <2>1, <2>2 DEF ClaimsAreReleased
<1> QED BY <1>1, <1>4, <1>5, <1>6 DEF GuardInv

(* A statement that only moves its own goroutine, takes locks nobody else  *)
(* holds, and leaves the cache alone, keeps the invariant if what it read  *)
(* justifies the new program point.                                        *)
LEMMA Moved ==
    ASSUME GuardInv, NEW r \in Req, NEW label \in Acquiring \cup Leading,
           r \in open, pc[r] \in Acquiring \cup Leading,
           pc' = [pc EXCEPT ![r] = label],
           UNCHANGED <<cache, open, since, req, clock, told>>,
           response' \in [Req -> Response \cup {None}],
           \A q \in Req \ {r} : response'[q] = response[q],
           label = "commit" => response'[r] \in Response,
           advisory' \in [Key -> Req \cup {None}], rowLock' \in [Key -> Req \cup {None}],
           \A k \in Key : advisory'[k] = advisory[k] \/ (advisory[k] = None /\ advisory'[k] = r),
           \A k \in Key : rowLock'[k] \in {rowLock[k], r},
           label # "lock" => advisory'[req[r].key] = r,
           label \in {"reclaim", "evict"} \cup Leading => ~Live(r)
    PROVE  GuardInv'
<1>1. TypeInv'
  BY DEF GuardInv, TypeInv, TypeOK, Carrying, PC, Acquiring, Leading
<1>2. ASSUME NEW q \in Req \ {r}
      PROVE  pc'[q] = pc[q] /\ (Live(q)' <=> Live(q))
  BY DEF GuardInv, TypeInv, TypeOK, Live
<1>3. pc'[r] = label /\ (Live(r)' <=> Live(r))
  BY DEF GuardInv, TypeInv, TypeOK, Live
<1>4. ASSUME NEW q \in Req \ {r}, pc[q] \in {"read", "reclaim", "evict"} \cup Leading
      PROVE  advisory'[req[q].key] = q
  <2>1. req[q] \in Request /\ advisory[req[q].key] = q
    BY <1>4 DEF GuardInv, TypeInv, Carrying, Owned, Leading
  <2>2. req[q].key \in Key /\ q # None
    BY <2>1, RequestAssumption, NoneAssumption
  <2> QED BY <2>1, <2>2
<1>5. Owned'
  BY <1>2, <1>3, <1>4 DEF GuardInv, Owned, Acquiring, Leading
<1>6. InFlightIsOpen'
  BY <1>2, <1>3 DEF GuardInv, InFlightIsOpen
<1>7. ClaimsAreReleased'
  <2>1. \A q \in open' : pc'[q] \in Acquiring \cup Leading
    BY <1>2, <1>3 DEF GuardInv, TypeInv, TypeOK, ClaimsAreReleased
  <2>2. \A k \in Key : {advisory'[k], rowLock'[k]} \subseteq open' \cup {None}
    BY DEF GuardInv, ClaimsAreReleased
  <2> QED BY <2>1, <2>2 DEF ClaimsAreReleased
<1> QED BY <1>1, <1>5, <1>6, <1>7 DEF GuardInv

(* Every statement of Acquire, the handler and the commit keep it. *)
LEMMA HandleKeeps ==
    ASSUME GuardInv, NEW r \in Req, Handle(r)
    PROVE  GuardInv'
<1>1. CASE BeginTx(r)
  <2>1. TypeInv'
    BY <1>1 DEF BeginTx, GuardInv, TypeInv, TypeOK, Carrying, PC, Acquiring
  <2>2. Owned'
    BY <1>1 DEF BeginTx, GuardInv, TypeInv, TypeOK, Owned, Live, Leading
  <2>3. InFlightIsOpen'
    BY <1>1 DEF BeginTx, GuardInv, TypeInv, TypeOK, InFlightIsOpen
  <2>4. ClaimsAreReleased'
    BY <1>1 DEF BeginTx, GuardInv, TypeInv, TypeOK, ClaimsAreReleased, Acquiring
  <2> QED BY <2>1, <2>2, <2>3, <2>4 DEF GuardInv
<1>2. ASSUME pc[r] \in Acquiring \cup Leading
      PROVE  r \in open /\ req[r] \in Request /\ req[r].key \in Key
  BY <1>2, RequestAssumption DEF GuardInv, InFlightIsOpen, TypeInv, Carrying, Acquiring, Leading
<1>3. CASE Lock(r)
  BY <1>2, <1>3, Moved DEF Lock, Goto, GuardInv, TypeInv, TypeOK, Carrying, Acquiring, Leading
<1>4. CASE ReadCached(r)
  <2>1. CASE ~Live(r) /\ Goto(r, "reclaim") /\ UNCHANGED store
    BY <1>2, <1>4, <2>1, Moved
       DEF ReadCached, Goto, store, GuardInv, TypeInv, TypeOK, Carrying, Owned, Acquiring, Leading
  <2>2. CASE Live(r) /\ Rollback(r) /\ Leave(r, {cache[req[r].key].response})
    <3>1. pc[r] = "read" /\ cache[req[r].key] \in Row
      BY <1>2, <1>4, <2>2 DEF ReadCached, Live, GuardInv, TypeInv, TypeOK, Acquiring
    <3>2. cache[req[r].key].response \in Response
      BY <3>1 DEF Row
    <3> QED BY <2>2, <3>1, <3>2, Ended DEF Rollback
  <2>3. CASE Live(r) /\ Rollback(r) /\ Leave(r, {})
    BY <1>4, <2>3, Ended DEF ReadCached, Rollback
  <2> QED BY <1>4, <2>1, <2>2, <2>3 DEF ReadCached, SameRequest
<1>5. CASE Reclaim(r)
  <2>1. rowLock' \in [Key -> Req \cup {None}] /\ \A k \in Key : rowLock'[k] \in {rowLock[k], r}
    BY <1>2, <1>5 DEF Reclaim, GuardInv, TypeInv, TypeOK, Acquiring
  <2>2. advisory[req[r].key] = r /\ ~Live(r)
    BY <1>5 DEF Reclaim, GuardInv, Owned
  <2> QED BY <1>2, <1>5, <2>1, <2>2, Moved DEF Reclaim, Goto, GuardInv, TypeInv, TypeOK, Acquiring, Leading
<1>6. ASSUME NEW k \in Key, Evict(r, k)
      PROVE  GuardInv'
  <2>1. pc' = [pc EXCEPT ![r] = "evict"]
    BY <1>6 DEF Evict, GuardInv, TypeInv, TypeOK
  <2> QED BY <1>2, <1>6, <2>1, Moved DEF Evict, GuardInv, TypeInv, TypeOK, Carrying, Owned, Acquiring, Leading
<1>7. CASE Insert(r)
  BY <1>2, <1>7, Moved DEF Insert, Goto, store, GuardInv, TypeInv, TypeOK, Carrying, Owned, Acquiring, Leading
<1>8. ASSUME NEW a \in Response, Execute(r, a)
      PROVE  GuardInv'
  BY <1>2, <1>8, Moved DEF Execute, store, GuardInv, TypeInv, TypeOK, Carrying, Owned, Acquiring, Leading
<1>9. CASE Commit(r)
  BY <1>9, Ended DEF Commit, Rollback, GuardInv, TypeInv, Carrying
<1>10. CASE Finish(r)
  <2>1. TypeInv'
    BY <1>10, LeaveTyped DEF Finish, store, GuardInv, TypeInv, TypeOK
  <2>2. \A q \in Req \ {r} : pc'[q] = pc[q] /\ req'[q] = req[q] /\ since'[q] = since[q]
    BY <1>10, LeaveTyped DEF Finish, GuardInv
  <2>3. pc[r] = "detached" /\ pc'[r] = "idle" /\ UNCHANGED store
    BY <1>10, LeaveTyped DEF Finish, GuardInv
  <2>4. Owned'
    BY <2>2, <2>3 DEF GuardInv, Owned, Live, store, Leading
  <2>5. InFlightIsOpen'
    BY <2>2, <2>3 DEF GuardInv, InFlightIsOpen, store, Acquiring, Leading
  <2>6. ClaimsAreReleased'
    BY <2>2, <2>3 DEF GuardInv, TypeInv, TypeOK, ClaimsAreReleased, store, Acquiring, Leading
  <2> QED BY <2>1, <2>4, <2>5, <2>6 DEF GuardInv
<1>11. CASE DeadlockDetected(r)
  <2>1. pc[r] # "idle"
    BY <1>11 DEF DeadlockDetected, WaitsFor
  <2> QED BY <1>11, <2>1, Ended DEF DeadlockDetected, Rollback
<1>12. CASE Answered(r)
  <2>1. PICK a \in Response : Execute(r, a)
    BY <1>12 DEF Answered, Response, Failures
  <2> QED BY <1>8, <2>1
<1> QED BY <1>1, <1>3, <1>4, <1>5, <1>6, <1>7, <1>9, <1>10, <1>11, <1>12 DEF Handle

(* So do the failures, arrivals, restarts and the clock. *)
LEMMA NextKeeps ==
    ASSUME GuardInv, [Next]_vars
    PROVE  GuardInv'
<1>1. ASSUME NEW r \in Req, NEW q \in Request, Receive(r, q)
      PROVE  GuardInv'
  <2>1. TypeInv'
    BY <1>1 DEF Receive, store, GuardInv, TypeInv, TypeOK, Carrying, PC
  <2>2. Owned'
    BY <1>1 DEF Receive, store, GuardInv, TypeInv, TypeOK, Owned, Live, Leading
  <2>3. InFlightIsOpen' /\ ClaimsAreReleased'
    BY <1>1 DEF Receive, store, GuardInv, TypeInv, TypeOK, InFlightIsOpen, ClaimsAreReleased, Acquiring, Leading
  <2> QED BY <2>1, <2>2, <2>3 DEF GuardInv
<1>2. ASSUME NEW r \in Req, AcquireFails(r) \/ Panic(r)
      PROVE  GuardInv'
  BY <1>2, Ended DEF AcquireFails, Panic, Rollback, Acquiring
<1>3. ASSUME NEW r \in Req, CommitFails(r)
      PROVE  GuardInv'
  BY <1>3, Ended DEF CommitFails, Rollback
<1>4. ASSUME NEW r \in Req, Cancel(r)
      PROVE  GuardInv'
  <2>1. CASE Leave(r, {})
    BY <1>4, <2>1, Ended DEF Cancel, Rollback
  <2>2. CASE pc[r] = "execute" /\ Goto(r, "detached")
    <3>1. rowLock' \in [Key -> Req \cup {None}] /\ advisory' \in [Key -> Req \cup {None}] /\ open' \subseteq Req
      BY <1>4, FreedTyped DEF Cancel, Rollback, EndTx, GuardInv, TypeInv, TypeOK
    <3>2. TypeInv'
      BY <1>4, <2>2, <3>1 DEF Cancel, Rollback, Goto, GuardInv, TypeInv, TypeOK, Carrying, PC
    <3>3. \A q \in Req \ {r} : pc'[q] = pc[q] /\ (Live(q)' <=> Live(q))
      BY <1>4, <2>2 DEF Cancel, Rollback, Goto, GuardInv, TypeInv, TypeOK, Live
    <3>4. pc'[r] = "detached" /\ UNCHANGED req
      BY <2>2 DEF Goto, GuardInv, TypeInv, TypeOK
    <3>5. ASSUME NEW q \in Req, pc'[q] \in {"read", "reclaim", "evict"} \cup Leading
          PROVE  advisory'[req'[q].key] = q
      <4>1. q # r /\ pc[q] = pc'[q]
        BY <3>3, <3>4, <3>5 DEF Leading
      <4>2. req[q] \in Request /\ advisory[req[q].key] = q
        BY <3>5, <4>1 DEF GuardInv, TypeInv, Carrying, Owned, Leading
      <4>3. req[q].key \in Key
        BY <4>2, RequestAssumption
      <4> QED BY <1>4, <3>4, <4>1, <4>2, <4>3, FreedTyped DEF Cancel, Rollback, EndTx, GuardInv, TypeInv, TypeOK
    <3>6. Owned'
      BY <3>3, <3>4, <3>5 DEF GuardInv, Owned, Leading
    <3>7. InFlightIsOpen'
      BY <1>4, <3>3, <3>4 DEF Cancel, Rollback, EndTx, GuardInv, InFlightIsOpen, Acquiring, Leading
    <3>8. ClaimsAreReleased'
      <4>1. \A q \in open' : pc'[q] \in Acquiring \cup Leading
        BY <1>4, <3>3 DEF Cancel, Rollback, EndTx, GuardInv, TypeInv, TypeOK, ClaimsAreReleased
      <4>2. ASSUME NEW k \in Key
            PROVE  {advisory'[k], rowLock'[k]} \subseteq open' \cup {None}
        <5>1. advisory'[k] # r /\ advisory'[k] \in {advisory[k], None} /\ rowLock'[k] # r /\ rowLock'[k] \in {rowLock[k], None}
          BY <1>4, FreedTyped DEF Cancel, Rollback, EndTx, GuardInv, TypeInv, TypeOK
        <5> QED BY <1>4, <5>1 DEF Cancel, Rollback, EndTx, GuardInv, ClaimsAreReleased
      <4> QED BY <4>1, <4>2 DEF ClaimsAreReleased
    <3> QED BY <3>2, <3>6, <3>7, <3>8 DEF GuardInv
  <2> QED BY <1>4, <2>1, <2>2 DEF Cancel
<1>5. CASE Restart
  <2>1. TypeInv'
    BY <1>5 DEF Restart, GuardInv, TypeInv, TypeOK, Carrying, PC
  <2> QED BY <1>5, <2>1 DEF Restart, GuardInv, Owned, InFlightIsOpen, ClaimsAreReleased, Acquiring, Leading
<1>6. CASE Tick
  BY <1>6 DEF Tick, store, GuardInv, TypeInv, TypeOK, Carrying, Owned, Live, InFlightIsOpen, ClaimsAreReleased
<1>7. CASE UNCHANGED vars
  BY <1>7 DEF vars, store, GuardInv, TypeInv, TypeOK, Carrying, Owned, Live, InFlightIsOpen, ClaimsAreReleased
<1> QED BY <1>1, <1>2, <1>3, <1>4, <1>5, <1>6, <1>7, HandleKeeps DEF Next

(* An empty cache and no request in flight. *)
LEMMA InitGuard == Init => GuardInv
<1>1. Init => TypeInv
  BY DEF Init, TypeInv, TypeOK, Carrying, PC
<1> QED BY <1>1 DEF Init, GuardInv, Owned, InFlightIsOpen, ClaimsAreReleased, Acquiring, Leading

(* GuardInv is inductive. *)
LEMMA GuardInductive == Spec => []GuardInv
<1>1. GuardInv /\ [Next]_vars => GuardInv'
  BY NextKeeps
<1> QED BY <1>1, InitGuard, PTL DEF Spec

(* Every behaviour is well typed. *)
THEOREM GuardTypeCorrect == Spec => []TypeOK
<1>1. GuardInv => TypeOK
  BY DEF GuardInv, TypeInv
<1> QED BY <1>1, GuardInductive, PTL

(* No handler runs for a key whose recorded response is in force: what      *)
(* Acquire read before the INSERT is true as long as its claim is held.     *)
THEOREM OneExecution == Spec => []LeaderFindsNoAnswer
<1>1. GuardInv => LeaderFindsNoAnswer
  BY DEF GuardInv, Owned, LeaderFindsNoAnswer
<1> QED BY <1>1, GuardInductive, PTL

(* Locks and connections belong to requests in flight: every return of      *)
(* Acquire, Commit and Done ends the transaction.                           *)
THEOREM NothingLeaks == Spec => []ClaimsAreReleased
<1>1. GuardInv => ClaimsAreReleased
  BY DEF GuardInv
<1> QED BY <1>1, GuardInductive, PTL

-----------------------------------------------------------------------------
(* Within one window.  When nothing expires, what was told of a key is what *)
(* its row says, and no row is ever reclaimed or evicted.                   *)
AnswerInv ==
    /\ clock <= MaxClock /\ \A r \in Req : since[r] <= MaxClock
    /\ \A k \in Key : cache[k] # None => cache[k].expires > MaxClock
    /\ \A k \in Key : rowLock[k] = None
    /\ \A a \in told : Cacheable(a[2]) =>
          /\ cache[a[1].key] # None
          /\ cache[a[1].key].body = a[1].body
          /\ cache[a[1].key].response = a[2]

(* A leader finds no row at all when nothing expires, and its COMMIT writes *)
(* only its own.                                                            *)
LEMMA FirstRecord ==
    ASSUME GuardInv, AnswerInv, NEW r \in Req, pc[r] = "commit", Record(r), TTL > MaxClock
    PROVE  /\ cache[req[r].key] = None
           /\ cache' = [cache EXCEPT ![req[r].key] =
                  [body |-> req[r].body, response |-> response[r], expires |-> since[r] + TTL]]
           /\ since[r] + TTL > MaxClock
<1>1. req[r].key \in Key /\ ~Live(r)
  BY RequestAssumption DEF GuardInv, TypeInv, Carrying, Owned, Leading
<1>2. since[r] <= MaxClock /\ since[r] \in Nat /\ TTL \in Nat /\ MaxClock \in Nat
  BY BoundsAssumption DEF AnswerInv, GuardInv, TypeInv, TypeOK
<1>3. cache[req[r].key] = None
  <2>1. CASE cache[req[r].key] # None
    <3>1. cache[req[r].key] \in Row /\ cache[req[r].key].expires > MaxClock
      BY <1>1, <2>1 DEF AnswerInv, GuardInv, TypeInv, TypeOK
    <3>2. cache[req[r].key].expires \in Nat
      BY <3>1 DEF Row
    <3>3. cache[req[r].key].expires > since[r]
      BY <1>2, <3>1, <3>2
    <3> QED BY <1>1, <2>1, <3>3 DEF Live
  <2> QED BY <2>1
<1>4. \A k \in Key : rowLock[k] # r
  BY NoneAssumption DEF AnswerInv
<1> DEFINE row == [body |-> req[r].body, response |-> response[r], expires |-> since[r] + TTL]
<1>5. cache' = [k \in Key |-> IF k = req[r].key THEN row ELSE cache[k]]
  BY <1>4 DEF Record
<1> HIDE DEF row
<1>6. cache' = [cache EXCEPT ![req[r].key] = row]
  BY <1>1, <1>5 DEF GuardInv, TypeInv, TypeOK
<1>7. since[r] + TTL > MaxClock
  BY <1>2
<1> USE DEF row
<1> QED BY <1>3, <1>6, <1>7

(* A transaction that records an answer, told or not. *)
LEMMA RecordedOnce ==
    ASSUME GuardInv, AnswerInv, NEW r \in Req, pc[r] = "commit", Record(r), EndTx(r), TTL > MaxClock,
           NEW answers \in SUBSET {response[r]}, Leave(r, answers)
    PROVE  AnswerInv'
<1> DEFINE row == [body |-> req[r].body, response |-> response[r], expires |-> since[r] + TTL]
<1>1. /\ cache[req[r].key] = None
      /\ cache' = [cache EXCEPT ![req[r].key] = row]
      /\ row.expires > MaxClock
  BY FirstRecord
<1>2. req[r] \in Request /\ req[r].key \in Key /\ row \in Row
  <2>1. req[r] \in Request /\ response[r] \in Response /\ since[r] + TTL \in Nat
    BY BoundsAssumption DEF GuardInv, TypeInv, TypeOK, Carrying
  <2> QED BY <2>1, RequestAssumption DEF Row
<1>3. row # None /\ row.body = req[r].body /\ row.response = response[r]
  BY <1>2, NoneAssumption
<1> HIDE DEF row
<1>4. clock' <= MaxClock /\ \A q \in Req : since'[q] <= MaxClock
  BY BoundsAssumption DEF Leave, AnswerInv, GuardInv, TypeInv, TypeOK
<1>5. \A k \in Key : cache'[k] # None => cache'[k].expires > MaxClock
  BY <1>1 DEF AnswerInv, GuardInv, TypeInv, TypeOK
<1>6. \A k \in Key : rowLock'[k] = None
  BY DEF EndTx, Freed, AnswerInv
<1>7. ASSUME NEW a \in told', Cacheable(a[2])
      PROVE  cache'[a[1].key] # None /\ cache'[a[1].key].body = a[1].body /\ cache'[a[1].key].response = a[2]
  <2>1. CASE a \in told
    <3>1. cache[a[1].key] # None /\ cache[a[1].key].body = a[1].body /\ cache[a[1].key].response = a[2]
      BY <1>7, <2>1 DEF AnswerInv
    <3>2. a[1] \in Request /\ a[1].key \in Key /\ a[1].key # req[r].key
      BY <1>1, <2>1, <3>1, RequestAssumption DEF GuardInv, TypeInv, TypeOK
    <3> QED BY <1>1, <3>1, <3>2 DEF GuardInv, TypeInv, TypeOK
  <2>2. CASE a = <<req[r], response[r]>>
    <3>1. cache'[req[r].key] = row /\ a[1] = req[r] /\ a[2] = response[r]
      BY <1>1, <1>2, <2>2 DEF GuardInv, TypeInv, TypeOK
    <3> QED BY <1>3, <3>1
  <2> QED BY <1>7, <2>1, <2>2 DEF Leave
<1> QED BY <1>4, <1>5, <1>6, <1>7 DEF AnswerInv

(* Anything else that ends a request, with an answer the row already gives *)
(* or one that is not recorded.                                            *)
LEMMA ToldAgain ==
    ASSUME GuardInv, AnswerInv, NEW r \in Req, NEW answers, Leave(r, answers), UNCHANGED cache,
           \A k \in Key : rowLock'[k] = None,
           \A a \in answers : Cacheable(a) =>
               /\ cache[req[r].key] # None
               /\ cache[req[r].key].body = req[r].body
               /\ cache[req[r].key].response = a
    PROVE  AnswerInv'
<1>1. clock' <= MaxClock /\ \A q \in Req : since'[q] <= MaxClock
  BY BoundsAssumption DEF Leave, AnswerInv, GuardInv, TypeInv, TypeOK
<1>2. ASSUME NEW a \in told', Cacheable(a[2])
      PROVE  cache'[a[1].key] # None /\ cache'[a[1].key].body = a[1].body /\ cache'[a[1].key].response = a[2]
  <2>1. CASE a \in told
    BY <1>2, <2>1 DEF AnswerInv
  <2>2. ASSUME NEW b \in answers, a = <<req[r], b>>
        PROVE  cache'[a[1].key] # None /\ cache'[a[1].key].body = a[1].body /\ cache'[a[1].key].response = a[2]
    <3>1. a[1] = req[r] /\ a[2] = b
      BY <2>2
    <3> QED BY <1>2, <3>1
  <2> QED BY <1>2, <2>1, <2>2 DEF Leave
<1> QED BY <1>1, <1>2 DEF AnswerInv

(* Nothing is deleted when nothing expires. *)
LEMMA NothingExpires ==
    ASSUME GuardInv, AnswerInv, NEW r \in Req, NEW k \in Key
    PROVE  ~Stale(r, k) /\ k \notin Evictable(r)
<1>1. since[r] <= MaxClock /\ since[r] \in Nat /\ MaxClock \in Nat
  BY BoundsAssumption DEF AnswerInv, GuardInv, TypeInv, TypeOK
<1>2. CASE cache[k] # None
  <2>1. cache[k] \in Row /\ cache[k].expires > MaxClock
    BY <1>2 DEF AnswerInv, GuardInv, TypeInv, TypeOK
  <2>2. cache[k].expires \in Nat
    BY <2>1 DEF Row
  <2> QED BY <1>1, <2>1, <2>2 DEF Stale, Evictable
<1> QED BY <1>2 DEF Stale, Evictable

(* Every statement and every failure keeps one answer per key. *)
LEMMA HandleAnswers ==
    ASSUME GuardInv, AnswerInv, TTL > MaxClock, NEW r \in Req,
           Handle(r) \/ AcquireFails(r) \/ CommitFails(r) \/ Panic(r) \/ Cancel(r)
    PROVE  AnswerInv'
<1>1. ASSUME UNCHANGED <<cache, rowLock, since, clock, told>>
      PROVE  AnswerInv'
  BY <1>1 DEF AnswerInv
<1>2. Freed(rowLock, r) = rowLock
  BY DEF Freed, AnswerInv, GuardInv, TypeInv, TypeOK
<1>3. \A answers : Leave(r, answers) /\ Rollback(r)
          /\ (\A a \in answers : Cacheable(a) =>
                /\ cache[req[r].key] # None
                /\ cache[req[r].key].body = req[r].body
                /\ cache[req[r].key].response = a)
          => AnswerInv'
  BY <1>2, ToldAgain DEF Rollback, EndTx, AnswerInv
<1>4. CASE BeginTx(r)
  BY <1>4 DEF BeginTx, AnswerInv, GuardInv, TypeInv, TypeOK
<1>5. CASE Lock(r) \/ Insert(r) \/ \E a \in Response : Execute(r, a)
  BY <1>1, <1>5 DEF Lock, Insert, Execute, Goto, store
<1>6. CASE ReadCached(r)
  <2>1. CASE SameRequest(r) /\ Rollback(r) /\ Leave(r, {cache[req[r].key].response})
    BY <1>3, <2>1 DEF SameRequest, Live
  <2>2. CASE Rollback(r) /\ Leave(r, {})
    BY <1>3, <2>2
  <2>3. CASE Goto(r, "reclaim") /\ UNCHANGED store
    BY <1>1, <2>3 DEF Goto, store
  <2> QED BY <1>6, <2>1, <2>2, <2>3 DEF ReadCached
<1>7. CASE Reclaim(r)
  <2>1. req[r].key \in Key
    BY <1>7, RequestAssumption DEF Reclaim, GuardInv, TypeInv, Carrying
  <2>2. ~Stale(r, req[r].key)
    BY <2>1, NothingExpires
  <2> QED BY <1>1, <1>7, <2>2 DEF Reclaim, Goto
<1>8. ASSUME NEW k \in Key, Evict(r, k)
      PROVE  AnswerInv'
  BY <1>8, NothingExpires DEF Evict
<1>9. CASE Commit(r)
  <2>1. CASE Cacheable(response[r]) /\ Record(r) /\ EndTx(r)
    BY <1>9, <2>1, RecordedOnce DEF Commit
  <2>2. CASE ~Cacheable(response[r]) /\ Rollback(r)
    BY <1>3, <1>9, <2>2 DEF Commit
  <2> QED BY <1>9, <2>1, <2>2 DEF Commit
<1>10. CASE CommitFails(r)
  <2>1. CASE Record(r) /\ EndTx(r)
    BY <1>10, <2>1, RecordedOnce DEF CommitFails
  <2>2. CASE Rollback(r)
    BY <1>3, <1>10, <2>2 DEF CommitFails
  <2> QED BY <1>10, <2>1, <2>2 DEF CommitFails
<1>11. CASE DeadlockDetected(r) \/ AcquireFails(r) \/ Panic(r)
  BY <1>3, <1>11 DEF DeadlockDetected, AcquireFails, Panic
<1>12. CASE Cancel(r)
  <2>1. CASE Leave(r, {})
    BY <1>3, <1>12, <2>1 DEF Cancel
  <2>2. CASE Goto(r, "detached")
    BY <1>1, <1>2, <1>12, <2>2 DEF Cancel, Rollback, EndTx, Goto
  <2> QED BY <1>12, <2>1, <2>2 DEF Cancel
<1>13. CASE Finish(r)
  <2>1. Leave(r, {}) /\ UNCHANGED store
    BY <1>13 DEF Finish
  <2> QED BY <2>1, ToldAgain DEF store, AnswerInv
<1>14. CASE Answered(r)
  BY <1>5, <1>14 DEF Answered, Response, Failures
<1> QED BY <1>4, <1>5, <1>6, <1>7, <1>8, <1>9, <1>10, <1>11, <1>12, <1>13, <1>14 DEF Handle

(* So does every step. *)
LEMMA NextAnswers ==
    ASSUME GuardInv, AnswerInv, TTL > MaxClock, [Next]_vars
    PROVE  AnswerInv'
<1>1. ASSUME NEW r \in Req, NEW q \in Request, Receive(r, q)
      PROVE  AnswerInv'
  BY <1>1 DEF Receive, store, AnswerInv
<1>2. CASE Restart
  BY <1>2, BoundsAssumption DEF Restart, AnswerInv
<1>3. CASE Tick
  <2>1. clock' <= MaxClock
    BY <1>3, BoundsAssumption DEF Tick, GuardInv, TypeInv, TypeOK
  <2> QED BY <1>3, <2>1 DEF Tick, store, AnswerInv
<1>4. CASE UNCHANGED vars
  BY <1>4 DEF vars, store, AnswerInv
<1> QED BY <1>1, <1>2, <1>3, <1>4, HandleAnswers DEF Next

(* While no response expires, a key has one answer, for one request.        *)
THEOREM OneAnswer ==
    ASSUME TTL > MaxClock
    PROVE  Spec => []OneAnswerPerKey
<1>1. Init => AnswerInv
  BY BoundsAssumption DEF Init, AnswerInv
<1>2. GuardInv /\ AnswerInv /\ [Next]_vars => AnswerInv'
  BY NextAnswers
<1>3. GuardInv /\ AnswerInv => OneAnswerPerKey
  <2> SUFFICES ASSUME GuardInv, AnswerInv, NEW a \in told, NEW b \in told,
                      a[1].key = b[1].key, Cacheable(a[2]), Cacheable(b[2])
               PROVE  a = b
    BY DEF OneAnswerPerKey
  <2>1. a[1].body = b[1].body /\ a[2] = b[2]
    BY DEF AnswerInv
  <2>2. a[1] \in Request /\ b[1] \in Request /\ a = <<a[1], a[2]>> /\ b = <<b[1], b[2]>>
    BY DEF GuardInv, TypeInv, TypeOK
  <2>3. a[1] = b[1]
    BY <2>1, <2>2, RequestAssumption
  <2> QED BY <2>1, <2>2, <2>3
<1> QED BY <1>1, <1>2, <1>3, GuardInductive, PTL DEF Spec
=============================================================================
