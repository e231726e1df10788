---------------------------- MODULE FieldOutbox ----------------------------
(***************************************************************************)
(* The outbox of the field application (field_app/lib): the controller,    *)
(* its durable rows and the flush that submits them.                       *)
(*                                                                         *)
(* The application is one event loop.  Only a flush waits for the network, *)
(* so that every other operation may run between two of its steps; an      *)
(* operation that awaits nothing but the local database and the signing    *)
(* key is one step.  Transactions are numbered in the order in which their *)
(* rows are inserted.  A mutation is [seq, at, epoch]: the sequence number *)
(* it is signed with, the time it was sealed at, which stands for its      *)
(* payload too (sealing again changes the payload), and the authority it   *)
(* was signed under.  Authorities are numbered as they are provisioned: to *)
(* the code each is an identifier of its own, with the epoch 1.            *)
(***************************************************************************)
EXTENDS Naturals, FiniteSets, Sequences, FiniteSetsExt

CONSTANTS
    MaxTx,       \* bound on the inspections captured
    MaxSeal,     \* bound on the number of times a mutation is sealed
    MaxSequence, \* bound on sequence numbers
    MaxNet,      \* bound on the requests under way at once
    MaxEpoch,    \* bound on the authorities provisioned
    MaxRestarts, \* bound on the restarts of the application
    Operations,  \* the operator's optional operations that are used
    None

ASSUME OutboxBounds ==
    /\ MaxTx \in Nat /\ MaxSeal \in Nat /\ MaxSequence \in Nat /\ MaxNet \in Nat
    /\ MaxEpoch \in Nat \ {0} /\ MaxRestarts \in Nat
    /\ Operations \subseteq {"edit", "clear", "purge", "expire", "replay", "retry_in_flush"}

Tx == 1..MaxTx

VARIABLES
    rows,        \* the outbox table: a mutation with its state, or None
    sequence,    \* _sequence
    accepted,    \* _lastAcceptedSequence
    draft,       \* activeDraft while it is an unsealed entry: its [tx, seq]
    sheet,       \* the entry shown by the modal review sheet, as [tx, seq]
    todo,        \* the pending entries a running flush has yet to submit
    running,     \* the local sequence of that flush, or None
    sent,        \* the transaction being uploaded: [tx, body], or None
    replaying,   \* whether it is the replay of an accepted entry
    epoch,       \* the authority the session was provisioned with
    valid,       \* whether that authority is still valid
    issued,      \* transaction identifiers drawn so far
    clock,       \* seals made so far
    restarts     \* history: starts of the application so far

durable == <<rows, issued, clock>>
session == <<sequence, accepted, draft, sheet, todo, running, sent, replaying, epoch, valid>>
fieldVars == <<durable, session, restarts>>

Pending      == {"queued", "uploading", "held"}
Acknowledged == {"applied", "duplicate"}
Failure      == {"rejected", "conflict", "securityFailure"}
State        == Pending \cup Acknowledged \cup Failure \cup {"abandoned"}

Body  == [seq : 1..MaxSequence, at : 1..MaxSeal, epoch : 1..MaxEpoch]
Row   == [seq : 1..MaxSequence, at : 1..MaxSeal, epoch : 1..MaxEpoch, state : State]
Entry == [tx : Tx, seq : 1..MaxSequence]

ASSUME NoneAssumption == None \notin Row \cup Entry \cup [tx : Tx, body : Body] \cup Nat

BodyOf(row) == [seq |-> row.seq, at |-> row.at, epoch |-> row.epoch]

Live      == {t \in Tx : rows[t] # None}
In(states) == {t \in Live : rows[t].state \in states}

(* The largest sequence number of the rows of R in one of the states. *)
Highest(R, states) == Max({0} \cup {R[t].seq : t \in {u \in Tx : R[u] # None /\ R[u].state \in states}})

FieldInit ==
    /\ rows = [t \in Tx |-> None]
    /\ sequence = 0 /\ accepted = 0
    /\ draft = None /\ sheet = None
    /\ todo = <<>> /\ running = None /\ sent = None /\ replaying = FALSE
    /\ epoch = 1 /\ valid = TRUE
    /\ issued = 0 /\ clock = 0 /\ restarts = 0

-----------------------------------------------------------------------------
(* The store: mark writes whatever row the transaction has now. *)
Marked(t, s) == [rows EXCEPT ![t] = IF @ = None THEN None ELSE [@ EXCEPT !.state = s]]

(* reconcileOutboxIdentities.  Entries that are neither acknowledged nor     *)
(* abandoned are numbered on from the accepted sequence in the order of      *)
(* their capture, and signed again unless they already carry that number     *)
(* under the current authority.  The signer may fail after n of them.        *)
Movable(R)     == {t \in Tx : R[t] # None /\ R[t].state \notin Acknowledged \cup {"abandoned"}}
Place(R, t)    == Cardinality({u \in Movable(R) : R[u].at <= R[t].at})
Current(R, t, from, e) == R[t].seq = from + Place(R, t) /\ R[t].epoch = e
Stale(R, from, e, n) == {t \in Movable(R) : Place(R, t) <= n /\ ~Current(R, t, from, e)}

Rebound(R, from, e, n) ==
    [t \in Tx |-> IF t \in Stale(R, from, e, n)
                  THEN [seq |-> from + Place(R, t), at |-> R[t].at, epoch |-> e, state |-> "queued"]
                  ELSE R[t]]

(* The prefixes it can end with: all of them, or up to an entry it must sign. *)
Reaches(R, from, e) ==
    {Cardinality(Movable(R))}
        \cup {Place(R, t) - 1 : t \in {u \in Movable(R) : ~Current(R, u, from, e)}}

(* The table R after n entries, where the session knew the numbers q and a. *)
Reconcile(R, q, a, e) ==
    /\ a + Cardinality(Movable(R)) <= MaxSequence
    /\ \E n \in Reaches(R, a, e) :
          /\ rows' = Rebound(R, a, e, n)
          /\ sequence' = IF Stale(R, a, e, n) = {} THEN q
                         ELSE a + Min({n + 1, Cardinality(Movable(R))})
    /\ accepted' = Max({a, Highest(R, Acknowledged)})

-----------------------------------------------------------------------------
(* The operator.  The review sheet is modal: nothing else is pressed while   *)
(* it is open, but a flush goes on behind it.                                *)

(* beginInspection replaces the draft, an unsealed one too. *)
BeginInspection ==
    /\ sheet = None /\ valid /\ draft # None
    /\ draft' = None
    /\ UNCHANGED <<durable, sequence, accepted, sheet, todo, running, sent, replaying, epoch, valid, restarts>>

(* queueForSync of a new inspection, its draft included. *)
QueueForSync ==
    /\ sheet = None /\ draft = None /\ valid
    /\ issued < MaxTx /\ clock < MaxSeal /\ sequence < MaxSequence
    /\ issued' = issued + 1 /\ clock' = clock + 1 /\ sequence' = sequence + 1
    /\ rows' = [rows EXCEPT ![issued'] =
                  [seq |-> sequence', at |-> clock', epoch |-> epoch, state |-> "queued"]]
    /\ UNCHANGED <<accepted, draft, sheet, todo, running, sent, replaying, epoch, valid, restarts>>

(* queueForSync of an unsealed entry: replace finds its row, unless the row  *)
(* was purged or acknowledged meanwhile.                                     *)
QueueEdited ==
    /\ sheet = None /\ draft # None
    /\ clock < MaxSeal /\ clock' = clock + 1
    /\ rows' = [rows EXCEPT ![draft.tx] =
                  IF @ = None \/ @.state \in Acknowledged THEN @
                  ELSE [seq |-> draft.seq, at |-> clock', epoch |-> epoch, state |-> "queued"]]
    /\ draft' = None
    /\ UNCHANGED <<issued, sequence, accepted, sheet, todo, running, sent, replaying, epoch, valid, restarts>>

OpenSheet(t) ==
    /\ "edit" \in Operations /\ sheet = None
    /\ t \in In({"queued", "held"} \cup Failure)
    /\ sheet' = [tx |-> t, seq |-> rows[t].seq]
    /\ UNCHANGED <<durable, sequence, accepted, draft, todo, running, sent, replaying, epoch, valid, restarts>>

CloseSheet ==
    /\ sheet # None /\ sheet' = None
    /\ UNCHANGED <<durable, sequence, accepted, draft, todo, running, sent, replaying, epoch, valid, restarts>>

EditOutboxEntry ==
    /\ sheet # None
    /\ rows' = Marked(sheet.tx, "abandoned")
    /\ draft' = sheet
    /\ sheet' = None
    /\ UNCHANGED <<issued, clock, sequence, accepted, todo, running, sent, replaying, epoch, valid, restarts>>

RetryFailedOutbox_NotRejected ==
    /\ sheet = None /\ In({"held", "conflict", "securityFailure"}) # {} /\ running = None
    /\ Reconcile([t \in Tx |-> IF t \in In({"held", "conflict", "securityFailure"})
                               THEN [rows[t] EXCEPT !.state = "queued"] ELSE rows[t]],
                 sequence, accepted, epoch)
    /\ UNCHANGED <<issued, clock, draft, sheet, todo, running, sent, replaying, epoch, valid, restarts>>
RetryFailedOutbox ==
    /\ sheet = None /\ In(Failure \cup {"held"}) # {}
    /\ running = None \/ "retry_in_flush" \in Operations
    /\ Reconcile([t \in Tx |-> IF t \in In(Failure \cup {"held"}) THEN [rows[t] EXCEPT !.state = "queued"]
                               ELSE rows[t]],
                 sequence, accepted, epoch)
    /\ UNCHANGED <<issued, clock, draft, sheet, todo, running, sent, replaying, epoch, valid, restarts>>

ClearFailures ==
    /\ "clear" \in Operations /\ sheet = None /\ In(Failure) # {}
    /\ rows' = [t \in Tx |-> IF t \in In(Failure) THEN [rows[t] EXCEPT !.state = "abandoned"] ELSE rows[t]]
    /\ UNCHANGED <<issued, clock, session, restarts>>

ClearApplied_Failures ==
    /\ "purge" \in Operations /\ sheet = None /\ In(Acknowledged) # {}
    /\ rows' = [t \in Tx |-> IF t \notin In(Pending) THEN None ELSE rows[t]]
    /\ UNCHANGED <<issued, clock, session, restarts>>
ClearApplied ==
    /\ "purge" \in Operations /\ sheet = None /\ In(Acknowledged) # {}
    /\ rows' = [t \in Tx |-> IF t \in In(Acknowledged \cup {"abandoned"}) THEN None ELSE rows[t]]
    /\ UNCHANGED <<issued, clock, session, restarts>>

-----------------------------------------------------------------------------
(* SyncClient.flush: the pending entries are listed once. *)
FlushOutbox ==
    /\ sheet = None /\ running = None /\ ~replaying /\ In(Pending) # {}
    /\ running' = accepted
    /\ \E order \in [1..Cardinality(In(Pending)) -> In(Pending)] :
          /\ \A i, j \in DOMAIN order : i < j => order[i] < order[j]
          /\ todo' = [i \in DOMAIN order |-> [tx |-> order[i], body |-> BodyOf(rows[order[i]])]]
    /\ UNCHANGED <<durable, sequence, accepted, draft, sheet, sent, replaying, epoch, valid, restarts>>

(* SyncGuard.check: what it answers of a listed entry. *)
Denied(b) == IF b.epoch # epoch \/ ~valid THEN "securityFailure"
             ELSE IF b.seq # running + 1 THEN "held" ELSE "allowed"

HoldLocally ==
    /\ todo # <<>> /\ sent = None /\ Denied(Head(todo).body) # "allowed"
    /\ rows' = Marked(Head(todo).tx, Denied(Head(todo).body))
    /\ todo' = Tail(todo)
    /\ UNCHANGED <<issued, clock, sequence, accepted, draft, sheet, running, sent, replaying, epoch, valid, restarts>>

Submit ==
    /\ todo # <<>> /\ sent = None /\ Denied(Head(todo).body) = "allowed"
    /\ rows' = Marked(Head(todo).tx, "uploading")
    /\ sent' = Head(todo)
    /\ todo' = Tail(todo)
    /\ UNCHANGED <<issued, clock, sequence, accepted, draft, sheet, running, replaying, epoch, valid, restarts>>

(* replayLatestAuthoritative sends the last accepted entry once more. *)
Replay ==
    /\ "replay" \in Operations /\ sheet = None /\ In(Acknowledged) # {}
    /\ running = None /\ ~replaying
    /\ LET t == Max(In(Acknowledged)) IN sent' = [tx |-> t, body |-> BodyOf(rows[t])]
    /\ replaying' = TRUE
    /\ UNCHANGED <<durable, sequence, accepted, draft, sheet, todo, running, epoch, valid, restarts>>

(* The transport answers: an outcome of the server, queued when nothing came  *)
(* back in time, rejected for any status that is not 2xx.                     *)
Answered_ReplayForgotten(o) ==
    /\ sent # None
    /\ rows' = Marked(sent.tx, o)
    /\ running' = IF ~replaying /\ o \in Acknowledged THEN sent.body.seq ELSE running
    /\ sent' = None
    /\ UNCHANGED <<issued, clock, sequence, accepted, draft, sheet, todo, replaying, epoch, valid, restarts>>
Answered(o) ==
    /\ sent # None
    /\ rows' = Marked(sent.tx, o)
    /\ running' = IF ~replaying /\ o \in Acknowledged THEN sent.body.seq ELSE running
    /\ sent' = None
    /\ replaying' = FALSE
    /\ UNCHANGED <<issued, clock, sequence, accepted, draft, sheet, todo, epoch, valid, restarts>>

EndFlush_NotDerived ==
    /\ running # None /\ todo = <<>> /\ sent = None
    /\ running' = None
    /\ UNCHANGED <<durable, sequence, accepted, draft, sheet, todo, sent, replaying, epoch, valid, restarts>>
EndFlush ==
    /\ running # None /\ todo = <<>> /\ sent = None
    /\ accepted' = Max({accepted, Highest(rows, Acknowledged)})
    /\ running' = None
    /\ UNCHANGED <<durable, sequence, draft, sheet, todo, sent, replaying, epoch, valid, restarts>>

-----------------------------------------------------------------------------
(* The authority lapses while the session goes on. *)
Expire ==
    /\ "expire" \in Operations /\ valid /\ valid' = FALSE
    /\ UNCHANGED <<durable, sequence, accepted, draft, sheet, todo, running, sent, replaying, epoch, restarts>>

(* The process ends anywhere.  The next start takes up the cached session     *)
(* while its authority is valid and the cache can be read, provisions another *)
(* otherwise, and main restores the outbox and reconciles it.                 *)
Session ==
    \/ valid /\ UNCHANGED <<epoch, valid>>
    \/ epoch < MaxEpoch /\ epoch' = epoch + 1 /\ valid' = TRUE

Restart ==
    /\ restarts < MaxRestarts /\ restarts' = restarts + 1
    /\ Session
    /\ Reconcile(rows, Highest(rows, Pending), Highest(rows, Acknowledged), epoch')
    /\ draft' = None /\ sheet' = None
    /\ todo' = <<>> /\ running' = None /\ sent' = None /\ replaying' = FALSE
    /\ UNCHANGED <<issued, clock>>

Operator ==
    \/ BeginInspection \/ QueueForSync \/ QueueEdited
    \/ \E t \in Tx : OpenSheet(t)
    \/ CloseSheet \/ EditOutboxEntry
    \/ RetryFailedOutbox \/ ClearFailures \/ ClearApplied
    \/ FlushOutbox \/ Replay
=============================================================================
