---------------------------- MODULE OfflineSync ----------------------------
(***************************************************************************)
(* A field application and the server it synchronises with: FieldOutbox, a *)
(* network that loses and delays requests and answers, and /sync as one    *)
(* client sees it.  The server handles one request at a time here, guard,  *)
(* processor and drain in one step: SyncProcessor and IdempotencyGuard     *)
(* show what their interleavings add.                                      *)
(***************************************************************************)
EXTENDS FieldOutbox

VARIABLES
    net,       \* requests on their way, some of them already given up
    cache,     \* sync_idempotency_cache: [body, answer] by transaction
    receipt,   \* sync_receipt: [seq, at, applied] by transaction
    held,      \* sync_held_transaction: the sequence number held
    last,      \* last_accepted_sequence
    lapsed,    \* the authorities that the server's clock is past
    touched    \* history: transactions the operator unsealed or cleared

serverVars == <<net, cache, receipt, held, last, lapsed>>
vars == <<fieldVars, serverVars, touched>>

Request == [tx : Tx, body : Body]
Answers == {"applied", "duplicate", "held", "conflict", "rejected"}
Receipt == [seq : 1..MaxSequence, at : 1..MaxSeal, applied : BOOLEAN]

ASSUME ReceiptAssumption == None \notin Receipt

TypeOK ==
    /\ rows \in [Tx -> Row \cup {None}]
    /\ sequence \in 0..MaxSequence /\ accepted \in 0..MaxSequence /\ last \in Nat
    /\ draft \in Entry \cup {None} /\ sheet \in Entry \cup {None}
    /\ running \in 0..MaxSequence \cup {None} /\ (running = None => todo = <<>>)
    /\ sent \in Request \cup {None} /\ net \subseteq Request
    /\ replaying \in BOOLEAN /\ (replaying => sent # None)
    /\ epoch \in 1..MaxEpoch /\ valid \in BOOLEAN /\ restarts \in 0..MaxRestarts
    /\ lapsed \subseteq 1..MaxEpoch
    /\ issued \in 0..MaxTx /\ clock \in 0..MaxSeal
    /\ cache \in [Tx -> [body : Body, answer : Answers] \cup {None}]
    /\ receipt \in [Tx -> Receipt \cup {None}]
    /\ held \in [Tx -> 1..MaxSequence \cup {None}]
    /\ \A t \in Tx : rows[t] # None => t <= issued

Init ==
    /\ FieldInit
    /\ net = {}
    /\ cache = [t \in Tx |-> None] /\ receipt = [t \in Tx |-> None] /\ held = [t \in Tx |-> None]
    /\ last = 0 /\ lapsed = {} /\ touched = {}

-----------------------------------------------------------------------------
(* The server.  Its outcome names are upper case; SECURITY_FAILURE is none of *)
(* the client's, which reads it as rejected.                                  *)

(* The unique index of (device, sequence) refuses a receipt of its own to t. *)
Taken(n, t) == receipt[t] = None /\ \E u \in Tx \ {t} : receipt[u] # None /\ receipt[u].seq = n

Keep == UNCHANGED <<receipt, held, last>>

(* The held transactions a drain applies once `from` is accepted. *)
Drained(D, from) ==
    /\ {held[t] : t \in D} = (from + 1)..(from + Cardinality(D))
    /\ \A t \in Tx \ D : held[t] # from + Cardinality(D) + 1

AppliedReceipt(t, b) ==
    IF receipt[t] = None THEN [seq |-> b.seq, at |-> b.at, applied |-> TRUE]
    ELSE [receipt[t] EXCEPT !.applied = TRUE]

Accept(t, b) ==
    \E D \in SUBSET {u \in Tx \ {t} : held[u] # None} :
        /\ Drained(D, b.seq)
        /\ receipt' = [u \in Tx |-> IF u = t THEN AppliedReceipt(t, b)
                                    ELSE IF u \in D THEN [receipt[u] EXCEPT !.applied = TRUE] ELSE receipt[u]]
        /\ held' = [u \in Tx |-> IF u \in D \cup {t} THEN None ELSE held[u]]
        /\ last' = b.seq + Cardinality(D)

Hold(t, b) ==
    /\ held' = [held EXCEPT ![t] = b.seq]
    /\ receipt' = [receipt EXCEPT ![t] = IF @ = None THEN [seq |-> b.seq, at |-> b.at, applied |-> FALSE] ELSE @]
    /\ UNCHANGED last

RefuseStale_AsDuplicate(b, a) == b.seq <= last /\ a = "duplicate" /\ Keep
RefuseStale(b, a) == b.seq <= last /\ a = "conflict" /\ Keep

(* SubmitContext and the drain, answering a.  Provisioning only adds to the    *)
(* authorities the server knows: each serves what was signed under it until   *)
(* it lapses, whatever the application has been given since.                  *)
Process(t, b, a) ==
    LET known == receipt[t] # None IN
    \/ b.epoch \in lapsed /\ a = "rejected" /\ Keep
    \/ /\ b.epoch \notin lapsed
       /\ \/ known /\ receipt[t].at # b.at /\ a = "conflict" /\ Keep
          \/ known /\ receipt[t].at = b.at /\ receipt[t].applied /\ a = "duplicate" /\ Keep
          \/ /\ known => receipt[t].at = b.at /\ ~receipt[t].applied
             /\ \/ RefuseStale(b, a)
                \/ b.seq > last /\ Taken(b.seq, t) /\ a = "rejected" /\ Keep
                \/ b.seq > last + 1 /\ ~Taken(b.seq, t) /\ a = "held" /\ Hold(t, b)
                \/ b.seq = last + 1 /\ ~Taken(b.seq, t) /\ a = "applied" /\ Accept(t, b)

(* The guard: a live answer is replayed to the same request and refused, with *)
(* a 409, to another one; without one the request is processed.               *)
Guarded(m, a) ==
    IF cache[m.tx] # None
    THEN a = (IF cache[m.tx].body = m.body THEN cache[m.tx].answer ELSE "rejected")
         /\ UNCHANGED <<cache, receipt, held, last, lapsed>>
    ELSE /\ Process(m.tx, m.body, a) /\ UNCHANGED lapsed
         /\ cache' = [cache EXCEPT ![m.tx] = [body |-> m.body, answer |-> a]]

(* A request is answered while the client still waits for it, or too late. *)
Delivered(a) == sent \in net /\ Guarded(sent, a) /\ net' = net \ {sent} /\ Answered(a) /\ UNCHANGED touched
ServedLate(m, a) == m \in net /\ Guarded(m, a) /\ net' = net \ {m} /\ UNCHANGED <<fieldVars, touched>>

(* The 15 second timeout, and a status that is not 2xx from a limit in front  *)
(* of the handler.                                                            *)
TimesOut == Answered("queued") /\ UNCHANGED <<serverVars, touched>>
Refused  == sent \in net /\ Answered("rejected") /\ net' = net \ {sent}
            /\ UNCHANGED <<cache, receipt, held, last, lapsed, touched>>

Lose(m) == m \in net /\ net' = net \ {m} /\ UNCHANGED <<fieldVars, cache, receipt, held, last, lapsed, touched>>

ResponseExpires(t) ==
    /\ cache[t] # None /\ cache' = [cache EXCEPT ![t] = None]
    /\ UNCHANGED <<fieldVars, net, receipt, held, last, lapsed, touched>>

(* An authority provisioned so far ends by the server's clock, which is not   *)
(* the application's: neither need notice first.                              *)
Lapse(e) ==
    /\ "expire" \in Operations /\ e \in (1..epoch) \ lapsed /\ lapsed' = lapsed \cup {e}
    /\ UNCHANGED <<fieldVars, net, cache, receipt, held, last, touched>>

-----------------------------------------------------------------------------
Sends ==
    /\ Submit \/ Replay
    /\ Cardinality(net) < MaxNet /\ net' = net \cup {sent'}
    /\ UNCHANGED <<cache, receipt, held, last, lapsed, touched>>

Touching ==
    \/ EditOutboxEntry /\ touched' = touched \cup {sheet.tx}
    \/ ClearFailures /\ touched' = touched \cup In(Failure)

Local ==
    \/ BeginInspection \/ QueueForSync \/ QueueEdited \/ (\E t \in Tx : OpenSheet(t)) \/ CloseSheet
    \/ RetryFailedOutbox \/ ClearApplied \/ FlushOutbox
    \/ HoldLocally \/ EndFlush \/ Expire \/ Restart

Network ==
    \/ \E a \in Answers : Delivered(a)
    \/ \E m \in net, a \in Answers : ServedLate(m, a)
    \/ TimesOut \/ Refused
    \/ \E m \in net : Lose(m)
    \/ \E t \in Tx : ResponseExpires(t)
    \/ \E e \in 1..epoch : Lapse(e)

Next ==
    \/ Local /\ UNCHANGED <<serverVars, touched>>
    \/ Touching /\ UNCHANGED serverVars
    \/ Sends
    \/ Network

Spec == Init /\ [][Next]_vars

(* The event loop goes on; the operator keeps pressing the buttons for        *)
(* pending and failed entries, and the device key signs; a request sent again *)
(* and again is answered in time once; a cached response ends.                *)
AllSigned == \A t \in Movable(rows') : Current(rows', t, accepted, epoch)

Fairness ==
    /\ WF_vars((HoldLocally \/ EndFlush) /\ UNCHANGED <<serverVars, touched>>)
    /\ WF_vars(Sends)
    /\ WF_vars(TimesOut)
    /\ SF_vars(FlushOutbox /\ UNCHANGED <<serverVars, touched>>)
    /\ SF_vars(RetryFailedOutbox /\ AllSigned /\ UNCHANGED <<serverVars, touched>>)
    /\ \A a \in Acknowledged : SF_vars(Delivered(a))
    /\ \A m \in Request : WF_vars(Lose(m))
    /\ \A t \in Tx : WF_vars(ResponseExpires(t))

FairSpec == Spec /\ Fairness

-----------------------------------------------------------------------------
(* Properties *)

OnServer(t) == receipt[t] # None /\ receipt[t].applied

(* An entry shown as applied was applied by the server, with the payload it   *)
(* shows unless the operator unsealed it: no late answer, no mark of a row    *)
(* that changed under the flush, no renumbering, no restart acknowledges work *)
(* the server does not have.                                                  *)
AcknowledgedIsApplied ==
    \A t \in In(Acknowledged) : OnServer(t) /\ (t \in touched \/ rows[t].at = receipt[t].at)

(* Captured work is in the outbox or on the server until the operator unseals *)
(* or clears it: "It never silently deletes failed or held work"              *)
(* (field_app/ARCHITECTURE.md).                                               *)
WorkIsKept ==
    \A t \in 1..issued : t \in touched \/ OnServer(t) \/ t \in In(State \ {"abandoned"})

(* Once everything is acknowledged and nothing is under way, the next number  *)
(* the application signs is the one the server expects ("so the next flush    *)
(* can deliver them", reconcileOutboxIdentities).                             *)
Quiet == running = None /\ sent = None /\ net = {} /\ In(Pending \cup Failure) = {}
WatermarksAgree == Quiet /\ touched = {} => accepted = last

(* Captured work is acknowledged in the end, although requests and answers    *)
(* are lost, answers are cached and statuses are refused, while the authority *)
(* lasts on both sides and the application is not restarted.                  *)
Arrived(t) == t \in In(Acknowledged) /\ OnServer(t)
Ended == ~valid \/ epoch \in lapsed
SessionDelivers == \A t \in Tx : t <= issued ~> Arrived(t) \/ Ended \/ restarts > 0

(* The same of an application that is restarted, as reconcileOutboxIdentities *)
(* says of its entries: they are returned "to `queued` so the next flush can  *)
(* deliver them ... (applied becomes a harmless duplicate)".                  *)
RestartDelivers == \A t \in Tx : t <= issued ~> Arrived(t) \/ Ended
=============================================================================
