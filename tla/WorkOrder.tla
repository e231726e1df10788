----------------------------- MODULE WorkOrder -----------------------------
(***************************************************************************)
(* The work-order service (internal/domain/workorder, internal/            *)
(* workorderpg): commands with an idempotency key and the revision their   *)
(* client saw, validated outside the transaction, looked up in the         *)
(* operation log, and applied by a transaction that locks the order.       *)
(*                                                                         *)
(* One order of one tenant, its assignments, its submission segments and   *)
(* one provisional record.  A call is four steps, those between which      *)
(* another transaction may commit: the order read and the validation, the  *)
(* lookup of a receipt, the transaction's own lookup, and, once the row of *)
(* the order is locked, everything to the commit.  A transaction that      *)
(* fails leaves nothing; authorization and the calibration gate, which     *)
(* change no state, are left out, and the scope items of an assignment     *)
(* with them: an inspection belongs to the assignment it was made under.   *)
(***************************************************************************)
EXTENDS Naturals, Sequences, FiniteSets

CONSTANTS
    Key,          \* idempotency keys; each is its operation's identifier too
    Asg,          \* assignments
    Insp,         \* inspections
    Fingerprint,  \* fingerprints of a provisional record
    Goal,         \* bound: the states a client asks for
    Held,         \* the assignment of an order under way
    MaxRev,       \* bound: revisions of the order
    MaxCall,      \* bound: calls
    MaxOpen,      \* bound: calls under way at once
    NoAsg,        \* no assignment
    NoFingerprint \* no provisional record

VARIABLES
    order,        \* the work_order row; revision 0: no row
    asg,          \* work_order_assignment: the state of each
    insp,         \* inspection_record: assignment and finalization state
    segment,      \* work_order_submission_segment with its items
    prov,         \* work_order_provisional_record
    log,          \* work_order_operation, in the order of commit
    call,         \* the calls made of the service, in order
    answers       \* history: the answers given

woRows == <<order, asg, insp, segment, prov>>
woVars == <<woRows, log, call, answers>>

Execution == {"ready", "assigned", "in_progress", "suspended", "partially_submitted",
              "awaiting_client", "awaiting_review", "completed"}
Final   == {"none", "OPEN", "SUBMITTED"}
Outcome == {"matched", "rejected"}

ASSUME WoAssumption ==
    /\ Goal \subseteq Execution /\ Held \in Asg
    /\ MaxRev \in Nat \ 0..2 /\ MaxCall \in Nat /\ MaxOpen \in Nat

Next_(from) ==
    CASE from = "ready"       -> {"assigned"}
      [] from = "assigned"    -> {"in_progress"}
      [] from = "in_progress" -> {"suspended", "partially_submitted", "awaiting_client",
                                  "awaiting_review", "completed"}
      [] from = "partially_submitted" -> {"in_progress", "awaiting_review", "completed"}
      [] from \in {"suspended", "awaiting_client", "awaiting_review"} -> {"in_progress", "completed"}
      [] OTHER -> {}
CanTransition(from, to) == from = to \/ to \in Next_(from)

(* A command says which revision and state its client saw. *)
Command ==
         [kind : {"create", "evidence"}, rev : 0..MaxRev]
    \cup [kind : {"assign"}, rev : 0..MaxRev, asg : Asg]
    \cup [kind : {"transition"}, rev : 0..MaxRev, from : Execution, to : Goal]
    \cup [kind : {"submit"}, rev : 0..MaxRev, asg : Asg, insp : SUBSET Insp]
    \cup [kind : {"reassign"}, rev : 0..MaxRev, prev : Asg, asg : Asg]
    \cup [kind : {"certify"}, rev : 0..MaxRev, insp : SUBSET Insp]
    \cup [kind : {"reconcile"}, rev : 0..MaxRev, print : Fingerprint, outcome : Outcome]

Bumping == {"assign", "transition", "submit", "reassign", "certify"}

WoTypeOK ==
    /\ order \in [rev : 0..MaxRev, state : Execution, cert : BOOLEAN]
    /\ asg \in [Asg -> {"none", "active", "transferred"}]
    /\ insp \in [Insp -> [asg : Asg \cup {NoAsg}, final : Final]]
    /\ segment \subseteq [key : Key, asg : Asg, insp : SUBSET Insp]
    /\ prov \in [print : Fingerprint \cup {NoFingerprint}, outcome : Outcome]
    /\ log \in Seq([key : Key, cmd : Command, rev : 0..MaxRev])
    /\ call \in Seq([phase : {"validate", "find", "start", "commit", "done"},
                    key : Key, cmd : Command])
    /\ answers \subseteq [key : Key, accepted : BOOLEAN, rev : 0..MaxRev]

(* No order yet, or one under way whose earlier operations had other keys. *)
WoInit ==
    /\ \/ /\ order = [rev |-> 0, state |-> "ready", cert |-> FALSE]
          /\ asg = [a \in Asg |-> "none"]
       \/ /\ order = [rev |-> 3, state |-> "in_progress", cert |-> FALSE]
          /\ asg = [a \in Asg |-> IF a = Held THEN "active" ELSE "none"]
    /\ insp = [i \in Insp |-> [asg |-> NoAsg, final |-> "none"]]
    /\ segment = {} /\ prov = [print |-> NoFingerprint, outcome |-> "rejected"]
    /\ log = <<>> /\ call = <<>> /\ answers = {}

-----------------------------------------------------------------------------
Logged(k)  == \E e \in 1..Len(log) : log[e].key = k
Receipt(k) == log[CHOOSE e \in 1..Len(log) : log[e].key = k]

(* The Validate...Command functions, against the order as it is read. *)
Valid(cmd) ==
    CASE cmd.kind = "assign"     -> order.state = "ready"
      [] cmd.kind = "transition" -> cmd.from = order.state /\ CanTransition(cmd.from, cmd.to)
      [] cmd.kind = "submit"     -> cmd.insp # {} /\ CanTransition(order.state, "partially_submitted")
      [] cmd.kind = "certify"    -> cmd.insp # {}
      [] OTHER -> TRUE
Loads(cmd) == cmd.kind \notin {"create", "reconcile"}

(* The checks of the transaction on the rows it has locked.                   *)
Submittable_Again(i, a) == insp[i].asg = a /\ insp[i].final # "none"
Submittable(i, a) ==
    /\ insp[i].asg = a /\ insp[i].final = "OPEN"
    /\ \A s \in segment : i \notin s.insp

Reassignable_AnyState(prev, new) == asg[prev] # "none" /\ asg[new] = "none"
Reassignable(prev, new) == asg[prev] = "active" /\ asg[new] = "none"

Current_Any(cmd) == TRUE
Current(cmd) == cmd.rev = order.rev

Admissible(cmd) ==
    /\ Loads(cmd) => order.rev # 0 /\ Valid(cmd) /\ Current(cmd)
    /\ CASE cmd.kind = "create"    -> order.rev = 0
         [] cmd.kind = "assign"    -> asg[cmd.asg] = "none"
         [] cmd.kind = "submit"    -> asg[cmd.asg] = "active" /\ \A i \in cmd.insp : Submittable(i, cmd.asg)
         [] cmd.kind = "reassign"  -> Reassignable(cmd.prev, cmd.asg)
         [] cmd.kind = "certify"   -> \A i \in cmd.insp : insp[i].final = "SUBMITTED"
         [] cmd.kind = "reconcile" -> prov.print \in {NoFingerprint, cmd.print}
         [] OTHER -> TRUE

NewState(cmd) ==
    CASE cmd.kind \in {"assign", "reassign"} -> "assigned"
      [] cmd.kind = "transition" -> cmd.to
      [] cmd.kind = "submit" -> "partially_submitted"
      [] OTHER -> order.state

NewRev(cmd) ==
    CASE cmd.kind = "create" -> 1
      [] cmd.kind = "reconcile" -> cmd.rev
      [] cmd.kind = "evidence" -> order.rev
      [] OTHER -> order.rev + 1

Finalised(cmd) ==
    [i \in Insp |-> IF cmd.kind = "submit" /\ i \in cmd.insp
                    THEN [insp[i] EXCEPT !.final = "SUBMITTED"] ELSE insp[i]]

Effect(k, cmd) ==
    /\ order' = IF cmd.kind = "create" THEN [order EXCEPT !.rev = 1]
                ELSE IF cmd.kind \in Bumping
                THEN [rev |-> NewRev(cmd), state |-> NewState(cmd), cert |-> order.cert \/ cmd.kind = "certify"]
                ELSE order
    /\ asg' = [a \in Asg |->
                 IF cmd.kind \in {"assign", "reassign"} /\ a = cmd.asg THEN "active"
                 ELSE IF cmd.kind = "reassign" /\ a = cmd.prev THEN "transferred" ELSE asg[a]]
    /\ insp' = Finalised(cmd)
    /\ segment' = IF cmd.kind = "submit"
                  THEN segment \cup {[key |-> k, asg |-> cmd.asg, insp |-> cmd.insp]} ELSE segment
    /\ prov' = IF cmd.kind = "reconcile" THEN [print |-> cmd.print, outcome |-> cmd.outcome] ELSE prov

-----------------------------------------------------------------------------
(* A step of a call.                                                          *)
Becomes(n, phase) == call' = [call EXCEPT ![n].phase = phase]
Answer(n, accepted, rev) ==
    /\ Becomes(n, "done")
    /\ answers' = answers \cup {[key |-> call[n].key, accepted |-> accepted, rev |-> rev]}
Refuse(n) == Answer(n, FALSE, 0) /\ UNCHANGED <<woRows, log>>

(* A client's new command is made from the order as it stands, of rows that   *)
(* exist; the rest is for the service to refuse.  Which of the unused         *)
(* identifiers a client takes for a new row or a new key makes no difference. *)
UnusedAsg == {a \in Asg : asg[a] = "none" /\
                \A n \in 1..Len(call) : "asg" \in DOMAIN call[n].cmd => call[n].cmd.asg # a}
UnusedKey == {k \in Key : \A n \in 1..Len(call) : call[n].key # k}
Named(c) ==
    /\ c.kind \in {"assign", "reassign"} => UnusedAsg # {} /\ c.asg = CHOOSE a \in UnusedAsg : TRUE
    /\ c.kind = "reassign" => asg[c.prev] # "none"
    /\ c.kind = "submit" => asg[c.asg] # "none"
    /\ c.kind \in {"submit", "certify"} => \A i \in c.insp : insp[i].final # "none"
Fresh ==
    {c \in Command :
        /\ c.rev = (IF order.rev = 0 THEN 1 ELSE order.rev)
        /\ (c.kind = "create") <=> (order.rev = 0)
        /\ Valid(c) /\ Named(c)
        /\ c.kind \in Bumping => order.rev < MaxRev}

UnderWay == {n \in 1..Len(call) : call[n].phase # "done"}
Open(k, cmd) ==
    /\ Len(call) < MaxCall /\ Cardinality(UnderWay) < MaxOpen
    /\ call' = Append(call, [phase |-> IF Loads(cmd) THEN "validate" ELSE "find", key |-> k, cmd |-> cmd])
    /\ UNCHANGED <<woRows, log, answers>>

(* A key may be used again for another command, or for the same one.          *)
Send(k)  ==
    /\ k \in UnusedKey => k = CHOOSE unused \in UnusedKey : TRUE
    /\ \E cmd \in Fresh : Open(k, cmd)
Retry(n) == Open(call[n].key, call[n].cmd)

Validate(n) ==
    /\ call[n].phase = "validate"
    /\ IF order.rev # 0 /\ Valid(call[n].cmd)
       THEN Becomes(n, "find") /\ UNCHANGED <<woRows, log, answers>>
       ELSE Refuse(n)

(* execute: a receipt under the key is returned as it is. *)
Find(n) ==
    /\ call[n].phase = "find"
    /\ UNCHANGED <<woRows, log>>
    /\ IF Logged(call[n].key) THEN Answer(n, TRUE, Receipt(call[n].key).rev)
       ELSE Becomes(n, "start") /\ UNCHANGED answers

(* startMutation: the transaction looks again, and compares the content. *)
Start(n) ==
    /\ call[n].phase = "start"
    /\ UNCHANGED <<woRows, log>>
    /\ IF ~Logged(call[n].key) THEN Becomes(n, "commit") /\ UNCHANGED answers
       ELSE IF Receipt(call[n].key).cmd = call[n].cmd THEN Answer(n, TRUE, Receipt(call[n].key).rev)
       ELSE Answer(n, FALSE, 0)

(* finishMutation inserts the operation; its unique key refuses a second one. *)
Insertable_Always(k) == TRUE
Insertable(k) == ~Logged(k)

Commit(n) ==
    /\ call[n].phase = "commit"
    /\ LET k == call[n].key  cmd == call[n].cmd IN
       IF Admissible(cmd) /\ Insertable(k)
       THEN /\ Effect(k, cmd)
            /\ log' = Append(log, [key |-> k, cmd |-> cmd, rev |-> NewRev(cmd)])
            /\ Answer(n, TRUE, NewRev(cmd))
       ELSE Refuse(n)

(* An inspection made under an active assignment, completed and open. *)
Inspected(i, a) ==
    /\ insp[i].final = "none" /\ asg[a] = "active"
    /\ insp' = [insp EXCEPT ![i] = [asg |-> a, final |-> "OPEN"]]
    /\ UNCHANGED <<order, asg, segment, prov, log, call, answers>>

WoNext ==
    \/ \E k \in Key : Send(k)
    \/ \E n \in 1..Len(call) : Retry(n) \/ Validate(n) \/ Find(n) \/ Start(n) \/ Commit(n)
    \/ \E i \in Insp, a \in Asg : Inspected(i, a)

WoSpec == WoInit /\ [][WoNext]_woVars

-----------------------------------------------------------------------------
(* No update is lost (bumpOrder, the revision checks of postgres.go): the     *)
(* operations that change the order carry consecutive revisions that end at   *)
(* the order's, and each was built on the revision just before its own.       *)
Bumps == {e \in 1..Len(log) : log[e].cmd.kind \in Bumping}
NoLostUpdate ==
    /\ {log[e].rev : e \in Bumps} = (order.rev - Cardinality(Bumps) + 1)..order.rev
    /\ \A e \in Bumps : log[e].rev = log[e].cmd.rev + 1

(* However often, and however concurrently, a command is sent, it is applied  *)
(* once (findReceipt, finishMutation), and every receipt given for its key is   *)
(* the one that was logged.                                                   *)
AppliedOnce ==
    /\ \A e, f \in 1..Len(log) : log[e].key = log[f].key => e = f
    /\ \A t \in answers : t.accepted => Logged(t.key) /\ Receipt(t.key).rev = t.rev

(* An inspection is submitted exactly when one segment holds it, and that     *)
(* segment is of the assignment it was made under (inspection_membership.go): *)
(* work is neither submitted twice nor marked without a segment.              *)
SubmittedOnce ==
    /\ \A i \in Insp : insp[i].final = "SUBMITTED" <=> \E s \in segment : i \in s.insp
    /\ \A s, t \in segment : s # t => s.insp \cap t.insp = {}
    /\ \A s \in segment, i \in Insp : i \in s.insp => insp[i].asg = s.asg

(* Whatever assignments and reassignments race, at most one assignment of the *)
(* order is active (AssignScope only from ready, ReassignScope only from an   *)
(* active one under the order's lock), and only once work was assigned.       *)
OneActiveAssignment ==
    /\ \A a, b \in Asg : asg[a] = "active" /\ asg[b] = "active" => a = b
    /\ order.state = "ready" => \A a \in Asg : asg[a] = "none"
=============================================================================
