-------------------------- MODULE DeviceEnrollment --------------------------
(***************************************************************************)
(* Enrolment and revocation of one device (internal/deviceenrollhttp), the *)
(* tables they write, and the request-time caches that authorize it: the   *)
(* sync processor's device map and the authority registry, loaded at the   *)
(* start of the process.                                                   *)
(*                                                                         *)
(* A handler is a call of several steps: under the handler's mutex, or one *)
(* transaction of the repository each.  Any database step may fail, which  *)
(* ends the call with an error.  Sessions, roles, self-approval, the       *)
(* challenge's and the approval's expiry, which only refuse, and the       *)
(* signatures are left out.  A request's record is known by its            *)
(* generation: submitProof replaces it.                                    *)
(***************************************************************************)
EXTENDS Naturals, FiniteSets

CONSTANTS
    Req,          \* enrolment requests for the device's key
    Call,         \* calls of the handlers
    MaxAuthority     \* bound: the device's authority epoch

ASSUME EnrolAssumption == MaxAuthority \in Nat \ {0}

VARIABLES
    rec,          \* Handler.requests
    dev,          \* device_registry; epoch 0: no row
    auth,         \* authority_package: every package ever saved
    revoked,      \* the packages with revoked_at
    proc,         \* Processor.devices; epoch 0: no entry
    registry,     \* AuthorityRegistry
    calls,        \* the calls under way
    spent,        \* identifiers of calls made
    granted,      \* history: approvals of the domain, with their request
    withdrawn     \* history: the last change of the device is an answered revocation

enrolVars == <<rec, dev, auth, revoked, proc, registry, calls, spent, granted, withdrawn>>

Device == [state : {"none", "TRUSTED", "REVOKED"}, epoch : 0..MaxAuthority]
NoDevice == [state |-> "none", epoch |-> 0]
Package == [id : Call, epoch : 1..MaxAuthority]
ProofCall  == [id : Call, kind : {"proof"}, req : Req]
ApproveCall == [id : Call, kind : {"read", "device", "authority"}, req : Req, gen : 0..Cardinality(Call)]
RevokeCall == [id : Call, kind : {"save", "list", "each"}, epoch : 1..MaxAuthority, left : SUBSET Package]

EnrolTypeOK ==
    /\ rec \in [Req -> [status : {"none", "PENDING", "APPROVED", "lost"}, proved : BOOLEAN, gen : 0..Cardinality(Call)]]
    /\ dev \in Device /\ proc \in Device
    /\ \A d \in {dev, proc} : d.state = "none" <=> d.epoch = 0
    /\ auth \subseteq Package /\ revoked \subseteq auth /\ registry \subseteq auth
    /\ calls \subseteq ProofCall \cup ApproveCall \cup RevokeCall
    /\ \A c, d \in calls : c.id = d.id => c = d
    /\ spent \subseteq Call
    /\ granted \subseteq [id : Call, req : Req]
    /\ withdrawn \in BOOLEAN

NoRequest == [status |-> "none", proved |-> FALSE, gen |-> 0]

EnrolInit ==
    /\ rec = [r \in Req |-> NoRequest]
    /\ dev = NoDevice /\ proc = NoDevice
    /\ auth = {} /\ revoked = {} /\ registry = {}
    /\ calls = {} /\ spent = {} /\ granted = {} /\ withdrawn = FALSE

-----------------------------------------------------------------------------
tables_   == <<dev, auth, revoked>>
caches_   == <<proc, registry>>
history_  == <<granted, withdrawn>>

Opens(c) == c.id \notin spent /\ spent' = spent \cup {c.id} /\ calls' = calls \cup {c}
Ends(c)  == calls' = calls \ {c} /\ UNCHANGED spent
Goes(c, d) == calls' = (calls \ {c}) \cup {d} /\ UNCHANGED spent

CreateRequest(r) ==
    /\ rec[r].status = "none"
    /\ rec' = [rec EXCEPT ![r] = [status |-> "PENDING", proved |-> FALSE, gen |-> 0]]
    /\ UNCHANGED <<tables_, caches_, calls, spent, history_>>

(* submitProof: the record is read, the proof checked, the record replaced.   *)
ReadChallenge(n, r) ==
    /\ rec[r].status = "PENDING" /\ ~rec[r].proved
    /\ Opens([id |-> n, kind |-> "proof", req |-> r])
    /\ UNCHANGED <<rec, tables_, caches_, history_>>

Consumed_Unchecked(r) == FALSE
Consumed(r) == rec[r].proved

SubmitProof(c) ==
    /\ c.kind = "proof"
    /\ Ends(c)
    /\ rec' = IF Consumed(c.req) THEN rec
              ELSE [rec EXCEPT ![c.req] = [status |-> "PENDING", proved |-> TRUE, gen |-> @.gen + 1]]
    /\ UNCHANGED <<tables_, caches_, history_>>

(* approveRequest: the record is read, approved under the mutex if it is      *)
(* still the same, and the device and its authority package are saved.        *)
ReadRequest(n, r) ==
    /\ rec[r].proved
    /\ Opens([id |-> n, kind |-> "read", req |-> r, gen |-> rec[r].gen])
    /\ UNCHANGED <<rec, tables_, caches_, history_>>

ApproveEnrollment(c) ==
    /\ c.kind = "read"
    /\ \/ /\ rec[c.req].gen = c.gen /\ rec[c.req].status = "PENDING"
          /\ rec' = [rec EXCEPT ![c.req].status = "APPROVED"]
          /\ granted' = granted \cup {[id |-> c.id, req |-> c.req]}
          /\ Goes(c, [c EXCEPT !.kind = "device"])
       \/ /\ rec[c.req].gen # c.gen \/ rec[c.req].status # "PENDING"
          /\ Ends(c) /\ UNCHANGED <<rec, granted>>
    /\ UNCHANGED <<tables_, caches_, withdrawn>>

SaveTrusted(c) ==
    /\ c.kind = "device"
    /\ dev' = [state |-> "TRUSTED", epoch |-> 1]
    /\ withdrawn' = FALSE
    /\ Goes(c, [c EXCEPT !.kind = "authority"])
    /\ UNCHANGED <<rec, auth, revoked, caches_, granted>>

SaveAuthority_Cached(c) ==
    /\ c.kind = "authority"
    /\ auth' = auth \cup {[id |-> c.id, epoch |-> 1]}
    /\ registry' = registry \cup {[id |-> c.id, epoch |-> 1]}
    /\ proc' = [state |-> "TRUSTED", epoch |-> 1]
    /\ Ends(c)
    /\ UNCHANGED <<rec, dev, revoked, history_>>
SaveAuthority(c) ==
    /\ c.kind = "authority"
    /\ auth' = auth \cup {[id |-> c.id, epoch |-> 1]}
    /\ Ends(c)
    /\ UNCHANGED <<rec, dev, revoked, caches_, history_>>

-----------------------------------------------------------------------------
(* revokeDevice: the device is read and refused unless it can be revoked,     *)
(* saved as revoked, its packages are listed and revoked one by one, and the  *)
(* caches are told.                                                           *)
ReadDevice(n) ==
    /\ dev.state = "TRUSTED" /\ dev.epoch < MaxAuthority
    /\ Opens([id |-> n, kind |-> "save", epoch |-> dev.epoch + 1, left |-> {}])
    /\ UNCHANGED <<rec, tables_, caches_, history_>>

SaveRevoked(c) ==
    /\ c.kind = "save"
    /\ dev' = [state |-> "REVOKED", epoch |-> c.epoch]
    /\ Goes(c, [c EXCEPT !.kind = "list"])
    /\ UNCHANGED <<rec, auth, revoked, caches_, history_>>

ListAuthorities(c) ==
    /\ c.kind = "list"
    /\ Goes(c, [c EXCEPT !.kind = "each", !.left = auth \ revoked])
    /\ UNCHANGED <<rec, tables_, caches_, history_>>

(* A package another call has revoked meanwhile is not found: an error.       *)
RevokeAuthority(c, a) ==
    /\ c.kind = "each" /\ a \in c.left
    /\ revoked' = revoked \cup {a}
    /\ IF a \in revoked THEN Ends(c) ELSE Goes(c, [c EXCEPT !.left = @ \ {a}])
    /\ UNCHANGED <<rec, dev, auth, caches_, history_>>

Withdraw == proc' = NoDevice /\ registry' = {}

OnDeviceRevoked(c) ==
    /\ c.kind = "each" /\ c.left = {}
    /\ Withdraw
    /\ withdrawn' = (dev.state = "REVOKED")
    /\ Ends(c)
    /\ UNCHANGED <<rec, tables_, granted>>

Fails(c) ==
    /\ c.kind \in {"device", "authority", "save", "list", "each"}
    /\ c.kind = "each" => c.left # {}
    /\ Ends(c)
    /\ UNCHANGED <<rec, tables_, caches_, history_>>

-----------------------------------------------------------------------------
(* The process stops; the next one loads the devices and the packages that    *)
(* are not revoked (loadFromPostgres).  The requests are lost.                *)
Loaded == dev
ServerRestart ==
    /\ proc' = Loaded /\ registry' = auth \ revoked
    /\ rec' = [r \in Req |-> IF rec[r] = NoRequest THEN NoRequest ELSE [NoRequest EXCEPT !.status = "lost"]]
    /\ calls' = {}
    /\ UNCHANGED <<tables_, spent, history_>>

EnrolNext ==
    \/ \E r \in Req : CreateRequest(r)
    \/ \E n \in Call, r \in Req : ReadChallenge(n, r) \/ ReadRequest(n, r)
    \/ \E n \in Call : ReadDevice(n)
    \/ \E c \in calls :
        \/ SubmitProof(c) \/ ApproveEnrollment(c) \/ SaveTrusted(c) \/ SaveAuthority(c)
        \/ SaveRevoked(c) \/ ListAuthorities(c) \/ OnDeviceRevoked(c) \/ Fails(c)
        \/ c.kind = "each" /\ \E a \in c.left : RevokeAuthority(c, a)
    \/ ServerRestart

EnrolSpec == EnrolInit /\ [][EnrolNext]_enrolVars
-----------------------------------------------------------------------------
(* Validation of a transaction's authority (ValidateAuthorityPackage).        *)
Authorised == proc.state = "TRUSTED" /\ \E a \in registry : a.epoch = proc.epoch

(* "stop authorizing work immediately rather than at the next process         *)
(* restart": once a revocation was answered, nothing authorizes the device,   *)
(* in this process or a later one, before an approval saves it as trusted     *)
(* again, whatever approval or revocation was under way.                      *)
WithdrawnNeverAuthorises == withdrawn => ~Authorised

(* "concurrent approvals of the same request serialize and the second one     *)
(* fails closed": however proofs and approvals of a request race, it is       *)
(* approved once.                                                             *)
SingleUse == \A g, h \in granted : g.req = h.req => g = h
=============================================================================
