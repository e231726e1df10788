----------------------------- MODULE TusUpload -----------------------------
(***************************************************************************)
(* Resumable uploads (internal/storage): the sessions TUSManager keeps in  *)
(* memory, the chunk file and the sidecar each has on disk, the janitor    *)
(* and the recovery of a restarted process.                                *)
(*                                                                         *)
(* The bytes of an upload are numbered, so that a chunk sent for an offset *)
(* is the interval that follows it, and a file is whole when it counts     *)
(* from 1 to Size.  Tenant and session identifiers, which every request    *)
(* repeats, are left out.  The mutex makes a request one step; Create and  *)
(* a janitor sweep do not hold it throughout.                              *)
(***************************************************************************)
EXTENDS Naturals, Sequences, FiniteSets

CONSTANTS
    Upload,      \* upload identifiers
    Size,        \* the declared size of an upload
    ChunkSize,   \* chunkSize
    NoUpload     \* no session, no file, no sidecar

ASSUME UploadAssumption ==
    Size \in Nat \ {0} /\ ChunkSize \in Nat \ {0} /\ NoUpload \notin Nat \cup Seq(Nat)

VARIABLES
    offset,     \* sessions: the offset of the uploads in memory
    file,       \* the bytes of the chunk file
    sidecar,    \* the offset the sidecar records
    creating,   \* Create: "new", "file", "registered", "done"
    recent,     \* uploads touched within the stale TTL
    sweep,      \* a janitor sweep: the files it listed, the sessions it saw
    boot,       \* flips when the process starts again
    told,       \* history: the largest offset a client was told of
    failed,     \* history: uploads with a write that failed half-way
    raced,      \* history: uploads created across a sweep's second look
    stored      \* history: the objects handed to the store

memory     == <<offset, creating, sweep, boot>>
disk       == <<file, sidecar>>
tusHistory == <<told, failed, raced, stored>>
tusVars    == <<memory, disk, recent, tusHistory>>

Idle == [phase |-> "idle", chunks |-> {}, sidecars |-> {}, tracked |-> {}]

Bytes(a, n) == [i \in 1..n |-> a + i]
Whole       == Bytes(0, Size)

TusTypeOK ==
    /\ offset \in [Upload -> 0..Size \cup {NoUpload}]
    /\ sidecar \in [Upload -> 0..Size \cup {NoUpload}]
    /\ \A u \in Upload : file[u] = NoUpload \/ \A i \in DOMAIN file[u] : file[u][i] \in 1..Size
    /\ creating \in [Upload -> {"new", "file", "registered", "done"}]
    /\ recent \subseteq Upload /\ failed \cup raced \subseteq Upload /\ boot \in BOOLEAN
    /\ sweep.phase \in {"idle", "listed", "restored"}
    /\ told \in [Upload -> 0..Size]

TusInit ==
    /\ offset = [u \in Upload |-> NoUpload] /\ file = [u \in Upload |-> NoUpload]
    /\ sidecar = [u \in Upload |-> NoUpload]
    /\ creating = [u \in Upload |-> "new"] /\ recent = {} /\ sweep = Idle /\ boot = FALSE
    /\ told = [u \in Upload |-> 0] /\ failed = {} /\ raced = {}
    /\ stored = [u \in Upload |-> NoUpload]

Sessions  == {u \in Upload : offset[u] # NoUpload}
Usable    == {u \in Sessions : creating[u] = "done"}    \* Create has returned its identifier
Gone(f, S) == [u \in Upload |-> IF u \in S THEN NoUpload ELSE f[u]]

-----------------------------------------------------------------------------
(* Create: the empty file, the session, the sidecar; an identifier is random  *)
(* and never used twice.  A sidecar that cannot be written takes the rest     *)
(* with it.                                                                   *)
CreateFile(u) ==
    /\ creating[u] = "new"
    /\ file' = [file EXCEPT ![u] = <<>>]
    /\ creating' = [creating EXCEPT ![u] = "file"]
    /\ recent' = recent \cup {u}
    /\ UNCHANGED <<offset, sidecar, sweep, boot, tusHistory>>

Register(u) ==
    /\ creating[u] = "file"
    /\ offset' = [offset EXCEPT ![u] = 0]
    /\ creating' = [creating EXCEPT ![u] = "registered"]
    /\ UNCHANGED <<disk, recent, sweep, boot, tusHistory>>

CreateDone(u) ==
    /\ creating[u] = "registered"
    /\ creating' = [creating EXCEPT ![u] = "done"]
    /\ \/ sidecar' = [sidecar EXCEPT ![u] = 0] /\ UNCHANGED <<offset, file>>
       \/ offset' = Gone(offset, {u}) /\ file' = Gone(file, {u}) /\ UNCHANGED sidecar
    /\ UNCHANGED <<recent, sweep, boot, tusHistory>>

-----------------------------------------------------------------------------
(* Append of the n bytes that follow `from`.                                  *)
Writable(u, n)      == u \in Usable /\ file[u] # NoUpload /\ offset[u] + n <= Size
Accepts_AnyOffset(u, from, n) == Writable(u, n)
Accepts(u, from, n) == Writable(u, n) /\ from = offset[u]

Grown(u, from, n) == [file EXCEPT ![u] = @ \o Bytes(from, n)]

AppendChunk(u, from, n) ==
    /\ Accepts(u, from, n)
    /\ file' = Grown(u, from, n)
    /\ offset' = [offset EXCEPT ![u] = @ + n]
    /\ sidecar' = [sidecar EXCEPT ![u] = offset'[u]]
    /\ told' = [told EXCEPT ![u] = offset'[u]]
    /\ recent' = recent \cup {u}
    /\ UNCHANGED <<creating, sweep, boot, failed, raced, stored>>

(* The write or its sync fails after k bytes: they stay in the file.          *)
WriteFails(u, from, n, k) ==
    /\ Accepts(u, from, n) /\ k <= n /\ Len(file[u]) + k <= Size + ChunkSize
    /\ file' = Grown(u, from, k)
    /\ failed' = failed \cup {u}
    /\ UNCHANGED <<memory, sidecar, recent, told, raced, stored>>

(* The sidecar fails: the file is cut back, which may fail in its turn.       *)
SidecarFails(u, from, n) ==
    /\ Accepts(u, from, n)
    /\ recent' = recent \cup {u}
    /\ \/ /\ file' = [file EXCEPT ![u] = SubSeq(@ \o Bytes(from, n), 1, from)]
          /\ UNCHANGED <<offset, failed>>
       \/ /\ file' = Grown(u, from, n) /\ offset' = [offset EXCEPT ![u] = @ + n]
          /\ failed' = failed \cup {u}
    /\ UNCHANGED <<sidecar, creating, sweep, boot, told, raced, stored>>

(* The client asks where to resume. *)
QueryOffset(u) ==
    /\ u \in Usable /\ offset[u] # told[u]
    /\ told' = [told EXCEPT ![u] = offset[u]]
    /\ UNCHANGED <<memory, disk, recent, failed, raced, stored>>

(* The session is taken apart before the object reaches the store; a sidecar  *)
(* that cannot be removed stays, and the object is not returned then.         *)
Verified(u)          == offset[u] = Size /\ file[u] = Whole

Reclaim(u) == offset' = Gone(offset, {u}) /\ file' = Gone(file, {u})

Complete(u) ==
    /\ u \in Usable /\ file[u] # NoUpload /\ Verified(u)
    /\ Reclaim(u)
    /\ \/ sidecar' = Gone(sidecar, {u}) /\ stored' \in {stored, [stored EXCEPT ![u] = file[u]]}
       \/ UNCHANGED <<sidecar, stored>>
    /\ UNCHANGED <<creating, recent, sweep, boot, told, failed, raced>>

Abort(u) ==
    /\ u \in Usable /\ file[u] # NoUpload
    /\ Reclaim(u)
    /\ sidecar' \in {sidecar, Gone(sidecar, {u})}
    /\ UNCHANGED <<creating, recent, sweep, boot, tusHistory>>

-----------------------------------------------------------------------------
(* RecoverOrphans.  Pass 1, over the sidecars s and the chunk files f.        *)
Plausible_ExactOnly(f, s, u) ==
    /\ s[u] # NoUpload /\ f[u] # NoUpload /\ u \in recent
    /\ Len(f[u]) = s[u]
Plausible(f, s, u) ==
    /\ s[u] # NoUpload /\ f[u] # NoUpload /\ u \in recent
    /\ Len(f[u]) \in s[u]..Size /\ Len(f[u]) - s[u] <= ChunkSize

(* The janitor's sweep lists the directory and then the sessions, restores or *)
(* removes the untracked sidecars, looks at the sessions again, removes the   *)
(* untracked chunk files and purges the stale sessions.                       *)
SweepList ==
    /\ sweep = Idle
    /\ sweep' = [phase |-> "listed", tracked |-> Sessions,
                 chunks |-> {u \in Upload : file[u] # NoUpload},
                 sidecars |-> {u \in Upload : sidecar[u] # NoUpload}]
    /\ UNCHANGED <<offset, creating, boot, disk, recent, tusHistory>>

SweepRestore ==
    /\ sweep.phase = "listed"
    /\ LET orphans == sweep.sidecars \ sweep.tracked
           back    == {u \in orphans : Plausible(file, sidecar, u)} IN
        /\ offset' = [u \in Upload |-> IF u \in back THEN Len(file[u]) ELSE offset[u]]
        /\ file' = Gone(file, orphans \ back) /\ sidecar' = Gone(sidecar, orphans \ back)
        /\ sweep' = [sweep EXCEPT !.phase = "restored", !.chunks = @ \ (orphans \ back),
                                  !.tracked = @ \cup Sessions \cup back]
    /\ raced' = raced \cup {u \in sweep.chunks : creating[u] = "file"}
    /\ UNCHANGED <<creating, boot, recent, told, failed, stored>>

SweepRemove ==
    /\ sweep.phase = "restored"
    /\ LET garbage == sweep.chunks \ sweep.tracked
           purged  == {u \in Sessions \ recent : file[u] # NoUpload} IN
        /\ file' = Gone(file, garbage \cup purged)
        /\ sidecar' = Gone(sidecar, purged) /\ offset' = Gone(offset, purged)
    /\ sweep' = Idle
    /\ UNCHANGED <<creating, boot, recent, tusHistory>>

GrowStale(u) ==
    /\ u \in recent \cap Usable
    /\ recent' = recent \ {u}
    /\ UNCHANGED <<memory, disk, tusHistory>>

(* The process dies, possibly in the middle of an Append that wrote k of its  *)
(* bytes or of a Complete that removed the file, and starts again:            *)
(* NewTUSManager recovers the directory before it serves anything.            *)
Recovered(f, s) ==
    LET back == {u \in Upload : Plausible(f, s, u)} IN
        /\ offset' = [u \in Upload |-> IF u \in back THEN Len(f[u]) ELSE NoUpload]
        /\ file' = Gone(f, Upload \ back) /\ sidecar' = Gone(s, Upload \ back)
        /\ creating' = [u \in Upload |-> IF creating[u] = "new" THEN "new" ELSE "done"]
        /\ sweep' = Idle /\ boot' = ~boot
        /\ UNCHANGED <<recent, tusHistory>>

TusRestart ==
    \/ Recovered(file, sidecar)
    \/ \E u \in Upload, k \in 1..ChunkSize :
           Accepts(u, offset[u], k) /\ Recovered(Grown(u, offset[u], k), sidecar)
    \/ \E u \in Usable : Verified(u) /\ Recovered(Gone(file, {u}), sidecar)

TusNext ==
    \/ \E u \in Upload :
        \/ CreateFile(u) \/ Register(u) \/ CreateDone(u)
        \/ QueryOffset(u) \/ Complete(u) \/ Abort(u) \/ GrowStale(u)
        \/ \E from \in 0..Size, n \in 1..ChunkSize :
            \/ AppendChunk(u, from, n) \/ SidecarFails(u, from, n)
            \/ \E k \in 1..ChunkSize : WriteFails(u, from, n, k)
    \/ SweepList \/ SweepRestore \/ SweepRemove
    \/ TusRestart

TusSpec == TusInit /\ [][TusNext]_tusVars

-----------------------------------------------------------------------------
(* Properties *)

(* Whatever was retried, reordered, half-written, recovered or restored, the  *)
(* object handed to the store (handleComplete) is the one the client declared. *)
StoredIsWhole == \A u \in Upload : stored[u] \in {NoUpload, Whole}

(* An offset a client was told is backed by bytes on disk as long as the      *)
(* upload exists, in the face of failed writes, restarts and sweeps that race *)
(* with requests.  An upload `raced` is one whose chunk file the sweep listed   *)
(* before it was registered: the sweep takes it for garbage.                   *)
ToldIsOnDisk ==
    \A u \in Usable \ raced : told[u] > 0 =>
        file[u] # NoUpload /\ told[u] <= offset[u] /\ offset[u] <= Len(file[u])

(* As long as no write failed half-way, the chunk file is exactly the first   *)
(* `offset` bytes of the object: the upload can still be completed.           *)
FileIsPrefix ==
    \A u \in Usable \ failed : file[u] # NoUpload => file[u] = Bytes(0, offset[u])

(* What is stored, what the client was told and what is on disk agree.        *)
UploadIntact == StoredIsWhole /\ ToldIsOnDisk /\ FileIsPrefix

(* A process that starts again resumes every fresh, unfinished upload whose   *)
(* sidecar is up to date with at least the bytes its client was told of,      *)
(* whatever the crash cut short.                                              *)
Unfinished(u) == u \in (Usable \cap recent) \ failed /\ file[u] # NoUpload /\ offset[u] < Size
Resumed(u)    == offset'[u] # NoUpload /\ offset'[u] >= told[u]

RestartResumes ==
    [][boot' # boot => \A u \in Upload : Unfinished(u) /\ sidecar[u] = offset[u] => Resumed(u)]_tusVars
=============================================================================
