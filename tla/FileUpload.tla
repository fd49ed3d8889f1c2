----------------------------- MODULE FileUpload -----------------------------
(***************************************************************************)
(* UploadService of python-low-level-design/big-file-upload over a chunk   *)
(* storage.  Coroutines change a session under its lock and talk to the    *)
(* storage without it: a chunk is reserved, written and recorded in three  *)
(* steps, complete() verifies and composes in ASSEMBLING, and collected or *)
(* cancelled uploads lose their temporary chunks afterwards.               *)
(*                                                                         *)
(* Contents stand for their own hashes.  Requests refused by validation or *)
(* by the bandwidth bucket change nothing and are left out, as are file    *)
(* names, the client's retries (any request may come at any time) and the  *)
(* completion hooks except for the virus scan.                             *)
(***************************************************************************)
EXTENDS Naturals, Sequences, FiniteSets, FiniteSetsExt

CONSTANTS
    Upload, Chunks,         \* uploads, and the number of chunks of each
    Content, Expected,      \* chunk contents; the file's chunks by expected_sha256
    Request,                \* requests that may be in upload_chunk
    MaxConcurrent, Quota,   \* per user; a chunk counts one
    Ttl, MaxTime,
    MayDetach,              \* a cancelled write goes on in its worker thread
    MaxRot,                 \* chunks that change at rest
    None

VARIABLES
    status, chunks, inflight, expires,  \* UploadSession
    disk,       \* temporary chunks in the storage
    file,       \* final objects
    request,    \* upload_chunk calls under way
    late,       \* writes of cancelled requests that are still to land
    assembly,   \* complete() under way: next chunk to verify, corrupted ones
    cleaning,   \* uploads whose temporary chunks are about to be deleted
    active, used,   \* UploadLimiter
    now, rot,
    altered,    \* history: temporary chunks changed since they were written or verified
    unverified  \* history: the altered chunks the final object was composed of

vars == <<status, chunks, inflight, expires, disk, file, request, late, assembly, cleaning,
          active, used, now, rot, altered, unverified>>

Index(u) == 1..Chunks[u]
AcceptsChunks == {"INITIATED", "IN_PROGRESS"}
HoldsSlot == AcceptsChunks \cup {"ASSEMBLING"}
Done == {"COMPLETED", "READY", "QUARANTINED"}
Free == [upload |-> None, index |-> 0, data |-> None, step |-> "none"]
NoAssembly == [step |-> "none", next |-> 1, seen |-> <<>>, corrupted |-> {}]
Nothing(u) == [i \in Index(u) |-> None]

Init ==
    /\ status = [u \in Upload |-> "none"] /\ chunks = [u \in Upload |-> Nothing(u)]
    /\ inflight = [u \in Upload |-> {}] /\ expires = [u \in Upload |-> 0]
    /\ disk = [u \in Upload |-> Nothing(u)] /\ file = [u \in Upload |-> None]
    /\ request = [r \in Request |-> Free] /\ late = {} /\ cleaning = {}
    /\ assembly = [u \in Upload |-> NoAssembly] /\ active = {} /\ used = 0 /\ now = 0 /\ rot = 0
    /\ altered = [u \in Upload |-> {}] /\ unverified = [u \in Upload |-> {}]

session == <<status, chunks, inflight, expires>>
limiter == <<active, used>>
history == <<altered, unverified>>
----------------------------------------------------------------------------
\* UploadLimiter.start_upload: all limits at once.
Initiate(u) ==
    /\ status[u] = "none" /\ Cardinality(active) < MaxConcurrent /\ used + Chunks[u] <= Quota
    /\ active' = active \cup {u} /\ used' = used + Chunks[u]
    /\ status' = [status EXCEPT ![u] = "INITIATED"] /\ expires' = [expires EXCEPT ![u] = now + Ttl]
    /\ UNCHANGED <<chunks, inflight, disk, file, request, late, assembly, cleaning, now, rot, history>>

\* UploadLimiter.finish_upload.
Finished(u, refund) ==
    /\ active' = active \ {u}
    /\ used' = IF refund /\ u \in active THEN used - Chunks[u] ELSE used

\* _check_accepting.
Accepting(u) == status[u] \in AcceptsChunks /\ now < expires[u]
----------------------------------------------------------------------------
Reservable(u, i) == chunks[u][i] = None /\ i \notin inflight[u]

\* upload_chunk, phase 1: a stored or reserved chunk is answered at once.
UploadChunk(r, u, i, d) ==
    /\ request[r] = Free /\ Accepting(u) /\ Reservable(u, i)
    /\ inflight' = [inflight EXCEPT ![u] = @ \cup {i}]
    /\ request' = [request EXCEPT ![r] = [upload |-> u, index |-> i, data |-> d, step |-> "write"]]
    /\ UNCHANGED <<status, chunks, expires, disk, file, late, assembly, cleaning, limiter, now, rot, history>>

\* Phase 2: put_chunk is atomic.
PutChunk(r) ==
    /\ request[r].step = "write"
    /\ disk' = [disk EXCEPT ![request[r].upload][request[r].index] = request[r].data]
    /\ altered' = [altered EXCEPT ![request[r].upload] = @ \ {request[r].index}]
    /\ request' = [request EXCEPT ![r].step = "record"]
    /\ UNCHANGED <<session, file, late, assembly, cleaning, limiter, now, rot, unverified>>

\* The write fails, or the request is cancelled while its thread still writes.
PutChunkFails(r) ==
    /\ request[r].step = "write"
    /\ inflight' = [inflight EXCEPT ![request[r].upload] = @ \ {request[r].index}]
    /\ request' = [request EXCEPT ![r] = Free]
    /\ \/ late' = late
       \/ MayDetach /\ late' = late \cup {request[r]}
    /\ UNCHANGED <<status, chunks, expires, disk, file, assembly, cleaning, limiter, now, rot, history>>

LateWrite(w) ==
    /\ late' = late \ {w}
    /\ disk' = [disk EXCEPT ![w.upload][w.index] = w.data]
    /\ altered' = [altered EXCEPT ![w.upload] = @ \cup {w.index}]
    /\ UNCHANGED <<session, file, request, assembly, cleaning, limiter, now, rot, unverified>>

\* Phase 3: recorded unless the upload ended meanwhile.
RecordChunk(r) ==
    LET u == request[r].upload
    IN  /\ request[r].step = "record"
        /\ inflight' = [inflight EXCEPT ![u] = @ \ {request[r].index}]
        /\ request' = [request EXCEPT ![r] = Free]
        /\ IF status[u] \in AcceptsChunks
           THEN /\ chunks' = [chunks EXCEPT ![u][request[r].index] = request[r].data]
                /\ expires' = [expires EXCEPT ![u] = now + Ttl]
                /\ status' = [status EXCEPT ![u] = "IN_PROGRESS"]
           ELSE UNCHANGED <<chunks, expires, status>>
        /\ UNCHANGED <<disk, file, late, assembly, cleaning, limiter, now, rot, history>>
----------------------------------------------------------------------------
Missing(u) == {i \in Index(u) : chunks[u][i] = None}

Completable(u) == Accepting(u) /\ inflight[u] = {} /\ Missing(u) = {}

\* complete() until it releases the lock; a second call returns or is refused.
Complete(u) ==
    /\ Completable(u)
    /\ status' = [status EXCEPT ![u] = "ASSEMBLING"]
    /\ assembly' = [assembly EXCEPT ![u] = [NoAssembly EXCEPT !.step = "verify"]]
    /\ UNCHANGED <<chunks, inflight, expires, disk, file, request, late, cleaning, limiter, now, rot, history>>

Verify(u) ==
    LET i == assembly[u].next
    IN  /\ assembly[u].step = "verify" /\ i <= Chunks[u] /\ disk[u][i] # None
        /\ assembly' = [assembly EXCEPT ![u].next = i + 1, ![u].seen = Append(@, disk[u][i]),
                            ![u].corrupted = IF disk[u][i] = chunks[u][i] THEN @ ELSE @ \cup {i}]
        /\ altered' = [altered EXCEPT ![u] = IF disk[u][i] = chunks[u][i] THEN @ \ {i} ELSE @]
        /\ UNCHANGED <<session, disk, file, request, late, cleaning, limiter, now, rot, unverified>>

Verified(u) == assembly[u].step = "verify" /\ assembly[u].next > Chunks[u]

\* Corrupted chunks are forgotten; the client sends them again.
DropCorrupted(u) ==
    /\ Verified(u) /\ assembly[u].corrupted # {}
    /\ chunks' = [chunks EXCEPT ![u] = [i \in Index(u) |-> IF i \in assembly[u].corrupted THEN None ELSE @[i]]]
    /\ status' = [status EXCEPT ![u] = "IN_PROGRESS"]
    /\ assembly' = [assembly EXCEPT ![u] = NoAssembly]
    /\ UNCHANGED <<inflight, expires, disk, file, request, late, cleaning, limiter, now, rot, history>>

\* The whole file is not the one the client announced.
Mismatch(u) ==
    /\ Verified(u) /\ assembly[u].corrupted = {} /\ assembly[u].seen # Expected[u]
    /\ status' = [status EXCEPT ![u] = "FAILED"] /\ Finished(u, TRUE)
    /\ assembly' = [assembly EXCEPT ![u] = NoAssembly] /\ cleaning' = cleaning \cup {u}
    /\ UNCHANGED <<chunks, inflight, expires, disk, file, request, late, now, rot, history>>

Compose(u) ==
    /\ Verified(u) /\ assembly[u].corrupted = {} /\ assembly[u].seen = Expected[u]
    /\ Missing(u) = {} /\ \A i \in Index(u) : disk[u][i] # None
    /\ file' = [file EXCEPT ![u] = disk[u]] /\ assembly' = [assembly EXCEPT ![u].step = "commit"]
    /\ unverified' = [unverified EXCEPT ![u] = altered[u]]
    /\ UNCHANGED <<session, disk, request, late, cleaning, limiter, now, rot, altered>>

\* A storage error while verifying or composing: the client calls again.
AssemblyFails(u) ==
    /\ assembly[u].step = "verify"
    /\ status' = [status EXCEPT ![u] = "IN_PROGRESS"] /\ assembly' = [assembly EXCEPT ![u] = NoAssembly]
    /\ UNCHANGED <<chunks, inflight, expires, disk, file, request, late, cleaning, limiter, now, rot, history>>

Commit(u) ==
    /\ assembly[u].step = "commit"
    /\ status' = [status EXCEPT ![u] = "COMPLETED"] /\ Finished(u, FALSE)
    /\ assembly' = [assembly EXCEPT ![u] = NoAssembly] /\ cleaning' = cleaning \cup {u}
    /\ UNCHANGED <<chunks, inflight, expires, disk, file, request, late, now, rot, history>>
----------------------------------------------------------------------------

Quiet(u) == inflight[u] = {}

\* cancel and collect_garbage.
End(u, new) ==
    /\ status[u] \in AcceptsChunks /\ Quiet(u)
    /\ new = "EXPIRED" => expires[u] <= now
    /\ status' = [status EXCEPT ![u] = new] /\ Finished(u, TRUE)
    /\ cleaning' = cleaning \cup {u}
    /\ UNCHANGED <<chunks, inflight, expires, disk, file, request, late, assembly, now, rot, history>>

\* delete_prefix, after the status is final.
DeletePrefix(u) ==
    /\ u \in cleaning /\ cleaning' = cleaning \ {u} /\ disk' = [disk EXCEPT ![u] = Nothing(u)]
    /\ altered' = [altered EXCEPT ![u] = {}]
    /\ UNCHANGED <<session, file, request, late, assembly, limiter, now, rot, unverified>>

RecordScanResult(u, clean) ==
    /\ status[u] = "COMPLETED" \/ (status[u] = "QUARANTINED" /\ clean)
    /\ status' = [status EXCEPT ![u] = IF clean THEN "READY" ELSE "QUARANTINED"]
    /\ UNCHANGED <<chunks, inflight, expires, disk, file, request, late, assembly, cleaning, limiter, now, rot, history>>

\* Bytes change at rest, before complete() verifies them or between its
\* verification and the compose.
Rot(u, i, d) ==
    /\ rot < MaxRot /\ disk[u][i] # None /\ rot' = rot + 1
    /\ disk' = [disk EXCEPT ![u][i] = d]
    /\ altered' = [altered EXCEPT ![u] = @ \cup {i}]
    /\ UNCHANGED <<session, file, request, late, assembly, cleaning, limiter, now, unverified>>

Tick == /\ now < MaxTime /\ now' = now + 1
        /\ UNCHANGED <<session, disk, file, request, late, assembly, cleaning, limiter, rot, history>>

Assemble(u) == Verify(u) \/ DropCorrupted(u) \/ Mismatch(u) \/ Compose(u) \/ AssemblyFails(u) \/ Commit(u)

Next ==
    \/ \E u \in Upload : \/ Initiate(u) \/ Complete(u) \/ Assemble(u) \/ DeletePrefix(u)
                         \/ End(u, "CANCELLED") \/ End(u, "EXPIRED")
                         \/ \E clean \in BOOLEAN : RecordScanResult(u, clean)
                         \/ \E i \in Index(u), d \in Content :
                               Rot(u, i, d) \/ \E r \in Request : UploadChunk(r, u, i, d)
    \/ \E r \in Request : PutChunk(r) \/ PutChunkFails(r) \/ RecordChunk(r)
    \/ \E w \in late : LateWrite(w)
    \/ Tick

Spec == Init /\ [][Next]_vars

\* A coroutine that has begun goes on.
Fairness ==
    /\ \A u \in Upload : WF_vars(Assemble(u)) /\ WF_vars(DeletePrefix(u))
    /\ \A r \in Request : WF_vars(PutChunk(r) \/ PutChunkFails(r)) /\ WF_vars(RecordChunk(r))
----------------------------------------------------------------------------
TypeOK ==
    /\ \A u \in Upload : /\ status[u] \in HoldsSlot \cup Done \cup {"none", "FAILED", "CANCELLED", "EXPIRED"}
                         /\ chunks[u] \in [Index(u) -> Content \cup {None}]
                         /\ inflight[u] \subseteq Index(u)
    /\ active \subseteq Upload /\ used \in 0..Quota

\* UploadLimiter and every transition that ends an upload: the slots in use are
\* those of the uploads under way, and the quota is what neither failed, was
\* cancelled nor expired, so neither leaks and neither is given back twice.
LimitsExact ==
    /\ active = {u \in Upload : status[u] \in HoldsSlot}
    /\ used = MapThenSumSet(LAMBDA u : Chunks[u], {u \in Upload : status[u] \in HoldsSlot \cup Done})

\* upload_chunk: a chunk is in flight exactly while one request works on it,
\* and what is recorded is in the storage, with these bytes, until the upload
\* ends, unless they changed since: at rest, or by a cancelled request's write.
ChunksStored ==
    \A u \in Upload :
        /\ inflight[u] = {request[r].index : r \in {q \in Request : request[q].upload = u}}
        /\ \A r, q \in Request : request[r] # Free /\ request[r].upload = request[q].upload
                                    /\ request[r].index = request[q].index => r = q
        /\ status[u] \in HoldsSlot =>
              \A i \in Index(u) : chunks[u][i] = None \/ i \in altered[u] \/ disk[u][i] = chunks[u][i]

\* "COMPLETED: assembled and verified": the final object is what the client
\* announced, chunk by chunk, except for chunks that changed after they were
\* verified: compose reads the storage again, and nothing checks what it read.
CompletedIsVerified ==
    \A u \in Upload : status[u] \in Done =>
        /\ file[u] # None
        /\ \A i \in Index(u) : file[u][i] = Expected[u][i] \/ i \in unverified[u]

\* cancel, collect_garbage and complete: an upload that has ended leaves no
\* temporary chunk behind once its clean-up has run, but for one that a
\* cancelled request writes after that.
NothingLeftBehind ==
    \A u \in Upload : status[u] \notin HoldsSlot /\ u \notin cleaning =>
        \A i \in Index(u) : disk[u][i] = None \/ i \in altered[u]

\* The uploads inside complete(): nothing else can be done with them.
Assembling == {u \in Upload : status[u] = "ASSEMBLING"}
=============================================================================
