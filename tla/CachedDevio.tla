---------------------------- MODULE CachedDevio ----------------------------
(***************************************************************************)
(* The cached device I/O layer of Bittern (bittern_cache_cached_devio.c).  *)
(*                                                                         *)
(* The rest of Bittern assumes a disk whose writes are stable once they    *)
(* complete.  The cached device has a volatile write cache, so this layer  *)
(* holds every completed write back until a later flush completes.  Every  *)
(* write draws a generation number when it is issued; one write in         *)
(* conf_fua_insert is turned into a REQ_FLUSH|REQ_FUA write, and a delayed *)
(* worker issues pure flushes.  A flush carries a generation number, and   *)
(* its completion acknowledges the held back writes up to that number.     *)
(*                                                                         *)
(* devio.spinlock makes each locked section one step.  What the code does  *)
(* after it drops the lock is a step of its own: the submission of a bio,  *)
(* and every round of the acknowledging loop.                              *)
(***************************************************************************)
EXTENDS Integers, FiniteSets

CONSTANTS
    Wis,              \* work items that use this layer, each one once
    Writes,           \* the work items whose bio is a write; the rest read
    Flushes,          \* bound: pure flushes that may be outstanding together
    conf_fua_insert,  \* writes between two REQ_FLUSH|REQ_FUA writes
    AllocFails,       \* TRUE: the flush worker's allocations may fail
    DeviceErrors      \* TRUE: the device may complete a bio with an error

ASSUME DevioAssumption ==
    /\ IsFiniteSet(Wis)
    /\ Writes \subseteq Wis
    /\ Wis \cap Flushes = {}
    /\ conf_fua_insert \in Nat
    /\ AllocFails \in BOOLEAN
    /\ DeviceErrors \in BOOLEAN

VARIABLES
    wi_pc,                \* where each work item is
    devio_gennum,         \* wi->devio_gennum, 0 before it is issued
    devio_flags,          \* the writes that carry REQ_FLUSH|REQ_FUA
    pending_list, pending_count,
    flush_pending_list, flush_pending_count,
    gennum, gennum_flush,
    flush,                \* the pure flushes: where each is, and its gennum
    worker,               \* cached_devio_flush_delayed_worker: where it is
    media,                \* the device: where the data of each write is
    covers,               \* the device: the writes a flush has to make stable
    released,             \* history: highest gennum whose completion was processed
    failed                \* work items completed with an error

lists  == <<pending_list, pending_count, flush_pending_list, flush_pending_count>>
nums   == <<devio_gennum, devio_flags, gennum, gennum_flush>>
device == <<media, covers>>
vars   == <<wi_pc, lists, nums, flush, worker, device, released, failed>>

Idle == [pc |-> "free", gennum |-> 0]

Init ==
    /\ wi_pc = [w \in Wis |-> "idle"]
    /\ devio_gennum = [w \in Wis |-> 0]
    /\ devio_flags = {}
    /\ pending_list = {} /\ pending_count = 0
    /\ flush_pending_list = {} /\ flush_pending_count = 0
    /\ gennum = 0 /\ gennum_flush = 0
    /\ flush = [f \in Flushes |-> Idle]
    /\ worker = "armed"
    /\ media = [w \in Writes |-> "none"]
    /\ covers = [x \in Writes \cup Flushes |-> {}]
    /\ released = 0
    /\ failed = {}

----------------------------------------------------------------------------
\* Issuing a request

(* Mutated: one write too many before the flush.  *)
NeedsFuaLate(g) == g - gennum_flush > conf_fua_insert + 1

(* A write too far from the last flush becomes a flush itself.  *)
NeedsFua(g) == g - gennum_flush > conf_fua_insert

(* The locked part of cached_devio_make_request.  *)
MakeRequest(w) ==
    /\ wi_pc[w] = "idle"
    /\ wi_pc' = [wi_pc EXCEPT ![w] = "numbered"]
    /\ pending_list' = pending_list \cup {w}
    /\ pending_count' = pending_count + 1
    /\ IF w \in Writes
       THEN /\ gennum' = gennum + 1
            /\ devio_gennum' = [devio_gennum EXCEPT ![w] = gennum + 1]
            /\ IF NeedsFua(gennum + 1)
               THEN /\ gennum_flush' = gennum + 1
                    /\ devio_flags' = devio_flags \cup {w}
               ELSE UNCHANGED <<gennum_flush, devio_flags>>
       ELSE UNCHANGED nums
    /\ UNCHANGED <<flush_pending_list, flush_pending_count, flush,
                   worker, device, released, failed>>

(* What a flush makes stable: the writes that had completed when it was    *)
(* submitted.  A write still in flight then is not covered.                *)
CompletedWrites == {w \in Writes : media[w] = "volatile"}

(* generic_make_request, after the lock is dropped.  *)
SubmitRequest(w) ==
    /\ wi_pc[w] = "numbered"
    /\ wi_pc' = [wi_pc EXCEPT ![w] = "device"]
    /\ covers' = IF w \in devio_flags
                 THEN [covers EXCEPT ![w] = CompletedWrites]
                 ELSE covers
    /\ UNCHANGED <<lists, nums, flush, worker, media, released, failed>>

----------------------------------------------------------------------------
\* Completion of a request

Stabilise(W) == [v \in Writes |-> IF v \in W THEN "stable" ELSE media[v]]

(* What the device did with the data of the bio it completes.  *)
DeviceDone(w, err) ==
    media' = CASE err \/ w \notin Writes -> media
               [] w \in devio_flags -> Stabilise(covers[w] \cup {w})
               [] OTHER -> [media EXCEPT ![w] = "volatile"]

(* cached_devio_make_request_end_bio up to the point where it drops the    *)
(* lock.  A read is acknowledged at once; a flush, or a write that failed, *)
(* goes on to acknowledge the writes before it; any other write is held.   *)
EndBio(w, err) ==
    /\ wi_pc[w] = "device"
    /\ err => DeviceErrors
    /\ DeviceDone(w, err)
    /\ pending_list' = pending_list \ {w}
    /\ pending_count' = pending_count - 1
    /\ failed' = IF err THEN failed \cup {w} ELSE failed
    /\ \/ /\ w \notin Writes
          /\ wi_pc' = [wi_pc EXCEPT ![w] = "acked"]
          /\ UNCHANGED <<flush_pending_list, flush_pending_count, released>>
       \/ /\ w \in Writes
          /\ err \/ w \in devio_flags
          /\ wi_pc' = [wi_pc EXCEPT ![w] = "acking"]
          /\ released' = IF released < devio_gennum[w] THEN devio_gennum[w] ELSE released
          /\ UNCHANGED <<flush_pending_list, flush_pending_count>>
       \/ /\ w \in Writes
          /\ ~err /\ w \notin devio_flags
          /\ wi_pc' = [wi_pc EXCEPT ![w] = "flush_pending"]
          /\ flush_pending_list' = flush_pending_list \cup {w}
          /\ flush_pending_count' = flush_pending_count + 1
          /\ UNCHANGED released
    /\ UNCHANGED <<nums, flush, worker, covers>>

(* Mutated: the generation numbers are not compared.  *)
AckableAny(g) == flush_pending_list

(* Mutated: a flush does not cover the last write before it.  *)
AckableOlder(g) == {v \in flush_pending_list : devio_gennum[v] < g}

(* The held back writes that a completion with generation number g acks.   *)
Ackable(g) == {v \in flush_pending_list : devio_gennum[v] <= g}

(* Mutated: the write stays on the list when it is acknowledged.  *)
AckOneKeeps(v) ==
    /\ flush_pending_count' = flush_pending_count - 1
    /\ wi_pc' = [wi_pc EXCEPT ![v] = "acked"]
    /\ UNCHANGED <<flush_pending_list, pending_list, pending_count, nums, flush,
                   worker, device, released, failed>>

(* One round of the loop in cached_devio_flush_end_bio_process: the lock   *)
(* is dropped to acknowledge one write, and the list is scanned again.     *)
AckOne(v) ==
    /\ flush_pending_list' = flush_pending_list \ {v}
    /\ flush_pending_count' = flush_pending_count - 1
    /\ wi_pc' = [wi_pc EXCEPT ![v] = "acked"]
    /\ UNCHANGED <<pending_list, pending_count, nums, flush, worker,
                   device, released, failed>>

(* The loop as the completion of a write runs it ...  *)
WriteAcksOne(w) ==
    /\ wi_pc[w] = "acking"
    /\ \E v \in Ackable(devio_gennum[w]) : AckOne(v)

(* ... after which the write itself is acknowledged.  *)
WriteAcksSelf(w) ==
    /\ wi_pc[w] = "acking"
    /\ Ackable(devio_gennum[w]) = {}
    /\ wi_pc' = [wi_pc EXCEPT ![w] = "acked"]
    /\ UNCHANGED <<lists, nums, flush, worker, device, released, failed>>

----------------------------------------------------------------------------
\* Pure flushes

(* cached_devio_flush_delayed_worker reads the two counters one after the  *)
(* other, without the lock: a write may move from the one list to the      *)
(* other in between, and be seen on neither.                               *)
WorkerReadsFlushPending ==
    /\ worker = "armed"
    /\ worker' = IF flush_pending_count = 0 THEN "reading" ELSE "running"
    /\ UNCHANGED <<wi_pc, lists, nums, flush, device, released, failed>>

(* With nothing pending it re-arms itself, else it goes on ...             *)
WorkerReadsPending ==
    /\ worker = "reading"
    /\ worker' = IF pending_count = 0 THEN "armed" ELSE "running"
    /\ UNCHANGED <<wi_pc, lists, nums, flush, device, released, failed>>

(* ... to draw the flush's number under the lock ...  *)
WorkerIssue(f) ==
    /\ worker = "running"
    /\ flush[f].pc = "free"
    /\ gennum_flush' = gennum
    /\ flush' = [flush EXCEPT ![f] = [pc |-> "numbered", gennum |-> gennum]]
    /\ worker' = "issued"
    /\ UNCHANGED <<wi_pc, lists, devio_gennum, devio_flags, gennum, device,
                   released, failed>>

(* ... submits it after the lock, and re-arms itself.  *)
WorkerSubmit(f) ==
    /\ flush[f].pc = "numbered"
    /\ flush' = [flush EXCEPT ![f].pc = "device"]
    /\ covers' = [covers EXCEPT ![f] = CompletedWrites]
    /\ worker' = "armed"
    /\ UNCHANGED <<wi_pc, lists, nums, media, released, failed>>

(* An allocation fails: the worker runs the acknowledging loop itself, for *)
(* generation number 0, and returns without re-arming itself.              *)
WorkerAllocFails(f) ==
    /\ AllocFails
    /\ worker = "running"
    /\ flush[f].pc = "free"
    /\ flush' = [flush EXCEPT ![f] = [pc |-> "acking", gennum |-> 0]]
    /\ worker' = "returned"
    /\ UNCHANGED <<wi_pc, lists, nums, device, released, failed>>

(* cached_devio_flush_end_bio: the error is not looked at.  *)
FlushEndBio(f, err) ==
    /\ flush[f].pc = "device"
    /\ err => DeviceErrors
    /\ media' = IF err THEN media ELSE Stabilise(covers[f])
    /\ flush' = [flush EXCEPT ![f].pc = "acking"]
    /\ released' = IF released < flush[f].gennum THEN flush[f].gennum ELSE released
    /\ UNCHANGED <<wi_pc, lists, nums, worker, covers, failed>>

FlushAcksOne(f) ==
    /\ flush[f].pc = "acking"
    /\ \E v \in Ackable(flush[f].gennum) : AckOne(v)

FlushDone(f) ==
    /\ flush[f].pc = "acking"
    /\ Ackable(flush[f].gennum) = {}
    /\ flush' = [flush EXCEPT ![f] = Idle]
    /\ UNCHANGED <<wi_pc, lists, nums, worker, device, released, failed>>

----------------------------------------------------------------------------

(* The life of a request, and of a flush, once it has been issued.  *)
RequestRuns(w) ==
    \/ SubmitRequest(w)
    \/ \E err \in BOOLEAN : EndBio(w, err)
    \/ WriteAcksOne(w)
    \/ WriteAcksSelf(w)
FlushRuns(f) ==
    \/ WorkerSubmit(f)
    \/ \E err \in BOOLEAN : FlushEndBio(f, err)
    \/ FlushAcksOne(f)
    \/ FlushDone(f)

(* The worker, as long as its allocations succeed.  *)
WorkerGoesOn ==
    \/ WorkerReadsFlushPending
    \/ WorkerReadsPending
    \/ \E f \in Flushes : WorkerIssue(f)

Next ==
    \/ \E w \in Wis : MakeRequest(w) \/ RequestRuns(w)
    \/ \E f \in Flushes : FlushRuns(f) \/ WorkerAllocFails(f)
    \/ WorkerGoesOn

Spec == Init /\ [][Next]_vars

(* A thread that holds no lock runs on; the device completes every bio;    *)
(* the timer of an armed delayed work expires.  Nobody has to issue a      *)
(* request, and allocations need not fail.                                 *)
Fairness ==
    /\ \A w \in Wis : WF_vars(RequestRuns(w))
    /\ \A f \in Flushes : WF_vars(FlushRuns(f))
    /\ WF_vars(WorkerGoesOn)

FairSpec == Spec /\ Fairness

----------------------------------------------------------------------------
\* Properties

WiPcs == {"idle", "numbered", "device", "flush_pending", "acking", "acked"}
WorkerPcs == {"armed", "reading", "running", "issued", "returned"}
FlushPcs == {"free", "numbered", "device", "acking"}

(* The type of every variable of the layer.  *)
TypeOK ==
    /\ wi_pc \in [Wis -> WiPcs]
    /\ devio_gennum \in [Wis -> Nat]
    /\ devio_flags \subseteq Writes
    /\ pending_list \subseteq Wis /\ pending_count \in Nat
    /\ flush_pending_list \subseteq Writes /\ flush_pending_count \in Nat
    /\ gennum \in Nat /\ gennum_flush \in Nat
    /\ flush \in [Flushes -> [pc : FlushPcs, gennum : Nat]]
    /\ worker \in WorkerPcs
    /\ media \in [Writes -> {"none", "volatile", "stable"}]
    /\ covers \in [Writes \cup Flushes -> SUBSET Writes]
    /\ released \in Nat
    /\ failed \subseteq Wis

(* A request is on at most one of the two lists, exactly while the layer   *)
(* owes it an acknowledgement, and the counters that the M_ASSERTs and the *)
(* flush worker read agree with the lists whatever the acknowledging loops *)
(* that run at the same time take from them.                               *)
QueuesConsistent ==
    /\ pending_list \cap flush_pending_list = {}
    /\ pending_list = {w \in Wis : wi_pc[w] \in {"numbered", "device"}}
    /\ flush_pending_list = {w \in Wis : wi_pc[w] = "flush_pending"}
    /\ pending_count = Cardinality(pending_list)
    /\ flush_pending_count = Cardinality(flush_pending_list)

(* A write is acknowledged only once the completion of a flush (or of a    *)
(* failed write) with at least its generation number has been processed,   *)
(* although several loops acknowledge concurrently and writes join the     *)
(* list while they run.                                                    *)
AckCovered ==
    \A w \in Writes : wi_pc[w] = "acked" => devio_gennum[w] <= released

(* Never more than conf_fua_insert writes are issued after the last flush  *)
(* was issued, whoever issued it, the write stream or the worker.          *)
FuaWindow == gennum - gennum_flush <= conf_fua_insert

(* What bittern_cache.h says of the layer: it "only acknowledge[s] them to *)
(* Bittern once they are guaranteed stable".  The code does not ensure it: *)
(* a write in flight when a flush is submitted may complete before the     *)
(* flush does, and is acknowledged with it although not covered by it.     *)
AckedStable ==
    \A w \in Writes : wi_pc[w] = "acked" /\ w \notin failed => media[w] = "stable"

(* Every request issued to the cached device is acknowledged in the end,   *)
(* by a flush, by a FUA write or on its own error: "complete all requests" *)
(* (cached_devio_flush_end_bio_process), also when an allocation fails.    *)
EveryRequestAcked == \A w \in Wis : wi_pc[w] = "numbered" ~> wi_pc[w] = "acked"

(* What the code ensures: the requests that have been issued are all       *)
(* acknowledged in the end (each work item uses the layer once), unless    *)
(* the flush worker returned without re-arming itself after an allocation  *)
(* failed.  The worker never misses a write for good, although it reads    *)
(* the counters unlocked and flushes, FUA writes and completions race.     *)
AckedUnlessNoMemory ==
    (\E w \in Wis : wi_pc[w] = "numbered") ~>
        (\/ \A w \in Wis : wi_pc[w] \in {"idle", "acked"}
         \/ worker = "returned")

============================================================================
