------------------------- MODULE CachedDevioProofs -------------------------
(***************************************************************************)
(* Proofs of the safety properties of CachedDevio, for any set of work     *)
(* items, any number of flushes and any conf_fua_insert.                   *)
(*                                                                         *)
(* The lists and their counters need each other (a counter stays a natural *)
(* number because the list it counts has an element to remove), so TypeOK  *)
(* and QueuesConsistent are proved together.  AckCovered is not inductive: *)
(* Released adds that every loop that is acknowledging writes carries a    *)
(* generation number that has been released.                               *)
(***************************************************************************)
EXTENDS CachedDevio, FiniteSetTheorems, TLAPS

(* The acknowledging loops carry released generation numbers.  *)
Released ==
    /\ \A w \in Wis : wi_pc[w] = "acking" => w \in Writes
    /\ \A w \in Writes : wi_pc[w] \in {"acking", "acked"} => devio_gennum[w] <= released
    /\ \A f \in Flushes : flush[f].pc = "acking" => flush[f].gennum <= released

(* The last flush was numbered no later than the last write.  *)
FlushBehind == gennum_flush <= gennum /\ FuaWindow

IInv == TypeOK /\ QueuesConsistent /\ Released /\ FlushBehind

----------------------------------------------------------------------------
(* The list of a finite set of work items, with one more or one less.  *)
LEMMA ListCount ==
    ASSUME NEW W \in SUBSET Wis, NEW w \in Wis
    PROVE  /\ Cardinality(W) \in Nat
           /\ w \notin W => Cardinality(W \cup {w}) = Cardinality(W) + 1
           /\ w \in W => /\ Cardinality(W \ {w}) = Cardinality(W) - 1
                         /\ Cardinality(W) - 1 \in Nat
  <1>1. IsFiniteSet(W)
    BY FS_Subset, DevioAssumption, Zenon DEF DevioAssumption
  <1>2. Cardinality(W) \in Nat
    BY <1>1, FS_CardinalityType, Zenon
  <1>3. w \notin W => Cardinality(W \cup {w}) = Cardinality(W) + 1
    BY <1>1, FS_AddElement, Zenon
  <1>4. w \in W => Cardinality(W \ {w}) = Cardinality(W) - 1
    BY <1>1, FS_RemoveElement, Zenon
  <1>5. Cardinality(W \ {w}) \in Nat
    BY <1>1, FS_CardinalityType, FS_Subset, W \ {w} \subseteq W, Zenon
  <1> QED BY <1>2, <1>3, <1>4, <1>5, Zenon

(* The layer starts empty (cached_devio part of cache_ctr).  *)
LEMMA InitHolds == Init => IInv
  <1> SUFFICES ASSUME Init PROVE IInv
    BY Zenon
  <1> USE DevioAssumption DEF DevioAssumption, Init
  <1>1. TypeOK
    BY Zenon DEF TypeOK, WiPcs, FlushPcs, WorkerPcs, Idle
  <1>2. QueuesConsistent
    BY FS_EmptySet, Zenon DEF QueuesConsistent
  <1>3. Released
    BY Zenon DEF Released, Idle
  <1>4. FlushBehind
    BY DEF FlushBehind, FuaWindow
  <1> QED BY <1>1, <1>2, <1>3, <1>4, Zenon DEF IInv

----------------------------------------------------------------------------
(* Every step of the layer keeps the inductive invariant.  *)
LEMMA StepKeeps == IInv /\ [Next]_vars => IInv'
  <1> SUFFICES ASSUME IInv, [Next]_vars PROVE IInv'
    BY Zenon
  <1> USE DevioAssumption DEF DevioAssumption, IInv
  <1> USE DEF WiPcs, FlushPcs, WorkerPcs
  <1>1. ASSUME NEW w \in Wis, MakeRequest(w) PROVE IInv'
    <2> USE <1>1 DEF MakeRequest, nums, device
    <2>1. /\ w \notin pending_list
          /\ pending_list' = pending_list \cup {w}
          /\ pending_count' = Cardinality(pending_list')
      BY ListCount, Zenon DEF TypeOK, QueuesConsistent
    <2>2. TypeOK'
      BY <2>1, ListCount DEF TypeOK
    <2>3. QueuesConsistent'
      BY <2>1 DEF TypeOK, QueuesConsistent
    <2>4. Released'
      BY Zenon DEF TypeOK, Released
    <2>5. FlushBehind'
      BY DEF TypeOK, FlushBehind, FuaWindow, NeedsFua
    <2> QED BY <2>2, <2>3, <2>4, <2>5, Zenon
  <1>2. ASSUME NEW w \in Wis, SubmitRequest(w) PROVE IInv'
    <2> USE <1>2 DEF SubmitRequest, nums, lists
    <2>1. TypeOK'
      BY Zenon DEF TypeOK, CompletedWrites
    <2>2. QueuesConsistent'
      BY Zenon DEF TypeOK, QueuesConsistent
    <2>3. Released' /\ FlushBehind'
      BY Zenon DEF TypeOK, Released, FlushBehind, FuaWindow
    <2> QED BY <2>1, <2>2, <2>3, Zenon
  <1>3. ASSUME NEW w \in Wis, NEW err \in BOOLEAN, EndBio(w, err) PROVE IInv'
    <2> USE <1>3 DEF EndBio, nums
    <2>1. /\ w \in pending_list
          /\ pending_list' = pending_list \ {w}
          /\ pending_count' = Cardinality(pending_list')
          /\ pending_count' \in Nat
      BY ListCount, Zenon DEF TypeOK, QueuesConsistent
    <2>2. media' \in [Writes -> {"none", "volatile", "stable"}]
      BY Zenon DEF TypeOK, DeviceDone, Stabilise
    <2>3. CASE w \notin Writes \/ err \/ w \in devio_flags
      <3> /\ wi_pc' \in [Wis -> WiPcs]
          /\ wi_pc'[w] \in {"acking", "acked"}
          /\ \A v \in Wis \ {w} : wi_pc'[v] = wi_pc[v]
          /\ UNCHANGED <<flush_pending_list, flush_pending_count>>
        BY <2>3, Zenon DEF TypeOK
      <3>1. TypeOK'
        BY <2>1, <2>2, <2>3 DEF TypeOK
      <3>2. QueuesConsistent'
        <4>1. pending_list' = {v \in Wis : wi_pc'[v] \in {"numbered", "device"}}
          BY <2>1, Zenon DEF QueuesConsistent
        <4>2. flush_pending_list' = {v \in Wis : wi_pc'[v] = "flush_pending"}
          BY Zenon DEF QueuesConsistent
        <4> QED BY <2>1, <4>1, <4>2, Zenon DEF QueuesConsistent
      <3>3. Released'
        BY <2>3 DEF TypeOK, Released
      <3>4. FlushBehind'
        BY Zenon DEF FlushBehind, FuaWindow
      <3> QED BY <3>1, <3>2, <3>3, <3>4, Zenon
    <2>4. CASE w \in Writes /\ ~err /\ w \notin devio_flags
      <3>1. /\ w \notin flush_pending_list
            /\ flush_pending_list' = flush_pending_list \cup {w}
            /\ flush_pending_count' = Cardinality(flush_pending_list')
            /\ flush_pending_count' \in Nat
        BY <2>4, ListCount DEF TypeOK, QueuesConsistent
      <3>2. TypeOK'
        BY <2>1, <2>2, <2>4, <3>1, Zenon DEF TypeOK
      <3>3. QueuesConsistent'
        BY <2>1, <2>4, <3>1 DEF TypeOK, QueuesConsistent
      <3>4. Released'
        BY <2>4 DEF TypeOK, Released
      <3>5. FlushBehind'
        BY Zenon DEF FlushBehind, FuaWindow
      <3> QED BY <3>2, <3>3, <3>4, <3>5, Zenon
    <2> QED BY <2>3, <2>4, Zenon
  <1>4. ASSUME NEW g \in Nat, g <= released, NEW v \in Ackable(g), AckOne(v) PROVE IInv'
    <2> USE <1>4 DEF Ackable, AckOne, nums, device
    <2>1. /\ v \in flush_pending_list
          /\ flush_pending_list' = flush_pending_list \ {v}
          /\ flush_pending_count' = Cardinality(flush_pending_list')
          /\ flush_pending_count' \in Nat
      BY ListCount, Zenon DEF TypeOK, QueuesConsistent
    <2>2. TypeOK'
      BY <2>1, Zenon DEF TypeOK
    <2>3. QueuesConsistent'
      BY <2>1, Zenon DEF TypeOK, QueuesConsistent
    <2>4. Released'
      BY DEF TypeOK, Released
    <2>5. FlushBehind'
      BY Zenon DEF FlushBehind, FuaWindow
    <2> QED BY <2>2, <2>3, <2>4, <2>5, Zenon
  <1>5. ASSUME NEW w \in Wis, WriteAcksOne(w) PROVE IInv'
    <2>1. w \in Writes
      BY <1>5, Zenon DEF WriteAcksOne, Released
    <2> QED BY <1>4, <1>5, <2>1, Zenon DEF WriteAcksOne, TypeOK, Released
  <1>6. ASSUME NEW w \in Wis, WriteAcksSelf(w) PROVE IInv'
    <2> USE <1>6 DEF WriteAcksSelf, lists, nums, device
    <2>1. TypeOK'
      BY Zenon DEF TypeOK
    <2>2. QueuesConsistent'
      BY Zenon DEF TypeOK, QueuesConsistent
    <2>3. Released' /\ FlushBehind'
      BY Zenon DEF TypeOK, Released, FlushBehind, FuaWindow
    <2> QED BY <2>1, <2>2, <2>3, Zenon
  <1>7. ASSUME NEW f \in Flushes, WorkerIssue(f) PROVE IInv'
    <2> USE <1>7 DEF WorkerIssue, lists, device
    <2>1. TypeOK'
      <3>1. flush' \in [Flushes -> [pc : FlushPcs, gennum : Nat]]
        BY Zenon DEF TypeOK
      <3> QED BY <3>1, Zenon DEF TypeOK
    <2>2. QueuesConsistent'
      BY Zenon DEF QueuesConsistent
    <2>3. Released' /\ FlushBehind'
      BY DEF TypeOK, Released, FlushBehind, FuaWindow
    <2> QED BY <2>1, <2>2, <2>3, Zenon
  <1>8. ASSUME NEW f \in Flushes, WorkerSubmit(f) \/ WorkerAllocFails(f) PROVE IInv'
    <2> USE <1>8 DEF WorkerSubmit, WorkerAllocFails, lists, nums, device
    <2>1. TypeOK'
      <3>1. flush' \in [Flushes -> [pc : FlushPcs, gennum : Nat]]
        BY DEF TypeOK
      <3>2. covers' \in [Writes \cup Flushes -> SUBSET Writes]
        BY DEF TypeOK, CompletedWrites
      <3> QED BY <3>1, <3>2, Zenon DEF TypeOK
    <2>2. QueuesConsistent'
      BY Zenon DEF QueuesConsistent
    <2>3. Released' /\ FlushBehind'
      BY DEF TypeOK, Released, FlushBehind, FuaWindow
    <2> QED BY <2>1, <2>2, <2>3, Zenon
  <1>9. ASSUME NEW f \in Flushes, NEW err \in BOOLEAN, FlushEndBio(f, err) PROVE IInv'
    <2> USE <1>9 DEF FlushEndBio, lists, nums
    <2>1. TypeOK'
      BY DEF TypeOK, Stabilise
    <2>2. QueuesConsistent'
      BY Zenon DEF QueuesConsistent
    <2>3. Released' /\ FlushBehind'
      BY DEF TypeOK, Released, FlushBehind, FuaWindow
    <2> QED BY <2>1, <2>2, <2>3, Zenon
  <1>10. ASSUME NEW f \in Flushes, FlushAcksOne(f) PROVE IInv'
    BY <1>4, <1>10, Zenon DEF FlushAcksOne, TypeOK, Released
  <1>11. ASSUME NEW f \in Flushes, FlushDone(f) PROVE IInv'
    <2> USE <1>11 DEF FlushDone, Idle, lists, nums, device
    <2>1. TypeOK'
      BY Zenon DEF TypeOK
    <2>2. QueuesConsistent'
      BY Zenon DEF QueuesConsistent
    <2>3. Released' /\ FlushBehind'
      BY Zenon DEF TypeOK, Released, FlushBehind, FuaWindow
    <2> QED BY <2>1, <2>2, <2>3, Zenon
  <1>12. CASE WorkerReadsFlushPending \/ WorkerReadsPending \/ UNCHANGED vars
    <2> USE <1>12 DEF WorkerReadsFlushPending, WorkerReadsPending, vars, lists, nums, device
    <2>1. TypeOK'
      BY Zenon DEF TypeOK
    <2>2. QueuesConsistent'
      BY Zenon DEF QueuesConsistent
    <2>3. Released' /\ FlushBehind'
      BY Zenon DEF Released, FlushBehind, FuaWindow
    <2> QED BY <2>1, <2>2, <2>3, Zenon
  <1> QED
    BY <1>1, <1>2, <1>3, <1>5, <1>6, <1>7, <1>8, <1>9, <1>10, <1>11, <1>12, Zenon
       DEF Next, RequestRuns, FlushRuns, WorkerGoesOn

----------------------------------------------------------------------------
(* The inductive invariant holds in every state the layer reaches.  *)
THEOREM IInvHolds == Spec => []IInv
  <1> QED BY InitHolds, StepKeeps, PTL DEF Spec

(* The type invariant of cached_devio: the counters never go below zero.   *)
THEOREM TypeCorrect == Spec => []TypeOK
  <1>1. IInv => TypeOK
    BY Zenon DEF IInv
  <1> QED BY <1>1, IInvHolds, PTL

(* The two lists of cached_devio and their counters agree, and a request   *)
(* is on a list exactly while it has to be acknowledged.                   *)
THEOREM QueuesAlwaysConsistent == Spec => []QueuesConsistent
  <1>1. IInv => QueuesConsistent
    BY Zenon DEF IInv
  <1> QED BY <1>1, IInvHolds, PTL

(* cached_devio_flush_end_bio_process acknowledges a write only after the  *)
(* completion of a flush, or a failed write, numbered no lower.            *)
THEOREM AcksAlwaysCovered == Spec => []AckCovered
  <1>1. IInv => AckCovered
    BY Zenon DEF IInv, Released, AckCovered
  <1> QED BY <1>1, IInvHolds, PTL

(* cached_devio_make_request never lets more than conf_fua_insert writes   *)
(* go by without a flush.                                                  *)
THEOREM FuaAlwaysInWindow == Spec => []FuaWindow
  <1>1. IInv => FuaWindow
    BY Zenon DEF IInv, FlushBehind
  <1> QED BY <1>1, IInvHolds, PTL

============================================================================
