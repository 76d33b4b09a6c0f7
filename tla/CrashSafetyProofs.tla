------------------------- MODULE CrashSafetyProofs --------------------------
(***************************************************************************)
(* The proof that the inductive invariant CrashSafe holds of the cache,    *)
(* and with it that a restore accepts every block whose metadata is        *)
(* intact: the restore itself, and the steps of CrashSafetyHandlers and    *)
(* CrashSafetyRequests put together.                                       *)
(***************************************************************************)
EXTENDS CrashSafetyHandlers, CrashSafetyRequests, FiniteSetTheorems,
        WellFoundedInduction

(* A nonempty bounded set of numbers has a greatest element: the restore   *)
(* finds a newest copy and a highest xid.                                  *)
LEMMA MaxExists ==
    ASSUME NEW T \in SUBSET Nat, T # {}, NEW N \in Nat, \A t \in T : t <= N
    PROVE  \E m \in T : \A t \in T : t <= m
  <1> DEFINE D == {n \in Nat : \E t \in T : n = N - t}
  <1>1. PICK t0 \in T : TRUE
    BY Zenon
  <1>2. N - t0 \in D
    BY <1>1
  <1>3. PICK d \in D : \A e \in D : ~ (<<e, d>> \in OpToRel(<, Nat))
    <2>1. D \subseteq Nat /\ D # {}
      BY <1>2, Zenon
    <2> HIDE DEF D
    <2> QED BY <2>1, NatLessThanWellFounded, WFMin, Zenon
  <1>4. ASSUME NEW e \in D PROVE ~(e < d)
    <2>1. <<e, d>> \in Nat \X Nat
      BY Zenon
    <2> HIDE DEF D
    <2>2. ~ (<<e, d>> \in OpToRel(<, Nat))
      BY <1>3, Zenon
    <2> QED BY <2>1, <2>2, Zenon DEF OpToRel
  <1>5. PICK m \in T : d = N - m
    BY Zenon
  <1>6. ASSUME NEW t \in T PROVE t <= m
    <2>1. N - t \in D
      OBVIOUS
    <2> QED BY <1>4, <1>5, <2>1
  <1> QED BY <1>5, <1>6, Zenon

(* What a restore finds: the newest copy of every sector, and the highest  *)
(* xid.                                                                    *)
LEMMA RestoreFinds ==
    ASSUME CrashSafe
    PROVE  /\ highest_xid \in Nat /\ \A b \in Blocks : pmem[b].xid <= highest_xid
           /\ \A s \in Sectors : Restored(s) \in Contents
  <1>0. /\ \A b \in Blocks : pmem[b].xid \in Nat /\ pmem[b].xid <= bc_xid
        /\ bc_xid \in Nat
    BY Zenon DEF CrashSafe, TypeOK, MetadataBlocks, XidsOwn
  <1>1. highest_xid \in Nat /\ \A b \in Blocks : pmem[b].xid <= highest_xid
    <2> DEFINE T == {1} \cup {pmem[b].xid : b \in Blocks}
    <2>1. T \in SUBSET Nat /\ T # {} /\ \A t \in T : t <= bc_xid + 1
      BY <1>0
    <2>2. bc_xid + 1 \in Nat
      BY <1>0
    <2>3. \E m \in T : \A t \in T : t <= m
      <3> HIDE DEF T
      <3> QED BY <2>1, <2>2, MaxExists, Zenon
    <2>4. \E x \in {1} \cup {pmem[b].xid : b \in Blocks} : \A b \in Blocks : pmem[b].xid <= x
      BY <2>3, Zenon
    <2> QED BY <2>1, <2>4, Zenon DEF highest_xid
  <1>2. ASSUME NEW s \in Sectors PROVE Restored(s) \in Contents
    <2>1. CASE Copies(s) = {}
      BY <2>1, Zenon DEF Restored, CrashSafe, TypeOK
    <2>2. CASE Copies(s) # {}
      <3> DEFINE T == {pmem[b].xid : b \in Copies(s)}
      <3>1. T \in SUBSET Nat /\ T # {} /\ \A t \in T : t <= bc_xid
        BY <1>0, <2>2, Zenon DEF Copies
      <3>2. \E m \in T : \A t \in T : t <= m
        <4> HIDE DEF T
        <4> QED BY <1>0, <3>1, MaxExists, Zenon
      <3>3. \E b \in Copies(s) : \A c \in Copies(s) : pmem[c].xid <= pmem[b].xid
        BY <3>2, Zenon
      <3>4. Newest(s) \in Copies(s)
        BY <3>3, Zenon DEF Newest
      <3>5. \A b \in Copies(s) : pmem_data[b] \in Contents
        BY Zenon DEF Copies, CrashSafe, TypeOK, MetadataBlocks, DataSafe
      <3> QED BY <2>2, <3>4, <3>5, Zenon DEF Restored
    <2> QED BY <2>1, <2>2, Zenon
  <1> QED BY <1>1, <1>2, Zenon

(* A crash and the restore that follows it.  *)
LEMMA RestoreKeeps ==
    ASSUME CrashSafe, cache_ctr_restore
    PROVE  CrashSafe'
  <1> DEFINE kept == {b \in Blocks : Survives(b)}
             dirty == {b \in kept : pmem[b].status = "S_DIRTY"}
  <1>1. /\ pmem' = [b \in Blocks |-> restored_block(b)]
        /\ bcb_state' = [b \in Blocks |-> restored_block(b).status]
        /\ bcb_sector' = [b \in Blocks |-> restored_block(b).sector]
        /\ bcb_xid' = [b \in Blocks |-> restored_block(b).xid]
        /\ bcb_hash_data' = [b \in Blocks |-> restored_block(b).hash]
        /\ bcb_held' = {} /\ rb_tree' = kept
        /\ bcb_entry' = [b \in Blocks |-> IF b \in kept THEN "valid" ELSE "invalid"]
        /\ bc_xid' = highest_xid
        /\ wi' = [b \in Blocks |-> NoWi] /\ io' = [b \in Blocks |-> "none"]
        /\ crashes' = crashes + 1
        /\ committed' = [s \in Sectors |-> Restored(s)]
        /\ UNCHANGED <<bc_cache_mode_writeback, pmem_data, dev>>
    BY Zenon DEF cache_ctr_restore, pmem_metadata_initialize
  <1>2. \A b \in Blocks :
            /\ restored_block(b) \in MetadataBlocks
            /\ b \in kept => /\ restored_block(b) = pmem[b]
                             /\ pmem[b].status # "S_INVALID"
                             /\ pmem_data[b] = pmem[b].hash
                             /\ pmem[b].sector \in Sectors /\ pmem[b].xid > 0
            /\ b \notin kept => restored_block(b) = NoMeta
    <2>1. NoMeta \in MetadataBlocks
      BY NoWiType, Zenon DEF NoMeta, MetadataBlocks, Stable
    <2> QED BY <2>1, Zenon DEF restored_block, Survives, Valid, CrashSafe, TypeOK, DataSafe, Described
  <1>3. /\ bio' \in [Bios -> Requests]
        /\ \A r \in Bios : bio'[r].pc \in {"idle", "done", "lost"}
    <2>1. \A r \in Bios : bio'[r] = IF InFlight(r) THEN [bio[r] EXCEPT !.pc = "lost"] ELSE bio[r]
      BY Zenon DEF cache_ctr_restore
    <2>2. \A r \in Bios : /\ bio[r] \in Requests
                          /\ [bio[r] EXCEPT !.pc = "lost"] \in Requests
                          /\ [bio[r] EXCEPT !.pc = "lost"].pc = "lost"
      BY DEF CrashSafe, TypeOK, Requests, BioStates
    <2>3. bio' = [r \in Bios |-> bio'[r]]
      BY Zenon DEF cache_ctr_restore
    <2> QED BY <2>1, <2>2, <2>3, Zenon DEF InFlight
  <1>4. bc' \in Counters
    <2>1. /\ Cardinality(kept) \in Int /\ Cardinality(Blocks \ kept) \in Int
          /\ Cardinality(dirty) \in Int /\ Cardinality(kept \ dirty) \in Int
      <3>1. \A S \in SUBSET Blocks : Cardinality(S) \in Int
        BY CacheAssumption, FS_Subset, FS_CardinalityType DEF CacheAssumption
      <3> QED BY <3>1, Zenon
    <2>2. bc' = [invalid_entries |-> Cardinality(Blocks \ kept),
                 valid_entries |-> Cardinality(kept),
                 valid_entries_clean |-> Cardinality(kept \ dirty),
                 valid_entries_dirty |-> Cardinality(dirty),
                 pending_requests |-> 0, pending_writeback_requests |-> 0,
                 pending_invalidate_requests |-> 0]
      BY Zenon DEF cache_ctr_restore
    <2> HIDE DEF kept, dirty
    <2> QED BY <2>1, <2>2 DEF Counters
  <1>5. bcb_entry_cleandirty' \in [Blocks -> {"clean", "dirty", "none"}]
    BY Zenon DEF cache_ctr_restore
  <1>6. kept \subseteq Blocks
    BY Zenon
  <1> HIDE DEF kept, dirty
  <1>7. TypeOK'
    <2>1. \A b \in Blocks : /\ restored_block(b).status \in cache_state
                            /\ restored_block(b).sector \in Sectors \cup {None}
                            /\ restored_block(b).xid \in Nat
                            /\ restored_block(b).hash \in Contents
      BY <1>2, StateClasses, Zenon DEF MetadataBlocks
    <2> QED BY <1>1, <1>2, <1>3, <1>4, <1>5, <1>6, <2>1, NoWiType, RestoreFinds, SMTT(30)
            DEF CrashSafe, TypeOK, IoStates
  <1>8. ASSUME NEW b \in Blocks PROVE IoFits(b)' /\ DataSafe(b)' /\ Described(b)'
    <2>1. /\ bcb_state'[b] \in Stable /\ io'[b] = "none"
          /\ bcb_state'[b] = pmem'[b].status /\ bcb_hash_data'[b] = pmem'[b].hash
          /\ bcb_sector'[b] = pmem'[b].sector /\ bcb_xid'[b] = pmem'[b].xid
      BY <1>1, <1>2, Zenon DEF MetadataBlocks
    <2>2. /\ b \in kept => pmem'[b] = pmem[b] /\ bcb_entry'[b] = "valid"
          /\ b \notin kept => pmem'[b] = NoMeta
      BY <1>1, <1>2, Zenon
    <2>3. IoFits(b)'
      BY <1>2, <2>1, <2>2, StateClasses, SMTT(30) DEF IoFits, Putting, NoMeta, Stable
    <2>4. DataSafe(b)'
      BY <1>1, <1>2, <2>1, <2>2, StateClasses, SMTT(30) DEF DataSafe, Valid, NoMeta
    <2>5. Described(b)'
      BY <1>2, <2>1, <2>2, CacheAssumption DEF CacheAssumption, Described, Valid, NoMeta
    <2> QED BY <2>3, <2>4, <2>5, Zenon
  <1>9. \A b \in Blocks : wi'[b].orig = None
    BY <1>1, NoWiType, Zenon
  <1>10. (\A c \in Blocks : OriginalWaits(c)') /\ OriginalsDistinct'
    BY <1>9, Zenon DEF OriginalWaits, OriginalsDistinct
  <1>11. (\A r \in Bios : ClaimFits(r)') /\ ClaimsDisjoint'
    BY <1>3, Zenon DEF ClaimFits, Claimed, InFlight, ClaimsDisjoint
  <1>12. XidsOwn'
    <2>1. \A b \in Blocks : /\ bcb_xid'[b] = pmem'[b].xid
                            /\ pmem'[b].xid \in {pmem[b].xid, 0}
                            /\ pmem[b].xid \in Nat
      BY <1>1, <1>2 DEF NoMeta, CrashSafe, TypeOK, MetadataBlocks
    <2>2. \A b \in Blocks : pmem'[b].xid <= bc_xid'
      <3>1. bc_xid' \in Nat /\ \A b \in Blocks : pmem[b].xid <= bc_xid'
        BY <1>1, RestoreFinds, Zenon
      <3> QED BY <2>1, <3>1
    <2>3. \A b, c \in Blocks : b # c /\ pmem'[b].xid = pmem'[c].xid => pmem'[b].xid = 0
      BY <2>1, Zenon DEF CrashSafe, XidsOwn
    <2> QED BY <2>1, <2>2, <2>3, Zenon DEF XidsOwn
  <1> QED BY <1>7, <1>8, <1>10, <1>11, <1>12, SMTT(30) DEF CrashSafe

(* A new cache is safe.  *)
LEMMA InitSafe == Init => CrashSafe
  <1> SUFFICES ASSUME Init PROVE CrashSafe
    BY Zenon
  <1> USE DEF Init
  <1>1. TypeOK
    <2>1. bc \in Counters
      BY CacheAssumption, FS_CardinalityType DEF CacheAssumption, Counters
    <2>2. NoMeta \in MetadataBlocks /\ NoBio \in Requests
      BY NoWiType, Zenon DEF NoMeta, MetadataBlocks, Stable, NoBio, Requests, BioStates
    <2>3. InitialWriteback \in BOOLEAN
      BY BitternAssumption, Zenon DEF BitternAssumption
    <2> QED BY <2>1, <2>2, <2>3, NoWiType, StateClasses, Zenon DEF TypeOK, IoStates, Stable
  <1>2. \A b \in Blocks : IoFits(b) /\ DataSafe(b) /\ Described(b)
    BY StateClasses, CacheAssumption, Zenon
    DEF CacheAssumption, IoFits, DataSafe, Described, Valid, NoMeta, Putting, Stable
  <1>3. (\A b \in Blocks : OriginalWaits(b)) /\ OriginalsDistinct
    BY NoWiType, Zenon DEF OriginalWaits, OriginalsDistinct
  <1>4. (\A r \in Bios : ClaimFits(r)) /\ ClaimsDisjoint
    BY Zenon DEF ClaimFits, Claimed, InFlight, ClaimsDisjoint, NoBio
  <1>5. XidsOwn
    BY DEF XidsOwn, NoMeta
  <1> QED BY <1>1, <1>2, <1>3, <1>4, <1>5, Zenon DEF CrashSafe

(* Every step of the cache keeps it safe.  *)
LEMMA NextKeeps == CrashSafe /\ [Next]_vars => CrashSafe'
  <1> SUFFICES ASSUME CrashSafe, [Next]_vars PROVE CrashSafe'
    BY Zenon
  <1>1. CASE param_set_cache_mode
    <2>1. TypeOK'
      BY <1>1, Zenon DEF param_set_cache_mode, CrashSafe, TypeOK, block, lists, media
    <2>2. PICK r : r \notin Bios
      BY CacheAssumption, Zenon DEF CacheAssumption
    <2>3. bc_xid' >= bc_xid
      BY <1>1 DEF param_set_cache_mode, CrashSafe, TypeOK
    <2> QED BY <1>1, <2>1, <2>2, <2>3, RequestMovesKeeps, SMTT(30) DEF param_set_cache_mode, media
  <1>2. CASE UNCHANGED vars
    <2>1. TypeOK'
      BY <1>2, Zenon DEF vars, CrashSafe, TypeOK, block, lists, media
    <2>2. PICK r : r \notin Bios
      BY CacheAssumption, Zenon DEF CacheAssumption
    <2>3. bc_xid' >= bc_xid
      BY <1>2 DEF vars, CrashSafe, TypeOK
    <2> QED BY <1>2, <2>1, <2>2, <2>3, RequestMovesKeeps, Zenon DEF vars, media
  <1> QED BY <1>1, <1>2, MapKeeps, StateMachineKeeps, IoStepKeeps, ThreadKeeps, RestoreKeeps, SMTT(30)
          DEF Next, Quiescent

(* The order of data and metadata writes is kept on every block, however   *)
(* requests, threads, completions, mode changes and crashes interleave.    *)
THEOREM CrashSafeHolds == Spec => []CrashSafe
  <1>1. Init => CrashSafe
    BY InitSafe, Zenon
  <1>2. CrashSafe /\ [Next]_vars => CrashSafe'
    BY NextKeeps, Zenon
  <1> QED BY <1>1, <1>2, PTL DEF Spec

(* The variables keep their types: in particular only stable states are    *)
(* written to persistent memory, and torn data is never read.              *)
THEOREM TypeCorrect == Spec => []TypeOK
  <1>1. CrashSafe => TypeOK
    BY Zenon DEF CrashSafe
  <1> QED BY <1>1, CrashSafeHolds, PTL

(* However a crash tears the metadata writes in flight, cache_ctr_restore  *)
(* accepts every block whose metadata it left intact: no order of requests *)
(* and threads leaves valid metadata over other data, or two copies of one *)
(* sector with the same xid.                                               *)
THEOREM IntactBlocksAlwaysRestore == Spec => []IntactBlocksRestore
  <1>1. ASSUME CrashSafe PROVE IntactBlocksRestore
    <2>1. \A b \in Blocks : Valid(b) => pmem_data[b] = pmem[b].hash /\ pmem[b].xid > 0
      BY <1>1, Zenon DEF CrashSafe, DataSafe, Described
    <2>2. \A b, c \in Blocks : b # c /\ pmem[b].xid = pmem[c].xid => pmem[b].xid = 0
      BY <1>1, Zenon DEF CrashSafe, XidsOwn
    <2>3. \A b \in Blocks : pmem[b].status \in cache_state
      BY <1>1, StateClasses, Zenon DEF CrashSafe, TypeOK, MetadataBlocks
    <2> QED BY <2>1, <2>2, <2>3, SMTT(30)
            DEF IntactBlocksRestore, cache_ctr_restore_block, pmem_block_restore, Copies
  <1>2. CrashSafe => IntactBlocksRestore
    BY <1>1, Zenon
  <1> QED BY <1>2, CrashSafeHolds, PTL

============================================================================
