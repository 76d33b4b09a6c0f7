--------------------------- MODULE CrashSafetyIo ----------------------------
(***************************************************************************)
(* CrashSafe is kept by the end of a request, by the effects of the I/O    *)
(* that handlers start, and by the threads.                                *)
(***************************************************************************)
EXTENDS CrashSafetySteps

(* A request that ends is done, and the others are left alone.  *)
LEMMA EndsRequest ==
    ASSUME CrashSafe, NEW b \in Blocks, NEW final, NEW result \in Contents,
           end_request(b, final, result)
    PROVE  bio' \in [Bios -> Requests] /\ \A r \in Bios : bio'[r] = bio[r] \/ bio'[r].pc = "done"
  <1> USE DEF end_request
  <1> DEFINE r == wi[b].bio
  <1>1. bio \in [Bios -> Requests]
    BY Zenon DEF CrashSafe, TypeOK
  <1>2. CASE r \in Bios
    <2> DEFINE new == [bio[r] EXCEPT !.pc = "done", !.blk = None, !.clone = None,
                                     !.result = result]
    <2>1. new \in Requests /\ new.pc = "done"
      <3>1. bio[r] \in Requests /\ "done" \in BioStates /\ None \in Blocks \cup {None}
        BY <1>1, <1>2, Zenon DEF BioStates
      <3>2. new \in Requests
        BY <3>1, Zenon DEF Requests
      <3>3. new.pc = "done"
        BY <3>1, Zenon DEF Requests
      <3> QED BY <3>2, <3>3, Zenon
    <2>2. bio' = [bio EXCEPT ![r] = new]
      BY <1>1, <1>2, Zenon
    <2> HIDE DEF end_request, new, r
    <2> QED BY <1>1, <1>2, <2>1, <2>2, Zenon
  <1>3. CASE r \notin Bios
    BY <1>1, <1>3, Zenon
  <1> QED BY <1>2, <1>3, Zenon

(* The end of a request on its block.  *)
LEMMA EndRequestKeeps ==
    ASSUME CrashSafe, NEW b \in Blocks, NEW final \in {"S_CLEAN", "S_DIRTY"},
           NEW result \in Contents,
           \/ bcb_state[b] \in Using
           \/ bcb_state[b] \in Storing /\ io[b] = "meta_written",
           end_request(b, final, result),
           bc' \in Counters, wi' = [wi EXCEPT ![b] = NoWi], Await(b, "none"),
           committed' \in [Sectors -> Contents]
    PROVE  CrashSafe'
  <1>0. TypeOK /\ IoFits(b) /\ DataSafe(b) /\ Described(b)
    BY Zenon DEF CrashSafe
  <1>1. bio' \in [Bios -> Requests] /\ \A r \in Bios : bio'[r] = bio[r] \/ bio'[r].pc = "done"
    BY EndsRequest, ZenonT(30) DEF end_request
  <1>2. /\ bcb_state' = [bcb_state EXCEPT ![b] = final] /\ bcb_held' = bcb_held \ {b}
        /\ io' = [io EXCEPT ![b] = "none"]
        /\ bcb_sector' = bcb_sector /\ bcb_xid' = bcb_xid /\ bcb_hash_data' = bcb_hash_data
        /\ bcb_entry' = bcb_entry /\ bcb_entry_cleandirty' = bcb_entry_cleandirty
        /\ rb_tree' = rb_tree /\ bc_xid' = bc_xid
        /\ bc_cache_mode_writeback' = bc_cache_mode_writeback /\ pmem' = pmem
        /\ pmem_data' = pmem_data /\ dev' = dev /\ crashes' = crashes
    BY Zenon DEF end_request, To, Release, Await, lists, media
  <1>3. TypeOK'
    <2>1. bcb_state' \in [Blocks -> cache_state] /\ bcb_held' \subseteq Blocks
      BY <1>0, <1>2, StateClasses DEF TypeOK, Stable
    <2>2. wi' \in [Blocks -> WorkItems] /\ io' \in [Blocks -> IoStates]
      BY <1>0, <1>2, NoWiType, Zenon DEF TypeOK, IoStates
    <2> QED BY <1>0, <1>1, <1>2, <2>1, <2>2, Zenon DEF TypeOK
  <1>4. /\ bcb_state'[b] = final /\ io'[b] = "none" /\ b \notin bcb_held' /\ wi'[b] = NoWi
        /\ \A d \in Blocks \ {b} : /\ bcb_state'[d] = bcb_state[d] /\ io'[d] = io[d]
                                   /\ wi'[d] = wi[d]
    BY <1>0, <1>2, Zenon DEF TypeOK
  <1>5. /\ bcb_state[b] \notin Stable \cup NoData \cup InvalidateStart
        /\ bcb_state[b] \in Incoming => io[b] = "meta_written"
        /\ bcb_state[b] \notin {"S_CLEAN", "S_DIRTY", "S_INVALID"}
    BY StateClasses, Zenon DEF Stable
  <1>6. /\ final \notin Incoming \cup Storing \cup Revoking \cup Updating \cup NoData
        /\ final \notin {"S_INVALID", "S_CLEAN_VERIFY"} /\ final \in Stable
    BY StateClasses, Zenon DEF Stable
  <1>7. Busy(b) /\ bcb_entry[b] # "invalid" /\ pmem_data[b] = bcb_hash_data[b]
    BY <1>0, <1>5, Zenon DEF IoFits, DataSafe, Busy
  <1>8. \A d \in Blocks \ {b} : Same(d)
    BY <1>2, <1>4, Zenon DEF Same
  <1>9. IoFits(b)'
    BY <1>2, <1>4, <1>6, <1>7, Zenon DEF IoFits, Putting
  <1>10. DataSafe(b)'
    BY <1>0, <1>2, <1>4, <1>6, <1>7, Zenon DEF DataSafe, Valid
  <1>11. Described(b)'
    BY <1>0, <1>2, <1>4, <1>5, <1>6, Zenon DEF Described, Valid
  <1>12. Local(b)
    BY <1>1, <1>2, <1>4, <1>7, <1>8, <1>9, <1>10, <1>11, NoWiType, Zenon DEF Local
  <1> QED BY <1>3, <1>12, LocalKeeps, Zenon

(* The effects of I/O in flight, and the end of the io_end functions.  *)
LEMMA IoStepKeeps ==
    ASSUME CrashSafe, NEW b \in Blocks, io_step(b)
    PROVE  CrashSafe'
  <1>0. TypeOK /\ IoFits(b) /\ DataSafe(b) /\ Described(b)
    BY Zenon DEF CrashSafe
  <1>1. CASE pmem_data_written(b)
    <2>1. TypeOK'
      BY <1>0, <1>1, Zenon DEF pmem_data_written, Await, sm_block_rest, lists, TypeOK,
                               IoStates, WorkItems
    <2>2. /\ io[b] = "data_write" /\ io'[b] = "meta_write" /\ pmem_data'[b] = wi[b].page
          /\ \A d \in Blocks \ {b} : io'[d] = io[d] /\ pmem_data'[d] = pmem_data[d]
      BY <1>0, <1>1, Zenon DEF pmem_data_written, Await, TypeOK
    <2>3. /\ bcb_state' = bcb_state /\ bcb_hash_data' = bcb_hash_data
          /\ bcb_sector' = bcb_sector /\ bcb_xid' = bcb_xid /\ bcb_held' = bcb_held
          /\ bcb_entry' = bcb_entry /\ bc_xid' = bc_xid /\ wi' = wi /\ bio' = bio
          /\ pmem' = pmem
      BY <1>1, Zenon DEF pmem_data_written, sm_block_rest, lists
    <2>4. /\ bcb_state[b] \in Storing /\ wi[b].target # "S_INVALID"
          /\ wi[b].page = bcb_hash_data[b] /\ b \in bcb_held
      BY <1>0, <2>2, StateClasses, Zenon DEF IoFits
    <2>5. /\ bcb_state[b] \notin Stable \cup NoData \cup Revoking \cup {"S_CLEAN_VERIFY"}
          /\ bcb_state[b] \in Incoming /\ bcb_state[b] # "S_INVALID"
      BY <2>4, StateClasses, Zenon DEF Stable
    <2>6. IoFits(b)' /\ Busy(b)
      BY <1>0, <2>2, <2>3, <2>4, <2>5, Zenon DEF IoFits, Putting, Busy
    <2>7. DataSafe(b)'
      BY <1>0, <2>2, <2>3, <2>4, <2>5, Zenon DEF DataSafe, Valid
    <2>8. Described(b)'
      BY <1>0, <2>3, Zenon DEF Described, Valid
    <2>9. Local(b)
      BY <2>2, <2>3, <2>6, <2>7, <2>8, Zenon DEF Local, Same
    <2> QED BY <2>1, <2>9, LocalKeeps, Zenon
  <1>2. CASE pmem_metadata_written(b)
    <2>1. /\ wi[b].target \in Stable
          /\ Metadata(b, wi[b].target) \in MetadataBlocks
          /\ wi[b].target = "S_INVALID" => Metadata(b, wi[b].target).xid = 0
          /\ wi[b].target # "S_INVALID" => /\ Metadata(b, wi[b].target).xid = bcb_xid[b]
                                           /\ Metadata(b, wi[b].target).hash = bcb_hash_data[b]
                                           /\ Metadata(b, wi[b].target).sector = bcb_sector[b]
          /\ Metadata(b, wi[b].target).status = wi[b].target
      BY <1>0, NoWiType, Zenon DEF TypeOK, Metadata, MetadataBlocks, NoMeta, WorkItems, Stable
    <2>2. TypeOK'
      BY <1>0, <1>2, <2>1, Zenon DEF pmem_metadata_written, Await, sm_block_rest, lists, TypeOK,
                                     IoStates
    <2>3. /\ io[b] = "meta_write" /\ io'[b] = "meta_written"
          /\ pmem'[b] = Metadata(b, wi[b].target)
          /\ \A d \in Blocks \ {b} : io'[d] = io[d] /\ pmem'[d] = pmem[d]
      BY <1>0, <1>2, Zenon DEF pmem_metadata_written, Await, TypeOK
    <2>4. /\ bcb_state' = bcb_state /\ bcb_hash_data' = bcb_hash_data
          /\ bcb_sector' = bcb_sector /\ bcb_xid' = bcb_xid /\ bcb_held' = bcb_held
          /\ bcb_entry' = bcb_entry /\ bc_xid' = bc_xid /\ wi' = wi /\ bio' = bio
          /\ pmem_data' = pmem_data
      BY <1>2, Zenon DEF pmem_metadata_written, sm_block_rest, lists
    <2>5. /\ b \in bcb_held /\ pmem_data[b] = bcb_hash_data[b]
          /\ \/ bcb_state[b] \in Storing /\ wi[b].target # "S_INVALID"
             \/ bcb_state[b] \in Revoking /\ wi[b].target = "S_INVALID"
             \/ bcb_state[b] \in Updating /\ wi[b].target = "S_CLEAN"
      BY <1>0, <2>3, Zenon DEF IoFits, DataSafe
    <2>6. /\ bcb_state[b] \notin Stable \cup NoData \cup {"S_CLEAN_VERIFY", "S_INVALID"}
          /\ bcb_state[b] \in Revoking <=> wi[b].target = "S_INVALID"
      BY <2>5, StateClasses, Zenon DEF Stable
    <2>7. IoFits(b)' /\ Busy(b)
      BY <1>0, <2>3, <2>4, <2>5, <2>6, Zenon DEF IoFits, Putting, Busy
    <2>8. DataSafe(b)'
      BY <1>0, <2>1, <2>3, <2>4, <2>5, <2>6, Zenon DEF DataSafe, Valid
    <2>9. Described(b)'
      BY <1>0, <2>1, <2>3, <2>4, <2>6, Zenon DEF Described, Valid
    <2>10. Local(b)
      BY <2>1, <2>3, <2>4, <2>7, <2>8, <2>9, Zenon DEF Local, Same
    <2> QED BY <2>2, <2>10, LocalKeeps, Zenon
  <1>3. CASE dev_written(b)
    <2>1. TypeOK'
      BY <1>0, <1>3, Zenon DEF dev_written, Await, sm_block_rest, lists, TypeOK, IoStates, WorkItems
    <2>2. /\ io[b] = "dev_write" /\ io'[b] = "dev_written"
          /\ \A d \in Blocks \ {b} : io'[d] = io[d]
      BY <1>0, <1>3, Zenon DEF dev_written, Await, TypeOK
    <2>3. /\ bcb_state' = bcb_state /\ bcb_hash_data' = bcb_hash_data
          /\ bcb_sector' = bcb_sector /\ bcb_xid' = bcb_xid /\ bcb_held' = bcb_held
          /\ bcb_entry' = bcb_entry /\ bc_xid' = bc_xid /\ wi' = wi /\ bio' = bio
          /\ pmem' = pmem /\ pmem_data' = pmem_data
      BY <1>3, Zenon DEF dev_written, sm_block_rest, lists
    <2>4. IoFits(b)' /\ Busy(b)
      BY <1>0, <2>2, <2>3, Zenon DEF IoFits, Busy, Putting
    <2>5. DataSafe(b)' /\ Described(b)'
      BY <1>0, <2>2, <2>3, Zenon DEF DataSafe, Described, Valid
    <2>6. \A d \in Blocks \ {b} : Same(d)
      BY <2>2, <2>3, Zenon DEF Same
    <2>7. Local(b)
      BY <2>3, <2>4, <2>5, <2>6, Zenon DEF Local
    <2> QED BY <2>1, <2>7, LocalKeeps, Zenon
  <1>4. CASE io_end_put(b)
    <2> USE <1>4 DEF io_end_put, Release, Await, sm_block_rest, lists, media
    <2>1. bc' \in Counters
      <3>0. /\ bc \in Counters
            /\ bc.pending_invalidate_requests - 1 \in Int
            /\ bc.pending_writeback_requests - 1 \in Int
            /\ bc.pending_requests - 1 \in Int
            /\ bc.valid_entries_dirty - 1 \in Int
            /\ bc.valid_entries_clean + 1 \in Int
        BY <1>0 DEF TypeOK, Counters
      <3>1. CASE io[b] = "put_invalidated"
        BY <3>0, <3>1, Zenon DEF Counters
      <3>2. CASE io[b] = "put_written_back"
        BY <3>0, <3>2, Zenon DEF Counters
      <3>3. CASE io[b] = "put_cleaned"
        BY <3>0, <3>3, Zenon DEF Counters
      <3> QED BY <3>1, <3>2, <3>3, Zenon
    <2>2. TypeOK'
      BY <1>0, <2>1, Zenon DEF TypeOK, IoStates
    <2>3. /\ io[b] \in Putting /\ io'[b] = "none" /\ bcb_held' = bcb_held \ {b}
          /\ \A d \in Blocks \ {b} : io'[d] = io[d]
          /\ bcb_state' = bcb_state /\ bcb_sector' = bcb_sector /\ bcb_xid' = bcb_xid
          /\ bcb_hash_data' = bcb_hash_data /\ bcb_entry' = bcb_entry /\ bc_xid' = bc_xid
          /\ wi' = wi /\ bio' = bio /\ pmem' = pmem /\ pmem_data' = pmem_data
      BY <1>0, Zenon DEF TypeOK, Putting
    <2> HIDE <1>4 DEF io_end_put
    <2>4. /\ bcb_state[b] \in Stable /\ b \in bcb_held
          /\ io[b] \notin {"none", "meta_written"}
      BY <1>0, <2>3, Zenon DEF IoFits, Putting
    <2>5. bcb_state[b] \notin Incoming \cup {"S_CLEAN_VERIFY"}
      BY <2>4, StateClasses, Zenon
    <2>6. IoFits(b)' /\ Busy(b)
      BY <1>0, <2>3, <2>4, <2>5, Zenon DEF IoFits, Busy, Putting
    <2>7. DataSafe(b)' /\ Described(b)'
      BY <1>0, <2>3, <2>4, <2>5, Zenon DEF DataSafe, Described, Valid
    <2>8. \A d \in Blocks \ {b} : Same(d)
      BY <2>3, Zenon DEF Same
    <2>9. Local(b)
      BY <2>3, <2>6, <2>7, <2>8, Zenon DEF Local
    <2> QED BY <2>2, <2>9, LocalKeeps, Zenon
  <1>5. CASE dev_was_read(b)
    <2>1. /\ io[b] = "dev_read" /\ io'[b] = "dev_was_read"
          /\ \A d \in Blocks \ {b} : io'[d] = io[d] /\ wi'[d] = wi[d]
      BY <1>0, <1>5, Zenon DEF dev_was_read, Await, TypeOK
    <2>2. /\ bcb_state' = bcb_state /\ bcb_hash_data' = bcb_hash_data
          /\ bcb_sector' = bcb_sector /\ bcb_xid' = bcb_xid /\ bcb_held' = bcb_held
          /\ bcb_entry' = bcb_entry /\ bc_xid' = bc_xid /\ bio' = bio
          /\ pmem' = pmem /\ pmem_data' = pmem_data
      BY <1>5, Zenon DEF dev_was_read, sm_block_rest, lists, media
    <2>3. bcb_state[b] \notin Stable \cup NoData \cup {"S_CLEAN_VERIFY"} /\ b \in bcb_held
      BY <1>0, <2>1, Zenon DEF IoFits, Putting
    <2>4. dev[bcb_sector[b]] \in Contents
      BY <1>0, <2>3, Zenon DEF TypeOK, Described, Stable
    <2>5. wi' \in [Blocks -> WorkItems] /\ wi'[b].orig = wi[b].orig
      <3>1. wi \in [Blocks -> WorkItems]
        BY <1>0, Zenon DEF TypeOK
      <3>2. wi' = [wi EXCEPT ![b] = [wi[b] EXCEPT !.page = dev[bcb_sector[b]]]]
        BY <1>5 DEF dev_was_read
      <3>3. /\ [wi[b] EXCEPT !.page = dev[bcb_sector[b]]] \in WorkItems
            /\ [wi[b] EXCEPT !.page = dev[bcb_sector[b]]].orig = wi[b].orig
        BY <2>4, <3>1 DEF WorkItems
      <3> QED BY <3>1, <3>2, <3>3, Zenon
    <2>6. TypeOK'
      BY <1>0, <1>5, <2>5, Zenon DEF dev_was_read, Await, sm_block_rest, lists, media, TypeOK,
                                     IoStates
    <2>7. IoFits(b)' /\ Busy(b)
      BY <1>0, <2>1, <2>2, <2>3, Zenon DEF IoFits, Busy, Putting
    <2>8. DataSafe(b)' /\ Described(b)'
      BY <1>0, <2>1, <2>2, Zenon DEF DataSafe, Described, Valid
    <2>9. Local(b)
      BY <2>1, <2>2, <2>5, <2>7, <2>8, Zenon DEF Local, Same
    <2> QED BY <2>6, <2>9, LocalKeeps, Zenon
  <1> QED BY <1>1, <1>2, <1>3, <1>4, <1>5, Zenon DEF io_step

(* A thread takes an idle valid block for a work item of its own.  *)
LEMMA ThreadTakeKeeps ==
    ASSUME CrashSafe, NEW b \in Blocks, b \notin bcb_held, Hold(b),
           bcb_state[b] \in {"S_CLEAN", "S_DIRTY"},
           NEW s \in Using \cup InvalidateStart, To(b, s),
           bcb_entry' \in [Blocks -> {"invalid", "valid", "none"}],
           bcb_entry'[b] # "invalid",
           \A d \in Blocks \ {b} : bcb_entry'[d] = bcb_entry[d],
           bcb_entry_cleandirty' \in [Blocks -> {"clean", "dirty", "none"}],
           wi' = [wi EXCEPT ![b] = [NoWi EXCEPT !.xid = bcb_xid[b]]], Await(b, "ready"),
           bc' \in Counters,
           UNCHANGED <<bcb_sector, bcb_xid, bcb_hash_data, rb_tree, bc_xid,
                       bc_cache_mode_writeback, bio, media, committed, crashes>>
    PROVE  CrashSafe'
  <1> USE DEF Hold, To, Await, media
  <1>1. /\ wi' \in [Blocks -> WorkItems] /\ wi'[b].orig = None
        /\ \A d \in Blocks \ {b} : wi'[d] = wi[d]
    <2>1. bcb_xid[b] \in Nat /\ wi \in [Blocks -> WorkItems]
      BY Zenon DEF CrashSafe, TypeOK
    <2>2. /\ [NoWi EXCEPT !.xid = bcb_xid[b]] \in WorkItems
          /\ [NoWi EXCEPT !.xid = bcb_xid[b]].orig = None
      BY <2>1, NoWiType, Zenon DEF WorkItems
    <2> QED BY <2>1, <2>2, Zenon
  <1>2. TypeOK'
    BY <1>1, StateClasses, Zenon DEF CrashSafe, TypeOK, IoStates
  <1>3. \A d \in Blocks \ {b} : Same(d)
    BY <1>1, Zenon DEF CrashSafe, TypeOK, Same
  <1>4. IoFits(b)'
    BY <1>1, StateClasses, SMTT(30) DEF CrashSafe, TypeOK, IoFits, Putting, Stable
  <1>5. DataSafe(b)' /\ Described(b)'
    BY StateClasses DEF CrashSafe, TypeOK, DataSafe, Described, Valid, Stable
  <1>6. PICK r : r \notin Bios
    BY CacheAssumption, Zenon DEF CacheAssumption
  <1> QED BY <1>1, <1>2, <1>3, <1>4, <1>5, <1>6, TakeKeeps, Zenon

(* A block that is verified, and the clean block it was, has no write      *)
(* under way (cache_block_verifier_block).                                 *)
LEMMA VerifyState ==
    /\ "S_CLEAN_VERIFY" \notin Storing \cup Incoming \cup Revoking \cup Updating \cup Stable
                                \cup NoData \cup InvalidateStart
    /\ "S_CLEAN" \notin Storing \cup Incoming \cup Revoking \cup Updating \cup NoData
    /\ "S_CLEAN" \in Stable
  BY StateClasses, Zenon DEF Stable

(* The bgwriter, the invalidator and the verifier.  *)
LEMMA ThreadKeeps ==
    ASSUME CrashSafe, NEW b \in Blocks, thread_step(b)
    PROVE  CrashSafe'
  <1>0. /\ bc \in Counters /\ bcb_entry \in [Blocks -> {"invalid", "valid", "none"}]
        /\ bcb_entry_cleandirty \in [Blocks -> {"clean", "dirty", "none"}]
        /\ bcb_entry[b] = "invalid" => bcb_state[b] = "S_INVALID"
    BY Zenon DEF CrashSafe, TypeOK, IoFits
  <1>1. CASE cache_bgwriter_io_start_one(b)
    <2> USE DEF cache_bgwriter_io_start_one
    <2>1. PICK s \in Using : To(b, s)
      BY <1>1, Zenon DEF Using, Writeback, WritebackClean, WritebackInv
    <2>2. /\ bcb_entry' \in [Blocks -> {"invalid", "valid", "none"}] /\ bcb_entry'[b] # "invalid"
          /\ \A d \in Blocks \ {b} : bcb_entry'[d] = bcb_entry[d]
          /\ bcb_entry_cleandirty' \in [Blocks -> {"clean", "dirty", "none"}]
      BY <1>0, <1>1, Zenon
    <2>3. bc' \in Counters
      <3>1. /\ bc.pending_writeback_requests + 1 \in Int /\ bc.pending_requests + 1 \in Int
            /\ bc.pending_invalidate_requests + 0 \in Int
            /\ bc.pending_invalidate_requests + 1 \in Int
        BY <1>0 DEF Counters
      <3>2. bc.pending_invalidate_requests +
               (IF cache_invalidator_has_work_schmitt THEN 1 ELSE 0) \in Int
        BY <3>1, Zenon
      <3> QED BY <1>0, <1>1, <3>1, <3>2, Zenon DEF Counters
    <2> QED BY <1>1, <2>1, <2>2, <2>3, ThreadTakeKeeps, Zenon
  <1>2. CASE cache_invalidate_clean_blocks(b)
    <2> USE DEF cache_invalidate_clean_blocks
    <2>1. PICK s \in InvalidateStart : To(b, s)
      BY <1>2, Zenon DEF InvalidateStart
    <2>2. bc' \in Counters
      BY <1>0, <1>2 DEF Counters
    <2>3. UNCHANGED <<bcb_entry, bcb_entry_cleandirty, rb_tree>>
      BY <1>2, Zenon DEF lists
    <2> QED BY <1>0, <1>2, <2>1, <2>2, <2>3, ThreadTakeKeeps, ZenonT(30)
  <1>3. CASE cache_block_verify_start(b)
    <2> USE <1>3 DEF cache_block_verify_start
    <2>1. TypeOK'
      BY StateClasses, Zenon DEF CrashSafe, TypeOK, Hold, To, media, lists
    <2>2. \A d \in Blocks \ {b} : Same(d)
      BY Zenon DEF CrashSafe, TypeOK, Same, Hold, To, media, lists
    <2>3. IoFits(b) /\ DataSafe(b) /\ Described(b)
      BY Zenon DEF CrashSafe
    <2>4. b \notin bcb_held /\ bcb_state[b] = "S_CLEAN"
      BY Zenon
    <2>5. bcb_state'[b] = "S_CLEAN_VERIFY" /\ b \in bcb_held'
      BY Zenon DEF CrashSafe, TypeOK, Hold, To
    <2>6. UNCHANGED <<io, wi, bcb_hash_data, bcb_entry, bcb_sector, bcb_xid, pmem, pmem_data>>
      BY Zenon DEF media, lists
    <2> HIDE <1>3
    <2>7. io[b] = "none" /\ bcb_entry[b] # "invalid"
      BY <2>3, <2>4, Zenon DEF IoFits
    <2>8. IoFits(b)'
      BY <2>5, <2>6, <2>7, VerifyState, Zenon DEF IoFits, Putting
    <2>9. DataSafe(b)' /\ Described(b)'
      BY <2>3, <2>4, <2>5, <2>6, <2>7, VerifyState, Zenon DEF DataSafe, Described, Valid
    <2>10. PICK r : r \notin Bios
      BY CacheAssumption, Zenon DEF CacheAssumption
    <2> USE <1>3
    <2> QED BY <2>1, <2>2, <2>8, <2>9, <2>10, TakeKeeps, Zenon DEF Hold, media
  <1>4. CASE cache_block_verify_end(b)
    <2> USE <1>4 DEF cache_block_verify_end
    <2>1. TypeOK'
      BY StateClasses, Zenon DEF CrashSafe, TypeOK, Stable, Release, To, media, lists
    <2>2. \A d \in Blocks \ {b} : Same(d)
      BY Zenon DEF CrashSafe, TypeOK, Same, Release, To, media, lists
    <2>3. IoFits(b) /\ DataSafe(b) /\ Described(b)
      BY Zenon DEF CrashSafe
    <2>4. bcb_state[b] = "S_CLEAN_VERIFY"
      BY Zenon
    <2>5. bcb_state'[b] = "S_CLEAN" /\ b \notin bcb_held'
      BY Zenon DEF CrashSafe, TypeOK, Release, To
    <2>6. UNCHANGED <<io, wi, bcb_hash_data, bcb_entry, bcb_sector, bcb_xid, pmem, pmem_data>>
      BY Zenon DEF media, lists
    <2> HIDE <1>4
    <2>7. io[b] = "none" /\ bcb_entry[b] # "invalid" /\ b \in bcb_held
      BY <2>3, <2>4, VerifyState, Zenon DEF IoFits
    <2>8. IoFits(b)'
      BY <2>5, <2>6, <2>7, VerifyState, Zenon DEF IoFits, Putting
    <2>9. DataSafe(b)' /\ Described(b)'
      BY <2>3, <2>4, <2>5, <2>6, <2>7, VerifyState, Zenon DEF DataSafe, Described, Valid
    <2>10. Busy(b)
      BY <2>4, <2>7, VerifyState, Zenon DEF Busy
    <2> USE <1>4
    <2> QED
      BY <2>1, <2>2, <2>6, <2>8, <2>9, <2>10, LocalKeeps, ZenonT(30) DEF Local, CrashSafe, TypeOK
  <1> QED BY <1>1, <1>2, <1>3, <1>4, Zenon DEF thread_step

============================================================================
