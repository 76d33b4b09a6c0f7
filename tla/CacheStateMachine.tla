------------------------- MODULE CacheStateMachine -------------------------
(***************************************************************************)
(* The state machine that a work item goes through with the cache block it *)
(* owns (cache_state_machine and the sm_* handlers).  One action per       *)
(* handler, and one per effect that an asynchronous operation has on       *)
(* persistent memory or on the cached device before its callback runs the  *)
(* next handler.                                                           *)
(*                                                                         *)
(* io[b] is what the work item that owns b waits for:                      *)
(*   none          nothing (no work item, or the caller still sets it up)  *)
(*   ready         the handler of the first state runs next                *)
(*   pmem_read     data read from persistent memory                        *)
(*   dev_read, dev_was_read      read from the cached device, then callback*)
(*   dev_write, dev_written      write to the cached device, then callback *)
(*   data_write                  data written to persistent memory, then   *)
(*   meta_write, meta_written    its metadata, then the callback           *)
(*   put_*         the block is in its final state, its hold not dropped   *)
(***************************************************************************)
EXTENDS CacheBlocks

(* cache_state_transition3  *)
From(b, s) == bcb_state[b] = s
To(b, s) == bcb_state' = [bcb_state EXCEPT ![b] = s]

Await(b, what) == io' = [io EXCEPT ![b] = what]

sm_block_rest == <<bcb_sector, bcb_xid, bcb_held, lists, bc_xid,
                   bc_cache_mode_writeback, crashes>>

----------------------------------------------------------------------------
\* Persistent memory and the cached device

(* Mutated: the metadata is written before the data.  *)
put_page_write_reversed(b, page, status) ==
    /\ wi' = [wi EXCEPT ![b].page = page, ![b].target = status]
    /\ pmem_data' = [pmem_data EXCEPT ![b] = Torn]
    /\ Await(b, "meta_write")

(* pmem_data_put_page_write: the data block is overwritten ...             *)
put_page_write(b, page, status) ==
    /\ wi' = [wi EXCEPT ![b].page = page, ![b].target = status]
    /\ pmem_data' = [pmem_data EXCEPT ![b] = Torn]
    /\ Await(b, "data_write")

(* ... pmem_data_put_page_write_endio: then its metadata is written ...    *)
pmem_data_written(b) ==
    /\ io[b] = "data_write"
    /\ pmem_data' = [pmem_data EXCEPT ![b] = wi[b].page]
    /\ Await(b, "meta_write")
    /\ UNCHANGED <<bcb_state, bcb_hash_data, sm_block_rest, bc, wi, bio, pmem, dev,
                   committed>>

(* ... and so is a metadata update without data.                           *)
metadata_async_write(b, status) ==
    /\ wi' = [wi EXCEPT ![b].target = status]
    /\ Await(b, "meta_write")

(* Mutated: the state in memory is written, not the one asked for.  *)
MetadataInMemory(b, status) ==
    [status |-> bcb_state[b], sector |-> bcb_sector[b], xid |-> bcb_xid[b],
     hash |-> bcb_hash_data[b]]

(* What is written of an invalid block but its state is never read: a      *)
(* restore only takes the rest from a valid one.                           *)
Metadata(b, status) ==
    IF status = "S_INVALID" THEN NoMeta
    ELSE [status |-> status, sector |-> bcb_sector[b], xid |-> bcb_xid[b],
          hash |-> bcb_hash_data[b]]

(* The metadata is in persistent memory, whole.  A crash before this step  *)
(* may leave a part of it there: MetadataInFlight of BitternCache.         *)
pmem_metadata_written(b) ==
    /\ io[b] = "meta_write"
    /\ pmem' = [pmem EXCEPT ![b] = Metadata(b, wi[b].target)]
    /\ Await(b, "meta_written")
    /\ UNCHANGED <<bcb_state, bcb_hash_data, sm_block_rest, bc, wi, bio, pmem_data,
                   dev, committed>>

(* The cached device is read, some time before the callback runs.  *)
dev_was_read(b) ==
    /\ io[b] = "dev_read"
    /\ wi' = [wi EXCEPT ![b].page = dev[bcb_sector[b]]]
    /\ Await(b, "dev_was_read")
    /\ UNCHANGED <<bcb_state, bcb_hash_data, sm_block_rest, bc, bio, media, committed>>

(* A write of the whole block reaches the cached device, and is taken to   *)
(* be stable: what cached_devio.c is there for (see CachedDevio).          *)
dev_written(b) ==
    /\ io[b] = "dev_write"
    /\ dev' = [dev EXCEPT ![bcb_sector[b]] = wi[b].page]
    /\ Await(b, "dev_written")
    /\ UNCHANGED <<bcb_state, bcb_hash_data, sm_block_rest, bc, wi, bio, pmem,
                   pmem_data, committed>>

----------------------------------------------------------------------------
\* The end of a request

(* cache_state_transition_final, cache_put, bio_endio, and the counters.   *)
end_request(b, final, result) ==
    LET r == wi[b].bio IN
    /\ To(b, final)
    /\ Release(b)
    /\ bio' = [bio EXCEPT ![r].pc = "done", ![r].blk = None, ![r].clone = None,
                          ![r].result = result]
    /\ UNCHANGED <<bcb_sector, bcb_xid, bcb_hash_data, lists, bc_xid,
                   bc_cache_mode_writeback, media, crashes>>

end_read(b, final, page) ==
    /\ end_request(b, final, page)
    /\ bc' = [bc EXCEPT !.pending_requests = @ - 1]
    /\ wi' = [wi EXCEPT ![b] = NoWi]
    /\ Await(b, "none")
    /\ UNCHANGED committed

end_write(b, final) ==
    /\ end_request(b, final, Blank)
    /\ bc' = [bc EXCEPT !.pending_requests = @ - 1]
    /\ wi' = [wi EXCEPT ![b] = NoWi]
    /\ Await(b, "none")
    /\ committed' = [committed EXCEPT ![bcb_sector[b]] = bio_copy_to_cache(wi[b].bio, @)]

(* Mutated: the original is given back before it is invalidated.  *)
end_write_hit_released(b, final) ==
    LET o == wi[b].orig IN
    /\ To(b, final)
    /\ bcb_held' = bcb_held \ {b, o}
    /\ bio' = [bio EXCEPT ![wi[b].bio].pc = "done"]
    /\ bc' = [bc EXCEPT !.pending_requests = @ - 1, !.pending_invalidate_requests = @ + 1]
    /\ wi' = [wi EXCEPT ![b] = NoWi, ![o] = [NoWi EXCEPT !.xid = bcb_xid[o]]]
    /\ io' = [io EXCEPT ![b] = "none", ![o] = "ready"]
    /\ committed' = [committed EXCEPT ![bcb_sector[b]] = bio_copy_to_cache(wi[b].bio, @)]
    /\ UNCHANGED <<bcb_sector, bcb_xid, bcb_hash_data, lists, bc_xid,
                   bc_cache_mode_writeback, media, crashes>>

(* A write hit ends in two steps.  #1 completes the request on the clone;  *)
(* #2 hands the work item over to the original (work_item_reallocate) and  *)
(* starts its invalidation.                                                *)
end_write_hit(b, final) ==
    LET o == wi[b].orig IN
    /\ end_request(b, final, Blank)
    /\ bc' = [bc EXCEPT !.pending_requests = @ - 1, !.pending_invalidate_requests = @ + 1]
    /\ wi' = [wi EXCEPT ![b] = NoWi, ![o] = [NoWi EXCEPT !.xid = bcb_xid[o]]]
    /\ io' = [io EXCEPT ![b] = "none", ![o] = "ready"]
    /\ committed' = [committed EXCEPT ![bcb_sector[b]] = bio_copy_to_cache(wi[b].bio, @)]

----------------------------------------------------------------------------
\* Reads (bittern_cache_sm_read.c)

sm_read_hit_copy_from_cache_start(b) ==
    /\ \/ /\ From(b, "S_CLEAN_READ_HIT_CPF_CACHE_START")
          /\ To(b, "S_CLEAN_READ_HIT_CPF_CACHE_END")
       \/ /\ From(b, "S_DIRTY_READ_HIT_CPF_CACHE_START")
          /\ To(b, "S_DIRTY_READ_HIT_CPF_CACHE_END")
    /\ Await(b, "pmem_read")
    /\ UNCHANGED <<sm_block_rest, bcb_hash_data, bc, wi, bio, media, committed>>

sm_read_hit_copy_from_cache_end(b) ==
    \/ /\ From(b, "S_CLEAN_READ_HIT_CPF_CACHE_END")
       /\ end_read(b, "S_CLEAN", pmem_data[b])
    \/ /\ From(b, "S_DIRTY_READ_HIT_CPF_CACHE_END")
       /\ end_read(b, "S_DIRTY", pmem_data[b])

sm_read_miss_copy_from_device_start(b) ==
    /\ From(b, "S_CLEAN_READ_MISS_CPF_DEVICE_START")
    /\ To(b, "S_CLEAN_READ_MISS_CPF_DEVICE_END")
    /\ Await(b, "dev_read")
    /\ UNCHANGED <<sm_block_rest, bcb_hash_data, bc, wi, bio, media, committed>>

(* Mutated: goes on in a state of another path.  *)
sm_read_miss_copy_from_device_end_mistaken(b) ==
    /\ From(b, "S_CLEAN_READ_MISS_CPF_DEVICE_END")
    /\ io[b] = "dev_was_read"
    /\ To(b, "S_CLEAN_WRITE_MISS_CPT_CACHE_END")
    /\ bcb_hash_data' = [bcb_hash_data EXCEPT ![b] = wi[b].page]
    /\ put_page_write(b, wi[b].page, "S_CLEAN")
    /\ UNCHANGED <<sm_block_rest, bc, bio, pmem, dev, committed>>

sm_read_miss_copy_from_device_end(b) ==
    /\ From(b, "S_CLEAN_READ_MISS_CPF_DEVICE_END")
    /\ io[b] = "dev_was_read"
    /\ To(b, "S_CLEAN_READ_MISS_CPT_CACHE_END")
    /\ bcb_hash_data' = [bcb_hash_data EXCEPT ![b] = wi[b].page]
    /\ put_page_write(b, wi[b].page, "S_CLEAN")
    /\ UNCHANGED <<sm_block_rest, bc, bio, pmem, dev, committed>>

sm_read_miss_copy_to_cache_end(b) ==
    /\ From(b, "S_CLEAN_READ_MISS_CPT_CACHE_END")
    /\ io[b] = "meta_written"
    /\ end_read(b, "S_CLEAN", wi[b].page)

----------------------------------------------------------------------------
\* Writes that go to the cached device first (writethrough)

sm_clean_pwrite_hit_copy_from_cache_start(b) ==
    /\ From(b, "S_CLEAN_P_WRITE_HIT_CPF_O_CACHE_START")
    /\ To(b, "S_CLEAN_P_WRITE_HIT_CPT_DEVICE_START")
    /\ Await(b, "pmem_read")
    /\ UNCHANGED <<sm_block_rest, bcb_hash_data, bc, wi, bio, media, committed>>

(* Mutated: a partial write does not start from the original's data.  *)
page_to_write_blank(b) == bio_copy_to_cache(wi[b].bio, Blank)

(* The page to write: a partial write hit starts from the original's data. *)
page_to_write(b) ==
    LET base == IF wi[b].orig = None THEN Blank ELSE pmem_data[wi[b].orig]
    IN  bio_copy_to_cache(wi[b].bio, base)

sm_clean_write_miss_copy_to_device_start(b) ==
    /\ \/ /\ From(b, "S_CLEAN_WRITE_MISS_CPT_DEVICE_START")
          /\ To(b, "S_CLEAN_WRITE_MISS_CPT_DEVICE_END")
       \/ /\ From(b, "S_CLEAN_WRITE_HIT_CPT_DEVICE_START")
          /\ To(b, "S_CLEAN_WRITE_HIT_CPT_DEVICE_END")
       \/ /\ From(b, "S_CLEAN_P_WRITE_HIT_CPT_DEVICE_START")
          /\ To(b, "S_CLEAN_P_WRITE_HIT_CPT_DEVICE_END")
    /\ bcb_hash_data' = [bcb_hash_data EXCEPT ![b] = page_to_write(b)]
    /\ wi' = [wi EXCEPT ![b].page = page_to_write(b)]
    /\ Await(b, "dev_write")
    /\ UNCHANGED <<sm_block_rest, bc, bio, media, committed>>

sm_clean_write_miss_copy_to_device_end(b) ==
    /\ io[b] = "dev_written"
    /\ \/ /\ From(b, "S_CLEAN_WRITE_MISS_CPT_DEVICE_END")
          /\ To(b, "S_CLEAN_WRITE_MISS_CPT_CACHE_END")
       \/ /\ From(b, "S_CLEAN_WRITE_HIT_CPT_DEVICE_END")
          /\ To(b, "S_CLEAN_WRITE_HIT_CPT_CACHE_END")
       \/ /\ From(b, "S_CLEAN_P_WRITE_HIT_CPT_DEVICE_END")
          /\ To(b, "S_CLEAN_P_WRITE_HIT_CPT_CACHE_END")
    /\ put_page_write(b, wi[b].page, "S_CLEAN")
    /\ UNCHANGED <<sm_block_rest, bcb_hash_data, bc, bio, pmem, dev, committed>>

sm_clean_write_miss_copy_to_cache_end(b) ==
    /\ io[b] = "meta_written"
    /\ \/ /\ From(b, "S_CLEAN_WRITE_MISS_CPT_CACHE_END")
          /\ end_write(b, "S_CLEAN")
       \/ /\ \/ From(b, "S_CLEAN_WRITE_HIT_CPT_CACHE_END")
             \/ From(b, "S_CLEAN_P_WRITE_HIT_CPT_CACHE_END")
          /\ end_write_hit(b, "S_CLEAN")

----------------------------------------------------------------------------
\* Writes that go to the cache only (writeback)

sm_dirty_write_miss_copy_to_cache_start(b) ==
    /\ From(b, "S_DIRTY_WRITE_MISS_CPT_CACHE_START")
    /\ To(b, "S_DIRTY_WRITE_MISS_CPT_CACHE_END")
    /\ bcb_hash_data' = [bcb_hash_data EXCEPT ![b] = page_to_write(b)]
    /\ put_page_write(b, page_to_write(b), "S_DIRTY")
    /\ UNCHANGED <<sm_block_rest, bc, bio, pmem, dev, committed>>

sm_dirty_write_miss_copy_to_cache_end(b) ==
    /\ From(b, "S_DIRTY_WRITE_MISS_CPT_CACHE_END")
    /\ io[b] = "meta_written"
    /\ end_write(b, "S_DIRTY")

sm_dirty_pwrite_hit_copy_from_cache_start(b) ==
    /\ \/ /\ From(b, "S_C2_DIRTY_P_WRITE_HIT_CPF_O_CACHE_START")
          /\ To(b, "S_C2_DIRTY_P_WRITE_HIT_CPT_CACHE_START")
       \/ /\ From(b, "S_DIRTY_P_WRITE_HIT_CPF_O_CACHE_START")
          /\ To(b, "S_DIRTY_P_WRITE_HIT_CPT_CACHE_START")
    /\ Await(b, "pmem_read")
    /\ UNCHANGED <<sm_block_rest, bcb_hash_data, bc, wi, bio, media, committed>>

(* The clone's data and the full page write hit end in the same way.       *)
sm_dirty_pwrite_hit_copy_to_cache_start(b) ==
    /\ \/ /\ From(b, "S_C2_DIRTY_P_WRITE_HIT_CPT_CACHE_START")
          /\ To(b, "S_C2_DIRTY_P_WRITE_HIT_CPT_CACHE_END")
       \/ /\ From(b, "S_DIRTY_P_WRITE_HIT_CPT_CACHE_START")
          /\ To(b, "S_DIRTY_P_WRITE_HIT_CPT_CACHE_END")
    /\ bcb_hash_data' = [bcb_hash_data EXCEPT ![b] = page_to_write(b)]
    /\ put_page_write(b, page_to_write(b), "S_DIRTY")
    /\ UNCHANGED <<sm_block_rest, bc, bio, pmem, dev, committed>>

sm_dirty_write_hit_copy_to_cache_start(b) ==
    /\ \/ /\ From(b, "S_C2_DIRTY_WRITE_HIT_CPT_CACHE_START")
          /\ To(b, "S_C2_DIRTY_WRITE_HIT_CPT_CACHE_END")
       \/ /\ From(b, "S_DIRTY_WRITE_HIT_CPT_CACHE_START")
          /\ To(b, "S_DIRTY_WRITE_HIT_CPT_CACHE_END")
    /\ bcb_hash_data' = [bcb_hash_data EXCEPT ![b] = page_to_write(b)]
    /\ put_page_write(b, page_to_write(b), "S_DIRTY")
    /\ UNCHANGED <<sm_block_rest, bc, bio, pmem, dev, committed>>

DirtyHitEnds == {"S_C2_DIRTY_WRITE_HIT_CPT_CACHE_END", "S_DIRTY_WRITE_HIT_CPT_CACHE_END",
                 "S_C2_DIRTY_P_WRITE_HIT_CPT_CACHE_END", "S_DIRTY_P_WRITE_HIT_CPT_CACHE_END"}

sm_dirty_write_hit_copy_to_cache_end(b) ==
    /\ bcb_state[b] \in DirtyHitEnds
    /\ io[b] = "meta_written"
    /\ end_write_hit(b, "S_DIRTY")

----------------------------------------------------------------------------
\* Partial write misses (bittern_cache_sm_pwrite.c)

sm_pwrite_miss_copy_from_device_start(b) ==
    /\ \/ /\ From(b, "S_CLEAN_P_WRITE_MISS_CPF_DEVICE_START")
          /\ To(b, "S_CLEAN_P_WRITE_MISS_CPF_DEVICE_END")
       \/ /\ From(b, "S_DIRTY_P_WRITE_MISS_CPF_DEVICE_START")
          /\ To(b, "S_DIRTY_P_WRITE_MISS_CPF_DEVICE_END")
    /\ Await(b, "dev_read")
    /\ UNCHANGED <<sm_block_rest, bcb_hash_data, bc, wi, bio, media, committed>>

sm_pwrite_miss_copy_from_device_end(b) ==
    LET page == bio_copy_to_cache(wi[b].bio, wi[b].page) IN
    /\ io[b] = "dev_was_read"
    /\ \/ /\ From(b, "S_CLEAN_P_WRITE_MISS_CPF_DEVICE_END")
          /\ To(b, "S_CLEAN_P_WRITE_MISS_CPT_DEVICE_END")
          /\ wi' = [wi EXCEPT ![b].page = page]
          /\ Await(b, "dev_write")
          /\ UNCHANGED pmem_data
       \/ /\ From(b, "S_DIRTY_P_WRITE_MISS_CPF_DEVICE_END")
          /\ To(b, "S_DIRTY_P_WRITE_MISS_CPT_CACHE_END")
          /\ put_page_write(b, page, "S_DIRTY")
    /\ bcb_hash_data' = [bcb_hash_data EXCEPT ![b] = page]
    /\ UNCHANGED <<sm_block_rest, bc, bio, pmem, dev, committed>>

(* The writethrough path goes on in a state of the writeback path.  *)
sm_pwrite_miss_copy_to_device_end(b) ==
    /\ From(b, "S_CLEAN_P_WRITE_MISS_CPT_DEVICE_END")
    /\ io[b] = "dev_written"
    /\ To(b, "S_DIRTY_P_WRITE_MISS_CPT_CACHE_END")
    /\ put_page_write(b, wi[b].page, "S_CLEAN")
    /\ UNCHANGED <<sm_block_rest, bcb_hash_data, bc, bio, pmem, dev, committed>>

sm_pwrite_miss_copy_to_cache_end(b) ==
    /\ bcb_state[b] \in {"S_CLEAN_P_WRITE_MISS_CPT_CACHE_END",
                        "S_DIRTY_P_WRITE_MISS_CPT_CACHE_END"}
    /\ io[b] = "meta_written"
    /\ end_write(b, IF From(b, "S_CLEAN_P_WRITE_MISS_CPT_CACHE_END")
                    THEN "S_CLEAN" ELSE "S_DIRTY")

----------------------------------------------------------------------------
\* Invalidation and writeback

sm_invalidate_start(b) ==
    /\ io[b] = "ready"
    /\ \/ /\ From(b, "S_CLEAN_INVALIDATE_START")
          /\ To(b, "S_CLEAN_INVALIDATE_END")
       \/ /\ From(b, "S_DIRTY_INVALIDATE_START")
          /\ To(b, "S_DIRTY_INVALIDATE_END")
    /\ metadata_async_write(b, "S_INVALID")
    /\ UNCHANGED <<sm_block_rest, bcb_hash_data, bc, bio, media, committed>>

(* sm_invalidate_end and cache_invalidate_block_io_end  *)
sm_invalidate_end(b) ==
    /\ io[b] = "meta_written"
    /\ \/ /\ From(b, "S_CLEAN_INVALIDATE_END")
          /\ cache_move_to_invalid(b, FALSE)
       \/ /\ From(b, "S_DIRTY_INVALIDATE_END")
          /\ cache_move_to_invalid(b, TRUE)
    /\ wi' = [wi EXCEPT ![b] = NoWi]
    /\ Await(b, "put_invalidated")
    /\ UNCHANGED <<bc_xid, bc_cache_mode_writeback, bio, media, committed, crashes>>

sm_writeback_copy_from_cache_start(b) ==
    /\ \/ /\ From(b, "S_DIRTY_WRITEBACK_CPF_CACHE_START")
          /\ To(b, "S_DIRTY_WRITEBACK_CPF_CACHE_END")
       \/ /\ From(b, "S_DIRTY_WRITEBACK_INV_CPF_CACHE_START")
          /\ To(b, "S_DIRTY_WRITEBACK_INV_CPF_CACHE_END")
    /\ Await(b, "pmem_read")
    /\ UNCHANGED <<sm_block_rest, bcb_hash_data, bc, wi, bio, media, committed>>

sm_writeback_copy_from_cache_end(b) ==
    /\ \/ /\ From(b, "S_DIRTY_WRITEBACK_CPF_CACHE_END")
          /\ To(b, "S_DIRTY_WRITEBACK_CPT_DEVICE_END")
       \/ /\ From(b, "S_DIRTY_WRITEBACK_INV_CPF_CACHE_END")
          /\ To(b, "S_DIRTY_WRITEBACK_INV_CPT_DEVICE_END")
    /\ wi' = [wi EXCEPT ![b].page = pmem_data[b]]
    /\ Await(b, "dev_write")
    /\ UNCHANGED <<sm_block_rest, bcb_hash_data, bc, bio, media, committed>>

(* Mutated: the metadata is updated while the write is still in flight.    *)
sm_writeback_copy_to_device_end_early(b) ==
    /\ io[b] \in {"dev_write", "dev_written"}
    /\ \/ /\ From(b, "S_DIRTY_WRITEBACK_CPT_DEVICE_END")
          /\ To(b, "S_DIRTY_WRITEBACK_UPD_METADATA_END")
          /\ metadata_async_write(b, "S_CLEAN")
       \/ /\ From(b, "S_DIRTY_WRITEBACK_INV_CPT_DEVICE_END")
          /\ To(b, "S_DIRTY_WRITEBACK_INV_UPD_METADATA_END")
          /\ metadata_async_write(b, "S_INVALID")
    /\ UNCHANGED <<sm_block_rest, bcb_hash_data, bc, bio, media, committed>>

sm_writeback_copy_to_device_end(b) ==
    /\ io[b] = "dev_written"
    /\ \/ /\ From(b, "S_DIRTY_WRITEBACK_CPT_DEVICE_END")
          /\ To(b, "S_DIRTY_WRITEBACK_UPD_METADATA_END")
          /\ metadata_async_write(b, "S_CLEAN")
       \/ /\ From(b, "S_DIRTY_WRITEBACK_INV_CPT_DEVICE_END")
          /\ To(b, "S_DIRTY_WRITEBACK_INV_UPD_METADATA_END")
          /\ metadata_async_write(b, "S_INVALID")
    /\ UNCHANGED <<sm_block_rest, bcb_hash_data, bc, bio, media, committed>>

(* sm_writeback_update_metadata_end and cache_bgwriter_io_end  *)
sm_writeback_update_metadata_end(b) ==
    /\ io[b] = "meta_written"
    /\ \/ /\ From(b, "S_DIRTY_WRITEBACK_UPD_METADATA_END")
          /\ cache_move_to_clean(b)
          /\ Await(b, "put_cleaned")
       \/ /\ From(b, "S_DIRTY_WRITEBACK_INV_UPD_METADATA_END")
          /\ cache_move_to_invalid(b, TRUE)
          /\ Await(b, "put_written_back")
    /\ wi' = [wi EXCEPT ![b] = NoWi]
    /\ UNCHANGED <<bc_xid, bc_cache_mode_writeback, bio, media, committed, crashes>>

(* The rest of cache_move_to_invalid and cache_move_to_clean, without the  *)
(* locks, and of the io_end function that called them.                     *)
io_end_put(b) ==
    /\ \/ /\ io[b] = "put_invalidated"
          /\ bc' = [bc EXCEPT !.pending_invalidate_requests = @ - 1]
       \/ /\ io[b] = "put_written_back"
          /\ bc' = [bc EXCEPT !.pending_invalidate_requests = @ - 1,
                              !.pending_writeback_requests = @ - 1,
                              !.pending_requests = @ - 1]
       \/ /\ io[b] = "put_cleaned"
          /\ bc' = [bc EXCEPT !.valid_entries_dirty = @ - 1,
                              !.valid_entries_clean = @ + 1,
                              !.pending_writeback_requests = @ - 1,
                              !.pending_requests = @ - 1]
    /\ Release(b)
    /\ Await(b, "none")
    /\ UNCHANGED <<bcb_state, bcb_sector, bcb_xid, bcb_hash_data, lists, bc_xid,
                   bc_cache_mode_writeback, wi, bio, media, committed, crashes>>

cache_state_machine(b) ==
    \/ sm_read_hit_copy_from_cache_start(b)
    \/ sm_read_hit_copy_from_cache_end(b)
    \/ sm_read_miss_copy_from_device_start(b)
    \/ sm_read_miss_copy_from_device_end(b)
    \/ sm_read_miss_copy_to_cache_end(b)
    \/ sm_clean_pwrite_hit_copy_from_cache_start(b)
    \/ sm_clean_write_miss_copy_to_device_start(b)
    \/ sm_clean_write_miss_copy_to_device_end(b)
    \/ sm_clean_write_miss_copy_to_cache_end(b)
    \/ sm_dirty_write_miss_copy_to_cache_start(b)
    \/ sm_dirty_write_miss_copy_to_cache_end(b)
    \/ sm_dirty_pwrite_hit_copy_from_cache_start(b)
    \/ sm_dirty_pwrite_hit_copy_to_cache_start(b)
    \/ sm_dirty_write_hit_copy_to_cache_start(b)
    \/ sm_dirty_write_hit_copy_to_cache_end(b)
    \/ sm_pwrite_miss_copy_from_device_start(b)
    \/ sm_pwrite_miss_copy_from_device_end(b)
    \/ sm_pwrite_miss_copy_to_device_end(b)
    \/ sm_pwrite_miss_copy_to_cache_end(b)
    \/ sm_invalidate_start(b)
    \/ sm_invalidate_end(b)
    \/ sm_writeback_copy_from_cache_start(b)
    \/ sm_writeback_copy_from_cache_end(b)
    \/ sm_writeback_copy_to_device_end(b)
    \/ sm_writeback_update_metadata_end(b)

(* Effects of I/O in flight, and what the io_end functions do last.  *)
io_step(b) ==
    \/ pmem_data_written(b)
    \/ pmem_metadata_written(b)
    \/ dev_was_read(b)
    \/ dev_written(b)
    \/ io_end_put(b)

============================================================================
