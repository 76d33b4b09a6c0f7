---------------------------- MODULE BitternCache ----------------------------
(***************************************************************************)
(* The cache as a whole: requests of the upper layer are mapped onto cache *)
(* blocks (bittern_cache_map, cache_map_workfunc and the cache_handle_*    *)
(* functions of bittern_cache_main.c), the bgwriter, the invalidator and   *)
(* the verifier take idle blocks on their own, the machine may crash and   *)
(* restore the cache from persistent memory (bittern_cache_module_ctr.c).  *)
(*                                                                         *)
(* bio[r].pc is where request r is:                                        *)
(*   idle, map (about to look its block up), deferred, hit (it owns blk),  *)
(*   cloned (it owns blk and clone), miss (it owns a fresh blk), running   *)
(*   (a work item runs the state machine), bypass and bypass_done (direct  *)
(*   I/O to the cached device), done, lost (in flight when the machine     *)
(*   crashed).                                                             *)
(***************************************************************************)
EXTENDS CacheStateMachine

CONSTANTS
    Dirs,            \* the directions of the requests: "READ", "WRITE"
    PartialWrites,   \* whether writes may be smaller than a cache block
    Serialised,      \* whether the upper layer has one request per block in flight
    Bypass,          \* whether sequential access may bypass the cache
    InitialWriteback,
    ModeChanges,     \* whether the cache mode may be changed at run time
    MaxCrashes

ASSUME BitternAssumption ==
    /\ Dirs \subseteq {"READ", "WRITE"}
    /\ {PartialWrites, Serialised, Bypass, InitialWriteback, ModeChanges} \subseteq BOOLEAN
    /\ MaxCrashes \in Nat

InFlight(r) == bio[r].pc \notin {"idle", "done", "lost"}

(* cache_xid_inc  *)
cache_xid_inc == bc_xid + 1

Init ==
    /\ bcb_state = [b \in Blocks |-> "S_INVALID"]
    /\ bcb_sector = [b \in Blocks |-> None]
    /\ bcb_xid = [b \in Blocks |-> 0]
    /\ bcb_hash_data = [b \in Blocks |-> Blank]
    /\ bcb_held = {}
    /\ bcb_entry = [b \in Blocks |-> "invalid"]
    /\ bcb_entry_cleandirty = [b \in Blocks |-> "none"]
    /\ rb_tree = {}
    /\ bc = [invalid_entries |-> Cardinality(Blocks), valid_entries |-> 0,
             valid_entries_clean |-> 0, valid_entries_dirty |-> 0,
             pending_requests |-> 0, pending_writeback_requests |-> 0,
             pending_invalidate_requests |-> 0]
    /\ bc_xid = 1
    /\ bc_cache_mode_writeback = InitialWriteback
    /\ wi = [b \in Blocks |-> NoWi]
    /\ io = [b \in Blocks |-> "none"]
    /\ bio = [r \in Bios |-> NoBio]
    /\ pmem = [b \in Blocks |-> NoMeta]
    /\ pmem_data = [b \in Blocks |-> Blank]
    /\ dev = [s \in Sectors |-> Blank]
    /\ committed = [s \in Sectors |-> Blank]
    /\ crashes = 0

----------------------------------------------------------------------------
\* From the upper layer to a cache block

bittern_cache_map(r) ==
    /\ bio[r].pc = "idle"
    /\ \E d \in Dirs, s \in Sectors, full \in BOOLEAN :
        /\ ~full => PartialWrites /\ d = "WRITE"
        /\ Serialised => \A q \in Bios : InFlight(q) => bio[q].sector # s
        /\ bio' = [bio EXCEPT ![r] = [NoBio EXCEPT
               !.dir = d, !.sector = s, !.full = full,
               !.pc = IF /\ can_schedule_map_request
                         /\ \A q \in Bios : bio[q].pc # "deferred"
                      THEN "map" ELSE "deferred"]]
    /\ UNCHANGED <<block, lists, bc, bc_xid, bc_cache_mode_writeback, wi, io, media,
                   committed, crashes>>

(* handle_deferred: the worker retries a deferred request.  *)
handle_deferred(r) ==
    /\ bio[r].pc = "deferred"
    /\ can_schedule_map_request
    /\ bio' = [bio EXCEPT ![r].pc = "map"]
    /\ UNCHANGED <<block, lists, bc, bc_xid, bc_cache_mode_writeback, wi, io, media,
                   committed, crashes>>

(* cache_map_workfunc as far as the result of cache_get: a hit on an idle  *)
(* block ...                                                               *)
cache_map_workfunc_hit(r) ==
    /\ bio[r].pc = "map"
    /\ \E b \in cache_rb_lookup(bio[r].sector) :
        /\ cache_get_hit_idle(b)
        /\ bio' = [bio EXCEPT ![r].pc = "hit", ![r].blk = b,
                              ![r].wb = bc_cache_mode_writeback]
    /\ UNCHANGED <<bc, bc_xid, bc_cache_mode_writeback, wi, io, media, committed, crashes>>

(* ... a hit on a block that has an owner ...                              *)
cache_map_workfunc_resource_busy(r) ==
    /\ bio[r].pc = "map"
    /\ cache_rb_lookup(bio[r].sector) \cap bcb_held # {}
    /\ bio' = [bio EXCEPT ![r].pc = "deferred"]
    /\ UNCHANGED <<block, lists, bc, bc_xid, bc_cache_mode_writeback, wi, io, media,
                   committed, crashes>>

(* ... a miss that gets an invalid block ...                               *)
cache_map_workfunc_miss(r) ==
    LET s == bio[r].sector
        dirty == bc_cache_mode_writeback /\ bio[r].dir = "WRITE" IN
    /\ bio[r].pc = "map"
    /\ cache_rb_lookup(s) = {}
    /\ \E b \in Blocks :
        /\ cache_get_invalid_block(b, s, dirty)
        /\ bio' = [bio EXCEPT ![r].pc = "miss", ![r].blk = b,
                              ![r].wb = bc_cache_mode_writeback]
    /\ UNCHANGED <<bc_xid, bc_cache_mode_writeback, wi, io, media, committed, crashes>>

(* ... a miss that does not ...                                            *)
cache_map_workfunc_no_resources(r) ==
    /\ bio[r].pc = "map"
    /\ cache_rb_lookup(bio[r].sector) = {}
    /\ no_invalid_block
    /\ bio' = [bio EXCEPT ![r].pc = "deferred"]
    /\ UNCHANGED <<block, lists, bc, bc_xid, bc_cache_mode_writeback, wi, io, media,
                   committed, crashes>>

(* Mutated: a sequential request goes to the device even if it would hit.  *)
cache_map_workfunc_always_bypass(r) ==
    /\ Bypass
    /\ bio[r].pc = "map"
    /\ bc_xid' = cache_xid_inc
    /\ bc' = [bc EXCEPT !.pending_requests = @ + 1]
    /\ bio' = [bio EXCEPT ![r].pc = "bypass"]
    /\ UNCHANGED <<block, lists, bc_cache_mode_writeback, wi, io, media, committed, crashes>>

(* ... and a miss of a sequential request, which goes to the device.       *)
cache_map_workfunc_handle_bypass(r) ==
    /\ Bypass
    /\ bio[r].pc = "map"
    /\ cache_rb_lookup(bio[r].sector) = {}
    /\ bc_xid' = cache_xid_inc
    /\ bc' = [bc EXCEPT !.pending_requests = @ + 1]
    /\ bio' = [bio EXCEPT ![r].pc = "bypass"]
    /\ UNCHANGED <<block, lists, bc_cache_mode_writeback, wi, io, media, committed, crashes>>

bypass_io(r) ==
    LET s == bio[r].sector IN
    /\ bio[r].pc = "bypass"
    /\ bio' = [bio EXCEPT ![r].pc = "bypass_done",
                          ![r].result = IF bio[r].dir = "READ" THEN dev[s] ELSE Blank]
    /\ dev' = [dev EXCEPT ![s] =
                  IF bio[r].dir = "READ" THEN @ ELSE bio_copy_to_cache(r, @)]
    /\ UNCHANGED <<block, lists, bc, bc_xid, bc_cache_mode_writeback, wi, io, pmem,
                   pmem_data, committed, crashes>>

cached_dev_bypass_endio(r) ==
    LET s == bio[r].sector IN
    /\ bio[r].pc = "bypass_done"
    /\ bio' = [bio EXCEPT ![r].pc = "done"]
    /\ bc' = [bc EXCEPT !.pending_requests = @ - 1]
    /\ committed' = [committed EXCEPT ![s] =
                        IF bio[r].dir = "READ" THEN @ ELSE bio_copy_to_cache(r, @)]
    /\ UNCHANGED <<block, lists, bc_xid, bc_cache_mode_writeback, wi, io, media, crashes>>

(* A write hit needs a second block: the clone, or else it is deferred.    *)
cache_get_clone(r) ==
    /\ bio[r].pc = "hit"
    /\ bio[r].dir = "WRITE"
    /\ \/ \E c \in Blocks :
            /\ cache_get_invalid_block(c, bio[r].sector, bio[r].wb)
            /\ bio' = [bio EXCEPT ![r].pc = "cloned", ![r].clone = c]
       \/ /\ no_invalid_block
          /\ Release(bio[r].blk)
          /\ bio' = [bio EXCEPT ![r].pc = "deferred", ![r].blk = None]
          /\ UNCHANGED <<bcb_state, bcb_sector, bcb_xid, bcb_hash_data, lists, bc>>
    /\ UNCHANGED <<bc_xid, bc_cache_mode_writeback, wi, io, media, committed, crashes>>

----------------------------------------------------------------------------
\* Start of the state machine

(* Mutated: the block keeps the xid it had.  *)
start_request_old_xid(r, b, orig) ==
    /\ bc_xid' = cache_xid_inc
    /\ bcb_xid' = bcb_xid
    /\ wi' = [wi EXCEPT ![b] = [NoWi EXCEPT !.bio = r, !.orig = orig,
                                            !.xid = cache_xid_inc]]
    /\ io' = [io EXCEPT ![b] = "ready"]
    /\ bc' = [bc EXCEPT !.pending_requests = @ + 1]
    /\ bio' = [bio EXCEPT ![r].pc = "running"]
    /\ UNCHANGED <<bcb_sector, bcb_hash_data, bcb_held, bcb_entry, rb_tree,
                   bc_cache_mode_writeback, media, committed, crashes>>

(* work_item_allocate with a new xid, which becomes the block's, and       *)
(* cache_update_pending.                                                   *)
start_request(r, b, orig) ==
    /\ bc_xid' = cache_xid_inc
    /\ bcb_xid' = [bcb_xid EXCEPT ![b] = cache_xid_inc]
    /\ wi' = [wi EXCEPT ![b] = [NoWi EXCEPT !.bio = r, !.orig = orig,
                                            !.xid = cache_xid_inc]]
    /\ io' = [io EXCEPT ![b] = "ready"]
    /\ bc' = [bc EXCEPT !.pending_requests = @ + 1]
    /\ bio' = [bio EXCEPT ![r].pc = "running"]
    /\ UNCHANGED <<bcb_sector, bcb_hash_data, bcb_held, bcb_entry, rb_tree,
                   bc_cache_mode_writeback, media, committed, crashes>>

cache_handle_read_hit(r) ==
    LET b == bio[r].blk IN
    /\ bio[r].pc = "hit"
    /\ bio[r].dir = "READ"
    /\ start_request(r, b, None)
    /\ To(b, IF bcb_state[b] = "S_DIRTY" THEN "S_DIRTY_READ_HIT_CPF_CACHE_START"
                                         ELSE "S_CLEAN_READ_HIT_CPF_CACHE_START")
    /\ bcb_entry_cleandirty' = [bcb_entry_cleandirty EXCEPT
           ![b] = IF bcb_state[b] = "S_DIRTY" THEN "dirty" ELSE "clean"]

cache_handle_write_hit_wt(r) ==
    LET o == bio[r].blk
        c == bio[r].clone IN
    /\ bio[r].pc = "cloned"
    /\ ~bio[r].wb
    /\ start_request(r, c, o)
    /\ bcb_state' = [bcb_state EXCEPT
           ![o] = "S_CLEAN_INVALIDATE_START",
           ![c] = IF bio[r].full THEN "S_CLEAN_WRITE_HIT_CPT_DEVICE_START"
                  ELSE "S_CLEAN_P_WRITE_HIT_CPF_O_CACHE_START"]
    /\ bcb_entry_cleandirty' = [bcb_entry_cleandirty EXCEPT ![o] = "clean", ![c] = "clean"]

cache_handle_write_hit_wb(r) ==
    LET o == bio[r].blk
        c == bio[r].clone
        clean == bcb_state[o] = "S_CLEAN" IN
    /\ bio[r].pc = "cloned"
    /\ bio[r].wb
    /\ start_request(r, c, o)
    /\ bcb_state' = [bcb_state EXCEPT
           ![o] = IF clean THEN "S_CLEAN_INVALIDATE_START" ELSE "S_DIRTY_INVALIDATE_START",
           ![c] = IF bio[r].full
                  THEN IF clean THEN "S_C2_DIRTY_WRITE_HIT_CPT_CACHE_START"
                                ELSE "S_DIRTY_WRITE_HIT_CPT_CACHE_START"
                  ELSE IF clean THEN "S_C2_DIRTY_P_WRITE_HIT_CPF_O_CACHE_START"
                                ELSE "S_DIRTY_P_WRITE_HIT_CPF_O_CACHE_START"]
    /\ bcb_entry_cleandirty' = [bcb_entry_cleandirty EXCEPT
           ![o] = IF clean THEN "clean" ELSE "dirty", ![c] = "dirty"]

cache_handle_read_miss(r) ==
    LET b == bio[r].blk IN
    /\ bio[r].pc = "miss"
    /\ bio[r].dir = "READ"
    /\ start_request(r, b, None)
    /\ To(b, "S_CLEAN_READ_MISS_CPF_DEVICE_START")
    /\ bcb_entry_cleandirty' = [bcb_entry_cleandirty EXCEPT ![b] = "clean"]

cache_handle_write_miss_wb(r) ==
    LET b == bio[r].blk IN
    /\ bio[r].pc = "miss"
    /\ bio[r].dir = "WRITE"
    /\ bio[r].wb
    /\ start_request(r, b, None)
    /\ To(b, IF bio[r].full THEN "S_DIRTY_WRITE_MISS_CPT_CACHE_START"
                            ELSE "S_DIRTY_P_WRITE_MISS_CPF_DEVICE_START")
    /\ bcb_entry_cleandirty' = [bcb_entry_cleandirty EXCEPT ![b] = "dirty"]

cache_handle_write_miss_wt(r) ==
    LET b == bio[r].blk IN
    /\ bio[r].pc = "miss"
    /\ bio[r].dir = "WRITE"
    /\ ~bio[r].wb
    /\ start_request(r, b, None)
    /\ To(b, IF bio[r].full THEN "S_CLEAN_WRITE_MISS_CPT_DEVICE_START"
                            ELSE "S_CLEAN_P_WRITE_MISS_CPF_DEVICE_START")
    /\ bcb_entry_cleandirty' = [bcb_entry_cleandirty EXCEPT ![b] = "clean"]

----------------------------------------------------------------------------
\* The threads

(* cache_bgwriter_io_start_one: the block comes from the dirty list, or a  *)
(* sector hint found it in the tree.  Near the point where the invalidator *)
(* starts to work, the block is also invalidated.                          *)
cache_bgwriter_io_start_one(b) ==
    LET inv == cache_invalidator_has_work_schmitt IN
    /\ b \notin bcb_held
    /\ bcb_state[b] = "S_DIRTY"
    /\ Hold(b)
    /\ To(b, IF inv THEN "S_DIRTY_WRITEBACK_INV_CPF_CACHE_START"
                    ELSE "S_DIRTY_WRITEBACK_CPF_CACHE_START")
    /\ bcb_entry_cleandirty' = [bcb_entry_cleandirty EXCEPT ![b] = "none"]
    /\ bcb_entry' = [bcb_entry EXCEPT ![b] = IF inv THEN "none" ELSE @]
    /\ wi' = [wi EXCEPT ![b] = [NoWi EXCEPT !.xid = bcb_xid[b]]]
    /\ Await(b, "ready")
    /\ bc' = [bc EXCEPT !.pending_writeback_requests = @ + 1,
                        !.pending_requests = @ + 1,
                        !.pending_invalidate_requests = @ + (IF inv THEN 1 ELSE 0)]
    /\ UNCHANGED <<bcb_sector, bcb_xid, bcb_hash_data, rb_tree, bc_xid,
                   bc_cache_mode_writeback, bio, media, committed, crashes>>

(* cache_get_clean and cache_invalidate_block_io_start, in the loop of     *)
(* cache_invalidate_clean_blocks.                                          *)
cache_invalidate_clean_blocks(b) ==
    /\ cache_invalidator_has_work_schmitt
    /\ b \notin bcb_held
    /\ bcb_state[b] = "S_CLEAN"
    /\ Hold(b)
    /\ To(b, "S_CLEAN_INVALIDATE_START")
    /\ wi' = [wi EXCEPT ![b] = [NoWi EXCEPT !.xid = bcb_xid[b]]]
    /\ Await(b, "ready")
    /\ bc' = [bc EXCEPT !.pending_invalidate_requests = @ + 1]
    /\ UNCHANGED <<bcb_sector, bcb_xid, bcb_hash_data, lists, bc_xid,
                   bc_cache_mode_writeback, bio, media, committed, crashes>>

(* cache_block_verifier_block: takes an idle clean block ...               *)
cache_block_verify_start(b) ==
    /\ b \notin bcb_held
    /\ bcb_state[b] = "S_CLEAN"
    /\ Hold(b)
    /\ To(b, "S_CLEAN_VERIFY")
    /\ UNCHANGED <<bcb_sector, bcb_xid, bcb_hash_data, lists, bc, bc_xid,
                   bc_cache_mode_writeback, wi, io, bio, media, committed, crashes>>

(* ... compares it with persistent memory and with the device, and gives   *)
(* it back.                                                                *)
cache_block_verify_end(b) ==
    /\ bcb_state[b] = "S_CLEAN_VERIFY"
    /\ To(b, "S_CLEAN")
    /\ Release(b)
    /\ UNCHANGED <<bcb_sector, bcb_xid, bcb_hash_data, lists, bc, bc_xid,
                   bc_cache_mode_writeback, wi, io, bio, media, committed, crashes>>

(* param_set_cache_mode  *)
param_set_cache_mode ==
    /\ ModeChanges
    /\ bc_cache_mode_writeback' = ~bc_cache_mode_writeback
    /\ UNCHANGED <<block, lists, bc, bc_xid, wi, io, bio, media, committed, crashes>>

----------------------------------------------------------------------------
\* Crash and restore

(* The metadata writes that a crash in this state may cut: 64 bytes copied *)
(* to byte-addressable memory, or a page sent to a device, neither of which*)
(* is atomic.  Each leaves the old metadata, the new or a torn mixture.    *)
MetadataInFlight == {b \in Blocks : io[b] = "meta_write"}

(* pmem_block_restore restores only what is finalized: a block in any      *)
(* other state is left invalid.                                            *)
Valid(b) == pmem[b].status \in {"S_CLEAN", "S_DIRTY"}
Copies(s) == {b \in Blocks : Valid(b) /\ pmem[b].sector = s}

(* cache_ctr_restore_block keeps the copy with the highest xid.  *)
Newest(s) == CHOOSE b \in Copies(s) : \A c \in Copies(s) : pmem[c].xid <= pmem[b].xid

(* Mutated: every copy of a sector is kept.  *)
SurvivesAlways(b) == Valid(b)

Survives(b) == Valid(b) /\ b = Newest(pmem[b].sector)

(* pmem_block_restore returns no error for block b, if the crash has torn  *)
(* the metadata of the blocks in torn: the magic number and the hash of    *)
(* the metadata are right, its state is one of the known states, and the   *)
(* data of a valid block has the hash that its metadata says.              *)
pmem_block_restore(b, torn) ==
    /\ b \notin torn
    /\ pmem[b].status \in cache_state
    /\ Valid(b) => pmem_data[b] = pmem[b].hash

(* Nor does cache_ctr_restore_block: no other copy of the sector has the   *)
(* same xid.                                                               *)
cache_ctr_restore_block(b, torn) ==
    /\ pmem_block_restore(b, torn)
    /\ Valid(b) => \A c \in Copies(pmem[b].sector) \ ({b} \cup torn) :
                       pmem[c].xid # pmem[b].xid

(* One error fails the whole restore ("we'll need to fail the whole        *)
(* restore").                                                              *)
restore_ok(torn) == \A b \in Blocks : cache_ctr_restore_block(b, torn)

(* What a read of sector s returns after a crash in this state.  *)
Restored(s) == IF Copies(s) = {} THEN dev[s] ELSE pmem_data[Newest(s)]

(* Mutated: transaction ids start again after a restart.  *)
first_xid == 1

(* cache_ctr_restore_or_init_block raises bc_xid to the highest xid found. *)
highest_xid == CHOOSE x \in {1} \cup {pmem[b].xid : b \in Blocks} :
                   \A b \in Blocks : pmem[b].xid <= x

(* What becomes of block b in the kernel ...                               *)
restored_block(b) == IF Survives(b) THEN pmem[b] ELSE NoMeta

(* Mutated: the metadata of a discarded copy is left as it was.  *)
pmem_metadata_kept(b) == pmem[b]

(* ... and in persistent memory: the metadata of a copy that is not kept   *)
(* is initialized.                                                         *)
pmem_metadata_initialize(b) == restored_block(b)

(* A crash and the restore after it.  When the restore fails the target is *)
(* not created: there is no cache, and no behaviour of it, after that.     *)
cache_ctr_restore ==
    LET kept == {b \in Blocks : Survives(b)}
        dirty == {b \in kept : pmem[b].status = "S_DIRTY"} IN
    /\ crashes < MaxCrashes
    /\ \E torn \in SUBSET MetadataInFlight : restore_ok(torn)
    /\ crashes' = crashes + 1
    /\ pmem' = [b \in Blocks |-> pmem_metadata_initialize(b)]
    /\ bcb_state' = [b \in Blocks |-> restored_block(b).status]
    /\ bcb_sector' = [b \in Blocks |-> restored_block(b).sector]
    /\ bcb_xid' = [b \in Blocks |-> restored_block(b).xid]
    /\ bcb_hash_data' = [b \in Blocks |-> restored_block(b).hash]
    /\ bcb_held' = {}
    /\ bcb_entry' = [b \in Blocks |-> IF b \in kept THEN "valid" ELSE "invalid"]
    /\ bcb_entry_cleandirty' = [b \in Blocks |->
           IF b \in dirty THEN "dirty" ELSE IF b \in kept THEN "clean" ELSE "none"]
    /\ rb_tree' = kept
    /\ bc' = [invalid_entries |-> Cardinality(Blocks \ kept),
              valid_entries |-> Cardinality(kept),
              valid_entries_clean |-> Cardinality(kept \ dirty),
              valid_entries_dirty |-> Cardinality(dirty),
              pending_requests |-> 0, pending_writeback_requests |-> 0,
              pending_invalidate_requests |-> 0]
    /\ bc_xid' = highest_xid
    /\ wi' = [b \in Blocks |-> NoWi]
    /\ io' = [b \in Blocks |-> "none"]
    /\ bio' = [r \in Bios |-> IF InFlight(r) THEN [bio[r] EXCEPT !.pc = "lost"] ELSE bio[r]]
    /\ committed' = [s \in Sectors |-> Restored(s)]
    /\ UNCHANGED <<bc_cache_mode_writeback, pmem_data, dev>>

----------------------------------------------------------------------------
map_request(r) ==
    \/ bittern_cache_map(r)
    \/ handle_deferred(r)
    \/ cache_map_workfunc_hit(r)
    \/ cache_map_workfunc_resource_busy(r)
    \/ cache_map_workfunc_miss(r)
    \/ cache_map_workfunc_no_resources(r)
    \/ cache_map_workfunc_handle_bypass(r)
    \/ bypass_io(r)
    \/ cached_dev_bypass_endio(r)
    \/ cache_get_clone(r)
    \/ cache_handle_read_hit(r)
    \/ cache_handle_write_hit_wt(r)
    \/ cache_handle_write_hit_wb(r)
    \/ cache_handle_read_miss(r)
    \/ cache_handle_write_miss_wb(r)
    \/ cache_handle_write_miss_wt(r)

thread_step(b) ==
    \/ cache_bgwriter_io_start_one(b)
    \/ cache_invalidate_clean_blocks(b)
    \/ cache_block_verify_start(b)
    \/ cache_block_verify_end(b)

(* Every request has been answered and every block given back.  *)
Quiescent ==
    /\ \A r \in Bios : bio[r].pc \in {"done", "lost"}
    /\ bcb_held = {}
    /\ UNCHANGED vars

Next ==
    \/ \E r \in Bios : map_request(r)
    \/ \E b \in Blocks : cache_state_machine(b) \/ io_step(b) \/ thread_step(b)
    \/ param_set_cache_mode
    \/ cache_ctr_restore
    \/ Quiescent

Spec == Init /\ [][Next]_vars

============================================================================
