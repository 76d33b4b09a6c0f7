---------------------------- MODULE CacheBlocks ----------------------------
(***************************************************************************)
(* The cache blocks of Bittern: what the kernel keeps about each of them,  *)
(* what persistent memory keeps, and how blocks are looked up, taken,      *)
(* moved between the lists and given back (bittern_cache_getput.c,         *)
(* bittern_cache_redblack.c, bittern_cache_states.h).                      *)
(*                                                                         *)
(* Every operator here is a section of code that runs under                *)
(* bc_entries_lock or bcb_spinlock, and so is part of one step.            *)
(***************************************************************************)
EXTENDS Integers, FiniteSets

CONSTANTS
    Blocks,       \* the cache blocks
    Sectors,      \* the cached device, in units of one cache block
    Bios,         \* requests of the upper layer, each one issued once
    None,         \* no block, no sector, no request, no content
    Torn,         \* data that was being overwritten
    bc_max_pending_requests,
    bc_invalidator_conf_min_invalid_count

ASSUME CacheAssumption ==
    /\ IsFiniteSet(Blocks)
    /\ None \notin Blocks \cup Sectors \cup Bios
    /\ bc_max_pending_requests \in Nat \ {0}
    /\ bc_invalidator_conf_min_invalid_count \in Nat

VARIABLES
    bcb_state, bcb_sector, bcb_xid,
    bcb_hash_data,         \* the hash of the block's data: the data itself
    bcb_held,              \* blocks whose bcb_refcount is 1: they have an owner
    bcb_entry,             \* the list that bcb_entry is linked on
    bcb_entry_cleandirty,  \* the list that bcb_entry_cleandirty is linked on
    rb_tree,               \* the blocks in the red-black tree
    bc,                    \* the counters of struct bittern_cache
    bc_xid,                \* last transaction id handed out
    bc_cache_mode_writeback,
    wi,                    \* the work item that owns each block, if any
    io,                    \* what that work item waits for
    bio,                   \* the requests of the upper layer
    pmem,                  \* metadata blocks in persistent memory
    pmem_data,             \* data blocks in persistent memory
    dev,                   \* the cached device
    committed,             \* history: what each sector was last acknowledged to hold
    crashes                \* history: how often the machine crashed

block  == <<bcb_state, bcb_sector, bcb_xid, bcb_hash_data, bcb_held>>
lists  == <<bcb_entry, bcb_entry_cleandirty, rb_tree>>
media  == <<pmem, pmem_data, dev>>
vars   == <<block, lists, bc, bc_xid, bc_cache_mode_writeback, wi, io, bio, media,
            committed, crashes>>

----------------------------------------------------------------------------
\* The states of a block (enum cache_state), by what happens to the block

Stable == {"S_INVALID", "S_CLEAN", "S_DIRTY"}
NoData == {"S_CLEAN_NO_DATA", "S_DIRTY_NO_DATA"}

(* The block is being filled: before its data is written to persistent     *)
(* memory ...                                                              *)
CleanFilling == {
    "S_CLEAN_READ_MISS_CPF_DEVICE_START", "S_CLEAN_READ_MISS_CPF_DEVICE_END",
    "S_CLEAN_WRITE_MISS_CPT_DEVICE_START", "S_CLEAN_WRITE_MISS_CPT_DEVICE_END",
    "S_CLEAN_WRITE_HIT_CPT_DEVICE_START", "S_CLEAN_WRITE_HIT_CPT_DEVICE_END",
    "S_CLEAN_P_WRITE_HIT_CPF_O_CACHE_START", "S_CLEAN_P_WRITE_HIT_CPT_DEVICE_START",
    "S_CLEAN_P_WRITE_HIT_CPT_DEVICE_END", "S_CLEAN_P_WRITE_MISS_CPF_DEVICE_START",
    "S_CLEAN_P_WRITE_MISS_CPF_DEVICE_END", "S_CLEAN_P_WRITE_MISS_CPT_DEVICE_END"}
DirtyFilling == {
    "S_DIRTY_WRITE_MISS_CPT_CACHE_START", "S_C2_DIRTY_WRITE_HIT_CPT_CACHE_START",
    "S_C2_DIRTY_P_WRITE_HIT_CPF_O_CACHE_START", "S_C2_DIRTY_P_WRITE_HIT_CPT_CACHE_START",
    "S_DIRTY_WRITE_HIT_CPT_CACHE_START", "S_DIRTY_P_WRITE_HIT_CPF_O_CACHE_START",
    "S_DIRTY_P_WRITE_HIT_CPT_CACHE_START", "S_DIRTY_P_WRITE_MISS_CPF_DEVICE_START",
    "S_DIRTY_P_WRITE_MISS_CPF_DEVICE_END"}

(* ... and while its data and then its metadata is.                        *)
CleanStoring == {
    "S_CLEAN_READ_MISS_CPT_CACHE_END", "S_CLEAN_WRITE_MISS_CPT_CACHE_END",
    "S_CLEAN_WRITE_HIT_CPT_CACHE_END", "S_CLEAN_P_WRITE_HIT_CPT_CACHE_END",
    "S_CLEAN_P_WRITE_MISS_CPT_CACHE_END"}
DirtyStoring == {
    "S_DIRTY_WRITE_MISS_CPT_CACHE_END", "S_C2_DIRTY_WRITE_HIT_CPT_CACHE_END",
    "S_C2_DIRTY_P_WRITE_HIT_CPT_CACHE_END", "S_DIRTY_WRITE_HIT_CPT_CACHE_END",
    "S_DIRTY_P_WRITE_HIT_CPT_CACHE_END", "S_DIRTY_P_WRITE_MISS_CPT_CACHE_END"}

(* The block is only read.  *)
CleanReading == {"S_CLEAN_READ_HIT_CPF_CACHE_START", "S_CLEAN_READ_HIT_CPF_CACHE_END"}
DirtyReading == {"S_DIRTY_READ_HIT_CPF_CACHE_START", "S_DIRTY_READ_HIT_CPF_CACHE_END"}

(* Its metadata is being invalidated.  *)
InvalidateStart == {"S_CLEAN_INVALIDATE_START", "S_DIRTY_INVALIDATE_START"}
InvalidateEnd == {"S_CLEAN_INVALIDATE_END", "S_DIRTY_INVALIDATE_END"}
Invalidating == InvalidateStart \cup InvalidateEnd

(* It is being written back, and then becomes clean, or invalid.  *)
WritebackClean == {
    "S_DIRTY_WRITEBACK_CPF_CACHE_START", "S_DIRTY_WRITEBACK_CPF_CACHE_END",
    "S_DIRTY_WRITEBACK_CPT_DEVICE_END", "S_DIRTY_WRITEBACK_UPD_METADATA_END"}
WritebackInv == {
    "S_DIRTY_WRITEBACK_INV_CPF_CACHE_START", "S_DIRTY_WRITEBACK_INV_CPF_CACHE_END",
    "S_DIRTY_WRITEBACK_INV_CPT_DEVICE_END", "S_DIRTY_WRITEBACK_INV_UPD_METADATA_END"}
Writeback == WritebackClean \cup WritebackInv

CleanStates ==
    {"S_CLEAN", "S_CLEAN_NO_DATA", "S_CLEAN_VERIFY", "S_CLEAN_INVALIDATE_START",
     "S_CLEAN_INVALIDATE_END"} \cup CleanFilling \cup CleanStoring \cup CleanReading
DirtyStates ==
    {"S_DIRTY", "S_DIRTY_NO_DATA", "S_DIRTY_INVALIDATE_START",
     "S_DIRTY_INVALIDATE_END"}
        \cup DirtyFilling \cup DirtyStoring \cup DirtyReading \cup Writeback
cache_state == {"S_INVALID"} \cup CleanStates \cup DirtyStates

----------------------------------------------------------------------------
\* Contents.  A block holds two halves; a partial write changes only one.

Tags == Bios \cup {None}
Contents == [lo : Tags, hi : Tags]
Blank == [lo |-> None, hi |-> None]

(* bio_copy_to_cache: the page after request r is copied over it.  *)
bio_copy_to_cache(r, page) ==
    IF bio[r].full THEN [lo |-> r, hi |-> r] ELSE [page EXCEPT !.lo = r]

NoWi == [bio |-> None, orig |-> None, xid |-> 0, page |-> Blank,
         target |-> "S_INVALID"]

NoMeta == [status |-> "S_INVALID", sector |-> None, xid |-> 0, hash |-> Blank]

NoBio == [pc |-> "idle", dir |-> "READ", sector |-> None, full |-> TRUE,
          wb |-> FALSE, blk |-> None, clone |-> None, result |-> Blank]

----------------------------------------------------------------------------
\* Lookup, and taking a block

(* cache_rb_lookup: while a block is being replaced by its clone, both are *)
(* in the tree, and the shape of the tree decides which one is found.      *)
cache_rb_lookup(s) == {b \in rb_tree : bcb_sector[b] = s}

Hold(b) == bcb_held' = bcb_held \cup {b}
Release(b) == bcb_held' = bcb_held \ {b}

(* can_schedule_map_request  *)
can_schedule_map_request ==
    /\ bc.invalid_entries > 0
    /\ bc.pending_requests < bc_max_pending_requests

(* cache_invalidator_has_work_schmitt  *)
cache_invalidator_has_work_schmitt ==
    LET min_count == bc_invalidator_conf_min_invalid_count + bc_max_pending_requests
    IN  /\ bc.valid_entries_clean # 0
        /\ bc.invalid_entries < min_count + (min_count \div 4)

(* Mutated: the refcount is not looked at.  *)
cache_get_hit_any(b) ==
    /\ Hold(b)
    /\ \/ bcb_entry' = [bcb_entry EXCEPT ![b] = "valid"]
       \/ UNCHANGED bcb_entry
    /\ bcb_entry_cleandirty' = [bcb_entry_cleandirty EXCEPT
           ![b] = IF bcb_state[b] = "S_CLEAN" THEN "clean" ELSE "dirty"]
    /\ UNCHANGED <<bcb_state, bcb_sector, bcb_xid, bcb_hash_data, rb_tree>>

(* cache_get, lookup hit on an idle block: it now has an owner, and moves  *)
(* to the tail of the list of its state and, if the replacement mode is    *)
(* LRU, to the tail of the list of valid blocks.                           *)
cache_get_hit_idle(b) ==
    /\ b \notin bcb_held
    /\ Hold(b)
    /\ \/ bcb_entry' = [bcb_entry EXCEPT ![b] = "valid"]
       \/ UNCHANGED bcb_entry
    /\ bcb_entry_cleandirty' = [bcb_entry_cleandirty EXCEPT
           ![b] = IF bcb_state[b] = "S_CLEAN" THEN "clean" ELSE "dirty"]
    /\ UNCHANGED <<bcb_state, bcb_sector, bcb_xid, bcb_hash_data, rb_tree>>

(* cache_get_invalid_block_locked: block b of the invalid list becomes a   *)
(* valid block without data for sector s.                                  *)
cache_get_invalid_block(b, s, dirty) ==
    /\ bcb_entry[b] = "invalid"
    /\ b \notin bcb_held
    /\ Hold(b)
    /\ bcb_sector' = [bcb_sector EXCEPT ![b] = s]
    /\ bcb_state' = [bcb_state EXCEPT
           ![b] = IF dirty THEN "S_DIRTY_NO_DATA" ELSE "S_CLEAN_NO_DATA"]
    /\ rb_tree' = rb_tree \cup {b}
    /\ bcb_entry' = [bcb_entry EXCEPT ![b] = "valid"]
    /\ bcb_entry_cleandirty' =
           [bcb_entry_cleandirty EXCEPT ![b] = IF dirty THEN "dirty" ELSE "clean"]
    /\ bc' = [bc EXCEPT !.valid_entries = @ + 1,
                        !.valid_entries_dirty = @ + (IF dirty THEN 1 ELSE 0),
                        !.valid_entries_clean = @ + (IF dirty THEN 0 ELSE 1),
                        !.invalid_entries = @ - 1]
    /\ UNCHANGED <<bcb_xid, bcb_hash_data>>

(* ... which fails when the list is empty, or when its head has an owner:  *)
(* cache_move_to_invalid links a block before it drops its hold.           *)
no_invalid_block ==
    \/ \A b \in Blocks : bcb_entry[b] # "invalid"
    \/ \E b \in bcb_held : bcb_entry[b] = "invalid"

----------------------------------------------------------------------------
\* Giving a block back

(* Mutated: the block is always counted as dirty.  *)
cache_move_to_invalid_dirty(b, is_dirty) ==
    /\ rb_tree' = rb_tree \ {b}
    /\ bcb_entry_cleandirty' = [bcb_entry_cleandirty EXCEPT ![b] = "none"]
    /\ bcb_entry' = [bcb_entry EXCEPT ![b] = "invalid"]
    /\ bcb_hash_data' = [bcb_hash_data EXCEPT ![b] = Blank]
    /\ bcb_sector' = [bcb_sector EXCEPT ![b] = None]
    /\ bcb_state' = [bcb_state EXCEPT ![b] = "S_INVALID"]
    /\ bc' = [bc EXCEPT !.valid_entries = @ - 1, !.valid_entries_dirty = @ - 1,
                        !.invalid_entries = @ + 1]
    /\ UNCHANGED <<bcb_xid, bcb_held>>

(* Mutated: the block stays on the list of clean or dirty blocks.  *)
cache_move_to_invalid_listed(b, is_dirty) ==
    /\ rb_tree' = rb_tree
    /\ bcb_entry' = [bcb_entry EXCEPT ![b] = "invalid"]
    /\ bcb_hash_data' = [bcb_hash_data EXCEPT ![b] = Blank]
    /\ bcb_sector' = [bcb_sector EXCEPT ![b] = None]
    /\ bcb_state' = [bcb_state EXCEPT ![b] = "S_INVALID"]
    /\ bc' = [bc EXCEPT !.valid_entries = @ - 1,
                        !.valid_entries_dirty = @ - (IF is_dirty THEN 1 ELSE 0),
                        !.valid_entries_clean = @ - (IF is_dirty THEN 0 ELSE 1),
                        !.invalid_entries = @ + 1]
    /\ UNCHANGED <<bcb_xid, bcb_held, bcb_entry_cleandirty>>

(* cache_move_to_invalid, under the locks.  The hold is dropped later.     *)
cache_move_to_invalid(b, is_dirty) ==
    /\ rb_tree' = rb_tree \ {b}
    /\ bcb_entry_cleandirty' = [bcb_entry_cleandirty EXCEPT ![b] = "none"]
    /\ bcb_entry' = [bcb_entry EXCEPT ![b] = "invalid"]
    /\ bcb_hash_data' = [bcb_hash_data EXCEPT ![b] = Blank]
    /\ bcb_sector' = [bcb_sector EXCEPT ![b] = None]
    /\ bcb_state' = [bcb_state EXCEPT ![b] = "S_INVALID"]
    /\ bc' = [bc EXCEPT !.valid_entries = @ - 1,
                        !.valid_entries_dirty = @ - (IF is_dirty THEN 1 ELSE 0),
                        !.valid_entries_clean = @ - (IF is_dirty THEN 0 ELSE 1),
                        !.invalid_entries = @ + 1]
    /\ UNCHANGED <<bcb_xid, bcb_held>>

(* Mutated: the block is not linked on the list of clean blocks.  *)
cache_move_to_clean_unlinked(b) ==
    /\ bcb_state' = [bcb_state EXCEPT ![b] = "S_CLEAN"]
    /\ UNCHANGED <<bcb_sector, bcb_xid, bcb_hash_data, bcb_held, bcb_entry,
                   bcb_entry_cleandirty, rb_tree, bc>>

(* cache_move_to_clean, under the locks.  The counters and the hold follow.*)
cache_move_to_clean(b) ==
    /\ bcb_state' = [bcb_state EXCEPT ![b] = "S_CLEAN"]
    /\ bcb_entry_cleandirty' = [bcb_entry_cleandirty EXCEPT ![b] = "clean"]
    /\ UNCHANGED <<bcb_sector, bcb_xid, bcb_hash_data, bcb_held, bcb_entry,
                   rb_tree, bc>>

============================================================================
