----------------------- MODULE BitternCacheProperties -----------------------
(***************************************************************************)
(* What the cache promises, stated over the state of BitternCache.         *)
(***************************************************************************)
EXTENDS BitternCache, Sequences

----------------------------------------------------------------------------
\* The state paths (cache_valid_state_transitions)

(* Every sequence of states that the table of valid transitions allows     *)
(* between two stable states; the first state of a path is the one that    *)
(* cache_state_transition_initial starts from.                             *)

(* Read misses, clean and dirty read hits.                                 *)
ReadPaths == {
    <<"S_CLEAN_NO_DATA", "S_CLEAN_READ_MISS_CPF_DEVICE_START",
      "S_CLEAN_READ_MISS_CPF_DEVICE_END", "S_CLEAN_READ_MISS_CPT_CACHE_END", "S_CLEAN">>,
    <<"S_CLEAN", "S_CLEAN_READ_HIT_CPF_CACHE_START", "S_CLEAN_READ_HIT_CPF_CACHE_END",
      "S_CLEAN">>,
    <<"S_DIRTY", "S_DIRTY_READ_HIT_CPF_CACHE_START", "S_DIRTY_READ_HIT_CPF_CACHE_END",
      "S_DIRTY">> }

(* Write misses, and the write hit of writethrough mode.                   *)
WritePaths == {
    <<"S_CLEAN_NO_DATA", "S_CLEAN_WRITE_MISS_CPT_DEVICE_START",
      "S_CLEAN_WRITE_MISS_CPT_DEVICE_END", "S_CLEAN_WRITE_MISS_CPT_CACHE_END", "S_CLEAN">>,
    <<"S_DIRTY_NO_DATA", "S_DIRTY_WRITE_MISS_CPT_CACHE_START",
      "S_DIRTY_WRITE_MISS_CPT_CACHE_END", "S_DIRTY">>,
    <<"S_CLEAN_NO_DATA", "S_CLEAN_WRITE_HIT_CPT_DEVICE_START",
      "S_CLEAN_WRITE_HIT_CPT_DEVICE_END", "S_CLEAN_WRITE_HIT_CPT_CACHE_END", "S_CLEAN">> }

(* Partial write hits: the clone first takes the data of the original.     *)
PartialHitPaths == {
    <<"S_CLEAN_NO_DATA", "S_CLEAN_P_WRITE_HIT_CPF_O_CACHE_START",
      "S_CLEAN_P_WRITE_HIT_CPT_DEVICE_START", "S_CLEAN_P_WRITE_HIT_CPT_DEVICE_END",
      "S_CLEAN_P_WRITE_HIT_CPT_CACHE_END", "S_CLEAN">>,
    <<"S_DIRTY_NO_DATA", "S_C2_DIRTY_P_WRITE_HIT_CPF_O_CACHE_START",
      "S_C2_DIRTY_P_WRITE_HIT_CPT_CACHE_START", "S_C2_DIRTY_P_WRITE_HIT_CPT_CACHE_END",
      "S_DIRTY">>,
    <<"S_DIRTY_NO_DATA", "S_DIRTY_P_WRITE_HIT_CPF_O_CACHE_START",
      "S_DIRTY_P_WRITE_HIT_CPT_CACHE_START", "S_DIRTY_P_WRITE_HIT_CPT_CACHE_END", "S_DIRTY">> }

(* Write hits of writeback mode, on the clone.                             *)
CloneHitPaths == {
    <<"S_DIRTY_NO_DATA", "S_C2_DIRTY_WRITE_HIT_CPT_CACHE_START",
      "S_C2_DIRTY_WRITE_HIT_CPT_CACHE_END", "S_DIRTY">>,
    <<"S_DIRTY_NO_DATA", "S_DIRTY_WRITE_HIT_CPT_CACHE_START",
      "S_DIRTY_WRITE_HIT_CPT_CACHE_END", "S_DIRTY">> }

(* Partial write misses: the block is read from the device first.          *)
PartialMissPaths == {
    <<"S_CLEAN_NO_DATA", "S_CLEAN_P_WRITE_MISS_CPF_DEVICE_START",
      "S_CLEAN_P_WRITE_MISS_CPF_DEVICE_END", "S_CLEAN_P_WRITE_MISS_CPT_DEVICE_END",
      "S_CLEAN_P_WRITE_MISS_CPT_CACHE_END", "S_CLEAN">>,
    <<"S_DIRTY_NO_DATA", "S_DIRTY_P_WRITE_MISS_CPF_DEVICE_START",
      "S_DIRTY_P_WRITE_MISS_CPF_DEVICE_END", "S_DIRTY_P_WRITE_MISS_CPT_CACHE_END", "S_DIRTY">> }

(* The paths of the verifier, the background writer and the invalidator,   *)
(* and of an original that its clone replaces.                             *)
ThreadPaths == {
    <<"S_CLEAN", "S_CLEAN_VERIFY", "S_CLEAN">>,
    <<"S_DIRTY", "S_DIRTY_WRITEBACK_CPF_CACHE_START", "S_DIRTY_WRITEBACK_CPF_CACHE_END",
      "S_DIRTY_WRITEBACK_CPT_DEVICE_END", "S_DIRTY_WRITEBACK_UPD_METADATA_END", "S_CLEAN">>,
    <<"S_DIRTY", "S_DIRTY_WRITEBACK_INV_CPF_CACHE_START",
      "S_DIRTY_WRITEBACK_INV_CPF_CACHE_END", "S_DIRTY_WRITEBACK_INV_CPT_DEVICE_END",
      "S_DIRTY_WRITEBACK_INV_UPD_METADATA_END", "S_INVALID">>,
    <<"S_CLEAN", "S_CLEAN_INVALIDATE_START", "S_CLEAN_INVALIDATE_END", "S_INVALID">>,
    <<"S_DIRTY", "S_DIRTY_INVALIDATE_START", "S_DIRTY_INVALIDATE_END", "S_INVALID">> }

cache_valid_state_transitions ==
    ReadPaths \cup WritePaths \cup PartialHitPaths \cup CloneHitPaths \cup
    PartialMissPaths \cup ThreadPaths

(* cache_get_invalid_block_locked assigns the first state of a valid block *)
(* without going through the table.                                        *)
ValidPairs ==
    {<<"S_INVALID", "S_CLEAN_NO_DATA">>, <<"S_INVALID", "S_DIRTY_NO_DATA">>} \cup
    UNION {{<<p[i], p[i + 1]>> : i \in 1 .. Len(p) - 1} : p \in cache_valid_state_transitions}

IoStates == {"none", "ready", "pmem_read", "dev_read", "dev_was_read", "dev_write",
             "dev_written", "data_write", "meta_write", "meta_written", "put_invalidated",
             "put_written_back", "put_cleaned"}
BioStates == {"idle", "map", "deferred", "hit", "cloned", "miss", "running", "bypass",
              "bypass_done", "done", "lost"}

Counters == [invalid_entries : Int, valid_entries : Int, valid_entries_clean : Int,
             valid_entries_dirty : Int, pending_requests : Int,
             pending_writeback_requests : Int, pending_invalidate_requests : Int]
WorkItems == [bio : Bios \cup {None}, orig : Blocks \cup {None}, xid : Nat,
              page : Contents, target : Stable]
Requests == [pc : BioStates, dir : {"READ", "WRITE"}, sector : Sectors \cup {None},
             full : BOOLEAN, wb : BOOLEAN, blk : Blocks \cup {None},
             clone : Blocks \cup {None}, result : Contents]
MetadataBlocks == [status : Stable, sector : Sectors \cup {None}, xid : Nat,
                   hash : Contents]

(* The variables have the types the code gives them: in particular only a  *)
(* stable state is ever written to persistent memory, and torn data is     *)
(* never read, written anywhere or returned.                               *)
TypeOK ==
    /\ bcb_state \in [Blocks -> cache_state]
    /\ bcb_sector \in [Blocks -> Sectors \cup {None}]
    /\ bcb_xid \in [Blocks -> Nat]
    /\ bcb_hash_data \in [Blocks -> Contents]
    /\ bcb_held \subseteq Blocks
    /\ bcb_entry \in [Blocks -> {"invalid", "valid", "none"}]
    /\ bcb_entry_cleandirty \in [Blocks -> {"clean", "dirty", "none"}]
    /\ rb_tree \subseteq Blocks
    /\ bc \in Counters
    /\ bc_xid \in Nat
    /\ bc_cache_mode_writeback \in BOOLEAN
    /\ wi \in [Blocks -> WorkItems]
    /\ io \in [Blocks -> IoStates]
    /\ bio \in [Bios -> Requests]
    /\ pmem \in [Blocks -> MetadataBlocks]
    /\ pmem_data \in [Blocks -> Contents \cup {Torn}]
    /\ dev \in [Sectors -> Contents]
    /\ committed \in [Sectors -> Contents]
    /\ crashes \in Nat

----------------------------------------------------------------------------
\* Ownership, lists and counters

(* Who believes to own block b: a request that has just taken it, a work   *)
(* item, the request whose clone replaces it, the end of an asynchronous   *)
(* operation, or the verifier.                                             *)
Owners(b) ==
    {<<"bio", r>> : r \in {q \in Bios : /\ bio[q].pc \in {"hit", "cloned", "miss"}
                                        /\ b \in {bio[q].blk, bio[q].clone}}}
    \cup {<<"wi", c>> : c \in {d \in {b} : wi[d].xid # 0}}
    \cup {<<"original of", c>> : c \in {d \in Blocks : wi[d].orig = b}}
    \cup {<<"end", c>> : c \in {d \in {b} :
              io[d] \in {"put_invalidated", "put_written_back", "put_cleaned"}}}
    \cup {<<"verifier", c>> : c \in {d \in {b} : bcb_state[d] = "S_CLEAN_VERIFY"}}

(* cache_block_hold: a block has at most one owner, an idle block has none *)
(* and is in a stable state, although requests, threads and completions    *)
(* all take and give back blocks in separate lock sections.                *)
OneOwner ==
    \A b \in Blocks :
        /\ Cardinality(Owners(b)) = (IF b \in bcb_held THEN 1 ELSE 0)
        /\ b \notin bcb_held => bcb_state[b] \in Stable

(* cache_rb_lookup finds blocks by sector only: of all the copies of a     *)
(* sector in the tree at most one may be idle, or a request could take a   *)
(* stale copy while the newer one is in the tree too.                      *)
OneIdleCopy ==
    \A a, b \in rb_tree \ bcb_held : bcb_sector[a] = bcb_sector[b] => a = b

Count(P(_)) == Cardinality({b \in Blocks : P(b)})

(* The counters that can_schedule_map_request, the bgwriter and the        *)
(* invalidator decide on agree with the states of the blocks whenever no   *)
(* completion is between its list update and its counter update, and the   *)
(* pending counters with the operations in progress.                       *)
AccountingExact ==
    /\ bc.invalid_entries = Count(LAMBDA b : bcb_entry[b] = "invalid")
    /\ bc.valid_entries = Cardinality(rb_tree)
    /\ bc.valid_entries_dirty =
           Count(LAMBDA b : bcb_state[b] \in DirtyStates \/ io[b] = "put_cleaned")
    /\ bc.valid_entries_clean =
           Count(LAMBDA b : bcb_state[b] \in CleanStates /\ io[b] # "put_cleaned")
    /\ bc.pending_writeback_requests =
           Count(LAMBDA b : \/ bcb_state[b] \in Writeback
                            \/ io[b] \in {"put_cleaned", "put_written_back"})
    /\ bc.pending_requests = bc.pending_writeback_requests +
           Cardinality({r \in Bios : bio[r].pc \in {"running", "bypass", "bypass_done"}})
    /\ bc.pending_invalidate_requests =
           Count(LAMBDA b : \/ bcb_state[b] \in Invalidating /\ io[b] # "none"
                            \/ bcb_state[b] \in WritebackInv
                            \/ io[b] \in {"put_invalidated", "put_written_back"})

(* A block is on the lists of its state: an invalid one is on the invalid  *)
(* list and not in the tree; an idle valid one is where the invalidator    *)
(* (valid and clean list) or the bgwriter (dirty list) will find it.       *)
ListsMatch ==
    \A b \in Blocks :
        /\ bcb_entry[b] = "invalid" <=> bcb_state[b] = "S_INVALID"
        /\ b \in rb_tree <=> bcb_state[b] # "S_INVALID"
        /\ b \in rb_tree \ bcb_held =>
               /\ bcb_entry[b] = "valid"
               /\ bcb_entry_cleandirty[b] = IF bcb_state[b] = "S_CLEAN" THEN "clean" ELSE "dirty"

(* Every change of a block's state is in the table of valid transitions.   *)
ValidTransitions ==
    [][\A b \in Blocks : \/ bcb_state'[b] = bcb_state[b]
                         \/ <<bcb_state[b], bcb_state'[b]>> \in ValidPairs
                         \/ crashes' # crashes]_vars

----------------------------------------------------------------------------
\* Data

(* An idle block holds what its sector was last acknowledged to hold, its  *)
(* hash matches, and the device holds the same if the block is clean; a    *)
(* sector without a block, and not being bypassed, is right on the device. *)
CacheCoherent ==
    /\ \A b \in rb_tree \ bcb_held :
        /\ pmem_data[b] = committed[bcb_sector[b]]
        /\ bcb_hash_data[b] = pmem_data[b]
        /\ bcb_state[b] = "S_CLEAN" => dev[bcb_sector[b]] = pmem_data[b]
    /\ \A s \in Sectors :
        \/ cache_rb_lookup(s) # {}
        \/ \E r \in Bios : bio[r].pc = "bypass_done" /\ bio[r].sector = s
        \/ dev[s] = committed[s]

(* What persistent memory says about an idle block is what the kernel has. *)
PmemAgrees ==
    \A b \in Blocks \ bcb_held :
        /\ pmem[b].status = bcb_state[b]
        /\ Valid(b) => pmem[b].sector = bcb_sector[b] /\ pmem[b].xid <= bcb_xid[b]

(* The verifier compares a clean block with its metadata in persistent     *)
(* memory and with the device (cache_block_verify): all agree.             *)
VerifierFindsNoError ==
    \A b \in Blocks : bcb_state[b] = "S_CLEAN_VERIFY" =>
        /\ b \in rb_tree
        /\ pmem[b].status = "S_CLEAN"
        /\ pmem[b].sector = bcb_sector[b]
        /\ pmem[b].hash = bcb_hash_data[b]
        /\ pmem_data[b] = bcb_hash_data[b]
        /\ dev[bcb_sector[b]] = bcb_hash_data[b]

(* The cache implements a block device, whichever of cache, device and     *)
(* bypass a request is served from: a read returns what was last           *)
(* acknowledged for its sector, and a write of a part of a block leaves    *)
(* the rest of it as it was last acknowledged.                             *)
Device == INSTANCE BlockStore WITH
    Requests <- Bios,
    store <- committed,
    request <- [r \in Bios |->
        [pc |-> IF InFlight(r) THEN "pending" ELSE bio[r].pc,
         dir |-> bio[r].dir, sector |-> bio[r].sector, full |-> bio[r].full,
         result |-> IF bio[r].pc = "done" THEN bio[r].result ELSE Blank]]

ImplementsBlockStore == Device!Spec

----------------------------------------------------------------------------
\* Crashes: what a restore would find if the machine stopped in this state

(* What docs/cache_layout.md says of a crash during a metadata update: "the*)
(* transaction is aborted, and the cache block is marked invalid", so that *)
(* a restore succeeds whatever the crash has torn.  The code does not      *)
(* ensure it: pmem_block_restore returns -EHWPOISON for torn metadata, and *)
(* cache_ctr_restore_block fails the whole restore.                        *)
RestoreSucceeds == \A torn \in SUBSET MetadataInFlight : restore_ok(torn)

(* What the order of the writes does ensure: whatever metadata a crash has *)
(* torn, every other block restores.  No intact metadata describes data    *)
(* that was being overwritten (pmem_block_restore, the hash of the data),  *)
(* and no two copies of a sector have the same xid (cache_ctr_restore_block*)
(* : "This just cannot happen. Period.").                                  *)
IntactBlocksRestore ==
    \A torn \in SUBSET MetadataInFlight :
        \A b \in Blocks \ torn : cache_ctr_restore_block(b, torn)

(* What a crash in this state may leave of sector s: what was acknowledged,*)
(* or the outcome of a write in flight.                                    *)
Allowed(s) ==
    {committed[s]} \cup
    {bio_copy_to_cache(r, committed[s]) :
        r \in {q \in Bios : bio[q].sector = s /\ bio[q].dir = "WRITE" /\ InFlight(q)}}

(* Every acknowledged write survives a crash, if the restore runs: with no *)
(* torn metadata a block is read back as pmem and pmem_data have it.       *)
AcknowledgedSurvives == \A s \in Sectors : Restored(s) \in Allowed(s)

(* ... as long as the sector is not left with nothing but stale originals  *)
(* whose invalidation has not reached persistent memory yet.               *)
SurvivesOnceInvalidated ==
    \A s \in Sectors :
        \/ Restored(s) \in Allowed(s)
        \/ /\ Copies(s) # {}
           /\ \A b \in Copies(s) : bcb_state[b] \in Invalidating

(* The M_ASSERTs of cache_map_workfunc_hit and cache_map_workfunc_miss,    *)
(* which stop the kernel: the counters of clean and dirty blocks are       *)
(* within the cache.                                                       *)
EntriesWithinCache ==
    /\ bc.valid_entries_clean >= 0
    /\ \A n \in {bc.valid_entries_clean, bc.valid_entries_dirty, bc.valid_entries,
                  bc.invalid_entries} : n <= Cardinality(Blocks)

============================================================================
