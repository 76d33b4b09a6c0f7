---------------------------- MODULE CrashSafety ----------------------------
(***************************************************************************)
(* Why a restore accepts every block whose metadata is intact              *)
(* (IntactBlocksRestore): an inductive invariant of BitternCache that      *)
(* implies it.                                                             *)
(*                                                                         *)
(* A block's metadata is invalid from the moment the block is taken from   *)
(* the invalid list until its data is in persistent memory, so data is     *)
(* only overwritten while no metadata describes it.  That this order       *)
(* cannot be broken from the outside rests on ownership: whoever moves a   *)
(* block to its next state is the only one that may.                       *)
(***************************************************************************)
EXTENDS BitternCacheProperties

(* The life of a block between two stable states: it is given its data ... *)
Filling == CleanFilling \cup DirtyFilling
Storing == CleanStoring \cup DirtyStoring
Incoming == NoData \cup Filling \cup Storing

(* ... its data is used ...                                                *)
Updating == {"S_DIRTY_WRITEBACK_UPD_METADATA_END"}
Using == CleanReading \cup DirtyReading \cup
         (Writeback \ {"S_DIRTY_WRITEBACK_UPD_METADATA_END",
                       "S_DIRTY_WRITEBACK_INV_UPD_METADATA_END"})

(* ... or its metadata is written as S_INVALID.                            *)
Revoking == InvalidateEnd \cup {"S_DIRTY_WRITEBACK_INV_UPD_METADATA_END"}

Putting == {"put_invalidated", "put_written_back", "put_cleaned"}

(* What the work item of block b waits for fits the state it is in.  *)
IoFits(b) ==
    /\ io[b] = "data_write" =>
           /\ bcb_state[b] \in Storing
           /\ wi[b].target # "S_INVALID"
           /\ wi[b].page = bcb_hash_data[b]
    /\ io[b] \in {"dev_write", "dev_written"} /\ bcb_state[b] \in Incoming =>
           wi[b].page = bcb_hash_data[b]
    /\ io[b] \in {"meta_write", "meta_written"} =>
           \/ bcb_state[b] \in Storing /\ wi[b].target # "S_INVALID"
           \/ bcb_state[b] \in Revoking /\ wi[b].target = "S_INVALID"
           \/ bcb_state[b] \in Updating /\ wi[b].target = "S_CLEAN"
    /\ io[b] \in Putting => bcb_state[b] \in Stable
    /\ bcb_state[b] \in Stable => io[b] \in Putting \cup {"none"}
    /\ bcb_state[b] \in NoData \cup {"S_CLEAN_VERIFY"} => io[b] = "none"
    /\ b \notin bcb_held => bcb_state[b] \in Stable /\ io[b] = "none"
    /\ bcb_entry[b] = "invalid" => bcb_state[b] = "S_INVALID"

(* The data of block b and the metadata that describes it.  *)
DataSafe(b) ==
    /\ bcb_state[b] = "S_INVALID" => ~Valid(b)
    /\ bcb_state[b] \in Incoming /\ io[b] # "meta_written" => ~Valid(b)
    /\ bcb_state[b] \in Revoking /\ io[b] = "meta_written" => ~Valid(b)
    /\ Valid(b) => pmem_data[b] = pmem[b].hash
    /\ bcb_state[b] \notin Incoming \cup {"S_INVALID"} => pmem_data[b] = bcb_hash_data[b]
    /\ io[b] \in {"meta_write", "meta_written"} => pmem_data[b] = bcb_hash_data[b]

(* A valid block has a sector and, once it has been started, an xid.  *)
Described(b) ==
    /\ bcb_sector[b] \in Sectors <=> bcb_state[b] # "S_INVALID"
    /\ bcb_state[b] \notin NoData \cup {"S_INVALID"} => bcb_xid[b] > 0
    /\ Valid(b) => pmem[b].sector \in Sectors /\ pmem[b].xid > 0

(* The blocks that request r has taken but not started yet.  *)
Claimed(r) ==
    CASE bio[r].pc \in {"hit", "miss"} -> {bio[r].blk}
      [] bio[r].pc = "cloned" -> {bio[r].blk, bio[r].clone}
      [] OTHER -> {}

(* They are held for it, and nothing else moves them on.  *)
ClaimFits(r) ==
    /\ InFlight(r) => bio[r].sector \in Sectors
    /\ \A b \in Claimed(r) : b \in bcb_held /\ io[b] = "none"
    /\ bio[r].pc \in {"hit", "cloned"} => bcb_state[bio[r].blk] \in {"S_CLEAN", "S_DIRTY"}
    /\ bio[r].pc = "cloned" => bcb_state[bio[r].clone] \in NoData
    /\ bio[r].pc = "miss" => bcb_state[bio[r].blk] \in NoData

ClaimsDisjoint == \A r, q \in Bios : r # q => Claimed(r) \cap Claimed(q) = {}

(* The original that the clone c replaces waits for it.  *)
OriginalWaits(c) ==
    wi[c].orig # None =>
        /\ wi[c].orig \in bcb_held
        /\ bcb_state[wi[c].orig] \in InvalidateStart
        /\ io[wi[c].orig] = "none"

OriginalsDistinct ==
    \A c, d \in Blocks : wi[c].orig = wi[d].orig /\ wi[c].orig # None => c = d

(* The xids of a block, in memory and in persistent memory, are its own.   *)
XidsOwn ==
    /\ \A b \in Blocks : bcb_xid[b] <= bc_xid /\ pmem[b].xid <= bc_xid
    /\ \A b, c \in Blocks : b # c =>
           /\ bcb_xid[b] = bcb_xid[c] => bcb_xid[b] = 0
           /\ bcb_xid[b] = pmem[c].xid => bcb_xid[b] = 0
           /\ pmem[b].xid = pmem[c].xid => pmem[b].xid = 0

(* The order of data and metadata writes is kept on every block, by        *)
(* whoever owns it (put_page_write, metadata_async_write, cache_block_hold,*)
(* cache_xid_inc): the inductive invariant.                                *)
CrashSafe ==
    /\ TypeOK
    /\ \A b \in Blocks : IoFits(b) /\ DataSafe(b) /\ Described(b) /\ OriginalWaits(b)
    /\ \A r \in Bios : ClaimFits(r)
    /\ ClaimsDisjoint
    /\ OriginalsDistinct
    /\ XidsOwn

============================================================================
