------------------------ MODULE CrashSafetyHandlers -------------------------
(***************************************************************************)
(* CrashSafe is kept by every handler of the state machine (the sm_        *)
(* functions), each by one of the forms of CrashSafetySteps or by the end  *)
(* of a request, an invalidation or a write back.                          *)
(***************************************************************************)
EXTENDS CrashSafetyIo

(* The end of a write hit: the clone is given back and the original, which *)
(* waited for it, starts to be invalidated.                                *)
LEMMA EndWriteHitKeeps ==
    ASSUME CrashSafe, NEW b \in Blocks, NEW final \in {"S_CLEAN", "S_DIRTY"},
           bcb_state[b] \in Storing, io[b] = "meta_written", end_write_hit(b, final),
           committed' \in [Sectors -> Contents]
    PROVE  CrashSafe'
  <1>o. PICK o : o = wi[b].orig
    BY Zenon
  <1>0. bc' \in Counters
    <2>1. /\ bc \in Counters /\ bc.pending_requests - 1 \in Int
          /\ bc.pending_invalidate_requests + 1 \in Int
      BY DEF CrashSafe, TypeOK, Counters
    <2> QED BY <2>1, Zenon DEF Counters, end_write_hit
  <1>1. CASE o = None
    <2>1. None \notin Blocks
      BY CacheAssumption, Zenon DEF CacheAssumption
    <2>2. wi \in [Blocks -> WorkItems] /\ io \in [Blocks -> IoStates]
      BY Zenon DEF CrashSafe, TypeOK
    <2>3. wi' = [wi EXCEPT ![b] = NoWi] /\ Await(b, "none")
      BY <1>o, <1>1, <2>1, <2>2, ZenonT(30) DEF Await, end_write_hit
    <2> QED BY <1>0, <2>3, NoWiType, EndRequestKeeps, Zenon DEF end_write_hit
  <1>2. CASE o # None
    <2>0. /\ o \in Blocks /\ o # b /\ o \in bcb_held /\ io[o] = "none"
          /\ bcb_state[o] \in InvalidateStart
      BY <1>o, <1>2, StateClasses, Zenon DEF CrashSafe, TypeOK, WorkItems, OriginalWaits
    <2>1. /\ \A d \in Blocks \ {b, o} : wi'[d] = wi[d] /\ io'[d] = io[d]
          /\ wi'[b] = NoWi /\ io'[b] = "none" /\ wi'[o].orig = None /\ io'[o] = "ready"
          /\ wi' \in [Blocks -> WorkItems] /\ io' \in [Blocks -> IoStates]
      <3>1. bcb_xid[o] \in Nat /\ wi \in [Blocks -> WorkItems] /\ io \in [Blocks -> IoStates]
        BY <2>0, Zenon DEF CrashSafe, TypeOK
      <3>2. /\ [NoWi EXCEPT !.xid = bcb_xid[o]] \in WorkItems
            /\ [NoWi EXCEPT !.xid = bcb_xid[o]].orig = None
        BY <3>1, NoWiType, Zenon DEF WorkItems
      <3>3. /\ wi' = [wi EXCEPT ![b] = NoWi, ![o] = [NoWi EXCEPT !.xid = bcb_xid[o]]]
            /\ io' = [io EXCEPT ![b] = "none", ![o] = "ready"]
        BY <1>o, Zenon DEF end_write_hit
      <3> QED BY <2>0, <3>1, <3>2, <3>3, NoWiType, Zenon DEF IoStates
    <2>2. bio' \in [Bios -> Requests] /\ \A r \in Bios : bio'[r] = bio[r] \/ bio'[r].pc = "done"
      BY NoWiType, EndsRequest, Zenon DEF end_write_hit
    <2>2a. /\ bcb_state' = [bcb_state EXCEPT ![b] = final] /\ bcb_held' = bcb_held \ {b}
           /\ UNCHANGED <<bcb_sector, bcb_xid, bcb_hash_data, bcb_entry, bcb_entry_cleandirty,
                          rb_tree, bc_xid, bc_cache_mode_writeback, pmem, pmem_data, dev, crashes>>
      BY Zenon DEF end_write_hit, end_request, To, Release, lists, media
    <2>3. TypeOK'
      BY <1>0, <2>1, <2>2, <2>2a, StateClasses DEF CrashSafe, TypeOK, Stable
    <2>4. \A d \in Blocks : IoFits(d)' /\ DataSafe(d)' /\ Described(d)'
      <3>1. \A d \in Blocks \ {b, o} : Same(d)
        BY <2>1, <2>2a, Zenon DEF CrashSafe, TypeOK, Same
      <3>2. IoFits(b)' /\ IoFits(o)'
        BY <2>0, <2>1, <2>2a, StateClasses, SMTT(30) DEF CrashSafe, TypeOK, IoFits, Putting, Stable
      <3>3. DataSafe(b)' /\ DataSafe(o)'
        BY <2>0, <2>1, <2>2a, StateClasses, SMTT(30) DEF CrashSafe, TypeOK, DataSafe, Stable, Valid
      <3>4. Described(b)' /\ Described(o)'
        BY <2>0, <2>1, <2>2a, StateClasses DEF CrashSafe, TypeOK, Described, Stable, Valid
      <3> QED BY <3>1, <3>2, <3>3, <3>4, OthersKeep, Zenon
    <2>5. ASSUME NEW r \in Bios PROVE ClaimFits(r)' /\ Claimed(r)' \subseteq Claimed(r)
      <3>1. ClaimFits(r) /\ Claimed(r) \subseteq Blocks \ {b, o}
        BY <2>0, StateClasses DEF CrashSafe, TypeOK, ClaimFits, Claimed, Stable
      <3>2. CASE bio'[r].pc = "done"
        BY <3>2, Zenon DEF ClaimFits, Claimed, InFlight
      <3>3. CASE bio'[r] = bio[r]
        <4>1. Claimed(r)' = Claimed(r)
          BY <3>3, Zenon DEF Claimed
        <4>2. \A d \in Blocks \ {b, o} : io'[d] = io[d] /\ bcb_state'[d] = bcb_state[d]
                                         /\ (d \in bcb_held => d \in bcb_held')
          BY <2>1, <2>2a, Zenon DEF CrashSafe, TypeOK
        <4> QED BY <3>1, <3>3, <4>1, <4>2 DEF ClaimFits, Claimed, InFlight
      <3> QED BY <2>2, <3>2, <3>3, Zenon
    <2>6. \A c \in Blocks : OriginalWaits(c)'
      <3>1. \A c \in Blocks : OriginalWaits(c) /\ wi[c].orig # b /\ (c # b => wi[c].orig # o)
        BY <1>o, <1>2, StateClasses, CacheAssumption, Zenon
        DEF CacheAssumption, CrashSafe, OriginalWaits, OriginalsDistinct
      <3>2. \A d \in bcb_held \ {b, o} : d \in bcb_held' /\ io'[d] = io[d]
                                       /\ bcb_state'[d] = bcb_state[d]
        BY <2>1, <2>2a, Zenon DEF CrashSafe, TypeOK
      <3>3. ASSUME NEW c \in Blocks, c \in {b, o} PROVE OriginalWaits(c)'
        BY <2>1, <3>3, NoWiType, Zenon DEF OriginalWaits
      <3>4. ASSUME NEW c \in Blocks, c \notin {b, o} PROVE OriginalWaits(c)'
        BY <2>1, <3>1, <3>2, <3>4, SMTT(30) DEF OriginalWaits
      <3> QED BY <3>3, <3>4, Zenon
    <2>7. ClaimsDisjoint' /\ OriginalsDistinct' /\ XidsOwn'
      BY <2>1, <2>2a, <2>5, NoWiType DEF CrashSafe, ClaimsDisjoint, OriginalsDistinct, XidsOwn
    <2> QED BY <2>3, <2>4, <2>5, <2>6, <2>7, Zenon DEF CrashSafe
  <1> QED BY <1>1, <1>2, Zenon

(* The counters after a block was moved to the invalid list.  *)
LEMMA MoveToInvalidType ==
    ASSUME bc \in Counters, NEW b, NEW is_dirty \in BOOLEAN, cache_move_to_invalid(b, is_dirty)
    PROVE  bc' \in Counters
  <1>1. /\ bc.valid_entries - 1 \in Int /\ bc.invalid_entries + 1 \in Int
        /\ bc.valid_entries_dirty - (IF is_dirty THEN 1 ELSE 0) \in Int
        /\ bc.valid_entries_clean - (IF is_dirty THEN 0 ELSE 1) \in Int
    BY DEF Counters
  <1> QED BY <1>1, Zenon DEF cache_move_to_invalid, Counters

(* A block whose metadata is invalid in persistent memory becomes invalid. *)
LEMMA InvalidatedKeeps ==
    ASSUME CrashSafe, NEW b \in Blocks, bcb_state[b] \in Revoking, io[b] = "meta_written",
           NEW is_dirty \in BOOLEAN, cache_move_to_invalid(b, is_dirty),
           wi' = [wi EXCEPT ![b] = NoWi], NEW put \in Putting, Await(b, put),
           UNCHANGED <<bc_xid, bc_cache_mode_writeback, bio, media, committed, crashes>>
    PROVE  CrashSafe'
  <1>1. bc' \in Counters
    BY MoveToInvalidType, Zenon DEF CrashSafe, TypeOK
  <1> USE DEF cache_move_to_invalid, Await, media
  <1>2. TypeOK'
    BY <1>1, NoWiType, StateClasses, Zenon DEF CrashSafe, TypeOK, IoStates, Putting, Stable
  <1>3. Busy(b) /\ \A d \in Blocks \ {b} : Same(d)
    BY StateClasses DEF CrashSafe, TypeOK, Same, IoFits, Busy, Stable
  <1>4. IoFits(b)'
    BY StateClasses DEF CrashSafe, TypeOK, IoFits, Putting, Stable
  <1>5. DataSafe(b)'
    BY StateClasses DEF CrashSafe, TypeOK, IoFits, DataSafe, Putting, Stable, Valid
  <1>6. Described(b)'
    BY CacheAssumption, Zenon DEF CacheAssumption, CrashSafe, TypeOK, Described, DataSafe, Valid, NoData
  <1>7. Local(b)
    BY <1>3, <1>4, <1>5, <1>6, NoWiType, Zenon DEF Local, CrashSafe, TypeOK
  <1> QED BY <1>2, <1>7, LocalKeeps, Zenon

(* A block that was written back becomes clean.  *)
LEMMA CleanedKeeps ==
    ASSUME CrashSafe, NEW b \in Blocks, bcb_state[b] \in Updating, io[b] = "meta_written",
           cache_move_to_clean(b), wi' = [wi EXCEPT ![b] = NoWi], Await(b, "put_cleaned"),
           UNCHANGED <<bc_xid, bc_cache_mode_writeback, bio, media, committed, crashes>>
    PROVE  CrashSafe'
  <1> USE DEF cache_move_to_clean, Await, media
  <1>2. TypeOK'
    BY NoWiType, StateClasses, Zenon DEF CrashSafe, TypeOK, IoStates, Stable
  <1>3. Busy(b) /\ \A d \in Blocks \ {b} : Same(d)
    BY StateClasses DEF CrashSafe, TypeOK, Same, IoFits, Busy, Stable
  <1>4. IoFits(b)'
    BY StateClasses, SMTT(30) DEF CrashSafe, TypeOK, IoFits, Putting, Stable
  <1>5. DataSafe(b)'
    BY StateClasses DEF CrashSafe, TypeOK, IoFits, DataSafe, Stable, Valid
  <1>6. Described(b)'
    BY StateClasses DEF CrashSafe, TypeOK, Described, Valid, Stable
  <1>7. Local(b)
    BY <1>3, <1>4, <1>5, <1>6, NoWiType, Zenon DEF Local, CrashSafe, TypeOK
  <1> QED BY <1>2, <1>7, LocalKeeps, Zenon

(* The pages that handlers copy requests into are never torn.  *)
LEMMA PageType ==
    ASSUME CrashSafe, NEW b \in Blocks
    PROVE  /\ page_to_write(b) \in Contents
           /\ \A page \in Contents : bio_copy_to_cache(wi[b].bio, page) \in Contents
           /\ bcb_state[b] # "S_INVALID" => bcb_sector[b] \in Sectors
           /\ bcb_state[b] \in Using => pmem_data[b] \in Contents
           /\ wi[b].page \in Contents
  <1>1. wi[b].bio \in Tags /\ wi[b].orig \in Blocks \cup {None} /\ wi[b].page \in Contents
    BY Zenon DEF CrashSafe, TypeOK, WorkItems, Tags
  <1>2. \A page \in Contents : bio_copy_to_cache(wi[b].bio, page) \in Contents
    BY <1>1, Zenon DEF bio_copy_to_cache, Contents
  <1>3. wi[b].orig # None => pmem_data[wi[b].orig] \in Contents
    BY <1>1, StateClasses, Zenon DEF CrashSafe, TypeOK, OriginalWaits, DataSafe, Stable
  <1>4. page_to_write(b) \in Contents
    BY <1>2, <1>3, NoWiType, Zenon DEF page_to_write
  <1>5. bcb_state[b] # "S_INVALID" => bcb_sector[b] \in Sectors
    BY Zenon DEF CrashSafe, Described
  <1>6. bcb_state[b] \in Using => pmem_data[b] \in Contents
    BY StateClasses, Zenon DEF CrashSafe, TypeOK, DataSafe, Stable
  <1> QED BY <1>1, <1>2, <1>4, <1>5, <1>6, Zenon

(* What a write commits at its end.  *)
LEMMA CommitType ==
    ASSUME CrashSafe, NEW b \in Blocks, bcb_state[b] # "S_INVALID"
    PROVE  [committed EXCEPT ![bcb_sector[b]] =
               bio_copy_to_cache(wi[b].bio, committed[bcb_sector[b]])] \in [Sectors -> Contents]
  BY PageType, Zenon DEF CrashSafe, TypeOK

(* The end of a read, on the block that it was served from or that it      *)
(* filled.                                                                 *)
LEMMA EndReadKeeps ==
    ASSUME CrashSafe, NEW b \in Blocks, NEW final \in {"S_CLEAN", "S_DIRTY"},
           NEW page \in Contents,
           \/ bcb_state[b] \in Using
           \/ bcb_state[b] \in Storing /\ io[b] = "meta_written",
           end_read(b, final, page)
    PROVE  CrashSafe'
  <1>1. bc' \in Counters
    BY DEF CrashSafe, TypeOK, Counters, end_read
  <1> QED BY <1>1, EndRequestKeeps, Zenon DEF CrashSafe, TypeOK, end_read

(* The end of a write miss, whose data and metadata are both stored.  *)
LEMMA EndWriteKeeps ==
    ASSUME CrashSafe, NEW b \in Blocks, NEW final \in {"S_CLEAN", "S_DIRTY"},
           bcb_state[b] \in Storing, io[b] = "meta_written", end_write(b, final)
    PROVE  CrashSafe'
  <1>1. bc' \in Counters
    BY DEF CrashSafe, TypeOK, Counters, end_write
  <1>2. committed' \in [Sectors -> Contents]
    BY CommitType, StateClasses, Zenon DEF end_write, Stable
  <1> QED BY <1>1, <1>2, NoWiType, EndRequestKeeps, Zenon DEF end_write

(* Every handler of the state machine keeps the order of writes.  *)
LEMMA StateMachineKeeps ==
    ASSUME CrashSafe, NEW b \in Blocks, cache_state_machine(b)
    PROVE  CrashSafe'
  <1> USE DEF From
  <1>1. CASE sm_read_hit_copy_from_cache_start(b)
    <2>1. PICK s \in Using : bcb_state[b] \in Using /\ To(b, s)
      BY <1>1, Zenon DEF sm_read_hit_copy_from_cache_start, Using, CleanReading, DirtyReading
    <2> QED BY <1>1, <2>1, WaitsKeeps, Zenon DEF sm_read_hit_copy_from_cache_start
  <1>2. CASE sm_read_hit_copy_from_cache_end(b)
    <2>1. bcb_state[b] \in Using
      BY <1>2, Zenon DEF sm_read_hit_copy_from_cache_end, Using, CleanReading, DirtyReading
    <2> QED BY <1>2, <2>1, PageType, EndReadKeeps, Zenon DEF sm_read_hit_copy_from_cache_end
  <1>3. CASE sm_read_miss_copy_from_device_start(b)
    <2>1. PICK s \in Filling : bcb_state[b] \in Filling /\ To(b, s)
      BY <1>3, Zenon DEF sm_read_miss_copy_from_device_start, Filling, CleanFilling
    <2> QED BY <1>3, <2>1, WaitsKeeps, Zenon DEF sm_read_miss_copy_from_device_start
  <1>4. CASE sm_read_miss_copy_from_device_end(b)
    <2>1. PICK s \in Storing : bcb_state[b] \in Filling /\ To(b, s)
      BY <1>4, Zenon DEF sm_read_miss_copy_from_device_end, Filling, CleanFilling, Storing, CleanStoring
    <2> QED BY <1>4, <2>1, PageType, StoresKeeps, Zenon DEF sm_read_miss_copy_from_device_end
  <1>5. CASE sm_read_miss_copy_to_cache_end(b)
    <2>1. bcb_state[b] \in Storing
      BY <1>5, Zenon DEF sm_read_miss_copy_to_cache_end, Storing, CleanStoring
    <2> QED BY <1>5, <2>1, PageType, EndReadKeeps, Zenon DEF sm_read_miss_copy_to_cache_end
  <1>6. CASE sm_clean_pwrite_hit_copy_from_cache_start(b)
    <2>1. PICK s \in Filling : bcb_state[b] \in Filling /\ To(b, s)
      BY <1>6, Zenon DEF sm_clean_pwrite_hit_copy_from_cache_start, Filling, CleanFilling
    <2> QED BY <1>6, <2>1, WaitsKeeps, Zenon DEF sm_clean_pwrite_hit_copy_from_cache_start
  <1>7. CASE sm_clean_write_miss_copy_to_device_start(b)
    <2>1. PICK s \in Filling : bcb_state[b] \in Filling /\ To(b, s)
      BY <1>7, Zenon DEF sm_clean_write_miss_copy_to_device_start, Filling, CleanFilling
    <2> QED BY <1>7, <2>1, PageType, ToDeviceKeeps, Zenon DEF sm_clean_write_miss_copy_to_device_start
  <1>8. CASE sm_clean_write_miss_copy_to_device_end(b)
    <2>1. PICK s \in Storing : bcb_state[b] \in Filling /\ To(b, s)
      BY <1>8, Zenon DEF sm_clean_write_miss_copy_to_device_end, Filling, CleanFilling, Storing, CleanStoring
    <2>2. bcb_hash_data' = [bcb_hash_data EXCEPT ![b] = wi[b].page]
      BY <1>8, <2>1, StateClasses
      DEF sm_clean_write_miss_copy_to_device_end, CrashSafe, TypeOK, IoFits
    <2> QED BY <1>8, <2>1, <2>2, PageType, StoresKeeps, Zenon DEF sm_clean_write_miss_copy_to_device_end
  <1>9. CASE sm_clean_write_miss_copy_to_cache_end(b)
    <2>1. bcb_state[b] \in Storing
      BY <1>9, Zenon DEF sm_clean_write_miss_copy_to_cache_end, Storing, CleanStoring
    <2>2. CASE end_write(b, "S_CLEAN")
      BY <1>9, <2>1, <2>2, EndWriteKeeps, Zenon DEF sm_clean_write_miss_copy_to_cache_end
    <2>3. CASE end_write_hit(b, "S_CLEAN")
      <3>1. committed' \in [Sectors -> Contents]
        BY <2>1, <2>3, CommitType, StateClasses, Zenon DEF end_write_hit, Stable
      <3> QED BY <1>9, <2>1, <2>3, <3>1, EndWriteHitKeeps, Zenon DEF sm_clean_write_miss_copy_to_cache_end
    <2> QED BY <1>9, <2>2, <2>3, Zenon DEF sm_clean_write_miss_copy_to_cache_end
  <1>10. CASE sm_dirty_write_miss_copy_to_cache_start(b)
    <2>1. PICK s \in Storing : bcb_state[b] \in Filling /\ To(b, s)
      BY <1>10, Zenon DEF sm_dirty_write_miss_copy_to_cache_start, Filling, DirtyFilling, Storing, DirtyStoring
    <2> QED BY <1>10, <2>1, PageType, StoresKeeps, Zenon DEF sm_dirty_write_miss_copy_to_cache_start
  <1>11. CASE sm_dirty_write_miss_copy_to_cache_end(b)
    <2>1. bcb_state[b] \in Storing
      BY <1>11, Zenon DEF sm_dirty_write_miss_copy_to_cache_end, Storing, DirtyStoring
    <2> QED BY <1>11, <2>1, EndWriteKeeps, Zenon DEF sm_dirty_write_miss_copy_to_cache_end
  <1>12. CASE sm_dirty_pwrite_hit_copy_from_cache_start(b)
    <2>1. PICK s \in Filling : bcb_state[b] \in Filling /\ To(b, s)
      BY <1>12, Zenon DEF sm_dirty_pwrite_hit_copy_from_cache_start, Filling, DirtyFilling
    <2> QED BY <1>12, <2>1, WaitsKeeps, Zenon DEF sm_dirty_pwrite_hit_copy_from_cache_start
  <1>13. CASE sm_dirty_pwrite_hit_copy_to_cache_start(b)
    <2>1. PICK s \in Storing : bcb_state[b] \in Filling /\ To(b, s)
      BY <1>13, Zenon DEF sm_dirty_pwrite_hit_copy_to_cache_start, Filling, DirtyFilling, Storing, DirtyStoring
    <2> QED BY <1>13, <2>1, PageType, StoresKeeps, Zenon DEF sm_dirty_pwrite_hit_copy_to_cache_start
  <1>14. CASE sm_dirty_write_hit_copy_to_cache_start(b)
    <2>1. PICK s \in Storing : bcb_state[b] \in Filling /\ To(b, s)
      BY <1>14, Zenon DEF sm_dirty_write_hit_copy_to_cache_start, Filling, DirtyFilling, Storing, DirtyStoring
    <2> QED BY <1>14, <2>1, PageType, StoresKeeps, Zenon DEF sm_dirty_write_hit_copy_to_cache_start
  <1>15. CASE sm_dirty_write_hit_copy_to_cache_end(b)
    <2>1. bcb_state[b] \in Storing
      BY <1>15, Zenon DEF sm_dirty_write_hit_copy_to_cache_end, DirtyHitEnds, Storing, DirtyStoring
    <2>2. committed' \in [Sectors -> Contents]
      BY <1>15, <2>1, CommitType, StateClasses, Zenon
      DEF sm_dirty_write_hit_copy_to_cache_end, end_write_hit, Stable
    <2> QED BY <1>15, <2>1, <2>2, EndWriteHitKeeps, Zenon DEF sm_dirty_write_hit_copy_to_cache_end
  <1>16. CASE sm_pwrite_miss_copy_from_device_start(b)
    <2>1. PICK s \in Filling : bcb_state[b] \in Filling /\ To(b, s)
      BY <1>16, Zenon DEF sm_pwrite_miss_copy_from_device_start, Filling, CleanFilling, DirtyFilling
    <2> QED BY <1>16, <2>1, WaitsKeeps, Zenon DEF sm_pwrite_miss_copy_from_device_start
  <1>17. CASE sm_pwrite_miss_copy_from_device_end(b)
    <2> USE DEF sm_pwrite_miss_copy_from_device_end
    <2>1. bcb_state[b] \in Filling
      BY <1>17, Zenon DEF Filling, CleanFilling, DirtyFilling
    <2>2. PICK page \in Contents : page = bio_copy_to_cache(wi[b].bio, wi[b].page)
      BY PageType, Zenon
    <2>3. CASE From(b, "S_CLEAN_P_WRITE_MISS_CPF_DEVICE_END")
      <3>1. PICK s \in Filling : To(b, s)
        BY <1>17, <2>3, Zenon DEF Filling, CleanFilling
      <3> QED BY <1>17, <2>1, <2>2, <2>3, <3>1, ToDeviceKeeps, Zenon DEF media
    <2>4. CASE From(b, "S_DIRTY_P_WRITE_MISS_CPF_DEVICE_END")
      <3>1. PICK s \in Storing : To(b, s)
        BY <1>17, <2>4, Zenon DEF Storing, DirtyStoring
      <3> QED BY <1>17, <2>1, <2>2, <2>4, <3>1, StoresKeeps, ZenonT(30)
    <2> QED BY <1>17, <2>3, <2>4, Zenon
  <1>18. CASE sm_pwrite_miss_copy_to_device_end(b)
    <2>1. PICK s \in Storing : bcb_state[b] \in Filling /\ To(b, s)
      BY <1>18, Zenon DEF sm_pwrite_miss_copy_to_device_end, Filling, CleanFilling, Storing, DirtyStoring
    <2>2. bcb_hash_data' = [bcb_hash_data EXCEPT ![b] = wi[b].page]
      BY <1>18, <2>1, StateClasses
      DEF sm_pwrite_miss_copy_to_device_end, CrashSafe, TypeOK, IoFits
    <2> QED BY <1>18, <2>1, <2>2, PageType, StoresKeeps, ZenonT(30) DEF sm_pwrite_miss_copy_to_device_end
  <1>19. CASE sm_pwrite_miss_copy_to_cache_end(b)
    <2>1. bcb_state[b] \in Storing
      BY <1>19, Zenon DEF sm_pwrite_miss_copy_to_cache_end, Storing, CleanStoring, DirtyStoring
    <2> QED BY <1>19, <2>1, EndWriteKeeps, Zenon DEF sm_pwrite_miss_copy_to_cache_end
  <1>20. CASE sm_invalidate_start(b)
    <2>1. PICK s \in Revoking : bcb_state[b] \in InvalidateStart /\ To(b, s)
      BY <1>20, Zenon DEF sm_invalidate_start, InvalidateStart, InvalidateEnd, Revoking
    <2> QED BY <1>20, <2>1, UpdatesKeeps, Zenon DEF sm_invalidate_start
  <1>21. CASE sm_invalidate_end(b)
    <2>1. bcb_state[b] \in Revoking
      BY <1>21, Zenon DEF sm_invalidate_end, InvalidateEnd, Revoking
    <2> QED BY <1>21, <2>1, InvalidatedKeeps, Zenon DEF sm_invalidate_end, Putting
  <1>22. CASE sm_writeback_copy_from_cache_start(b)
    <2>1. PICK s \in Using : bcb_state[b] \in Using /\ To(b, s)
      BY <1>22, Zenon DEF sm_writeback_copy_from_cache_start, Using, Writeback, WritebackClean, WritebackInv
    <2> QED BY <1>22, <2>1, WaitsKeeps, Zenon DEF sm_writeback_copy_from_cache_start
  <1>23. CASE sm_writeback_copy_from_cache_end(b)
    <2>1. PICK s \in Using : bcb_state[b] \in Using /\ To(b, s)
      BY <1>23, Zenon DEF sm_writeback_copy_from_cache_end, Using, Writeback, WritebackClean, WritebackInv
    <2> QED BY <1>23, <2>1, PageType, ToDeviceKeeps, Zenon DEF sm_writeback_copy_from_cache_end
  <1>24. CASE sm_writeback_copy_to_device_end(b)
    <2> USE DEF sm_writeback_copy_to_device_end
    <2>1. bcb_state[b] \in Using
      BY <1>24, Zenon DEF Using, Writeback, WritebackClean, WritebackInv
    <2>2. CASE From(b, "S_DIRTY_WRITEBACK_CPT_DEVICE_END")
      <3>1. PICK s \in Updating : To(b, s)
        BY <1>24, <2>2, Zenon DEF Updating
      <3> QED BY <1>24, <2>1, <2>2, <3>1, UpdatesKeeps, Zenon
    <2>3. CASE From(b, "S_DIRTY_WRITEBACK_INV_CPT_DEVICE_END")
      <3>1. PICK s \in Revoking : To(b, s)
        BY <1>24, <2>3, Zenon DEF Revoking
      <3> QED BY <1>24, <2>1, <2>3, <3>1, UpdatesKeeps, Zenon
    <2> QED BY <1>24, <2>2, <2>3, Zenon
  <1>25. CASE sm_writeback_update_metadata_end(b)
    <2> USE DEF sm_writeback_update_metadata_end
    <2>1. CASE From(b, "S_DIRTY_WRITEBACK_UPD_METADATA_END")
      BY <1>25, <2>1, CleanedKeeps, Zenon DEF Updating
    <2>2. CASE From(b, "S_DIRTY_WRITEBACK_INV_UPD_METADATA_END")
      BY <1>25, <2>2, InvalidatedKeeps, Zenon DEF Revoking, Putting
    <2> QED BY <1>25, <2>1, <2>2, Zenon
  <1> QED
    BY <1>1, <1>2, <1>3, <1>4, <1>5, <1>6, <1>7, <1>8, <1>9, <1>10, <1>11, <1>12, <1>13,
       <1>14, <1>15, <1>16, <1>17, <1>18, <1>19, <1>20, <1>21, <1>22, <1>23, <1>24, <1>25
    DEF cache_state_machine

============================================================================
