------------------------ MODULE CrashSafetyRequests -------------------------
(***************************************************************************)
(* CrashSafe is kept by requests on their way to the state machine.        *)
(***************************************************************************)
EXTENDS CrashSafetyTakes

(* The counters after a block was taken from the invalid list.  *)
LEMMA GetInvalidType ==
    ASSUME bc \in Counters, NEW b, NEW s, NEW dirty \in BOOLEAN,
           cache_get_invalid_block(b, s, dirty)
    PROVE  bc' \in Counters
  <1>1. /\ bc.valid_entries + 1 \in Int /\ bc.invalid_entries - 1 \in Int
        /\ bc.valid_entries_dirty + (IF dirty THEN 1 ELSE 0) \in Int
        /\ bc.valid_entries_clean + (IF dirty THEN 0 ELSE 1) \in Int
    BY DEF Counters
  <1> QED BY <1>1, Zenon DEF cache_get_invalid_block, Counters

(* A block of the invalid list is taken for a sector.  *)
LEMMA GetInvalidKeeps ==
    ASSUME CrashSafe, NEW r \in Bios, NEW b \in Blocks, NEW s \in Sectors,
           NEW dirty \in BOOLEAN, cache_get_invalid_block(b, s, dirty),
           bio' \in [Bios -> Requests], \A q \in Bios \ {r} : bio'[q] = bio[q],
           InFlight(r)' => bio'[r].sector \in Sectors,
           \/ /\ bio'[r].pc = "miss" /\ bio'[r].blk = b
           \/ /\ bio[r].pc = "hit" /\ bio'[r].pc = "cloned"
              /\ bio'[r].clone = b /\ bio'[r].blk = bio[r].blk,
           UNCHANGED <<bc_xid, bc_cache_mode_writeback, wi, io, media, committed, crashes>>
    PROVE  CrashSafe'
  <1>0. TypeOK /\ IoFits(b) /\ DataSafe(b) /\ Described(b)
    BY Zenon DEF CrashSafe
  <1>1. bc' \in Counters
    BY <1>0, GetInvalidType, Zenon DEF TypeOK
  <1>2. /\ b \notin bcb_held /\ bcb_held' = bcb_held \cup {b}
        /\ bcb_entry[b] = "invalid"
        /\ bcb_sector' = [bcb_sector EXCEPT ![b] = s]
        /\ \E t \in NoData : bcb_state' = [bcb_state EXCEPT ![b] = t]
        /\ rb_tree' = rb_tree \cup {b}
        /\ bcb_entry' = [bcb_entry EXCEPT ![b] = "valid"]
        /\ bcb_entry_cleandirty' \in [Blocks -> {"clean", "dirty", "none"}]
        /\ UNCHANGED <<bcb_xid, bcb_hash_data>>
    BY <1>0, Zenon DEF TypeOK, cache_get_invalid_block, Hold, NoData
  <1>3. TypeOK'
    <2>1. bcb_state' \in [Blocks -> cache_state]
      <3>1. NoData \subseteq cache_state
        BY StateClasses, Zenon
      <3> QED BY <1>0, <1>2, <3>1, Zenon DEF TypeOK
    <2>2. /\ bcb_sector' \in [Blocks -> Sectors \cup {None}]
          /\ bcb_entry' \in [Blocks -> {"invalid", "valid", "none"}]
          /\ bcb_held' \subseteq Blocks /\ rb_tree' \subseteq Blocks
      BY <1>0, <1>2, Zenon DEF TypeOK
    <2> QED BY <1>0, <1>1, <1>2, <2>1, <2>2, Zenon DEF TypeOK, media
  <1>4. \A d \in Blocks \ {b} : Same(d)
    BY <1>0, <1>2, Zenon DEF TypeOK, Same, media
  <1>5. /\ bcb_state'[b] \in NoData /\ bcb_sector'[b] = s /\ bcb_entry'[b] = "valid"
        /\ b \in bcb_held'
    BY <1>0, <1>2, Zenon DEF TypeOK
  <1>6. bcb_state[b] = "S_INVALID" /\ io[b] = "none" /\ io' = io
    BY <1>0, <1>2, Zenon DEF IoFits
  <1>7. IoFits(b)' /\ DataSafe(b)' /\ Described(b)'
    <2>1. /\ bcb_state'[b] \in Incoming
          /\ bcb_state'[b] \notin Stable \cup Revoking \cup {"S_INVALID"}
      BY <1>5, StateClasses, Zenon DEF Stable
    <2>2. IoFits(b)'
      BY <1>5, <1>6, <2>1, Zenon DEF IoFits, Putting
    <2>3. pmem' = pmem /\ pmem_data' = pmem_data /\ bcb_hash_data' = bcb_hash_data
      BY <1>2, Zenon DEF media
    <2>4. DataSafe(b)'
      BY <1>0, <1>6, <2>1, <2>3, Zenon DEF DataSafe, Valid
    <2> QED BY <1>0, <1>5, <2>1, <2>2, <2>3, <2>4, Zenon DEF Described, Valid
  <1>8. ClaimFits(r)' /\ Claimed(r)' \subseteq Claimed(r) \cup {b}
    <2>1. CASE bio'[r].pc = "miss" /\ bio'[r].blk = b
      BY <2>1, <1>5, <1>6, Zenon DEF ClaimFits, Claimed
    <2>2. CASE /\ bio[r].pc = "hit" /\ bio'[r].pc = "cloned"
               /\ bio'[r].clone = b /\ bio'[r].blk = bio[r].blk
      <3>1. /\ bio[r].blk \in bcb_held /\ io[bio[r].blk] = "none"
            /\ bcb_state[bio[r].blk] \in {"S_CLEAN", "S_DIRTY"}
        BY <2>2, Zenon DEF CrashSafe, ClaimFits, Claimed
      <3>2. bcb_state'[bio[r].blk] = bcb_state[bio[r].blk]
        BY <1>0, <1>2, <3>1, Zenon DEF TypeOK
      <3>3. io' = io /\ bcb_held' = bcb_held \cup {b}
        BY <1>2, Zenon
      <3> QED BY <2>2, <1>5, <1>6, <3>1, <3>2, <3>3 DEF ClaimFits, Claimed
    <2> QED BY <2>1, <2>2, Zenon
  <1>9. wi'[b].orig \in {wi[b].orig, None} /\ UNCHANGED <<bcb_xid, bc_xid, pmem>>
    BY <1>2, Zenon DEF media
  <1> QED BY <1>2, <1>3, <1>4, <1>6, <1>7, <1>8, <1>9, TakeKeeps, Zenon

(* A lookup that finds an idle block takes it.  *)
LEMMA HitKeeps ==
    ASSUME CrashSafe, NEW r \in Bios, cache_map_workfunc_hit(r)
    PROVE  CrashSafe'
  <1>1. PICK b \in cache_rb_lookup(bio[r].sector) :
            /\ cache_get_hit_idle(b)
            /\ bio' = [bio EXCEPT ![r].pc = "hit", ![r].blk = b,
                                  ![r].wb = bc_cache_mode_writeback]
    BY Zenon DEF cache_map_workfunc_hit
  <1>2. /\ bio[r].pc = "map" /\ bio[r].sector \in Sectors
        /\ UNCHANGED <<bc, bc_xid, bc_cache_mode_writeback, wi, io, pmem, pmem_data, dev,
                       committed, crashes>>
    BY Zenon DEF cache_map_workfunc_hit, CrashSafe, ClaimFits, InFlight, media
  <1>3. b \in Blocks /\ bcb_sector[b] = bio[r].sector
    BY <1>1, Zenon DEF cache_rb_lookup, CrashSafe, TypeOK
  <1>4. /\ b \notin bcb_held /\ bcb_held' = bcb_held \cup {b}
        /\ bcb_entry' \in [Blocks -> {"invalid", "valid", "none"}]
        /\ bcb_entry'[b] \in {bcb_entry[b], "valid"}
        /\ \A d \in Blocks \ {b} : bcb_entry'[d] = bcb_entry[d]
        /\ bcb_entry_cleandirty' \in [Blocks -> {"clean", "dirty", "none"}]
        /\ UNCHANGED <<bcb_state, bcb_sector, bcb_xid, bcb_hash_data, rb_tree>>
    BY <1>1, <1>3, Zenon DEF cache_get_hit_idle, Hold, CrashSafe, TypeOK
  <1>5. bcb_state[b] \in {"S_CLEAN", "S_DIRTY"} /\ io[b] = "none"
    BY <1>2, <1>3, <1>4 DEF CrashSafe, IoFits, Described, Stable
  <1>6. /\ bio' \in [Bios -> Requests] /\ \A q \in Bios \ {r} : bio'[q] = bio[q]
        /\ bio'[r].pc = "hit" /\ bio'[r].blk = b /\ bio'[r].sector = bio[r].sector
    <2> DEFINE new == [bio[r] EXCEPT !.pc = "hit", !.blk = b, !.wb = bc_cache_mode_writeback]
    <2>1. bio \in [Bios -> Requests] /\ new \in Requests
      <3>1. bio \in [Bios -> Requests] /\ bc_cache_mode_writeback \in BOOLEAN
        BY Zenon DEF CrashSafe, TypeOK
      <3>2. "hit" \in BioStates
        BY Zenon DEF BioStates
      <3>3. new \in Requests
        BY <1>3, <3>1, <3>2, MoveTypes, Zenon
      <3> QED BY <3>1, <3>3, Zenon
    <2>2. new.pc = "hit" /\ new.blk = b /\ new.sector = bio[r].sector
      BY <2>1, Zenon DEF Requests
    <2>3. bio' = [bio EXCEPT ![r] = new]
      BY <1>1, <2>1, Zenon
    <2> HIDE DEF new
    <2> QED BY <2>1, <2>2, <2>3, Zenon
  <1>7. TypeOK'
    BY <1>2, <1>3, <1>4, <1>6, Zenon DEF CrashSafe, TypeOK
  <1>8. \A d \in Blocks \ {b} : Same(d)
    BY <1>2, <1>4, Zenon DEF CrashSafe, TypeOK, Same
  <1>9. IoFits(b)' /\ DataSafe(b)' /\ Described(b)'
    BY <1>2, <1>3, <1>4, <1>5, ZenonT(30) DEF CrashSafe, TypeOK, IoFits, DataSafe, Described, Valid, Stable
  <1>10. ClaimFits(r)' /\ Claimed(r)' \subseteq Claimed(r) \cup {b}
    BY <1>2, <1>4, <1>5, <1>6, Zenon DEF ClaimFits, Claimed
  <1>11. wi'[b].orig \in {wi[b].orig, None} /\ UNCHANGED <<bcb_xid, bc_xid, pmem>>
    BY <1>2, <1>4, Zenon
  <1> QED BY <1>2, <1>3, <1>4, <1>6, <1>7, <1>8, <1>9, <1>10, <1>11, TakeKeeps

(* A lookup that finds nothing takes a block of the invalid list.  *)
LEMMA MissKeeps ==
    ASSUME CrashSafe, NEW r \in Bios, cache_map_workfunc_miss(r)
    PROVE  CrashSafe'
  <1> DEFINE dirty == bc_cache_mode_writeback /\ bio[r].dir = "WRITE"
  <1>1. PICK b \in Blocks :
            /\ cache_get_invalid_block(b, bio[r].sector, dirty)
            /\ bio' = [bio EXCEPT ![r].pc = "miss", ![r].blk = b,
                                  ![r].wb = bc_cache_mode_writeback]
    BY Zenon DEF cache_map_workfunc_miss
  <1>2. /\ bio[r].sector \in Sectors /\ dirty \in BOOLEAN
        /\ UNCHANGED <<bc_xid, bc_cache_mode_writeback, wi, io, media, committed, crashes>>
    BY Zenon DEF cache_map_workfunc_miss, CrashSafe, ClaimFits, InFlight
  <1>6. /\ bio' \in [Bios -> Requests] /\ \A q \in Bios \ {r} : bio'[q] = bio[q]
        /\ bio'[r].pc = "miss" /\ bio'[r].blk = b /\ bio'[r].sector = bio[r].sector
    <2> DEFINE new == [bio[r] EXCEPT !.pc = "miss", !.blk = b, !.wb = bc_cache_mode_writeback]
    <2>1. bio \in [Bios -> Requests] /\ new \in Requests
      <3>1. bio \in [Bios -> Requests] /\ bc_cache_mode_writeback \in BOOLEAN
        BY Zenon DEF CrashSafe, TypeOK
      <3>2. "miss" \in BioStates
        BY Zenon DEF BioStates
      <3>3. new \in Requests
        BY <3>1, <3>2, MoveTypes, Zenon
      <3> QED BY <3>1, <3>3, Zenon
    <2>2. new.pc = "miss" /\ new.blk = b /\ new.sector = bio[r].sector
      BY <2>1, Zenon DEF Requests
    <2>3. bio' = [bio EXCEPT ![r] = new]
      BY <1>1, <2>1, Zenon
    <2> HIDE DEF new
    <2> QED BY <2>1, <2>2, <2>3, Zenon
  <1> HIDE DEF dirty
  <1> QED BY <1>1, <1>2, <1>6, GetInvalidKeeps, SMTT(30)

(* A write hit takes a second block, or gives its block back.  *)
LEMMA CloneKeeps ==
    ASSUME CrashSafe, NEW r \in Bios, cache_get_clone(r)
    PROVE  CrashSafe'
  <1>0. /\ bio[r].pc = "hit" /\ bio[r].sector \in Sectors /\ bio[r].wb \in BOOLEAN
        /\ UNCHANGED <<bc_xid, bc_cache_mode_writeback, wi, io, media, committed, crashes>>
        /\ bio \in [Bios -> Requests]
    BY Zenon DEF cache_get_clone, CrashSafe, TypeOK, Requests, ClaimFits, InFlight
  <1>1. ASSUME NEW c \in Blocks, cache_get_invalid_block(c, bio[r].sector, bio[r].wb),
               bio' = [bio EXCEPT ![r].pc = "cloned", ![r].clone = c]
        PROVE  CrashSafe'
    <2> DEFINE new == [bio[r] EXCEPT !.pc = "cloned", !.clone = c]
    <2>1. new \in Requests
      <3>1. "cloned" \in BioStates
        BY Zenon DEF BioStates
      <3> QED BY <3>1, MoveTypes, Zenon
    <2>2. /\ new.pc = "cloned" /\ new.clone = c /\ new.blk = bio[r].blk
          /\ new.sector = bio[r].sector
      BY <1>0, <2>1, Zenon DEF Requests
    <2>3. bio' = [bio EXCEPT ![r] = new]
      BY <1>0, <1>1, Zenon
    <2>4. /\ bio' \in [Bios -> Requests] /\ \A q \in Bios \ {r} : bio'[q] = bio[q]
          /\ bio'[r] = new
      <3> HIDE DEF new
      <3> QED BY <1>0, <2>1, <2>3, Zenon
    <2> HIDE DEF new
    <2> QED BY <1>0, <1>1, <2>2, <2>4, GetInvalidKeeps
  <1>2. ASSUME Release(bio[r].blk), bio' = [bio EXCEPT ![r].pc = "deferred", ![r].blk = None],
               UNCHANGED <<bcb_state, bcb_sector, bcb_xid, bcb_hash_data, lists, bc>>
        PROVE  CrashSafe'
    <2> DEFINE new == [bio[r] EXCEPT !.pc = "deferred", !.blk = None]
    <2>1. new \in Requests
      <3>1. "deferred" \in BioStates /\ None \in Blocks \cup {None}
        BY Zenon DEF BioStates
      <3> QED BY <3>1, MoveTypes, Zenon
    <2>2. new.pc = "deferred" /\ new.sector = bio[r].sector
      BY <1>0, <2>1, Zenon DEF Requests
    <2>3. bio' = [bio EXCEPT ![r] = new]
      BY <1>0, <1>2, ZenonT(30)
    <2>4. /\ bio' \in [Bios -> Requests] /\ \A q \in Bios \ {r} : bio'[q] = bio[q]
          /\ bio'[r].pc = "deferred" /\ bio'[r].sector = bio[r].sector
      <3> HIDE DEF new
      <3> QED BY <1>0, <2>1, <2>2, <2>3, Zenon
    <2>5. TypeOK'
      BY <1>0, <1>2, <2>4, Zenon DEF CrashSafe, TypeOK, Release, lists, media
    <2>6. PICK b : b = bio[r].blk
      BY Zenon
    <2> QED BY <1>0, <1>2, <2>4, <2>5, <2>6, GiveBackKeeps, Zenon
  <1> QED BY <1>1, <1>2, Zenon DEF cache_get_clone

(* A request that does not start with a block: it is issued, deferred,     *)
(* retried, or bypasses the cache.                                         *)
LEMMA IssueKeeps ==
    ASSUME CrashSafe, NEW r \in Bios, bittern_cache_map(r)
    PROVE  CrashSafe'
  <1>1. PICK d \in Dirs, s \in Sectors, full \in BOOLEAN, pc \in {"map", "deferred"} :
            bio' = [bio EXCEPT ![r] = [NoBio EXCEPT !.dir = d, !.sector = s, !.full = full,
                                                    !.pc = pc]]
    BY Zenon DEF bittern_cache_map
  <1>2. UNCHANGED <<block, lists, bc, bc_xid, bc_cache_mode_writeback, wi, io, media,
                    committed, crashes>>
    BY Zenon DEF bittern_cache_map
  <1> DEFINE new == [NoBio EXCEPT !.dir = d, !.sector = s, !.full = full, !.pc = pc]
  <1>3. new \in Requests
    <2>1. NoBio \in Requests
      BY NoWiType, Zenon DEF NoBio, Requests, BioStates
    <2>2. d \in {"READ", "WRITE"} /\ s \in Sectors \cup {None} /\ pc \in BioStates
      BY BitternAssumption, Zenon DEF BitternAssumption, BioStates
    <2> QED BY <2>1, <2>2, Zenon DEF Requests
  <1>4. new.pc = pc /\ new.sector = s
    BY Zenon DEF NoBio
  <1>5. /\ bio' \in [Bios -> Requests] /\ bio'[r].pc = pc /\ bio'[r].sector = s
        /\ \A q \in Bios \ {r} : bio'[q] = bio[q]
    <2> HIDE DEF new
    <2>1. bio' = [bio EXCEPT ![r] = new]
      BY <1>1, Zenon DEF new
    <2> QED BY <2>1, <1>3, <1>4, Zenon DEF CrashSafe, TypeOK
  <1> HIDE DEF new
  <1>6. TypeOK'
    BY <1>2, <1>5, Zenon DEF CrashSafe, TypeOK, block, lists, media
  <1>7. bc_xid' >= bc_xid
    BY <1>2 DEF CrashSafe, TypeOK
  <1>8. Claimed(r)' = {} /\ (InFlight(r)' => bio'[r].sector \in Sectors)
    BY <1>5, Zenon DEF Claimed, InFlight
  <1> QED BY <1>2, <1>5, <1>6, <1>7, <1>8, RequestMovesKeeps, Zenon DEF media

(* A request that bypasses the cache touches no block of it.  *)
LEMMA BypassKeeps ==
    ASSUME CrashSafe, NEW r \in Bios,
           \/ cache_map_workfunc_handle_bypass(r)
           \/ bypass_io(r)
           \/ cached_dev_bypass_endio(r)
    PROVE  CrashSafe'
  <1>0. /\ bio \in [Bios -> Requests] /\ bc \in Counters /\ bc_xid \in Nat
        /\ dev \in [Sectors -> Contents] /\ committed \in [Sectors -> Contents]
        /\ bc.pending_requests \in Int
    BY Zenon DEF CrashSafe, TypeOK, Counters
  <1>1. InFlight(r) /\ bio[r].sector \in Sectors
    BY Zenon DEF cache_map_workfunc_handle_bypass, bypass_io, cached_dev_bypass_endio, InFlight,
           CrashSafe, ClaimFits
  <1>2. \A page \in Contents : bio_copy_to_cache(r, page) \in Contents
    BY Zenon DEF bio_copy_to_cache, Contents, Tags
  <1>3. CASE cache_map_workfunc_handle_bypass(r)
    <2>1. bc' \in Counters /\ bc_xid' \in Nat /\ bc_xid' >= bc_xid
      BY <1>0, <1>3 DEF cache_map_workfunc_handle_bypass, Counters, cache_xid_inc
    <2> QED BY <1>0, <1>1, <1>3, <2>1, OnlyPcKeeps, Zenon
            DEF cache_map_workfunc_handle_bypass, BioStates
  <1>4. CASE bypass_io(r)
    <2> DEFINE page == IF bio[r].dir = "READ" THEN dev[bio[r].sector] ELSE Blank
               new == [bio[r] EXCEPT !.pc = "bypass_done", !.result = page]
    <2>1. page \in Contents
      BY <1>0, <1>1, NoWiType, Zenon
    <2>2. new \in Requests
      <3>1. "bypass_done" \in BioStates
        BY Zenon DEF BioStates
      <3> HIDE DEF page
      <3> QED BY <2>1, <3>1, MoveTypes, Zenon
    <2>3. new.pc = "bypass_done" /\ new.sector = bio[r].sector
      BY <1>0, <2>2, Zenon DEF Requests
    <2>4. bio' = [bio EXCEPT ![r] = new]
      BY <1>0, <1>4, Zenon DEF bypass_io
    <2>5. /\ bio' \in [Bios -> Requests] /\ \A q \in Bios \ {r} : bio'[q] = bio[q]
          /\ bio'[r].pc = "bypass_done" /\ bio'[r].sector = bio[r].sector
      <3> HIDE DEF new
      <3> QED BY <1>0, <2>2, <2>3, <2>4, Zenon
    <2>6. dev' \in [Sectors -> Contents]
      BY <1>0, <1>1, <1>2, <1>4, Zenon DEF bypass_io
    <2>7. UNCHANGED <<block, lists, bc, bc_xid, bc_cache_mode_writeback, wi, io, pmem,
                      pmem_data, committed, crashes>>
      BY <1>4, Zenon DEF bypass_io
    <2>8. TypeOK'
      BY <2>5, <2>6, <2>7, Zenon DEF CrashSafe, TypeOK, block, lists
    <2>9. Claimed(r)' = {} /\ (InFlight(r)' => bio'[r].sector \in Sectors)
      BY <1>1, <2>5, Zenon DEF Claimed, InFlight
    <2> QED BY <1>0, <2>5, <2>7, <2>8, <2>9, RequestMovesKeeps
  <1>5. CASE cached_dev_bypass_endio(r)
    <2>1. bc' \in Counters
      BY <1>0, <1>5 DEF cached_dev_bypass_endio, Counters
    <2>2. committed' \in [Sectors -> Contents]
      BY <1>0, <1>1, <1>2, <1>5, Zenon DEF cached_dev_bypass_endio
    <2>3. /\ bc_xid' \in Nat /\ bc_xid' >= bc_xid
          /\ UNCHANGED <<block, lists, bc_cache_mode_writeback, wi, io, media, crashes>>
          /\ bio' = [bio EXCEPT ![r].pc = "done"]
          /\ "done" \in BioStates \ {"hit", "cloned", "miss"}
      BY <1>0, <1>5 DEF cached_dev_bypass_endio, BioStates
    <2> QED BY <1>1, <2>1, <2>2, <2>3, OnlyPcKeeps, Zenon
  <1> QED BY <1>3, <1>4, <1>5, Zenon

(* Every step of a request on its way to the state machine.  *)
LEMMA MapKeeps ==
    ASSUME CrashSafe, NEW r \in Bios, map_request(r)
    PROVE  CrashSafe'
  <1>0. /\ bc \in Counters /\ bc_xid \in Nat /\ committed \in [Sectors -> Contents]
        /\ bcb_state \in [Blocks -> cache_state]
        /\ bcb_entry_cleandirty \in [Blocks -> {"clean", "dirty", "none"}]
        /\ bio[r] \in Requests /\ ClaimFits(r)
    BY Zenon DEF CrashSafe, TypeOK
  <1>1. CASE \/ handle_deferred(r)
             \/ cache_map_workfunc_resource_busy(r)
             \/ cache_map_workfunc_no_resources(r)
    BY <1>0, <1>1, OnlyPcKeeps, SMTT(30)
    DEF handle_deferred, cache_map_workfunc_resource_busy, cache_map_workfunc_no_resources,
        InFlight, BioStates
  <1>2. CASE cache_handle_read_hit(r)
    <2>0. PICK b : b = bio[r].blk
      BY Zenon
    <2>1. PICK s \in Using : To(b, s)
      BY <1>2, <2>0, Zenon DEF cache_handle_read_hit, Using, CleanReading, DirtyReading
    <2>2. b \in Blocks
      BY <1>0, <1>2, <2>0, Zenon DEF cache_handle_read_hit, ClaimFits, Claimed, CrashSafe, TypeOK
    <2>3. /\ bcb_state' \in [Blocks -> cache_state] /\ bcb_state'[b] \in Using
          /\ \A d \in Blocks \ {b, None} : bcb_state'[d] = bcb_state[d]
      BY <1>0, <2>1, <2>2, StateClasses, Zenon DEF To
    <2>4. bcb_entry_cleandirty' \in [Blocks -> {"clean", "dirty", "none"}]
      BY <1>0, <1>2, Zenon DEF cache_handle_read_hit
    <2> QED BY <1>2, <2>0, <2>3, <2>4, StartKeeps, Zenon DEF cache_handle_read_hit
  <1>3. CASE \/ cache_handle_read_miss(r)
             \/ cache_handle_write_miss_wb(r)
             \/ cache_handle_write_miss_wt(r)
    <2> USE DEF cache_handle_read_miss, cache_handle_write_miss_wb, cache_handle_write_miss_wt
    <2>0. PICK b : b = bio[r].blk
      BY Zenon
    <2>1. PICK s \in Filling : To(b, s)
      BY <1>3, <2>0, Zenon DEF Filling, CleanFilling, DirtyFilling
    <2>2. b \in Blocks
      BY <1>0, <1>3, <2>0, Zenon DEF ClaimFits, Claimed, CrashSafe, TypeOK
    <2>3. /\ bcb_state' \in [Blocks -> cache_state] /\ bcb_state'[b] \in Filling
          /\ \A d \in Blocks \ {b, None} : bcb_state'[d] = bcb_state[d]
      BY <1>0, <2>1, <2>2, StateClasses, Zenon DEF To
    <2>4. bcb_entry_cleandirty' \in [Blocks -> {"clean", "dirty", "none"}]
      BY <1>0, <1>3, Zenon
    <2> QED BY <1>3, <2>0, <2>3, <2>4, StartKeeps, Zenon
  <1>4. CASE cache_handle_write_hit_wt(r) \/ cache_handle_write_hit_wb(r)
    <2> USE DEF cache_handle_write_hit_wt, cache_handle_write_hit_wb
    <2>0. PICK b, o : b = bio[r].clone /\ o = bio[r].blk
      BY Zenon
    <2>1. PICK s \in Filling, t \in InvalidateStart :
              bcb_state' = [bcb_state EXCEPT ![o] = t, ![b] = s]
      BY <1>4, <2>0, Zenon DEF Filling, CleanFilling, DirtyFilling, InvalidateStart
    <2>2. /\ b \in Blocks /\ o \in Blocks
          /\ bcb_state[o] \in {"S_CLEAN", "S_DIRTY"} /\ bcb_state[b] \in NoData
      BY <1>0, <1>4, <2>0, Zenon DEF ClaimFits, Claimed, CrashSafe, TypeOK
    <2>3. b # o
      BY <2>2, Zenon DEF NoData
    <2>4. /\ bcb_state' \in [Blocks -> cache_state] /\ bcb_state'[b] \in Filling
          /\ bcb_state'[o] \in InvalidateStart
          /\ \A d \in Blocks \ {b, o} : bcb_state'[d] = bcb_state[d]
      BY <1>0, <2>1, <2>2, <2>3, StateClasses, Zenon
    <2>5. bcb_entry_cleandirty' \in [Blocks -> {"clean", "dirty", "none"}]
      BY <1>0, <1>4, Zenon
    <2>6. start_request(r, b, o) /\ bio[r].pc = "cloned"
      BY <1>4, <2>0, Zenon
    <2> QED BY <2>0, <2>4, <2>5, <2>6, StartKeeps, Zenon
  <1> QED
    BY <1>1, <1>2, <1>3, <1>4, IssueKeeps, HitKeeps, MissKeeps, CloneKeeps, BypassKeeps, Zenon
    DEF map_request

============================================================================
