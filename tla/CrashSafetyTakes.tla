-------------------------- MODULE CrashSafetyTakes --------------------------
(***************************************************************************)
(* The forms of the steps that take a block, start work on it or give it   *)
(* back, and that they keep CrashSafe.                                     *)
(***************************************************************************)
EXTENDS CrashSafetySteps

(* A request that owns no block moves on, or the mode is switched.  *)
LEMMA RequestMovesKeeps ==
    ASSUME CrashSafe, TypeOK', NEW r,
           UNCHANGED <<block, lists, wi, io, pmem, pmem_data>>, bc_xid' >= bc_xid,
           \A q \in Bios \ {r} : bio'[q] = bio[q],
           r \in Bios => /\ Claimed(r)' = {}
                         /\ bio'[r].pc \notin {"hit", "cloned", "miss"}
                         /\ InFlight(r)' => bio'[r].sector \in Sectors
    PROVE  CrashSafe'
  <1> USE DEF block, lists
  <1>1. \A d \in Blocks : IoFits(d)' /\ DataSafe(d)' /\ Described(d)'
    BY OthersKeep, Zenon DEF Same
  <1>2. \A q \in Bios : ClaimFits(q)' /\ Claimed(q)' \subseteq Claimed(q)
    BY DEF CrashSafe, ClaimFits, Claimed, InFlight
  <1>3. \A c \in Blocks : OriginalWaits(c)'
    BY Zenon DEF CrashSafe, OriginalWaits
  <1>4. ClaimsDisjoint' /\ OriginalsDistinct'
    BY <1>2, Zenon DEF CrashSafe, ClaimsDisjoint, OriginalsDistinct
  <1>5. XidsOwn'
    <2>1. /\ XidsOwn /\ bc_xid \in Nat /\ bc_xid' \in Nat
          /\ \A d \in Blocks : bcb_xid[d] \in Nat /\ pmem[d].xid \in Nat
      BY Zenon DEF CrashSafe, TypeOK, MetadataBlocks
    <2> QED BY <2>1 DEF XidsOwn
  <1> QED BY <1>1, <1>2, <1>3, <1>4, <1>5, Zenon DEF CrashSafe

(* A write hit that finds no block for its clone gives its block back.  *)
LEMMA GiveBackKeeps ==
    ASSUME CrashSafe, TypeOK', NEW r \in Bios, NEW b, b = bio[r].blk, bio[r].pc = "hit",
           Release(b), UNCHANGED <<bcb_state, bcb_sector, bcb_xid, bcb_hash_data, lists,
                                   bc_xid, wi, io, media>>,
           \A q \in Bios \ {r} : bio'[q] = bio[q],
           bio'[r].pc = "deferred", bio'[r].sector = bio[r].sector
    PROVE  CrashSafe'
  <1>0. /\ bcb_held' = bcb_held \ {b}
        /\ bcb_state' = bcb_state /\ bcb_sector' = bcb_sector /\ bcb_xid' = bcb_xid
        /\ bcb_hash_data' = bcb_hash_data /\ bcb_entry' = bcb_entry /\ bc_xid' = bc_xid
        /\ wi' = wi /\ io' = io /\ pmem' = pmem /\ pmem_data' = pmem_data
    BY Zenon DEF Release, lists, media
  <1>1. /\ b \in Blocks /\ b \in bcb_held /\ bcb_state[b] \in {"S_CLEAN", "S_DIRTY"}
        /\ io[b] = "none" /\ b \in Claimed(r)
    <2>1. TypeOK /\ ClaimFits(r)
      BY Zenon DEF CrashSafe
    <2> QED BY <2>1, Zenon DEF TypeOK, ClaimFits, Claimed
  <1>2. \A d \in Blocks : IoFits(d)' /\ DataSafe(d)' /\ Described(d)'
    <2>1. \A d \in Blocks \ {b} : Same(d)
      BY <1>0, Zenon DEF Same
    <2>2. IoFits(b) /\ DataSafe(b) /\ Described(b)
      BY <1>1, Zenon DEF CrashSafe
    <2>3. IoFits(b)'
      <3>1. bcb_state[b] \in Stable
        BY <1>1, Zenon DEF Stable
      <3> QED BY <1>0, <1>1, <2>2, <3>1, Zenon DEF IoFits
    <2>4. DataSafe(b)' /\ Described(b)'
      BY <1>0, <2>2, Zenon DEF DataSafe, Described, Valid
    <2> QED BY <2>1, <2>3, <2>4, OthersKeep, Zenon
  <1>3. \A c \in Blocks : wi[c].orig # b
    <2>1. bcb_state[b] \notin InvalidateStart /\ b # None
      BY <1>1, CacheAssumption, Zenon DEF CacheAssumption, InvalidateStart
    <2>2. \A c \in Blocks : OriginalWaits(c)
      BY Zenon DEF CrashSafe
    <2> QED BY <2>1, <2>2, Zenon DEF OriginalWaits
  <1>4. ASSUME NEW q \in Bios \ {r} PROVE ClaimFits(q)' /\ Claimed(q)' = Claimed(q)
    <2>1. /\ bio'[q] = bio[q] /\ ClaimFits(q) /\ Claimed(q) \cap Claimed(r) = {}
      BY Zenon DEF CrashSafe, ClaimsDisjoint
    <2>2. Claimed(q)' = Claimed(q) /\ b \notin Claimed(q)
      BY <1>1, <2>1, Zenon DEF Claimed
    <2> QED BY <1>0, <2>1, <2>2, Zenon DEF ClaimFits, Claimed, InFlight
  <1>5. ClaimFits(r)' /\ Claimed(r)' = {}
    <2>1. ClaimFits(r)
      BY Zenon DEF CrashSafe
    <2> QED BY <2>1, Zenon DEF ClaimFits, Claimed, InFlight
  <1>6. ClaimsDisjoint'
    BY <1>4, <1>5, Zenon DEF CrashSafe, ClaimsDisjoint
  <1>7. (\A c \in Blocks : OriginalWaits(c)') /\ OriginalsDistinct' /\ XidsOwn'
    BY <1>0, <1>3 DEF CrashSafe, OriginalWaits, OriginalsDistinct, XidsOwn
  <1> QED BY <1>2, <1>4, <1>5, <1>6, <1>7, Zenon DEF CrashSafe

(* A request starts the state machine on the blocks it has taken.  *)
LEMMA StartKeeps ==
    ASSUME CrashSafe, NEW r \in Bios, NEW b, NEW orig, start_request(r, b, orig),
           bcb_state' \in [Blocks -> cache_state],
           \A d \in Blocks \ {b, orig} : bcb_state'[d] = bcb_state[d],
           bcb_entry_cleandirty' \in [Blocks -> {"clean", "dirty", "none"}],
           \/ /\ bio[r].pc = "hit" /\ b = bio[r].blk /\ orig = None
              /\ bcb_state'[b] \in Using
           \/ /\ bio[r].pc = "miss" /\ b = bio[r].blk /\ orig = None
              /\ bcb_state'[b] \in Filling
           \/ /\ bio[r].pc = "cloned" /\ b = bio[r].clone /\ orig = bio[r].blk
              /\ bcb_state'[b] \in Filling /\ bcb_state'[orig] \in InvalidateStart
    PROVE  CrashSafe'
  <1> USE DEF start_request, cache_xid_inc, media
  <1>0. /\ b \in Blocks /\ b \in bcb_held /\ b \in Claimed(r) /\ io[b] = "none"
        /\ orig = None \/ /\ orig \in Blocks /\ orig \in bcb_held /\ orig \in Claimed(r)
                          /\ io[orig] = "none" /\ orig # b
                          /\ bcb_state[orig] \in {"S_CLEAN", "S_DIRTY"}
                          /\ bcb_state'[orig] \in InvalidateStart
        /\ \/ bcb_state[b] \in NoData /\ bcb_state'[b] \in Filling
           \/ bcb_state[b] \in {"S_CLEAN", "S_DIRTY"} /\ bcb_state'[b] \in Using
    <2>1. ClaimFits(r)
      BY Zenon DEF CrashSafe
    <2> QED BY <2>1, StateClasses, Zenon DEF CrashSafe, TypeOK, ClaimFits, Claimed, Stable
  <1>1. /\ wi' \in [Blocks -> WorkItems] /\ wi'[b].orig = orig
        /\ \A d \in Blocks \ {b} : wi'[d] = wi[d]
    <2>1. wi \in [Blocks -> WorkItems] /\ bc_xid + 1 \in Nat
      BY DEF CrashSafe, TypeOK
    <2>2. [NoWi EXCEPT !.bio = r, !.orig = orig, !.xid = bc_xid + 1] \in WorkItems
      <3>1. r \in Bios \cup {None} /\ orig \in Blocks \cup {None}
        BY <1>0, Zenon
      <3> QED BY <2>1, <3>1, NoWiType, Zenon DEF WorkItems
    <2>3. [NoWi EXCEPT !.bio = r, !.orig = orig, !.xid = bc_xid + 1].orig = orig
      BY Zenon DEF NoWi
    <2> QED BY <1>0, <2>1, <2>2, <2>3, Zenon
  <1>2. /\ bio' \in [Bios -> Requests] /\ bio'[r].pc = "running"
        /\ bio'[r].sector = bio[r].sector /\ \A q \in Bios \ {r} : bio'[q] = bio[q]
    <2> DEFINE new == [bio[r] EXCEPT !.pc = "running"]
    <2>1. bio \in [Bios -> Requests]
      BY Zenon DEF CrashSafe, TypeOK
    <2>2. new \in Requests /\ new.pc = "running" /\ new.sector = bio[r].sector
      BY <2>1 DEF Requests, BioStates
    <2>3. bio' = [bio EXCEPT ![r] = new]
      BY <2>1, Zenon
    <2> QED BY <2>1, <2>2, <2>3, Zenon
  <1>3. TypeOK'
    <2>1. bc' \in Counters
      BY DEF CrashSafe, TypeOK, Counters
    <2>2. io' \in [Blocks -> IoStates]
      BY <1>0, Zenon DEF CrashSafe, TypeOK, IoStates
    <2>3. bc_xid + 1 \in Nat
      BY DEF CrashSafe, TypeOK
    <2>4. bcb_xid' \in [Blocks -> Nat] /\ bc_xid' \in Nat
      BY <1>0, <2>3, Zenon DEF CrashSafe, TypeOK
    <2> QED BY <1>1, <1>2, <2>1, <2>2, <2>4, Zenon DEF CrashSafe, TypeOK
  <1>4. \A d \in Blocks : IoFits(d)' /\ DataSafe(d)' /\ Described(d)'
    <2>1. \A d \in Blocks \ {b, orig} : Same(d)
      BY <1>0, <1>1, Zenon DEF CrashSafe, TypeOK, Same
    <2>2. IoFits(b)'
      BY <1>0, StateClasses, SMTT(30) DEF CrashSafe, TypeOK, IoFits, Putting, Stable
    <2>3. DataSafe(b)' /\ Described(b)'
      BY <1>0, StateClasses, SMTT(30) DEF CrashSafe, TypeOK, DataSafe, Described, Valid, Stable
    <2>4. orig # None => IoFits(orig)'
      BY <1>0, StateClasses, SMTT(30) DEF CrashSafe, TypeOK, IoFits, Putting, Stable
    <2>5. orig # None => DataSafe(orig)' /\ Described(orig)'
      BY <1>0, StateClasses DEF CrashSafe, TypeOK, DataSafe, Described, Valid, Stable
    <2> QED BY <2>1, <2>2, <2>3, <2>4, <2>5, OthersKeep, CacheAssumption, Zenon DEF CacheAssumption
  <1>5. \A c \in Blocks : wi[c].orig # b /\ (orig # None => wi[c].orig # orig)
    <2>1. \A c \in Blocks : OriginalWaits(c)
      BY Zenon DEF CrashSafe
    <2> QED BY <1>0, <2>1, StateClasses, CacheAssumption
            DEF CacheAssumption, OriginalWaits, Stable
  <1>6. ASSUME NEW q \in Bios \ {r} PROVE ClaimFits(q)' /\ Claimed(q)' = Claimed(q)
    <2>1. bio'[q] = bio[q] /\ ClaimFits(q) /\ Claimed(q) \subseteq Blocks \ {b, orig}
      BY <1>0, <1>2, CacheAssumption
      DEF CacheAssumption, CrashSafe, TypeOK, ClaimFits, ClaimsDisjoint
    <2>2. Claimed(q)' = Claimed(q)
      BY <2>1, Zenon DEF Claimed
    <2>3. \A d \in Blocks \ {b, orig} : io'[d] = io[d] /\ bcb_state'[d] = bcb_state[d]
      BY Zenon DEF CrashSafe, TypeOK
    <2> QED BY <2>1, <2>2, <2>3 DEF ClaimFits, Claimed, InFlight
  <1>7. ClaimFits(r)' /\ Claimed(r)' = {}
    BY <1>2, Zenon DEF CrashSafe, ClaimFits, Claimed, InFlight
  <1>8. ClaimsDisjoint'
    BY <1>6, <1>7, Zenon DEF CrashSafe, ClaimsDisjoint
  <1>9. \A c \in Blocks : OriginalWaits(c)'
    BY <1>0, <1>1, <1>5 DEF CrashSafe, TypeOK, OriginalWaits
  <1>10. OriginalsDistinct'
    BY <1>1, <1>5 DEF CrashSafe, OriginalsDistinct
  <1>11. XidsOwn'
    BY <1>0, FreshXid, Zenon
  <1> QED BY <1>3, <1>4, <1>6, <1>7, <1>8, <1>9, <1>10, <1>11, Zenon DEF CrashSafe

(* Requests that own no block, and the cache mode.  *)
LEMMA MoveTypes ==
    ASSUME CrashSafe, NEW r \in Bios, NEW pc \in BioStates, NEW b \in Blocks \cup {None},
           NEW wb \in BOOLEAN
    PROVE  /\ [bio[r] EXCEPT !.pc = pc] \in Requests
           /\ [bio[r] EXCEPT !.pc = pc, !.blk = b] \in Requests
           /\ [bio[r] EXCEPT !.pc = pc, !.clone = b] \in Requests
           /\ [bio[r] EXCEPT !.pc = pc, !.blk = b, !.wb = wb] \in Requests
           /\ \A page \in Contents : [bio[r] EXCEPT !.pc = pc, !.result = page] \in Requests
  <1>1. bio[r] \in Requests
    BY Zenon DEF CrashSafe, TypeOK
  <1> QED BY <1>1, Zenon DEF Requests

(* Request r goes on to pc without a block.  *)
LEMMA OnlyPcKeeps ==
    ASSUME CrashSafe, NEW r \in Bios, InFlight(r),
           NEW pc \in BioStates \ {"hit", "cloned", "miss"},
           bio' = [bio EXCEPT ![r].pc = pc], bc' \in Counters, bc_xid' \in Nat,
           bc_xid' >= bc_xid, committed' \in [Sectors -> Contents],
           UNCHANGED <<block, lists, bc_cache_mode_writeback, wi, io, media, crashes>>
    PROVE  CrashSafe'
  <1>1. bio \in [Bios -> Requests] /\ [bio[r] EXCEPT !.pc = pc] \in Requests
    BY MoveTypes, Zenon DEF CrashSafe, TypeOK
  <1>2. bio' = [bio EXCEPT ![r] = [bio[r] EXCEPT !.pc = pc]]
    BY <1>1, Zenon
  <1>3. /\ bio' \in [Bios -> Requests] /\ bio'[r].pc = pc /\ bio'[r].sector = bio[r].sector
        /\ \A q \in Bios \ {r} : bio'[q] = bio[q]
    BY <1>1, <1>2 DEF Requests
  <1>4. TypeOK'
    BY <1>3, Zenon DEF CrashSafe, TypeOK, block, lists, media
  <1>5. Claimed(r)' = {} /\ (InFlight(r)' => bio'[r].sector \in Sectors)
    BY <1>3, Zenon DEF Claimed, InFlight, CrashSafe, ClaimFits
  <1> QED BY <1>3, <1>4, <1>5, RequestMovesKeeps, Zenon DEF media

============================================================================
