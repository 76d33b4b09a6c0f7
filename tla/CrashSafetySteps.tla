-------------------------- MODULE CrashSafetySteps --------------------------
(***************************************************************************)
(* The general part of the proof that CrashSafe is an invariant.           *)
(*                                                                         *)
(* CrashSafe speaks of single blocks and single requests.  A handler of    *)
(* the state machine is therefore reduced to a Local step: it changes one  *)
(* block that its work item owns (Busy), leaves the other blocks the Same, *)
(* and at most ends a request.  LocalKeeps does the global part once; the  *)
(* lemmas after it are the few forms that the handlers take: they wait for *)
(* a read, store data, write to the device, or update metadata.            *)
(***************************************************************************)
EXTENDS CrashSafety, TLAPS

(* The step leaves block d alone.  *)
Same(d) ==
    /\ bcb_state'[d] = bcb_state[d]
    /\ bcb_sector'[d] = bcb_sector[d]
    /\ bcb_xid'[d] = bcb_xid[d]
    /\ bcb_hash_data'[d] = bcb_hash_data[d]
    /\ d \in bcb_held' <=> d \in bcb_held
    /\ bcb_entry'[d] = bcb_entry[d]
    /\ wi'[d] = wi[d]
    /\ io'[d] = io[d]
    /\ pmem'[d] = pmem[d]
    /\ pmem_data'[d] = pmem_data[d]

(* No request and no clone waits for block b: its work item runs.  *)
Busy(b) ==
    /\ b \in bcb_held
    /\ \/ io[b] # "none"
       \/ bcb_state[b] \notin {"S_CLEAN", "S_DIRTY"} \cup NoData \cup InvalidateStart

(* The work item of block b, or the end of its work, moves b on.  *)
Local(b) ==
    /\ Busy(b)
    /\ \A d \in Blocks \ {b} : Same(d)
    /\ \A r \in Bios : bio'[r] = bio[r] \/ bio'[r].pc = "done"
    /\ wi'[b].orig \in {wi[b].orig, None}
    /\ bc_xid' = bc_xid
    /\ bcb_xid'[b] = bcb_xid[b]
    /\ pmem'[b].xid \in {pmem[b].xid, bcb_xid[b], 0}
    /\ IoFits(b)'
    /\ DataSafe(b)'
    /\ Described(b)'

(* What CrashSafe says of one block is kept by a step that leaves it       *)
(* alone.                                                                  *)
LEMMA SameKeeps ==
    ASSUME NEW d \in Blocks, Same(d), IoFits(d), DataSafe(d), Described(d)
    PROVE  IoFits(d)' /\ DataSafe(d)' /\ Described(d)'
  BY DEF Same, IoFits, DataSafe, Described, Valid

(* A step of the work item that owns a block keeps CrashSafe if it keeps   *)
(* what CrashSafe says of that block: no request and no clone waits for    *)
(* it.                                                                     *)
LEMMA LocalKeeps ==
    ASSUME CrashSafe, TypeOK', NEW b \in Blocks, Local(b)
    PROVE  CrashSafe'
  <1> USE DEF CrashSafe, Local
  <1>1. \A d \in Blocks : IoFits(d)' /\ DataSafe(d)' /\ Described(d)'
    BY SameKeeps, Zenon
  <1>2. \A r \in Bios : b \notin Claimed(r)
    BY Zenon DEF Busy, ClaimFits, Claimed
  <1>3. \A c \in Blocks : wi[c].orig # b
    BY CacheAssumption, Zenon DEF CacheAssumption, Busy, OriginalWaits
  <1>4. \A r \in Bios : Claimed(r)' \subseteq Claimed(r)
    BY Zenon DEF Claimed
  <1>5. ASSUME NEW r \in Bios PROVE ClaimFits(r)'
    <2>1. CASE bio'[r].pc = "done"
      BY <2>1, Zenon DEF ClaimFits, Claimed, InFlight
    <2>2. CASE bio'[r] = bio[r]
      BY <1>2, <2>2 DEF ClaimFits, Claimed, InFlight, Same, TypeOK
    <2> QED BY <2>1, <2>2, Zenon
  <1>6. ClaimsDisjoint'
    BY <1>4, Zenon DEF ClaimsDisjoint
  <1>7. \A c \in Blocks : OriginalWaits(c)'
    BY <1>3, CacheAssumption, SMTT(30) DEF CacheAssumption, OriginalWaits, Same, TypeOK
  <1>8. OriginalsDistinct'
    BY CacheAssumption DEF CacheAssumption, OriginalsDistinct, Same
  <1>9. XidsOwn'
    <2>1. \A d \in Blocks : /\ bcb_xid'[d] = bcb_xid[d]
                            /\ pmem'[d].xid \in {pmem[d].xid, bcb_xid[d], 0}
      BY Zenon DEF Same
    <2>2. \A d \in Blocks : bcb_xid[d] \in Nat /\ pmem[d].xid \in Nat
      BY Zenon DEF TypeOK, MetadataBlocks
    <2>0. XidsOwn /\ bc_xid' = bc_xid /\ bc_xid \in Nat
      BY Zenon DEF TypeOK
    <2> HIDE DEF CrashSafe, Local
    <2>3. \A d \in Blocks : bcb_xid'[d] <= bc_xid' /\ pmem'[d].xid <= bc_xid'
      BY <2>0, <2>1, <2>2 DEF XidsOwn
    <2>4. ASSUME NEW d \in Blocks, NEW e \in Blocks, d # e
          PROVE  /\ bcb_xid'[d] = bcb_xid'[e] => bcb_xid'[d] = 0
                 /\ bcb_xid'[d] = pmem'[e].xid => bcb_xid'[d] = 0
                 /\ pmem'[d].xid = pmem'[e].xid => pmem'[d].xid = 0
      BY <2>0, <2>1, <2>4 DEF XidsOwn
    <2> QED BY <2>3, <2>4, Zenon DEF XidsOwn
  <1> QED BY <1>1, <1>5, <1>6, <1>7, <1>8, <1>9, Zenon

(* The classes of states do not overlap.  *)
LEMMA StateClasses ==
    /\ Filling \subseteq (cache_state \cap Incoming) \
           (Stable \cup NoData \cup Storing \cup Revoking \cup Updating
                \cup InvalidateStart \cup {"S_CLEAN_VERIFY"})
    /\ Storing \subseteq (cache_state \cap Incoming) \
           (Stable \cup NoData \cup Revoking \cup Updating
                \cup InvalidateStart \cup {"S_CLEAN_VERIFY"})
    /\ Using \subseteq cache_state \
           (Stable \cup Incoming \cup Revoking \cup Updating
                \cup InvalidateStart \cup {"S_CLEAN_VERIFY"})
    /\ Updating \subseteq cache_state \
           (Stable \cup Incoming \cup Revoking
                \cup InvalidateStart \cup {"S_CLEAN_VERIFY"})
    /\ Revoking \subseteq cache_state \
           (Stable \cup Incoming \cup InvalidateStart \cup {"S_CLEAN_VERIFY"})
    /\ NoData \subseteq (cache_state \cap Incoming) \
           (Stable \cup Storing \cup InvalidateStart \cup {"S_CLEAN_VERIFY"})
    /\ InvalidateStart \subseteq cache_state \ (Stable \cup Incoming \cup {"S_CLEAN_VERIFY"})
    /\ Stable \subseteq cache_state \ (Incoming \cup {"S_CLEAN_VERIFY"})
    /\ "S_CLEAN_VERIFY" \in cache_state \ Incoming
  <1> USE DEF Stable, NoData, CleanFilling, DirtyFilling, CleanStoring, DirtyStoring,
              CleanReading, DirtyReading, InvalidateStart, InvalidateEnd,
              WritebackClean, WritebackInv, Writeback, CleanStates, DirtyStates, cache_state,
              Filling, Storing, Incoming, Updating, Using, Revoking
  <1> QED OBVIOUS

(* The work item of b goes on to the next state, within the path.  *)
GoesOn(b, s, what) ==
    /\ To(b, s)
    /\ Await(b, what)
    /\ \A d \in Blocks \ {b} : wi'[d] = wi[d] /\ bcb_hash_data'[d] = bcb_hash_data[d]
                               /\ pmem_data'[d] = pmem_data[d]
    /\ wi'[b].orig = wi[b].orig
    /\ UNCHANGED <<sm_block_rest, bc, bio, pmem, dev, committed>>

(* The states between two stable ones in which data is described.  *)
Between == Filling \cup Storing \cup Using \cup Updating \cup Revoking \cup InvalidateStart

(* A handler that moves its block on to a state between two stable ones    *)
(* keeps CrashSafe if that state fits the I/O it starts.                   *)
LEMMA GoesOnKeeps ==
    ASSUME CrashSafe, NEW b \in Blocks, NEW s \in Between, NEW what \in IoStates,
           bcb_state[b] \in Between, bcb_state[b] \in InvalidateStart => io[b] # "none",
           GoesOn(b, s, what),
           wi' \in [Blocks -> WorkItems], bcb_hash_data' \in [Blocks -> Contents],
           pmem_data' \in [Blocks -> Contents \cup {Torn}],
           IoFits(b)', DataSafe(b)'
    PROVE  CrashSafe'
  <1>0. TypeOK /\ IoFits(b) /\ DataSafe(b) /\ Described(b)
    BY Zenon DEF CrashSafe
  <1> USE DEF GoesOn, To, Await, sm_block_rest, lists
  <1>1. TypeOK'
    BY <1>0, StateClasses, Zenon DEF TypeOK, Between
  <1>2. Busy(b)
    BY <1>0, StateClasses DEF IoFits, Busy, Between, Stable
  <1>3. \A d \in Blocks \ {b} : Same(d)
    BY <1>0, Zenon DEF TypeOK, Same
  <1>4. Described(b)'
    BY <1>0, StateClasses DEF TypeOK, Described, Between, Stable, Valid
  <1>5. Local(b)
    BY <1>2, <1>3, <1>4, Zenon DEF Local
  <1> QED BY <1>1, <1>5, LocalKeeps, Zenon

(* A handler that starts a read of persistent memory or of the device      *)
(* (pmem_data_get_page_read, cached_dev_make_request).                     *)
LEMMA WaitsKeeps ==
    ASSUME CrashSafe, NEW b \in Blocks, NEW s, NEW what \in {"pmem_read", "dev_read"},
           \/ bcb_state[b] \in Filling /\ s \in Filling
           \/ bcb_state[b] \in Using /\ s \in Using,
           To(b, s), Await(b, what),
           UNCHANGED <<sm_block_rest, bcb_hash_data, bc, wi, bio, media, committed>>
    PROVE  CrashSafe'
  <1>0. TypeOK /\ IoFits(b) /\ DataSafe(b) /\ Described(b)
    BY Zenon DEF CrashSafe
  <1>1. GoesOn(b, s, what)
    BY Zenon DEF GoesOn, media
  <1>2. IoFits(b)'
    BY <1>0, StateClasses, SMTT(30) DEF TypeOK, IoFits, To, Await, sm_block_rest, lists, Putting, Stable
  <1>3. DataSafe(b)'
    BY <1>0, StateClasses DEF TypeOK, IoFits, DataSafe, To, Await, media, Stable, Valid
  <1>4. s \in Between /\ bcb_state[b] \in Between
    BY StateClasses, Zenon DEF Between
  <1>5. bcb_state[b] \notin InvalidateStart
    BY StateClasses, Zenon
  <1>6. /\ wi' \in [Blocks -> WorkItems]
        /\ bcb_hash_data' \in [Blocks -> Contents]
        /\ pmem_data' \in [Blocks -> Contents \cup {Torn}]
        /\ what \in IoStates
    BY <1>0, Zenon DEF TypeOK, IoStates, media
  <1> QED BY <1>1, <1>2, <1>3, <1>4, <1>5, <1>6, GoesOnKeeps, Zenon

(* A handler that starts to write data to persistent memory                *)
(* (pmem_data_put_page_write), on a block no valid metadata describes.     *)
LEMMA StoresKeeps ==
    ASSUME CrashSafe, NEW b \in Blocks, NEW s \in Storing, NEW page \in Contents,
           NEW status \in {"S_CLEAN", "S_DIRTY"},
           bcb_state[b] \in Filling,
           To(b, s), put_page_write(b, page, status),
           bcb_hash_data' = [bcb_hash_data EXCEPT ![b] = page],
           UNCHANGED <<sm_block_rest, bc, bio, pmem, dev, committed>>
    PROVE  CrashSafe'
  <1>0. TypeOK /\ IoFits(b) /\ DataSafe(b) /\ Described(b)
    BY Zenon DEF CrashSafe
  <1> USE DEF put_page_write
  <1>1. /\ wi' \in [Blocks -> WorkItems]
        /\ wi'[b].page = page /\ wi'[b].target = status /\ wi'[b].orig = wi[b].orig
        /\ \A d \in Blocks \ {b} : wi'[d] = wi[d]
    <2>1. wi \in [Blocks -> WorkItems]
      BY <1>0, Zenon DEF TypeOK
    <2>2. [wi[b] EXCEPT !.page = page, !.target = status] \in WorkItems
      BY <2>1, Zenon DEF WorkItems, Stable
    <2>3. wi' = [wi EXCEPT ![b] = [wi[b] EXCEPT !.page = page, !.target = status]]
      BY <2>1, Zenon
    <2> QED BY <2>1, <2>2, <2>3 DEF WorkItems
  <1>2. GoesOn(b, s, "data_write")
    BY <1>0, <1>1, Zenon DEF GoesOn, TypeOK
  <1>3. IoFits(b)'
    BY <1>0, <1>1, StateClasses DEF TypeOK, IoFits, To, Await, sm_block_rest, lists, Putting, Stable
  <1>4. DataSafe(b)'
    BY <1>0, StateClasses DEF TypeOK, IoFits, DataSafe, To, Await, Stable, Valid
  <1>5. s \in Between /\ bcb_state[b] \in Between
    BY StateClasses, Zenon DEF Between
  <1> QED
    BY <1>0, <1>1, <1>2, <1>3, <1>4, <1>5, StateClasses, GoesOnKeeps, Zenon DEF TypeOK, IoStates

(* A handler that starts to write a page to the cached device.  *)
LEMMA ToDeviceKeeps ==
    ASSUME CrashSafe, NEW b \in Blocks, NEW s, NEW page \in Contents,
           \/ /\ bcb_state[b] \in Filling /\ s \in Filling
              /\ bcb_hash_data' = [bcb_hash_data EXCEPT ![b] = page]
           \/ /\ bcb_state[b] \in Using /\ s \in Using
              /\ UNCHANGED bcb_hash_data,
           To(b, s), Await(b, "dev_write"), wi' = [wi EXCEPT ![b].page = page],
           UNCHANGED <<sm_block_rest, bc, bio, media, committed>>
    PROVE  CrashSafe'
  <1>0. TypeOK /\ IoFits(b) /\ DataSafe(b) /\ Described(b)
    BY Zenon DEF CrashSafe
  <1>1. /\ wi' \in [Blocks -> WorkItems]
        /\ wi'[b].page = page /\ wi'[b].orig = wi[b].orig
        /\ \A d \in Blocks \ {b} : wi'[d] = wi[d]
    <2>1. wi \in [Blocks -> WorkItems]
      BY <1>0, Zenon DEF TypeOK
    <2>2. [wi[b] EXCEPT !.page = page] \in WorkItems
      BY <2>1, Zenon DEF WorkItems
    <2> QED BY <2>1, <2>2, Zenon DEF WorkItems
  <1>2. GoesOn(b, s, "dev_write")
    BY <1>0, <1>1, Zenon DEF GoesOn, TypeOK, media
  <1>3. IoFits(b)'
    BY <1>0, <1>1, StateClasses DEF TypeOK, IoFits, To, Await, sm_block_rest, lists, Putting, Stable
  <1>4. DataSafe(b)'
    BY <1>0, StateClasses DEF TypeOK, IoFits, DataSafe, To, Await, media, Stable, Valid
  <1>5. s \in Between /\ bcb_state[b] \in Between \ InvalidateStart
    BY StateClasses, Zenon DEF Between
  <1>6. /\ bcb_hash_data' \in [Blocks -> Contents]
        /\ pmem_data' \in [Blocks -> Contents \cup {Torn}]
    BY <1>0, SMTT(30) DEF TypeOK, media
  <1> QED
    BY <1>1, <1>2, <1>3, <1>4, <1>5, <1>6, GoesOnKeeps, Zenon DEF IoStates

(* A handler that starts a write of metadata alone                         *)
(* (pmem_metadata_async_write).                                            *)
LEMMA UpdatesKeeps ==
    ASSUME CrashSafe, NEW b \in Blocks, NEW s, NEW status,
           bcb_state[b] \in Using \cup InvalidateStart, io[b] # "none",
           \/ s \in Updating /\ status = "S_CLEAN"
           \/ s \in Revoking /\ status = "S_INVALID",
           To(b, s), metadata_async_write(b, status),
           UNCHANGED <<sm_block_rest, bcb_hash_data, bc, bio, media, committed>>
    PROVE  CrashSafe'
  <1>0. TypeOK /\ IoFits(b) /\ DataSafe(b) /\ Described(b)
    BY Zenon DEF CrashSafe
  <1> USE DEF metadata_async_write
  <1>1. /\ wi' \in [Blocks -> WorkItems]
        /\ wi'[b].target = status /\ wi'[b].orig = wi[b].orig
        /\ \A d \in Blocks \ {b} : wi'[d] = wi[d]
    BY <1>0 DEF TypeOK, WorkItems, Stable
  <1>2. GoesOn(b, s, "meta_write")
    BY <1>0, <1>1, Zenon DEF GoesOn, TypeOK, media
  <1>3. IoFits(b)'
    BY <1>0, <1>1, StateClasses DEF TypeOK, IoFits, To, Await, sm_block_rest, lists, Putting, Stable
  <1>4. DataSafe(b)'
    BY <1>0, StateClasses DEF TypeOK, IoFits, DataSafe, To, Await, media, Stable, Valid
  <1>5. s \in Between /\ bcb_state[b] \in Between
    BY StateClasses, Zenon DEF Between
  <1> QED
    BY <1>0, <1>1, <1>2, <1>3, <1>4, <1>5, StateClasses, GoesOnKeeps, Zenon DEF TypeOK, IoStates, media

(* A block without a work item, and a page nothing was written to.  *)
LEMMA NoWiType == NoWi \in WorkItems /\ NoWi.orig = None /\ Blank \in Contents
  BY Zenon DEF NoWi, WorkItems, Blank, Contents, Tags, Stable

(* What holds of a block goes on holding of the blocks a step leaves alone. *)
LEMMA OthersKeep ==
    ASSUME CrashSafe,
           \A d \in Blocks : Same(d) \/ (IoFits(d)' /\ DataSafe(d)' /\ Described(d)')
    PROVE  \A d \in Blocks : IoFits(d)' /\ DataSafe(d)' /\ Described(d)'
  BY SameKeeps, Zenon DEF CrashSafe

(* A new transaction id is nobody else's.  *)
LEMMA FreshXid ==
    ASSUME CrashSafe, NEW b \in Blocks, bc_xid' = bc_xid + 1,
           bcb_xid' = [bcb_xid EXCEPT ![b] = bc_xid + 1], UNCHANGED pmem
    PROVE  XidsOwn'
  <1>1. /\ XidsOwn /\ bc_xid \in Nat
        /\ \A d \in Blocks : bcb_xid[d] \in Nat /\ pmem[d].xid \in Nat
    BY Zenon DEF CrashSafe, TypeOK, MetadataBlocks
  <1>2. \A d \in Blocks : bcb_xid'[d] = IF d = b THEN bc_xid + 1 ELSE bcb_xid[d]
    BY Zenon DEF CrashSafe, TypeOK
  <1>3. \A d \in Blocks : bcb_xid'[d] <= bc_xid' /\ pmem'[d].xid <= bc_xid'
    BY <1>1, <1>2 DEF XidsOwn
  <1>4. ASSUME NEW d \in Blocks, NEW e \in Blocks, d # e
        PROVE  /\ bcb_xid'[d] = bcb_xid'[e] => bcb_xid'[d] = 0
               /\ bcb_xid'[d] = pmem'[e].xid => bcb_xid'[d] = 0
               /\ pmem'[d].xid = pmem'[e].xid => pmem'[d].xid = 0
    <2>1. /\ bcb_xid[d] <= bc_xid /\ bcb_xid[e] <= bc_xid /\ pmem[e].xid <= bc_xid
          /\ bcb_xid[d] = bcb_xid[e] => bcb_xid[d] = 0
          /\ bcb_xid[d] = pmem[e].xid => bcb_xid[d] = 0
          /\ pmem[d].xid = pmem[e].xid => pmem[d].xid = 0
      BY <1>1, <1>4, Zenon DEF XidsOwn
    <2> QED BY <1>1, <1>2, <1>4, <2>1
  <1> QED BY <1>3, <1>4, Zenon DEF XidsOwn

(* A request or a thread takes an idle block.  *)
LEMMA TakeKeeps ==
    ASSUME CrashSafe, TypeOK', NEW b \in Blocks, NEW r,
           b \notin bcb_held, bcb_held' = bcb_held \cup {b},
           \A d \in Blocks \ {b} : Same(d),
           wi'[b].orig \in {wi[b].orig, None},
           UNCHANGED <<bcb_xid, bc_xid, pmem>>,
           IoFits(b)', DataSafe(b)', Described(b)',
           \A q \in Bios \ {r} : bio'[q] = bio[q],
           r \in Bios => ClaimFits(r)' /\ Claimed(r)' \subseteq Claimed(r) \cup {b}
    PROVE  CrashSafe'
  <1>0. /\ \A c \in Blocks : OriginalWaits(c) /\ wi[c] \in WorkItems
        /\ \A q \in Bios : ClaimFits(q)
        /\ ClaimsDisjoint /\ OriginalsDistinct /\ XidsOwn
    BY Zenon DEF CrashSafe, TypeOK
  <1>1. \A d \in Blocks : IoFits(d)' /\ DataSafe(d)' /\ Described(d)'
    BY OthersKeep, Zenon
  <1>2. \A q \in Bios : b \notin Claimed(q)
    BY <1>0, Zenon DEF ClaimFits
  <1>3. \A c \in Blocks : wi[c].orig # b
    BY <1>0, CacheAssumption, Zenon DEF CacheAssumption, OriginalWaits
  <1>4. ASSUME NEW q \in Bios \ {r} PROVE ClaimFits(q)' /\ Claimed(q)' = Claimed(q)
    <2>1. bio'[q] = bio[q] /\ ClaimFits(q) /\ b \notin Claimed(q)
      BY <1>0, <1>2, Zenon
    <2>2. Claimed(q)' = Claimed(q)
      BY <2>1, Zenon DEF Claimed
    <2>3. \A d \in bcb_held : /\ d # b /\ d \in bcb_held'
                              /\ bcb_state'[d] = bcb_state[d] /\ io'[d] = io[d]
      <3>1. bcb_held \subseteq Blocks
        BY Zenon DEF CrashSafe, TypeOK
      <3> QED BY <3>1, Zenon DEF Same
    <2> QED BY <2>1, <2>2, <2>3 DEF ClaimFits, Claimed, InFlight
  <1>5. ClaimsDisjoint'
    <2>1. \A q \in Bios : q # r => Claimed(q)' = Claimed(q)
      BY <1>4, Zenon
    <2>2. r \in Bios => Claimed(r)' \subseteq Claimed(r) \cup {b}
      BY Zenon
    <2> QED BY <1>0, <1>2, <2>1, <2>2 DEF ClaimsDisjoint
  <1>6. \A c \in Blocks : OriginalWaits(c)'
    <2>1. \A c \in Blocks : wi'[c].orig \in {wi[c].orig, None}
      BY Zenon DEF Same
    <2>2. \A c \in Blocks : wi[c].orig \in Blocks \cup {None}
      BY <1>0, Zenon DEF WorkItems
    <2> QED BY <1>0, <1>3, <2>1, <2>2 DEF OriginalWaits, Same
  <1>7. OriginalsDistinct'
    <2>1. \A c \in Blocks : wi'[c].orig \in {wi[c].orig, None}
      BY Zenon DEF Same
    <2> QED BY <1>0, <2>1, Zenon DEF OriginalsDistinct
  <1>8. XidsOwn'
    BY <1>0, Zenon DEF XidsOwn
  <1> QED BY <1>1, <1>4, <1>5, <1>6, <1>7, <1>8, Zenon DEF CrashSafe

============================================================================
