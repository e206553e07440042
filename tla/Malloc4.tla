------------------------------ MODULE Malloc4 ------------------------------
(***************************************************************************)
(* The heap allocator of hw4/wet_4/malloc_4.cpp: smalloc, scalloc, sfree   *)
(* and srealloc over an sbrk arena (a size/address ordered free list with  *)
(* best fit, splitting, coalescing and wilderness growth) and mmap regions *)
(* for large requests.                                                     *)
(*                                                                         *)
(* Memory is modelled as what the code writes into it: hdr[a] is the       *)
(* head_metadata_t last written at address a, tl[t] the tail_metadata_t    *)
(* last written at t.  Stale metadata of absorbed blocks stays in memory,  *)
(* exactly as in the process, and any write that overlaps a record turns   *)
(* it into Garbage.  Every public call is one atomic step (the allocator   *)
(* is single threaded); inside a step the C functions are operators that   *)
(* thread a state record S and return [st |-> S', ret |-> value].          *)
(***************************************************************************)
EXTENDS Integers, FiniteSets, Sequences, FiniteSetsExt

CONSTANTS
  ALIGN,            \* the 8 of _8_bit_align
  HDR,              \* sizeof(head_metadata_t)
  TL,               \* sizeof(tail_metadata_t)
  REDUNDANT_PAYLOAD,\* the 128 of REDUNDANT_SIZE
  SBRK_PAYLOAD,     \* the 128 KB of SBRK_LIMIT
  HUGE_PAGE_LIMIT,  \* 4 MB
  SCALLOC_HUGE_PAGE_LIMIT, \* 2 MB
  SIZE_LIMIT,       \* 1e8
  SIZE_T_BITS,      \* width of size_t
  InitBreaks,       \* possible values of the OS break when the program starts
  MaxBrk,           \* the OS refuses to move the break beyond this address
  MapSlots,         \* addresses mmap may return
  COOKIE,           \* the value rand() gives global_rand_cookie
  Sizes,            \* payload sizes the client passes to smalloc
  ReallocSizes,     \* payload sizes the client passes to srealloc
  CallocArgs,       \* <<num, size>> pairs the client passes to scalloc
  MmapMayFail,      \* whether mmap may refuse a request
  ClientDoubleFrees,\* whether the client calls sfree on a freed pointer
  ClientWrites      \* whether the client's writes into its payloads are explored

META == HDR + TL                              \* _size_meta_data()
REDUNDANT_SIZE == REDUNDANT_PAYLOAD + META
SBRK_LIMIT == SBRK_PAYLOAD + META
SIZE_T == 2 ^ SIZE_T_BITS
NULL == 0
FAIL == -1                                    \* (void*)(-1)
REGULAR_PAGE == 0
HUGE_PAGE == 1
Addr == 0 .. MaxBrk

ASSUME /\ META % ALIGN = 0 /\ HDR % ALIGN = 0
       /\ InitBreaks \subseteq 1 .. MaxBrk
       /\ \A s \in MapSlots : s > MaxBrk
       /\ COOKIE # 0

NoMeta == [kind |-> "none"]
Garbage == [kind |-> "garbage"]
MkHead(size, free, next, prev) ==
  [kind |-> "hdr", size |-> size, is_free |-> free, next |-> next, prev |-> prev]
MkTail(cookie, size) == [kind |-> "tail", cookie |-> cookie, size |-> size]

VARIABLES
  hdr,      \* address -> head_metadata_t written there (arena and mappings)
  tl,       \* address -> tail_metadata_t written there (arena)
  pb,       \* the static program_break of _sbrk
  os,       \* the break the OS holds
  head,     \* sbrk_head
  fhead,    \* sbrk_free_head
  cookie,   \* global_rand_cookie
  fbn, fby, abn, aby, \* free_blocks_num, free_bytes_num, allocated_blocks_num, allocated_bytes_num
  status,   \* "ok", or how the process ended: "exited", "undefined", "segfault", "hang"
  owned,    \* pointer -> payload size the client asked for, for pointers it holds
  freed,    \* pointers the client has passed to sfree and not got back since
            \* (kept only when the client double frees)
  handed    \* the number of pointers the client was handed and did not free

alloc == <<hdr, tl, pb, os, head, fhead, cookie, fbn, fby, abn, aby, status>>
vars == <<alloc, owned, freed, handed>>

(* The allocator's state as one record, and writing one back. *)
Cur == [hdr |-> hdr, tl |-> tl, pb |-> pb, os |-> os, head |-> head,
        fhead |-> fhead, cookie |-> cookie, fbn |-> fbn, fby |-> fby,
        abn |-> abn, aby |-> aby, status |-> status]
Store(S) ==
  /\ hdr' = S.hdr /\ tl' = S.tl /\ pb' = S.pb /\ os' = S.os
  /\ head' = S.head /\ fhead' = S.fhead /\ cookie' = S.cookie
  /\ fbn' = S.fbn /\ fby' = S.fby /\ abn' = S.abn /\ aby' = S.aby
  /\ status' = S.status

R(S, v) == [st |-> S, ret |-> v]
Die(S, why) == IF S.status = "ok" THEN [S EXCEPT !.status = why] ELSE S

(***************************************************************************)
(* Memory.                                                                 *)
(***************************************************************************)
Overlaps(a, n, lo, hi) == a < hi /\ lo < a + n

(* A write of the n bytes at lo turns every other record it touches into   *)
(* Garbage.                                                                *)
Clobber(S, lo, n) ==
  [S EXCEPT
     !.hdr = [a \in DOMAIN @ |->
                IF @[a] # NoMeta /\ Overlaps(a, HDR, lo, lo + n) THEN Garbage ELSE @[a]],
     !.tl  = [t \in DOMAIN @ |->
                IF @[t] # NoMeta /\ Overlaps(t, TL, lo, lo + n) THEN Garbage ELSE @[t]]]

H(S, b) == IF b \in DOMAIN S.hdr THEN S.hdr[b] ELSE NoMeta
IsHead(S, b) == H(S, b).kind = "hdr"
SizeOf(S, b) == IF IsHead(S, b) THEN H(S, b).size ELSE 0
IsFree(S, b) == IsHead(S, b) /\ H(S, b).is_free
NextOf(S, b) == IF IsHead(S, b) THEN H(S, b).next ELSE NULL
PrevOf(S, b) == IF IsHead(S, b) THEN H(S, b).prev ELSE NULL

WriteHead(S, b, h) ==
  IF S.status # "ok" THEN S
  ELSE IF b \in MapSlots THEN [S EXCEPT !.hdr[b] = h]
  ELSE [Clobber(S, b, HDR) EXCEPT !.hdr[b] = h]

(* block->f = v on a header that is not there is undefined behaviour. *)
SetField(S, b, f, v) ==
  CASE S.status # "ok" -> S
    [] IsHead(S, b) -> [S EXCEPT !.hdr[b][f] = v]
    [] OTHER -> Die(S, "undefined")

TAIL_METADATA(S, b) == b + SizeOf(S, b) - TL
IS_REDUNDANT(S, b, bs) == (SizeOf(S, b) - bs) % SIZE_T >= REDUNDANT_SIZE
IS_SBRK_ALLOC(S, b) == SizeOf(S, b) < SBRK_LIMIT

(* _8_bit_align *)
Align8(size) == IF size % ALIGN # 0 THEN ((size \div ALIGN) * ALIGN + ALIGN) % SIZE_T
                ELSE size

(* _set_tail: the cookie is drawn on first use; mapped blocks keep their   *)
(* tail inside the mapping, which nothing else writes.                     *)
DrawCookie(S) == IF S.cookie = 0 THEN [S EXCEPT !.cookie = COOKIE] ELSE S
WriteTail(S, b, t, size) ==
  IF S.status # "ok" \/ b \in MapSlots THEN S
  ELSE [Clobber(S, t, TL) EXCEPT !.tl[t] = MkTail(S.cookie, size)]
SetTail(S, b) == WriteTail(DrawCookie(S), b, TAIL_METADATA(S, b), SizeOf(S, b))

(* _check_cookie: exit(0xdeadbeef) on a mismatch; reading a header or a    *)
(* tail that is not there is undefined behaviour.                          *)
CheckCookie(S, b) ==
  CASE S.status # "ok" -> S
    [] b \in MapSlots /\ ~IsHead(S, b) -> Die(S, "segfault")
    [] b \in MapSlots -> S
    [] ~IsHead(S, b) -> Die(S, "undefined")
    [] TAIL_METADATA(S, b) \notin DOMAIN S.tl -> Die(S, "undefined")
    [] S.tl[TAIL_METADATA(S, b)].kind # "tail" -> Die(S, "undefined")
    [] S.cookie # 0 /\ S.cookie # S.tl[TAIL_METADATA(S, b)].cookie -> Die(S, "exited")
    [] OTHER -> S

(***************************************************************************)
(* _sbrk(delta): the OS call sbrk fails when the break would pass MaxBrk.  *)
(* Operators whose result is used more than once pass it on as an argument *)
(* of the next operator (SbrkGrown, AlignedTo, ...).                       *)
(***************************************************************************)
OsSbrk(S, inc) ==
  IF S.os + inc > MaxBrk THEN R(S, FAIL) ELSE R([S EXCEPT !.os = @ + inc], S.os)

AlignedTo(r) == [r.st EXCEPT !.pb = r.st.os]
AlignBreak(S) ==
  IF S.pb % ALIGN # 0 THEN AlignedTo(OsSbrk(S, ALIGN - (S.pb % ALIGN))) ELSE S

SbrkGrown(r, newpb, old) ==
  IF r.ret = FAIL THEN R(r.st, FAIL) ELSE R([r.st EXCEPT !.pb = newpb], old)
SbrkFrom(S, delta) ==
  CASE delta = 0 -> R(S, S.pb)
    [] S.pb + delta > S.os -> SbrkGrown(OsSbrk(S, S.pb + delta - S.os), S.pb + delta, S.pb)
    [] OTHER -> R([S EXCEPT !.pb = S.pb + delta], S.pb)
Sbrk(S0, delta) == SbrkFrom(AlignBreak(S0), delta)

(***************************************************************************)
(* Blocks and the free list.                                               *)
(***************************************************************************)
Fuel == MaxBrk \div ALIGN + 1  \* headers sit at aligned addresses: no acyclic list is longer
SetLinks(S, b, prev, next) == SetField(SetField(S, b, "prev", prev), b, "next", next)

(* Mutant: the order without the address tie-break, equal sizes first. *)
BeforeNoTie(S, b, c) == SizeOf(S, b) <= SizeOf(S, c)

(* The free-list order: by size, ties by address. *)
Before(S, b, c) ==
  \/ SizeOf(S, b) < SizeOf(S, c)
  \/ SizeOf(S, b) = SizeOf(S, c) /\ b < c

(* Mutant: the new block gets no footer (the _set_tail call is missing). *)
InitAllocAfterNoTail(r, b, bs) ==
  IF r.ret = FAIL THEN R(r.st, NULL)
  ELSE R(WriteHead(r.st, b, MkHead(bs, FALSE, NULL, NULL)), b)

(* _init_sbrk_alloc_block, once the break has moved (r is what sbrk gave). *)
InitAllocAfter(r, b, bs) ==
  IF r.ret = FAIL THEN R(r.st, NULL)
  ELSE R(SetTail(WriteHead(r.st, b, MkHead(bs, FALSE, NULL, NULL)), b), b)

InitSbrkAllocBlock(S, b, bs, grow) ==
  InitAllocAfter(IF grow THEN Sbrk(S, bs) ELSE R(S, b), b, bs)

(* Mutant: the grown wilderness keeps its old footer. *)
WildernessAfterNoTail(r, w, bs) ==
  IF r.ret = FAIL THEN R(r.st, NULL) ELSE R(SetField(r.st, w, "size", bs), w)

(* _wilderness_sbrk_block_increase, once sbrk has answered. *)
WildernessAfter(r, w, bs) ==
  IF r.ret = FAIL THEN R(r.st, NULL) ELSE R(SetTail(SetField(r.st, w, "size", bs), w), w)

WildernessIncrease(S, w, bs) == WildernessAfter(Sbrk(S, bs - SizeOf(S, w)), w, bs)

(* The loop of _find_sbrk_free_block: the smallest block that fits (the    *)
(* first of equal ones) and the block that ends at the break.              *)
RECURSIVE FindScan(_, _, _, _, _, _, _), FindStep(_, _, _, _, _, _, _)
FindScan(S, cur, bs, brk, min, wild, fuel) ==
  CASE cur = NULL \/ S.status # "ok" -> [st |-> S, min |-> min, wild |-> wild]
    [] fuel = 0 -> [st |-> Die(S, "hang"), min |-> min, wild |-> wild]
    [] OTHER -> FindStep(CheckCookie(S, cur), cur, bs, brk, min, wild, fuel)
FindStep(S1, cur, bs, brk, min, wild, fuel) ==
  LET sz == SizeOf(S1, cur)
  IN FindScan(S1, NextOf(S1, cur), bs, brk,
              IF sz >= bs /\ (min = NULL \/ SizeOf(S1, min) > sz) THEN cur ELSE min,
              IF cur + sz = brk THEN cur ELSE wild, fuel - 1)

(* _find_sbrk_free_block: the wilderness case charges the counters before  *)
(* it grows the block.                                                     *)
ChargeWild(S, w, bs) ==
  [S EXCEPT !.fby = @ + (bs - SizeOf(S, w)), !.aby = @ + (bs - SizeOf(S, w))]
FindChoose(sc, bs) ==
  CASE sc.st.status # "ok" -> R(sc.st, NULL)
    [] sc.min # NULL -> R(sc.st, sc.min)
    [] sc.wild # NULL -> WildernessIncrease(ChargeWild(sc.st, sc.wild, bs), sc.wild, bs)
    [] OTHER -> R(sc.st, NULL)
FindFrom(r0, fh, bs) == FindChoose(FindScan(r0.st, fh, bs, r0.ret, NULL, NULL, Fuel), bs)
FindSbrkFreeBlock(S, bs) ==
  IF S.fhead = NULL THEN R(S, NULL) ELSE FindFrom(Sbrk(S, 0), S.fhead, bs)

(* The loop of _add_sbrk_free_block, from current = cur; S1 is the state  *)
(* after the cookie of current->next is checked.                           *)
RECURSIVE InsertAfter(_, _, _, _), InsertStep(_, _, _, _, _, _)
InsertAfter(S, b, cur, fuel) ==
  CASE S.status # "ok" -> S
    [] fuel = 0 -> Die(S, "hang")
    [] OTHER -> InsertStep(S, CheckCookie(S, NextOf(S, cur)), b, cur, NextOf(S, cur), fuel)
InsertStep(S, S1, b, cur, nxt, fuel) ==
  CASE nxt = NULL -> SetField(SetLinks(S, b, cur, NULL), cur, "next", b)
    [] S1.status # "ok" -> S1
    [] Before(S1, b, nxt) ->
         SetField(SetField(SetLinks(S1, b, cur, nxt), nxt, "prev", b), cur, "next", b)
    [] OTHER -> InsertAfter(S1, b, nxt, fuel - 1)

(* _add_sbrk_free_block *)
PushFront(S, old, b) ==
  LET S1 == SetField([S EXCEPT !.fhead = b], b, "next", old)
  IN IF old # NULL THEN SetField(S1, old, "prev", b) ELSE S1
AddMarked(S, b) ==
  IF S.fhead = NULL \/ Before(S, b, S.fhead) THEN PushFront(S, S.fhead, b)
  ELSE InsertAfter(CheckCookie(S, S.fhead), b, S.fhead, Fuel)
AddSbrkFreeBlock(S0, b) == AddMarked(SetField(SetField(S0, b, "is_free", TRUE), b, "prev", NULL), b)

(* _remove_sbrk_free_block: unlinking the head leaves the new head's prev  *)
(* pointing at the removed block.                                          *)
LinkPrev(S1, p, n) == IF n # NULL THEN SetField(CheckCookie(S1, n), n, "prev", p) ELSE S1
Splice(S, p, n) ==
  LinkPrev(IF p # NULL THEN SetField(CheckCookie(S, p), p, "next", n) ELSE S, p, n)
RemoveMarked(S, b) ==
  IF S.fhead = b THEN SetLinks([S EXCEPT !.fhead = NextOf(S, b)], b, NULL, NULL)
  ELSE SetLinks(Splice(S, PrevOf(S, b), NextOf(S, b)), b, NULL, NULL)
RemoveSbrkFreeBlock(S0, b) == RemoveMarked(SetField(S0, b, "is_free", FALSE), b)

(* _init_sbrk_free_block *)
InitSbrkFreeBlock(S, b, bs) ==
  AddSbrkFreeBlock(SetTail(WriteHead(S, b, MkHead(bs, FALSE, NULL, NULL)), b), b)

(* Mutant: absorbing a neighbour leaves free_blocks_num as it was. *)
AbsorbNoCount(S, x) ==
  RemoveSbrkFreeBlock([S EXCEPT !.abn = @ - 1,
                                !.fby = @ - (SizeOf(S, x) - META), !.aby = @ + META], x)

(* The counter updates and the unlinking of a free neighbour absorbed by   *)
(* _merge_sbrk_blocks.                                                     *)
Absorb(S, x) ==
  RemoveSbrkFreeBlock([S EXCEPT !.fbn = @ - 1, !.abn = @ - 1,
                                !.fby = @ - (SizeOf(S, x) - META), !.aby = @ + META], x)

(* memmove into dst: the bytes written replace whatever metadata was there. *)
Memmove(S, dst, n) == IF S.status # "ok" THEN S ELSE Clobber(S, dst, n)

(* _merge_sbrk_blocks: the left neighbour is found through the footer that *)
(* precedes the block, the right one by the block's size unless the block  *)
(* ends at the break.  The steps, in the code's order: find and check the  *)
(* left neighbour, read the break and check the right one, absorb the left *)
(* (moving the payload down when asked), absorb the right, rewrite the     *)
(* merged block.                                                           *)
HasLeft(S, b, ml) == ml /\ S.head # b
LeftTail(S, b) == b - TL \in DOMAIN S.tl /\ S.tl[b - TL].kind = "tail"
LeftOf(S, b, ml) ==
  IF HasLeft(S, b, ml) /\ LeftTail(S, b) THEN b - S.tl[b - TL].size ELSE NULL
LeftChecked(S, b, ml) ==
  CASE ~HasLeft(S, b, ml) -> S
    [] ~LeftTail(S, b) -> Die(S, "undefined")
    [] OTHER -> CheckCookie(S, LeftOf(S, b, ml))

MergeAbsorbRight(S3, ret, right, sum) ==
  LET mR == right # NULL /\ IsFree(S3, right)
  IN InitSbrkAllocBlock(IF mR THEN Absorb(S3, right) ELSE S3, ret,
                        sum + (IF mR THEN SizeOf(S3, right) ELSE 0), FALSE)

MoveIfCopy(A, left, b, copy) ==
  IF copy THEN Memmove(A, left + HDR, SizeOf(A, b) - META) ELSE A

MergeAbsorbLeft(S2, b, left, right, copy, size0) ==
  LET mL == left # NULL /\ IsFree(S2, left)
  IN MergeAbsorbRight(IF mL THEN MoveIfCopy(Absorb(S2, left), left, b, copy) ELSE S2,
                      IF mL THEN left ELSE b, right,
                      size0 + (IF mL THEN SizeOf(S2, left) ELSE 0))

MergeRightWith(r0, S1, b, left, mr, copy, size0) ==
  LET hasR == mr /\ b + SizeOf(S1, b) # r0.ret
      right == IF hasR THEN b + SizeOf(S1, b) ELSE NULL
  IN MergeAbsorbLeft(IF hasR THEN CheckCookie(r0.st, right) ELSE IF mr THEN r0.st ELSE S1,
                     b, left, right, copy, size0)

MergeSbrkBlocks(S, b, ml, mr, copy) ==
  MergeRightWith(Sbrk(LeftChecked(S, b, ml), 0), LeftChecked(S, b, ml), b,
                 LeftOf(S, b, ml), mr, copy, SizeOf(S, b))

(* Mutant: the suffix size computed as bs - size. *)
SplitBlockSwapped(S, b, bs) ==
  LET sz == SizeOf(S, b)
      S1 == [S EXCEPT !.fbn = @ + 1, !.fby = @ + (sz - META - bs),
                      !.abn = @ + 1, !.aby = @ - META]
  IN InitSbrkFreeBlock(InitSbrkAllocBlock(S1, b, bs, FALSE).st, b + bs, bs - sz)

(* Splitting an allocated block whose leftover is redundant: the prefix of *)
(* bs bytes stays allocated, the suffix becomes a free block.              *)
SplitBlock(S, b, bs) ==
  LET sz == SizeOf(S, b)
      S1 == [S EXCEPT !.fbn = @ + 1, !.fby = @ + (sz - META - bs),
                      !.abn = @ + 1, !.aby = @ - META]
  IN InitSbrkFreeBlock(InitSbrkAllocBlock(S1, b, bs, FALSE).st, b + bs, sz - bs)

(* _sbrk_malloc: reuse the best fit (splitting it when the leftover is     *)
(* redundant), else grow the arena by a new block.  The counters of a new  *)
(* block are charged whether or not sbrk succeeded.                        *)
ChargeNew(r, bs) == R([r.st EXCEPT !.abn = @ + 1, !.aby = @ + bs - META], r.ret)
GrowAt(r0, bs) == ChargeNew(InitSbrkAllocBlock(r0.st, r0.ret, bs, TRUE), bs)
GrowArena(S, bs) == GrowAt(Sbrk(S, 0), bs)

SplitIfRedundant(S, b, bs) == R(IF IS_REDUNDANT(S, b, bs) THEN SplitBlock(S, b, bs) ELSE S, b)
(* Mutant: the block found is handed out but left free on the free list. *)
SbrkMallocFoundKeepFree(f, bs) ==
  IF f.ret # NULL
  THEN SplitIfRedundant([f.st EXCEPT !.fbn = @ - 1,
                                   !.fby = @ - (SizeOf(f.st, f.ret) - META)], f.ret, bs)
  ELSE GrowArena(f.st, bs)
SbrkMallocFound(f, bs) ==
  IF f.ret # NULL
  THEN SplitIfRedundant(RemoveSbrkFreeBlock([f.st EXCEPT !.fbn = @ - 1,
                                   !.fby = @ - (SizeOf(f.st, f.ret) - META)], f.ret), f.ret, bs)
  ELSE GrowArena(f.st, bs)
SbrkMallocFirst(r, bs) == GrowArena([r.st EXCEPT !.head = r.ret], bs)
SbrkMalloc(S, bs) ==
  IF S.head # NULL THEN SbrkMallocFound(FindSbrkFreeBlock(S, bs), bs)
  ELSE SbrkMallocFirst(Sbrk(S, 0), bs)

(* _mmap_malloc: slot is the address mmap returns, NULL when it fails. *)
MmapMalloc(S, bs, force, slot) ==
  LET huge == force \/ bs >= HUGE_PAGE_LIMIT
      S1 == SetTail(WriteHead(S, slot, MkHead(bs, FALSE, NULL, NULL)), slot)
      S2 == SetField(S1, slot, "next", IF huge THEN HUGE_PAGE ELSE REGULAR_PAGE)
  IN IF slot = NULL THEN R(S, NULL)
     ELSE R([S2 EXCEPT !.abn = @ + 1, !.aby = @ + bs - META], slot)

(* Mutant: the block address is returned instead of the payload. *)
PayloadNoHdr(r) == R(r.st, r.ret)

Payload(r) == R(r.st, IF r.ret = NULL THEN NULL ELSE r.ret + HDR)

(* smalloc *)
SMalloc(S, size0, slot) ==
  LET size == Align8(size0)
      bs == size + META
  IN IF size = 0 \/ size > SIZE_LIMIT THEN R(S, NULL)
     ELSE Payload(IF bs < SBRK_LIMIT THEN SbrkMalloc(S, bs) ELSE MmapMalloc(S, bs, FALSE, slot))

(* scalloc: num * size is computed in size_t; the payload is zeroed. *)
SCallocFill(r, size) == IF r.ret = NULL THEN r ELSE R(Memmove(r.st, r.ret, size), r.ret)
SCallocSized(S, size, slot) ==
  IF size = 0 \/ size > SIZE_LIMIT THEN R(S, NULL)
  ELSE SCallocFill(IF size + META > SCALLOC_HUGE_PAGE_LIMIT + META
                   THEN Payload(MmapMalloc(S, size + META, TRUE, slot))
                   ELSE SMalloc(S, size, slot), size)
SCalloc(S, num, sz, slot) == SCallocSized(S, Align8((num * sz) % SIZE_T), slot)

(* _sbrk_free and _mmap_free; munmap of an address that mmap did not      *)
(* return fails and changes nothing.                                       *)
SbrkFreeMerged(m) ==
  AddSbrkFreeBlock([m.st EXCEPT !.fbn = @ + 1, !.fby = @ + SizeOf(m.st, m.ret) - META], m.ret)
SbrkFree(S, b) == SbrkFreeMerged(MergeSbrkBlocks(S, b, TRUE, TRUE, FALSE))

MmapFree(S, b) ==
  LET S1 == [S EXCEPT !.abn = @ - 1, !.aby = @ - (SizeOf(S, b) - META)]
  IN IF b \in MapSlots THEN [S1 EXCEPT !.hdr[b] = NoMeta] ELSE S1

(* sfree: S1 is the state after the cookie check of block b. *)
SFreeChecked(S1, b) ==
  CASE S1.status # "ok" \/ IsFree(S1, b) -> S1
    [] IS_SBRK_ALLOC(S1, b) -> SbrkFree(S1, b)
    [] OTHER -> MmapFree(S1, b)
SFree(S, p) == IF p = NULL THEN S ELSE SFreeChecked(CheckCookie(S, p - HDR), p - HDR)

(* _sbrk_realloc: the in-place attempts in the code's order, each on the  *)
(* result of the previous merge; brk is the break read on entry.  A failed *)
(* wilderness growth returns NULL + sizeof(head_metadata_t).               *)
SplitPayload(S, b, bs) ==
  R(IF IS_REDUNDANT(S, b, bs) THEN SplitBlock(S, b, bs) ELSE S, b + HDR)
GrowDone(w) == R(w.st, w.ret + HDR)
GrowPayload(S, b, bs) ==
  GrowDone(WildernessIncrease([S EXCEPT !.aby = @ + (bs - SizeOf(S, b))], b, bs))
Fits(m, bs) == SizeOf(m.st, m.ret) >= bs
IsWild(m, brk) == m.ret + SizeOf(m.st, m.ret) = brk

ReallocBoth(m3, brk, bs) ==
  CASE Fits(m3, bs) -> R(m3.st, m3.ret + HDR)
    [] IsWild(m3, brk) -> GrowPayload(m3.st, m3.ret, bs)
    [] OTHER -> R(m3.st, NULL)
ReallocRight(m2, brk, bs) ==
  IF Fits(m2, bs) THEN SplitPayload(m2.st, m2.ret, bs)
  ELSE ReallocBoth(MergeSbrkBlocks(m2.st, m2.ret, TRUE, TRUE, TRUE), brk, bs)
ReallocLeft(m1, brk, bs) ==
  CASE Fits(m1, bs) -> SplitPayload(m1.st, m1.ret, bs)
    [] IsWild(m1, brk) -> GrowPayload(m1.st, m1.ret, bs)
    [] OTHER -> ReallocRight(MergeSbrkBlocks(m1.st, m1.ret, FALSE, TRUE, FALSE), brk, bs)
ReallocFrom(r0, b0, bs) ==
  IF Fits(R(r0.st, b0), bs) THEN SplitPayload(r0.st, b0, bs)
  ELSE ReallocLeft(MergeSbrkBlocks(r0.st, b0, TRUE, FALSE, TRUE), r0.ret, bs)
SbrkRealloc(S0, b0, bs) == ReallocFrom(Sbrk(S0, 0), b0, bs)

(* srealloc: after a failed in-place attempt the old header is read again *)
(* at oldp - sizeof(head_metadata_t); n is the new allocation.             *)
ReallocCopy(n, oldp, size) ==
  IF n.ret = NULL THEN n ELSE R(SFree(Memmove(n.st, n.ret, size), oldp), n.ret)
ReallocFallback(S1, oldp, size, slot) ==
  IF SizeOf(S1, oldp - HDR) = size + META THEN R(S1, oldp)
  ELSE ReallocCopy(IF ~IS_SBRK_ALLOC(S1, oldp - HDR) /\ NextOf(S1, oldp - HDR) = HUGE_PAGE
                   THEN Payload(MmapMalloc(S1, size + META, TRUE, slot))
                   ELSE SMalloc(S1, size, slot), oldp, size)
ReallocTried(in, oldp, size, slot) ==
  IF in.ret # NULL THEN in
  ELSE ReallocFallback(IF IsHead(in.st, oldp - HDR) THEN in.st ELSE Die(in.st, "undefined"),
                       oldp, size, slot)
SReallocSized(S, oldp, size, slot) ==
  CASE oldp = NULL -> SMalloc(S, size, slot)
    [] size = 0 \/ size > SIZE_LIMIT -> R(S, NULL)
    [] OTHER -> ReallocTried(IF IS_SBRK_ALLOC(S, oldp - HDR)
                             THEN SbrkRealloc(S, oldp - HDR, size + META) ELSE R(S, NULL),
                             oldp, size, slot)
SRealloc(S, oldp, size0, slot) == SReallocSized(S, oldp, Align8(size0), slot)

(***************************************************************************)
(* The client: calls on pointers it holds, with sizes from Sizes.  An     *)
(* mmap inside a call returns a free slot, or fails.                       *)
(***************************************************************************)
MappedSlots == {s \in MapSlots : hdr[s] # NoMeta}
MmapResults ==
  (MapSlots \ MappedSlots) \cup (IF MmapMayFail \/ MappedSlots = MapSlots THEN {NULL} ELSE {})

Give(f, p, n) == [x \in DOMAIN f \cup {p} |-> IF x = p THEN n ELSE f[x]]
Drop(f, p) == [x \in DOMAIN f \ {p} |-> f[x]]

(* A call ends in state r.st; if the process died, nothing else changes. *)
Return(r, owned2, freed2, handed2) ==
  IF r.st.status = "ok"
  THEN /\ Store(r.st) /\ owned' = owned2 /\ handed' = handed2
       /\ freed' = IF ClientDoubleFrees THEN freed2 ELSE {}
  ELSE status' = r.st.status /\ UNCHANGED <<hdr, tl, pb, os, head, fhead, cookie,
                                            fbn, fby, abn, aby, owned, freed, handed>>

Got(r, n) == IF r.ret = NULL THEN owned ELSE Give(owned, r.ret, n)
Returned(r, n) == Return(r, Got(r, n), freed \ {r.ret}, IF r.ret = NULL THEN handed ELSE handed + 1)

Malloc(size, slot) == status = "ok" /\ Returned(SMalloc(Cur, size, slot), size)

Calloc(num, size, slot) ==
  status = "ok" /\ Returned(SCalloc(Cur, num, size, slot), num * size)

Free(p) ==
  /\ status = "ok" /\ p \in DOMAIN owned
  /\ Return(R(SFree(Cur, p), NULL), Drop(owned, p), freed \cup {p}, handed - 1)

DoubleFree(p) ==
  /\ status = "ok" /\ ClientDoubleFrees /\ p \in freed
  /\ Return(R(SFree(Cur, p), NULL), owned, freed, handed)

ReallocReturned(r, p, size) ==
  IF r.ret = NULL THEN Return(r, owned, freed, handed)
  ELSE Return(r, Give(Drop(owned, p), r.ret, size),
              (IF r.ret # p THEN freed \cup {p} ELSE freed) \ {r.ret}, handed)
Realloc(p, size, slot) ==
  /\ status = "ok" /\ p \in DOMAIN owned
  /\ ReallocReturned(SRealloc(Cur, p, size, slot), p, size)

(* The client fills the payload it asked for. *)
Write(p) ==
  /\ status = "ok" /\ ClientWrites /\ p \in DOMAIN owned /\ p < MaxBrk
  /\ Return(R(Clobber(Cur, p, owned[p]), NULL), owned, freed, handed)

Init ==
  /\ os \in InitBreaks /\ pb = os
  /\ hdr = [a \in Addr \cup MapSlots |-> NoMeta]
  /\ tl = [a \in Addr |-> NoMeta]
  /\ head = NULL /\ fhead = NULL /\ cookie = 0
  /\ fbn = 0 /\ fby = 0 /\ abn = 0 /\ aby = 0
  /\ status = "ok"
  /\ owned = <<>> /\ freed = {} /\ handed = 0

(* A process that has died takes no more steps. *)
Next ==
  \/ \E size \in Sizes, slot \in MmapResults : Malloc(size, slot)
  \/ \E c \in CallocArgs, slot \in MmapResults : Calloc(c[1], c[2], slot)
  \/ \E p \in DOMAIN owned : Free(p)
  \/ \E p \in DOMAIN owned : Write(p)
  \/ \E p \in DOMAIN owned, size \in ReallocSizes, slot \in MmapResults : Realloc(p, size, slot)

Spec == Init /\ [][Next]_vars

(* A client that may also call sfree again on a pointer it freed. *)
NextDoubleFree == Next \/ \E p \in freed : DoubleFree(p)
SpecDoubleFree == Init /\ [][NextDoubleFree]_vars

(***************************************************************************)
(* What the heap looks like.                                               *)
(***************************************************************************)
Size(a) == SizeOf(Cur, a)
PayloadOf(a) == Size(a) - META

(* The chain of blocks from sbrk_head, each found from its predecessor's  *)
(* size, up to the break.                                                  *)
RECURSIVE ChainFrom(_)
ChainFrom(a) ==
  IF a >= pb \/ ~IsHead(Cur, a) \/ Size(a) <= 0 THEN {} ELSE {a} \cup ChainFrom(a + Size(a))
Blocks == IF head = NULL THEN {} ELSE ChainFrom(head)
Maps == {s \in MapSlots : IsHead(Cur, s)}
FreeBlocks == {a \in Blocks : IsFree(Cur, a)}
InUse == (Blocks \cup Maps) \ FreeBlocks

RECURSIVE FreeChain(_, _)
FreeChain(a, n) == IF a = NULL \/ n = 0 THEN <<>> ELSE <<a>> \o FreeChain(NextOf(Cur, a), n - 1)
FreeList == FreeChain(fhead, Fuel)

TypeOK ==
  /\ hdr \in [Addr \cup MapSlots -> {NoMeta, Garbage} \cup
               [kind : {"hdr"}, size : Nat, is_free : BOOLEAN, next : Int, prev : Int]]
  /\ tl \in [Addr -> {NoMeta, Garbage} \cup [kind : {"tail"}, cookie : Nat, size : Nat]]
  /\ pb \in Addr /\ os \in Addr /\ head \in Addr /\ fhead \in Addr
  /\ cookie \in {0, COOKIE}
  /\ {fbn, fby, abn, aby} \subseteq Int
  /\ status \in {"ok", "exited", "undefined", "segfault", "hang"}
  /\ DOMAIN owned \subseteq Nat /\ freed \subseteq Nat /\ handed \in Nat

(* The process never dies: no call reads metadata that is not there, loops *)
(* on the free list, or finds a bad cookie (nothing overruns a block).     *)
ProcessAlive == status = "ok"

(* Walking the arena by header sizes from sbrk_head lands exactly on the  *)
(* break, and every block's footer repeats its size and the cookie.        *)
RECURSIVE TiledFrom(_)
TiledFrom(a) ==
  \/ a = pb
  \/ /\ a < pb /\ IsHead(Cur, a)
     /\ Size(a) >= META /\ Size(a) % ALIGN = 0
     /\ tl[a + Size(a) - TL] = MkTail(cookie, Size(a))
     /\ TiledFrom(a + Size(a))
ArenaTiled == head # NULL => TiledFrom(head)

(* <<size, address>> compared lexicographically. *)
SizeAddrLess(a, b) == Size(a) < Size(b) \/ (Size(a) = Size(b) /\ a < b)

(* The free list holds exactly the free blocks of the arena, once each,   *)
(* in ascending (size, address) order, with prev links that mirror next.   *)
FreeListExact ==
  LET L == FreeList
  IN /\ Len(L) < Fuel
     /\ Cardinality({L[i] : i \in DOMAIN L}) = Len(L)
     /\ {L[i] : i \in DOMAIN L} = FreeBlocks
     /\ \A i \in 1 .. Len(L) - 1 :
           /\ SizeAddrLess(L[i], L[i + 1])
           /\ PrevOf(Cur, L[i + 1]) = L[i]

(* The four counters are what the heap holds (bytes exclude metadata).    *)
CountersExact ==
  /\ fbn = Cardinality(FreeBlocks)
  /\ fby = MapThenSumSet(PayloadOf, FreeBlocks)
  /\ abn = Cardinality(Blocks \cup Maps)
  /\ aby = MapThenSumSet(PayloadOf, Blocks \cup Maps)

(* Every pointer the client holds is the payload of an allocated block big *)
(* enough for what it asked, and every allocated block is held by the      *)
(* client: nothing leaks.                                                  *)
OwnershipExact ==
  /\ \A p \in DOMAIN owned : p - HDR \in InUse /\ PayloadOf(p - HDR) >= owned[p]
  /\ \A b \in InUse : b + HDR \in DOMAIN owned

(* sfree and srealloc tell arena blocks from mappings by size alone       *)
(* (IS_SBRK_ALLOC), so every arena block the client holds must stay below *)
(* SBRK_LIMIT and every mapping at or above it.                            *)
SizeClassExact ==
  /\ \A b \in Blocks \ FreeBlocks : IS_SBRK_ALLOC(Cur, b)
  /\ \A m \in Maps : ~IS_SBRK_ALLOC(Cur, m)

(* sfree on a pointer that was already freed is a no-op: it changes       *)
(* nothing in the allocator, whatever happened to the block since.         *)
DoubleFreeNoop == [][\A p \in freed : DoubleFree(p) => UNCHANGED alloc]_vars

(* No two free arena blocks are adjacent: coalescing closes every gap.     *)
Coalesced == \A a \in FreeBlocks : a + Size(a) \notin FreeBlocks

(***************************************************************************)
(* The client's view: the pointers it holds, with the sizes it asked for,  *)
(* are the holdings of AllocatorSpec.                                      *)
(***************************************************************************)
Client == INSTANCE AllocatorSpec WITH held <- owned, handles <- handed

(* Every pointer smalloc, scalloc or srealloc hands out points to bytes    *)
(* that overlap none of the bytes the client still holds, in the arena or *)
(* in a mapping, whatever the free list, splits, merges and wilderness    *)
(* growth did before; sfree and a NULL result take nothing else away.      *)
ClientContract == Client!ASpec

=============================================================================
