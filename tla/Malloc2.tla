------------------------------ MODULE Malloc2 ------------------------------
(***************************************************************************)
(* The first-fit allocator of hw4/wet_4/malloc_2.cpp: smalloc, scalloc,   *)
(* sfree and srealloc over an sbrk arena of blocks that each start with a  *)
(* head_metadata_t {size, is_free}.  Blocks are never split, merged or     *)
(* returned; a free block is found again by walking the arena from         *)
(* global_head by the sizes in the headers.                                *)
(*                                                                         *)
(* As in Malloc4, memory is what the code writes into it: hdr[a] is the    *)
(* header last written at a, and a write of other bytes over a header      *)
(* turns it into Garbage.  Every call is one atomic step; the C functions  *)
(* are operators that thread a state record S and return [st, ret].        *)
(***************************************************************************)
EXTENDS Integers, FiniteSets, FiniteSetsExt

CONSTANTS
  META,         \* sizeof(head_metadata_t)
  SIZE_LIMIT,   \* 1e8
  SIZE_T_BITS,  \* width of size_t
  InitBreaks,   \* possible values of the OS break when the program starts
  MaxBrk,       \* the OS refuses to move the break beyond this address
  Sizes,        \* sizes the client passes to smalloc
  ReallocSizes, \* sizes the client passes to srealloc
  CallocArgs,   \* <<num, size>> pairs the client passes to scalloc
  ClientWrites  \* whether the client's writes into its payloads are explored

SIZE_T == 2 ^ SIZE_T_BITS
NULL == 0
FAIL == -1                                    \* (void*)(-1)
Addr == 0 .. MaxBrk

ASSUME /\ META > 0 /\ InitBreaks \subseteq 1 .. MaxBrk

NoMeta == [kind |-> "none"]
Garbage == [kind |-> "garbage"]
MkHead(size, free) == [kind |-> "hdr", size |-> size, is_free |-> free]

VARIABLES
  hdr,      \* address -> head_metadata_t written there
  pb,       \* the static program_break of _sbrk
  os,       \* the break the OS holds
  head,     \* global_head
  fbn, fby, abn, aby, \* free_blocks_num, free_bytes_num, allocated_blocks_num, allocated_bytes_num
  status,   \* "ok", or how the process ended: "undefined"
  owned,    \* pointer -> size the client asked for, for pointers it holds
  handed    \* the number of pointers the client was handed and did not free

alloc == <<hdr, pb, os, head, fbn, fby, abn, aby, status>>
vars == <<alloc, owned, handed>>

Cur == [hdr |-> hdr, pb |-> pb, os |-> os, head |-> head,
        fbn |-> fbn, fby |-> fby, abn |-> abn, aby |-> aby, status |-> status]
Store(S) ==
  /\ hdr' = S.hdr /\ pb' = S.pb /\ os' = S.os /\ head' = S.head
  /\ fbn' = S.fbn /\ fby' = S.fby /\ abn' = S.abn /\ aby' = S.aby
  /\ status' = S.status

R(S, v) == [st |-> S, ret |-> v]
Die(S, why) == IF S.status = "ok" THEN [S EXCEPT !.status = why] ELSE S

(***************************************************************************)
(* Memory.                                                                 *)
(***************************************************************************)
(* Writing the n bytes at lo turns every header they touch into Garbage. *)
Clobber(S, lo, n) ==
  [S EXCEPT !.hdr = [a \in DOMAIN @ |->
                       IF @[a] # NoMeta /\ a < lo + n /\ lo < a + META THEN Garbage ELSE @[a]]]
Memmove(S, dst, n) == IF S.status # "ok" THEN S ELSE Clobber(S, dst, n)

IsHead(S, b) == b \in DOMAIN S.hdr /\ S.hdr[b].kind = "hdr"
SizeOf(S, b) == IF IsHead(S, b) THEN S.hdr[b].size ELSE 0
IsFree(S, b) == IsHead(S, b) /\ S.hdr[b].is_free

WriteHead(S, b, h) ==
  IF S.status # "ok" THEN S ELSE [Clobber(S, b, META) EXCEPT !.hdr[b] = h]
SetFree(S, b, v) == [S EXCEPT !.hdr[b].is_free = v]

(***************************************************************************)
(* _sbrk(delta): no alignment; the OS call fails past MaxBrk.              *)
(***************************************************************************)
OsSbrk(S, inc) ==
  IF S.os + inc > MaxBrk THEN R(S, FAIL) ELSE R([S EXCEPT !.os = @ + inc], S.os)
SbrkGrown(r, newpb, old) ==
  IF r.ret = FAIL THEN R(r.st, FAIL) ELSE R([r.st EXCEPT !.pb = newpb], old)
Sbrk(S, delta) ==
  CASE delta = 0 -> R(S, S.pb)
    [] S.pb + delta > S.os -> SbrkGrown(OsSbrk(S, S.pb + delta - S.os), S.pb + delta, S.pb)
    [] OTHER -> R([S EXCEPT !.pb = S.pb + delta], S.pb)

(***************************************************************************)
(* Blocks.                                                                 *)
(***************************************************************************)
(* Mutant: the loop also steps past the block that ends at the break. *)
RECURSIVE FindFromLe(_, _, _, _)
FindFromLe(S, last, bs, brk) ==
  CASE ~IsHead(S, last) -> R(Die(S, "undefined"), NULL)
    [] last + SizeOf(S, last) > brk -> R(S, last)
    [] IsFree(S, last) /\ SizeOf(S, last) >= bs -> R(S, last)
    [] OTHER -> FindFromLe(S, last + SizeOf(S, last), bs, brk)

(* The loop of _find_free_block: the first free block that fits, among    *)
(* all blocks but the one that ends at the break, which is returned        *)
(* whatever it holds.  Reading a header that is not there is undefined.    *)
RECURSIVE FindFrom(_, _, _, _)
FindFrom(S, last, bs, brk) ==
  CASE ~IsHead(S, last) -> R(Die(S, "undefined"), NULL)
    [] last + SizeOf(S, last) >= brk -> R(S, last)
    [] IsFree(S, last) /\ SizeOf(S, last) >= bs -> R(S, last)
    [] OTHER -> FindFrom(S, last + SizeOf(S, last), bs, brk)

(* _find_free_block; _sbrk(0) never fails.                               *)
FindFreeBlock(S, bs) == IF S.head = NULL THEN R(S, NULL) ELSE FindFrom(S, S.head, bs, S.pb)

(* Mutant: the header records the payload size instead of the block size. *)
InitAfterPayloadSize(r, b, bs) ==
  IF r.ret = FAIL THEN R(r.st, NULL) ELSE R(WriteHead(r.st, b, MkHead(bs - META, FALSE)), b)

(* _init_alloc_block, once sbrk has answered. *)
InitAfter(r, b, bs) ==
  IF r.ret = FAIL THEN R(r.st, NULL) ELSE R(WriteHead(r.st, b, MkHead(bs, FALSE)), b)
InitAllocBlock(S, b, bs) == InitAfter(Sbrk(S, bs), b, bs)

(* Mutant: the payload pointer is the block address. *)
MallocNewNoHdr(r, size) ==
  IF r.ret = NULL THEN r ELSE R([r.st EXCEPT !.abn = @ + 1, !.aby = @ + size], r.ret)

(* The end of smalloc once a new block was set up at the break. *)
MallocNew(r, size) ==
  IF r.ret = NULL THEN r ELSE R([r.st EXCEPT !.abn = @ + 1, !.aby = @ + size], r.ret + META)

(* Mutants: reuse that forgets the metadata in free_bytes_num, or that   *)
(* leaves free_blocks_num as it was.                                       *)
ReuseAllBytes(S, b) == [SetFree(S, b, FALSE) EXCEPT !.fbn = @ - 1, !.fby = @ - SizeOf(S, b)]
ReuseNoCount(S, b) == [SetFree(S, b, FALSE) EXCEPT !.fby = @ - (SizeOf(S, b) - META)]

(* Mutant: reuse that leaves the block marked free. *)
ReuseKeepsFree(S, b) == [S EXCEPT !.fbn = @ - 1, !.fby = @ - (SizeOf(S, b) - META)]

(* smalloc taking a free block found by _find_free_block. *)
Reuse(S, b) ==
  [SetFree(S, b, FALSE) EXCEPT !.fbn = @ - 1, !.fby = @ - (SizeOf(S, b) - META)]

MallocFound(f, size) ==
  CASE f.ret = NULL -> R(f.st, NULL)
    [] IsFree(f.st, f.ret) -> R(Reuse(f.st, f.ret), f.ret + META)
    [] OTHER -> MallocNew(InitAllocBlock(f.st, f.ret + SizeOf(f.st, f.ret), size + META), size)

(* smalloc: the first call sets global_head to the break before it knows *)
(* whether sbrk will succeed.                                              *)
SMalloc(S, size) ==
  CASE size = 0 \/ size > SIZE_LIMIT -> R(S, NULL)
    [] S.head # NULL -> MallocFound(FindFreeBlock(S, size + META), size)
    [] OTHER -> MallocNew(InitAllocBlock([S EXCEPT !.head = S.pb], S.pb, size + META), size)

(* scalloc: num * size is computed in size_t. *)
SCallocFill(r, n) == IF r.ret = NULL THEN r ELSE R(Memmove(r.st, r.ret, n), r.ret)
SCalloc(S, num, sz) == SCallocFill(SMalloc(S, (num * sz) % SIZE_T), (num * sz) % SIZE_T)

(* sfree: reading is_free where no header is is undefined. *)
SFree(S, p) ==
  CASE p = NULL \/ S.status # "ok" -> S
    [] ~IsHead(S, p - META) -> Die(S, "undefined")
    [] IsFree(S, p - META) -> S
    [] OTHER -> [SetFree(S, p - META, TRUE) EXCEPT !.fbn = @ + 1,
                                                   !.fby = @ + (SizeOf(S, p - META) - META)]

(* srealloc: copy the old payload into the new block, then free the old. *)
ReallocCopy(n, oldp, len) ==
  IF n.ret = NULL THEN n ELSE R(SFree(Memmove(n.st, n.ret, len), oldp), n.ret)
SRealloc(S, oldp, size) ==
  CASE oldp = NULL -> SMalloc(S, size)
    [] size = 0 \/ size > SIZE_LIMIT -> R(S, NULL)
    [] ~IsHead(S, oldp - META) -> R(Die(S, "undefined"), NULL)
    [] SizeOf(S, oldp - META) >= size + META -> R(S, oldp)
    [] OTHER -> ReallocCopy(SMalloc(S, size), oldp, SizeOf(S, oldp - META) - META)

(***************************************************************************)
(* The client: calls on pointers it holds.                                 *)
(***************************************************************************)
Give(f, p, n) == [x \in DOMAIN f \cup {p} |-> IF x = p THEN n ELSE f[x]]
Drop(f, p) == [x \in DOMAIN f \ {p} |-> f[x]]

(* A call ends in state r.st; if the process died, nothing else changes. *)
Return(r, owned2, handed2) ==
  IF r.st.status = "ok" THEN Store(r.st) /\ owned' = owned2 /\ handed' = handed2
  ELSE status' = r.st.status /\ UNCHANGED <<hdr, pb, os, head, fbn, fby, abn, aby, owned, handed>>

Got(r, n) == IF r.ret = NULL THEN owned ELSE Give(owned, r.ret, n)

Returned(r, n) == Return(r, Got(r, n), IF r.ret = NULL THEN handed ELSE handed + 1)

Malloc(size) == status = "ok" /\ Returned(SMalloc(Cur, size), size)

Calloc(num, size) == status = "ok" /\ Returned(SCalloc(Cur, num, size), num * size)

Free(p) ==
  /\ status = "ok" /\ p \in DOMAIN owned
  /\ Return(R(SFree(Cur, p), NULL), Drop(owned, p), handed - 1)

ReallocReturned(r, p, size) ==
  Return(r, IF r.ret = NULL THEN owned ELSE Give(Drop(owned, p), r.ret, size), handed)
Realloc(p, size) ==
  /\ status = "ok" /\ p \in DOMAIN owned
  /\ ReallocReturned(SRealloc(Cur, p, size), p, size)

(* The client fills the payload it asked for. *)
Write(p) ==
  /\ status = "ok" /\ ClientWrites /\ p \in DOMAIN owned
  /\ Return(R(Clobber(Cur, p, owned[p]), NULL), owned, handed)

Init ==
  /\ os \in InitBreaks /\ pb = os
  /\ hdr = [a \in Addr |-> NoMeta]
  /\ head = NULL
  /\ fbn = 0 /\ fby = 0 /\ abn = 0 /\ aby = 0
  /\ status = "ok"
  /\ owned = <<>> /\ handed = 0

(* A process that has died takes no more steps. *)
Next ==
  \/ \E size \in Sizes : Malloc(size)
  \/ \E c \in CallocArgs : Calloc(c[1], c[2])
  \/ \E p \in DOMAIN owned : Free(p)
  \/ \E p \in DOMAIN owned : Write(p)
  \/ \E p \in DOMAIN owned, size \in ReallocSizes : Realloc(p, size)

Spec == Init /\ [][Next]_vars

(***************************************************************************)
(* What the heap looks like.                                               *)
(***************************************************************************)
Size(a) == SizeOf(Cur, a)
PayloadOf(a) == Size(a) - META

(* The chain of blocks from global_head, up to the break. *)
RECURSIVE ChainFrom(_)
ChainFrom(a) ==
  IF a >= pb \/ ~IsHead(Cur, a) \/ Size(a) <= 0 THEN {} ELSE {a} \cup ChainFrom(a + Size(a))
Blocks == IF head = NULL THEN {} ELSE ChainFrom(head)
FreeBlocks == {b \in Blocks : IsFree(Cur, b)}

TypeOK ==
  /\ hdr \in [Addr -> {NoMeta, Garbage} \cup [kind : {"hdr"}, size : Nat, is_free : BOOLEAN]]
  /\ pb \in Addr /\ os \in Addr /\ head \in Addr
  /\ {fbn, fby, abn, aby} \subseteq Nat
  /\ status \in {"ok", "undefined"}
  /\ DOMAIN owned \subseteq Nat /\ handed \in Nat

(* The process never dies: no call reads a header that is not there.    *)
ProcessAlive == status = "ok"

(* Walking the arena by header sizes from global_head lands exactly on  *)
(* the break, through headers of at least META bytes.                      *)
RECURSIVE TiledFrom(_)
TiledFrom(a) ==
  \/ a = pb
  \/ a < pb /\ IsHead(Cur, a) /\ Size(a) > META /\ TiledFrom(a + Size(a))
ArenaTiled == head # NULL => TiledFrom(head)

(* The four counters are what the arena holds: every block counts as     *)
(* allocated, free or not, and bytes exclude the metadata.                 *)
CountersExact ==
  /\ fbn = Cardinality(FreeBlocks)
  /\ fby = MapThenSumSet(PayloadOf, FreeBlocks)
  /\ abn = Cardinality(Blocks)
  /\ aby = MapThenSumSet(PayloadOf, Blocks)

(* Every pointer the client holds is the payload of a block in use that   *)
(* is big enough for what it asked, and every block in use is held.       *)
OwnershipExact ==
  /\ \A p \in DOMAIN owned : p - META \in Blocks \ FreeBlocks /\ PayloadOf(p - META) >= owned[p]
  /\ \A b \in Blocks \ FreeBlocks : b + META \in DOMAIN owned

(* The client's holdings are those of AllocatorSpec. *)
Client == INSTANCE AllocatorSpec WITH held <- owned, handles <- handed

(* Every pointer smalloc, scalloc or srealloc hands out points to bytes    *)
(* that overlap none of the bytes the client still holds, however first   *)
(* fit reused freed blocks, and sfree and a NULL result take nothing else  *)
(* away.                                                                   *)
ClientContract == Client!ASpec

====
