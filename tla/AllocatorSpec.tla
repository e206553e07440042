---------------------------- MODULE AllocatorSpec ----------------------------
(***************************************************************************)
(* What smalloc, scalloc, sfree and srealloc promise their client, with   *)
(* no arena, free list or metadata: the client holds pointers, each to    *)
(* the number of bytes it asked for.  A call that hands out a pointer     *)
(* hands out bytes that overlap none of the bytes the client still holds;  *)
(* sfree gives one pointer back; srealloc gives one back and hands out    *)
(* another (possibly the same address) whose bytes overlap none of the    *)
(* others.  A call that returns NULL, and the client's writes, change     *)
(* nothing the client holds.  handles counts the pointers the client has  *)
(* been handed and not given back, so a pointer handed out twice is seen   *)
(* even when it is the same address with the same size.                    *)
(***************************************************************************)
EXTENDS Integers, Functions

VARIABLES
  held,     \* pointer -> number of bytes the client asked for
  handles   \* pointers handed out and not given back

(* The n bytes at p overlap none of the bytes held in h. *)
Apart(p, n, h) == \A q \in DOMAIN h : p + n <= q \/ q + h[q] <= p

(* The client's holdings after p is handed out with n bytes. *)
With(h, p, n) == [x \in DOMAIN h \cup {p} |-> IF x = p THEN n ELSE h[x]]

(* smalloc or scalloc returns a pointer the client did not hold. *)
Allocate ==
  \E p \in DOMAIN held' \ DOMAIN held :
    /\ held' = With(held, p, held'[p])
    /\ held'[p] > 0
    /\ Apart(p, held'[p], held)
    /\ handles' = handles + 1

(* sfree of a pointer the client holds. *)
Release ==
  /\ \E p \in DOMAIN held : held' = Restrict(held, DOMAIN held \ {p})
  /\ handles' = handles - 1

(* srealloc of p returns q, and the client holds q instead of p. *)
Move ==
  \E p \in DOMAIN held, q \in DOMAIN held' :
    LET rest == Restrict(held, DOMAIN held \ {p})
    IN /\ q \notin DOMAIN rest
       /\ held' = With(rest, q, held'[q])
       /\ held'[q] > 0
       /\ Apart(q, held'[q], rest)
       /\ UNCHANGED handles

AInit == held = <<>> /\ handles = 0

ANext == Allocate \/ Release \/ Move

ASpec == AInit /\ [][ANext]_<<held, handles>>

=============================================================================
