----------------------------- MODULE MC_Malloc4 -----------------------------
(***************************************************************************)
(* Scaled instance of Malloc4.  Sizes are in units of 4 bytes: ALIGN 2 is *)
(* the 8-byte alignment, HDR 4 and TL 2 keep a header twice a footer as in *)
(* the 32 + 16 bytes of the code, and the thresholds keep their order:     *)
(* REDUNDANT_SIZE < SBRK_LIMIT < SCALLOC huge limit + META < HUGE_PAGE.    *)
(***************************************************************************)
EXTENDS Malloc4

(* The arena explored: states whose break passes ArenaBound are checked   *)
(* but not extended.  With MaxBrk at least ArenaBound plus the largest     *)
(* block, sbrk never fails below the bound.                                *)
CONSTANT ArenaBound
WithinBound == pb <= ArenaBound

(* scalloc arguments: a small arena request and one that scalloc sends  *)
(* to a forced huge-page mapping.                                          *)
MC_CallocArgs == {<<2, 3>>, <<12, 4>>}

====
