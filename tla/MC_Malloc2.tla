----------------------------- MODULE MC_Malloc2 -----------------------------
(***************************************************************************)
(* Scaled instance of Malloc2: META 2 stands for the 16-byte header, and   *)
(* sizes are in the same unit (malloc_2 does not align).                   *)
(***************************************************************************)
EXTENDS Malloc2

(* The arena explored: states whose break passes ArenaBound are checked   *)
(* but not extended.                                                       *)
CONSTANT ArenaBound
WithinBound == pb <= ArenaBound

(* scalloc arguments of the undersize run: one call, 2 * 2 = 4. *)
MC_CallocArgs == {<<2, 2>>}

(* 1 * 3: the size every other request of the malloc2 run asks for. *)
MC_CallocUniform == {<<1, 3>>}

====
