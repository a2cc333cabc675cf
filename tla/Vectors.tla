------------------------------ MODULE Vectors ------------------------------
(***************************************************************************)
(* src/common.c: growable arrays.  A vector is its length, the block its   *)
(* elements are in, and the cells of that block, as many as its capacity.  *)
(* A pointer to an element is a block and an index.  reallocarray may move *)
(* the elements to another block; here it always does, so that a pointer   *)
(* kept over a push no longer reaches the vector.                          *)
(***************************************************************************)
EXTENDS Integers

CONSTANT Uninitialised \* what is in a cell that was not written

Null == [block |-> 0, index |-> 0]

Cells(cap) == 0..(cap - 1)
Pointers(v) == [block : {v.block}, index : 0..(v.len - 1)]

(* vec_of *)
EmptyVec == [len |-> 0, cap |-> 0, block |-> 0, cells |-> [i \in Cells(0) |-> Uninitialised]]

(* The loop of vec_reserve.  Every caller asks for one more element, so    *)
(* that it doubles the capacity once, or makes 1 of 0.                     *)
Capacity(v) == IF v.len < v.cap THEN v.cap ELSE IF v.cap = 0 THEN 1 ELSE 2 * v.cap

(* vec_grow, vec_reserve: reallocarray, whether the capacity grows or not. *)
Reserve(v) ==
  [len |-> v.len, cap |-> Capacity(v), block |-> v.block + 1,
   cells |-> [i \in Cells(Capacity(v)) |-> IF i < v.cap THEN v.cells[i] ELSE Uninitialised]]

(* What a store through a pointer does, and what the pointer reaches.      *)
Store(v, it, x) ==
  [len |-> v.len, cap |-> v.cap, block |-> v.block,
   cells |-> [i \in Cells(v.cap) |->
                IF it = [block |-> v.block, index |-> i] THEN x ELSE v.cells[i]]]
Element(v, it) == v.cells[it.index]

(* vec_push_uninit, vec_push; the pointer to the last element, which they  *)
(* return.                                                                 *)
LastOf(v) == [block |-> v.block, index |-> v.len - 1]
PushUninit(v) ==
  LET w == Reserve(v) IN [len |-> w.len + 1, cap |-> w.cap, block |-> w.block, cells |-> w.cells]
Push(v, x) == Store(PushUninit(v), LastOf(PushUninit(v)), x)

(* vec_get, vec_index_of (whose assertion is that "it" is an element), vec_next *)
Get(v, index) == IF v.len > index THEN [block |-> v.block, index |-> index] ELSE Null
IndexOf(v, it) == CHOOSE i \in 0..(v.len - 1) : it = [block |-> v.block, index |-> i]
VecNext(v, it) == IF it = Null THEN Get(v, 0) ELSE Get(v, IndexOf(v, it) + 1)

(* The elements, as a sequence. *)
Contents(v) == [i \in 1..v.len |-> v.cells[i - 1]]
=============================================================================
