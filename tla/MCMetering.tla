------------------------------ MODULE MCMetering ------------------------------
(* One program in a module with neither imports nor globals: the counter   *)
(* is global 0.                                                            *)
EXTENDS Metering

(* A loop, a write to global 0 and a branch back.  The constant that the   *)
(* write takes from the stack is left out with the stack.                  *)
MCMenu == {<<3, 64>>, <<36, 0>>, <<12, 0>>}

MCGrows(p) == Len(p) < 3

MCShapes == {<<[id |-> 10, items |-> <<>>]>>}

MCLocals == {<<0>>}
=============================================================================
