---------------------- MODULE MC_LowerVecAndCoalesce ----------------------
(* Functions for the runs of LowerVecAndCoalesce: temporaries t0 and t1,  *)
(* each written in channel x by one instruction and read by a vec into v; *)
(* a and b are inputs, u a second reader of t1 when there is one.  v and  *)
(* u are live out; the temporaries are not (a live-out register would     *)
(* have a use).                                                           *)
EXTENDS LowerVecAndCoalesce

(* A source of register r reading component k in channel x (the next      *)
(* components in the next channels), the identity swizzle of r, and SSA   *)
(* constant n.                                                            *)
Sw(r, k) == [ssa |-> FALSE, reg |-> r, swz |-> [c \in Chans |-> (k + c) % 4]]
Id(r)    == [ssa |-> FALSE, reg |-> r, swz |-> [c \in Chans |-> c]]
Const(n) == [ssa |-> TRUE, reg |-> n, swz |-> [c \in Chans |-> 0]]
I(id, op, dest, wmask, src) ==
    [id |-> id, op |-> op, dest |-> dest, wmask |-> wmask, src |-> src]

(* The instruction writing t0.x, for each kind the pass tells apart.      *)
T0Def(op) ==
    CASE op = "fadd"  -> I(1, op, "t0", {0}, <<Sw("a", 1), Sw("b", 0)>>)
      [] op = "fdot2" -> I(1, op, "t0", {0}, <<Id("a"), Id("b")>>)
      [] op = "load"  -> I(1, op, "t0", {0}, <<>>)
      [] OTHER        -> I(1, op, "t0", {0}, <<Sw("a", 2)>>)

(* The vec: both temporaries, or a constant, an input and t1.            *)
Vecs == {I(5, "vec2", "v", {0, 1}, <<Sw("t0", 0), Sw("t1", 0)>>),
         I(5, "vec3", "v", {0, 1, 2}, <<Const(7), Sw("a", 3), Sw("t1", 0)>>)}

(* t0 is written in the vec's block or in the block before; t1 once or    *)
(* twice in the vec's block, maybe also in the first block, and read      *)
(* again by u or not; the channels the pass cannot propagate come first   *)
(* in the vec.                                                            *)
PrefixPrograms ==
    {<< <<T0Def(op)>>
        \o (IF early THEN << I(7, "fsat", "t1", {0}, <<Sw("b", 0)>>) >> ELSE <<>>),
        << I(2, "fneg", "t1", {0}, <<Sw("b", 2)>>) >>
        \o (IF twice THEN << I(3, "fabs", "t1", {0}, <<Sw("a", 0)>>) >> ELSE <<>>)
        \o (IF reuse THEN << I(4, "fneg", "u", {0}, <<Sw("t1", 0)>>) >> ELSE <<>>)
        \o << vec, I(6, "fneg", "a", {1}, <<Sw("b", 1)>>) >> >>
      : op \in {"fneg", "fadd", "fdot2", "imov", "load"},
        twice \in BOOLEAN, reuse \in BOOLEAN, early \in BOOLEAN, vec \in Vecs}
    \cup
    {<< << T0Def(op), I(2, "fneg", "t1", {0}, <<Sw("b", 2)>>),
           I(5, "vec2", "v", {0, 1}, <<Sw("t0", 0), Sw("t1", 0)>>) >> >>
      : op \in {"fneg", "fadd", "fdot2", "imov", "load"}}

(* t0 propagated into channel x of a vec3 whose other two channels read   *)
(* inputs: the channels left are y and z.                                *)
GapPrograms ==
    {<< << T0Def(op),
           I(5, "vec3", "v", {0, 1, 2}, <<Sw("t0", 0), Sw("a", 1), Sw("b", 2)>>) >> >>
      : op \in {"fneg", "fadd"}}

(* t1 written again right after the vec that reads it.                   *)
LateDefPrograms ==
    {<< << T0Def(op), I(2, "fneg", "t1", {0}, <<Sw("b", 2)>>),
           I(5, "vec2", "v", {0, 1}, <<Sw("t0", 0), Sw("t1", 0)>>),
           I(6, "fabs", "t1", {0}, <<Sw("a", 0)>>) >> >>
      : op \in {"fneg", "fadd"}}

(* The input t0's instruction reads is written between it and the vec.  *)
ClobberPrograms ==
    {<< << T0Def(op), I(6, "fneg", "a", {0, 1, 2, 3}, <<Sw("b", 1)>>),
           I(2, "fneg", "t1", {0}, <<Sw("b", 2)>>),
           I(5, "vec2", "v", {0, 1}, <<Sw("t0", 0), Sw("t1", 0)>>) >> >>
      : op \in {"fneg", "fadd"}}

(* t0 written in channels x and y, and the vec reading t0.y.             *)
WideParentPrograms ==
    {<< << I(1, op, "t0", {0, 1}, <<Sw("a", 1)>>),
           I(2, "fneg", "t1", {0}, <<Sw("b", 2)>>),
           I(5, "vec2", "v", {0, 1}, <<Sw("t0", 1), Sw("t1", 0)>>) >> >>
      : op \in {"fneg", "imov"}}

MC_Outs == {"v", "u"}
=============================================================================
