------------------------ MODULE MC_Remap64BitsAttrs ------------------------
(* Vertex shaders for the runs of Remap64BitsAttrs: two inputs, at         *)
(* locations 0 and 1, each of any of the types below.                     *)
EXTENDS Remap64BitsAttrs

Vec4  == [bits |-> 32, nc |-> 4]
DVec2 == [bits |-> 64, nc |-> 2]
DVec3 == [bits |-> 64, nc |-> 3]
DVec4 == [bits |-> 64, nc |-> 4]
AttrTypes == {Vec4, DVec2, DVec3, DVec4}

Load(k, base, t) ==
    [op |-> "load", id |-> k, base |-> base, nc |-> t.nc, bits |-> t.bits,
     src |-> <<>>]
Alu(k, srcs) ==
    [op |-> "alu", id |-> k, base |-> 0, nc |-> 0, bits |-> 0, src |-> srcs]
Src(k, c) == [id |-> k, swz |-> c]
Other == [op |-> "other", id |-> 0, base |-> 0, nc |-> 0, bits |-> 0,
          src |-> <<>>]

Comps(t) == 0..(t.nc - 1)

(* Each input loaded once, in location order, in the first block; its Z   *)
(* and W read only by the first source of an ALU of that block; the next  *)
(* block reads X or Y of both (a second source too) after another         *)
(* instruction.                                                           *)
InOrderPrograms ==
    UNION {{ << << Load(1, 0, T0), Alu(11, <<Src(1, c1)>>),
            Load(2, 1, T1), Alu(12, <<Src(2, c2), Src(1, c3)>>) >>,
         << Other, Alu(13, <<Src(2, c4), Src(1, c5)>>) >> >> :
        c1 \in Comps(T0), c2 \in Comps(T1), c3 \in Comps(T0) \cap 0..1,
        c4 \in Comps(T1) \cap 0..1, c5 \in Comps(T0) \cap 0..1 } :
          T0, T1 \in AttrTypes}

(* The second input is loaded in a later block than the first.           *)
LaterBlockPrograms ==
    UNION {{ << << Load(1, 0, T0), Alu(11, <<Src(1, c1)>>) >>,
         << Load(2, 1, T1), Alu(12, <<Src(2, c2)>>) >> >> :
        c1 \in Comps(T0), c2 \in Comps(T1) } : T0, T1 \in AttrTypes}

(* The input at location 1 is loaded before the one at location 0.       *)
ReverseOrderPrograms ==
    UNION {{ << << Load(2, 1, T1), Alu(12, <<Src(2, c2)>>),
                Load(1, 0, T0), Alu(11, <<Src(1, c1)>>) >> >> :
        c1 \in Comps(T0), c2 \in Comps(T1) } : T0, T1 \in AttrTypes}

(* Any component of the first input read by the second source of an ALU. *)
SecondSourcePrograms ==
    UNION {{ << << Load(1, 0, T0), Alu(11, <<Src(1, 0), Src(1, c1)>>) >> >> :
        c1 \in Comps(T0) } : T0 \in AttrTypes}

(* Any component of the first input read in a later block.              *)
LaterUsePrograms ==
    UNION {{ << << Load(1, 0, T0) >>, << Alu(11, <<Src(1, c1)>>) >> >> :
        c1 \in Comps(T0) } : T0 \in AttrTypes}
=============================================================================
