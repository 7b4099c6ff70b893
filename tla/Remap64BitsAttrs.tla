--------------------------- MODULE Remap64BitsAttrs ---------------------------
(***************************************************************************)
(* brw_nir_remap_64bits_attrs (src/mesa/drivers/dri/i965/                   *)
(* brw_nir_remap_64bits_attrs.c): a vertex shader's 64-bit inputs of more *)
(* than two components (dvec3, dvec4) occupy two attribute slots, so each  *)
(* load_input of one is split in two and the bases of the loads after it  *)
(* are shifted.  fix_64bits_block runs once per block, in order.          *)
(*                                                                         *)
(* A program is a sequence of blocks, a block a sequence of instructions,  *)
(* all of one record shape: op "load" (load_input: SSA id, base, number of *)
(* components, bit size), "alu" (its sources, each the SSA id of a load    *)
(* and swizzle[0], the component it reads) or "other" (any other           *)
(* instruction).  Debug printing is left out.                             *)
(***************************************************************************)
EXTENDS Integers, Sequences, FiniteSets

CONSTANT Programs   \* the shaders the pass may be run on

SWIZZLE_X == 0
SWIZZLE_Y == 1
SWIZZLE_Z == 2
SWIZZLE_W == 3

VARIABLES
    orig,        \* the shader before the pass (frozen, for the properties)
    prog,        \* the shader as the pass rewrites it
    b, i,        \* the block and instruction the iteration is at
    offset,      \* fix_64bits_block's offset: loads split so far in block b
    progress,    \* state.impl_progress
    ssa_alloc    \* impl->ssa_alloc: the next free SSA index

vars == <<orig, prog, b, i, offset, progress, ssa_alloc>>

(* The iteration is at an instruction, and which.                        *)
AtInstr == b <= Len(prog) /\ i <= Len(prog[b])
Instr == prog[b][i]

(* The load and its uses in block blk, with the ALU sources that read     *)
(* component Z or W of it as src[0] moved to the new load (lines 83-110). *)
RewriteUses(blk, k, newId) ==
    [n \in DOMAIN blk |->
        IF blk[n].op = "alu" /\ blk[n].src[1].id = k
           /\ blk[n].src[1].swz \in {SWIZZLE_Z, SWIZZLE_W}
        THEN [blk[n] EXCEPT !.src[1] = [id |-> newId, swz |-> @.swz - 2]]
        ELSE blk[n]]

(* Lines 41-47: an instruction other than load_input is skipped.          *)
SkipInstr ==
    /\ AtInstr
    /\ Instr.op # "load"
    /\ i' = i + 1
    /\ UNCHANGED <<orig, prog, b, offset, progress, ssa_alloc>>

(* Line 51: the base is shifted by offset; lines 53-54: a load that is   *)
(* not 64-bit is left at that.                                           *)
LoadNarrow ==
    /\ AtInstr
    /\ Instr.op = "load" /\ Instr.bits # 64
    /\ prog' = [prog EXCEPT ![b][i].base = @ + offset]
    /\ i' = i + 1
    /\ UNCHANGED <<orig, b, offset, progress, ssa_alloc>>

(* Fault-injected: MIN2(num_components, 4) dropped, no split.             *)
LoadWide_noClamp ==
    /\ AtInstr
    /\ Instr.op = "load" /\ Instr.bits = 64
    /\ prog' = [prog EXCEPT ![b][i].base = @ + offset, ![b][i].nc = 2 * @]
    /\ i' = i + 1
    /\ UNCHANGED <<orig, b, offset, progress, ssa_alloc>>

(* Lines 51-63: a 64-bit load of at most two components is widened to     *)
(* twice its components and stays one load.                              *)
LoadWide ==
    /\ AtInstr
    /\ Instr.op = "load" /\ Instr.bits = 64 /\ 2 * Instr.nc <= 4
    /\ prog' = [prog EXCEPT ![b][i].base = @ + offset, ![b][i].nc = 2 * @]
    /\ i' = i + 1
    /\ UNCHANGED <<orig, b, offset, progress, ssa_alloc>>

(* A load of the components past the first four, built after the load's   *)
(* base was shifted to base, with the next SSA index (lines 66-76).       *)
SplitLoad(base, nc) ==
    [op |-> "load", id |-> ssa_alloc, base |-> base + 1,
     nc |-> nc, bits |-> 64, src |-> <<>>]

(* Fault-injected: offset is not advanced after a split.                 *)
LoadSplit_noOffset ==
    /\ AtInstr
    /\ Instr.op = "load" /\ Instr.bits = 64 /\ 2 * Instr.nc > 4
    /\ LET k    == Instr.id
           base == Instr.base + offset
           blk  == [prog[b] EXCEPT ![i].base = base, ![i].nc = 4]
           new  == SplitLoad(base, 2 * Instr.nc - 4)
       IN prog' = [prog EXCEPT ![b] =
                     RewriteUses(SubSeq(blk, 1, i) \o <<new>>
                                 \o SubSeq(blk, i + 1, Len(blk)),
                                 k, new.id)]
    /\ i' = i + 2
    /\ progress' = TRUE
    /\ ssa_alloc' = ssa_alloc + 1
    /\ UNCHANGED <<orig, b, offset>>

(* Lines 51-113: a 64-bit load of three or four components keeps four,    *)
(* the rest goes to a new load of the next slot inserted after it, which  *)
(* the iteration, holding the old next instruction, does not visit; later *)
(* loads of the block are shifted one slot more; the uses that read Z or  *)
(* W of it are moved to X or Y of the new load.                           *)
LoadSplit ==
    /\ AtInstr
    /\ Instr.op = "load" /\ Instr.bits = 64 /\ 2 * Instr.nc > 4
    /\ LET k    == Instr.id
           base == Instr.base + offset
           blk  == [prog[b] EXCEPT ![i].base = base, ![i].nc = 4]
           new  == SplitLoad(base, 2 * Instr.nc - 4)
       IN prog' = [prog EXCEPT ![b] =
                     RewriteUses(SubSeq(blk, 1, i) \o <<new>>
                                 \o SubSeq(blk, i + 1, Len(blk)),
                                 k, new.id)]
    /\ offset' = offset + 1
    /\ i' = i + 2
    /\ progress' = TRUE
    /\ ssa_alloc' = ssa_alloc + 1
    /\ UNCHANGED <<orig, b>>

(* nir_foreach_block moves to the next block, whose fix_64bits_block      *)
(* starts with offset 0 (lines 35-39, 133).                               *)
NextBlock ==
    /\ b <= Len(prog) /\ i > Len(prog[b])
    /\ b' = b + 1
    /\ i' = 1
    /\ offset' = 0
    /\ UNCHANGED <<orig, prog, progress, ssa_alloc>>

(* The instructions of program p, and its load with SSA id k.             *)
InstrsOf(p) == UNION {{p[n][m] : m \in 1..Len(p[n])} : n \in 1..Len(p)}
LoadOf(p, k) == CHOOSE l \in InstrsOf(p) : l.op = "load" /\ l.id = k

Init ==
    /\ orig \in Programs
    /\ prog = orig
    /\ ssa_alloc = 1 + CHOOSE x \in {l.id : l \in InstrsOf(orig)} :
                         \A l \in InstrsOf(orig) : l.id <= x
    /\ b = 1 /\ i = 1
    /\ offset = 0
    /\ progress = FALSE

Next ==
    \/ SkipInstr \/ LoadNarrow \/ LoadWide \/ LoadSplit \/ NextBlock

Spec == Init /\ [][Next]_vars

Done == b > Len(prog)

-----------------------------------------------------------------------------
TypeOK ==
    /\ b \in 1..(Len(orig) + 1) /\ offset \in Nat /\ progress \in BOOLEAN
    /\ Len(prog) = Len(orig)
    /\ \A n \in 1..Len(prog) : \A m \in 1..Len(prog[n]) :
          prog[n][m].op = "load" => prog[n][m].nc \in 1..4

(* The input loads of the shader before the pass.                         *)
Inputs == {l \in InstrsOf(orig) : l.op = "load"}

(* The attribute slots an input occupies, and the first slot of input a  *)
(* once every input at a lower location has taken its slots.             *)
Slots(a) == IF \E l \in Inputs : l.base = a /\ l.bits = 64 /\ l.nc > 2
            THEN 2 ELSE 1
RECURSIVE SlotSum(_)
SlotSum(S) == IF S = {} THEN 0
              ELSE LET a == CHOOSE x \in S : TRUE IN Slots(a) + SlotSum(S \ {a})
RefBase(a) == SlotSum({l.base : l \in {l2 \in Inputs : l2.base < a}})

(* When the pass has returned, each ALU source reads the slot and         *)
(* component where the attribute data it read before the pass now is: a   *)
(* two-slot input's X and Y in its first slot, its Z and W as X and Y of  *)
(* the second, every input's first slot past the slots of the inputs at   *)
(* lower locations.                                                       *)
ReadsRemapped ==
    Done =>
      \A n \in 1..Len(orig) : \A m \in 1..Len(orig[n]) :
        orig[n][m].op = "alu" =>
          \A s \in DOMAIN orig[n][m].src :
            LET old == orig[n][m].src[s]
                a   == LoadOf(orig, old.id).base
                hi  == Slots(a) = 2 /\ old.swz >= 2
                new == prog[n][CHOOSE x \in 1..Len(prog[n]) :
                                  prog[n][x].op = "alu"
                                  /\ prog[n][x].id = orig[n][m].id].src[s]
            IN /\ LoadOf(prog, new.id).base = RefBase(a) + (IF hi THEN 1 ELSE 0)
               /\ new.swz = IF hi THEN old.swz - 2 ELSE old.swz
=============================================================================
