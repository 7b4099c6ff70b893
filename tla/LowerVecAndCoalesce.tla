------------------------- MODULE LowerVecAndCoalesce -------------------------
(***************************************************************************)
(* nir_lower_vec_and_coalesce (src/glsl/nir/nir_lower_vec_and_coalesce.c) *)
(* on one function of a shader in register (non-SSA) form: for each vecN   *)
(* with a register destination, a channel read from a register written by *)
(* an ALU instruction of the same block, used only there and not an imov,  *)
(* is computed by a clone of that instruction written straight into the    *)
(* vecN's destination; the channels left are moved by a smaller vec or an  *)
(* imov, the vecN is removed, and so are temporaries left without defs or  *)
(* uses.                                                                   *)
(*                                                                         *)
(* A shader is a sequence of blocks of instructions [id, op, dest, wmask,  *)
(* src]: dest a register, wmask the set of channels written, src a         *)
(* sequence of sources [ssa, reg, swz] (swz: channel -> component; an SSA  *)
(* source is a constant named by reg).  op "load" stands for any non-ALU   *)
(* instruction that writes a register.                                     *)
(***************************************************************************)
EXTENDS Integers, SequencesExt

CONSTANTS
    Programs,    \* the functions the pass may be run on
    Outs         \* the registers read after the function (live out)

Chans == 0..3

(* nir_op_infos[op].num_inputs.                                            *)
NumInputs(op) ==
    CASE op \in {"fadd", "fdot2", "vec2"} -> 2
      [] op = "vec3" -> 3
      [] op = "vec4" -> 4
      [] OTHER -> 1
IsVec(op) == op \in {"vec2", "vec3", "vec4"}

VARIABLES
    orig,        \* the function before the pass (frozen)
    prog,        \* the function as the pass rewrites it
    regs,        \* the function's registers (impl->registers)
    nextId,      \* identity for the next instruction created
    pc           \* where the pass is; see Init and the actions

vars == <<orig, prog, regs, nextId, pc>>

Ids(blk) == {blk[m].id : m \in DOMAIN blk}
Pos(blk, id) == SelectInSeq(blk, LAMBDA x : x.id = id)
BlockOf(id) == CHOOSE n \in DOMAIN prog : id \in Ids(prog[n])
InstrOf(id) == prog[BlockOf(id)][Pos(prog[BlockOf(id)], id)]
AllInstrs == FoldLeft(LAMBDA acc, blk : acc \o blk, <<>>, prog)

(* The register's use and def lists, in program order.                    *)
Uses(r) == Len(SelectSeq(FoldLeft(LAMBDA acc, x : acc \o x.src, <<>>, AllInstrs),
                         LAMBDA s : ~s.ssa /\ s.reg = r))
Defs(r) == [k \in 1..Len(SelectSeq(AllInstrs, LAMBDA x : x.dest = r)) |->
               SelectSeq(AllInstrs, LAMBDA x : x.dest = r)[k].id]

(* The instruction following id in its block, or End (ids are positive). *)
End == 0
After(id) == LET blk == prog[BlockOf(id)] IN
             IF Pos(blk, id) = Len(blk) THEN End ELSE blk[Pos(blk, id) + 1].id

(* nir_foreach_instr_safe moves on to the instruction it saved, or to the *)
(* next block; "freed" if the pass removed the saved instruction.          *)
Advance(b, next) ==
    IF next = End
    THEN IF b = Len(prog') THEN [at |-> "done"]
         ELSE [at |-> "instr", b |-> b + 1, cur |-> prog'[b + 1][1].id]
    ELSE IF next \in Ids(prog'[b]) THEN [at |-> "instr", b |-> b, cur |-> next]
    ELSE [at |-> "freed"]

(* Lines 110-123: an instruction that is not a vecN is passed over.       *)
SkipInstr ==
    /\ pc.at = "instr"
    /\ ~IsVec(InstrOf(pc.cur).op)
    /\ UNCHANGED <<orig, prog, regs, nextId>>
    /\ pc' = Advance(pc.b, After(pc.cur))

(* Lines 128-130: a vecN; the body starts with channel 0.                 *)
StartVec ==
    /\ pc.at = "instr"
    /\ IsVec(InstrOf(pc.cur).op)
    /\ pc' = [at |-> "chan", b |-> pc.b, vec |-> pc.cur, next |-> After(pc.cur),
              i |-> 0, finished |-> {}, tracked |-> <<>>]
    /\ UNCHANGED <<orig, prog, regs, nextId>>

(* Lines 132-145: channel i, if written and read from a register, walks   *)
(* the defs of that register.                                             *)
Channel ==
    /\ pc.at = "chan" /\ pc.i < 4
    /\ LET v == InstrOf(pc.vec) IN
       IF pc.i \in v.wmask /\ ~v.src[pc.i + 1].ssa
       THEN pc' = [at |-> "def", b |-> pc.b, vec |-> pc.vec, next |-> pc.next,
                   i |-> pc.i, finished |-> pc.finished, tracked |-> pc.tracked,
                   defs |-> Defs(v.src[pc.i + 1].reg)]
       ELSE pc' = [pc EXCEPT !.i = @ + 1]
    /\ UNCHANGED <<orig, prog, regs, nextId>>

(* Fault-injected: the sources are copied without the swizzle override.  *)
clone_noSwizzle(p, v, index, id) ==
    [id |-> id, op |-> p.op, dest |-> v.dest, wmask |-> {index},
     src |-> [j \in 1..NumInputs(p.op) |-> p.src[j]]]

(* Fault-injected: the write mask keeps only the parent's bit of index.   *)
clone_parentMask(p, v, index, id) ==
    [id |-> id, op |-> p.op, dest |-> v.dest, wmask |-> p.wmask \cap {index},
     src |-> [j \in 1..NumInputs(p.op) |-> p.src[j]]]

(* Lines 57-94: the clone of p writing channel index of vec's dest.       *)
clone_alu_instr_and_override_dest(p, v, index, id) ==
    LET channel == CHOOSE c \in p.wmask : \A c2 \in p.wmask : c <= c2
    IN [id |-> id, op |-> p.op, dest |-> v.dest, wmask |-> {index},
        src |-> [j \in 1..NumInputs(p.op) |->
                   IF p.op = "fdot2" THEN p.src[j]
                   ELSE [p.src[j] EXCEPT !.swz[index] = p.src[j].swz[channel]]]]

(* Lines 145-201: one def d of the register: skipped unless it is an ALU  *)
(* instruction of the vec's block, not imov, whose register has that one  *)
(* use; otherwise removed, its clone put before the vec, the channel      *)
(* marked finished and the register tracked.                              *)
Def ==
    /\ pc.at = "def" /\ pc.defs # <<>>
    /\ LET d == Head(pc.defs)
           p == InstrOf(d)
           v == InstrOf(pc.vec)
           rest == [pc EXCEPT !.defs = Tail(@)]
       IN IF BlockOf(d) = pc.b /\ p.op # "load" /\ Uses(p.dest) = 1
             /\ p.op # "imov"
          THEN LET blk == RemoveAt(prog[pc.b], Pos(prog[pc.b], d))
                   new == clone_alu_instr_and_override_dest(p, v, pc.i, nextId)
               IN /\ prog' = [prog EXCEPT ![pc.b] =
                                InsertAt(blk, Pos(blk, pc.vec), new)]
                  /\ nextId' = nextId + 1
                  /\ pc' = [rest EXCEPT !.finished = @ \cup {pc.i},
                                        !.tracked = IF p.dest \in Range(@) THEN @
                                                    ELSE Append(@, p.dest)]
          ELSE /\ pc' = rest
               /\ UNCHANGED <<prog, nextId>>
    /\ UNCHANGED <<orig, regs>>

(* The def list is exhausted: on to the next channel.                     *)
DefsDone ==
    /\ pc.at = "def" /\ pc.defs = <<>>
    /\ pc' = [at |-> "chan", b |-> pc.b, vec |-> pc.vec, next |-> pc.next,
              i |-> pc.i + 1, finished |-> pc.finished, tracked |-> pc.tracked]
    /\ UNCHANGED <<orig, prog, regs, nextId>>

(* Lines 204-205: no channel was propagated; the vec stays.               *)
KeepVec ==
    /\ pc.at = "chan" /\ pc.i = 4 /\ pc.finished = {}
    /\ UNCHANGED <<orig, prog, regs, nextId>>
    /\ pc' = Advance(pc.b, pc.next)

(* Lines 207-245: the channels left, packed into the sources of a new     *)
(* vec of their count (an imov for one), the source for channel i taking  *)
(* swizzle[i] = the old source's swizzle[c]; none for no channel left.    *)
Remaining(v, fin) ==
    SetToSortSeq({i \in 0..(NumInputs(v.op) - 1) : i \in v.wmask /\ i \notin fin},
                 LAMBDA x, y : x < y)
Reduced(v, fin, id) ==
    LET left == Remaining(v, fin)
        c    == Len(left)
    IN [id |-> id, op |-> CASE c = 1 -> "imov" [] c = 2 -> "vec2" [] c = 3 -> "vec3",
        dest |-> v.dest, wmask |-> {left[k] : k \in 1..c},
        src |-> [k \in 1..c |->
                   [v.src[left[k] + 1] EXCEPT !.swz[left[k]] =
                       v.src[left[k] + 1].swz[k - 1]]]]

(* A register some instruction of program p reads or writes.               *)
Named(p, r) == \E n \in DOMAIN p : \E m \in DOMAIN p[n] :
                  \/ p[n][m].dest = r
                  \/ \E s \in DOMAIN p[n][m].src : ~p[n][m].src[s].ssa
                                                /\ p[n][m].src[s].reg = r
RegsOf(p) ==
    LET xs == Range(FoldLeft(LAMBDA acc, blk : acc \o blk, <<>>, p))
    IN {x.dest : x \in xs}
       \cup UNION {{x.src[k].reg : k \in {j \in DOMAIN x.src : ~x.src[j].ssa}} :
                   x \in xs}

(* Lines 207-258: the reduced vec goes before the vecN, the vecN is       *)
(* removed, then every tracked register without defs or uses.             *)
ReplaceVec ==
    /\ pc.at = "chan" /\ pc.i = 4 /\ pc.finished # {}
    /\ LET v    == InstrOf(pc.vec)
           blk  == prog[pc.b]
           red  == Reduced(v, pc.finished, nextId)
           blk2 == IF Len(Remaining(v, pc.finished)) = 0 THEN blk
                   ELSE InsertAt(blk, Pos(blk, pc.vec), red)
       IN prog' = [prog EXCEPT ![pc.b] = RemoveAt(blk2, Pos(blk2, pc.vec))]
    /\ nextId' = nextId + 1
    /\ regs' = regs \ {r \in Range(pc.tracked) : ~Named(prog', r)}
    /\ pc' = Advance(pc.b, pc.next)
    /\ UNCHANGED orig

Init ==
    /\ orig \in Programs
    /\ prog = orig
    /\ regs = RegsOf(orig)
    /\ nextId = 100
    /\ pc = [at |-> "instr", b |-> 1, cur |-> orig[1][1].id]

Next ==
    \/ SkipInstr \/ StartVec \/ Channel \/ Def \/ DefsDone
    \/ KeepVec \/ ReplaceVec

Spec == Init /\ [][Next]_vars

Done == pc.at = "done"

-----------------------------------------------------------------------------
(* The value a register channel holds after a block sequence runs, as a   *)
(* term over the function's inputs: moves (imov, vecN) copy, any other op  *)
(* builds op(args), per channel through the source swizzles, fdot2 of the *)
(* first two components; a vecN channel past its sources is undefined.    *)
Val(env, s, c) == IF s.ssa THEN <<"const", s.reg>> ELSE env[s.reg][c]
Compute(env, x, c) ==
    CASE x.op = "load" -> <<"load", x.id>>
      [] x.op = "imov" -> Val(env, x.src[1], x.src[1].swz[c])
      [] IsVec(x.op)   -> IF c < NumInputs(x.op)
                          THEN Val(env, x.src[c + 1], x.src[c + 1].swz[0])
                          ELSE <<"undef">>
      [] x.op = "fdot2" -> <<"fdot2", Val(env, x.src[1], x.src[1].swz[0]),
                                      Val(env, x.src[1], x.src[1].swz[1]),
                                      Val(env, x.src[2], x.src[2].swz[0]),
                                      Val(env, x.src[2], x.src[2].swz[1])>>
      [] OTHER -> <<x.op>> \o [k \in 1..NumInputs(x.op) |->
                                 Val(env, x.src[k], x.src[k].swz[c])]
Step(env, x) ==
    [env EXCEPT ![x.dest] = [c \in Chans |->
                              IF c \in x.wmask THEN Compute(env, x, c) ELSE @[c]]]
Exec(p) ==
    FoldLeft(Step, [r \in RegsOf(orig) |-> [c \in Chans |-> <<"in", r, c>>]],
             FoldLeft(LAMBDA acc, blk : acc \o blk, <<>>, p))

TypeOK ==
    /\ pc.at \in {"instr", "chan", "def", "done", "freed"}
    /\ regs \subseteq RegsOf(orig)
    /\ \A x \in Range(AllInstrs) : x.wmask \subseteq Chans /\ x.wmask # {}

(* nir_foreach_instr_safe goes on from the instruction it saved before    *)
(* the body ran: that instruction is still in the block, not freed.      *)
NextInstrNotFreed == pc.at # "freed"

(* When the pass is done, every live-out register holds, in every channel, *)
(* the value it held before: the clones compute what the removed          *)
(* instructions did, into the vec's channel, and the reduced vec moves    *)
(* the rest.                                                              *)
CoalescePreservesValues ==
    Done => \A r \in Outs \cap RegsOf(orig) : Exec(prog)[r] = Exec(orig)[r]
=============================================================================
