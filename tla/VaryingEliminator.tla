--------------------------- MODULE VaryingEliminator ---------------------------
(***************************************************************************)
(* nir_remove_unused_varyings (src/compiler/nir/nir_linking_helpers.c)     *)
(* run on one producer/consumer pair of shader stages.                     *)
(*                                                                         *)
(* A variable is identified by its declaration record (location, location *)
(* frac, patch flag, number of slots of its per-vertex element type,       *)
(* always_active_io).  The shader keeps one tagged entry per declaration:  *)
(* its current location and its mode, "out"/"in" while it is on the        *)
(* interface list, "global" once exec_node_remove/push_tail moved it to    *)
(* shader->globals.  Slot masks are sets of bit indices in 0..63.          *)
(*                                                                         *)
(* The pass is sequential; the model steps through its three phases (build *)
(* the masks, prune the producer, prune the consumer) and lets the caller  *)
(* call it again, as optimisation loops do, up to MaxCalls times.          *)
(***************************************************************************)
EXTENDS Integers, FiniteSets, FiniteSetsExt

CONSTANTS
    VAR0,            \* VARYING_SLOT_VAR0: first generic slot
    PATCH0,          \* VARYING_SLOT_PATCH0: base of the per-patch slot space
    Decls,           \* the declarations a stage may contain
    MaxVars,         \* most interface variables per side
    MaxCalls,        \* bound on calls of nir_remove_unused_varyings
    ShiftOutcomes    \* what a 64-bit shift by >= 64 yields in the build

ASSUME /\ VAR0 \in Nat /\ PATCH0 \in Nat /\ VAR0 < PATCH0
       /\ MaxVars \in Nat /\ MaxCalls \in Nat \ {0}
       /\ ShiftOutcomes \subseteq {"wrap", "zero"} /\ ShiftOutcomes # {}

VARIABLES
    producerStage,   \* producer->info.stage: TESS_CTRL or another stage
    shiftUB,         \* the build's outcome for an oversized shift
    pvar,            \* producer outputs: decl -> [location, mode]
    cvar,            \* consumer inputs:  decl -> [location, mode]
    tcsReads,        \* producer outputs some load_var in the producer reads
    read, written, patchesRead, patchesWritten,  \* uint64_t x[4] masks
    progress,        \* the pass's return value
    pc,              \* "build" | "producer" | "consumer" | "done"
    calls            \* completed calls of the pass

vars == <<producerStage, shiftUB, pvar, cvar, tcsReads, read, written,
          patchesRead, patchesWritten, progress, pc, calls>>

Bits == 0..63
Fracs == 0..3
NoMask == [f \in Fracs |-> {}]

(* Fault-injected variants of the definitions that follow, each a bug   *)
(* the code could plausibly have; a property that holds must detect one. *)

(* The patch location is not rebased on VARYING_SLOT_PATCH0.              *)
get_variable_io_mask_norebase(d, location) ==
    IF location < 0 THEN {} ELSE {location + k : k \in 0..d.slots-1}

(* get_variable_io_mask: ((1ull << slots) - 1) << location, where the     *)
(* location of a patch variable is rebased as an unsigned subtraction.    *)
(* A built-in patch variable (below PATCH0) wraps to a count >= 64: the   *)
(* shift is undefined, and the build either uses the count mod 64 (x86-64 *)
(* and AArch64 shift instructions) or yields no bits.                     *)
get_variable_io_mask(d, location) ==
    IF location < 0 THEN {}
    ELSE LET shift == IF d.patch THEN location - PATCH0 ELSE location
             \* a negative shift is the unsigned count 2^32 + shift, and
             \* 2^32 + shift = shift (mod 64)
             eff   == IF 0 <= shift /\ shift < 64 THEN shift
                      ELSE IF shiftUB = "wrap" THEN shift % 64 ELSE -1
         IN IF eff < 0 THEN {}
            ELSE {eff + k : k \in 0..d.slots-1} \cap Bits

OnList(v) == {d \in DOMAIN v : v[d].mode # "global"}

(* OR of the masks of the listed variables with the given patch flag,     *)
(* indexed by location_frac.                                             *)
MaskOf(v, S, patch) ==
    [f \in Fracs |-> UNION {get_variable_io_mask(d, v[d].location) :
                            d \in {e \in S : e.patch = patch /\ e.frac = f}}]

Union4(a, b) == [f \in Fracs |-> a[f] \cup b[f]]

(* tcs_add_output_reads is not called.                                   *)
BuildMasks_noTcsReads ==
    /\ pc = "build"
    /\ written'        = MaskOf(pvar, OnList(pvar), FALSE)
    /\ patchesWritten' = MaskOf(pvar, OnList(pvar), TRUE)
    /\ read'           = MaskOf(cvar, OnList(cvar), FALSE)
    /\ patchesRead'    = MaskOf(cvar, OnList(cvar), TRUE)
    /\ progress' = FALSE
    /\ pc' = "producer"
    /\ UNCHANGED <<producerStage, shiftUB, pvar, cvar, tcsReads, calls>>

(* tcs_add_output_reads: the outputs a load_var of the producer reads,   *)
(* counted only while the variable still has mode nir_var_shader_out.     *)
tcs_add_output_reads == tcsReads \cap OnList(pvar)

(* Lines 139-167: the masks of both interfaces, with the TCS read-back.   *)
BuildMasks ==
    /\ pc = "build"
    /\ LET outs  == OnList(pvar)
           ins   == OnList(cvar)
           self  == IF producerStage = "TESS_CTRL" THEN tcs_add_output_reads
                    ELSE {}
       IN /\ written'        = MaskOf(pvar, outs, FALSE)
          /\ patchesWritten' = MaskOf(pvar, outs, TRUE)
          /\ read'           = Union4(MaskOf(cvar, ins, FALSE),
                                      MaskOf(pvar, self, FALSE))
          /\ patchesRead'    = Union4(MaskOf(cvar, ins, TRUE),
                                      MaskOf(pvar, self, TRUE))
    /\ progress' = FALSE
    /\ pc' = "producer"
    /\ UNCHANGED <<producerStage, shiftUB, pvar, cvar, tcsReads, calls>>

(* The other stage's mask is always taken at component 0.               *)
Unused_frac0(v, used, usedPatches) ==
    {d \in OnList(v) :
        /\ ~(v[d].location < VAR0 /\ v[d].location >= 0)
        /\ ~d.aa
        /\ (IF d.patch THEN usedPatches ELSE used)[0]
              \cap get_variable_io_mask(d, v[d].location) = {}}

(* remove_unused_io_vars: the listed variables it demotes.                *)
Unused(v, used, usedPatches) ==
    {d \in OnList(v) :
        /\ ~(v[d].location < VAR0 /\ v[d].location >= 0)
        /\ ~d.aa
        /\ (IF d.patch THEN usedPatches ELSE used)[d.frac]
              \cap get_variable_io_mask(d, v[d].location) = {}}

(* location = 0, mode = nir_var_global, moved to shader->globals.         *)
Demote(v, U) ==
    [d \in DOMAIN v |-> IF d \in U THEN [location |-> 0, mode |-> "global"]
                        ELSE v[d]]

remove_unused_io_vars_producer ==
    /\ pc = "producer"
    /\ LET U == Unused(pvar, read, patchesRead)
       IN /\ pvar' = Demote(pvar, U)
          /\ progress' = (U # {})
    /\ pc' = "consumer"
    /\ UNCHANGED <<producerStage, shiftUB, cvar, tcsReads, read, written,
                   patchesRead, patchesWritten, calls>>

(* progress = progress || remove_unused_io_vars(consumer, ...): the      *)
(* short circuit skips the consumer once the producer made progress.      *)
remove_unused_io_vars_consumer_shortcircuit ==
    /\ pc = "consumer"
    /\ LET U == IF progress THEN {} ELSE Unused(cvar, written, patchesWritten)
       IN /\ cvar' = Demote(cvar, U)
          /\ progress' = ((U # {}) \/ progress)
    /\ pc' = "done"
    /\ calls' = calls + 1
    /\ UNCHANGED <<producerStage, shiftUB, pvar, tcsReads, read, written,
                   patchesRead, patchesWritten>>

remove_unused_io_vars_consumer ==
    /\ pc = "consumer"
    /\ LET U == Unused(cvar, written, patchesWritten)
       IN /\ cvar' = Demote(cvar, U)
          /\ progress' = ((U # {}) \/ progress)
    /\ pc' = "done"
    /\ calls' = calls + 1
    /\ UNCHANGED <<producerStage, shiftUB, pvar, tcsReads, read, written,
                   patchesRead, patchesWritten>>

(* The caller runs the pass again on the same pair.                       *)
CallAgain ==
    /\ pc = "done"
    /\ calls < MaxCalls
    /\ pc' = "build"
    /\ UNCHANGED <<producerStage, shiftUB, pvar, cvar, tcsReads, read,
                   written, patchesRead, patchesWritten, progress, calls>>

SlotRange(d) == d.location .. d.location + d.slots - 1

(* An output and an input are the same varying when they share the slot  *)
(* space (patch flag) and component, and their slot ranges meet.          *)
Overlap(p, c) ==
    /\ p.patch = c.patch
    /\ p.frac = c.frac
    /\ SlotRange(p) \cap SlotRange(c) # {}

(* The compiler rejects a stage declaring two variables with overlapping *)
(* location and component (see Overlap above).                           *)
Interfaces ==
    {S \in UNION {kSubset(k, Decls) : k \in 0..MaxVars} :
        \A a, b \in S : a # b => ~Overlap(a, b)}

Init ==
    /\ producerStage \in {"TESS_CTRL", "OTHER"}
    /\ shiftUB \in ShiftOutcomes
    /\ \E P \in Interfaces, C \in Interfaces :
          /\ pvar = [d \in P |-> [location |-> d.location, mode |-> "out"]]
          /\ cvar = [d \in C |-> [location |-> d.location, mode |-> "in"]]
          /\ tcsReads \in SUBSET P
    /\ read = NoMask /\ written = NoMask
    /\ patchesRead = NoMask /\ patchesWritten = NoMask
    /\ progress = FALSE
    /\ pc = "build"
    /\ calls = 0

Next ==
    \/ BuildMasks
    \/ remove_unused_io_vars_producer
    \/ remove_unused_io_vars_consumer
    \/ CallAgain

Spec == Init /\ [][Next]_vars

-----------------------------------------------------------------------------
(* Reference definitions, in location space rather than mask space.      *)

BuiltIn(d) == 0 <= d.location /\ d.location < VAR0

OutputNeeded(p) ==
    \/ BuiltIn(p) \/ p.aa
    \/ \E c \in DOMAIN cvar : Overlap(p, c)
    \/ producerStage = "TESS_CTRL" /\ p \in tcsReads

InputNeeded(c) ==
    \/ BuiltIn(c) \/ c.aa
    \/ \E p \in DOMAIN pvar : Overlap(p, c)

Demoted(v) == DOMAIN v \ OnList(v)

-----------------------------------------------------------------------------
TypeOK ==
    /\ producerStage \in {"TESS_CTRL", "OTHER"}
    /\ shiftUB \in ShiftOutcomes
    /\ DOMAIN pvar \subseteq Decls /\ DOMAIN cvar \subseteq Decls
    /\ \A d \in DOMAIN pvar : pvar[d].mode \in {"out", "global"}
    /\ \A d \in DOMAIN cvar : cvar[d].mode \in {"in", "global"}
    /\ tcsReads \subseteq DOMAIN pvar
    /\ \A m \in {read, written, patchesRead, patchesWritten} :
          m \in [Fracs -> SUBSET Bits]
    /\ progress \in BOOLEAN
    /\ pc \in {"build", "producer", "consumer", "done"}
    /\ calls \in 0..MaxCalls

(* Soundness of the pruning: an output that the consumer reads at an      *)
(* overlapping slot of the same component, that another TCS invocation    *)
(* reads back, that is built in or always active, is never demoted; nor   *)
(* is an input some output writes.  Breaks if the masks are indexed by    *)
(* the wrong component or slot space, or the TCS read-back is lost.       *)
NoNeededVaryingDemoted ==
    /\ \A p \in Demoted(pvar) : ~OutputNeeded(p)
    /\ \A c \in Demoted(cvar) : ~InputNeeded(c)

(* Precision (spec 4.2 step 3 and 8, "elimination monotonicity"): when a  *)
(* call returns, every generic variable that nothing needs on the other   *)
(* side has been demoted, on both sides.                                  *)
UnneededVaryingDemoted ==
    pc = "done" =>
        /\ \A p \in OnList(pvar) : OutputNeeded(p)
        /\ \A c \in OnList(cvar) : InputNeeded(c)

(* The pass reaches its fixpoint in one call: calling it again on its own *)
(* result demotes nothing and returns false, so a caller looping "while   *)
(* progress" stops after the second call.                                 *)
SecondCallMakesNoProgress ==
    (pc = "done" /\ calls > 1) => ~progress

=============================================================================
