----------------------------- MODULE LinkProgram -----------------------------
(***************************************************************************)
(* One program object linked, and linked again, through the two program-  *)
(* wide steps of src/compiler/nir/nir_linking_helpers.c in the order of    *)
(* spec 2: nir_link_uniforms (allocator and remap table, UniformLinker),  *)
(* then nir_build_program_resource_list (ResourceList), which reads the   *)
(* UniformStorage the first left.  A link that failed is abandoned before *)
(* the resource list (spec 7); the application may link the program       *)
(* again at any time between two links.                                   *)
(*                                                                         *)
(* The two components share prog->data: LinkStatus, and UniformStorage,   *)
(* whose first NumUniformStorage entries' active_shader_mask is what the  *)
(* builder reads as umasks.  The vertex stage's inputs are fixed.         *)
(***************************************************************************)
EXTENDS Naturals, Sequences

CONSTANTS
    Types, Uniforms, Stages, MaxPerStage, MAX_SAMPLERS, MAX_IMAGE_UNIFORMS,
    MESA_SHADER_VERTEX,
    NInputs,         \* inputs of the vertex stage (fixed)
    MaxUniforms,     \* most UniformStorage entries a link creates
    MaxLinks,        \* bound on the links of the program
    UniformCanFail,  \* whether nir_link_uniforms' ralloc may return NULL
    ResourceCanFail  \* whether add_program_resource's reralloc may

VARIABLES
    decl, varLoc, storage, numStorage, st, sh, remap, numDataSlots,
    linkOk, errors, pc,                        \* nir_link_uniforms
    list, num, set, liveSets, rlPc, builds,    \* the resource list builder
    nInputs,                                   \* inputs of the vertex stage
    links                                      \* links of the program so far

ulVars == <<decl, varLoc, storage, numStorage, st, sh, remap, numDataSlots,
            errors, pc>>
rlVars == <<list, num, set, liveSets, rlPc, builds>>
vars == <<ulVars, rlVars, linkOk, nInputs, links>>

UL == INSTANCE UniformLinker WITH CanFail <- UniformCanFail

(* &UniformStorage[i] for i < NumUniformStorage, as the builder reads it: *)
(* the active_shader_mask of each entry (none past a lost array).         *)
UMasks == [k \in 1..numStorage |->
              IF k <= Len(storage) THEN storage[k].active ELSE {}]

RL == INSTANCE ResourceList
        WITH umasks <- UMasks, pc <- rlPc,
             MaxInputs <- NInputs, MaxBuilds <- MaxLinks,
             CanFail <- ResourceCanFail

(* A step of nir_link_uniforms; the builder's state is untouched.         *)
LinkUniforms ==
    /\ UL!Next
    /\ UNCHANGED <<rlVars, nInputs, links>>

(* The caller builds the resource list once the uniforms of this link are *)
(* linked, and only when that succeeded.                                  *)
BuildResources ==
    /\ UNCHANGED <<ulVars, nInputs, links>>
    /\ \/ /\ UL!Done /\ linkOk /\ builds < links
          /\ RL!Begin
       \/ RL!AddUniform \/ RL!NoUniforms \/ RL!AddInput \/ RL!DestroySet

(* The link in progress has returned: the uniforms were linked, and the   *)
(* resource list was built if they were linked successfully.              *)
LinkDone == UL!Done /\ rlPc.at \in {"idle", "done", "failed"}
            /\ (linkOk => builds = links)

(* Fault-injected: the previous link's UniformStorage is not freed.      *)
Relink_keepStorage ==
    /\ links < MaxLinks
    /\ LinkDone
    /\ decl' \in [Stages -> UL!DeclSeqs]
    /\ varLoc' = [s \in Stages |-> [u \in DOMAIN Uniforms |->
                                      Uniforms[u].location]]
    /\ st' = [numValues |-> 0, maxLocation |-> 0, samplersUsed |-> {},
              shadowSamplers |-> {}, nextSampler |-> 0, nextImage |-> 0,
              numSamplers |-> 0, numImages |-> 0, numComponents |-> 0]
    /\ linkOk' = TRUE
    /\ errors' = 0
    /\ pc' = [pc EXCEPT !.at = "vars", !.stage = 0, !.pos = 1, !.leaves = <<>>]
    /\ links' = links + 1
    /\ UNCHANGED <<storage, numStorage, sh, remap, numDataSlots, rlVars, nInputs>>

(* Lines 462-468: the next link frees UniformStorage and zeroes its count *)
(* and the allocator state; the caller resets the status and the log, and *)
(* the stages' NIR is created again from the shaders now attached, which  *)
(* the application may have changed.  The per-stage program fields, the   *)
(* remap table and ProgramResourceList keep the previous link's values    *)
(* until overwritten.                                                     *)
Relink ==
    /\ links < MaxLinks
    /\ LinkDone
    /\ decl' \in [Stages -> UL!DeclSeqs]
    /\ varLoc' = [s \in Stages |-> [u \in DOMAIN Uniforms |->
                                      Uniforms[u].location]]
    /\ storage' = <<>>
    /\ numStorage' = 0
    /\ st' = [numValues |-> 0, maxLocation |-> 0, samplersUsed |-> {},
              shadowSamplers |-> {}, nextSampler |-> 0, nextImage |-> 0,
              numSamplers |-> 0, numImages |-> 0, numComponents |-> 0]
    /\ linkOk' = TRUE
    /\ errors' = 0
    /\ pc' = [pc EXCEPT !.at = "vars", !.stage = 0, !.pos = 1, !.leaves = <<>>]
    /\ links' = links + 1
    /\ UNCHANGED <<sh, remap, numDataSlots, rlVars, nInputs>>

Init ==
    /\ UL!Init
    /\ list = <<>> /\ num = 0 /\ set = {} /\ liveSets = 0
    /\ rlPc = [at |-> "idle", i |-> 0] /\ builds = 0
    /\ nInputs = NInputs
    /\ links = 1

Next == LinkUniforms \/ BuildResources \/ Relink

Spec == Init /\ [][Next]_vars

-----------------------------------------------------------------------------
TypeOK ==
    /\ RL!TypeOK /\ links \in 1..MaxLinks
    /\ numStorage \in 0..MaxUniforms /\ errors \in Nat
    /\ \A k \in 1..Len(storage) : storage[k].active \subseteq Stages
    /\ remap \in Seq(0..MaxUniforms)
    /\ pc.at \in {"vars", "leaf", "remap", "done"}

(* After every successful link, first or later, the two tables that point *)
(* into UniformStorage point into the array this link allocated: every    *)
(* UniformRemapTable slot is empty or one of its NumUniformStorage         *)
(* entries, and ProgramResourceList holds one resource per entry, with    *)
(* that entry's active_shader_mask, then the vertex inputs.  Nothing of   *)
(* the tables the previous link built, whose pointers the relink's free   *)
(* of the array left dangling, is left.                                   *)
LinkedTablesMatchStorage ==
    LinkDone /\ linkOk =>
        /\ \A l \in 1..Len(remap) : remap[l] \in 0..numStorage
        /\ num = numStorage + nInputs
        /\ \A k \in 1..numStorage :
              /\ k <= Len(list) /\ k <= Len(storage)
              /\ list[k] = [type |-> "uniform", data |-> <<"uniform", k - 1>>,
                            stages |-> storage[k].active]

(* Seen from the readers of the table, the builder still rebuilds it      *)
(* atomically from scratch, though the program is relinked in between.    *)
ImplementsAbstractList == RL!ImplementsAbstractList
=============================================================================
