----------------------------- MODULE ResourceList ------------------------------
(***************************************************************************)
(* nir_build_program_resource_list and add_program_resource               *)
(* (src/compiler/nir/nir_linking_helpers.c): the program resource list     *)
(* builder, called once per link of a program object, possibly again on    *)
(* the same object.                                                        *)
(*                                                                         *)
(* Its inputs are frozen: the active_shader_mask of every UniformStorage   *)
(* entry and the vertex stage's inputs.  A resource's Data pointer is an   *)
(* identity: <<"uniform", i>> for &UniformStorage[i], <<"input", b, k>>    *)
(* for the gl_shader_variable the b-th build rzallocs for the k-th input.  *)
(* ProgramResourceList is a sequence, <<>> standing for NULL (a non-NULL   *)
(* list always holds at least one slot); a slot reralloc did not copy from *)
(* a previous block is Garbage.  Stage masks are sets of stage indices.    *)
(***************************************************************************)
EXTENDS Naturals, Sequences, FiniteSets

CONSTANTS
    Stages,          \* shader stage indices (bits of a stage mask)
    MESA_SHADER_VERTEX,
    MaxUniforms,     \* most UniformStorage entries
    MaxInputs,       \* most vertex shader inputs
    MaxBuilds,       \* bound on calls of nir_build_program_resource_list
    CanFail          \* whether reralloc may return NULL

ASSUME /\ MESA_SHADER_VERTEX \in Stages
       /\ MaxUniforms \in Nat /\ MaxInputs \in Nat
       /\ MaxBuilds \in Nat \ {0} /\ CanFail \in BOOLEAN

(* An uninitialised gl_program_resource.                                 *)
Garbage == [type |-> "garbage", data |-> <<>>, stages |-> {}]

VARIABLES
    umasks,      \* active_shader_mask of UniformStorage[0..n-1] (frozen)
    nInputs,     \* number of vertex inputs, 0 without a vertex stage
    list,        \* prog->data->ProgramResourceList (<<>>: NULL)
    num,         \* prog->data->NumProgramResourceList
    set,         \* the resource_set of the running build
    liveSets,    \* resource sets created and not destroyed
    linkOk,      \* prog->data->LinkStatus # linking_failure
    pc,          \* [at: idle|uniforms|inputs|end|done|failed, i: index]
    builds       \* calls of nir_build_program_resource_list so far

vars == <<umasks, nInputs, list, num, set, liveSets, linkOk, pc, builds>>

Resource(type, data, stages) == [type |-> type, data |-> data,
                                 stages |-> stages]

(* The list is freed but its count is not reset.                        *)
Begin_keepCount ==
    /\ pc.at \in {"idle", "done", "failed"}
    /\ builds < MaxBuilds
    /\ \/ /\ list # <<>>
          /\ list' = <<>>
          /\ UNCHANGED num
       \/ /\ list = <<>>
          /\ UNCHANGED <<list, num>>
    /\ set' = {}
    /\ liveSets' = liveSets + 1
    /\ builds' = builds + 1
    /\ pc' = [at |-> "uniforms", i |-> 0]
    /\ UNCHANGED <<umasks, nInputs, linkOk>>

(* Lines 567-577: the list is freed only when the pointer is non-NULL,    *)
(* and a new resource_set is created.                                     *)
Begin ==
    /\ pc.at \in {"idle", "done", "failed"}
    /\ builds < MaxBuilds
    /\ \/ /\ list # <<>>
          /\ list' = <<>>
          /\ num' = 0
       \/ /\ list = <<>>
          /\ UNCHANGED <<list, num>>
    /\ set' = {}
    /\ liveSets' = liveSets + 1
    /\ builds' = builds + 1
    /\ pc' = [at |-> "uniforms", i |-> 0]
    /\ UNCHANGED <<umasks, nInputs, linkOk>>

(* Fault-injected variants of the definitions that follow, each a bug   *)
(* the code could plausibly have; a property that holds must detect one. *)

(* The caller goes on after add_program_resource returned false.         *)
add_program_resource_ignoreFailure(type, data, stages, next) ==
    IF data \in set
    THEN /\ pc' = next
         /\ UNCHANGED <<list, num, set, linkOk>>
    ELSE \/ /\ CanFail
            /\ list' = <<>>
            /\ linkOk' = FALSE
            /\ pc' = next
            /\ UNCHANGED <<num, set>>
         \/ /\ list' = [k \in 1..(num + 1) |->
                          IF k = num + 1 THEN Resource(type, data, stages)
                          ELSE IF k <= Len(list) THEN list[k] ELSE Garbage]
            /\ num' = num + 1
            /\ set' = set \cup {data}
            /\ pc' = next
            /\ UNCHANGED linkOk

(* add_program_resource, then the caller's loop advances to next, or      *)
(* returns at once when it failed (lines 529-564, 587-591, 606-609).  A   *)
(* data pointer already in the set is skipped; no caller passes one.      *)
add_program_resource(type, data, stages, next) ==
    IF data \in set
    THEN /\ pc' = next
         /\ UNCHANGED <<list, num, set, linkOk>>
    ELSE \/ /\ CanFail             \* reralloc returned NULL (546-550)
            /\ list' = <<>>
            /\ linkOk' = FALSE
            /\ pc' = [at |-> "failed", i |-> 0]
            /\ UNCHANGED <<num, set>>
         \/ /\ list' = [k \in 1..(num + 1) |->
                          IF k = num + 1 THEN Resource(type, data, stages)
                          ELSE IF k <= Len(list) THEN list[k] ELSE Garbage]
            /\ num' = num + 1
            /\ set' = set \cup {data}
            /\ pc' = next
            /\ UNCHANGED linkOk

(* The vertex inputs, or the end of the build when there are none.        *)
AfterUniforms == IF nInputs > 0 THEN [at |-> "inputs", i |-> 0]
                 ELSE [at |-> "end", i |-> 0]

(* A uniform is given the vertex-only mask of a program input.          *)
AddUniform_vertexMask ==
    /\ pc.at = "uniforms"
    /\ pc.i < Len(umasks)
    /\ add_program_resource("uniform", <<"uniform", pc.i>>, {MESA_SHADER_VERTEX},
                            IF pc.i + 1 < Len(umasks)
                            THEN [pc EXCEPT !.i = @ + 1] ELSE AfterUniforms)
    /\ UNCHANGED <<umasks, nInputs, liveSets, builds>>

(* Lines 583-592: one resource per UniformStorage entry.                  *)
AddUniform ==
    /\ pc.at = "uniforms"
    /\ pc.i < Len(umasks)
    /\ add_program_resource("uniform", <<"uniform", pc.i>>, umasks[pc.i + 1],
                            IF pc.i + 1 < Len(umasks)
                            THEN [pc EXCEPT !.i = @ + 1] ELSE AfterUniforms)
    /\ UNCHANGED <<umasks, nInputs, liveSets, builds>>

(* The uniform loop of an empty UniformStorage.                           *)
NoUniforms ==
    /\ pc.at = "uniforms"
    /\ Len(umasks) = 0
    /\ pc' = AfterUniforms
    /\ UNCHANGED <<umasks, nInputs, list, num, set, liveSets, linkOk, builds>>

(* Lines 595-611: one fresh gl_shader_variable per vertex input.          *)
AddInput ==
    /\ pc.at = "inputs"
    /\ add_program_resource("input", <<"input", builds, pc.i>>,
                            {MESA_SHADER_VERTEX},
                            IF pc.i + 1 < nInputs
                            THEN [pc EXCEPT !.i = @ + 1]
                            ELSE [at |-> "end", i |-> 0])
    /\ UNCHANGED <<umasks, nInputs, liveSets, builds>>

(* Line 614, reached only by a build that did not fail.                   *)
DestroySet ==
    /\ pc.at = "end"
    /\ set' = {}
    /\ liveSets' = liveSets - 1
    /\ pc' = [at |-> "done", i |-> 0]
    /\ UNCHANGED <<umasks, nInputs, list, num, linkOk, builds>>

(* The frozen inputs: up to MaxUniforms entries, each active in a         *)
(* non-empty set of stages, and up to MaxInputs vertex inputs.            *)
Init ==
    /\ umasks \in UNION {[1..n -> SUBSET Stages \ {{}}] : n \in 0..MaxUniforms}
    /\ nInputs \in 0..MaxInputs
    /\ list = <<>>
    /\ num = 0
    /\ set = {}
    /\ liveSets = 0
    /\ linkOk = TRUE
    /\ pc = [at |-> "idle", i |-> 0]
    /\ builds = 0

Next ==
    \/ Begin
    \/ AddUniform
    \/ NoUniforms
    \/ AddInput
    \/ DestroySet

Spec == Init /\ [][Next]_vars

-----------------------------------------------------------------------------
(* The refinement mapping: a build in progress is "building"; a reader of *)
(* a finished build sees the first NumProgramResourceList entries of the  *)
(* list (a slot past the allocation reads as Garbage); a failed build     *)
(* leaves no table to read.                                               *)
Phase == CASE pc.at = "idle" -> "idle"
           [] pc.at \in {"uniforms", "inputs", "end"} -> "building"
           [] pc.at = "done" -> "done"
           [] pc.at = "failed" -> "failed"
Published == IF pc.at = "done"
             THEN [k \in 1..num |-> IF k <= Len(list) THEN list[k] ELSE Garbage]
             ELSE <<>>

A == INSTANCE ResourceListAbstract WITH phase <- Phase, published <- Published

-----------------------------------------------------------------------------
TypeOK ==
    /\ nInputs \in 0..MaxInputs
    /\ num \in 0..(MaxUniforms + MaxInputs)
    /\ \A k \in 1..Len(list) :
          /\ list[k].type \in {"uniform", "input", "garbage"}
          /\ list[k].stages \subseteq Stages
    /\ liveSets \in 0..MaxBuilds /\ linkOk \in BOOLEAN
    /\ pc.at \in {"idle", "uniforms", "inputs", "end", "done", "failed"}

(* The list a build should produce (spec 4.5): the uniforms in storage    *)
(* order with their active masks, then the inputs of this build with the  *)
(* vertex bit.                                                            *)
Expected == A!Expected

(* When a build of the resource list returns normally, the list holds     *)
(* exactly NumProgramResourceList initialised resources, one per storage  *)
(* entry and per vertex input, in that order: whatever an earlier build   *)
(* of the same program left behind is discarded.                          *)
ListIsUniformsThenInputs ==
    pc.at = "done" => /\ num = Len(list)
                      /\ list = Expected

(* Every build, seen from the table's readers, is one atomic rebuild from *)
(* scratch: it publishes exactly the expected list, or fails and marks    *)
(* the link failed; no step of a build changes the link status else.      *)
ImplementsAbstractList == A!Spec

=============================================================================
