------------------------- MODULE ResourceListAbstract -------------------------
(***************************************************************************)
(* What a build of the program resource list promises its readers: every  *)
(* call rebuilds the table from scratch, and the table a reader sees (the *)
(* first NumProgramResourceList entries of ProgramResourceList) is, once  *)
(* the call returns, either exactly one resource per UniformStorage entry  *)
(* and then one per vertex input of this build, or, when an allocation    *)
(* failed, empty with the link marked failed.  The steps a build takes in *)
(* between are invisible here: a build is one Start and one Publish or    *)
(* Fail.  Between calls the program may be linked again, changing what   *)
(* the next call reads.  ResourceList refines this module, alone and in   *)
(* LinkProgram.                                                           *)
(***************************************************************************)
EXTENDS Naturals, Sequences

CONSTANTS Stages, MESA_SHADER_VERTEX, MaxUniforms, MaxInputs, MaxBuilds, CanFail

VARIABLES
    umasks,      \* active_shader_mask of the UniformStorage entries
    nInputs,     \* number of vertex inputs
    phase,       \* idle | building | done | failed
    published,   \* the resources a reader of the table sees
    builds,      \* builds started
    linkOk       \* the link has not been marked failed

avars == <<umasks, nInputs, phase, published, builds, linkOk>>

(* The list a build publishes: the uniforms in storage order with their   *)
(* active masks, then this build's inputs with the vertex bit.           *)
Expected ==
    [k \in 1..Len(umasks) |->
        [type |-> "uniform", data |-> <<"uniform", k - 1>>, stages |-> umasks[k]]]
    \o [k \in 1..nInputs |->
        [type |-> "input", data |-> <<"input", builds, k - 1>>,
         stages |-> {MESA_SHADER_VERTEX}]]

Init ==
    /\ umasks \in UNION {[1..n -> SUBSET Stages \ {{}}] : n \in 0..MaxUniforms}
    /\ nInputs \in 0..MaxInputs
    /\ phase = "idle"
    /\ published = <<>>
    /\ builds = 0
    /\ linkOk = TRUE

(* A call starts, discarding the previous table.                         *)
Start ==
    /\ phase \in {"idle", "done", "failed"}
    /\ builds < MaxBuilds
    /\ phase' = "building"
    /\ published' = <<>>
    /\ builds' = builds + 1
    /\ UNCHANGED <<umasks, nInputs, linkOk>>

(* The call returns with the whole table.                                *)
Publish ==
    /\ phase = "building"
    /\ phase' = "done"
    /\ published' = Expected
    /\ UNCHANGED <<umasks, nInputs, builds, linkOk>>

(* The call returns early on an allocation failure.                      *)
Fail ==
    /\ CanFail /\ phase = "building"
    /\ phase' = "failed"
    /\ linkOk' = FALSE
    /\ UNCHANGED <<umasks, nInputs, published, builds>>

(* Between two calls the program is linked again: its UniformStorage,    *)
(* its inputs and its link status may change; the table published by the *)
(* last call stays as it was until the next call.                         *)
Relink ==
    /\ phase \in {"idle", "done", "failed"}
    /\ umasks' \in UNION {[1..n -> SUBSET Stages] : n \in 0..MaxUniforms}
    /\ nInputs' \in 0..MaxInputs
    /\ linkOk' \in BOOLEAN
    /\ UNCHANGED <<phase, published, builds>>

Next == Start \/ Publish \/ Fail \/ Relink

Spec == Init /\ [][Next]_avars

=============================================================================
