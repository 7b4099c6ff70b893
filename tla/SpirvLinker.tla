---------------------------- MODULE SpirvLinker ----------------------------
(***************************************************************************)
(* The two SPIR-V pieces of the tree: the table of SPIR-V extensions a     *)
(* driver supports, filled from its capabilities                          *)
(* (src/compiler/spirv/spirv_extensions.c), and the conversion of the     *)
(* NIR variables of a SPIR-V shader to GLSL IR variables at link time,    *)
(* with its link-time validation (src/compiler/glsl/nir_linker.cpp).      *)
(* A driver fills the table when it sets up a context, and may fill it    *)
(* again; a link converts the shader's variables one after the other.     *)
(* The two share no state, so their steps interleave freely.              *)
(*                                                                         *)
(* A NIR variable is a record [mode, location, named, depth]; an IR       *)
(* variable keeps the fields the properties tell apart.  The other data   *)
(* fields are copied one to one and left out; so are the message texts.  *)
(***************************************************************************)
EXTENDS Integers, Sequences, FiniteSets

CONSTANTS
    Shaders,     \* the variable lists of the shaders that may be linked
    Capabilities,\* the capability sets a driver may report
    MaxFills     \* how many times the driver fills the table

(* enum SpvExtension (spirv_extensions.h): 26 extensions, then the count. *)
SPV_EXTENSIONS_COUNT == 26
SpvExtension == 0..(SPV_EXTENSIONS_COUNT - 1)
SPV_KHR_shader_draw_parameters == 6
SPV_KHR_multiview == 10
SPV_KHR_variable_pointers == 18

(* spirv_extensions_to_string: the name of each enumerator, in order.    *)
ExtNames ==
  << "SPV_AMD_shader_explicit_vertex_parameter", "SPV_AMD_shader_trinary_minmax",
     "SPV_AMD_gcn_shader", "SPV_KHR_shader_ballot", "SPV_AMD_shader_ballot",
     "SPV_AMD_gpu_shader_half_float", "SPV_KHR_shader_draw_parameters",
     "SPV_KHR_subgroup_vote", "SPV_KHR_16bit_storage", "SPV_KHR_device_group",
     "SPV_KHR_multiview", "SPV_NVX_multiview_per_view_attributes",
     "SPV_NV_viewport_array2", "SPV_NV_stereo_view_rendering",
     "SPV_NV_sample_mask_override_coverage", "SPV_NV_geometry_shader_passthrough",
     "SPV_AMD_texture_gather_bias_lod", "SPV_KHR_storage_buffer_storage_class",
     "SPV_KHR_variable_pointers", "SPV_AMD_gpu_shader_int16",
     "SPV_KHR_post_depth_coverage", "SPV_KHR_shader_atomic_counter_ops",
     "SPV_EXT_shader_stencil_export", "SPV_EXT_shader_viewport_index_layer",
     "SPV_AMD_shader_image_load_store_lod", "SPV_AMD_shader_fragment_mask" >>
(* Fault-injected: the case of SPV_KHR_multiview missing.                *)
to_string_missingCase(ext) ==
    IF ext \in SpvExtension \ {SPV_KHR_multiview} THEN ExtNames[ext + 1] ELSE "unknown"
spirv_extensions_to_string(ext) ==
    IF ext \in SpvExtension THEN ExtNames[ext + 1] ELSE "unknown"

(* ir_from_nir_depth_layout: a value outside the enum asserts, and falls  *)
(* through to none in a release build.                                    *)
DepthLayouts == {"none", "any", "greater", "less", "unchanged"}
(* Fault-injected: the value passed through, without the default case.   *)
depth_layout_noDefault(d) == d
ir_from_nir_depth_layout(d) == IF d \in DepthLayouts THEN d ELSE "none"

(* The IR mode of each NIR mode nir_to_ir_variable handles.              *)
ModeMap == [shader_in |-> "ir_var_shader_in", shader_out |-> "ir_var_shader_out",
            uniform |-> "ir_var_uniform"]
IrModes == {ModeMap[m] : m \in DOMAIN ModeMap}

VARIABLES
    supported,   \* ext->supported, as the set of extensions flagged true
    count,       \* ext->count
    fills,       \* fill_supported_spirv_extensions calls so far
    lastCaps,    \* the capabilities of the last call
    shader,      \* the NIR variables of the shader being linked
    next,        \* the index of the next variable the link converts
    ir,          \* linked->ir: the IR variables pushed so far
    infoLog,     \* prog->data->InfoLog: the validation errors, in order
    linkStatus   \* prog->data->LinkStatus

vars == <<supported, count, fills, lastCaps, shader, next, ir, infoLog, linkStatus>>

(* The flags lines 84-86 set from the capabilities.                      *)
CapExts(cap) ==
    {e \in {SPV_KHR_shader_draw_parameters} : cap.draw_parameters}
    \cup {e \in {SPV_KHR_multiview} : cap.multiview}
    \cup {e \in {SPV_KHR_variable_pointers} : cap.variable_pointers}

(* Fault-injected: count not reset before the counting loop.             *)
fill_noCountReset(cap) ==
    /\ fills < MaxFills
    /\ supported' = CapExts(cap)
    /\ count' = count + Cardinality(supported')
    /\ fills' = fills + 1
    /\ lastCaps' = cap
    /\ UNCHANGED <<shader, next, ir, infoLog, linkStatus>>

(* fill_supported_spirv_extensions (lines 75-90): every flag cleared,     *)
(* count zeroed, the three flags backed by a capability set from it,      *)
(* then count is the number of flags set.                                 *)
fill_supported_spirv_extensions(cap) ==
    /\ fills < MaxFills
    /\ supported' = CapExts(cap)
    /\ count' = Cardinality(supported')
    /\ fills' = fills + 1
    /\ lastCaps' = cap
    /\ UNCHANGED <<shader, next, ir, infoLog, linkStatus>>

(* linker_error via validate (lines 35-45): the message is appended to    *)
(* the info log and the link fails.                                       *)
Validate(cond, msg, log) == IF cond THEN log ELSE Append(log, msg)

(* Fault-injected: the link status set from the last variable alone.     *)
nir_to_ir_variable_lastStatus(mode) ==
    /\ next <= Len(shader)
    /\ LET v == shader[next]
           e1 == Validate(v.location >= 0 \/ v.mode \notin {"shader_in", "shader_out"},
                          "in/out without Location", infoLog)
           e2 == IF v.named THEN e1
                 ELSE Validate(v.location >= 0, "nameless uniform without Location", e1)
       IN /\ v.mode \in DOMAIN ModeMap => mode = ModeMap[v.mode]
          /\ infoLog' = e2
          /\ linkStatus' = (e2 = infoLog)
          /\ ir' = Append(ir, [mode |-> mode,
                               name |-> IF v.named THEN "name" ELSE "",
                               location |-> v.location,
                               depth |-> ir_from_nir_depth_layout(v.depth),
                               explicit_location |-> v.location >= 0])
    /\ next' = next + 1
    /\ UNCHANGED <<supported, count, fills, lastCaps, shader>>

(* nir_to_ir_variable (lines 62-121) on the next variable v: its IR mode  *)
(* (a mode the switch does not handle asserts, and in a release build     *)
(* leaves mode uninitialized: any IR mode); the two validations; the IR   *)
(* variable, named "" when v has no name, pushed onto the IR whether or   *)
(* not a validation failed; explicit_location set when v has a location. *)
nir_to_ir_variable(mode) ==
    /\ next <= Len(shader)
    /\ LET v == shader[next]
           e1 == Validate(v.location >= 0 \/ v.mode \notin {"shader_in", "shader_out"},
                          "in/out without Location", infoLog)
           e2 == IF v.named THEN e1
                 ELSE Validate(v.location >= 0, "nameless uniform without Location", e1)
       IN /\ v.mode \in DOMAIN ModeMap => mode = ModeMap[v.mode]
          /\ infoLog' = e2
          /\ linkStatus' = (linkStatus /\ e2 = infoLog)
          /\ ir' = Append(ir, [mode |-> mode,
                               name |-> IF v.named THEN "name" ELSE "",
                               location |-> v.location,
                               depth |-> ir_from_nir_depth_layout(v.depth),
                               explicit_location |-> v.location >= 0])
    /\ next' = next + 1
    /\ UNCHANGED <<supported, count, fills, lastCaps, shader>>

Init ==
    /\ supported \in {{}, SpvExtension}     \* the table's memory before a fill
    /\ count \in {0, SPV_EXTENSIONS_COUNT}
    /\ fills = 0
    /\ lastCaps = [draw_parameters |-> FALSE, multiview |-> FALSE,
                   variable_pointers |-> FALSE]
    /\ shader \in Shaders
    /\ next = 1
    /\ ir = <<>>
    /\ infoLog = <<>>
    /\ linkStatus = TRUE

Next ==
    \/ \E cap \in Capabilities : fill_supported_spirv_extensions(cap)
    \/ \E mode \in IrModes : nir_to_ir_variable(mode)

Spec == Init /\ [][Next]_vars

-----------------------------------------------------------------------------
(* A variable the link-time validation rejects, and the messages it gets. *)
Unlocated(v) == v.location < 0 /\ v.mode \in {"shader_in", "shader_out"}
Failures(v) == (IF Unlocated(v) THEN 1 ELSE 0)
               + (IF ~v.named /\ v.location < 0 THEN 1 ELSE 0)
Converted == {k \in 1..Len(shader) : k < next}

TypeOK ==
    /\ supported \subseteq SpvExtension /\ count \in Nat
    /\ fills \in 0..MaxFills /\ next \in 1..(Len(shader) + 1)
    /\ Len(ir) = next - 1 /\ linkStatus \in BOOLEAN
    /\ \A k \in DOMAIN ir : ir[k].mode \in IrModes /\ ir[k].depth \in DepthLayouts

(* A filled table lists count extensions by name, as a driver reporting   *)
(* its SPIR-V extension strings by index up to count relies on: the names *)
(* of the flagged extensions are count distinct strings, none "unknown".  *)
SupportedExtensionsNamed ==
    fills > 0 =>
      LET names == {spirv_extensions_to_string(e) : e \in supported}
      IN Cardinality(names) = count /\ "unknown" \notin names

(* The link has failed exactly when a variable converted so far is an     *)
(* input or output without a Location, or has no name and no Location;    *)
(* the info log holds one message per failed check, and every variable,   *)
(* rejected or not, is on the IR with its location explicit iff it has    *)
(* one.                                                                   *)
LinkFailsIffInvalidVariable ==
    /\ linkStatus = \A k \in Converted : Failures(shader[k]) = 0
    /\ Len(infoLog) = LET RECURSIVE S(_)
                           S(n) == IF n = 0 THEN 0 ELSE Failures(shader[n]) + S(n - 1)
                       IN S(next - 1)
    /\ \A k \in Converted : ir[k].explicit_location = (shader[k].location >= 0)
=============================================================================
