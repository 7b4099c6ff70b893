# TLA+ models of the shader linker, its passes and the format converter

These modules model every source of the tree:

- the NIR linking helpers in `src/src/compiler/nir/nir_linking_helpers.c`:
  elimination of unused varyings, uniform storage allocation, the uniform remap
  table and the program resource list;
- the pixel format conversion of `src/src/mesa/main/format_utils.c`;
- the i965 64-bit attribute remap pass;
- the vec lowering and coalescing pass;
- the SPIR-V extension table and the SPIR-V link-time variable conversion.

Each module is checked with TLC through an MC module and one `.cfg` per
question. `PROJECT.json` lists the runs, the mapping from every definition to
the C lines it models, the mutants, the findings and the hazards.

## 1. Inventory

### Components and how they interact

One program link runs the components in this order (the module
`LinkProgram` composes 3-5 and relinks the program):

1. **Variable I/O Mask Builder.** These are `get_variable_io_mask` and
   `tcs_add_output_reads` (lines 39-94). They are pure. Each turns a variable
   into a 64-bit mask of the slots it occupies, shifted by its location, with
   per-patch locations rebased on `VARYING_SLOT_PATCH0`. The masks are indexed
   by `location_frac`.
2. **Unused-Varying Eliminator.** These are `nir_remove_unused_varyings` and
   `remove_unused_io_vars` (96-177). They run on one producer/consumer pair.
   - State: the producer's output list, the consumer's input list, each
     variable's location and mode, and four mask arrays.
   - Operations: build the masks (with a TCS producer's read-back of its own
     outputs), prune the producer, then prune the consumer.
   - Pruning demotes a variable: it sets the location to 0 and the mode to
     global, and moves the variable to `globals`. It returns whether anything
     changed.
   - Callers iterate it in optimisation loops.
3. **Uniform Storage Allocator.** These are `nir_link_uniforms` and
   `nir_link_uniform` (294-527).
   - State: `UniformStorage`, `NumUniformStorage`, the `nir_link_uniforms_state`
     counters (some program-wide, some per stage), each variable's
     `data.location`, and the per-stage program fields (`SamplerTargets`,
     `ImageAccess`, `SamplersUsed`, counts).
   - Operations: one per uniform of each linked stage, in stage order:
     - skip a uniform without a location;
     - merge into the entry already at that location;
     - or create entries, recursing over struct fields to one entry per leaf.
   - Each entry creation may fail in `reralloc`.
   - At the end of each stage, the per-stage counters are written back.
4. **Uniform Remap Table Builder.** This is `nir_setup_uniform_remap_tables`
   (194-281). It runs once, after the allocator. It allocates the table and the
   data slots (either allocation may fail) and reserves the explicit locations.
   It then appends the unmapped entries, which is dead code here because
   unmapped uniforms are never created (line 520 TODO).
5. **Program Resource List Builder.** These are
   `nir_build_program_resource_list` and `add_program_resource` (529-619).
   - Each call rebuilds `ProgramResourceList` from the storage entries and then
     the vertex inputs.
   - Entries are deduplicated by data pointer, using a set created per call.
   - Each append may fail in `reralloc`.

The other sources of the tree are separate passes and utilities. None of them
calls another, and none is called from elsewhere in this tree:

6. **SPIR-V extension table** (`spirv_extensions.c/.h`). A driver fills
   `spirv_supported_extensions` from its capabilities, possibly more than once.
   `spirv_extensions_to_string` names an extension.
7. **SPIR-V variable conversion** (`nir_linker.cpp`). `nir_to_ir_variable`
   turns each NIR variable of a SPIR-V shader into a GLSL IR variable. It
   validates locations through `linker_error`.
8. **64-bit attribute remap** (`brw_nir_remap_64bits_attrs.c`). For each block,
   `load_input` bases are shifted by the splits before them. A dvec3/dvec4 load
   is split into two slot loads, and its Z/W uses are moved to the new load.
9. **vec lowering and coalescing** (`nir_lower_vec_and_coalesce.c`). A `vecN`
   channel read from a single-use ALU result is computed by a clone of that
   instruction written straight into the vec's register. The rest is moved by
   a smaller vec or an imov.
10. **Format conversion** (`format_utils.c`). `_mesa_swizzle_and_convert`
    converts channels between GL types, swizzling them.
    `_mesa_format_convert` converts rows between two formats, each either an
    array format or a Mesa format. It takes one of four paths:
    - a fast unpack when the source is a Mesa format and the destination is
      one of the `RGBA8888_*` array formats (lines 30-53);
    - a fast pack when the destination is a Mesa format and the source is
      one of them;
    - an array path composing the two array formats' swizzles;
    - a general path through a temporary RGBA image of uint, float or ubyte.
    It calls Mesa's generated pack/unpack row functions, which are not in this
    tree. `_mesa_format_to_array` describes a Mesa format as an array of one
    GL type, with a swizzle that depends on the build's byte order. Nothing
    in this tree calls it.

### Hard behaviours

Everything runs single-threaded and to completion. The hard parts are these:

- **Order.** Stage order decides which stage's entry wins a merge, and which
  sampler indices each stage gets. The TCS read-back must be counted before
  pruning.
- **Repeated calls.** Demotion must reach a fixpoint within one call, and a
  rebuild must start from scratch.
- **Partial failure.** Every `reralloc` may return NULL mid-way, and the tables
  are left as they are at that point.
- **Numeric edges.** These are:
  - the unsigned rebase of built-in patch slots;
  - the location arithmetic of nested structs;
  - the soft caps on sampler and image tables;
  - two different type helpers sizing the data array;
  - the normalized integer conversions at the type extremes.
- **Rewriting while iterating.** Both compiler passes insert and remove
  instructions inside `nir_foreach_instr_safe`, which has already saved the
  next instruction. They also rewrite uses that later steps then read.

## 2. Modules

| Module | Models | State (VARIABLES) | Actions |
|---|---|---|---|
| `VaryingEliminator` | components 1, 2 | `pvar`, `cvar`: declaration → [location, mode]; `tcsReads`; the four masks; `progress`; `pc`; `calls` | `BuildMasks` (139-167), `remove_unused_io_vars_producer` (169-171), `remove_unused_io_vars_consumer` (173-176), `CallAgain` (the caller) |
| `UniformLinker` | components 3, 4 | `decl` (frozen uniform lists), `varLoc`, `storage`, `numStorage`, `st` (state struct), `sh` (per-stage program), `remap`, `numDataSlots`, `linkOk`, `errors`, `pc` | `LinkVar` (one loop iteration, 482-510), `LinkLeaf` (one leaf entry or its allocation failure, 345-453), `FinishStage` (470-517), `FinishLink` (519-526 with the remap builder; a failed allocation leaves the table empty or NULL-filled, 196-207) |
| `ResourceList` | component 5 | `umasks`, `nInputs` (frozen), `list`, `num`, `set`, `liveSets`, `linkOk`, `pc`, `builds` | `Begin` (566-577), `AddUniform`, `NoUniforms` (579-592), `AddInput` (594-612), `DestroySet` (614) |
| `ResourceListAbstract` | spec 4.5, for component 5 | `umasks`, `nInputs`, `phase`, `published`, `builds`, `linkOk` | `Start`, `Publish`, `Fail`, `Relink` (the program linked again between calls) |
| `LinkProgram` | components 3-5 composed | the variables of `UniformLinker` and of `ResourceList` (its `pc` renamed `rlPc`), sharing `linkOk`; `nInputs`; `links` | `LinkUniforms` (a step of the allocator), `BuildResources` (a step of the builder, started once a link succeeded), `Relink` (462-468) |
| `SpirvLinker` | components 6, 7 | `supported`, `count`, `fills`, `lastCaps`; `shader`, `next`, `ir`, `infoLog`, `linkStatus` | `fill_supported_spirv_extensions` (75-90), `nir_to_ir_variable` (62-121) |
| `Remap64BitsAttrs` | component 8 | `orig`, `prog` (blocks of instructions), `b`, `i`, `offset`, `progress`, `ssa_alloc` | `SkipInstr` (41-47), `LoadNarrow` (51-54), `LoadWide` (51-63), `LoadSplit` (51-113), `NextBlock` (34-39, 133) |
| `LowerVecAndCoalesce` | component 9 | `orig`, `prog` (blocks of instructions), `regs`, `nextId`, `pc` (instruction, channel, def list, finished mask, tracked registers) | `SkipInstr` (110-123), `StartVec` (125-130), `Channel` (132-143), `Def` (145-201), `DefsDone`, `KeepVec` (204-205), `ReplaceVec` (207-258) |
| `PixelConvert` | component 10 (operators) | none | the unorm/snorm/float helpers, `EXTEND_NORMALIZED_INT`, each `convert_*`'s `CONV` (GL_FLOAT included), one pixel of `SWIZZLE_CONVERT_LOOP` |
| `SwizzleConvert` | component 10 | the call's arguments, `src`, `dst`, `path` | `swizzle_convert_try_memcpy`, `SWIZZLE_CONVERT_LOOP` one pixel per step |
| `FormatConvert` | component 10 | the formats, the GL types, `normalized`, the swizzle arrays, `srcRows`, `tmpType`, `tmpRows`, `dstRows`, `path`, `pc` | `DirectConvert` (127-187: both fast paths, a CASE over their branches), `ReadArrayFormats` (189-211), `Compose` (213-222), `ConvertRow` (224-231, one row per step of the array path), `ClassifyFormats` (233-294, which crashes when line 292 indexes the format table with an array format), `ToTemp` (299-313), `FromTemp` (315-331) |
| `FormatToArray` | component 10 (operators) | none | `_mesa_format_to_array` (429-512) for a byte order, with `map_identity`, `map_3210` and `map_1032` |

### How data is abstracted

- **Varyings.** A varying is its declaration record: location, component,
  patch flag, slot count and always-active.
- **Uniforms.** A uniform is a model value with a type and a location. Types
  come from a small table.
- **Masks, names and pointers.** Masks are sets of bit indices. Names are not
  modelled. Pointers are identities.
- **Remap pass instructions.** Each instruction is a record with one shape:
  load, alu or other.
- **Coalescing pass instructions.** Each instruction is a record of op, dest
  register, write mask and sources (register or SSA constant, with a
  swizzle). The values they compute are symbolic terms (`Exec`), so "the same
  value" means the same expression over the function's inputs.
- **Pixels.** A channel value is the integer its C type holds. A GL_FLOAT
  value is an exact rational `Rat(n, d)`, reduced by GCD so that products
  stay within TLC's 32-bit integers.
- **Formats.** A format is a record (`Fmt`) with its kind (array or Mesa),
  its array format if it has one, its datatype, channel widths and value
  kinds, and its swizzle. A Mesa format also carries the descriptor
  `_mesa_format_to_array` reads from the format table: layout, GL type,
  integer flag, channel widths, bytes and swizzle.
- **Generated pack/unpack.** `_mesa_pack_*_rgba_row` and
  `_mesa_unpack_*_rgba_row` are modelled as exact per-channel conversions
  (`UnpackChannel`, `PackChannel`). Their default case, for a format they do
  not handle, writes nothing (`PackRows`).

Undefined behaviour is a nondeterministic choice over what a build can do:

- **The wrapped patch shift.** When `location - VARYING_SLOT_PATCH0` wraps, the
  build either shifts by the count mod 64 (x86-64 and AArch64) or yields no
  bits (`shiftUB`).
- **An unhandled variable mode.** `nir_to_ir_variable` leaves the IR mode
  uninitialised, so the model takes any IR mode.
- **A read past `src2rgba`.** It returns any byte of `StackBytes`.

The glsl_type helpers, the NIR opcode table and the instruction lists are not
in this tree. They are modelled from the spec or from their use, and marked
`spec_modelled` in the map.

### Composition

`LinkProgram` instantiates `UniformLinker` (as `UL`) and `ResourceList` (as
`RL`) over one program object. They share `prog->data`: the link status is one
variable, and the builder's `umasks` is an expression over the allocator's
state, `UMasks`: the `active_shader_mask` of the first `NumUniformStorage`
entries of `UniformStorage` (none past an array lost in a failed `reralloc`).
The caller's order is from spec 2 and 7: the uniforms are linked first, and the
resource list is built only when that succeeded. `Relink` is the next link: it
frees `UniformStorage` and zeroes its count and the allocator state (lines
462-468). The per-stage program fields, the remap table and the resource list
keep the previous link's values until they are overwritten. That is why the
allocator's own bound on the remap table (`remap[l] <= Len(storage)`) is not
an invariant of the composition: between a relink and the remap builder, the
table points into freed storage.

### Refinement and fairness

`ResourceList` is checked to implement `ResourceListAbstract` (its instance
`A`), alone (`rl_oom`) and inside `LinkProgram` (`link_relink`). The abstract
spec is what spec 4.5 promises a reader of the table:

- each call rebuilds it from scratch;
- the call then publishes exactly one resource per storage entry and then one
  per vertex input;
- or, on an allocation failure, it publishes nothing and marks the link
  failed;
- between calls the program may be linked again, which changes the storage,
  the inputs and the link status but not the published table (`Relink`).

The refinement mapping sends the builder's `pc` to the abstract `phase`.
`published` is the first `NumProgramResourceList` entries of the list once a
build is done, and empty otherwise. Every concrete step inside a build is an
abstract stutter, and every step of the allocator or of a relink in
`LinkProgram` is an abstract `Relink` or a stutter.

No run checks a liveness property. Each loop of the code is a bounded
`foreach` or a counted loop over a finite list, so its termination follows
from the shape of the model, not from the code. Every module therefore
checks safety only, and no fairness is assumed. A finished pass or link
has no successor, so every cfg sets `CHECK_DEADLOCK FALSE`.

## 3. Runs

| Run | Result | What it shows |
|---|---|---|
| `ve_all` | pass (392k states) | Any valid pair of interfaces of up to 2 variables: 2 components, 1- and 2-slot, always-active, generic and built-in patch varyings, TCS read-back. In a build where the wrapped shift gives no bits, exactly the unmatched varyings are demoted and a second call makes no progress. |
| `ul_flat` | pass (489k) | Two stages declaring any orders of up to 3 of 6 uniforms, with allocation failures. The remap table is consistent, a uniform has one entry per location, sampler/image ranges are disjoint, data slices fit, and every unit of a stage's samplers is in that stage's `SamplersUsed`. |
| `link_relink` | pass (122k) | A program linked up to three times, two stages declaring any orders of a struct and a float uniform, with allocation failures in the allocator. After every successful link the remap table and the resource list point into this link's `UniformStorage` only; the builder refines `ResourceListAbstract` across relinks. |
| `rl_oom` | pass (190) | A build that may fail at any append either stops failed, an abstract `Fail`, or has the expected list. |
| `rl_relink_after_oom` | violation | A build after a failed one keeps the stale count, because the reset at line 569 is guarded by the NULL pointer. The new list starts with uninitialised resources. |
| `sc_routing` | pass (89k) | Up to 2 pixels of up to 2 channels, every swizzle, both flags, and every destination type but GL_INT: |
| | | - every channel, 0 and 1 are routed; |
| | | - unnormalized values are exact; |
| | | - normalized conversions with an unsigned side land within one step, on every 8-bit value and the 16-bit edges. |
| `fc_array` | pass (39k) | Every pair of formats `_mesa_format_convert` converts. The formats are 19 array formats and 7 Mesa formats: four with an array format, and B5G6R5, R10G10B10A2 and B10G10R10A2_UINT packed. The pairs in the configurations below are left out. The array path is exact. On every path (fast unpack, array, temporary uint/float/ubyte image), every row is written, nothing crashes, and each destination channel is the source's component to within one step of the destination's precision (two for snorm, one for unorm, exact for float and for integers that fit). On both byte orders, `_mesa_format_to_array` reads every byte of each Mesa format where the format stores it. |
| `remap_in_order` | pass (12k) | Two inputs of any of vec4/dvec2/dvec3/dvec4, loaded in location order: every ALU source reads the slot and component where its data now is. |
| `remap_later_block` | violation | An input loaded in a later block than a split dvec3/dvec4 is not shifted. It reads the split input's second slot. |
| `lowervec_prefix` | pass (1.4k) | vec2 and vec3 fed by fneg/fadd/fdot2/imov/load parents, in the same or an earlier block, defined once or twice, used once or twice: live-out values are kept. |
| `lowervec_gap` | violation | vec3 with only x propagated: the reduced vec2 writes y from the z source and leaves z undefined (lines 210-242). |
| `spirv_link` | pass (27k) | A driver fills its table twice over uninitialised memory while any two-variable shader links. After any sequence of fills, the flagged extensions have exactly `count` distinct known names, and the link fails exactly for the variables validation must reject. |

Each property of a passing run has a mutant in `PROJECT.json`: a plausible bug
in the mapped definition, which TLC then finds. The fault-injected variants
are defined in the modules just before the definitions they replace.

### Counterexample configurations beside the runs

These `.cfg` files reproduce disagreements found while modelling. They are
kept so that a reader can rerun them, but they are not among the runs. Each
one checks a single property, which TLC finds violated:

| Config | Property | What it shows |
|---|---|---|
| `VaryingEliminator_patch_ub.cfg` | `UnneededVaryingDemoted` | With the x86-64 shift, a TCS reading back gl_TessLevelOuter keeps an unread patch output at PATCH0+26. |
| `UniformLinker_nested.cfg` | `RemapContainment` | A nested struct advances the location by its field count (line 334). |
| `UniformLinker_shared_mask.cfg` | `ActiveMaskComplete` | A struct shared by two stages: only the first field's entry gets the second stage's bit (line 499). |
| `UniformLinker_shared_varloc.cfg` | `VarLocationIsStorageIndex` | The merge path leaves the later stage's `data.location` unrewritten. |
| `UniformLinker_oom.cfg` | `StorageCountMatches` | A failed `reralloc` leaves `NumUniformStorage` counting a NULL array. |
| `SwizzleConvert_int_one.cfg` | `ChannelsRouted` | `convert_int` writes 12 for ONE unnormalized (line 1273). |
| `SwizzleConvert_snorm_range.cfg` | `SnormResultInRange` | Snorm widening and narrowing reach -MAX-1. |
| `FormatConvert_int32.cfg` | `FormatValuesConverted` | INT arrays are read as GL_SHORT (line 85). |
| `FormatConvert_alpha_dst.cfg` | `FormatValuesConverted` | A8/A16 destinations get 0 instead of alpha (line 217). |
| `FormatConvert_mispacked.cfg` | `ConvertedCloseToSource` | Seven pairs the dispatcher mishandles. `RGBA8888_UINT` is declared as normalized UBYTE, equal to `RGBA8888_UBYTE` (line 46). So R8G8B8A8 unorm sources, array or Mesa, take the uint fast pack (177), which writes nothing into a non-integer destination. The float and ubyte fast packs pass `src_format` (162, 171), so nothing is written. Line 292 takes the bits of `src_format`: an array source crashes, and B5G6R5 into R10G10B10A2 goes through a ubyte image, so 3/31 becomes 96/1023. |
| `UniformLinker_samplers_used.cfg` | `SamplersUsedOwnUnits` | `SamplersUsed` is program-wide state never reset per stage (line 478): a stage without samplers reports the previous stage's units. |
| `Remap64BitsAttrs_reverse_order.cfg` | `ReadsRemapped` | Inputs loaded against location order: a load before the split's is shifted by a split that comes later (line 51). |
| `Remap64BitsAttrs_second_source.cfg` | `ReadsRemapped` | A Z read through `src[1]` keeps the old load (line 91). |
| `Remap64BitsAttrs_later_use.cfg` | `ReadsRemapped` | A Z read in a later block than the load is not moved (line 87). |
| `LowerVecAndCoalesce_clobber.cfg` | `CoalescePreservesValues` | The clone placed at the vec reads a source rewritten after the parent (line 200). |
| `LowerVecAndCoalesce_wide_parent.cfg` | `CoalescePreservesValues` | A parent writing two channels: the clone takes the channel of its lowest write-mask bit, not the one the vec read (line 66). |
| `LowerVecAndCoalesce_late_def.cfg` | `NextInstrNotFreed` | A def right after the vec is cloned before it and freed while the block iteration holds it as next. |

### Bounds and why they are enough

- **VaryingEliminator.**
  - Locations 32 and 33 with 1-2 slots make ranges that overlap partly and
    exactly.
  - Two components show per-component masking.
  - One always-active variable exercises the exemption.
  - The patch set places gl_TessLevelOuter (26, 4 slots) so that its wrapped
    mask would meet PATCH0+26.
  - Two calls show the fixpoint.
- **UniformLinker.**
  - Two stages are the fewest that can share a uniform.
  - The six uniforms cover every branch of `nir_link_uniform`.
  - `MAX_SAMPLERS = 2` makes the soft cap bite.
- **ResourceList.**
  - Two storage entries and one input give a list of three entries.
  - Two builds are the fewest that expose what a build leaves behind.
- **LinkProgram.**
  - Two stages, a struct of two leaves and a float: merges, nested entries,
    and a remap table of two locations.
  - Three links: a relink after a success and after a failure, and a third
    with storage of a different size than the first.
  - One vertex input, so the list's tail is checked.
- **SwizzleConvert and FormatConvert.**
  - Two values per type, one a narrower type cannot hold and one it can,
    reach every clamp and every pass-through.
  - One row per conversion. Each row loop of `_mesa_format_convert` only
    advances the row pointers, so a second row repeats the first.
  - The Mesa formats are chosen so that every path happens:
    - unpack into an `RGBA8888_*` array format;
    - each temporary image type;
    - a packed destination of 5, 6, 10 and 2 bits;
    - 8-bit formats of 2 and 4 bytes and a 16-bit format of 2 shorts, so
      that `map_1032` and `map_3210` are both used.
  - The conversion operators are checked on every 8-bit value and on the
    edges of the 16- and 32-bit types.
- **Remap64BitsAttrs.**
  - Two inputs are the fewest in which a split shifts another input.
  - All four types make both splits and both widenings happen.
  - Two blocks show how the offset is handled across blocks.
- **LowerVecAndCoalesce.** The programs combine each case the pass tells
  apart:
  - parents that are a clone candidate, imov or non-ALU;
  - a second use, a second def in the block, and a def in an earlier block;
  - a constant channel;
  - a per-component op and fdot2.
  The sources have rotated swizzles, so a missing swizzle override changes a
  value.
- **SpirvLinker.**
  - All 8 capability sets and two fills over both kinds of garbage memory.
  - Two variables from every mode × located × named combination, plus an
    out-of-enum depth layout.

## 4. Not modelled

- **Strings.** Uniform names, `asprintf`, `ralloc_strdup`, InfoLog text and the
  debug printing of the remap pass are left out. The extension names are kept,
  because a property is about them.
- **Cross-stage type compatibility.** The code leaves these checks as a FIXME
  and does nothing, so there is nothing to model.
- **Memory release.** `ralloc_free` is modelled only as a pointer becoming NULL
  or an instruction leaving its block. The resource set leak is counted
  (`liveSets`), but no property is stated about it.
- **Half-float channels, and normalized GL_UNSIGNED_INT.** The half-float
  encoding is in `util/half_float.c`, which is not in this tree. TLC's
  integers are 32-bit signed. GL_FLOAT is modelled with exact rationals,
  so float rounding error is not modelled.
- **Mesa's format table and generated pack/unpack functions.** They are not
  in this tree. Seven formats of the table are modelled as descriptors, and
  the row functions as exact per-channel conversions.
- **Big-endian `_mesa_format_convert`.** The dispatcher's array formats
  are those of a little-endian build. Only `_mesa_format_to_array` is
  checked on both byte orders.
- **The varying eliminator inside the pipeline.** It works on one
  producer/consumer pair of NIR shaders and shares no state with the uniform
  steps, so `LinkProgram` leaves it out.
- **The builder's allocation failure inside `LinkProgram`.** The
  composition's builder does not fail (`ResourceCanFail = FALSE`); its failure
  and the following relink are checked alone, in `rl_oom` and
  `rl_relink_after_oom`.
