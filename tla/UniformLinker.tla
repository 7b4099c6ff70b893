----------------------------- MODULE UniformLinker -----------------------------
(***************************************************************************)
(* nir_link_uniforms and nir_setup_uniform_remap_tables                    *)
(* (src/compiler/nir/nir_linking_helpers.c): the uniform storage allocator *)
(* and the remap table builder of one program link.                        *)
(*                                                                         *)
(* The frozen IR is decl[s], the uniforms stage s declares in order; a     *)
(* uniform is a model value with a type and a location (-1: none).  The   *)
(* recursion of nir_link_uniform over struct fields is flattened by Leaves *)
(* into the leaf uniforms it reaches; the model creates one storage entry  *)
(* per step, because every leaf may fail to allocate and abort the link.   *)
(* Storage indices are 0-based as in C; UniformStorage[i] is storage[i+1]. *)
(***************************************************************************)
EXTENDS Integers, Sequences, FiniteSets, SequencesExt

CONSTANTS
    Types,               \* type name -> descriptor (see the glsl_type helpers)
    Uniforms,            \* uniform -> [type, location]
    Stages,              \* linked shader stage indices, 0..n-1
    MaxPerStage,         \* most uniforms one stage declares
    MAX_SAMPLERS,        \* per-stage sampler target table size
    MAX_IMAGE_UNIFORMS,  \* per-stage image access table size
    CanFail              \* whether ralloc may return NULL

UNMAPPED == -2           \* UNMAPPED_UNIFORM_LOC (~0u), never a location
NULL == 0                \* an empty remap table slot (entries are 1-based)

ASSUME /\ Stages = 0..(Cardinality(Stages) - 1)
       /\ MaxPerStage \in Nat /\ MAX_SAMPLERS \in Nat
       /\ MAX_IMAGE_UNIFORMS \in Nat /\ CanFail \in BOOLEAN

(* glsl_type helpers, from the spec's data model (nir_types.cpp is not in  *)
(* this tree): "scalar" [comps, opaque, shadow], "array" [elem, len] of a  *)
(* scalar, "struct" [fields: sequence of type names].                     *)
glsl_get_length(t) ==
    CASE Types[t].kind = "array"  -> Types[t].len
      [] Types[t].kind = "struct" -> Len(Types[t].fields)
      [] OTHER                    -> 0
glsl_without_array(t) ==
    IF Types[t].kind = "array" THEN Types[t].elem ELSE t
RECURSIVE glsl_get_component_slots(_)
glsl_get_component_slots(t) ==
    CASE Types[t].kind = "array"  ->
             Types[t].len * glsl_get_component_slots(Types[t].elem)
      [] Types[t].kind = "struct" ->
             FoldLeft(LAMBDA acc, f : acc + glsl_get_component_slots(f),
                      0, Types[t].fields)
      [] OTHER                    -> Types[t].comps
glsl_get_components(t) == Types[t].comps
Opaque(t) == Types[glsl_without_array(t)].opaque   \* "none"|"sampler"|"image"
Max1(n) == IF n > 1 THEN n ELSE 1                  \* MAX2(1, n)

(* The leaves nir_link_uniform reaches from a uniform of type t at        *)
(* location loc: a struct field starts MAX2(1, glsl_get_length(field))    *)
(* locations after the previous one (lines 323-343).                      *)
RECURSIVE Leaves(_, _), FieldLeaves(_, _)
Leaves(t, loc) ==
    IF Types[t].kind = "struct" THEN FieldLeaves(Types[t].fields, loc)
    ELSE <<[type |-> t, location |-> loc]>>
FieldLeaves(fs, loc) ==
    IF fs = <<>> THEN <<>>
    ELSE Leaves(Head(fs), loc)
           \o FieldLeaves(Tail(fs), loc + Max1(glsl_get_length(Head(fs))))

VARIABLES
    decl,        \* stage -> sequence of uniforms (nir->uniforms)
    varLoc,      \* stage -> uniform -> var->data.location
    storage,     \* prog->data->UniformStorage
    numStorage,  \* prog->data->NumUniformStorage
    st,          \* struct nir_link_uniforms_state
    sh,          \* stage -> values written back to the stage's program
    remap,       \* prog->UniformRemapTable (location l is remap[l+1])
    numDataSlots,\* prog->data->NumUniformDataSlots
    linkOk,      \* prog->data->LinkStatus # linking_failure
    errors,      \* number of "error: " messages appended to InfoLog
    pc           \* [at, stage, pos, leaves, var]

vars == <<decl, varLoc, storage, numStorage, st, sh, remap, numDataSlots,
          linkOk, errors, pc>>

NoStage == [samplersUsed |-> {}, shadowSamplers |-> {}, numTextures |-> 0,
            numImages |-> 0, numComponents |-> 0,
            samplerTargets |-> [i \in 0..MAX_SAMPLERS-1 |-> "none"],
            imageAccess |-> [i \in 0..MAX_IMAGE_UNIFORMS-1 |-> "none"]]

(* linker_error: append to the InfoLog, mark the link failed.             *)
linker_error == errors' = errors + 1 /\ linkOk' = FALSE

(* Fault-injected variants of the definitions that follow, each a bug   *)
(* the code could plausibly have; a property that holds must detect one. *)

(* The lookup of an earlier stage's entry is missing.                    *)
find_previous_none(loc) == 0

(* find_previous_uniform_storage: the first entry whose remap_location is *)
(* the location, as an index into storage (0 when none).                  *)
find_previous_uniform_storage(loc) ==
    IF \E i \in 1..Len(storage) : storage[i].remap_location = loc
    THEN CHOOSE i \in 1..Len(storage) :
             /\ storage[i].remap_location = loc
             /\ \A j \in 1..(i-1) : storage[j].remap_location # loc
    ELSE 0

-----------------------------------------------------------------------------
(* One iteration of nir_foreach_variable over nir->uniforms (482-510).    *)
LinkVar ==
    /\ pc.at = "vars"
    /\ pc.pos <= Len(decl[pc.stage])
    /\ LET s   == pc.stage
           u   == decl[s][pc.pos]
           loc == varLoc[s][u]
           prev == find_previous_uniform_storage(loc)
       IN \/ /\ loc = -1
             /\ pc' = [pc EXCEPT !.pos = @ + 1]
             /\ UNCHANGED storage
          \/ /\ loc # -1 /\ prev # 0
             /\ storage' = [storage EXCEPT ![prev].active = @ \cup {s}]
             /\ pc' = [pc EXCEPT !.pos = @ + 1]
          \/ /\ loc # -1 /\ prev = 0
             /\ pc' = [pc EXCEPT !.at = "leaf", !.var = u,
                                 !.leaves = Leaves(Uniforms[u].type, loc)]
             /\ UNCHANGED storage
    /\ UNCHANGED <<decl, varLoc, numStorage, st, sh, remap, numDataSlots,
                   linkOk, errors>>

(* The values of an array are counted once per element type.            *)
UniformValues_elem(t) == glsl_get_components(glsl_without_array(t))

(* Lines 447-448: the data values a leaf adds to num_values.              *)
UniformValues(t) == glsl_get_component_slots(t)

(* The leaf branch of nir_link_uniform (345-452) for the next leaf.       *)
NewEntry(s, leaf) ==
    LET t    == leaf.type
        ae   == glsl_get_length(t)
        n    == Max1(ae)
        kind == Opaque(t)
        idx  == IF kind = "sampler" THEN st.nextSampler ELSE st.nextImage
    IN [var |-> pc.var, type |-> glsl_without_array(t), array_elements |-> ae,
        remap_location |-> leaf.location, active |-> {s},
        opaque |-> IF kind = "none" THEN [x \in {} |-> 0] ELSE s :> idx,
        storage |-> -1]

LinkLeaf ==
    /\ pc.at = "leaf"
    /\ pc.leaves # <<>>
    /\ LET s    == pc.stage
           leaf == Head(pc.leaves)
           t    == leaf.type
           n    == Max1(glsl_get_length(t))
           kind == Opaque(t)
           elem == Types[glsl_without_array(t)]
           val  == UniformValues(t)
       IN \/ /\ CanFail          \* reralloc returned NULL (351-354)
             /\ storage' = <<>>
             /\ linker_error
             /\ pc' = [pc EXCEPT !.at = "done"]
             /\ UNCHANGED <<varLoc, numStorage, st, sh>>
          \/ /\ storage' = Append(storage, NewEntry(s, leaf))
             /\ numStorage' = numStorage + 1
             /\ varLoc' = IF varLoc[s][pc.var] = leaf.location
                          THEN [varLoc EXCEPT ![s][pc.var] = numStorage]
                          ELSE varLoc
             /\ LET first == IF kind = "sampler" THEN st.nextSampler
                             ELSE st.nextImage
                    lim   == IF kind = "sampler"
                             THEN Min({first + n, MAX_SAMPLERS})
                             ELSE Min({first + n, MAX_IMAGE_UNIFORMS})
                    bound == first..(lim - 1)
                IN /\ st' = [st EXCEPT
                        !.nextSampler  = IF kind = "sampler" THEN @ + n ELSE @,
                        !.nextImage    = IF kind = "image" THEN @ + n ELSE @,
                        !.numSamplers  = IF kind = "sampler" THEN @ + 1 ELSE @,
                        !.numImages    = IF kind = "image" THEN @ + 1 ELSE @,
                        !.samplersUsed = IF kind = "sampler" THEN @ \cup bound
                                         ELSE @,
                        !.shadowSamplers = IF kind = "sampler" /\ elem.shadow
                                           THEN @ \cup bound ELSE @,
                        !.numComponents = @ + val,
                        !.numValues     = @ + val,
                        !.maxLocation   = Max({@, leaf.location + n})]
                   /\ sh' = CASE kind = "sampler" ->
                                  [sh EXCEPT ![s].samplerTargets =
                                     [i \in DOMAIN @ |->
                                        IF i \in bound THEN elem.target
                                        ELSE @[i]]]
                              [] kind = "image" ->
                                  [sh EXCEPT ![s].imageAccess =
                                     [i \in DOMAIN @ |->
                                        IF i \in bound THEN elem.access
                                        ELSE @[i]]]
                              [] OTHER -> sh
             /\ pc' = IF Tail(pc.leaves) = <<>>
                      THEN [pc EXCEPT !.at = "vars", !.pos = @ + 1,
                                      !.leaves = <<>>]
                      ELSE [pc EXCEPT !.leaves = Tail(@)]
             /\ UNCHANGED <<linkOk, errors>>
    /\ UNCHANGED <<decl, remap, numDataSlots>>

(* The stage loop runs one past the last linked stage.                   *)
FinishStage_pastEnd ==
    /\ pc.at = "vars"
    /\ pc.pos > Len(decl[pc.stage])
    /\ sh' = [sh EXCEPT ![pc.stage].samplersUsed   = st.samplersUsed,
                        ![pc.stage].shadowSamplers = st.shadowSamplers,
                        ![pc.stage].numTextures    = st.numSamplers,
                        ![pc.stage].numImages      = st.numImages,
                        ![pc.stage].numComponents  = st.numComponents]
    /\ st' = [st EXCEPT !.numSamplers = 0, !.numImages = 0,
                        !.numComponents = 0]
    /\ pc' = IF pc.stage + 1 <= Cardinality(Stages)
             THEN [pc EXCEPT !.stage = @ + 1, !.pos = 1]
             ELSE [pc EXCEPT !.at = "remap"]
    /\ UNCHANGED <<decl, varLoc, storage, numStorage, remap, numDataSlots,
                   linkOk, errors>>

(* The sampler and image counters are reset with the per-stage ones.    *)
FinishStage_resetIndices ==
    /\ pc.at = "vars"
    /\ pc.pos > Len(decl[pc.stage])
    /\ sh' = [sh EXCEPT ![pc.stage].samplersUsed   = st.samplersUsed,
                        ![pc.stage].shadowSamplers = st.shadowSamplers,
                        ![pc.stage].numTextures    = st.numSamplers,
                        ![pc.stage].numImages      = st.numImages,
                        ![pc.stage].numComponents  = st.numComponents]
    /\ st' = [st EXCEPT !.numSamplers = 0, !.numImages = 0,
                        !.numComponents = 0, !.nextSampler = 0,
                        !.nextImage = 0]
    /\ pc' = IF pc.stage + 1 \in Stages
             THEN [pc EXCEPT !.stage = @ + 1, !.pos = 1]
             ELSE [pc EXCEPT !.at = "remap"]
    /\ UNCHANGED <<decl, varLoc, storage, numStorage, remap, numDataSlots,
                   linkOk, errors>>

(* The sampler masks are reset with the per-stage counters.             *)
FinishStage_resetSamplers ==
    /\ pc.at = "vars"
    /\ pc.pos > Len(decl[pc.stage])
    /\ sh' = [sh EXCEPT ![pc.stage].samplersUsed   = st.samplersUsed,
                        ![pc.stage].shadowSamplers = st.shadowSamplers,
                        ![pc.stage].numTextures    = st.numSamplers,
                        ![pc.stage].numImages      = st.numImages,
                        ![pc.stage].numComponents  = st.numComponents]
    /\ st' = [st EXCEPT !.numSamplers = 0, !.numImages = 0,
                        !.numComponents = 0, !.samplersUsed = {},
                        !.shadowSamplers = {}]
    /\ pc' = IF pc.stage + 1 \in Stages
             THEN [pc EXCEPT !.stage = @ + 1, !.pos = 1]
             ELSE [pc EXCEPT !.at = "remap"]
    /\ UNCHANGED <<decl, varLoc, storage, numStorage, remap, numDataSlots,
                   linkOk, errors>>

(* Lines 512-517, then the per-stage counters are reset (478-480) for the *)
(* next linked stage.  The program-wide fields are not reset.            *)
FinishStage ==
    /\ pc.at = "vars"
    /\ pc.pos > Len(decl[pc.stage])
    /\ sh' = [sh EXCEPT ![pc.stage].samplersUsed   = st.samplersUsed,
                        ![pc.stage].shadowSamplers = st.shadowSamplers,
                        ![pc.stage].numTextures    = st.numSamplers,
                        ![pc.stage].numImages      = st.numImages,
                        ![pc.stage].numComponents  = st.numComponents]
    /\ st' = [st EXCEPT !.numSamplers = 0, !.numImages = 0,
                        !.numComponents = 0]
    /\ pc' = IF pc.stage + 1 \in Stages
             THEN [pc EXCEPT !.stage = @ + 1, !.pos = 1]
             ELSE [pc EXCEPT !.at = "remap"]
    /\ UNCHANGED <<decl, varLoc, storage, numStorage, remap, numDataSlots,
                   linkOk, errors>>

(* nir_setup_uniform_remap_tables: the first pass reserves the explicit   *)
(* locations in storage order, giving each entry its offset in the data   *)
(* array; the second appends the unmapped ones at the end of the table.   *)
(* The reserve loop stops one element short of an array's last slot.    *)
RECURSIVE Reserve_short(_, _, _, _)
Reserve_short(i, tab, pos, stor) ==
    IF i > Len(stor) THEN [tab |-> tab, pos |-> pos, stor |-> stor]
    ELSE LET e == stor[i]
             n == Max1(e.array_elements)
             L == {e.remap_location + j : j \in 0..n-2}
         IN IF e.remap_location = UNMAPPED
            THEN Reserve_short(i + 1, tab, pos, stor)
            ELSE Reserve_short(i + 1,
                         [l \in DOMAIN tab |-> IF l - 1 \in L THEN i ELSE tab[l]],
                         pos + n * glsl_get_components(e.type),
                         [stor EXCEPT ![i].storage = pos])

RECURSIVE Reserve(_, _, _, _)
Reserve(i, tab, pos, stor) ==
    IF i > Len(stor) THEN [tab |-> tab, pos |-> pos, stor |-> stor]
    ELSE LET e == stor[i]
             n == Max1(e.array_elements)
             L == {e.remap_location + j : j \in 0..n-1}
         IN IF e.remap_location = UNMAPPED THEN Reserve(i + 1, tab, pos, stor)
            ELSE Reserve(i + 1,
                         [l \in DOMAIN tab |-> IF l - 1 \in L THEN i ELSE tab[l]],
                         pos + n * glsl_get_components(e.type),
                         [stor EXCEPT ![i].storage = pos])

RECURSIVE Reappend(_, _, _, _)
Reappend(i, tab, pos, stor) ==
    IF i > Len(stor) THEN [tab |-> tab, pos |-> pos, stor |-> stor]
    ELSE LET e == stor[i]
             n == Max1(e.array_elements)
         IN IF e.remap_location # UNMAPPED THEN Reappend(i + 1, tab, pos, stor)
            ELSE Reappend(i + 1, tab \o [j \in 1..n |-> i],
                          pos + n * glsl_get_components(e.type),
                          [stor EXCEPT ![i].remap_location = Len(tab),
                                       ![i].storage = pos])

nir_setup_uniform_remap_tables(n) ==
    LET r1 == Reserve(1, [l \in 1..n |-> NULL], 0, storage)
    IN  Reappend(1, r1.tab, r1.pos, r1.stor)

(* Lines 520-526: size the tables from the program-wide state, then build *)
(* them; either rzalloc_array may fail (196-207), after the table pointer *)
(* was already replaced.                                                  *)
FinishLink ==
    /\ pc.at = "remap"
    /\ numDataSlots' = st.numValues
    /\ \/ /\ CanFail          \* the table (NULL) or the data array failed
          /\ linker_error
          /\ remap' \in {<<>>, [l \in 1..st.maxLocation |-> NULL]}
          /\ UNCHANGED storage
       \/ LET r == nir_setup_uniform_remap_tables(st.maxLocation)
          IN /\ remap' = r.tab
             /\ storage' = r.stor
             /\ UNCHANGED <<linkOk, errors>>
    /\ pc' = [pc EXCEPT !.at = "done"]
    /\ UNCHANGED <<decl, varLoc, numStorage, st, sh>>

(* The frozen IR of a program: each stage declares distinct uniforms in   *)
(* some order.                                                            *)
DeclSeqs == {q \in SetToAllKPermutations(DOMAIN Uniforms) :
                Len(q) <= MaxPerStage}

(* Lines 463-468: a fresh storage array and zeroed allocator state.       *)
Init ==
    /\ decl \in [Stages -> DeclSeqs]
    /\ varLoc = [s \in Stages |-> [u \in DOMAIN Uniforms |->
                                     Uniforms[u].location]]
    /\ storage = <<>>
    /\ numStorage = 0
    /\ st = [numValues |-> 0, maxLocation |-> 0, samplersUsed |-> {},
             shadowSamplers |-> {}, nextSampler |-> 0, nextImage |-> 0,
             numSamplers |-> 0, numImages |-> 0, numComponents |-> 0]
    /\ sh = [s \in Stages |-> NoStage]
    /\ remap = <<>>
    /\ numDataSlots = 0
    /\ linkOk = TRUE
    /\ errors = 0
    /\ pc = [at |-> "vars", stage |-> 0, pos |-> 1, leaves |-> <<>>,
             var |-> CHOOSE u \in DOMAIN Uniforms : TRUE]

Next ==
    \/ LinkVar
    \/ LinkLeaf
    \/ FinishStage
    \/ FinishLink

Spec == Init /\ [][Next]_vars

-----------------------------------------------------------------------------
Done == pc.at = "done"
Linked == Done /\ linkOk
Entries(e) == Max1(e.array_elements)
Declares(s, u) == u \in Range(decl[s]) /\ Uniforms[u].location # -1
OpaqueRange(e) ==
    LET s == CHOOSE x \in DOMAIN e.opaque : TRUE
    IN e.opaque[s] .. (e.opaque[s] + Entries(e) - 1)

TypeOK ==
    /\ decl \in [Stages -> DeclSeqs]
    /\ numStorage \in Nat /\ numDataSlots \in Nat
    /\ \A i \in 1..Len(storage) :
          /\ storage[i].var \in DOMAIN Uniforms
          /\ storage[i].type \in DOMAIN Types
          /\ storage[i].active \subseteq Stages
          /\ DOMAIN storage[i].opaque \subseteq Stages
    /\ \A l \in 1..Len(remap) : remap[l] \in 0..Len(storage)
    /\ linkOk \in BOOLEAN /\ errors \in Nat
    /\ pc.at \in {"vars", "leaf", "remap", "done"} /\ pc.stage \in Stages

(* Spec 8, "remap table containment": every location of an entry's range  *)
(* [remap_location, remap_location + MAX2(1, array_elements)) maps back   *)
(* to that entry, so no two entries' ranges overlap and no later entry    *)
(* overwrote an earlier one in the reserve pass.                          *)
RemapContainment ==
    Linked =>
        \A i \in 1..Len(storage) :
            \A j \in 0..(Entries(storage[i]) - 1) :
                /\ storage[i].remap_location + j + 1 \in DOMAIN remap
                /\ remap[storage[i].remap_location + j + 1] = i

(* Spec 3, "at most one entry per distinct explicit remap_location": a    *)
(* uniform a later stage declares again is merged into the entry the     *)
(* earlier stage created, never duplicated.                               *)
NoDuplicateLocation ==
    \A i, j \in 1..Len(storage) :
        i # j => storage[i].remap_location # storage[j].remap_location

(* Sampler (and image) indices come from one program-wide counter: the    *)
(* index ranges of distinct sampler entries, of any stages, never meet.   *)
OpaqueIndicesDisjoint ==
    \A i, j \in 1..Len(storage) :
        /\ i # j
        /\ Types[storage[i].type].opaque = Types[storage[j].type].opaque
        /\ Types[storage[i].type].opaque # "none"
        => OpaqueRange(storage[i]) \cap OpaqueRange(storage[j]) = {}

(* Every entry's slice of the uniform data array, starting at the offset  *)
(* the reserve pass gave it, lies inside the NumUniformDataSlots values   *)
(* allocated, though the two are computed by different type helpers.      *)
DataSlotsInBounds ==
    Linked =>
        \A i \in 1..Len(storage) :
            /\ storage[i].storage >= 0
            /\ storage[i].storage
                 + Entries(storage[i]) * glsl_get_components(storage[i].type)
               <= numDataSlots

(* Every texture unit a sampler uniform of a stage was given, below       *)
(* MAX_SAMPLERS, is in that stage's SamplersUsed, also when the stage     *)
(* only merged into an entry an earlier stage created and so was given no *)
(* unit itself: the mask is program-wide, never reset between stages.     *)
SamplerUnitsUsed ==
    Linked =>
        \A s \in Stages, i \in 1..Len(storage) :
            /\ Types[storage[i].type].opaque = "sampler"
            /\ Declares(s, storage[i].var)
            => OpaqueRange(storage[i]) \cap 0..(MAX_SAMPLERS - 1)
                 \subseteq sh[s].samplersUsed

(* Spec 6: SamplersUsed is the texture-unit mask of the stage's own       *)
(* program: it holds no unit of a sampler only other stages declare.      *)
SamplersUsedOwnUnits ==
    Linked =>
        \A s \in Stages :
            sh[s].samplersUsed \subseteq
                UNION {OpaqueRange(storage[i]) :
                         i \in {j \in 1..Len(storage) :
                                 Types[storage[j].type].opaque = "sampler"
                                 /\ Declares(s, storage[j].var)}}

(* Every storage entry of a uniform carries in active_shader_mask every   *)
(* stage that declares the uniform (GL_REFERENCED_BY_*_SHADER).           *)
ActiveMaskComplete ==
    Linked =>
        \A s \in Stages, i \in 1..Len(storage) :
            Declares(s, storage[i].var) => s \in storage[i].active

(* After linking, var->data.location of every uniform with an explicit    *)
(* location is the index of its (first) storage entry, in every stage     *)
(* that declares it (lines 356-357).                                      *)
VarLocationIsStorageIndex ==
    Linked =>
        \A s \in Stages, u \in DOMAIN Uniforms :
            Declares(s, u) =>
                /\ varLoc[s][u] + 1 \in 1..Len(storage)
                /\ storage[varLoc[s][u] + 1].var = u
                /\ \A i \in 1..varLoc[s][u] : storage[i].var # u

(* Spec 4.3: a failed allocation leaves the partial storage in place:     *)
(* NumUniformStorage entries are readable at UniformStorage.              *)
StorageCountMatches == numStorage = Len(storage)
=============================================================================
