------------------------------- MODULE Typed -------------------------------
(***************************************************************************)
(* The storages of one archetype, from their registration to the           *)
(* initialisation of entities: typed::Builder and Typed                    *)
(* (src/world/typed.rs), initialisers (src/comp.rs, src/comp/any.rs), and  *)
(* the filling of simple and isotope storages (src/storage/simple.rs,      *)
(* src/storage/isotope.rs).                                                *)
(*                                                                         *)
(* add_simple_storage_if_missing calls itself for the components its       *)
(* initialiser reads; its running calls form a stack.  An entity is        *)
(* initialised storage by storage, by one thread.                          *)
(*                                                                         *)
(* Entities that follow each other on an id are told apart by a number. A  *)
(* stored component is the set of the numbers its value comes from: of the *)
(* entity it was made for, and of those whose components its initialiser   *)
(* read.  NoComp stands for no component.                                  *)
(***************************************************************************)
EXTENDS Integers, Sequences, FiniteSets

CONSTANTS
  Simple,        \* simple component types
  Isotope,       \* isotope component types
  Discrim,
  Entity,        \* raw entity ids
  NoEntity,
  Flag,          \* deletion::Flag
  Strategies,    \* what a program may declare of its components
  Given,         \* the comp::Maps a program may create entities with
  MaxDepth,      \* bound on nested registrations; a stack overflows later
  MaxLives       \* bound on the entities that have one id in turn

Component == Simple \cup Isotope
NoComp == {}

(* PRESENCE and INIT_STRATEGY.  deps are the parameters of the initialiser.*)
Strategy == [required : BOOLEAN, auto : BOOLEAN, deps : Seq(Simple)]

(* comp::Map: a simple component once, an isotope component any number of  *)
(* times, each time with a discriminant.                                   *)
CompMap == [simple : SUBSET Simple, isotope : [Isotope -> Seq(Discrim)]]
NoMap == [simple |-> {}, isotope |-> [c \in Isotope |-> << >>]]

ASSUME TypedAssumption ==
  /\ Flag \in Simple /\ Simple \cap Isotope = {} /\ NoEntity \notin Entity
  /\ Strategies \subseteq [Component -> Strategy] /\ Given \subseteq CompMap
  /\ \A st \in Strategies :
       /\ st[Flag] = [required |-> FALSE, auto |-> FALSE, deps |-> << >>]
       /\ \A c \in Component : ~st[c].auto => st[c].deps = << >>
  /\ MaxDepth \in Nat /\ MaxLives \in Nat

VARIABLES
  strategy,             \* the program's declaration
  simple_storages,      \* the keys of the IndexMap, in its order
  isotope_storage_maps,
  calls,                \* running calls of add_simple_storage_if_missing
  phase,                \* "building", "built", or "panicked"
  comps,                \* comps[c][e]: the simple component c of e
  isotopes,             \* isotopes[c]: the storages of the discriminants used
  lives,                \* how many entities have had the id
  allocated,            \* ids in use
  live,                 \* those of entities that are initialised
  entity,               \* the one init_entity is at work on, or NoEntity
  comp_map,             \* what was given for it
  index,                \* the next of the simple storages
  maps                  \* the isotope maps that are still to come

registry == <<simple_storages, isotope_storage_maps, calls>>
content == <<comps, isotopes, lives, allocated, live>>
creation == <<entity, comp_map, index, maps>>
tvars == <<strategy, registry, phase, content, creation>>

Registered == {simple_storages[i] : i \in DOMAIN simple_storages}
DepsOf(c) == {strategy[c].deps[i] : i \in DOMAIN strategy[c].deps}
Repeats(deps) == \E i, j \in DOMAIN deps : i < j /\ deps[i] = deps[j]

(* typed::builder: every archetype has the deletion flag.                  *)
TypedInit ==
  /\ strategy \in Strategies
  /\ simple_storages = <<Flag>>
  /\ isotope_storage_maps = {}
  /\ calls = << >>
  /\ phase = "building"
  /\ comps = [c \in Simple |-> [e \in Entity |-> NoComp]]
  /\ isotopes = [c \in Isotope |-> << >>]
  /\ lives = [e \in Entity |-> 0]
  /\ allocated = {} /\ live = {}
  /\ entity = NoEntity /\ comp_map = NoMap /\ index = 1 /\ maps = {}

-----------------------------------------------------------------------------
(* Registration.                                                           *)

(* Mutant: the dependencies are not looked at for repetitions.             *)
MutAddIfMissing(c, rest) ==
  /\ calls' = IF c \in Registered THEN rest
              ELSE Append(rest, [comp |-> c, deps |-> strategy[c].deps])
  /\ UNCHANGED phase

(* A call of add_simple_storage_if_missing by the innermost of rest.  The  *)
(* storage is made first, which looks for repeated dependencies.           *)
AddIfMissing(c, rest) ==
  IF c \in Registered
  THEN calls' = rest /\ UNCHANGED phase
  ELSE IF Repeats(strategy[c].deps)
  THEN calls' = << >> /\ phase' = "panicked"
  ELSE calls' = Append(rest, [comp |-> c, deps |-> strategy[c].deps]) /\ UNCHANGED phase

(* A system requests a simple component.                                   *)
RequestSimple(c) ==
  /\ phase = "building" /\ calls = << >>
  /\ AddIfMissing(c, << >>)
  /\ UNCHANGED <<strategy, simple_storages, isotope_storage_maps, content, creation>>

Innermost == calls[Len(calls)]

(* Mutant: the loop does not move on from a dependency.                    *)
MutAddDep ==
  /\ calls # << >> /\ Len(calls) <= MaxDepth
  /\ Innermost.deps # << >>
  /\ AddIfMissing(Head(Innermost.deps), calls)
  /\ UNCHANGED <<strategy, simple_storages, isotope_storage_maps, content, creation>>

(* The loop over the dependencies.                                         *)
AddDep ==
  /\ calls # << >> /\ Len(calls) <= MaxDepth
  /\ Innermost.deps # << >>
  /\ AddIfMissing(Head(Innermost.deps), [calls EXCEPT ![Len(calls)].deps = Tail(@)])
  /\ UNCHANGED <<strategy, simple_storages, isotope_storage_maps, content, creation>>

(* Mutant: the storage is inserted before the loop.                        *)
MutInsertStorage ==
  /\ calls # << >>
  /\ simple_storages' = IF Innermost.comp \in Registered THEN simple_storages
                        ELSE Append(simple_storages, Innermost.comp)
  /\ calls' = SubSeq(calls, 1, Len(calls) - 1)
  /\ UNCHANGED <<strategy, isotope_storage_maps, phase, content, creation>>

(* After the loop, the storage is inserted; an IndexMap keeps the place of *)
(* a key it has.                                                           *)
InsertStorage ==
  /\ calls # << >> /\ Innermost.deps = << >>
  /\ simple_storages' = IF Innermost.comp \in Registered THEN simple_storages
                        ELSE Append(simple_storages, Innermost.comp)
  /\ calls' = SubSeq(calls, 1, Len(calls) - 1)
  /\ UNCHANGED <<strategy, isotope_storage_maps, phase, content, creation>>

(* add_isotope_map_if_missing does not look at the initialiser.            *)
RequestIsotope(c) ==
  /\ phase = "building" /\ calls = << >>
  /\ isotope_storage_maps' = isotope_storage_maps \cup {c}
  /\ UNCHANGED <<strategy, simple_storages, calls, phase, content, creation>>

BuildTyped ==
  /\ phase = "building" /\ calls = << >>
  /\ phase' = "built"
  /\ UNCHANGED <<strategy, registry, content, creation>>

-----------------------------------------------------------------------------
(* Entities.  Ids are handed out while systems run, and the creations are  *)
(* worked off later, in any order.                                         *)

Allocate(e) ==
  /\ phase = "built" /\ entity = NoEntity
  /\ e \notin allocated /\ lives[e] < MaxLives
  /\ lives' = [lives EXCEPT ![e] = @ + 1]
  /\ allocated' = allocated \cup {e}
  /\ UNCHANGED <<strategy, registry, phase, comps, isotopes, live, creation>>

InitEntity(e, given) ==
  /\ phase = "built" /\ entity = NoEntity
  /\ e \in allocated \ live
  /\ entity' = e /\ comp_map' = given /\ index' = 1 /\ maps' = isotope_storage_maps
  /\ UNCHANGED <<strategy, registry, phase, content>>

(* DepGetter::get and get_any for the i-th parameter of an initialiser: the*)
(* storage must exist, in front of the one being filled unless that is an  *)
(* isotope storage; its lock must be free, and the entity must have the    *)
(* component.  The locks of all parameters are held to the end of the call.*)
DepFault(deps, i, end) ==
  CASE deps[i] \notin {simple_storages[j] : j \in 1..end} -> "toposort bug"
    [] \E j \in 1..(i - 1) : deps[j] = deps[i] -> "locked"
    [] comps[deps[i]][entity] = NoComp -> "absent"
    [] OTHER -> "none"

InitFails(deps, end) == \E i \in DOMAIN deps : DepFault(deps, i, end) # "none"

(* The value of an initialiser: it is made for the entity from the         *)
(* components that it reads.                                               *)
InitValue(deps) ==
  {lives[entity]} \cup UNION {comps[deps[i]][entity] : i \in DOMAIN deps}

Panics == phase' = "panicked" /\ UNCHANGED <<strategy, registry, content, creation>>

SetSimple(c, value) ==
  /\ comps' = [comps EXCEPT ![c][entity] = value]
  /\ index' = index + 1
  /\ UNCHANGED <<strategy, registry, phase, isotopes, lives, allocated, live,
                 entity, comp_map, maps>>

(* fill_init_simple of the next storage.                                   *)
FillSimple ==
  /\ phase = "built" /\ entity # NoEntity /\ index <= Len(simple_storages)
  /\ LET c == simple_storages[index]
         deps == strategy[c].deps
     IN  \/ c \in comp_map.simple /\ SetSimple(c, {lives[entity]})
         \/ /\ c \notin comp_map.simple /\ strategy[c].auto
            /\ IF InitFails(deps, index - 1) THEN Panics ELSE SetSimple(c, InitValue(deps))
         \/ /\ c \notin comp_map.simple /\ ~strategy[c].auto
            /\ IF strategy[c].required THEN Panics ELSE SetSimple(c, comps[c][entity])

(* Recycling::snapshot, as the moments at which recyclable is brought up   *)
(* to date leave it (see Ealloc): it shows the first entities to have      *)
(* their ids, and perhaps others that the ids were recycled for.           *)
Snapshots ==
  {S \in SUBSET {e \in Entity : lives[e] > 0} : \A e \in allocated : lives[e] = 1 => e \in S}

GivenDiscrims(c) == {comp_map.isotope[c][i] : i \in DOMAIN comp_map.isotope[c]}

(* get_or_create for the discriminants of the map: a storage that is new   *)
(* is filled for the snapshot first, by initialisers without parameters.   *)
Created(c, snapshot) ==
  [d \in DOMAIN isotopes[c] \cup GivenDiscrims(c) |->
     [e \in Entity |->
        IF e = entity /\ d \in GivenDiscrims(c) THEN {lives[e]}
        ELSE IF d \in DOMAIN isotopes[c] THEN isotopes[c][d][e]
        ELSE IF strategy[c].auto /\ e \in snapshot THEN {lives[e]} ELSE NoComp]]

(* The dependencies of an isotope's initialiser cannot be had for a new    *)
(* storage: PanicDepGetter.                                                *)
CreateFails(c, snapshot) ==
  /\ GivenDiscrims(c) \ DOMAIN isotopes[c] # {}
  /\ strategy[c].auto /\ strategy[c].deps # << >> /\ snapshot # {}

SetIsotopes(c, storages) ==
  /\ isotopes' = [isotopes EXCEPT ![c] = storages]
  /\ maps' = maps \ {c}
  /\ UNCHANGED <<strategy, registry, phase, comps, lives, allocated, live,
                 entity, comp_map, index>>

Lacking(storages) == {d \in DOMAIN storages : storages[d][entity] = NoComp}

(* fill_init_isotope: the values given, then the initialiser where the     *)
(* entity has none yet, or a count of the values.                          *)
FillIsotope(c, snapshot) ==
  /\ phase = "built" /\ entity # NoEntity /\ index > Len(simple_storages) /\ c \in maps
  /\ LET made == Created(c, snapshot)
         deps == strategy[c].deps
     IN  \/ CreateFails(c, snapshot) /\ Panics
         \/ /\ ~CreateFails(c, snapshot) /\ strategy[c].auto
            /\ IF Lacking(made) # {} /\ InitFails(deps, Len(simple_storages))
               THEN Panics
               ELSE SetIsotopes(c, [d \in DOMAIN made |->
                      IF d \in Lacking(made) THEN [made[d] EXCEPT ![entity] = InitValue(deps)]
                      ELSE made[d]])
         \/ /\ ~strategy[c].auto
            /\ IF strategy[c].required
                    /\ Len(comp_map.isotope[c]) # Cardinality(DOMAIN made)
               THEN Panics
               ELSE SetIsotopes(c, made)

(* init_entity returns.                                                    *)
Initialised ==
  /\ phase = "built" /\ entity # NoEntity /\ index > Len(simple_storages) /\ maps = {}
  /\ live' = live \cup {entity}
  /\ entity' = NoEntity /\ comp_map' = NoMap /\ index' = 1
  /\ UNCHANGED <<strategy, registry, phase, comps, isotopes, lives, allocated, maps>>

(* Mutant: a deletion leaves the components.                               *)
MutDelete(e) ==
  /\ phase = "built" /\ entity = NoEntity /\ e \in live
  /\ live' = live \ {e} /\ allocated' = allocated \ {e}
  /\ UNCHANGED <<strategy, registry, phase, comps, isotopes, lives, creation>>

(* try_real_delete_entity once no finalizer is left: clear_entry of the    *)
(* simple storages.  (Entities has the finalizers and references.)         *)
Delete(e) ==
  /\ phase = "built" /\ entity = NoEntity /\ e \in live
  /\ comps' = [c \in Simple |-> IF c \in Registered THEN [comps[c] EXCEPT ![e] = NoComp]
                                ELSE comps[c]]
  /\ live' = live \ {e} /\ allocated' = allocated \ {e}
  /\ UNCHANGED <<strategy, registry, phase, isotopes, lives, creation>>

-----------------------------------------------------------------------------

AddNext == AddDep \/ InsertStorage
FillNext == FillSimple \/ (\E c \in Isotope : \E S \in Snapshots : FillIsotope(c, S)) \/ Initialised

TypedNext ==
  \/ \E c \in Simple : RequestSimple(c)
  \/ AddNext
  \/ \E c \in Isotope : RequestIsotope(c)
  \/ BuildTyped
  \/ \E e \in Entity : Allocate(e) \/ Delete(e) \/ \E given \in Given : InitEntity(e, given)
  \/ FillNext

TypedSpec == TypedInit /\ [][TypedNext]_tvars /\ WF_tvars(AddNext)

-----------------------------------------------------------------------------

(* simple_storages is always toposorted: whatever the order in which       *)
(* systems request components, the components that an initialiser reads    *)
(* are in front of the one it makes, and none is there twice.              *)
Toposorted ==
  \A i \in DOMAIN simple_storages :
    /\ \A d \in DepsOf(simple_storages[i]) : \E j \in 1..(i - 1) : simple_storages[j] = d
    /\ \A j \in 1..(i - 1) : simple_storages[j] # simple_storages[i]

(* No set of components has initialisers that only wait for each other.    *)
DepsAcyclic ==
  \A S \in SUBSET Simple : S # {} => \E c \in S : DepsOf(c) \cap S = {}

(* The recursion of add_simple_storage_if_missing ends for every program   *)
(* whose initialisers do not wait for each other in a circle.              *)
RegistrationEnds == calls # << >> /\ DepsAcyclic ~> calls = << >>

(* A registered component that is neither given nor initialised.           *)
Omitted(c) == c \notin comp_map.simple /\ ~strategy[c].auto

(* The arguments of a creation leave out a required component, or one that *)
(* an initialiser reads.                                                   *)
Incomplete ==
  \E c \in Registered \ comp_map.simple :
    \/ strategy[c].required /\ Omitted(c)
    \/ \E d \in DepsOf(c) : Omitted(d)

(* Isotope components as init_entity supports them: their initialisers     *)
(* read nothing, and those that are required have one.                     *)
Supported(c) == IF strategy[c].auto THEN strategy[c].deps = << >> ELSE ~strategy[c].required

(* init_entity panics only for want of a component that the caller has to  *)
(* give ("Cannot create an entity ... without explicitly passing"): never  *)
(* for the order of the storages ("toposort bug") or for a lock that is    *)
(* taken ("dep indices checked to be unique during toposort").             *)
CreationFailsOnlyIfIncomplete ==
  phase = "panicked" /\ entity # NoEntity =>
    Incomplete \/ \E c \in isotope_storage_maps : ~Supported(c)

(* An entity that was initialised has the simple components that are       *)
(* required or have initialisers, and all of them are its own: none is     *)
(* left from, or computed from, an entity that had the id before it.       *)
InitialisedFromItself ==
  \A e \in live, c \in Registered :
    /\ comps[c][e] \subseteq {lives[e]}
    /\ strategy[c].auto \/ strategy[c].required => comps[c][e] # NoComp

-----------------------------------------------------------------------------
(* What the documentation or an assertion says and the code does not       *)
(* always keep; README.md tells in which executions.                       *)

(* "Isotope components are never instantiated on entity creation.": the    *)
(* new entity gets none but those the caller gives.                        *)
IsotopesNeverInstantiated ==
  [][entity # NoEntity =>
       \A c \in Isotope : \A d \in DOMAIN isotopes[c] \ GivenDiscrims(c) :
         isotopes'[c][d][entity] = isotopes[c][d][entity]]_isotopes

=============================================================================
