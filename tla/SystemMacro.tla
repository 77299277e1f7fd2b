----------------------------- MODULE SystemMacro -----------------------------
(***************************************************************************)
(* What #[system] makes of a function (codegen/src/system.rs and           *)
(* codegen/src/system/): each parameter is given an ArgType, from which    *)
(* come a request of the Spec that the scheduler works with, and the       *)
(* expression that gets the argument when the system runs.  The two meet   *)
(* again in Systems.                                                       *)
(*                                                                         *)
(* A parameter is the last name of its type, "&" and "&mut" for references,*)
(* with its type arguments and the items of its #[dynec(...)] attributes.  *)
(* An item or option is a name with a value.                               *)
(***************************************************************************)
EXTENDS Builder, Attr

CONSTANTS
  StrongRefs,    \* StrongRefs[t]: what visit_type finds in t (see Referrer)
  NoType

-----------------------------------------------------------------------------

(* ArgType.  partial is MaybePartial::Partial; all is a discrim of None.   *)
ErrorArg ==
  [kind |-> "error", partial |-> FALSE, mutable |-> FALSE, arch |-> NoType, ty |-> NoType,
   all |-> TRUE, discrims |-> Discrim, maybe_uninit |-> {}, thread_local |-> FALSE,
   no_partition |-> FALSE, entity |-> "unknown"]

(* The options that each item may have, those find_one is used on in       *)
(* groups: entity and not_entity count as one.                             *)
OptionsOf(name) ==
  CASE name = "param" -> {{"entity", "not_entity"}}
    [] name = "local" -> {{"entity", "not_entity"}, {"initial"}}
    [] name = "global" -> {{"thread_local"}}
    [] name = "simple" -> {{"mut"}, {"arch"}, {"comp"}}
    [] name = "isotope" -> {{"mut"}, {"arch"}, {"comp"}, {"discrim"}, {"discrim_set"}}
    [] name = "entity_creator" -> {{"arch"}, {"no_partition"}}
    [] name \in {"entity_deleter", "entity_iterator"} -> {{"arch"}}
    [] OTHER -> {}
Accumulates(name) == name \in {"global", "simple", "isotope"}

ParseFails(item) ==
  \/ OptionsOf(item.name) = {}
  \/ \E i \in DOMAIN item.opts :
       /\ item.opts[i].name \notin UNION OptionsOf(item.name)
       /\ ~(Accumulates(item.name) /\ item.opts[i].name = "maybe_uninit")
  \/ \E group \in OptionsOf(item.name) : FoundTwice(item.opts, group)
  \/ item.name = "local" /\ ~Has(item.opts, "initial")

KindOf(name) ==
  CASE name \in {"param", "local"} -> "Local"
    [] name = "global" -> "Global"
    [] name = "simple" -> "Simple"
    [] name = "isotope" -> "Isotope"
    [] name = "entity_creator" -> "EntityCreator"
    [] name = "entity_deleter" -> "EntityDeleter"
    [] name = "entity_iterator" -> "EntityIterator"

(* Components are named by the attribute altogether, or not at all.        *)
HalfNamed(item) ==
  /\ item.name \in {"simple", "isotope"}
  /\ ~(Has(item.opts, "arch") /\ Has(item.opts, "comp"))
  /\ Has(item.opts, "arch") \/ Has(item.opts, "comp") \/ Has(item.opts, "mut")

TryAttrToArgType(item) ==
  LET o == item.opts
  IN  IF ParseFails(item) \/ HalfNamed(item) THEN ErrorArg
      ELSE [kind |-> KindOf(item.name),
            partial |-> item.name \notin {"param", "local", "global"} /\ ~Has(o, "arch"),
            mutable |-> Has(o, "mut"),
            arch |-> FindOr(o, "arch", NoType),
            ty |-> FindOr(o, "comp", NoType),
            all |-> ~Has(o, "discrim"),
            discrims |-> FindOr(o, "discrim", Discrim),
            maybe_uninit |-> MergeAll(o, "maybe_uninit"),
            thread_local |-> Has(o, "thread_local"),
            no_partition |-> Has(o, "no_partition"),
            entity |-> IF Has(o, "entity") THEN "entity"
                       ELSE IF Has(o, "not_entity") THEN "not_entity" ELSE "unknown"]

(* Without an attribute the type tells the usage.                          *)
InferredKind(type) ==
  CASE type \in {"ReadSimple", "WriteSimple"} -> "Simple"
    [] type \in {"ReadIsotopePartial", "WriteIsotopePartial",
                 "ReadIsotopeFull", "WriteIsotopeFull"} -> "Isotope"
    [] type \in {"EntityCreator", "EntityDeleter", "EntityIterator"} -> type
    [] OTHER -> "error"

IsReference(param) == param.type \in {"&", "&mut"}
IsWrite(type) == type \in {"WriteSimple", "WriteIsotopePartial", "WriteIsotopeFull"}

Arity(kind) == CASE kind = "Simple" -> {2} [] kind = "Isotope" -> {2, 3} [] OTHER -> {1}

(* The partial builders take archetype and component from the type.        *)
Completed(arg, param) ==
  IF arg.kind = "error" \/ IsReference(param) \/ Len(param.args) \notin Arity(arg.kind)
  THEN ErrorArg
  ELSE [arg EXCEPT !.partial = FALSE, !.arch = param.args[1],
                   !.ty = IF Len(param.args) > 1 THEN param.args[2] ELSE NoType,
                   !.mutable = @ \/ IsWrite(param.type)]

InferArgType(param) ==
  IF Len(param.attrs) > 1 THEN ErrorArg
  ELSE IF param.attrs = << >>
  THEN Completed([ErrorArg EXCEPT !.kind = InferredKind(param.type)], param)
  ELSE LET arg == TryAttrToArgType(param.attrs[1])
       IN  IF arg.partial THEN Completed(arg, param) ELSE arg

(* Locals and globals are the referent of a reference; thread-local        *)
(* globals are for systems on the main thread.                             *)
ArgOf(param, thread_local) ==
  LET arg == InferArgType(param)
  IN  IF arg.kind \notin {"Local", "Global"} THEN arg
      ELSE IF ~IsReference(param) \/ (arg.thread_local /\ ~thread_local) THEN ErrorArg
      ELSE [arg EXCEPT !.ty = param.args[1], !.mutable = param.type = "&mut"]

-----------------------------------------------------------------------------
(* The function.                                                           *)

ThreadLocal(f) == Has(f.opts, "thread_local")
ArgsOf(f) == [i \in DOMAIN f.params |-> ArgOf(f.params[i], ThreadLocal(f))]

Expands(f) ==
  /\ ~FoundTwice(f.opts, {"thread_local"})
  /\ \A i \in DOMAIN f.params : ArgsOf(f)[i].kind # "error"

(* The type of the argument that the generated run() passes.               *)
AccessorOf(arg) ==
  CASE arg.kind = "Simple" -> {IF arg.mutable THEN "WriteSimple" ELSE "ReadSimple"}
    [] arg.kind = "Isotope" /\ arg.all ->
         {IF arg.mutable THEN "WriteIsotopeFull" ELSE "ReadIsotopeFull"}
    [] arg.kind = "Isotope" /\ ~arg.all ->
         {IF arg.mutable THEN "WriteIsotopePartial" ELSE "ReadIsotopePartial"}
    [] arg.kind \in {"Local", "Global"} -> {"&", "&mut"}
    [] OTHER -> {arg.kind}

(* rustc: arguments have the types of the parameters, with the traits that *)
(* the requests ask for; local state that refers to entities is marked, by *)
(* the assertions of entity_ref; unsync_globals is not borrowed twice.     *)
Compiles(f) ==
  /\ Expands(f)
  /\ \A i \in DOMAIN f.params :
       LET arg == ArgsOf(f)[i]
       IN  /\ f.params[i].type \in AccessorOf(arg)
           /\ arg.kind = "Global" => arg.ty \in Global
           /\ arg.kind \in {"Simple", "Isotope"} => <<arg.arch, arg.ty>> \in Component
           /\ arg.kind = "Local" => CASE arg.entity = "entity" -> arg.ty \in DOMAIN StrongRefs
                                      [] arg.entity = "unknown" -> arg.ty \notin DOMAIN StrongRefs
                                      [] OTHER -> TRUE
  /\ \A i, j \in DOMAIN f.params :
       ArgsOf(f)[i].thread_local /\ ArgsOf(f)[j].thread_local => i = j

Requested(args) == {i \in DOMAIN args : args[i].kind \in {"Global", "Simple", "Isotope"}}
ResourceOf(arg) == IF arg.kind = "Global" THEN arg.ty ELSE <<arg.arch, arg.ty>>

(* Mutant: the requests of globals are immutable.                          *)
MutRequestOf(arg) ==
  [resource |-> ResourceOf(arg), sync |-> ~arg.thread_local,
   mutable |-> arg.mutable /\ arg.kind # "Global",
   all |-> arg.all, discrims |-> arg.discrims,
   strong_refs |-> StrongRefs[arg.ty] \ arg.maybe_uninit]

(* GlobalRequest, SimpleRequest and IsotopeRequest::new, then maybe_uninit.*)
RequestOf(arg) ==
  [resource |-> ResourceOf(arg), sync |-> ~arg.thread_local, mutable |-> arg.mutable,
   all |-> arg.all, discrims |-> arg.discrims,
   strong_refs |-> StrongRefs[arg.ty] \ arg.maybe_uninit]

Creators(args) == {i \in DOMAIN args : args[i].kind = "EntityCreator"}

(* get_spec, visit_type and state_maybe_uninit of the generated Descriptor.*)
SpecFrom(f, args) ==
  LET partitioned == {args[i].arch : i \in {j \in Creators(args) : ~args[j].no_partition}}
      creates == {args[i].arch : i \in Creators(args)}
  IN  [state_refs |-> UNION {StrongRefs[args[i].ty] : i \in
                        {j \in DOMAIN args : args[j].kind = "Local" /\ args[j].entity = "entity"}},
       maybe_uninit |-> MergeAll(f.opts, "maybe_uninit"),
       requests |-> [i \in Requested(args) |-> RequestOf(args[i])],
       creates |-> creates, no_partition |-> creates \ partitioned,
       before |-> MergeAll(f.opts, "before"), after |-> MergeAll(f.opts, "after")]

(* maybe_uninit panics for an archetype the request does not refer to.     *)
GetSpecPanics(args) ==
  \E i \in Requested(args) : ~(args[i].maybe_uninit \subseteq StrongRefs[args[i].ty])

=============================================================================
