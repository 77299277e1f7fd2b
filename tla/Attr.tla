-------------------------------- MODULE Attr --------------------------------
(***************************************************************************)
(* The options of an attribute of dynec's macros, each a name with a       *)
(* value, and how the macros look for them (codegen/src/util.rs).          *)
(***************************************************************************)
EXTENDS Integers, Sequences

Only(e) == e[CHOOSE i \in DOMAIN e : TRUE]

Named(opts, names) == SelectSeq(opts, LAMBDA o : o.name \in names)

(* find_one is an error for an option that is there twice.                 *)
FoundTwice(opts, names) == Len(Named(opts, names)) > 1
Has(opts, name) == Named(opts, {name}) # << >>
FindOne(opts, name) == Only(Named(opts, {name})).value
FindOr(opts, name, default) == IF Has(opts, name) THEN FindOne(opts, name) ELSE default

MergeAll(opts, name) ==
  LET all == Named(opts, {name}) IN UNION {all[i].value : i \in DOMAIN all}

=============================================================================
