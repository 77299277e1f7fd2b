----------------------------- MODULE MCScheduler -----------------------------
(***************************************************************************)
(* Two thread-safe systems, one on the main thread; a user's partition 4   *)
(* and the creation partition 5 of the archetype a; a simple component p   *)
(* with references to a, an isotope component c with two discriminants; a  *)
(* user's global g and dynec's own, store; local states h, which refers to *)
(* a, and n.                                                               *)
(***************************************************************************)
EXTENDS Systems

CONSTANTS a, c, p, h, n, g, store, d1, d2, none

const_Before == <<1, 1, 4, 4, 2, 2, 5, 5, 3, 3, 4, 5, 1, 5>>
const_After  == <<4, 5, 1, 2, 4, 5, 2, 3, 4, 5, 3, 1, 5, 2>>
const_CreationOf == [x \in {a} |-> 5]
const_Component == {<<a, c>>, <<a, p>>}
const_StrongRefs == [t \in {c, p, h, g, store} |-> IF t \in {p, h} THEN {a} ELSE {}]

(* The notation of Rust, #[dynec(...)] on the right.                       *)
Opt(name, value) == [name |-> name, value |-> value]
Item(name, opts) == << [name |-> name, opts |-> opts] >>
Par(type, args, attrs) == [type |-> type, args |-> args, attrs |-> attrs]

Write(ds) == Par("WriteIsotopePartial", <<a, c>>, Item("isotope", << Opt("discrim", ds) >>))
Read(ds) == Par("ReadIsotopePartial", <<a, c>>,
  Item("isotope", << Opt("arch", a), Opt("comp", c), Opt("discrim", ds) >>))
ReadAll == Par("ReadIsotopeFull", <<a, c>>, << >>)
Component_p(type) == Par(type, <<a, p>>, << >>)
Uninit_p == Par("WriteSimple", <<a, p>>,
  Item("simple", << Opt("mut", TRUE), Opt("arch", a), Opt("comp", p), Opt("maybe_uninit", {a}) >>))
Shared(ref) == Par(ref, <<g>>, Item("global", << >>))
Local(x) == Par("&mut", <<x>>, Item("global", << Opt("thread_local", TRUE) >>))
State(x, mark) == Par("&mut", <<x>>, Item("local", << Opt("initial", 0) >> \o mark))
Creator == Par("EntityCreator", <<a>>, << >>)
Hidden == Par("EntityCreator", <<a>>, Item("entity_creator", << Opt("no_partition", TRUE) >>))
Entity == << Opt("entity", TRUE) >>

(* These do not expand, do not compile, and fail in get_spec.              *)
Faulty ==
  { << Par("&", <<g>>, Item("global", << Opt("thread_local", TRUE), Opt("thread_local", TRUE) >>)) >>,
    << Par("WriteSimple", <<a, p>>, Item("simple", << Opt("mut", TRUE) >>)) >>,
    << Par("ReadIsotopePartial", <<a, c>>, << >>) >>,
    << State(h, << >>) >>,
    << Par("ReadIsotopeFull", <<a, c>>, Item("isotope", << Opt("maybe_uninit", {a}) >>)) >> }

Plain ==
  { << >>,
    << Write({d1}) >>,
    << Read({d2}), Write({d1}) >>,
    << Component_p("ReadSimple") >>,
    << Uninit_p >>,
    << ReadAll, Read({d1}) >>,
    << Write({d1}), ReadAll >>,
    << Shared("&mut") >> }
OnMain ==
  { << Write({d1}) >>, << Component_p("ReadSimple") >>, << ReadAll, Read({d1}) >>, << Shared("&mut") >>,
    << Local(g), Shared("&") >>,
    << Local(g), State(n, << >>) >>, << Local(store) >> }

With(opts, lists) == {[opts |-> opts, params |-> l] : l \in lists}
Before4 == << Opt("before", {4}) >>
After4 == << Opt("after", {4}) >>
Main == << Opt("thread_local", TRUE) >>

const_FunctionOf ==
  [s \in {1, 2, 3} |->
     CASE s = 1 -> With(<< >>, Plain \cup Faulty \cup {<< State(h, Entity) >>, << Hidden >>})
                     \cup With(Before4, {<< >>, << Creator >>})
       [] s = 2 -> With(<< >>, Plain \cup {<< Creator, Write({d1}) >>, << Creator, Creator >>})
                     \cup With(After4, {<< >>, << State(h, Entity) >>})
                     \cup With(<< Opt("maybe_uninit", {a}) >>, {<< State(h, Entity), Creator >>})
       [] s = 3 -> With(Main, OnMain \cup {<< Creator >>, << State(h, Entity) >>})
                     \cup With(Main \o Before4, {<< >>}) \cup With(Main \o After4, {<< >>})]

const_SpecOf ==
  [s \in {1, 2, 3} |->
     {SpecFrom(f, ArgsOf(f)) : f \in {x \in const_FunctionOf[s] : Compiles(x)}}]

=============================================================================
