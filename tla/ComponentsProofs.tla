-------------------------- MODULE ComponentsProofs --------------------------
(***************************************************************************)
(* The storages of an archetype are in an order that initialisers can      *)
(* follow, whatever systems request; so entities are initialised, and from *)
(* their own components.                                                   *)
(***************************************************************************)
EXTENDS Components, ReferrerProofs

Frame == [comp : Simple, deps : Seq(Simple)]

InSeq(s, d) == \E j \in DOMAIN s : s[j] = d

(* A dependency of the i-th of the running calls s has its storage, or is  *)
(* still to come, or is what the next call is for.                         *)
Served(s, i, d) ==
  \/ d \in Registered
  \/ InSeq(s[i].deps, d)
  \/ i + 1 \in DOMAIN s /\ s[i + 1].comp = d

CallsOK(s) ==
  /\ s \in Seq(Frame)
  /\ \A i \in DOMAIN s : /\ ~Repeats(strategy[s[i].comp].deps)
                         /\ \A d \in DepsOf(s[i].comp) : Served(s, i, d)

RegistryInv ==
  /\ strategy \in Strategies
  /\ simple_storages \in Seq(Simple)
  /\ isotope_storage_maps \subseteq Isotope
  /\ phase \in {"building", "built", "panicked"}
  /\ phase # "building" => calls = << >>
  /\ CallsOK(calls)
  /\ Toposorted
  /\ \A c \in Registered : ~Repeats(strategy[c].deps)

(* Components belong to the entity that has the id; ids without an entity, *)
(* and types without a storage, have none.                                 *)
SimpleInv ==
  /\ comps \in [Simple -> [Entity -> SUBSET Nat]]
  /\ \A c \in Simple, e \in Entity :
       /\ comps[c][e] \subseteq {lives[e]}
       /\ e \notin live \cup {entity} \/ c \notin Registered => comps[c][e] = NoComp
  /\ \A c \in Registered, e \in live :
       strategy[c].auto \/ strategy[c].required => comps[c][e] # NoComp

IdInv ==
  /\ lives \in [Entity -> Nat]
  /\ live \subseteq allocated /\ allocated \subseteq Entity
  /\ \A e \in allocated : lives[e] > 0
  /\ entity \in (allocated \ live) \cup {NoEntity}
  /\ phase = "building" => live = {} /\ entity = NoEntity

(* The storages that were filled for the entity being created.             *)
FilledInv ==
  /\ index \in Nat \ {0}
  /\ maps \subseteq isotope_storage_maps
  /\ entity # NoEntity =>
       \A j \in 1..(index - 1) : j \in DOMAIN simple_storages =>
         LET c == simple_storages[j]
         IN  comps[c][entity] = NoComp => Omitted(c) /\ ~strategy[c].required

TypedInv ==
  /\ RegistryInv /\ SimpleInv /\ IdInv /\ FilledInv
  /\ CreationFailsOnlyIfIncomplete

-----------------------------------------------------------------------------
(* Registration.                                                           *)

(* Declared initialisers read simple components.                           *)
LEMMA StrategyTypes ==
  ASSUME strategy \in Strategies, NEW c \in Component
  PROVE  /\ strategy[c] \in Strategy
         /\ strategy[c].deps \in Seq(Simple) /\ DepsOf(c) \subseteq Simple
<1>1. strategy \in [Component -> Strategy]
  BY TypedAssumption
<1>2. strategy[c] \in Strategy
  BY <1>1
<1>3. strategy[c].deps \in Seq(Simple)
  BY <1>2 DEF Strategy
<1> QED
  BY <1>2, <1>3 DEF DepsOf

(* Order and calls only depend on the registry and the declaration.        *)
LEMMA SameRegistry ==
  ASSUME RegistryInv, strategy' = strategy, simple_storages' = simple_storages, calls' = calls
  PROVE  CallsOK(calls)' /\ Toposorted' /\ Registered' = Registered
<1>1. Registered' = Registered /\ \A b : DepsOf(b)' = DepsOf(b)
  BY Zenon DEF Registered, DepsOf
<1>2. \A i, d : Served(calls, i, d)' <=> Served(calls, i, d)
  BY Zenon, <1>1 DEF Served
<1>3. CallsOK(calls)'
  BY Zenon, <1>1, <1>2 DEF RegistryInv, CallsOK
<1>4. Toposorted'
  BY <1>1 DEF RegistryInv, Toposorted
<1> QED
  BY <1>1, <1>3, <1>4

(* A call for c, made by the innermost of the calls rest, which are in     *)
(* order but for the dependency c.                                         *)
LEMMA AddIfMissingInv ==
  ASSUME RegistryInv, phase = "building", NEW c \in Simple, NEW rest \in Seq(Frame),
         \A i \in DOMAIN rest :
           /\ ~Repeats(strategy[rest[i].comp].deps)
           /\ \A d \in DepsOf(rest[i].comp) : Served(rest, i, d) \/ (i = Len(rest) /\ d = c),
         AddIfMissing(c, rest),
         UNCHANGED <<strategy, simple_storages, isotope_storage_maps>>
  PROVE  RegistryInv'
<1>1. /\ strategy' = strategy /\ simple_storages' = simple_storages
      /\ isotope_storage_maps' = isotope_storage_maps
  OBVIOUS
<1>2. /\ Registered' = Registered /\ \A b : DepsOf(b)' = DepsOf(b)
      /\ Toposorted' /\ \A b \in Registered' : ~Repeats(strategy'[b].deps)
  <2>1. Registered' = Registered /\ \A b : DepsOf(b)' = DepsOf(b)
    BY Zenon, <1>1 DEF Registered, DepsOf
  <2>2. Toposorted'
    BY <1>1, <2>1 DEF RegistryInv, Toposorted
  <2> QED
    BY Zenon, <1>1, <2>1, <2>2 DEF RegistryInv
<1>3. CallsOK(calls)' /\ phase' \in {"building", "panicked"} /\ (phase' # "building" => calls' = << >>)
  <2>1. CASE c \in Registered
    <3>1. calls' = rest /\ phase' = phase
      BY Zenon, <2>1 DEF AddIfMissing
    <3>2. \A i \in DOMAIN rest : \A d \in DepsOf(rest[i].comp) : Served(rest, i, d)
      BY Zenon, <2>1 DEF Served
    <3> QED
      BY Zenon, <1>1, <1>2, <3>1, <3>2 DEF CallsOK, Served
  <2>2. CASE c \notin Registered /\ Repeats(strategy[c].deps)
    <3>1. calls' = << >> /\ phase' = "panicked"
      BY Zenon, <2>2 DEF AddIfMissing
    <3> QED
      BY <3>1 DEF CallsOK
  <2>3. CASE c \notin Registered /\ ~Repeats(strategy[c].deps)
    <3> DEFINE call == [comp |-> c, deps |-> strategy[c].deps]
    <3>1. calls' = Append(rest, call) /\ phase' = phase
      BY Zenon, <2>3 DEF AddIfMissing
    <3>2. call \in Frame
      BY StrategyTypes DEF Frame, RegistryInv, Component
    <3>3. /\ calls' \in Seq(Frame) /\ Len(rest) \in Nat /\ DOMAIN rest = 1..Len(rest)
          /\ DOMAIN calls' = 1..(Len(rest) + 1) /\ calls'[Len(rest) + 1] = call
          /\ \A i \in 1..Len(rest) : calls'[i] = rest[i]
      BY <3>1, <3>2
    <3>4. ASSUME NEW i \in DOMAIN calls', NEW d \in DepsOf(calls'[i].comp)
          PROVE  Served(calls', i, d)
      <4>1. CASE i = Len(rest) + 1
        <5>1. d \in DepsOf(c) /\ calls'[i].deps = strategy[c].deps
          BY <3>3, <3>4, <4>1
        <5> QED
          BY Zenon, <5>1 DEF Served, InSeq, DepsOf
      <4>2. CASE i \in 1..Len(rest)
        <5>1. calls'[i] = rest[i] /\ d \in DepsOf(rest[i].comp) /\ i \in DOMAIN rest
          BY Zenon, <3>3, <3>4, <4>2
        <5>2. CASE Served(rest, i, d)
          <6>1. i + 1 \in DOMAIN rest => i + 1 \in DOMAIN calls' /\ calls'[i + 1] = rest[i + 1]
            BY <3>3, <4>2
          <6> QED
            BY Zenon, <5>1, <5>2, <6>1 DEF Served
        <5>3. CASE i = Len(rest) /\ d = c
          <6>1. i + 1 \in DOMAIN calls' /\ calls'[i + 1].comp = d
            BY <3>3, <5>3
          <6> QED
            BY Zenon, <6>1 DEF Served
        <5> QED
          BY Zenon, <5>1, <5>2, <5>3
      <4> QED
        BY <3>3, <4>1, <4>2
    <3>5. ASSUME NEW i \in DOMAIN calls' PROVE ~Repeats(strategy[calls'[i].comp].deps)
      <4>1. CASE i = Len(rest) + 1
        <5>1. calls'[i].comp = c
          BY <3>3, <4>1
        <5> QED
          BY Zenon, <2>3, <5>1
      <4>2. CASE i \in 1..Len(rest)
        BY Zenon, <3>3, <4>2
      <4> QED
        BY <3>3, <4>1, <4>2
    <3>6. \A i, d : Served(calls, i, d)' <=> Served(calls', i, d)
      BY Zenon, <1>2 DEF Served
    <3> QED
      BY Zenon, <1>1, <1>2, <3>1, <3>3, <3>4, <3>5, <3>6 DEF CallsOK
  <2> QED
    BY <2>1, <2>2, <2>3
<1> QED
  BY <1>1, <1>2, <1>3 DEF RegistryInv

(* What a request leaves alone, apart from the registry.                   *)
LEMMA RegistrationKeeps ==
  ASSUME TypedInv, RegistryInv', phase = "building",
         UNCHANGED content, UNCHANGED creation,
         isotope_storage_maps \subseteq isotope_storage_maps'
  PROVE  TypedInv'
<1>1. /\ comps' = comps /\ isotopes' = isotopes /\ lives' = lives
      /\ allocated' = allocated /\ live' = live /\ entity' = entity
      /\ comp_map' = comp_map /\ index' = index /\ maps' = maps
  BY Zenon DEF content, creation
<1>2. live = {} /\ entity = NoEntity
  BY DEF TypedInv, IdInv
<1>3. NoEntity \notin Entity
  BY TypedAssumption
<1>4. SimpleInv'
  <2>1. \A c \in Simple, e \in Entity : comps[c][e] = NoComp
    BY <1>2, <1>3 DEF TypedInv, SimpleInv
  <2> QED
    BY <1>1, <1>2, <2>1 DEF TypedInv, SimpleInv, NoComp
<1>5. IdInv'
  BY <1>1, <1>2 DEF TypedInv, IdInv
<1>6. FilledInv' /\ CreationFailsOnlyIfIncomplete'
  BY <1>1, <1>2 DEF TypedInv, FilledInv, CreationFailsOnlyIfIncomplete
<1> QED
  BY <1>4, <1>5, <1>6 DEF TypedInv

(* The outermost call of a registration.                                   *)
LEMMA RequestSimpleInv ==
  ASSUME TypedInv, NEW c \in Simple, RequestSimple(c)
  PROVE  TypedInv'
<1>1. /\ phase = "building" /\ AddIfMissing(c, << >>)
      /\ UNCHANGED <<strategy, simple_storages, isotope_storage_maps>>
      /\ UNCHANGED content /\ UNCHANGED creation
  BY Zenon DEF RequestSimple
<1>2. << >> \in Seq(Frame) /\ DOMAIN << >> = {}
  OBVIOUS
<1>3. RegistryInv'
  BY Zenon, <1>1, <1>2, AddIfMissingInv DEF TypedInv
<1>4. phase' = phase \/ phase' = "panicked"
  BY Zenon, <1>1 DEF AddIfMissing
<1> QED
  BY Zenon, <1>1, <1>3, <1>4, RegistrationKeeps

(* Replacing the dependencies of a frame leaves its component.             *)
LEMMA WithDeps ==
  ASSUME NEW call \in Frame, NEW deps \in Seq(Simple)
  PROVE  /\ [call EXCEPT !.deps = deps] \in Frame
         /\ [call EXCEPT !.deps = deps].comp = call.comp
         /\ [call EXCEPT !.deps = deps].deps = deps
BY DEF Frame

(* A dependency is taken from the list, and called for.                    *)
LEMMA AddDepInv ==
  ASSUME TypedInv, AddDep
  PROVE  TypedInv'
<1> DEFINE n == Len(calls)
           c == Head(Innermost.deps)
           rest == [calls EXCEPT ![n].deps = Tail(@)]
<1>1. /\ calls # << >> /\ Innermost.deps # << >> /\ AddIfMissing(c, rest)
      /\ UNCHANGED <<strategy, simple_storages, isotope_storage_maps>>
      /\ UNCHANGED content /\ UNCHANGED creation
  BY Zenon DEF AddDep
<1>2. phase = "building" /\ CallsOK(calls) /\ calls \in Seq(Frame)
  BY Zenon, <1>1 DEF TypedInv, RegistryInv, CallsOK
<1>3. n \in Nat /\ n > 0 /\ DOMAIN calls = 1..n /\ calls[n] \in Frame /\ Innermost = calls[n]
  BY <1>1, <1>2 DEF Innermost
<1>4. calls[n].comp \in Simple /\ calls[n].deps \in Seq(Simple) /\ calls[n].deps # << >>
  BY <1>1, <1>3 DEF Frame
<1>5. /\ c \in Simple /\ Tail(calls[n].deps) \in Seq(Simple)
      /\ \A d : InSeq(calls[n].deps, d) => d = c \/ InSeq(Tail(calls[n].deps), d)
  BY <1>3, <1>4, HeadAndTail DEF InSeq
<1>6. /\ rest \in Seq(Frame) /\ Len(rest) = n /\ DOMAIN rest = 1..n
      /\ \A i \in 1..n : rest[i].comp = calls[i].comp
      /\ \A i \in 1..n : rest[i].deps = IF i = n THEN Tail(calls[n].deps) ELSE calls[i].deps
  <2> DEFINE top == [calls[n] EXCEPT !.deps = Tail(calls[n].deps)]
  <2>1. top \in Frame /\ top.comp = calls[n].comp /\ top.deps = Tail(calls[n].deps)
    BY Zenon, <1>3, <1>5, WithDeps
  <2>2. rest = [calls EXCEPT ![n] = top]
    BY Zenon
  <2> HIDE DEF top, rest
  <2>3. /\ rest \in Seq(Frame) /\ Len(rest) = n /\ DOMAIN rest = 1..n
        /\ \A i \in 1..n : rest[i] = IF i = n THEN top ELSE calls[i]
    BY <1>2, <1>3, <2>1, <2>2
  <2> QED
    BY Zenon, <2>1, <2>3
<1> HIDE DEF n, c, rest
<1>7. ASSUME NEW i \in DOMAIN rest
      PROVE  /\ ~Repeats(strategy[rest[i].comp].deps)
             /\ \A d \in DepsOf(rest[i].comp) : Served(rest, i, d) \/ (i = Len(rest) /\ d = c)
  <2>1. i \in DOMAIN calls /\ i \in 1..n /\ rest[i].comp = calls[i].comp
    BY Zenon, <1>3, <1>6, <1>7
  <2>2. ~Repeats(strategy[rest[i].comp].deps)
    BY Zenon, <1>2, <2>1 DEF CallsOK
  <2>3. ASSUME NEW d \in DepsOf(rest[i].comp)
        PROVE  Served(rest, i, d) \/ (i = Len(rest) /\ d = c)
    <3>1. Served(calls, i, d)
      BY Zenon, <1>2, <2>1, <2>3 DEF CallsOK
    <3>2. CASE i + 1 \in DOMAIN calls /\ calls[i + 1].comp = d
      BY Zenon, <1>3, <1>6, <3>2 DEF Served
    <3>3. CASE InSeq(calls[i].deps, d)
      <4>1. CASE i = n
        BY Zenon, <1>5, <1>6, <2>1, <3>3, <4>1 DEF Served
      <4>2. CASE i # n
        BY Zenon, <1>6, <2>1, <3>3, <4>2 DEF Served
      <4> QED
        BY <4>1, <4>2
    <3> QED
      BY Zenon, <3>1, <3>2, <3>3 DEF Served
  <2> QED
    BY Zenon, <2>2, <2>3
<1>8. RegistryInv'
  BY Zenon, <1>1, <1>2, <1>5, <1>6, <1>7, AddIfMissingInv DEF TypedInv
<1>9. phase' = phase \/ phase' = "panicked"
  BY Zenon, <1>1 DEF AddIfMissing
<1> QED
  BY Zenon, <1>1, <1>2, <1>8, <1>9, RegistrationKeeps

(* The storage of a call whose dependencies are there is put behind them.  *)
LEMMA InsertStorageInv ==
  ASSUME TypedInv, InsertStorage
  PROVE  TypedInv'
<1> DEFINE n == Len(calls)
           m == Len(simple_storages)
           c == Innermost.comp
<1>1. /\ calls # << >> /\ Innermost.deps = << >> /\ calls' = SubSeq(calls, 1, n - 1)
      /\ simple_storages' = IF c \in Registered THEN simple_storages ELSE Append(simple_storages, c)
      /\ strategy' = strategy /\ isotope_storage_maps' = isotope_storage_maps /\ phase' = phase
      /\ UNCHANGED content /\ UNCHANGED creation
  BY Zenon DEF InsertStorage
<1>2. /\ phase = "building" /\ CallsOK(calls) /\ calls \in Seq(Frame)
      /\ simple_storages \in Seq(Simple) /\ Toposorted
  BY Zenon, <1>1 DEF TypedInv, RegistryInv, CallsOK
<1>3. n \in Nat /\ n > 0 /\ DOMAIN calls = 1..n /\ calls[n] \in Frame /\ Innermost = calls[n]
  BY <1>1, <1>2 DEF Innermost
<1>4. c \in Simple /\ calls[n].comp = c /\ m \in Nat /\ DOMAIN simple_storages = 1..m
  BY <1>2, <1>3 DEF Frame
<1>5. ~Repeats(strategy[c].deps) /\ DepsOf(c) \subseteq Registered
  <2>1. n \in DOMAIN calls /\ n + 1 \notin DOMAIN calls
    BY <1>3
  <2>2. \A d : ~InSeq(calls[n].deps, d)
    BY <1>1, <1>3 DEF InSeq
  <2>3. \A d \in DepsOf(c) : Served(calls, n, d)
    BY Zenon, <1>2, <1>4, <2>1 DEF CallsOK
  <2>4. \A d \in DepsOf(c) : d \in Registered
    BY Zenon, <2>1, <2>2, <2>3 DEF Served
  <2> QED
    BY Zenon, <1>2, <1>4, <2>1, <2>4 DEF CallsOK
<1>6. /\ calls' \in Seq(Frame) /\ DOMAIN calls' = 1..(n - 1)
      /\ \A i \in 1..(n - 1) : calls'[i] = calls[i]
  BY <1>1, <1>2, <1>3
<1> HIDE DEF n, m, c
<1>7. /\ simple_storages' \in Seq(Simple) /\ Registered' = Registered \cup {c} /\ Toposorted'
  <2>1. CASE c \in Registered
    <3>1. simple_storages' = simple_storages
      BY Zenon, <1>1, <2>1
    <3>2. Registered' = Registered /\ \A b : DepsOf(b)' = DepsOf(b)
      BY Zenon, <1>1, <3>1 DEF Registered, DepsOf
    <3>3. Toposorted'
      BY <1>2, <3>1, <3>2 DEF Toposorted
    <3> QED
      BY <1>2, <2>1, <3>1, <3>2, <3>3
  <2>2. CASE c \notin Registered
    <3>1. simple_storages' = Append(simple_storages, c)
      BY Zenon, <1>1, <2>2
    <3>2. /\ simple_storages' \in Seq(Simple) /\ DOMAIN simple_storages' = 1..(m + 1)
          /\ simple_storages'[m + 1] = c
          /\ \A i \in 1..m : simple_storages'[i] = simple_storages[i]
      BY <1>2, <1>4, <3>1 DEF m
    <3>3. Registered' = Registered \cup {c}
      BY <1>4, <3>2 DEF Registered
    <3>4. \A b : DepsOf(b)' = DepsOf(b)
      BY Zenon, <1>1 DEF DepsOf
    <3>5. ASSUME NEW i \in 1..(m + 1)
          PROVE  /\ \A d \in DepsOf(simple_storages'[i]) : \E j \in 1..(i - 1) : simple_storages'[j] = d
                 /\ \A j \in 1..(i - 1) : simple_storages'[j] # simple_storages'[i]
      <4>1. \A j \in 1..(i - 1) : j \in 1..m /\ simple_storages'[j] = simple_storages[j]
        BY <1>4, <3>2
      <4>2. CASE i \in 1..m
        <5>1. simple_storages'[i] = simple_storages[i] /\ i \in DOMAIN simple_storages
          BY Zenon, <1>4, <3>2, <4>2
        <5>2. /\ \A d \in DepsOf(simple_storages[i]) : \E j \in 1..(i - 1) : simple_storages[j] = d
              /\ \A j \in 1..(i - 1) : simple_storages[j] # simple_storages[i]
          BY Zenon, <1>2, <5>1 DEF Toposorted
        <5> QED
          BY <4>1, <5>1, <5>2
      <4>3. CASE i = m + 1
        <5>1. \A d \in Registered : \E j \in 1..(i - 1) : simple_storages[j] = d
          BY <1>4, <4>3 DEF Registered
        <5>2. \A j \in 1..(i - 1) : simple_storages[j] \in Registered
          BY <1>4, <4>1 DEF Registered
        <5> QED
          BY <1>5, <2>2, <3>2, <4>1, <4>3, <5>1, <5>2
      <4> QED
        BY <1>4, <4>2, <4>3
    <3>6. Toposorted'
      BY <3>2, <3>4, <3>5 DEF Toposorted
    <3> QED
      BY <3>2, <3>3, <3>6
  <2> QED
    BY <2>1, <2>2
<1>8. CallsOK(calls)'
  <2> SUFFICES ASSUME NEW i \in 1..(n - 1)
               PROVE  /\ ~Repeats(strategy[calls'[i].comp].deps)
                      /\ \A d \in DepsOf(calls'[i].comp) : Served(calls, i, d)'
    <3>1. \A b : DepsOf(b)' = DepsOf(b)
      BY Zenon, <1>1 DEF DepsOf
    <3> QED
      BY Zenon, <1>1, <1>6, <3>1 DEF CallsOK
  <2>1. i \in DOMAIN calls /\ calls'[i] = calls[i] /\ i + 1 \in 1..n
    BY <1>3, <1>6
  <2>2. ASSUME NEW d \in DepsOf(calls[i].comp) PROVE Served(calls, i, d)'
    <3>1. Served(calls, i, d)
      BY Zenon, <1>2, <2>1, <2>2 DEF CallsOK
    <3>2. i + 1 # n => i + 1 \in DOMAIN calls' /\ calls'[i + 1] = calls[i + 1]
      BY <1>3, <1>6, <2>1
    <3> QED
      BY Zenon, <1>4, <1>7, <2>1, <3>1, <3>2 DEF Served
  <2> QED
    BY Zenon, <1>2, <2>1, <2>2 DEF CallsOK
<1>9. RegistryInv'
  BY Zenon, <1>1, <1>2, <1>5, <1>7, <1>8 DEF TypedInv, RegistryInv
<1> QED
  BY Zenon, <1>1, <1>2, <1>9, RegistrationKeeps

(* A request of an isotope component adds its map only.                    *)
LEMMA RequestIsotopeInv ==
  ASSUME TypedInv, NEW c \in Isotope, RequestIsotope(c)
  PROVE  TypedInv'
<1>1. /\ phase = "building" /\ isotope_storage_maps' = isotope_storage_maps \cup {c}
      /\ strategy' = strategy /\ simple_storages' = simple_storages /\ calls' = calls
      /\ phase' = phase /\ UNCHANGED content /\ UNCHANGED creation
  BY Zenon DEF RequestIsotope
<1>2. CallsOK(calls)' /\ Toposorted' /\ Registered' = Registered
  BY Zenon, <1>1, SameRegistry DEF TypedInv
<1>3. isotope_storage_maps' \subseteq Isotope
  BY <1>1 DEF TypedInv, RegistryInv
<1>4. RegistryInv'
  BY Zenon, <1>1, <1>2, <1>3 DEF TypedInv, RegistryInv
<1>5. isotope_storage_maps \subseteq isotope_storage_maps'
  BY <1>1
<1> QED
  BY Zenon, <1>1, <1>4, <1>5, RegistrationKeeps

(* build() ends registration.                                              *)
LEMMA BuildTypedInv ==
  ASSUME TypedInv, BuildTyped
  PROVE  TypedInv'
<1>1. /\ phase = "building" /\ isotope_storage_maps' = isotope_storage_maps
      /\ strategy' = strategy /\ simple_storages' = simple_storages /\ calls' = calls
      /\ calls = << >> /\ phase' = "built" /\ UNCHANGED content /\ UNCHANGED creation
  BY Zenon DEF BuildTyped, registry
<1>2. CallsOK(calls)' /\ Toposorted' /\ Registered' = Registered
  BY Zenon, <1>1, SameRegistry DEF TypedInv
<1>3. RegistryInv'
  BY Zenon, <1>1, <1>2 DEF TypedInv, RegistryInv
<1> QED
  BY Zenon, <1>1, <1>3, RegistrationKeeps

-----------------------------------------------------------------------------
(* Entities.                                                               *)

(* The registry is settled once the world is built.                        *)
LEMMA BuiltKeeps ==
  ASSUME TypedInv, phase = "built", strategy' = strategy, UNCHANGED registry,
         phase' \in {"built", "panicked"}
  PROVE  /\ RegistryInv' /\ Registered' = Registered
         /\ simple_storages' = simple_storages /\ isotope_storage_maps' = isotope_storage_maps
<1>1. /\ simple_storages' = simple_storages /\ isotope_storage_maps' = isotope_storage_maps
      /\ calls' = calls /\ calls = << >>
  BY DEF registry, TypedInv, RegistryInv
<1>2. CallsOK(calls)' /\ Toposorted' /\ Registered' = Registered
  BY Zenon, <1>1, SameRegistry DEF TypedInv
<1>3. phase' \in {"building", "built", "panicked"}
  OBVIOUS
<1> QED
  BY Zenon, <1>1, <1>2, <1>3 DEF TypedInv, RegistryInv

(* An id that is handed out has no components.                             *)
LEMMA AllocateInv ==
  ASSUME TypedInv, NEW e \in Entity, Allocate(e)
  PROVE  TypedInv'
<1>1. /\ phase = "built" /\ entity = NoEntity /\ e \notin allocated
      /\ lives' = [lives EXCEPT ![e] = @ + 1] /\ allocated' = allocated \cup {e}
      /\ strategy' = strategy /\ UNCHANGED registry /\ phase' = phase /\ comps' = comps
      /\ isotopes' = isotopes /\ live' = live /\ entity' = entity /\ index' = index /\ maps' = maps
  BY Zenon DEF Allocate, creation
<1>2. /\ RegistryInv' /\ Registered' = Registered
      /\ simple_storages' = simple_storages /\ isotope_storage_maps' = isotope_storage_maps
  BY <1>1, BuiltKeeps
<1>3. /\ lives \in [Entity -> Nat] /\ e \notin live /\ e # entity
      /\ live \subseteq allocated /\ allocated \subseteq Entity
  BY <1>1, TypedAssumption DEF TypedInv, IdInv
<1>4. lives' \in [Entity -> Nat] /\ \A x \in Entity : lives'[x] = IF x = e THEN lives[e] + 1 ELSE lives[x]
  BY <1>1, <1>3
<1>5. SimpleInv'
  <2>1. \A c \in Simple : comps[c][e] = NoComp
    BY <1>3 DEF TypedInv, SimpleInv
  <2>2. ASSUME NEW c \in Simple, NEW x \in Entity PROVE comps[c][x] \subseteq {lives'[x]}
    BY <1>4, <2>1 DEF TypedInv, SimpleInv, NoComp
  <2> QED
    BY <1>1, <1>2, <2>2 DEF TypedInv, SimpleInv
<1>6. IdInv'
  BY <1>1, <1>3, <1>4 DEF TypedInv, IdInv
<1>7. FilledInv' /\ CreationFailsOnlyIfIncomplete'
  BY <1>1, <1>2 DEF TypedInv, FilledInv, CreationFailsOnlyIfIncomplete
<1> QED
  BY <1>2, <1>5, <1>6, <1>7 DEF TypedInv

(* init_entity starts with every storage still to be filled.               *)
LEMMA InitEntityInv ==
  ASSUME TypedInv, NEW e \in Entity, NEW given \in Given, InitEntity(e, given)
  PROVE  TypedInv'
<1>1. /\ phase = "built" /\ entity = NoEntity /\ e \in allocated \ live
      /\ entity' = e /\ index' = 1 /\ maps' = isotope_storage_maps
      /\ strategy' = strategy /\ UNCHANGED registry /\ phase' = phase /\ comps' = comps
      /\ isotopes' = isotopes /\ lives' = lives /\ allocated' = allocated /\ live' = live
  BY Zenon DEF InitEntity, content
<1>2. /\ RegistryInv' /\ Registered' = Registered
      /\ simple_storages' = simple_storages /\ isotope_storage_maps' = isotope_storage_maps
  BY <1>1, BuiltKeeps
<1>3. SimpleInv'
  BY <1>1, <1>2, TypedAssumption DEF TypedInv, SimpleInv
<1>4. IdInv'
  BY <1>1 DEF TypedInv, IdInv
<1>5. FilledInv' /\ CreationFailsOnlyIfIncomplete'
  BY <1>1, <1>2 DEF FilledInv, CreationFailsOnlyIfIncomplete
<1> QED
  BY <1>2, <1>3, <1>4, <1>5 DEF TypedInv

(* A creation that panics for a good reason.                               *)
LEMMA PanicsInv ==
  ASSUME TypedInv, phase = "built", Panics,
         Incomplete \/ \E c \in isotope_storage_maps : ~Supported(c)
  PROVE  TypedInv'
<1>1. /\ phase' = "panicked" /\ strategy' = strategy /\ UNCHANGED registry /\ comps' = comps
      /\ isotopes' = isotopes /\ lives' = lives /\ allocated' = allocated /\ live' = live
      /\ entity' = entity /\ comp_map' = comp_map /\ index' = index /\ maps' = maps
  BY Zenon DEF Panics, content, creation
<1>2. /\ RegistryInv' /\ Registered' = Registered
      /\ simple_storages' = simple_storages /\ isotope_storage_maps' = isotope_storage_maps
  BY <1>1, BuiltKeeps
<1>3. \A c : /\ DepsOf(c)' = DepsOf(c) /\ Omitted(c)' = Omitted(c)
             /\ Supported(c)' = Supported(c)
  BY Zenon, <1>1 DEF DepsOf, Omitted, Supported
<1>4. SimpleInv' /\ IdInv'
  BY <1>1, <1>2 DEF TypedInv, SimpleInv, IdInv
<1>5. FilledInv'
  BY <1>1, <1>2, <1>3 DEF TypedInv, FilledInv
<1>6. CreationFailsOnlyIfIncomplete'
  <2>1. Incomplete => Incomplete'
    BY <1>1, <1>2, <1>3 DEF Incomplete
  <2> QED
    BY <1>1, <1>2, <1>3, <2>1 DEF CreationFailsOnlyIfIncomplete
<1> QED
  BY <1>2, <1>4, <1>5, <1>6 DEF TypedInv

(* The next storage gets a value of the entity's own, or is left without   *)
(* one that is neither required nor initialised.                           *)
LEMMA SetSimpleInv ==
  ASSUME TypedInv, phase = "built", entity # NoEntity, index <= Len(simple_storages),
         NEW value \in SUBSET {lives[entity]},
         value = NoComp => Omitted(simple_storages[index]) /\ ~strategy[simple_storages[index]].required,
         SetSimple(simple_storages[index], value)
  PROVE  TypedInv'
<1> DEFINE c == simple_storages[index]
<1>1. /\ comps' = [comps EXCEPT ![c][entity] = value] /\ index' = index + 1
      /\ strategy' = strategy /\ UNCHANGED registry /\ phase' = phase /\ isotopes' = isotopes
      /\ lives' = lives /\ allocated' = allocated /\ live' = live /\ entity' = entity
      /\ comp_map' = comp_map /\ maps' = maps
  BY Zenon DEF SetSimple
<1>2. /\ RegistryInv' /\ Registered' = Registered
      /\ simple_storages' = simple_storages /\ isotope_storage_maps' = isotope_storage_maps
  BY <1>1, BuiltKeeps
<1>3. index \in Nat \ {0} /\ simple_storages \in Seq(Simple)
  BY DEF TypedInv, FilledInv, RegistryInv
<1>4. c \in Simple /\ c \in Registered
  BY <1>3 DEF Registered
<1>5. entity \in Entity /\ entity \notin live /\ lives \in [Entity -> Nat] /\ live \subseteq Entity
  BY DEF TypedInv, IdInv
<1>6. comps \in [Simple -> [Entity -> SUBSET Nat]] /\ value \in SUBSET Nat
  BY <1>5 DEF TypedInv, SimpleInv
<1>7. /\ comps' \in [Simple -> [Entity -> SUBSET Nat]]
      /\ \A x \in Simple, e \in Entity :
           comps'[x][e] = IF x = c /\ e = entity THEN value ELSE comps[x][e]
  BY <1>1, <1>4, <1>5, <1>6
<1> HIDE DEF c
<1>8. SimpleInv'
  <2>1. ASSUME NEW x \in Simple, NEW e \in Entity
        PROVE  /\ comps'[x][e] \subseteq {lives[e]}
               /\ e \notin live \cup {entity} \/ x \notin Registered => comps'[x][e] = NoComp
    BY <1>4, <1>7 DEF TypedInv, SimpleInv
  <2>2. ASSUME NEW x \in Registered, NEW e \in live PROVE comps'[x][e] = comps[x][e]
    <3>1. x \in Simple
      BY <1>3 DEF Registered
    <3> QED
      BY <1>5, <1>7, <3>1
  <2> QED
    BY <1>1, <1>2, <1>7, <2>1, <2>2 DEF TypedInv, SimpleInv
<1>9. FilledInv'
  <2>1. \A x : Omitted(x)' = Omitted(x)
    BY Zenon, <1>1 DEF Omitted
  <2>2. ASSUME NEW j \in 1..(index' - 1), j \in DOMAIN simple_storages,
               comps'[simple_storages[j]][entity] = NoComp
        PROVE  Omitted(simple_storages[j]) /\ ~strategy[simple_storages[j]].required
    <3>1. simple_storages[j] \in Simple
      BY <1>3, <2>2
    <3>2. CASE simple_storages[j] = c
      BY <1>5, <1>7, <2>2, <3>1, <3>2 DEF c
    <3>3. CASE simple_storages[j] # c
      <4>1. j # index /\ j \in 1..(index - 1)
        BY <1>1, <1>3, <3>3 DEF c
      <4>2. comps[simple_storages[j]][entity] = NoComp
        BY <1>5, <1>7, <2>2, <3>1, <3>3
      <4> QED
        BY Zenon, <2>2, <4>1, <4>2 DEF TypedInv, FilledInv
    <3> QED
      BY <3>2, <3>3
  <2>3. index' \in Nat \ {0}
    BY <1>1, <1>3
  <2> QED
    BY <1>1, <1>2, <2>1, <2>2, <2>3 DEF TypedInv, FilledInv
<1>10. IdInv' /\ CreationFailsOnlyIfIncomplete'
  BY <1>1, <1>2 DEF TypedInv, IdInv, CreationFailsOnlyIfIncomplete
<1> QED
  BY <1>2, <1>8, <1>9, <1>10 DEF TypedInv

(* An initialiser makes a component of the entity, from its components.    *)
LEMMA InitValueOwn ==
  ASSUME TypedInv, entity # NoEntity, NEW deps \in Seq(Simple)
  PROVE  InitValue(deps) = {lives[entity]}
<1>1. entity \in Entity
  BY DEF TypedInv, IdInv
<1>2. \A i \in DOMAIN deps : deps[i] \in Simple
  OBVIOUS
<1>3. \A i \in DOMAIN deps : comps[deps[i]][entity] \subseteq {lives[entity]}
  BY <1>1, <1>2 DEF TypedInv, SimpleInv
<1> QED
  BY <1>3 DEF InitValue

(* The initialiser of the next storage fails only if a component that it   *)
(* reads was left out.                                                     *)
LEMMA InitFailsIncomplete ==
  ASSUME TypedInv, entity # NoEntity, index <= Len(simple_storages),
         simple_storages[index] \notin comp_map.simple,
         InitFails(strategy[simple_storages[index]].deps, index - 1)
  PROVE  Incomplete
<1> DEFINE c == simple_storages[index]
           deps == strategy[c].deps
<1>1. index \in Nat \ {0} /\ simple_storages \in Seq(Simple) /\ Toposorted
  BY DEF TypedInv, FilledInv, RegistryInv
<1>2. c \in Registered /\ index \in DOMAIN simple_storages
  BY <1>1 DEF Registered
<1>3. ~Repeats(deps)
  BY Zenon, <1>2 DEF TypedInv, RegistryInv
<1>4. c \in Component /\ strategy \in Strategies
  BY <1>1, <1>2 DEF Component, TypedInv, RegistryInv
<1>5. deps \in Seq(Simple)
  BY Zenon, <1>4, StrategyTypes
<1>6. PICK i \in DOMAIN deps : DepFault(deps, i, index - 1) # "none"
  BY Zenon DEF InitFails
<1>7. deps[i] \in DepsOf(c)
  BY Zenon DEF DepsOf
<1> HIDE DEF deps
<1>8. PICK j \in 1..(index - 1) : simple_storages[j] = deps[i]
  BY <1>1, <1>2, <1>7 DEF Toposorted
<1> HIDE DEF c
<1>9. \A k \in 1..(i - 1) : deps[k] # deps[i]
  <2> SUFFICES ASSUME NEW k \in 1..(i - 1), deps[k] = deps[i] PROVE FALSE
    OBVIOUS
  <2>1. k \in DOMAIN deps /\ k < i
    BY <1>5
  <2> QED
    BY Zenon, <1>3, <2>1 DEF Repeats
<1>10. deps[i] \in {simple_storages[x] : x \in 1..(index - 1)}
  BY Zenon, <1>8
<1>11. comps[deps[i]][entity] = NoComp
  BY Zenon, <1>6, <1>9, <1>10 DEF DepFault
<1>12. j \in DOMAIN simple_storages
  BY <1>1
<1>13. Omitted(deps[i])
  BY Zenon, <1>8, <1>11, <1>12 DEF TypedInv, FilledInv
<1> QED
  BY Zenon, <1>2, <1>7, <1>13 DEF Incomplete, c

(* fill_init_simple fills the storage or has a reason to panic.            *)
LEMMA FillSimpleInv ==
  ASSUME TypedInv, FillSimple
  PROVE  TypedInv'
<1> DEFINE c == simple_storages[index]
           deps == strategy[c].deps
<1>1. phase = "built" /\ entity # NoEntity /\ index <= Len(simple_storages)
  BY Zenon DEF FillSimple
<1>2. /\ index \in Nat \ {0} /\ simple_storages \in Seq(Simple) /\ strategy \in Strategies
  BY DEF TypedInv, FilledInv, RegistryInv
<1>3. c \in Registered /\ c \in Component
  BY <1>1, <1>2 DEF Registered, Component
<1>4. deps \in Seq(Simple)
  BY Zenon, <1>2, <1>3, StrategyTypes
<1>5. InitValue(deps) = {lives[entity]}
  BY Zenon, <1>1, <1>4, InitValueOwn
<1>6. {lives[entity]} \in SUBSET {lives[entity]} /\ {lives[entity]} # NoComp
  BY DEF NoComp
<1>7. CASE c \in comp_map.simple /\ SetSimple(c, {lives[entity]})
  BY Zenon, <1>1, <1>6, <1>7, SetSimpleInv
<1>8. CASE /\ c \notin comp_map.simple /\ strategy[c].auto
           /\ IF InitFails(deps, index - 1) THEN Panics ELSE SetSimple(c, InitValue(deps))
  <2>1. CASE InitFails(deps, index - 1)
    <3>1. Incomplete /\ Panics
      BY Zenon, <1>1, <1>8, <2>1, InitFailsIncomplete
    <3> QED
      BY Zenon, <1>1, <3>1, PanicsInv
  <2>2. CASE ~InitFails(deps, index - 1)
    BY Zenon, <1>1, <1>5, <1>6, <1>8, <2>2, SetSimpleInv
  <2> QED
    BY <2>1, <2>2
<1>9. CASE /\ c \notin comp_map.simple /\ ~strategy[c].auto
           /\ IF strategy[c].required THEN Panics ELSE SetSimple(c, comps[c][entity])
  <2>1. Omitted(c)
    BY Zenon, <1>9 DEF Omitted
  <2>2. CASE strategy[c].required
    <3>1. Incomplete /\ Panics
      BY Zenon, <1>3, <1>9, <2>1, <2>2 DEF Incomplete
    <3> QED
      BY Zenon, <1>1, <3>1, PanicsInv
  <2>3. CASE ~strategy[c].required
    <3>1. comps[c][entity] \in SUBSET {lives[entity]}
      BY <1>1, <1>2 DEF TypedInv, IdInv, SimpleInv
    <3> QED
      BY Zenon, <1>1, <1>9, <2>1, <2>3, <3>1, SetSimpleInv
  <2> QED
    BY <2>2, <2>3
<1> QED
  BY Zenon, <1>7, <1>8, <1>9 DEF FillSimple

(* What isotope storages hold is no matter to simple components.           *)
LEMMA SetIsotopesInv ==
  ASSUME TypedInv, phase = "built", NEW c, NEW storages, SetIsotopes(c, storages)
  PROVE  TypedInv'
<1>1. /\ maps' = maps \ {c} /\ strategy' = strategy /\ UNCHANGED registry /\ phase' = phase
      /\ comps' = comps /\ lives' = lives /\ allocated' = allocated /\ live' = live
      /\ entity' = entity /\ comp_map' = comp_map /\ index' = index
  BY Zenon DEF SetIsotopes
<1>2. /\ RegistryInv' /\ Registered' = Registered
      /\ simple_storages' = simple_storages /\ isotope_storage_maps' = isotope_storage_maps
  BY <1>1, BuiltKeeps
<1>3. FilledInv'
  <2>1. \A x : Omitted(x)' = Omitted(x)
    BY Zenon, <1>1 DEF Omitted
  <2>2. maps' \subseteq isotope_storage_maps
    BY <1>1 DEF TypedInv, FilledInv
  <2> QED
    BY <1>1, <1>2, <2>1, <2>2 DEF TypedInv, FilledInv
<1>4. SimpleInv'
  BY <1>1, <1>2 DEF TypedInv, SimpleInv
<1>5. IdInv'
  BY Zenon, <1>1 DEF TypedInv, IdInv
<1>6. CreationFailsOnlyIfIncomplete'
  BY Zenon, <1>1 DEF CreationFailsOnlyIfIncomplete
<1> QED
  BY Zenon, <1>2, <1>3, <1>4, <1>5, <1>6 DEF TypedInv

(* fill_init_isotope fills the storages or has a reason to panic.          *)
LEMMA FillIsotopeInv ==
  ASSUME TypedInv, NEW c \in Isotope, NEW snapshot \in Snapshots, FillIsotope(c, snapshot)
  PROVE  TypedInv'
<1>1. phase = "built" /\ entity # NoEntity /\ c \in maps
  BY Zenon DEF FillIsotope
<1>2. c \in isotope_storage_maps
  BY <1>1 DEF TypedInv, FilledInv
<1>3. ASSUME Panics, ~Supported(c) PROVE TypedInv'
  BY Zenon, <1>1, <1>2, <1>3, PanicsInv
<1>4. ASSUME NEW storages, SetIsotopes(c, storages) PROVE TypedInv'
  BY Zenon, <1>1, <1>4, SetIsotopesInv
<1>5. CreateFails(c, snapshot) => ~Supported(c)
  BY Zenon DEF CreateFails, Supported
<1>6. strategy[c].auto /\ InitFails(strategy[c].deps, Len(simple_storages)) => ~Supported(c)
  <2>1. ~InitFails(<< >>, Len(simple_storages))
    BY DEF InitFails
  <2> QED
    BY Zenon, <2>1 DEF Supported
<1>7. ~strategy[c].auto /\ strategy[c].required => ~Supported(c)
  BY Zenon DEF Supported
<1> QED
  BY Zenon, <1>3, <1>4, <1>5, <1>6, <1>7 DEF FillIsotope

(* A creation that went through all storages leaves an entity of its own.  *)
LEMMA InitialisedInv ==
  ASSUME TypedInv, Initialised
  PROVE  TypedInv'
<1>1. /\ phase = "built" /\ entity # NoEntity /\ index > Len(simple_storages) /\ maps = {}
      /\ live' = live \cup {entity} /\ entity' = NoEntity /\ index' = 1 /\ maps' = maps
      /\ strategy' = strategy /\ UNCHANGED registry /\ phase' = phase /\ comps' = comps
      /\ isotopes' = isotopes /\ lives' = lives /\ allocated' = allocated
  BY Zenon DEF Initialised
<1>2. /\ RegistryInv' /\ Registered' = Registered
      /\ simple_storages' = simple_storages /\ isotope_storage_maps' = isotope_storage_maps
  BY <1>1, BuiltKeeps
<1>3. entity \in Entity /\ index \in Nat /\ simple_storages \in Seq(Simple)
  BY <1>1 DEF TypedInv, IdInv, FilledInv, RegistryInv
<1>4. \A c \in Registered : strategy[c].auto \/ strategy[c].required => comps[c][entity] # NoComp
  <2> SUFFICES ASSUME NEW j \in DOMAIN simple_storages,
                      strategy[simple_storages[j]].auto \/ strategy[simple_storages[j]].required
               PROVE  comps[simple_storages[j]][entity] # NoComp
    BY Zenon DEF Registered
  <2>1. j \in 1..(index - 1)
    BY <1>1, <1>3
  <2> QED
    BY Zenon, <1>1, <2>1 DEF TypedInv, FilledInv, Omitted
<1>5. SimpleInv'
  BY <1>1, <1>2, <1>4 DEF TypedInv, SimpleInv
<1>6. IdInv'
  BY <1>1 DEF TypedInv, IdInv
<1>7. FilledInv' /\ CreationFailsOnlyIfIncomplete'
  BY <1>1, <1>2 DEF TypedInv, FilledInv, CreationFailsOnlyIfIncomplete
<1> QED
  BY <1>2, <1>5, <1>6, <1>7 DEF TypedInv

(* A deletion clears the entry in every storage.                           *)
LEMMA DeleteInv ==
  ASSUME TypedInv, NEW e \in Entity, Delete(e)
  PROVE  TypedInv'
<1>1. /\ phase = "built" /\ entity = NoEntity /\ e \in live
      /\ comps' = [c \in Simple |-> IF c \in Registered THEN [comps[c] EXCEPT ![e] = NoComp] ELSE comps[c]]
      /\ live' = live \ {e} /\ allocated' = allocated \ {e}
      /\ strategy' = strategy /\ UNCHANGED registry /\ phase' = phase
      /\ isotopes' = isotopes /\ lives' = lives /\ entity' = entity /\ index' = index /\ maps' = maps
  BY Zenon DEF Delete, creation
<1>2. /\ RegistryInv' /\ Registered' = Registered
      /\ simple_storages' = simple_storages /\ isotope_storage_maps' = isotope_storage_maps
  BY <1>1, BuiltKeeps
<1>3. comps \in [Simple -> [Entity -> SUBSET Nat]] /\ NoComp \in SUBSET Nat
  BY DEF TypedInv, SimpleInv, NoComp
<1>4. \A c \in Simple : c \notin Registered => comps[c][e] = NoComp
  BY DEF TypedInv, SimpleInv
<1>5. /\ comps' \in [Simple -> [Entity -> SUBSET Nat]]
      /\ \A c \in Simple, x \in Entity : comps'[c][x] = IF x = e THEN NoComp ELSE comps[c][x]
  BY <1>1, <1>3, <1>4
<1>6. SimpleInv'
  <2>1. Registered \subseteq Simple /\ live \subseteq Entity
    BY DEF TypedInv, RegistryInv, IdInv, Registered
  <2>2. ASSUME NEW c \in Simple, NEW x \in Entity
        PROVE  /\ comps'[c][x] \subseteq {lives[x]}
               /\ x \notin live' \cup {entity} \/ c \notin Registered => comps'[c][x] = NoComp
    BY <1>1, <1>5 DEF TypedInv, SimpleInv, NoComp
  <2>3. \A c \in Registered, x \in live' : comps'[c][x] = comps[c][x] /\ x \in live
    BY <1>1, <1>5, <2>1
  <2> QED
    BY <1>1, <1>2, <1>5, <2>2, <2>3 DEF TypedInv, SimpleInv
<1>7. IdInv'
  <2>1. /\ lives' \in [Entity -> Nat]
        /\ live \subseteq allocated /\ allocated \subseteq Entity
        /\ \A x \in allocated : lives'[x] > 0
    BY Zenon, <1>1 DEF TypedInv, IdInv
  <2>2. live' \subseteq allocated' /\ allocated' \subseteq Entity /\ allocated' \subseteq allocated
    BY Zenon, <1>1, <2>1
  <2>3. phase' # "building" /\ entity' = NoEntity
    BY <1>1
  <2> QED
    BY Zenon, <2>1, <2>2, <2>3 DEF IdInv
<1>8. FilledInv'
  BY <1>1, <1>2 DEF TypedInv, FilledInv
<1>9. CreationFailsOnlyIfIncomplete'
  BY <1>1 DEF CreationFailsOnlyIfIncomplete
<1> QED
  BY Zenon, <1>2, <1>6, <1>7, <1>8, <1>9 DEF TypedInv

-----------------------------------------------------------------------------

(* An archetype starts with the deletion flag and no entities.             *)
THEOREM TypedInvInit == TypedInit => TypedInv
<1> SUFFICES ASSUME TypedInit PROVE TypedInv
  OBVIOUS
<1>1. /\ strategy \in Strategies /\ simple_storages = <<Flag>> /\ isotope_storage_maps = {}
      /\ calls = << >> /\ phase = "building" /\ live = {} /\ entity = NoEntity /\ allocated = {}
      /\ index = 1 /\ maps = {} /\ lives = [e \in Entity |-> 0]
      /\ comps = [c \in Simple |-> [e \in Entity |-> NoComp]] /\ isotopes = [c \in Isotope |-> << >>]
  BY DEF TypedInit
<1>2. Flag \in Simple /\ strategy[Flag].deps = << >>
  BY <1>1, TypedAssumption
<1>3. Registered = {Flag} /\ DepsOf(Flag) = {} /\ ~Repeats(strategy[Flag].deps)
  BY <1>1, <1>2 DEF Registered, DepsOf, Repeats
<1>4. Toposorted
  BY <1>1, <1>3 DEF Toposorted
<1>5. RegistryInv
  BY <1>1, <1>2, <1>3, <1>4 DEF RegistryInv, CallsOK
<1>6. SimpleInv
  BY <1>1 DEF SimpleInv, NoComp
<1>7. IdInv /\ FilledInv /\ CreationFailsOnlyIfIncomplete
  BY <1>1 DEF IdInv, FilledInv, CreationFailsOnlyIfIncomplete
<1> QED
  BY <1>5, <1>6, <1>7 DEF TypedInv

(* Steps elsewhere keep the invariant.                                     *)
LEMMA TypedUnchanged ==
  ASSUME TypedInv, UNCHANGED tvars
  PROVE  TypedInv'
<1>1. /\ strategy' = strategy /\ simple_storages' = simple_storages
      /\ isotope_storage_maps' = isotope_storage_maps /\ calls' = calls /\ phase' = phase
      /\ comps' = comps /\ isotopes' = isotopes /\ lives' = lives /\ allocated' = allocated
      /\ live' = live /\ entity' = entity /\ comp_map' = comp_map /\ index' = index /\ maps' = maps
  BY Zenon DEF tvars, registry, content, creation
<1>2. CallsOK(calls)' /\ Toposorted' /\ Registered' = Registered
  BY Zenon, <1>1, SameRegistry DEF TypedInv
<1>3. \A c : /\ DepsOf(c)' = DepsOf(c) /\ Omitted(c)' = Omitted(c)
             /\ Supported(c)' = Supported(c)
  BY Zenon, <1>1 DEF DepsOf, Omitted, Supported
<1>4. RegistryInv'
  BY Zenon, <1>1, <1>2 DEF TypedInv, RegistryInv
<1>5. SimpleInv' /\ IdInv'
  BY Zenon, <1>1, <1>2 DEF TypedInv, SimpleInv, IdInv
<1>6. FilledInv'
  BY Zenon, <1>1, <1>3 DEF TypedInv, FilledInv
<1>7. CreationFailsOnlyIfIncomplete'
  <2>1. Incomplete => Incomplete'
    BY <1>1, <1>2, <1>3 DEF Incomplete
  <2> QED
    BY <1>1, <1>3, <2>1 DEF TypedInv, CreationFailsOnlyIfIncomplete
<1> QED
  BY Zenon, <1>4, <1>5, <1>6, <1>7 DEF TypedInv

(* Requests, creations and deletions keep the invariant.                   *)
THEOREM TypedInvNext == TypedInv /\ [TypedNext]_tvars => TypedInv'
<1> SUFFICES ASSUME TypedInv, [TypedNext]_tvars PROVE TypedInv'
  OBVIOUS
<1>1. ASSUME NEW c \in Simple, RequestSimple(c) PROVE TypedInv'
  BY Zenon, <1>1, RequestSimpleInv
<1>2. CASE AddNext
  BY Zenon, <1>2, AddDepInv, InsertStorageInv DEF AddNext
<1>3. ASSUME NEW c \in Isotope, RequestIsotope(c) PROVE TypedInv'
  BY Zenon, <1>3, RequestIsotopeInv
<1>4. CASE BuildTyped
  BY Zenon, <1>4, BuildTypedInv
<1>5. ASSUME NEW e \in Entity, Allocate(e) \/ Delete(e) \/ \E given \in Given : InitEntity(e, given)
      PROVE  TypedInv'
  BY Zenon, <1>5, AllocateInv, DeleteInv, InitEntityInv
<1>6. CASE FillNext
  BY Zenon, <1>6, FillSimpleInv, FillIsotopeInv, InitialisedInv DEF FillNext
<1>7. CASE UNCHANGED tvars
  BY Zenon, <1>7, TypedUnchanged
<1> QED
  BY Zenon, <1>1, <1>2, <1>3, <1>4, <1>5, <1>6, <1>7 DEF TypedNext

(* The invariant has the properties in it.                                 *)
LEMMA TypedInvImplies ==
  TypedInv => Toposorted /\ CreationFailsOnlyIfIncomplete /\ InitialisedFromItself
<1>1. TypedInv => InitialisedFromItself
  <2>1. TypedInv => live \subseteq Entity /\ Registered \subseteq Simple
    BY DEF TypedInv, IdInv, RegistryInv, Registered
  <2> QED
    BY <2>1 DEF TypedInv, SimpleInv, InitialisedFromItself
<1> QED
  BY <1>1 DEF TypedInv, RegistryInv

(* For any components, initialisers and requests: the storages stay in the *)
(* order of their dependencies, creations fail only for components the     *)
(* caller left out, and entities get their own simple components.          *)
THEOREM TypedAlways ==
  TypedSpec => [](Toposorted /\ CreationFailsOnlyIfIncomplete /\ InitialisedFromItself)
BY TypedInvInit, TypedInvNext, TypedInvImplies, PTL DEF TypedSpec

-----------------------------------------------------------------------------

(* Requests that search a type and then register its storage keep both     *)
(* invariants.                                                             *)
THEOREM ComponentsInvNext ==
  ReferrerInv /\ TypedInv /\ [ComponentsNext]_cvars => ReferrerInv' /\ TypedInv'
<1> SUFFICES ASSUME ReferrerInv, TypedInv, [ComponentsNext]_cvars
             PROVE  ReferrerInv' /\ TypedInv'
  OBVIOUS
<1>1. ASSUME NEW c \in Component, NewRequest(c) PROVE ReferrerInv' /\ TypedInv'
  <2>1. c \in Type /\ Search(c) /\ UNCHANGED tvars
    BY Zenon, <1>1, ComponentsAssumption DEF NewRequest
  <2> QED
    BY Zenon, <2>1, SearchInv, TypedUnchanged
<1>2. ASSUME NEW c \in Component, Register(c) PROVE ReferrerInv' /\ TypedInv'
  <2>1. TypedInv'
    BY Zenon, <1>2, RequestSimpleInv, RequestIsotopeInv DEF Register, Component
  <2>2. Flag \in Type
    BY TypedAssumption, ComponentsAssumption DEF Component
  <2>3. /\ fields' \in Declarations /\ root' \in Type
        /\ recursion_guard' = {} /\ found_archs' = {} /\ visits' = << >>
    BY <1>2, <2>2 DEF Register, ReferrerInv, ReferrerTypeOK
  <2>4. (/\ fields \in Declarations /\ root \in Type
         /\ recursion_guard = {} /\ found_archs = {} /\ visits = << >>)'
    BY <2>3
  <2>5. ReferrerInv'
    BY <2>4, NoSearchInv, PTL
  <2> QED
    BY <2>1, <2>5
<1>3. CASE VisitNext /\ UNCHANGED tvars
  BY Zenon, <1>3, ReferrerInvNext, TypedUnchanged DEF ReferrerNext
<1>4. ASSUME TypedNext, UNCHANGED rvars PROVE ReferrerInv' /\ TypedInv'
  BY Zenon, <1>4, TypedInvNext, ReferrerInvNext
<1>5. CASE UNCHANGED cvars
  <2>1. UNCHANGED rvars /\ UNCHANGED tvars
    BY Zenon, <1>5 DEF cvars
  <2> QED
    BY Zenon, <2>1, TypedUnchanged, ReferrerInvNext
<1> QED
  BY Zenon, <1>1, <1>2, <1>3, <1>4, <1>5 DEF ComponentsNext, TypedNext

(* All of this holds of the two together.                                  *)
THEOREM ComponentsAlways ==
  ComponentsSpec => [](/\ FindsStrongReferences /\ Toposorted
                       /\ CreationFailsOnlyIfIncomplete /\ InitialisedFromItself)
<1>1. ComponentsInit => ReferrerInv /\ TypedInv
  BY TypedInvInit, NoSearchInv DEF ComponentsInit, ReferrerInit
<1> QED
  BY <1>1, ComponentsInvNext, SearchCorrect, TypedInvImplies, PTL DEF ComponentsSpec

(* An isotope component that #[comp] expands, with an initialiser that has *)
(* no parameters or none.                                                  *)
MacroIsotope(strat) ==
  \E opts : /\ ~CompRejected(opts) /\ Has(opts, "isotope")
            /\ strat = StrategyOf(opts) /\ strat.deps = << >>

(* In programs that declare their isotope components so, init_entity       *)
(* panics only if the caller leaves out a component: what #[comp] rejects  *)
(* is what fill_init_isotope cannot do.                                    *)
THEOREM MacroCreationsComplete ==
  ASSUME \A st \in Strategies : \A c \in Isotope : MacroIsotope(st[c])
  PROVE  ComponentsSpec => [](phase = "panicked" /\ entity # NoEntity => Incomplete)
<1>1. ComponentsInit => ReferrerInv /\ TypedInv
  BY TypedInvInit, NoSearchInv DEF ComponentsInit, ReferrerInit
<1>2. TypedInv => (phase = "panicked" /\ entity # NoEntity => Incomplete)
  <2> SUFFICES ASSUME TypedInv, NEW c \in isotope_storage_maps
               PROVE  Supported(c)
    BY Zenon DEF TypedInv, CreationFailsOnlyIfIncomplete
  <2>1. c \in Isotope /\ MacroIsotope(strategy[c])
    BY DEF TypedInv, RegistryInv
  <2>2. PICK opts : /\ ~CompRejected(opts) /\ Has(opts, "isotope")
                    /\ strategy[c] = StrategyOf(opts) /\ strategy[c].deps = << >>
    BY Zenon, <2>1 DEF MacroIsotope
  <2>3. strategy[c].auto = Has(opts, "init") /\ strategy[c].required = Has(opts, "required")
    BY <2>2 DEF StrategyOf
  <2>4. ~Has(opts, "init") => ~Has(opts, "required")
    BY Zenon, <2>2 DEF CompRejected
  <2> QED
    BY Zenon, <2>2, <2>3, <2>4 DEF Supported
<1> QED
  BY <1>1, <1>2, ComponentsInvNext, PTL DEF ComponentsSpec

=============================================================================
