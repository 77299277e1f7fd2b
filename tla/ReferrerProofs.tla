--------------------------- MODULE ReferrerProofs ---------------------------
(***************************************************************************)
(* A search that has returned found the strong references of its type,     *)
(* for every declaration of types.                                         *)
(*                                                                         *)
(* The argument is that of a graph search.  What was entered stays inside  *)
(* every closed set around the root, and whatever it contains was entered  *)
(* as well or is still pending in a running call.                          *)
(***************************************************************************)
EXTENDS Referrer, TLAPS

(* A running call has yet to visit t.                                      *)
Pending(t) == \E i \in DOMAIN visits : \E j \in DOMAIN visits[i] : visits[i][j] = t
Met(t) == t \in recursion_guard \/ Pending(t)

ReferrerTypeOK ==
  /\ fields \in Declarations
  /\ root \in Type
  /\ recursion_guard \subseteq Type
  /\ visits \in Seq(Seq(Type))

(* Only what a value of the root may contain is met.                       *)
Sound == \A S \in SUBSET Type : root \in S /\ Closed(S) => \A t \in Type : Met(t) => t \in S

(* What a type that was entered contains is met, and so is the root.       *)
Complete ==
  /\ \A t \in recursion_guard : \A u \in FieldsOf(t) : Met(u)
  /\ visits # << >> => Met(root)

FoundInGuard == found_archs = {ArchOf[t] : t \in recursion_guard \cap EntityType}

ReferrerInv == ReferrerTypeOK /\ Sound /\ Complete /\ FoundInGuard

-----------------------------------------------------------------------------

(* The fields of a type are types.                                         *)
LEMMA FieldTypes ==
  ASSUME fields \in Declarations, NEW t \in Type
  PROVE  fields[t] \in Seq(Type) /\ FieldsOf(t) \subseteq Type
<1>1. fields \in [Type -> Seq(Type)]
  BY ReferrerAssumption
<1>2. fields[t] \in Seq(Type)
  BY <1>1
<1> QED
  BY <1>2 DEF FieldsOf

(* The head of a list and the elements of its tail are the list's.         *)
LEMMA HeadAndTail ==
  ASSUME NEW T, NEW s \in Seq(T), s # << >>
  PROVE  /\ Head(s) \in T /\ Tail(s) \in Seq(T)
         /\ 1 \in DOMAIN s /\ s[1] = Head(s)
         /\ \A j \in DOMAIN s : s[j] = Head(s) \/ \E k \in DOMAIN Tail(s) : Tail(s)[k] = s[j]
         /\ \A k \in DOMAIN Tail(s) : \E j \in DOMAIN s : s[j] = Tail(s)[k]
<1>1. Len(s) \in Nat /\ Len(s) > 0 /\ DOMAIN s = 1..Len(s)
  OBVIOUS
<1>2. DOMAIN Tail(s) = 1..(Len(s) - 1) /\ \A k \in 1..(Len(s) - 1) : Tail(s)[k] = s[k + 1]
  BY <1>1
<1>3. \A j \in DOMAIN s : s[j] = Head(s) \/ \E k \in DOMAIN Tail(s) : Tail(s)[k] = s[j]
  <2> SUFFICES ASSUME NEW j \in DOMAIN s, j # 1 PROVE \E k \in DOMAIN Tail(s) : Tail(s)[k] = s[j]
    BY <1>1
  <2>1. j - 1 \in DOMAIN Tail(s) /\ Tail(s)[j - 1] = s[j]
    BY <1>1, <1>2
  <2> QED
    BY <2>1
<1>4. \A k \in DOMAIN Tail(s) : \E j \in DOMAIN s : s[j] = Tail(s)[k]
  BY <1>1, <1>2
<1> QED
  BY <1>1, <1>3, <1>4

(* A new search has met its root and nothing else.                         *)
LEMMA SearchInv ==
  ASSUME ReferrerInv, NEW t \in Type, Search(t)
  PROVE  ReferrerInv'
<1>1. /\ root' = t /\ recursion_guard' = {} /\ found_archs' = {} /\ fields' = fields
      /\ visits' = << <<t>> >>
  BY DEF Search
<1>2. ReferrerTypeOK'
  BY <1>1 DEF ReferrerInv, ReferrerTypeOK
<1>3. \A u : Pending(u)' <=> u = t
  BY <1>1 DEF Pending
<1>4. Sound'
  BY <1>1, <1>3 DEF Sound, Met
<1>5. Complete'
  BY <1>1, <1>3 DEF Complete, Met
<1>6. FoundInGuard'
  BY <1>1 DEF FoundInGuard
<1> QED
  BY <1>2, <1>4, <1>5, <1>6 DEF ReferrerInv

(* A field that is visited is met, and what is met anew is in it.          *)
LEMMA VisitFieldInv ==
  ASSUME ReferrerInv, VisitField
  PROVE  ReferrerInv'
<1> DEFINE frame == visits[Depth]
           t == Head(frame)
           rest == [visits EXCEPT ![Depth] = Tail(@)]
<1>1. /\ visits \in Seq(Seq(Type)) /\ visits # << >> /\ frame # << >>
      /\ fields' = fields /\ root' = root /\ fields \in Declarations
  BY DEF VisitField, ReferrerInv, ReferrerTypeOK
<1>2. Depth \in Nat /\ Depth > 0 /\ DOMAIN visits = 1..Depth /\ frame \in Seq(Type)
  BY <1>1 DEF Depth
<1>3. t \in Type /\ Tail(frame) \in Seq(Type) /\ 1 \in DOMAIN frame /\ frame[1] = t
  BY <1>1, <1>2, HeadAndTail
<1>4. /\ rest \in Seq(Seq(Type)) /\ Len(rest) = Depth /\ DOMAIN rest = 1..Depth
      /\ \A i \in 1..Depth : rest[i] = IF i = Depth THEN Tail(frame) ELSE visits[i]
  BY <1>1, <1>2, <1>3 DEF Depth
<1> DEFINE In(u) == \E i \in 1..Depth : \E j \in DOMAIN rest[i] : rest[i][j] = u
<1>5. \A u : Pending(u) <=> u = t \/ In(u)
  <2>1. ASSUME NEW u, Pending(u) PROVE u = t \/ In(u)
    <3>1. PICK i \in 1..Depth : \E j \in DOMAIN visits[i] : visits[i][j] = u
      BY <1>2, <2>1 DEF Pending
    <3>2. PICK j \in DOMAIN visits[i] : visits[i][j] = u
      BY <3>1
    <3>3. CASE i = Depth
      <4>1. u = t \/ \E k \in DOMAIN Tail(frame) : Tail(frame)[k] = u
        BY <1>1, <1>2, <3>2, <3>3, HeadAndTail
      <4>2. rest[Depth] = Tail(frame) /\ Depth \in 1..Depth
        BY <1>2, <1>4
      <4> QED
        BY Zenon, <4>1, <4>2
    <3>4. CASE i # Depth
      BY <1>4, <3>2, <3>4
    <3> QED
      BY <3>3, <3>4
  <2>2. Pending(t)
    BY <1>2, <1>3 DEF Pending
  <2>3. ASSUME NEW u, In(u) PROVE Pending(u)
    <3>1. PICK i \in 1..Depth : \E j \in DOMAIN rest[i] : rest[i][j] = u
      BY <2>3
    <3>2. CASE i = Depth
      <4>1. \E k \in DOMAIN Tail(frame) : Tail(frame)[k] = u
        BY <1>4, <3>1, <3>2
      <4>2. \E j \in DOMAIN frame : frame[j] = u
        BY <1>1, <1>2, <4>1, HeadAndTail
      <4> QED
        BY <1>2, <4>2 DEF Pending
    <3>3. CASE i # Depth
      <4>1. rest[i] = visits[i] /\ i \in DOMAIN visits
        BY <1>2, <1>4, <3>3
      <4> QED
        BY Zenon, <3>1, <4>1 DEF Pending
    <3> QED
      BY <3>2, <3>3
  <2> QED
    BY <2>1, <2>2, <2>3
<1>6. \A v : FieldsOf(v)' = FieldsOf(v)
  BY Zenon, <1>1 DEF FieldsOf
<1>7. \A S : Closed(S)' <=> Closed(S)
  BY <1>6 DEF Closed
<1> HIDE DEF In
<1>8. CASE ~Mark(t)
  <2>1. visits' = rest /\ recursion_guard' = recursion_guard /\ found_archs' = found_archs
    BY <1>8 DEF VisitField, VisitType
  <2>2. \A u : Pending(u)' <=> In(u)
    BY Zenon, <1>4, <2>1 DEF Pending, In
  <2>3. \A u : Met(u)' <=> Met(u)
    BY <1>5, <1>8, <2>1, <2>2 DEF Met, Mark
  <2>4. ReferrerTypeOK'
    BY <1>1, <1>4, <2>1 DEF ReferrerInv, ReferrerTypeOK
  <2>5. Sound'
    BY <1>1, <1>7, <2>3 DEF ReferrerInv, Sound
  <2>6. Complete'
    BY Zenon, <1>1, <2>1, <2>3 DEF ReferrerInv, Complete, FieldsOf
  <2> QED
    BY <2>1, <2>4, <2>5, <2>6 DEF ReferrerInv, FoundInGuard
<1>9. CASE Mark(t)
  <2>1. /\ visits' = Append(rest, fields[t]) /\ recursion_guard' = recursion_guard \cup {t}
        /\ found_archs' = IF AddsArchetype(t) THEN found_archs \cup {ArchOf[t]} ELSE found_archs
    BY <1>9 DEF VisitField, VisitType
  <2>2. fields[t] \in Seq(Type) /\ FieldsOf(t) \subseteq Type
    BY <1>1, <1>3, FieldTypes
  <2>3. /\ visits' \in Seq(Seq(Type)) /\ DOMAIN visits' = 1..(Depth + 1)
        /\ visits'[Depth + 1] = fields[t] /\ \A i \in 1..Depth : visits'[i] = rest[i]
    BY <1>2, <1>4, <2>1, <2>2
  <2>4. \A u : Pending(u)' <=> In(u) \/ u \in FieldsOf(t)
    <3>1. ASSUME NEW u, Pending(u)' PROVE In(u) \/ u \in FieldsOf(t)
      <4>1. PICK i \in 1..(Depth + 1) : \E j \in DOMAIN visits'[i] : visits'[i][j] = u
        BY <2>3, <3>1 DEF Pending
      <4>2. CASE i = Depth + 1
        BY Zenon, <2>3, <4>1, <4>2 DEF FieldsOf
      <4>3. CASE i # Depth + 1
        <5>1. i \in 1..Depth
          BY <1>2, <4>3
        <5>2. visits'[i] = rest[i]
          BY Zenon, <2>3, <5>1
        <5> QED
          BY Zenon, <4>1, <5>1, <5>2 DEF In
      <4> QED
        BY <4>2, <4>3
    <3>2. ASSUME NEW u, In(u) PROVE Pending(u)'
      <4>1. PICK i \in 1..Depth : \E j \in DOMAIN rest[i] : rest[i][j] = u
        BY Zenon, <3>2 DEF In
      <4>2. i \in DOMAIN visits' /\ visits'[i] = rest[i]
        BY <1>2, <2>3
      <4> QED
        BY Zenon, <4>1, <4>2 DEF Pending
    <3>3. ASSUME NEW u, u \in FieldsOf(t) PROVE Pending(u)'
      BY <1>2, <2>3, <3>3 DEF Pending, FieldsOf
    <3> QED
      BY <3>1, <3>2, <3>3
  <2>5. \A u : Met(u)' <=> Met(u) \/ u \in FieldsOf(t)
    BY <1>5, <2>1, <2>4 DEF Met
  <2>6. ReferrerTypeOK'
    BY <1>1, <1>3, <2>1, <2>3 DEF ReferrerInv, ReferrerTypeOK
  <2>7. Sound'
    <3> SUFFICES ASSUME NEW S \in SUBSET Type, root \in S, Closed(S),
                        NEW u \in Type, Met(u)'
                 PROVE  u \in S
      BY <1>1, <1>7 DEF Sound
    <3>1. \A v \in Type : Met(v) => v \in S
      BY Zenon DEF ReferrerInv, Sound
    <3>2. t \in S
      BY <1>3, <1>5, <3>1 DEF Met
    <3> QED
      BY <2>5, <3>1, <3>2 DEF Closed
  <2>8. Complete'
    <3>1. \A v \in recursion_guard' : \A u \in FieldsOf(v)' : Met(u)'
      BY <1>6, <2>1, <2>5 DEF ReferrerInv, Complete
    <3>2. Met(root)'
      BY <1>1, <2>5 DEF ReferrerInv, Complete
    <3> QED
      BY Zenon, <3>1, <3>2 DEF Complete
  <2>9. FoundInGuard'
    BY <2>1 DEF ReferrerInv, FoundInGuard, AddsArchetype
  <2> QED
    BY <2>6, <2>7, <2>8, <2>9 DEF ReferrerInv
<1> QED
  BY <1>8, <1>9

(* A call that returns has visited all its fields.                         *)
LEMMA VisitReturnInv ==
  ASSUME ReferrerInv, VisitReturn
  PROVE  ReferrerInv'
<1>1. /\ visits \in Seq(Seq(Type)) /\ visits # << >> /\ visits[Depth] = << >>
      /\ visits' = SubSeq(visits, 1, Depth - 1) /\ fields' = fields /\ root' = root
      /\ recursion_guard' = recursion_guard /\ found_archs' = found_archs
  BY DEF VisitReturn, ReferrerInv, ReferrerTypeOK
<1>2. Depth \in Nat /\ Depth > 0 /\ DOMAIN visits = 1..Depth
  BY <1>1 DEF Depth
<1>3. /\ visits' \in Seq(Seq(Type)) /\ DOMAIN visits' = 1..(Depth - 1)
      /\ \A i \in 1..(Depth - 1) : visits'[i] = visits[i]
  BY <1>1, <1>2 DEF Depth
<1>4. \A u : Pending(u)' <=> Pending(u)
  <2>1. ASSUME NEW u, Pending(u) PROVE Pending(u)'
    <3>1. PICK i \in 1..Depth : \E j \in DOMAIN visits[i] : visits[i][j] = u
      BY Zenon, <1>2, <2>1 DEF Pending
    <3>2. i # Depth
      BY <1>1, <3>1
    <3>3. i \in DOMAIN visits' /\ visits'[i] = visits[i]
      BY <1>2, <1>3, <3>2
    <3> QED
      BY Zenon, <3>1, <3>3 DEF Pending
  <2>2. ASSUME NEW u, Pending(u)' PROVE Pending(u)
    <3>1. PICK i \in 1..(Depth - 1) : \E j \in DOMAIN visits'[i] : visits'[i][j] = u
      BY Zenon, <1>3, <2>2 DEF Pending
    <3>2. i \in DOMAIN visits /\ visits'[i] = visits[i]
      BY <1>2, <1>3
    <3> QED
      BY Zenon, <3>1, <3>2 DEF Pending
  <2> QED
    BY <2>1, <2>2
<1>5. \A u : Met(u)' <=> Met(u)
  BY <1>1, <1>4 DEF Met
<1>6. \A v : FieldsOf(v)' = FieldsOf(v)
  BY Zenon, <1>1 DEF FieldsOf
<1>7. \A S : Closed(S)' <=> Closed(S)
  BY <1>6 DEF Closed
<1>8. ReferrerTypeOK'
  BY <1>1, <1>3 DEF ReferrerInv, ReferrerTypeOK
<1>9. Sound'
  BY <1>1, <1>5, <1>7 DEF ReferrerInv, Sound
<1>10. Complete'
  BY <1>1, <1>5, <1>6 DEF ReferrerInv, Complete
<1> QED
  BY <1>1, <1>8, <1>9, <1>10 DEF ReferrerInv, FoundInGuard

(* Forgetting a search leaves nothing to be said of it.                    *)
LEMMA NoSearchInv ==
  ASSUME fields \in Declarations, root \in Type,
         recursion_guard = {}, found_archs = {}, visits = << >>
  PROVE  ReferrerInv
<1>1. \A t : ~Met(t)
  BY DEF Met, Pending
<1> QED
  BY <1>1 DEF ReferrerInv, ReferrerTypeOK, Sound, Complete, FoundInGuard

(* With no call running, the types entered are closed under fields: they   *)
(* are the least such set around the root.                                 *)
LEMMA SearchCorrect == ReferrerInv => FindsStrongReferences
<1> SUFFICES ASSUME ReferrerInv, visits = << >>, root \in recursion_guard
             PROVE  found_archs = {ArchOf[t] : t \in Reachable(root) \cap EntityType}
  BY DEF FindsStrongReferences
<1>1. \A t : Met(t) <=> t \in recursion_guard
  BY DEF Met, Pending
<1>2. recursion_guard \in SUBSET Type /\ Closed(recursion_guard)
  BY <1>1 DEF ReferrerInv, ReferrerTypeOK, Complete, Closed
<1>3. recursion_guard \subseteq Reachable(root)
  BY <1>1, <1>2 DEF ReferrerInv, Sound, Reachable
<1>4. Reachable(root) \subseteq recursion_guard
  BY <1>2 DEF Reachable
<1>5. Reachable(root) = recursion_guard
  BY <1>3, <1>4
<1> QED
  BY Zenon, <1>5 DEF ReferrerInv, FoundInGuard

-----------------------------------------------------------------------------

(* Every step of a search and every new search keep the invariant.         *)
THEOREM ReferrerInvNext == ReferrerInv /\ [ReferrerNext]_rvars => ReferrerInv'
<1> SUFFICES ASSUME ReferrerInv, [ReferrerNext]_rvars PROVE ReferrerInv'
  OBVIOUS
<1>1. CASE VisitNext
  BY Zenon, <1>1, VisitFieldInv, VisitReturnInv DEF VisitNext
<1>2. ASSUME NEW t \in Type, Search(t) PROVE ReferrerInv'
  BY Zenon, <1>2, SearchInv
<1>3. CASE UNCHANGED rvars
  <2>1. /\ fields' = fields /\ root' = root /\ recursion_guard' = recursion_guard
        /\ found_archs' = found_archs /\ visits' = visits
    BY Zenon, <1>3 DEF rvars, search
  <2>2. \A t : Met(t)' <=> Met(t)
    BY Zenon, <2>1 DEF Met, Pending
  <2>3. \A t : FieldsOf(t)' = FieldsOf(t)
    BY Zenon, <2>1 DEF FieldsOf
  <2>4. \A S : Closed(S)' <=> Closed(S)
    BY <2>3 DEF Closed
  <2>5. Sound'
    BY <2>1, <2>2, <2>4 DEF ReferrerInv, Sound
  <2>6. Complete'
    BY <2>1, <2>2, <2>3 DEF ReferrerInv, Complete
  <2> QED
    BY <2>1, <2>5, <2>6 DEF ReferrerInv, ReferrerTypeOK, FoundInGuard
<1> QED
  BY Zenon, <1>1, <1>2, <1>3 DEF ReferrerNext

(* For every declaration of types, recursive ones included, a search that  *)
(* has returned found the archetypes that its type owns references to.     *)
THEOREM FindsStrongReferencesAlways == ReferrerSpec => []FindsStrongReferences
<1>1. ReferrerInit => ReferrerInv
  BY NoSearchInv DEF ReferrerInit
<1> QED
  BY <1>1, ReferrerInvNext, SearchCorrect, PTL DEF ReferrerSpec

=============================================================================
