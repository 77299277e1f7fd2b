-------------------------- MODULE ScanCyclesProofs --------------------------
(***************************************************************************)
(* scan_cycles decides acyclicity, for every set of nodes and orders.      *)
(***************************************************************************)
EXTENDS ScanCycles, TLAPS

(* No set of exited nodes waits only for itself.                           *)
ExitedAcyclic ==
  \A S \in SUBSET exited :
    S # {} => \E n \in S : \A o \in DependenciesOf(orders, n) : Before[o] \notin S

SInv ==
  /\ ScanInv
  /\ ExitedAcyclic
  /\ VerdictCorrect

-----------------------------------------------------------------------------

(* Pushing a node that is on no list, found from the top of the stack.     *)
LEMMA EnterInv ==
  ASSUME SInv, NEW n \in remaining, NEW rest \in [Node -> SUBSET Order], Enter(n, rest),
         \A m \in Node : m \notin OnStack => rest[m] = todo[m],
         stack # << >> => Edges(orders, Top, n) # {},
         \A i \in DOMAIN stack :
           /\ rest[stack[i]] \subseteq DependentsOf(orders, stack[i])
           /\ \A o \in DependentsOf(orders, stack[i]) \ rest[stack[i]] :
                \/ After[o] \in exited
                \/ i < Len(stack) /\ After[o] = stack[i + 1]
                \/ i = Len(stack) /\ After[o] = n
  PROVE  SInv'
<1>1. /\ stack \in Seq(Node) /\ n \in Node /\ Len(stack) \in Nat
      /\ DOMAIN stack = 1..Len(stack)
  BY DEF SInv, ScanInv
<1>2. /\ stack' \in Seq(Node) /\ Len(stack') = Len(stack) + 1
      /\ DOMAIN stack' = 1..(Len(stack) + 1)
      /\ \A i \in 1..Len(stack) : stack'[i] = stack[i]
      /\ stack'[Len(stack) + 1] = n
  BY <1>1 DEF Enter
<1>3. OnStack' = OnStack \cup {n} /\ n \notin OnStack /\ n \notin exited
  BY <1>1, <1>2 DEF OnStack, SInv, ScanInv
<1>4. /\ remaining' = remaining \ {n} /\ exited' = exited /\ orders' = orders /\ result' = result
      /\ todo' = [rest EXCEPT ![n] = DependentsOf(orders, n)]
  BY DEF Enter
<1>5. /\ todo'[n] = DependentsOf(orders, n)
      /\ \A m \in Node : m # n => todo'[m] = rest[m]
      /\ todo' \in [Node -> SUBSET Order]
  BY <1>1, <1>4 DEF DependentsOf, SInv, ScanInv
<1>6. /\ remaining' \subseteq Node /\ exited' \subseteq Node
      /\ remaining' \cap exited' = {} /\ remaining' \cap OnStack' = {} /\ exited' \cap OnStack' = {}
      /\ Node = remaining' \cup exited' \cup OnStack'
  BY <1>3, <1>4 DEF SInv, ScanInv
<1>7. \A i, j \in DOMAIN stack' : stack'[i] = stack'[j] => i = j
  <2>1. \A i \in 1..Len(stack) : stack[i] # n
    BY <1>1, <1>3 DEF OnStack
  <2>2. \A i, j \in 1..Len(stack) : stack[i] = stack[j] => i = j
    BY <1>1 DEF SInv, ScanInv
  <2>3. \A i \in 1..(Len(stack) + 1) : i \in 1..Len(stack) \/ i = Len(stack) + 1
    BY <1>1
  <2> QED
    BY <1>2, <2>1, <2>2, <2>3
<1>8. \A i \in 1..(Len(stack') - 1) : Edges(orders', stack'[i], stack'[i + 1]) # {}
  <2>3. Len(stack') - 1 = Len(stack) /\ orders' = orders
    BY <1>1, <1>2, <1>4
  <2> SUFFICES ASSUME NEW i \in 1..Len(stack)
               PROVE  Edges(orders, stack'[i], stack'[i + 1]) # {}
    BY <2>3, Zenon
  <2>1. CASE i = Len(stack)
    <3>1. stack'[i] = Top /\ stack'[i + 1] = n /\ stack # << >>
      BY <1>1, <1>2, <2>1 DEF Top
    <3> QED
      BY <3>1
  <2>2. CASE i # Len(stack)
    <3>1. i \in 1..(Len(stack) - 1) /\ i + 1 \in 1..Len(stack)
      BY <1>1, <2>2
    <3> QED
      BY <1>2, <3>1 DEF SInv, ScanInv
  <2> QED
    BY <2>1, <2>2
<1>9. ASSUME NEW i \in DOMAIN stack'
      PROVE  /\ todo'[stack'[i]] \subseteq DependentsOf(orders', stack'[i])
             /\ \A o \in DependentsOf(orders', stack'[i]) \ todo'[stack'[i]] :
                  After[o] \in exited' \/ (i < Len(stack') /\ After[o] = stack'[i + 1])
  <2>1. CASE i = Len(stack) + 1
    BY <1>2, <1>4, <1>5, <2>1
  <2>2. CASE i \in 1..Len(stack)
    <3>1. stack'[i] = stack[i] /\ stack[i] \in OnStack /\ stack[i] \in Node /\ stack[i] # n
      BY <1>1, <1>2, <1>3, <2>2 DEF OnStack
    <3>2. todo'[stack'[i]] = rest[stack[i]]
      BY <1>5, <3>1
    <3>3. /\ rest[stack[i]] \subseteq DependentsOf(orders, stack[i])
          /\ \A o \in DependentsOf(orders, stack[i]) \ rest[stack[i]] :
                \/ After[o] \in exited
                \/ i < Len(stack) /\ After[o] = stack[i + 1]
                \/ i = Len(stack) /\ After[o] = n
      BY <1>1, <2>2
    <3>4. i < Len(stack') /\ (i < Len(stack) => stack'[i + 1] = stack[i + 1])
          /\ (i = Len(stack) => stack'[i + 1] = n)
      BY <1>1, <1>2, <2>2
    <3> QED
      BY <1>4, <3>1, <3>2, <3>3, <3>4
  <2> QED
    BY <1>1, <1>2, <1>9, <2>1, <2>2
<1>10. ScanInv'
  BY <1>2, <1>4, <1>5, <1>6, <1>7, <1>8, <1>9 DEF SInv, ScanInv
<1>11. ExitedAcyclic' /\ VerdictCorrect'
  BY Zenon, <1>4 DEF SInv, ExitedAcyclic, VerdictCorrect
<1> QED
  BY <1>10, <1>11 DEF SInv

-----------------------------------------------------------------------------

(* Returning from a call: all the node's dependents have exited.           *)
LEMMA ScanReturnInv ==
  ASSUME SInv, ScanReturn
  PROVE  SInv'
<1> DEFINE k == Len(stack)
<1>1. /\ stack \in Seq(Node) /\ k \in Nat \ {0} /\ DOMAIN stack = 1..k
      /\ k \in 1..k /\ Top \in Node /\ Top = stack[k] /\ Top \in OnStack
  <2>1. stack \in Seq(Node) /\ stack # << >>
    BY DEF SInv, ScanInv, ScanReturn
  <2>2. k \in Nat \ {0} /\ DOMAIN stack = 1..k /\ k \in 1..k
    BY <2>1
  <2> QED
    BY <2>1, <2>2 DEF Top, OnStack
<1>2. /\ stack' \in Seq(Node) /\ Len(stack') = k - 1 /\ DOMAIN stack' = 1..(k - 1)
      /\ \A i \in 1..(k - 1) : stack'[i] = stack[i] /\ i \in 1..k
  BY <1>1 DEF ScanReturn
<1>3. \A i \in 1..k : i \in 1..(k - 1) \/ i = k
  <2>1. k \in Nat
    BY <1>1
  <2>2. \A j \in Nat : \A i \in 1..j : i \in 1..(j - 1) \/ i = j
    OBVIOUS
  <2> QED
    BY <2>1, <2>2
<1>4. \A i \in 1..(k - 1) : stack[i] # Top
  BY SMTT(30), <1>1, <1>2 DEF SInv, ScanInv
<1>5. OnStack' = OnStack \ {Top}
  <2>1. \A x : x \in OnStack' <=> \E i \in 1..(k - 1) : x = stack[i]
    BY Zenon, <1>2 DEF OnStack
  <2>2. \A x : x \in OnStack <=> \E i \in 1..k : x = stack[i]
    BY <1>1 DEF OnStack
  <2> QED
    <3>1. \A x : x \in OnStack' => x \in OnStack /\ x # Top
      BY Zenon, <1>2, <1>4, <2>1, <2>2
    <3>2. \A x : x \in OnStack /\ x # Top => x \in OnStack'
      BY Zenon, <1>1, <1>3, <2>1, <2>2
    <3> QED
      BY <3>1, <3>2
<1>6. Top \notin exited
  BY <1>1 DEF SInv, ScanInv
<1>7. /\ exited' = exited \cup {Top} /\ remaining' = remaining /\ orders' = orders /\ todo' = todo
      /\ result' = result /\ result = "scanning"
  BY <1>6 DEF ScanReturn
<1>8. \A o \in DependentsOf(orders, Top) : After[o] \in exited
  <2>1. todo[stack[k]] = {}
    BY <1>1 DEF ScanReturn
  <2> QED
    BY <1>1, <2>1 DEF SInv, ScanInv
<1>9. \A n \in exited' : \A o \in DependentsOf(orders', n) : After[o] \in exited'
  BY <1>7, <1>8 DEF SInv, ScanInv
<1>10. ScanInv'
  <2>1. /\ remaining' \subseteq Node /\ exited' \subseteq Node
        /\ remaining' \cap exited' = {} /\ remaining' \cap OnStack' = {}
        /\ exited' \cap OnStack' = {} /\ Node = remaining' \cup exited' \cup OnStack'
    BY <1>1, <1>5, <1>7 DEF SInv, ScanInv
  <2>2. \A i, j \in DOMAIN stack' : stack'[i] = stack'[j] => i = j
    BY SMTT(30), <1>1, <1>2 DEF SInv, ScanInv
  <2>3. \A i \in 1..(Len(stack') - 1) : Edges(orders', stack'[i], stack'[i + 1]) # {}
    <3> SUFFICES ASSUME NEW i \in 1..(Len(stack') - 1)
                 PROVE  Edges(orders', stack'[i], stack'[i + 1]) # {}
      OBVIOUS
    <3>1. i \in 1..(k - 1) /\ i + 1 \in 1..(k - 1)
      BY <1>1, <1>2
    <3> QED
      BY Zenon, <1>2, <1>7, <3>1 DEF SInv, ScanInv
  <2>4. ASSUME NEW i \in DOMAIN stack'
        PROVE  /\ todo'[stack'[i]] \subseteq DependentsOf(orders', stack'[i])
               /\ \A o \in DependentsOf(orders', stack'[i]) \ todo'[stack'[i]] :
                    After[o] \in exited' \/ (i < Len(stack') /\ After[o] = stack'[i + 1])
    <3>1. i \in 1..(k - 1) /\ stack'[i] = stack[i] /\ i \in DOMAIN stack
      BY <1>1, <1>2, <2>4
    <3>2. /\ todo[stack[i]] \subseteq DependentsOf(orders, stack[i])
          /\ \A o \in DependentsOf(orders, stack[i]) \ todo[stack[i]] :
               After[o] \in exited \/ (i < k /\ After[o] = stack[i + 1])
      BY <3>1 DEF SInv, ScanInv
    <3>3. \/ i = k - 1 /\ stack[i + 1] = Top
          \/ i < k - 1 /\ stack'[i + 1] = stack[i + 1]
      BY <1>1, <1>2, <3>1
    <3> QED
      BY <1>2, <1>7, <3>1, <3>2, <3>3
  <2> QED
    BY Zenon, <1>2, <1>7, <1>9, <2>1, <2>2, <2>3, <2>4 DEF SInv, ScanInv
<1>11. ExitedAcyclic'
  <2> SUFFICES ASSUME NEW S \in SUBSET exited', S # {}
               PROVE  \E n \in S : \A o \in DependenciesOf(orders, n) : Before[o] \notin S
    BY <1>7 DEF ExitedAcyclic
  <2>1. CASE Top \notin S
    BY <1>7, <2>1 DEF SInv, ExitedAcyclic
  <2>2. CASE Top \in S
    <3>1. ASSUME NEW o \in DependenciesOf(orders, Top), Before[o] \in S
          PROVE  FALSE
      <4>1. o \in DependentsOf(orders, Before[o]) /\ After[o] = Top
        BY DEF DependenciesOf, DependentsOf
      <4>2. Before[o] \in exited \/ Before[o] = Top
        BY <1>7, <3>1
      <4>3. After[o] \in exited
        BY <1>8, <4>1, <4>2 DEF SInv, ScanInv
      <4> QED
        BY <1>6, <4>1, <4>3
    <3> QED
      BY <2>2, <3>1
  <2> QED
    BY <2>1, <2>2
<1>12. VerdictCorrect'
  BY <1>7 DEF SInv, VerdictCorrect
<1> QED
  BY <1>10, <1>11, <1>12 DEF SInv

-----------------------------------------------------------------------------

(* The stack from the node found again up to the top is a cycle.           *)
LEMMA CycleFound ==
  ASSUME SInv, stack # << >>, NEW o \in todo[Top],
         After[o] \notin exited, After[o] \notin remaining
  PROVE  ~Acyclic(orders)
<1> DEFINE k == Len(stack)
<1>1. /\ stack \in Seq(Node) /\ k \in Nat \ {0} /\ DOMAIN stack = 1..k
      /\ k \in 1..k /\ Top = stack[k]
  BY DEF SInv, ScanInv, Top
<1>2. o \in orders /\ Before[o] = Top /\ After[o] \in Node
  BY <1>1, OrderAssumption DEF SInv, ScanInv, DependentsOf
<1>3. PICK j \in 1..k : stack[j] = After[o]
  BY <1>1, <1>2 DEF SInv, ScanInv, OnStack
<1> DEFINE S == {stack[i] : i \in j..k}
<1>4. S \subseteq Node /\ S # {} /\ Top \in S
  BY <1>1
<1>5. ASSUME NEW n \in S
      PROVE  \E p \in DependenciesOf(orders, n) : Before[p] \in S
  <2>1. PICK i \in j..k : n = stack[i]
    OBVIOUS
  <2>2. CASE i = j
    BY <1>2, <1>3, <1>4, <2>1, <2>2 DEF DependenciesOf
  <2>3. CASE i # j
    <3>1. i - 1 \in 1..(k - 1) /\ i - 1 \in j..k /\ (i - 1) + 1 = i
      BY <1>1, <2>1, <2>3
    <3>2. Edges(orders, stack[i - 1], stack[(i - 1) + 1]) # {}
      BY Zenon, <3>1 DEF SInv, ScanInv
    <3>3. PICK p \in orders : Before[p] = stack[i - 1] /\ After[p] = stack[i]
      BY <3>1, <3>2 DEF Edges
    <3> QED
      BY <2>1, <3>1, <3>3 DEF DependenciesOf
  <2> QED
    BY <2>2, <2>3
<1>6. \E T \in SUBSET Node :
        T # {} /\ \A n \in T : \E p \in DependenciesOf(orders, n) : Before[p] \in T
  BY Zenon, <1>4, <1>5
<1> QED
  BY Zenon, <1>6 DEF Acyclic

(* One turn of the loop over the dependents of the node on top.            *)
LEMMA ScanDependentInv ==
  ASSUME SInv, NEW o \in Order, ScanDependent(o)
  PROVE  SInv'
<1> DEFINE k == Len(stack)
           rest == [todo EXCEPT ![Top] = @ \ {o}]
<1>1. /\ stack \in Seq(Node) /\ k \in Nat \ {0} /\ DOMAIN stack = 1..k
      /\ k \in 1..k /\ Top = stack[k] /\ Top \in Node /\ Top \in OnStack /\ stack # << >>
      /\ o \in todo[Top]
  <2>1. stack \in Seq(Node) /\ stack # << >> /\ o \in todo[Top]
    BY DEF SInv, ScanInv, ScanDependent
  <2>2. k \in Nat \ {0} /\ DOMAIN stack = 1..k /\ k \in 1..k
    BY <2>1
  <2> QED
    BY <2>1, <2>2 DEF Top, OnStack
<1>2. o \in DependentsOf(orders, Top) /\ Before[o] = Top /\ o \in orders
  BY <1>1 DEF SInv, ScanInv, DependentsOf
<1>3. /\ rest \in [Node -> SUBSET Order]
      /\ rest[Top] = todo[Top] \ {o}
      /\ \A m \in Node : m # Top => rest[m] = todo[m]
  BY <1>1 DEF SInv, ScanInv
<1>4. \A i \in 1..k : i # k => stack[i] # Top /\ stack[i] \in Node
  <2>1. \A i \in 1..k : stack[i] \in Node
    BY <1>1
  <2>2. \A i, j \in DOMAIN stack : stack[i] = stack[j] => i = j
    BY DEF SInv, ScanInv
  <2> QED
    BY <1>1, <2>1, <2>2, Zenon
<1>5. ASSUME NEW i \in DOMAIN stack
      PROVE  /\ rest[stack[i]] \subseteq DependentsOf(orders, stack[i])
             /\ \A p \in DependentsOf(orders, stack[i]) \ rest[stack[i]] :
                  \/ After[p] \in exited
                  \/ i < k /\ After[p] = stack[i + 1]
                  \/ i = k /\ p = o
  <2>1. /\ todo[stack[i]] \subseteq DependentsOf(orders, stack[i])
        /\ \A p \in DependentsOf(orders, stack[i]) \ todo[stack[i]] :
             After[p] \in exited \/ (i < k /\ After[p] = stack[i + 1])
    BY DEF SInv, ScanInv
  <2>2. CASE i = k
    BY SMTT(30), <1>1, <1>3, <2>1, <2>2
  <2>3. CASE i # k
    BY Zenon, <1>1, <1>3, <1>4, <2>1, <2>3
  <2> QED
    BY <2>2, <2>3
<1>6. CASE ScanExited(o, rest)
  <2>1. /\ After[o] \in exited /\ todo' = rest /\ orders' = orders /\ remaining' = remaining
        /\ exited' = exited /\ stack' = stack /\ result' = result
    BY <1>6 DEF ScanExited
  <2>2. OnStack' = OnStack
    BY <2>1 DEF OnStack
  <2>3. \A i \in DOMAIN stack' :
          /\ todo'[stack'[i]] \subseteq DependentsOf(orders', stack'[i])
          /\ \A p \in DependentsOf(orders', stack'[i]) \ todo'[stack'[i]] :
               After[p] \in exited' \/ (i < Len(stack') /\ After[p] = stack'[i + 1])
    BY <1>5, <2>1
  <2>4. ScanInv'
    BY Zenon, <1>3, <2>1, <2>2, <2>3 DEF SInv, ScanInv
  <2> QED
    BY Zenon, <2>1, <2>4 DEF SInv, ExitedAcyclic, VerdictCorrect
<1>7. CASE ScanCyclic(o)
  <2>1. /\ result' = "cyclic" /\ orders' = orders /\ remaining' = remaining /\ todo' = todo
        /\ exited' = exited /\ stack' = stack /\ After[o] \notin exited /\ After[o] \notin remaining
    BY <1>7 DEF ScanCyclic
  <2>2. ~Acyclic(orders)
    BY <1>1, <2>1, CycleFound
  <2>3. OnStack' = OnStack
    BY <2>1 DEF OnStack
  <2>4. ScanInv'
    BY Zenon, <2>1, <2>3 DEF SInv, ScanInv
  <2> QED
    BY Zenon, <2>1, <2>2, <2>4 DEF SInv, ExitedAcyclic, VerdictCorrect
<1>8. CASE After[o] \notin exited /\ After[o] \in remaining /\ Enter(After[o], rest)
  <2>1. Edges(orders, Top, After[o]) # {}
    BY <1>2 DEF Edges
  <2>2. \A m \in Node : m \notin OnStack => rest[m] = todo[m]
    BY <1>1, <1>3
  <2>3. \A i \in DOMAIN stack :
          /\ rest[stack[i]] \subseteq DependentsOf(orders, stack[i])
          /\ \A p \in DependentsOf(orders, stack[i]) \ rest[stack[i]] :
               \/ After[p] \in exited
               \/ i < Len(stack) /\ After[p] = stack[i + 1]
               \/ i = Len(stack) /\ After[p] = After[o]
    BY <1>5
  <2> HIDE DEF rest
  <2> QED
    BY <1>3, <1>8, <2>1, <2>2, <2>3, EnterInv
<1> QED
  BY <1>6, <1>7, <1>8 DEF ScanDependent

-----------------------------------------------------------------------------

(* The search starts with an empty stack.                                  *)
THEOREM SInvInit == ScanInit => SInv
<1> SUFFICES ASSUME ScanInit PROVE SInv
  OBVIOUS
<1>1. stack = << >> /\ Len(stack) = 0 /\ DOMAIN stack = {} /\ OnStack = {}
  BY DEF ScanInit, ScanStart, OnStack
<1>2. ScanInv
  BY <1>1 DEF ScanInit, ScanStart, ScanInv
<1>3. ExitedAcyclic /\ VerdictCorrect
  BY DEF ScanInit, ScanStart, ExitedAcyclic, VerdictCorrect
<1> QED
  BY <1>2, <1>3 DEF SInv

(* Every step of the search keeps it.                                      *)
THEOREM SInvNext == SInv /\ [ScanNext]_scanvars => SInv'
<1> SUFFICES ASSUME SInv, [ScanNext]_scanvars PROVE SInv'
  OBVIOUS
<1>1. ASSUME NEW n \in Node, ScanRoot(n)
      PROVE  SInv'
  <2>1. stack = << >> /\ DOMAIN stack = {} /\ n \in remaining /\ Enter(n, todo)
    BY <1>1 DEF ScanRoot
  <2>2. todo \in [Node -> SUBSET Order]
    BY DEF SInv, ScanInv
  <2> QED
    BY <2>1, <2>2, EnterInv
<1>2. ASSUME NEW o \in Order, ScanDependent(o)
      PROVE  SInv'
  BY <1>2, ScanDependentInv
<1>3. CASE ScanReturn
  BY <1>3, ScanReturnInv
<1>4. CASE ScanEnd
  <2>1. /\ result' = "acyclic" /\ orders' = orders /\ remaining' = remaining /\ todo' = todo
        /\ exited' = exited /\ stack' = stack /\ remaining = {} /\ stack = << >>
    BY <1>4 DEF ScanEnd
  <2>2. OnStack = {} /\ OnStack' = {}
    BY <2>1 DEF OnStack
  <2>3. exited = Node
    BY <2>1, <2>2 DEF SInv, ScanInv
  <2>4. Acyclic(orders)
    BY <2>3 DEF SInv, ExitedAcyclic, Acyclic
  <2>5. ScanInv'
    BY <2>1, <2>2 DEF SInv, ScanInv
  <2> QED
    BY Zenon, <2>1, <2>4, <2>5 DEF SInv, ExitedAcyclic, VerdictCorrect
<1>5. CASE UNCHANGED scanvars
  <2>1. /\ result' = result /\ orders' = orders /\ remaining' = remaining /\ todo' = todo
        /\ exited' = exited /\ stack' = stack
    BY <1>5 DEF scanvars, scan
  <2>2. OnStack' = OnStack
    BY <2>1 DEF OnStack
  <2>3. ScanInv'
    BY SMTT(30), <2>1, <2>2 DEF SInv, ScanInv
  <2> QED
    BY <2>1, <2>3 DEF SInv, ExitedAcyclic, VerdictCorrect
<1> QED
  BY <1>1, <1>2, <1>3, <1>4, <1>5 DEF ScanNext

(* scan_cycles panics on the cyclic sets of orders and on no others.       *)
THEOREM VerdictCorrectAlways == ScanSpec => []VerdictCorrect
<1>1. SInv => VerdictCorrect
  BY DEF SInv
<1> QED
  BY <1>1, SInvInit, SInvNext, PTL DEF ScanSpec

=============================================================================
