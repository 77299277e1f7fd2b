------------------------------ MODULE ScanCycles ------------------------------
(***************************************************************************)
(* The search for cyclic dependencies when a world is built: scan_cycles   *)
(* and scan_cycles_from (src/scheduler/topology.rs), with the recursion    *)
(* as an explicit stack.  The dependents of a node are looked at in any    *)
(* order.  Builder uses the outcome, Cyclic(orders).                       *)
(***************************************************************************)
EXTENDS Topology, Sequences

VARIABLES
  remaining,   \* nodes not entered yet
  exited,      \* nodes whose call has returned
  stack,       \* nodes whose call is running, outermost first
  todo,        \* todo[n]: the orders the loop in n's call has not looked at
  result       \* "scanning", "acyclic", "cyclic", or "exited_twice"

scan == <<remaining, exited, stack, todo, result>>
scanvars == <<orders, exclusions, scan>>

(* What scan_cycles starts from.                                           *)
ScanStart ==
  /\ remaining = Node
  /\ exited = {}
  /\ stack = << >>
  /\ todo = [n \in Node |-> {}]
  /\ result = "scanning"

ScanInit == orders \in SUBSET Order /\ exclusions = [n \in Node |-> {}] /\ ScanStart

Top == stack[Len(stack)]

-----------------------------------------------------------------------------

(* A node that is neither exited nor on the stack: remaining.remove        *)
(* succeeds, stack.push, and the loop over its dependents begins.          *)
Enter(n, rest) ==
  /\ remaining' = remaining \ {n}
  /\ stack' = Append(stack, n)
  /\ todo' = [rest EXCEPT ![n] = DependentsOf(orders, n)]
  /\ UNCHANGED <<orders, exclusions, exited, result>>

(* The loop of scan_cycles takes the first remaining node.                 *)
ScanRoot(n) ==
  /\ result = "scanning" /\ stack = << >>
  /\ n \in remaining /\ \A m \in remaining : n <= m
  /\ Enter(n, todo)

(* Mutant: the loop does not move on from a node already scanned.          *)
MutScanExitedStuck(o, rest) ==
  /\ After[o] \in exited
  /\ UNCHANGED scanvars

(* Already scanned.                                                        *)
ScanExited(o, rest) ==
  /\ After[o] \in exited
  /\ todo' = rest
  /\ UNCHANGED <<orders, exclusions, remaining, exited, stack, result>>

(* Mutant: the check of exited does not come first.                        *)
MutScanCyclic(o) ==
  /\ After[o] \notin remaining
  /\ result' = "cyclic"
  /\ UNCHANGED <<orders, exclusions, remaining, exited, stack, todo>>

(* Neither exited nor remaining: on the stack.  The panic of scan_cycles.  *)
ScanCyclic(o) ==
  /\ After[o] \notin exited /\ After[o] \notin remaining
  /\ result' = "cyclic"
  /\ UNCHANGED <<orders, exclusions, remaining, exited, stack, todo>>

ScanDependent(o) ==
  /\ result = "scanning" /\ stack # << >> /\ o \in todo[Top]
  /\ LET rest == [todo EXCEPT ![Top] = @ \ {o}]
     IN  \/ ScanExited(o, rest)
         \/ ScanCyclic(o)
         \/ After[o] \notin exited /\ After[o] \in remaining /\ Enter(After[o], rest)

(* The call returns: stack.pop, exited.insert and its assertion.           *)
ScanReturn ==
  /\ result = "scanning" /\ stack # << >> /\ todo[Top] = {}
  /\ stack' = SubSeq(stack, 1, Len(stack) - 1)
  /\ exited' = exited \cup {Top}
  /\ result' = IF Top \in exited THEN "exited_twice" ELSE result
  /\ UNCHANGED <<orders, exclusions, remaining, todo>>

ScanEnd ==
  /\ result = "scanning" /\ stack = << >> /\ remaining = {}
  /\ result' = "acyclic"
  /\ UNCHANGED <<orders, exclusions, remaining, exited, stack, todo>>

ScanNext ==
  \/ \E n \in Node : ScanRoot(n)
  \/ \E o \in Order : ScanDependent(o)
  \/ ScanReturn
  \/ ScanEnd

ScanSpec == ScanInit /\ [][ScanNext]_scanvars /\ WF_scanvars(ScanNext)

-----------------------------------------------------------------------------

OnStack == {stack[i] : i \in DOMAIN stack}

(* The bookkeeping of the search: every node is remaining, on the stack    *)
(* once, or exited; the stack is a path; a running call has looked at its  *)
(* finished dependents and is looking at the next node of the stack;       *)
(* whatever depends on an exited node has exited.                          *)
ScanInv ==
  /\ orders \subseteq Order
  /\ stack \in Seq(Node) /\ todo \in [Node -> SUBSET Order]
  /\ result \in {"scanning", "acyclic", "cyclic", "exited_twice"}
  /\ remaining \subseteq Node /\ exited \subseteq Node
  /\ remaining \cap exited = {} /\ remaining \cap OnStack = {} /\ exited \cap OnStack = {}
  /\ Node = remaining \cup exited \cup OnStack
  /\ \A i, j \in DOMAIN stack : stack[i] = stack[j] => i = j
  /\ \A i \in 1..(Len(stack) - 1) : Edges(orders, stack[i], stack[i + 1]) # {}
  /\ \A i \in DOMAIN stack :
       /\ todo[stack[i]] \subseteq DependentsOf(orders, stack[i])
       /\ \A o \in DependentsOf(orders, stack[i]) \ todo[stack[i]] :
            After[o] \in exited \/ (i < Len(stack) /\ After[o] = stack[i + 1])
  /\ \A n \in exited : \A o \in DependentsOf(orders, n) : After[o] \in exited

(* The verdict is right: a panic comes with a cycle, and what is let       *)
(* through has none.  "exited is inserted recursively but no cycles were   *)
(* detected" never fires.                                                  *)
VerdictCorrect ==
  /\ result = "cyclic" => ~Acyclic(orders)
  /\ result = "acyclic" => Acyclic(orders)
  /\ result # "exited_twice"

(* The search comes to a verdict on every set of orders, cyclic or not.    *)
ScanTerminates == <>(result # "scanning")

=============================================================================
