----------------------------- MODULE TaskWeights -----------------------------
(***************************************************************************)
(* The weight system calls of hw2 (kernel/hw2.c) over a changing process  *)
(* tree.  Every task carries a weight; set_weight and get_weight act on   *)
(* current; get_leaf_children_sum walks current's children list           *)
(* recursively and sums the weights of the leaves it reaches;             *)
(* get_heaviest_ancestor follows real_parent from current up to init and  *)
(* returns the pid of the heaviest task on the way.                        *)
(*                                                                         *)
(* The tree changes under the calls: tasks fork, exit (their children are *)
(* handed to init, and they stay on their parent's children list as       *)
(* zombies), and are reaped by wait.  Those steps are the kernel's, not   *)
(* this repository's: a forked child copies its parent's task_struct,     *)
(* weight included.  Each system call is one step: it neither sleeps nor  *)
(* takes a lock, and on a kernel without preemption nothing runs in the   *)
(* middle of it.                                                           *)
(***************************************************************************)
EXTENDS Integers, FiniteSets, Functions

CONSTANTS
  Pids,      \* the pids a behaviour may use; pid 1 is init
  Weights    \* the arguments processes pass to set_weight

ASSUME 1 \in Pids /\ 0 \notin Pids

INIT == 1
NoPid == 0
EINVAL == 22
ECHILD == 10

Gr == INSTANCE Graphs

VARIABLES
  state,    \* pid -> "unused", "alive", "zombie" or "reaped"
  parent,   \* pid -> real_parent's pid (NoPid for init and unused pids)
  weight,   \* pid -> task_struct's weight
  last      \* the last system call: [pid, call, ret], or NoCall

vars == <<state, parent, weight, last>>

NoCall == [pid |-> NoPid, call |-> "none", ret |-> 0]

(* A task is on its parent's children list until it is reaped. *)
Listed == {"alive", "zombie"}
Children(p) == {c \in Pids : state[c] \in Listed /\ parent[c] = p}

-----------------------------------------------------------------------------
(***************************************************************************)
(* The system calls.  p is current.                                        *)
(***************************************************************************)
(* Mutant: set_weight does not reject a negative weight. *)
SetWeightNoCheck(p, w) ==
  /\ state[p] = "alive"
  /\ weight' = [weight EXCEPT ![p] = w]
  /\ last' = [pid |-> p, call |-> "set_weight", ret |-> 0]
  /\ UNCHANGED <<state, parent>>

(* sys_set_weight *)
SetWeight(p, w) ==
  /\ state[p] = "alive"
  /\ IF w < 0
     THEN last' = [pid |-> p, call |-> "set_weight", ret |-> -EINVAL] /\ UNCHANGED weight
     ELSE /\ weight' = [weight EXCEPT ![p] = w]
          /\ last' = [pid |-> p, call |-> "set_weight", ret |-> 0]
  /\ UNCHANGED <<state, parent>>

(* sys_get_weight *)
GetWeight(p) ==
  /\ state[p] = "alive"
  /\ last' = [pid |-> p, call |-> "get_weight", ret |-> weight[p]]
  /\ UNCHANGED <<state, parent, weight>>

(* get_child_leaf_sum: a task with an empty children list adds its weight *)
(* to *sum; any other task recurses into each child in list order.        *)
(* ForEachChild is the list_for_each loop.                                 *)
RECURSIVE GetChildLeafSum(_, _), ForEachChild(_, _)
(* Mutant: a leaf overwrites the sum instead of adding to it. *)
GetChildLeafSumAssign(root, sum) ==
  IF Children(root) = {} THEN weight[root] ELSE ForEachChild(Children(root), sum)
GetChildLeafSum(root, sum) ==
  IF Children(root) = {} THEN sum + weight[root] ELSE ForEachChild(Children(root), sum)
ForEachChild(S, sum) ==
  IF S = {} THEN sum
  ELSE LET c == CHOOSE c \in S : TRUE
       IN ForEachChild(S \ {c}, GetChildLeafSum(c, sum))

(* sys_get_leaf_children_sum *)
GetLeafChildrenSum(p) ==
  /\ state[p] = "alive"
  /\ last' = [pid |-> p, call |-> "leaf_sum",
              ret |-> IF Children(p) = {} THEN -ECHILD ELSE GetChildLeafSum(p, 0)]
  /\ UNCHANGED <<state, parent, weight>>

(* heaviest_ancestor_weight: from current up the real_parent chain until  *)
(* pid 1, keep the first task whose weight beats the best so far.         *)
RECURSIVE HeaviestAncestorWeight(_, _, _)
(* Mutant: a later task of equal weight replaces the best. *)
HeaviestAncestorWeightGe(t, maxPid, maxWeight) ==
  IF t = INIT THEN maxPid
  ELSE IF weight[t] >= maxWeight THEN HeaviestAncestorWeight(parent[t], t, weight[t])
       ELSE HeaviestAncestorWeight(parent[t], maxPid, maxWeight)
HeaviestAncestorWeight(t, maxPid, maxWeight) ==
  IF t = INIT THEN maxPid
  ELSE IF weight[t] > maxWeight THEN HeaviestAncestorWeight(parent[t], t, weight[t])
       ELSE HeaviestAncestorWeight(parent[t], maxPid, maxWeight)

(* sys_get_heaviest_ancestor *)
GetHeaviestAncestor(p) ==
  /\ state[p] = "alive"
  /\ last' = [pid |-> p, call |-> "heaviest", ret |-> HeaviestAncestorWeight(p, INIT, -1)]
  /\ UNCHANGED <<state, parent, weight>>

-----------------------------------------------------------------------------
(***************************************************************************)
(* The kernel's steps that reshape the tree.                               *)
(***************************************************************************)
(* fork: the child copies the parent's task_struct, weight included. *)
Fork(p, c) ==
  /\ state[p] = "alive" /\ state[c] = "unused"
  /\ state' = [state EXCEPT ![c] = "alive"]
  /\ parent' = [parent EXCEPT ![c] = p]
  /\ weight' = [weight EXCEPT ![c] = weight[p]]
  /\ last' = NoCall

(* exit: the task becomes a zombie on its parent's list, and its children *)
(* are handed to init.                                                     *)
Exit(p) ==
  /\ p # INIT /\ state[p] = "alive"
  /\ state' = [state EXCEPT ![p] = "zombie"]
  /\ parent' = [c \in Pids |-> IF c \in Children(p) THEN INIT ELSE parent[c]]
  /\ last' = NoCall
  /\ UNCHANGED weight

(* wait: the parent reaps a zombie child, which leaves the list. *)
Wait(p, c) ==
  /\ state[p] = "alive" /\ c \in Children(p) /\ state[c] = "zombie"
  /\ state' = [state EXCEPT ![c] = "reaped"]
  /\ last' = NoCall
  /\ UNCHANGED <<parent, weight>>

(* Boot: init alone, with the zeroed weight of the initial task. *)
Init ==
  /\ state = [p \in Pids |-> IF p = INIT THEN "alive" ELSE "unused"]
  /\ parent = [p \in Pids |-> NoPid]
  /\ weight = [p \in Pids |-> 0]
  /\ last = NoCall

Next ==
  \/ \E p \in Pids, w \in Weights : SetWeight(p, w)
  \/ \E p \in Pids : GetWeight(p) \/ GetLeafChildrenSum(p) \/ GetHeaviestAncestor(p)
  \/ \E p, c \in Pids : Fork(p, c) \/ Wait(p, c)
  \/ \E p \in Pids : Exit(p)

Spec == Init /\ [][Next]_vars

-----------------------------------------------------------------------------
(***************************************************************************)
(* Properties.  The references are stated over the tree as a graph, with  *)
(* Graphs' transitive closure instead of a walk.                           *)
(***************************************************************************)
Tree == [node |-> Pids, edge |-> {<<parent[c], c>> : c \in {d \in Pids : state[d] \in Listed /\ parent[d] # NoPid}}]

TypeOK ==
  /\ state \in [Pids -> {"unused", "alive", "zombie", "reaped"}]
  /\ parent \in [Pids -> Pids \cup {NoPid}]
  /\ weight \in [Pids -> Nat]
  /\ last \in [pid : Pids \cup {NoPid}, call : {"none", "set_weight", "get_weight", "leaf_sum", "heaviest"},
               ret : Int]

(* get_leaf_children_sum returns -ECHILD exactly when current has no      *)
(* children, and otherwise the sum of the weights of every task below     *)
(* current that has no children of its own, zombies included, whatever    *)
(* forks, exits and the reparenting to init made of the tree.             *)
LeafSumIsReference ==
  last.call = "leaf_sum" =>
    LET below == Gr!Descendants(Tree, last.pid)
        leaves == {d \in below : Children(d) = {}}
    IN last.ret = IF below = {} THEN -ECHILD ELSE FoldFunctionOnSet(+, 0, weight, leaves)

(* get_heaviest_ancestor returns, among current and its ancestors below   *)
(* init, the pid of greatest weight, the one nearest to current on a tie, *)
(* and init itself only when called by init.                               *)
HeaviestIsReference ==
  last.call = "heaviest" =>
    LET chain == ({last.pid} \cup Gr!Ancestors(Tree, last.pid)) \ {INIT}
        top == {h \in chain : \A a \in chain : weight[a] <= weight[h]}
    IN IF chain = {} THEN last.ret = INIT
       ELSE /\ last.ret \in top
            /\ \A h \in top \ {last.ret} : h \in Gr!Ancestors(Tree, last.ret)

=============================================================================
