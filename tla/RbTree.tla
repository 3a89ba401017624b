------------------------------- MODULE RbTree -------------------------------
(***************************************************************************)
(* The red-black tree in which picoTCP keeps its sockets, links, routes,   *)
(* cookies and timers (pico_tree.c).                                       *)
(*                                                                         *)
(* A node is named by its key: a deletion moves nodes, never keys.  LEAF   *)
(* is one node for all trees, with a colour that the code can change.  The *)
(* tree is a record of pointers, and every function of the code one on it. *)
(***************************************************************************)
EXTENDS Integers, FiniteSets, Sequences

CONSTANT Keys            \* the keys are 1..Keys

VARIABLES tree, members  \* the tree; history: the keys that should be in it

vars == <<tree, members>>

LEAF == 0
Nodes == 0..Keys
Trees == [root : Nodes, parent : [Nodes -> Nodes], left : [Nodes -> Nodes],
          right : [Nodes -> Nodes], color : [Nodes -> {"BLACK", "RED"}]]
Init == /\ tree = [root |-> LEAF, parent |-> [n \in Nodes |-> LEAF],
                   left |-> [n \in Nodes |-> LEAF], right |-> [n \in Nodes |-> LEAF],
                   color |-> [n \in Nodes |-> "BLACK"]]
        /\ members = {}

Granpa(t, n) == t.parent[t.parent[n]]
AmILeft(t, n) == n = t.left[t.parent[n]]
AmIRight(t, n) == n = t.right[t.parent[n]]
Paint(t, n, c) == [t EXCEPT !.color[n] = c]
\* The parent of LEAF is left alone.
Adopt(t, n, p) == IF n = LEAF THEN t ELSE [t EXCEPT !.parent[n] = p]
\* The place of a node under its parent, or at the root.
Replace(t, n, m) == IF t.parent[n] = LEAF THEN [t EXCEPT !.root = m]
                    ELSE IF AmILeft(t, n) THEN [t EXCEPT !.left[t.parent[n]] = m]
                    ELSE [t EXCEPT !.right[t.parent[n]] = m]

RotateToLeft(t, n) ==
  LET m == t.right[n]
      u == Adopt([t EXCEPT !.right[n] = t.left[m]], t.left[m], n)
      v == [Replace(u, n, m) EXCEPT !.parent[m] = t.parent[n]]
  IN IF m = LEAF THEN t ELSE [v EXCEPT !.left[m] = n, !.parent[n] = m]
\* (mutant: the child that changes sides keeps its parent)
RotateToRight_Orphan(t, n) ==
  LET m == t.left[n]
      u == [t EXCEPT !.left[n] = t.right[m]]
      v == [Replace(u, n, m) EXCEPT !.parent[m] = t.parent[n]]
  IN IF m = LEAF THEN u ELSE [v EXCEPT !.right[m] = n, !.parent[n] = m]
RotateToRight(t, n) ==
  LET m == t.left[n]
      u == Adopt([t EXCEPT !.left[n] = t.right[m]], t.right[m], n)
      v == [Replace(u, n, m) EXCEPT !.parent[m] = t.parent[n]]
  IN IF m = LEAF THEN [t EXCEPT !.left[n] = t.right[m]]
     ELSE [v EXCEPT !.right[m] = n, !.parent[n] = m]

\* The left and the right half of the two functions below are mirror images.
Uncle(t, n) == IF AmIRight(t, t.parent[n]) THEN t.left[Granpa(t, n)] ELSE t.right[Granpa(t, n)]
Brother(t, n, side) == IF side = "left" THEN t.right[t.parent[n]] ELSE t.left[t.parent[n]]
Near(t, n, side) == IF side = "left" THEN t.left[n] ELSE t.right[n]
Far(t, n, side) == IF side = "left" THEN t.right[n] ELSE t.left[n]
Towards(t, n, side) == IF side = "left" THEN RotateToLeft(t, n) ELSE RotateToRight(t, n)
Away(t, n, side) == IF side = "left" THEN RotateToRight(t, n) ELSE RotateToLeft(t, n)

-----------------------------------------------------------------------------
Recolour(t, n) ==
  Paint(Paint(Paint(t, t.parent[n], "BLACK"), Uncle(t, n), "BLACK"), Granpa(t, n), "RED")
\* A black uncle: one or two rotations.
TurnInsert(t, n) ==
  LET side == IF AmIRight(t, t.parent[n]) THEN "left" ELSE "right"
      inner == n = Near(t, t.parent[n], side)
      m == IF inner THEN t.parent[n] ELSE n
      u == IF inner THEN Away(t, m, side) ELSE t
      v == Paint(Paint(u, u.parent[m], "BLACK"), Granpa(u, m), "RED")
  IN <<Towards(v, Granpa(v, m), side), m>>
\* The argument is a tree and a node.
FixInsertCollisions[p \in Trees \X Nodes] ==
  LET t == p[1]
      n == p[2]
  IN IF t.color[t.parent[n]] # "RED" \/ Granpa(t, n) = LEAF THEN Paint(t, t.root, "BLACK")
     ELSE FixInsertCollisions[IF t.color[Uncle(t, n)] = "RED" THEN <<Recolour(t, n), Granpa(t, n)>>
                              ELSE TurnInsert(t, n)]

\* The node below which a new key goes.
Place(t, key) ==
  LET down[n \in Nodes] == LET m == IF key < n THEN t.left[n] ELSE t.right[n]
                           IN IF m = LEAF THEN n ELSE down[m]
  IN down[t.root]
InsertNode(t, key) ==
  LET new == [t EXCEPT !.left[key] = LEAF, !.right[key] = LEAF, !.color[key] = "RED"]
      last == Place(t, key)
      u == IF t.root = LEAF THEN [new EXCEPT !.root = key, !.parent[key] = LEAF]
           ELSE IF key < last THEN [new EXCEPT !.parent[key] = last, !.left[last] = key]
           ELSE [new EXCEPT !.parent[key] = last, !.right[last] = key]
  IN FixInsertCollisions[<<u, key>>]

-----------------------------------------------------------------------------
\* A red brother goes above the parent, and leaves a black one.
TurnBrother(t, n, side) ==
  IF t.color[Brother(t, n, side)] = "RED"
  THEN Towards(Paint(Paint(t, Brother(t, n, side), "BLACK"), t.parent[n], "RED"), t.parent[n], side)
  ELSE t
BlackNephews(t, b) == t.color[t.left[b]] = "BLACK" /\ t.color[t.right[b]] = "BLACK"
\* A black brother b with a red child: one or two rotations.
TurnDelete(t, n, side) ==
  LET b == Brother(t, n, side)
      bent == t.color[Far(t, b, side)] = "BLACK"
      v == IF bent THEN Away(Paint(Paint(t, Near(t, b, side), "BLACK"), b, "RED"), b, side) ELSE t
      brother == IF bent THEN Far(v, v.parent[b], side) ELSE b
      w == Paint(Paint(Paint(v, brother, v.color[v.parent[n]]), v.parent[n], "BLACK"),
                 Far(v, brother, side), "BLACK")
      x == Towards(w, w.parent[n], side)
  IN Paint(x, x.root, "BLACK")
FixDeleteCollisions[p \in Trees \X Nodes] ==
  LET t == p[1]
      n == p[2]
      side == IF AmILeft(t, n) THEN "left" ELSE "right"
      u == TurnBrother(t, n, side)
      b == Brother(u, n, side)
  IN IF n = t.root \/ t.color[n] # "BLACK" \/ n = LEAF THEN Paint(t, n, "BLACK")
     ELSE IF BlackNephews(u, b) THEN FixDeleteCollisions[<<Paint(u, b, "RED"), u.parent[n]>>]
     ELSE TurnDelete(u, n, side)

SwitchNodes(t, a, b) ==
  LET u == Replace(t, a, b)
      v == IF t.parent[a] # LEAF /\ a = LEAF THEN t ELSE u
  IN Adopt(v, b, t.parent[a])

FirstNode(t, n) ==
  LET first[m \in Nodes] == IF t.left[m] = LEAF THEN m ELSE first[t.left[m]] IN first[n]
LastNode(t, n) ==
  LET last[m \in Nodes] == IF t.right[m] = LEAF THEN m ELSE last[t.right[m]] IN last[n]

\* pico_tree_delete_node: the smallest node on the right takes the place.
\* (mutant: the right side is not handed over)
Promote_Drop(t, d, min) ==
  IF t.parent[min] = d /\ t.right[min] # LEAF THEN Adopt(t, t.right[min], min)
  ELSE SwitchNodes(t, min, t.right[min])
Promote(t, d, min) ==
  IF t.parent[min] = d /\ t.right[min] # LEAF THEN Adopt(t, t.right[min], min)
  ELSE LET u == SwitchNodes(t, min, t.right[min])
       IN Adopt([u EXCEPT !.right[min] = u.right[d]], u.right[d], min)
DeleteNode(t, d) ==
  LET min == FirstNode(t, t.right[d])
      u == SwitchNodes(Promote(t, d, min), d, min)
      v == Adopt([u EXCEPT !.left[min] = u.left[d]], u.left[d], min)
  IN [t |-> Paint(v, min, t.color[d]), temp |-> t.right[min], color |-> t.color[min]]

\* pico_tree_delete_check_switch
DeleteCheckSwitch(t, d) ==
  IF t.left[d] = LEAF
  THEN [t |-> SwitchNodes(t, d, t.right[d]), temp |-> t.right[d], color |-> t.color[d]]
  ELSE IF t.right[d] = LEAF
  THEN [t |-> SwitchNodes(t, d, t.left[d]), temp |-> t.left[d], color |-> t.color[d]]
  ELSE DeleteNode(t, d)
DeleteKey(t, d) ==
  LET s == DeleteCheckSwitch(t, d)
      u == IF s.color = "BLACK" THEN FixDeleteCollisions[<<s.t, s.temp>>] ELSE s.t
  IN [u EXCEPT !.parent[d] = LEAF, !.left[d] = LEAF, !.right[d] = LEAF, !.color[d] = "BLACK"]

Climb(t, n, right) ==
  LET up[m \in Nodes] ==
        IF m # LEAF /\ t.parent[m] # LEAF /\ (IF right THEN AmIRight(t, m) ELSE AmILeft(t, m))
        THEN up[t.parent[m]] ELSE t.parent[m]
  IN up[n]
NextNode(t, n) == IF t.right[n] # LEAF THEN FirstNode(t, t.right[n]) ELSE Climb(t, n, TRUE)
PrevNode(t, n) == IF t.left[n] # LEAF THEN LastNode(t, t.left[n]) ELSE Climb(t, n, FALSE)
FindNode(t, key) ==
  LET find[n \in Nodes] == IF n = LEAF \/ n = key THEN n
                           ELSE find[IF n < key THEN t.right[n] ELSE t.left[n]]
  IN find[t.root]

-----------------------------------------------------------------------------
\* A key that is found is not inserted again.
Insert(key) ==
  /\ FindNode(tree, key) = LEAF
  /\ tree' = InsertNode(tree, key)
  /\ members' = members \cup {key}
Delete(key) ==
  /\ FindNode(tree, key) = key
  /\ tree' = DeleteKey(tree, key)
  /\ members' = members \ {key}

Next == \E key \in 1..Keys : Insert(key) \/ Delete(key)
Spec == Init /\ [][Next]_vars

-----------------------------------------------------------------------------
(* Properties.                                                             *)

\* What was inserted and not deleted is found, and nothing else.
MembersAreFound == {key \in 1..Keys : FindNode(tree, key) = key} = members

\* pico_tree_foreach and pico_tree_foreach_reverse come to every member once,
\* in order: the parents that they climb to are right after every rotation.
After(n) == {m \in members : m > n}
Before(n) == {m \in members : m < n}
WalkIsSorted ==
  /\ members # {} => /\ Before(FirstNode(tree, tree.root)) = {}
                     /\ After(LastNode(tree, tree.root)) = {}
  /\ \A n \in members :
       /\ LET m == NextNode(tree, n)
          IN IF m = LEAF THEN After(n) = {} ELSE m \in After(n) /\ Before(m) \cap After(n) = {}
       /\ LET m == PrevNode(tree, n)
          IN IF m = LEAF THEN Before(n) = {} ELSE m \in Before(n) /\ After(m) \cap Before(n) = {}

\* If a node is red its children are black.
\* (The code breaks it: see the README.)
RedHasBlackChildren == \A n \in members : tree.color[n] = "RED" =>
  tree.color[tree.left[n]] = "BLACK" /\ tree.color[tree.right[n]] = "BLACK"

BlackPaths ==
  LET paths[n \in Nodes] ==
        IF n = LEAF THEN {0}
        ELSE {IF tree.color[n] = "BLACK" THEN p + 1 ELSE p :
                p \in paths[tree.left[n]] \cup paths[tree.right[n]]}
  IN paths[tree.root]
\* Every path from the root has the same number of black nodes.
\* (The code breaks it: see the README.)
BlackPathIsConstant == Cardinality(BlackPaths) = 1

\* LEAF, which all the trees share, is black.
\* (The code breaks it: see the README.)
LeafIsBlack == tree.color[LEAF] = "BLACK"
=============================================================================
