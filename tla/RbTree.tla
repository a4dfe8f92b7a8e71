------------------------------- MODULE RbTree -------------------------------
(***************************************************************************)
(* The red-black trees of src/src/common/rbtree.c, as operators on a tree  *)
(* value: the root, the two child links, the parent and the colour of      *)
(* every node.  A node is a positive number, its address, and Null is 0.   *)
(* The code writes every rebalancing case twice, once for each side; here  *)
(* the side is a parameter.  The comparison is that of both users.         *)
(***************************************************************************)
EXTENDS Integers, Sequences, FiniteSetsExt

Null == 0

Side == {"rb_left", "rb_right"}
Other(s) == IF s = "rb_left" THEN "rb_right" ELSE "rb_left"

\* Op(x), with x evaluated once.
Once(x, Op(_)) == CHOOSE y \in {Op(v) : v \in {x}} : TRUE

EmptyTree(Nodes) ==
    [root |-> Null, child |-> [s \in Side |-> [n \in Nodes |-> Null]],
     parent |-> [n \in Nodes |-> Null], black |-> [n \in Nodes |-> FALSE]]

\* __sched_cmp and __timer_cmp: by key, then by address.
Before(key, n, m) ==
    \/ key[n] < key[m]
    \/ key[n] = key[m] /\ n < m

Link(t, s, n, m) == [t EXCEPT !.child[s][n] = m]

SetParent(t, n, p) ==
    IF n = Null THEN t ELSE [t EXCEPT !.parent[n] = p]

\* rb_set_parent_color, guarded by `if (tmp)` where n may be NULL.
SetParentColor(t, n, p, black) ==
    IF n = Null THEN t
    ELSE [t EXCEPT !.parent[n] = p, !.black[n] = black]

ChangeChild(t, old, new, parent) ==
    IF parent = Null THEN [t EXCEPT !.root = new]
    ELSE Link(t, IF t.child["rb_left"][parent] = old THEN "rb_left"
                 ELSE "rb_right", parent, new)

RotateSetParents(tree, old, new, black) ==
    Once(tree, LAMBDA t :
        LET parent == t.parent[old]
            moved == SetParentColor(t, new, parent, t.black[old])
        IN  ChangeChild(SetParentColor(moved, old, new, black), old, new,
                        parent))

IsRed(t, n) == n # Null /\ ~t.black[n]

(***************************************************************************)
(* __rb_insert_fix.  The first rotation leaves gparent pointing at the old *)
(* parent; the second one repairs it.                                      *)
(***************************************************************************)
RotateIn(t, node, parent, s) ==
    LET o == Other(s)
        inner == t.child[s][node]
        moved == SetParentColor(Link(t, o, parent, inner), inner, parent, TRUE)
    IN  SetParentColor(Link(moved, s, node, parent), parent, node, FALSE)

RotateUp(tree, parent, gparent, s) ==
    Once(tree, LAMBDA t :
        LET o == Other(s)
            tmp == t.child[o][parent]
            moved == SetParentColor(Link(t, s, gparent, tmp), tmp, gparent,
                                    TRUE)
        IN  RotateSetParents(Link(moved, o, parent, gparent), gparent, parent,
                             FALSE))

\* One turn of the loop on the evaluated tree t.
RECURSIVE InsertFix(_, _)
InsertFix(tree, node) ==
    Once(tree, LAMBDA t :
        LET parent == t.parent[node]
            gparent == t.parent[parent]
            s == IF parent # t.child["rb_right"][gparent] THEN "rb_left"
                 ELSE "rb_right"
            uncle == t.child[Other(s)][gparent]
        IN  IF parent = Null
            THEN [t EXCEPT !.black[node] = TRUE, !.root = node]
            ELSE IF t.black[parent] THEN t
            ELSE IF IsRed(t, uncle)
            THEN InsertFix([t EXCEPT !.black[uncle] = TRUE,
                                     !.black[parent] = TRUE,
                                     !.black[gparent] = FALSE], gparent)
            ELSE IF node = t.child[Other(s)][parent]
            THEN RotateUp(RotateIn(t, node, parent, s), node, gparent, s)
            ELSE RotateUp(t, parent, gparent, s))

(***************************************************************************)
(* _rb_insert.  It returns -1 only when the walk meets a node that is      *)
(* neither less nor greater: Finds.  A node outside the trees has its      *)
(* links reset, which the code does at the start of the insertion.         *)
(***************************************************************************)
RECURSIVE Descend(_, _, _, _)
Descend(t, n, m, key) ==
    LET s == IF Before(key, n, m) THEN "rb_left" ELSE "rb_right"
    IN  IF ~Before(key, n, m) /\ ~Before(key, m, n) THEN <<Null, s>>
        ELSE IF t.child[s][m] = Null THEN <<m, s>>
        ELSE Descend(t, n, t.child[s][m], key)

Finds(t, n, key) ==
    t.root # Null /\ Descend(t, n, t.root, key)[1] = Null

Insert(t, n, key) ==
    IF t.root = Null THEN InsertFix(t, n)
    ELSE Once(Descend(t, n, t.root, key), LAMBDA place :
             InsertFix(SetParent(Link(t, place[2], place[1], n), n, place[1]),
                       n))

(***************************************************************************)
(* __rb_erase takes the node out and returns the node below which a black  *)
(* node is now missing, or Null.                                           *)
(***************************************************************************)
RECURSIVE LeftMost(_, _)
LeftMost(t, n) ==
    IF t.child["rb_left"][n] = Null THEN n
    ELSE LeftMost(t, t.child["rb_left"][n])

\* node has at most one child: the child takes its place and its colour.
Splice(t, node, child) ==
    LET parent == t.parent[node]
        out == ChangeChild(t, node, child, parent)
    IN  [tree |-> SetParentColor(out, child, parent, t.black[node]),
         rebalance |-> IF child = Null /\ t.black[node] THEN parent ELSE Null]

\* node has two children: its successor takes its place and its colour.
Succeed(t, node) ==
    LET right == t.child["rb_right"][node]
        successor == LeftMost(t, right)
        child2 == t.child["rb_right"][successor]
        parent == IF successor = right THEN successor ELSE t.parent[successor]
        t1 == IF successor = right THEN t
              ELSE SetParent(Link(Link(t, "rb_left", parent, child2),
                                  "rb_right", successor, right),
                             right, successor)
        left == t.child["rb_left"][node]
        t2 == SetParent(Link(t1, "rb_left", successor, left), left, successor)
        t3 == ChangeChild(t2, node, successor, t.parent[node])
        t4 == SetParentColor(t3, successor, t.parent[node], t.black[node])
    IN  [tree |-> SetParentColor(t4, child2, parent, TRUE),
         rebalance |-> IF child2 = Null /\ t.black[successor] THEN parent
                       ELSE Null]

(***************************************************************************)
(* __rb_erase_fix: a black node is missing on the near side of parent,     *)
(* below node.                                                             *)
(***************************************************************************)
\* Case 1: a red sibling is rotated up.
RedSiblingUp(t, parent, near) ==
    LET far == Other(near)
        sibling == t.child[far][parent]
        tmp == t.child[near][sibling]
        moved == SetParentColor(Link(t, far, parent, tmp), tmp, parent, TRUE)
    IN  RotateSetParents(Link(moved, near, sibling, parent), parent, sibling,
                         FALSE)

\* Case 3: the red near child of the sibling is rotated above it.
NephewUp(t, parent, near) ==
    LET far == Other(near)
        sibling == t.child[far][parent]
        nephew == t.child[near][sibling]
        inner == t.child[far][nephew]
        moved == SetParentColor(Link(t, near, sibling, inner), inner, sibling,
                                TRUE)
    IN  Link(Link(moved, far, nephew, sibling), far, parent, nephew)

\* The last case: the sibling is rotated above parent, and `outer` turns black.
SiblingUp(tree, parent, near, outer) ==
    Once(tree, LAMBDA t :
        LET far == Other(near)
            sibling == t.child[far][parent]
            inner == t.child[near][sibling]
            moved == SetParent(Link(t, far, parent, inner), inner, parent)
        IN  RotateSetParents(
                SetParentColor(Link(moved, near, sibling, parent), outer,
                               sibling, TRUE),
                parent, sibling, TRUE))

\* Cases 2 and 3 and the last one, on a tree in which the sibling is black.
BlackSibling(t, parent, near) ==
    LET far == Other(near)
        sibling == t.child[far][parent]
        outer == t.child[far][sibling]
    IN  IF IsRed(t, outer) THEN SiblingUp(t, parent, near, outer)
        ELSE IF IsRed(t, t.child[near][sibling])
        THEN SiblingUp(NephewUp(t, parent, near), parent, near, sibling)
        ELSE [t EXCEPT !.black[sibling] = FALSE, !.black[parent] = TRUE]

RECURSIVE EraseFix(_, _, _)
EraseFix(tree, parent, node) ==
    LET far == IF node # tree.child["rb_right"][parent] THEN "rb_right"
               ELSE "rb_left"
        near == Other(far)
        raised == IF IsRed(tree, tree.child[far][parent])
                  THEN RedSiblingUp(tree, parent, near) ELSE tree
    IN  Once(raised, LAMBDA t :
            LET nephews == {t.child[s][t.child[far][parent]] : s \in Side}
                goesUp == /\ \A n \in nephews : ~IsRed(t, n)
                          /\ t.black[parent]
                          /\ t.parent[parent] # Null
            IN  Once(BlackSibling(t, parent, near), LAMBDA u :
                    IF goesUp THEN EraseFix(u, t.parent[parent], parent)
                    ELSE u))

Erase(t, node) ==
    LET left == t.child["rb_left"][node]
        right == t.child["rb_right"][node]
        out == IF left = Null THEN Splice(t, node, right)
               ELSE IF right = Null THEN Splice(t, node, left)
               ELSE Succeed(t, node)
        fixed == Once(out, LAMBDA o :
                     IF o.rebalance = Null THEN o.tree
                     ELSE EraseFix(o.tree, o.rebalance, Null))
    IN  [fixed EXCEPT !.child["rb_left"][node] = Null,
                      !.child["rb_right"][node] = Null,
                      !.parent[node] = Null, !.black[node] = FALSE]

First(t) == IF t.root = Null THEN Null ELSE LeftMost(t, t.root)

\* _rb_lookup.
RECURSIVE LookupFrom(_, _, _, _)
LookupFrom(t, n, m, key) ==
    IF m = Null THEN Null
    ELSE IF Before(key, n, m) THEN LookupFrom(t, n, t.child["rb_left"][m], key)
    ELSE IF Before(key, m, n) THEN LookupFrom(t, n, t.child["rb_right"][m], key)
    ELSE m

(***************************************************************************)
(* What a red-black tree of the set S is.                                  *)
(***************************************************************************)
RECURSIVE InOrder(_, _)
InOrder(t, n) ==
    IF n = Null THEN << >>
    ELSE InOrder(t, t.child["rb_left"][n]) \o <<n>>
         \o InOrder(t, t.child["rb_right"][n])

\* The numbers of black nodes on the ways down from n.
RECURSIVE BlackHeights(_, _)
BlackHeights(t, n) ==
    IF n = Null THEN {0}
    ELSE {h + (IF t.black[n] THEN 1 ELSE 0) :
             h \in UNION {BlackHeights(t, t.child[s][n]) : s \in Side}}

RedBlackTree(t, Nodes, key) ==
    \E S \in {Nodes} : \E walk \in {InOrder(t, t.root)} :
        /\ {walk[i] : i \in DOMAIN walk} = S
        /\ \A i \in 1 .. Len(walk) - 1 : Before(key, walk[i], walk[i + 1])
        /\ t.root # Null => t.black[t.root] /\ t.parent[t.root] = Null
        /\ \A s \in Side : \A n \in S :
               t.child[s][n] # Null =>
                   /\ t.parent[t.child[s][n]] = n
                   /\ t.black[n] \/ t.black[t.child[s][n]]
        /\ Cardinality(BlackHeights(t, t.root)) = 1
=============================================================================
