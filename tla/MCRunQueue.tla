----------------------------- MODULE MCRunQueue -----------------------------
EXTENDS RunQueue, TLC

\* The containers 11 (root), 12 and, inside 12, 13.
MCContainerOf == 1 :> 11 @@ 2 :> 12 @@ 3 :> 12 @@ 4 :> 13
MCParentOf == 12 :> 11 @@ 13 :> 12
MCrootproc == 11 :> 1 @@ 12 :> 2 @@ 13 :> 4
Symmetry == Permutations(CPU)

(***************************************************************************)
(* All the trees that insertions and erasures in any order make of up to   *)
(* TreeNodes nodes are red-black trees, and lookups and _rb_first find     *)
(* what is in them.                                                        *)
(***************************************************************************)
TreeNodes == 1 .. 7
NoKey == [n \in TreeNodes |-> 0]
Successors(x) ==
    {IF n \in x.nodes
     THEN [tree |-> Erase(x.tree, n), nodes |-> x.nodes \ {n}]
     ELSE [tree |-> Insert(x.tree, n, NoKey), nodes |-> x.nodes \cup {n}] :
        n \in TreeNodes}
RECURSIVE Closure(_, _)
Closure(old, new) ==
    IF new = {} THEN old
    ELSE LET all == old \cup new
         IN  Closure(all, UNION {Successors(x) : x \in new} \ all)

ASSUME TreesAreRedBlack ==
    \A x \in Closure({}, {[tree |-> EmptyTree(TreeNodes), nodes |-> {}]}) :
        /\ RedBlackTree(x.tree, x.nodes, NoKey)
        /\ First(x.tree) = IF x.nodes = {} THEN Null ELSE Min(x.nodes)
        /\ \A n \in TreeNodes :
               /\ Finds(x.tree, n, NoKey) <=> n \in x.nodes
               /\ LookupFrom(x.tree, n, x.tree.root, NoKey)
                      = IF n \in x.nodes THEN n ELSE Null
=============================================================================
