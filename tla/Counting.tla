------------------------------ MODULE Counting ------------------------------
(***************************************************************************)
(* The facts about finite sets, their sizes and the least element of a set *)
(* of numbers that the proofs about the kernel count with.  The lemmas     *)
(* take them as a hypothesis, and the main theorems discharge it from the  *)
(* library, which keeps the library out of the lemmas' contexts.           *)
(***************************************************************************)
EXTENDS Integers, FiniteSets

\* The empty set is finite, and it alone has size 0; a size is a number.
SizeLaws ==
    /\ IsFiniteSet({}) /\ Cardinality({}) = 0
    /\ \A S : IsFiniteSet(S) =>
          /\ Cardinality(S) \in Nat
          /\ Cardinality(S) = 0 <=> S = {}

\* One element more, one less, a part, and two sets that share nothing.
ChangeLaws ==
    /\ \A S, x : IsFiniteSet(S) =>
          /\ IsFiniteSet(S \cup {x})
          /\ x \notin S => Cardinality(S \cup {x}) = Cardinality(S) + 1
          /\ IsFiniteSet(S \ {x})
          /\ x \in S => Cardinality(S \ {x}) = Cardinality(S) - 1
    /\ \A S, T : IsFiniteSet(S) /\ T \subseteq S => IsFiniteSet(T)
    /\ \A S, T : IsFiniteSet(S) /\ IsFiniteSet(T) /\ S \cap T = {} =>
          /\ IsFiniteSet(S \cup T)
          /\ Cardinality(S \cup T) = Cardinality(S) + Cardinality(T)

\* The numbers 1..n; what a finite set numbers one to one has its size; a set
\* of numbers has a least one.
NumberLaws ==
    /\ \A n \in Nat : IsFiniteSet(1 .. n) /\ Cardinality(1 .. n) = n
    /\ \A S, T : \A f \in [S -> T] :
          /\ IsFiniteSet(S)
          /\ \A a, b \in S : f[a] = f[b] => a = b
          /\ \A y \in T : \E a \in S : f[a] = y
          => IsFiniteSet(T) /\ Cardinality(T) = Cardinality(S)
    /\ \A I \in SUBSET Nat : I # {} => \E m \in I : \A y \in I : m <= y

CountingLaws == SizeLaws /\ ChangeLaws /\ NumberLaws
=============================================================================
