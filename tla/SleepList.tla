----------------------------- MODULE SleepList -----------------------------
(***************************************************************************)
(* The sleeplist of a semaphore (sem.c) as a sequence of waiters, the      *)
(* oldest first: _insert_into_list appends, a post takes the head, and an  *)
(* interrupted wait detaches its own WaitData wherever it stands.          *)
(***************************************************************************)
EXTENDS Integers, Sequences

\* p's WaitData is in a list; its position there.
InList(list, p) == \E i \in 1..Len(list) : list[i] = p
Position(list, p) == CHOOSE i \in 1..Len(list) : list[i] = p

\* _detach_from_list of p's WaitData.
Detach(list, p) ==
    [i \in 1..Len(list) - 1 |->
        IF i < Position(list, p) THEN list[i] ELSE list[i + 1]]

\* No waiter is listed twice.
Distinct(list) == \A i, j \in 1..Len(list) : list[i] = list[j] => i = j
=============================================================================
