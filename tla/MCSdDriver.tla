----------------------------- MODULE MCSdDriver -----------------------------
(* The SD driver with two processes, one block and two contents. *)
EXTENDS SdDriver

\* With one fault: a card that works, one whose file format is refused and one
\* that reports no voltage.  Without faults, and with one request more: a card
\* of the third kind.
Good(k, w, v) == [kind |-> k, wide |-> w, volts |-> TRUE, format |-> "DOSFAT",
                  version |-> v, faults |-> 1]
MCSetups ==
    {Good("HC", TRUE, 2),
     [Good("SC1", FALSE, 2) EXCEPT !.format = "UFF"],
     [Good("HC", FALSE, 1) EXCEPT !.volts = FALSE],
     [Good("SC2", FALSE, 1) EXCEPT !.faults = 0]}

MCCaller == Proc \cup {CPU0}

ProcSymmetry == Permutations(Proc)
=============================================================================
