---------------------------- MODULE MCPromptRun ----------------------------
(* Instances of PromptRun for TLC. *)
EXTENDS PromptRun

CONSTANTS r1, r2, c1, slot1, slot2

Plan(k1, k2, t2, attempts, budget, faults) ==
    [kind |-> [r \in Runs |-> IF r = r1 THEN k1 ELSE k2],
     token |-> [r \in Runs |-> IF r = r1 THEN slot1 ELSE t2],
     attempts |-> attempts, budget |-> budget, faults |-> faults]

\* One run with every retry; two runs one after the other on one cancel
\* event; two runs at once on an event each.
PassPlans ==
    {Plan(k, "none", slot2, 3, b, TRUE) : k \in {"direct", "file", "attachment"}, b \in 0 .. 1}
        \cup {Plan("file", "file", t, 1, 0, FALSE) : t \in {slot1, slot2}}
=============================================================================
