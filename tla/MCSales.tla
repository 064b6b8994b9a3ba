------------------------------ MODULE MCSales -------------------------------
(* Bounds and symmetry for the runs of Sales. *)
EXTENDS Sales, TLC

Limit(publishing, handling, count) ==
    [publishing |-> publishing, handling |-> handling, events |-> count]

\* Two publish runs at a time, or two detectors at a time, or a death, an
\* expiry, a refresh or a reconciliation between two runs.
SafetyLimits == {Limit(2, 1, 0), Limit(1, 2, 0), Limit(1, 1, 1)}
LiveLimits == {Limit(1, 1, 1)}
LostLimits == {Limit(1, 1, 0)}

Symmetry ==
    UNION {Permutations(S) : S \in {Accounts, Publishers, Detectors}}
=============================================================================
