---------------------------- MODULE JobLifecycle ----------------------------
(***************************************************************************)
(* What the durable job table promises to a client that only looks at a    *)
(* job's phase, its term (how many state changes the row has seen) and the *)
(* term whose execution the stored result belongs to.  Workers, leases,    *)
(* processes, crashes and cancellers are all hidden here; AgentJobs.tla    *)
(* is the detailed specification that implements this one.                 *)
(***************************************************************************)
EXTENDS Naturals

CONSTANT Jobs            \* the job identifiers that may ever be submitted

VARIABLES
    phase,               \* [Jobs -> Phase]
    term,                \* [Jobs -> Nat]: number of state changes so far
    outcome              \* [Jobs -> Nat]: term whose result is stored, 0 = none

vars == <<phase, term, outcome>>

Phase == {"absent", "waiting", "held", "finished"}

Init ==
    /\ phase = [j \in Jobs |-> "absent"]
    /\ term = [j \in Jobs |-> 0]
    /\ outcome = [j \in Jobs |-> 0]

Keep(j) ==
    /\ phase'[j] = phase[j]
    /\ term'[j] = term[j]
    /\ outcome'[j] = outcome[j]

\* A row is inserted, or moves between the two waiting states.
Admit(j) ==
    /\ phase[j] \in {"absent", "waiting"}
    /\ phase'[j] = "waiting"
    /\ term'[j] > term[j]
    /\ outcome'[j] = outcome[j]

\* One executor takes the job: a new term, never used before.
Take(j) ==
    /\ phase[j] = "waiting"
    /\ phase'[j] = "held"
    /\ term'[j] = term[j] + 1
    /\ outcome'[j] = outcome[j]

\* The job is given back for another attempt, with or without a result of
\* the term that ends here.
Return(j) ==
    /\ phase[j] = "held"
    /\ phase'[j] = "waiting"
    /\ term'[j] = term[j] + 1
    /\ outcome'[j] \in {outcome[j], term[j]}

\* The job ends; a stored result is the result of the term that ends here.
Finish(j) ==
    /\ phase[j] \in {"waiting", "held"}
    /\ phase'[j] = "finished"
    /\ term'[j] = term[j] + 1
    /\ \/ outcome'[j] = outcome[j]
       \/ phase[j] = "held" /\ outcome'[j] = term[j]

\* The execution that was interrupted by the end of the job reports late: its
\* output is kept, the phase and the term do not move.
LateReport(j) ==
    /\ phase[j] = "finished"
    /\ phase'[j] = "finished"
    /\ term'[j] = term[j]
    /\ outcome'[j] + 1 = term[j]

JobStep(j) == Keep(j) \/ Admit(j) \/ Take(j) \/ Return(j) \/ Finish(j) \/ LateReport(j)

\* One database transaction may move several jobs, each by one step.
Next ==
    /\ phase' \in [Jobs -> Phase]
    /\ term' \in [Jobs -> Nat]
    /\ outcome' \in [Jobs -> Nat]
    /\ \A j \in Jobs : JobStep(j)

Spec == Init /\ [][Next]_vars
=============================================================================
