----------------------------- MODULE MCAgentJobs -----------------------------
(* Small instances of AgentJobs for TLC. *)
EXTENDS AgentJobs, TLC

\* The worker slots are interchangeable; used in the safety run only.
WorkerSymmetry == Permutations(Workers)
=============================================================================
