------------------------------ MODULE Research ------------------------------
(* One research record: its sources, its candidates' one lasting effect, the
   identification proposed when it is completed, and the two calls of
   src/goliath/domain/service.py that load the record, find it open and write
   it by primary key: add_research_source and complete_research. *)
EXTENDS FiniteSets, Naturals

CONSTANTS Researchers,        \* callers
          MaxResearchSources, \* DomainConfig.max_research_sources
          MaxIdentified       \* bound: identification proposals

VARIABLES research,     \* ResearchRecord.status
          sources,      \* its ResearchSource rows
          identified,   \* IDENTIFICATION_SELECTION proposals made from it
          backed,       \* each of them had a source
          researcher,   \* what each caller has loaded
          reworked      \* history: calls that wrote a record closed meanwhile

vars == <<research, sources, identified, backed, researcher, reworked>>

Open == {"pending", "in_progress"}
Closed == {"completed", "inconclusive", "rejected"}
NoCall == [phase |-> "idle", seen |-> "pending", sources |-> 0]

Init ==
    /\ research = "pending" /\ sources = 0
    /\ identified = 0 /\ backed = TRUE /\ reworked = 0
    /\ researcher = [c \in Researchers |-> NoCall]

\* A call loads the record, finds it open, and counts its sources.
LoadResearch(c) ==
    /\ researcher[c].phase = "idle" /\ research \in Open
    /\ \E phase \in {"sourcing", "closing"} :
         /\ phase = "sourcing" => sources < MaxResearchSources
         /\ researcher' = [researcher EXCEPT ![c] =
              [phase |-> phase, seen |-> research, sources |-> sources]]
    /\ UNCHANGED <<research, sources, identified, backed, reworked>>

Write(status) ==
    /\ research' = status
    /\ reworked' = IF research \in Open THEN reworked ELSE reworked + 1

\* mark_in_progress writes the status only if it was not in progress yet.
AddResearchSource(c) ==
    /\ researcher[c].phase = "sourcing"
    /\ sources' = sources + 1
    /\ IF researcher[c].seen = "pending" THEN Write("in_progress")
       ELSE UNCHANGED <<research, reworked>>
    /\ researcher' = [researcher EXCEPT ![c] = NoCall]
    /\ UNCHANGED <<identified, backed>>

\* Seeded fault: the record stays open when its identification is proposed.
CompleteWithoutClosing(c) ==
    /\ researcher[c].phase = "closing" /\ researcher[c].sources > 0
    /\ identified < MaxIdentified
    /\ identified' = identified + 1
    /\ researcher' = [researcher EXCEPT ![c] = NoCall]
    /\ UNCHANGED <<research, sources, backed, reworked>>

\* With an identification, which needs a source, a proposal is made for it.
CompleteResearch(c) ==
    /\ researcher[c].phase = "closing"
    /\ \/ /\ researcher[c].sources > 0 /\ identified < MaxIdentified
          /\ identified' = identified + 1
          /\ backed' = (backed /\ sources > 0)
          /\ Write("completed")
       \/ /\ \E status \in Closed : Write(status)
          /\ UNCHANGED <<identified, backed>>
    /\ researcher' = [researcher EXCEPT ![c] = NoCall]
    /\ UNCHANGED sources

Next == \E c \in Researchers :
            LoadResearch(c) \/ AddResearchSource(c) \/ CompleteResearch(c)

Spec == Init /\ [][Next]_vars

-----------------------------------------------------------------------------
(* Properties *)

\* The limit on sources is counted before they are added: calls under way at
\* the same time may pass it, each by one.
TypeOK ==
    /\ research \in Open \cup Closed
    /\ sources \in 0..(MaxResearchSources + Cardinality(Researchers))
    /\ identified \in 0..MaxIdentified /\ backed \in BOOLEAN /\ reworked \in Nat
    /\ researcher \in [Researchers -> [phase : {"idle", "sourcing", "closing"},
                                      seen : Open, sources : Nat]]

\* A research record yields one identification proposal, and one more for
\* each call that had found it open and wrote it after it was closed; every
\* one of them is backed by a source.
IdentifiedOnce ==
    /\ identified <= 1 + reworked
    /\ backed
=============================================================================
