---------------------------- MODULE Comparables -----------------------------
(* Comparable sales of one item: their import (src/goliath/domain/comparables.py),
   their review (ReviewService.review_comparable), and the selection a price
   recommendation is computed from (recommend_price_with_policy of
   src/goliath/domain/service.py).

   An import looks each row's identity up and inserts what is new, in one
   transaction; a concurrent import of an identity makes it fail as a whole.
   A review loads a comparable, and writes it by primary key. *)
EXTENDS Naturals, Sequences, FiniteSets

CONSTANTS Identities,   \* marketplace and source identity of a comparable
          Importers,    \* callers of import_rows and add_comparable
          Assessors     \* callers of review_comparable

VARIABLES comparable,   \* ComparableSale rows
          tasked,       \* identities with an open COMPARABLE_REVIEW task
          importing,    \* the ComparableImport row each importer is about to commit
          assessing,    \* what each assessor has loaded and decided
          pricing,      \* the selection a recommendation is computed from
          condemned     \* history: identities a committed decision invalidated

vars == <<comparable, tasked, importing, assessing, pricing, condemned>>

ReviewStatus == {"pending", "accepted", "rejected", "invalidated"}
Reviewable == ReviewStatus \ {"invalidated"}

Comparable == [there : BOOLEAN, status : ReviewStatus,
               invalidated : BOOLEAN]    \* invalidated_at is set

Absent == [there |-> FALSE, status |-> "pending", invalidated |-> FALSE]

ImportStatus == {"none", "completed", "failed", "rolled_back", "dry_run"}
NoImport == [status |-> "none", total |-> 0, new |-> {}, invalid |-> 0, duplicates |-> 0]
NoAssessment == [on |-> "none", decision |-> "pending"]
NoPricing == [busy |-> FALSE, used |-> {}, barred |-> {}]

Init ==
    /\ comparable = [i \in Identities |-> Absent]
    /\ tasked = {}
    /\ importing = [c \in Importers |-> NoImport]
    /\ assessing = [a \in Assessors |-> NoAssessment]
    /\ pricing = NoPricing /\ condemned = {}

-----------------------------------------------------------------------------
(* Import *)

There == {i \in Identities : comparable[i].there}

\* The status of an import with `invalid` rows that would insert `new`.
StatusOf(dry, allOrNothing, invalid, new) ==
    IF dry THEN "dry_run"
    ELSE IF allOrNothing /\ invalid > 0 THEN "rolled_back"
    ELSE IF invalid > 0 /\ new = {} THEN "failed" ELSE "completed"

\* Every row gets a status; the rows are the identities of R and `invalid` bad
\* ones.  Nothing is inserted on a dry run, nor when one row is invalid and the
\* import is all or nothing.
ReadRows(c) ==
    /\ importing[c] = NoImport
    /\ \E R \in SUBSET Identities, invalid \in 0..1, dry, allOrNothing \in BOOLEAN :
         LET write == ~dry /\ ~(allOrNothing /\ invalid > 0)
             new == IF write THEN R \ There ELSE {} IN
         /\ R # {} \/ invalid > 0
         /\ importing' = [importing EXCEPT ![c] =
              [status |-> StatusOf(dry, allOrNothing, invalid, new),
               total |-> Cardinality(R) + invalid, new |-> new, invalid |-> invalid,
               duplicates |-> IF write THEN Cardinality(R \cap There) ELSE 0]]
    /\ UNCHANGED <<comparable, tasked, assessing, pricing, condemned>>

\* The unique key of a comparable undoes the import as a whole.
CommitImport(c) ==
    LET new == importing[c].new IN
    /\ importing[c] # NoImport
    /\ importing' = [importing EXCEPT ![c] = NoImport]
    /\ \/ /\ new \cap There # {}
          /\ UNCHANGED <<comparable, tasked>>
       \/ /\ new \cap There = {}
          /\ comparable' = [i \in Identities |->
               IF i \in new THEN [Absent EXCEPT !.there = TRUE] ELSE comparable[i]]
          /\ tasked' = tasked \cup new
    /\ UNCHANGED <<assessing, pricing, condemned>>

\* DomainService.add_comparable: no task is opened.
AddComparable(i) ==
    /\ i \notin There
    /\ comparable' = [comparable EXCEPT ![i].there = TRUE]
    /\ UNCHANGED <<tasked, importing, assessing, pricing, condemned>>

-----------------------------------------------------------------------------
(* Review *)

\* decide loads a comparable that is not invalidated by review.
LoadComparable(a) ==
    /\ assessing[a] = NoAssessment
    /\ \E i \in There, decision \in ReviewStatus \ {"pending"} :
         /\ comparable[i].status \in Reviewable
         /\ assessing' = [assessing EXCEPT ![a] =
              [on |-> i, decision |-> decision]]
    /\ UNCHANGED <<comparable, tasked, importing, pricing, condemned>>

\* It writes the status and the time of a first invalidation; the linked task
\* is closed with it.
StoreDecision(a) ==
    LET i == assessing[a].on
        invalidates == assessing[a].decision = "invalidated" IN
    /\ assessing[a] # NoAssessment
    /\ comparable' = [comparable EXCEPT ![i] =
         [there |-> TRUE, status |-> assessing[a].decision,
          invalidated |-> invalidates \/ comparable[i].invalidated]]
    /\ condemned' = IF invalidates THEN condemned \cup {i} ELSE condemned
    /\ tasked' = tasked \ {i}
    /\ assessing' = [assessing EXCEPT ![a] = NoAssessment]
    /\ UNCHANGED <<importing, pricing>>

-----------------------------------------------------------------------------
(* Selection *)

\* Seeded fault: the review status is taken to tell what was invalidated.
IncludableByStatus(i) == comparable[i].status = "accepted"

\* _exclusion_reason, with a policy of reviewed ones only.
Includable(i) == comparable[i].status = "accepted" /\ ~comparable[i].invalidated

\* recommend_price_with_policy reads the comparables in a transaction of its
\* own; price, currency, scores, age and being an outlier may exclude any of
\* them.  `barred` is what had been invalidated by then.
SelectComparables ==
    /\ ~pricing.busy
    /\ \E used \in SUBSET {i \in There : Includable(i)} :
         pricing' = [busy |-> TRUE, used |-> used, barred |-> condemned]
    /\ UNCHANGED <<comparable, tasked, importing, assessing, condemned>>

\* The recommendation is stored with what was selected, whatever has been
\* decided meanwhile.
StoreRecommendation ==
    /\ pricing.busy /\ pricing' = NoPricing
    /\ UNCHANGED <<comparable, tasked, importing, assessing, condemned>>

Next ==
    \/ \E c \in Importers : ReadRows(c) \/ CommitImport(c)
    \/ \E i \in Identities : AddComparable(i)
    \/ \E a \in Assessors : LoadComparable(a) \/ StoreDecision(a)
    \/ SelectComparables \/ StoreRecommendation

Spec == Init /\ [][Next]_vars

-----------------------------------------------------------------------------
(* Properties *)

\* Rows and callers have their types, and the rows of an import add up.
TypeOK ==
    /\ comparable \in [Identities -> Comparable]
    /\ tasked \subseteq There /\ condemned \subseteq There
    /\ \A m \in {importing[c] : c \in Importers} :
         /\ m.status \in ImportStatus /\ m.new \subseteq Identities
         /\ Cardinality(m.new) + m.invalid + m.duplicates <= m.total
         /\ m.status \notin {"completed", "failed"} => m.new = {}
    /\ assessing \in [Assessors -> [on : Identities \cup {"none"},
                                    decision : ReviewStatus]]
    /\ pricing \in [busy : BOOLEAN, used : SUBSET There, barred : SUBSET There]

\* Once a reviewer has invalidated a comparable, no recommendation computed
\* that reads the comparables later uses it, even when another decision on it,
\* taken from an older state, was stored after that one.
InvalidatedNeverPriced == pricing.used \cap pricing.barred = {}
=============================================================================
