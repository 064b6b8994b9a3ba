----------------------------- MODULE Proposals ------------------------------
(* One inventory item, its listing draft, and the proposals that change them
   once a person approves: DomainService of
   src/goliath/domain/service.py over the repositories of
   src/goliath/db/domain_repositories.py.

   A transaction is one action, except where it loads a row and later writes
   it by primary key.  A decision flushes the proposal's row, and so locks it,
   before it looks at the target: a second decision waits there and then goes
   on.  The item is updated by a compare-and-swap on its version; the draft by
   primary key, with a snapshot whose (draft, version) key is unique. *)
EXTENDS Naturals, Sequences

CONSTANTS Reviewers,           \* people who decide proposals
          Authors,             \* people and agents who ask for a draft's approval
          MaxProposals,        \* bound: proposals
          MaxItemVersion,      \* bound: versions of the item
          MaxDraftVersion      \* bound: versions of the draft

VARIABLES itemVersion,   \* InventoryItem.version
          draft,         \* MasterListingDraft: status and version
          snaps,         \* versions its ListingDraftVersion rows have
          proposal,      \* DomainProposal rows, in order of creation
          author,        \* what each author has loaded
          review,        \* what each reviewer has loaded and decided
          applied,       \* history: by proposal, how often its change was made
          contested      \* history: proposals two reviewers held at once

target == <<itemVersion, draft, snaps>>
vars == <<target, proposal, author, review, applied, contested>>

Kind == {"inventory",   \* INVENTORY_UPDATE, IDENTIFICATION_, RESEARCH_
         "listing",     \* LISTING_DRAFT_APPROVAL
         "other"}       \* approval only

ProposalStatus == {"pending", "rejected", "executed", "execution_failed"}

Proposal == [kind : Kind, at : Nat,      \* current_version
             valid : BOOLEAN,            \* the payload may be written
             due : BOOLEAN,              \* expires_at has passed
             status : ProposalStatus]

DraftStatus == {"none", "draft", "needs_review", "approved"}
NoAuthor == [phase |-> "idle", version |-> 0]
NoReview == [phase |-> "idle", on |-> 0, approve |-> FALSE, version |-> 0]

Init ==
    /\ itemVersion = 1
    /\ draft = [status |-> "none", version |-> 0] /\ snaps = {}
    /\ proposal = <<>> /\ applied = <<>> /\ contested = {}
    /\ author = [a \in Authors |-> NoAuthor]
    /\ review = [r \in Reviewers |-> NoReview]

Propose(kind, at, valid) ==
    /\ Len(proposal) < MaxProposals
    /\ proposal' = Append(proposal, [kind |-> kind, at |-> at, valid |-> valid,
                                     due |-> FALSE, status |-> "pending"])
    /\ applied' = Append(applied, 0)

-----------------------------------------------------------------------------
(* Authors *)

\* update_inventory_draft with the version the caller read.
EditItem ==
    /\ itemVersion < MaxItemVersion
    /\ itemVersion' = itemVersion + 1
    /\ UNCHANGED <<draft, snaps, proposal, author, review, applied, contested>>

CreateMasterDraft ==
    /\ draft.status = "none"
    /\ draft' = [status |-> "draft", version |-> 1]
    /\ snaps' = {1}
    /\ UNCHANGED <<itemVersion, proposal, author, review, applied, contested>>

\* submit_proposal takes the target's version from its caller, who read it at
\* some time; a payload with fields or a status it may not write is stored too.
SubmitProposal ==
    /\ \/ \E at \in 1..itemVersion, valid \in BOOLEAN : Propose("inventory", at, valid)
       \/ \E at \in 1..draft.version : Propose("listing", at, TRUE)
       \/ Propose("other", itemVersion, TRUE)
    /\ UNCHANGED <<target, author, review, contested>>

\* request_listing_approval loads the draft; an approved one is refused.
LoadDraft(a) ==
    /\ author[a].phase = "idle" /\ draft.status \in {"draft", "needs_review"}
    /\ draft.version < MaxDraftVersion
    /\ author' = [author EXCEPT ![a] =
         [phase |-> "listing", version |-> draft.version]]
    /\ UNCHANGED <<target, proposal, review, applied, contested>>

\* Seeded fault: the snapshot's key does not stop a second writer.
SnapshotAlways(version) == snaps' = snaps \cup {version}

\* ListingDraftRepository._snapshot: a version that has one is a conflict.
Snapshot(version) == version \notin snaps /\ snaps' = snaps \cup {version}

\* set_status(NEEDS_REVIEW), and the proposal made for the new version.
RequestListingApproval(a) ==
    LET version == author[a].version + 1 IN
    /\ author[a].phase = "listing"
    /\ author' = [author EXCEPT ![a] = NoAuthor]
    /\ \/ /\ Snapshot(version) /\ Propose("listing", version, TRUE)
          /\ draft' = [status |-> "needs_review", version |-> version]
       \/ version \in snaps /\ UNCHANGED <<draft, snaps, proposal, applied>>
    /\ UNCHANGED <<itemVersion, review, contested>>

-----------------------------------------------------------------------------
(* Decisions *)

Expire(p) ==
    /\ proposal[p].status = "pending" /\ ~proposal[p].due
    /\ proposal' = [proposal EXCEPT ![p].due = TRUE]
    /\ UNCHANGED <<target, author, review, applied, contested>>

Holds(r, p) == review[r].phase # "idle" /\ review[r].on = p

\* decide: pending, and not expired.
Decidable(p) == proposal[p].status = "pending" /\ ~proposal[p].due

LoadProposal(r) ==
    /\ review[r].phase = "idle"
    /\ \E p \in DOMAIN proposal, approve \in BOOLEAN :
         /\ Decidable(p)
         /\ review' = [review EXCEPT ![r] =
              [phase |-> "deciding", on |-> p, approve |-> approve, version |-> 0]]
         /\ contested' = IF \E o \in Reviewers : Holds(o, p)
                         THEN contested \cup {p} ELSE contested
    /\ UNCHANGED <<target, proposal, author, applied>>

\* Another decision has flushed the row and not committed.
Locked(p) == \E r \in Reviewers : Holds(r, p) /\ review[r].phase = "executing"

Store(r, status) ==
    /\ proposal' = [proposal EXCEPT ![review[r].on].status = status]
    /\ review' = [review EXCEPT ![r] = NoReview]

\* An exception that is not a version conflict undoes the decision too.
RollBack(r) == review' = [review EXCEPT ![r] = NoReview] /\ UNCHANGED proposal

RejectProposal(r) ==
    /\ review[r].phase = "deciding" /\ ~review[r].approve /\ ~Locked(review[r].on)
    /\ Store(r, "rejected")
    /\ UNCHANGED <<target, author, applied, contested>>

VersionOf(kind) == IF kind = "listing" THEN draft.version ELSE itemVersion

\* Seeded fault: the version the proposal was made for is not compared.
IsCurrentUnchecked(p) == TRUE

\* Types other than these only record the approval.
IsCurrent(p) ==
    proposal[p].kind = "other" \/ VersionOf(proposal[p].kind) = proposal[p].at

\* approve_proposal flushes the decision and loads the target.  A stale one is
\* committed as a failed execution; an approved draft may not be approved again.
LoadTarget(r) ==
    LET p == review[r].on
        approved == proposal[p].kind = "listing" /\ draft.status = "approved" IN
    /\ review[r].phase = "deciding" /\ review[r].approve /\ ~Locked(p)
    /\ \/ ~IsCurrent(p) /\ Store(r, "execution_failed")
       \/ IsCurrent(p) /\ approved /\ RollBack(r)
       \/ /\ IsCurrent(p) /\ ~approved
          /\ review' = [review EXCEPT ![r].phase = "executing",
                                      ![r].version = VersionOf(proposal[p].kind)]
          /\ UNCHANGED proposal
    /\ UNCHANGED <<target, author, applied, contested>>

Apply(p) == applied' = [applied EXCEPT ![p] = @ + 1]

\* update_draft refuses fields it does not know, and compares and swaps.
ExecuteInventory(r, p) ==
    /\ proposal[p].kind = "inventory"
    /\ UNCHANGED <<draft, snaps>>
    /\ \/ ~proposal[p].valid /\ RollBack(r) /\ UNCHANGED <<itemVersion, applied>>
       \/ /\ proposal[p].valid /\ itemVersion # proposal[p].at
          /\ Store(r, "execution_failed") /\ UNCHANGED <<itemVersion, applied>>
       \/ /\ proposal[p].valid /\ itemVersion = proposal[p].at
          /\ itemVersion' = itemVersion + 1
          /\ Store(r, "executed") /\ Apply(p)

\* set_status(APPROVED) on the draft as it was loaded.
ExecuteListing(r, p) ==
    LET version == review[r].version + 1 IN
    /\ proposal[p].kind = "listing"
    /\ UNCHANGED itemVersion
    /\ \/ /\ Snapshot(version)
          /\ draft' = [status |-> "approved", version |-> version]
          /\ Store(r, "executed") /\ Apply(p)
       \/ version \in snaps /\ RollBack(r) /\ UNCHANGED <<draft, snaps, applied>>

ExecuteOther(r, p) ==
    /\ proposal[p].kind = "other"
    /\ Store(r, "executed")
    /\ UNCHANGED <<target, applied>>

ExecuteProposal(r) ==
    LET p == review[r].on IN
    /\ review[r].phase = "executing"
    /\ ExecuteInventory(r, p) \/ ExecuteListing(r, p) \/ ExecuteOther(r, p)
    /\ UNCHANGED <<author, contested>>

Next ==
    \/ EditItem \/ CreateMasterDraft \/ SubmitProposal
    \/ \E a \in Authors : LoadDraft(a) \/ RequestListingApproval(a)
    \/ \E p \in DOMAIN proposal : Expire(p)
    \/ \E r \in Reviewers : \/ LoadProposal(r) \/ RejectProposal(r)
                            \/ LoadTarget(r) \/ ExecuteProposal(r)

Spec == Init /\ [][Next]_vars

-----------------------------------------------------------------------------
(* Properties *)

\* Rows have their types; the draft's newest snapshot is its version.
TypeOK ==
    /\ itemVersion \in 1..(MaxItemVersion + MaxProposals)
    /\ draft \in [status : DraftStatus, version : 0..(MaxDraftVersion + 1)]
    /\ snaps = 1..draft.version
    /\ proposal \in Seq(Proposal) /\ applied \in [DOMAIN proposal -> Nat]
    /\ contested \subseteq DOMAIN proposal
    /\ author \in [Authors -> [phase : {"idle", "listing"},
                              version : 0..MaxDraftVersion]]
    /\ review \in [Reviewers -> [phase : {"idle", "deciding", "executing"},
                                on : 0..Len(proposal), approve : BOOLEAN, version : Nat]]

\* An approved draft is the version a reviewer was shown, one later for the
\* approval itself, however drafts and decisions overlap; and no proposal's
\* change is made twice.
ApprovedAsReviewed ==
    /\ draft.status = "approved" =>
         \E p \in DOMAIN proposal : /\ proposal[p].kind = "listing"
                                   /\ applied[p] = 1
                                   /\ draft.version = proposal[p].at + 1
    /\ \A p \in DOMAIN proposal : applied[p] <= 1

\* The status of a proposal tells whether its change was made, unless two
\* reviewers had both found it pending.
OutcomeTold ==
    \A p \in DOMAIN proposal \ contested :
        (applied[p] = 1) <=> (proposal[p].status = "executed" /\ proposal[p].kind # "other")

\* Reviewers can trust what they decided: an approved draft is the one that was
\* reviewed, and a proposal's status tells whether its change was made.
DecisionsHold == ApprovedAsReviewed /\ OutcomeTold
=============================================================================
