------------------------------ MODULE Messages ------------------------------
(* One buyer's thread: process_routine_messages and respond_message of
   MarketplaceService (src/goliath/marketplace/service.py).  The category of a
   message, which classify_message reads off its words, is given. *)
EXTENDS Naturals

CONSTANTS Responders,        \* jobs and requests that answer the thread
          Bodies,            \* the buyer's messages
          Facts,             \* what a caller may know of the item, as ship_days
          MaxMessageFaults   \* bound: replies lost or simulated, bodies asked for
                             \* again, and responders that died

VARIABLES category,      \* what classify_message makes of each body
          responder,     \* what each responder does
          inbound,       \* bodies with an inbound MessageRecord
          outcome,       \* by body: the record that came after it
          replies,       \* marketplace: by text, replies sent
          known,         \* message keys with a succeeded attempt row
          messageFaults, \* how many of these there were
          crowd,         \* history: by text, replies nothing could know of
          pretended,     \* history: texts the simulated adapter took
          dropped        \* history: bodies whose responder died

vars == <<category, responder, inbound, outcome, replies, known, messageFaults,
          crowd, pretended, dropped>>

\* Categories the rules let answer, and one that is escalated.
Routine == {"availability", "shipping_timing"}
Category == Routine \cup {"legal_claim"}

\* The routine categories whose template has a place for a fact.
Templated == {"shipping_timing"}
NoFacts == "n/a"

\* build_response
Text(k, f) == <<k, IF k \in Templated THEN f ELSE NoFacts>>
Texts == {Text(k, f) : k \in Routine, f \in Facts}

\* The record that follows the inbound one.
Outcome == {"none", "escalated", "delivered", "undelivered"}

NoBody == "none"
Unread == "unread"
Idle == [phase |-> "idle", body |-> NoBody, facts |-> NoFacts, ok |-> FALSE]

Init ==
    /\ category = [b \in Bodies |-> Unread]
    /\ responder = [r \in Responders |-> Idle]
    /\ inbound = {} /\ outcome = [b \in Bodies |-> "none"]
    /\ replies = [t \in Texts |-> 0] /\ crowd = replies
    /\ known = {} /\ pretended = {} /\ messageFaults = 0 /\ dropped = {}

Go(r, phase) == responder' = [responder EXCEPT ![r].phase = phase]
Done(r) == responder' = [responder EXCEPT ![r] = Idle]
Fault == messageFaults < MaxMessageFaults /\ messageFaults' = messageFaults + 1
Kind(r) == category[responder[r].body]
Reply(r) == Text(Kind(r), responder[r].facts)

\* has_message_checksum
HasMessage(b) == b \in inbound

\* What a call is given: a body, and the facts of that call.
Takes(r, b, f) ==
    responder' = [responder EXCEPT ![r] = [Idle EXCEPT !.phase = "read", !.body = b, !.facts = f]]

\* The job skips a body it knows; the check and the record are transactions of
\* their own.
ReadMessage(r) ==
    /\ responder[r].phase = "idle"
    /\ \E b \in Bodies, f \in Facts : ~HasMessage(b) /\ Takes(r, b, f)
    /\ UNCHANGED <<category, inbound, outcome, replies, known, messageFaults, crowd, pretended, dropped>>

\* A request to answer a body is not checked against what is known.  Such a
\* request counts against the bound on faults.
AskToRespond(r) ==
    /\ responder[r].phase = "idle"
    /\ \E b \in inbound, f \in Facts : outcome[b] # "none" /\ Takes(r, b, f)
    /\ Fault
    /\ UNCHANGED <<category, inbound, outcome, replies, known, crowd, pretended, dropped>>

\* The body is recorded before anything is done about it.  It has one category.
RecordInbound(r) ==
    /\ responder[r].phase = "read"
    /\ LET b == responder[r].body IN
         /\ inbound' = inbound \cup {b}
         /\ \E k \in IF category[b] = Unread THEN Category ELSE {category[b]} :
              category' = [category EXCEPT ![b] = k]
    /\ Go(r, "classified")
    /\ UNCHANGED <<outcome, replies, known, messageFaults, crowd, pretended, dropped>>

EscalateMessage(r) ==
    /\ responder[r].phase = "classified" /\ Kind(r) \notin Routine
    /\ outcome' = [outcome EXCEPT ![responder[r].body] = "escalated"]
    /\ Done(r)
    /\ UNCHANGED <<category, inbound, replies, known, messageFaults, crowd, pretended, dropped>>

\* Seeded fault: every message has a key of its own.
MessageKeyOfBody(r) == responder[r].body

\* The key is a hash of the thread, the category and the reply's text.
MessageKey(r) == Reply(r)

\* send_message finds its key verified and replays it, or goes on.
CheckReply(r) ==
    /\ responder[r].phase = "classified" /\ Kind(r) \in Routine
    /\ responder' = [responder EXCEPT
         ![r].phase = IF MessageKey(r) \in known THEN "sent" ELSE "sending", ![r].ok = TRUE]
    /\ UNCHANGED <<category, inbound, outcome, replies, known, messageFaults, crowd, pretended, dropped>>

\* Another reply of this text passed its replay check before this one has a row.
Crowded(r) == \E o \in Responders \ {r} :
    responder[o].phase = "sending" /\ Reply(o) = Reply(r)

\* Delivered and verified; delivered, with the outcome lost; taken by the
\* simulated adapter, for an account whose mode was changed; refused, or
\* shadowed, whose receipt has no word of a delivery.
SendReply(r) ==
    LET t == Reply(r)
        Ends(ok) == responder' = [responder EXCEPT ![r].phase = "sent", ![r].ok = ok]
        More(count, n) == [count EXCEPT ![t] = @ + n] IN
    /\ responder[r].phase = "sending"
    /\ \/ /\ replies' = More(replies, 1) /\ known' = known \cup {MessageKey(r)}
          /\ crowd' = More(crowd, IF Crowded(r) THEN 1 ELSE 0)
          /\ Ends(TRUE) /\ UNCHANGED <<messageFaults, pretended>>
       \/ /\ Fault
          /\ replies' = More(replies, 1) /\ crowd' = More(crowd, 1)
          /\ Ends(FALSE) /\ UNCHANGED <<known, pretended>>
       \/ /\ Fault
          /\ known' = known \cup {MessageKey(r)} /\ pretended' = pretended \cup {t}
          /\ Ends(TRUE) /\ UNCHANGED <<replies, crowd>>
       \/ Ends(FALSE) /\ UNCHANGED <<replies, known, messageFaults, crowd, pretended>>
    /\ UNCHANGED <<category, inbound, outcome, dropped>>

\* An outbound record is added whether or not the reply was delivered.
RecordOutbound(r) ==
    /\ responder[r].phase = "sent"
    /\ outcome' = [outcome EXCEPT ![responder[r].body] =
         IF responder[r].ok THEN "delivered" ELSE "undelivered"]
    /\ Done(r)
    /\ UNCHANGED <<category, inbound, replies, known, messageFaults, crowd, pretended, dropped>>

ResponderDies(r) ==
    /\ responder[r].phase \in {"classified", "sent"} /\ Fault
    /\ dropped' = dropped \cup {responder[r].body}
    /\ Done(r)
    /\ UNCHANGED <<category, inbound, outcome, replies, known, crowd, pretended>>

Next == \E r \in Responders :
    \/ ReadMessage(r) \/ AskToRespond(r) \/ RecordInbound(r) \/ EscalateMessage(r)
    \/ CheckReply(r) \/ SendReply(r) \/ RecordOutbound(r) \/ ResponderDies(r)

Spec == Init /\ [][Next]_vars

-----------------------------------------------------------------------------
(* Properties *)

\* The thread and its responders have their types.
TypeOK ==
    /\ category \in [Bodies -> Category \cup {Unread}] /\ inbound \subseteq Bodies
    /\ responder \in [Responders -> [phase : {"idle", "read", "classified", "sending", "sent"},
                                     body : Bodies \cup {NoBody},
                                     facts : Facts \cup {NoFacts}, ok : BOOLEAN]]
    /\ outcome \in [Bodies -> Outcome]
    /\ replies \in [Texts -> Nat] /\ crowd \in [Texts -> Nat] /\ pretended \subseteq Texts
    /\ messageFaults \in 0..MaxMessageFaults /\ dropped \subseteq Bodies

\* A thread gets each text once, so a category whose text states a fact may be
\* answered once for each fact: a second one of the same text was sent while the
\* first was not known of, because its outcome was lost or it was still on its
\* way.  What is recorded as delivered was: a text of the body's category was
\* sent, or the simulated adapter took it for sent.  A body that was recorded is
\* escalated or answered, or its responder is at work or has died; nobody takes
\* up such a body again.
OneReply ==
    /\ \A t \in Texts : replies[t] <= 1 + crowd[t]
    /\ \A b \in Bodies : outcome[b] = "delivered" =>
         \E f \in Facts : LET t == Text(category[b], f) IN
            t \in Texts /\ (replies[t] > 0 \/ t \in pretended)
    /\ \A b \in inbound \ dropped :
         outcome[b] # "none" \/ \E r \in Responders : responder[r].body = b
=============================================================================
