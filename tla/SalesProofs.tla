---------------------------- MODULE SalesProofs -----------------------------
(* The proofs of the safety properties of Sales, for any number of accounts,
   publish runs, detectors and orders.

   The properties are not inductive: why a row may say ended, or an item sold,
   is in what the processes did before and still have in memory. Inv adds it:

     Rows     a run's row for an account follows the run (none, publishing,
              the answer), so that a row is never overwritten by its own run
              once others may have written it;
     Known    what the database knows to be published is at the marketplace;
     Ended    whoever is about to write that a listing has ended (a handling
              of a sale, a refresh, a reconciliation) has seen it down;
     Backed   a live listing has an active row, or a publishing row whose run
              answers for it or has died;
     Closed   from the first transaction of a sale on no run is admitted to
              an account that this transaction did not see;
     Tracked  what a handling has not brought down it still has on its list,
              among its failures, or in hand.

   Steps are of two kinds. A step of a publish run (Run) changes the run's
   own rows and lets the listing it sends go up. Every other step (Tame)
   writes known listings' rows only, and brings listings down only. The
   lemmas about Run and Tame carry the parts above through both kinds. *)
EXTENDS Sales, SequenceTheorems, TLAPS

-----------------------------------------------------------------------------
(* Typing *)

PubRow == [phase : {"idle", "accounts", "allowed", "created", "answered", "done"},
           left : SUBSET Accounts, at : Accounts \cup {NoAccount}, ok : BOOLEAN, any : BOOLEAN]

DetRow == [phase : {"idle", "orders", "stored", "ending", "ended", "retrying", "retried"},
           queue : SUBSET Orders, seen : [Orders -> Payment], todo : SUBSET Listing,
           failed : Seq(Listing), next : Nat \ {0}, at : Listing \cup {NoListing}, ok : BOOLEAN]

\* A detector keeps its failed listings in a sequence, and a position in it.
Types == TypeOK /\ det \in [Detectors -> DetRow]

\* The listings the records name are accounts' and have a linked row.
Calling == {"allowed", "created", "answered"}
Sane ==
    /\ \A p \in Publishers : pub[p].phase \in Calling => pub[p].at \in Accounts
    /\ touch # IdleTouch => touch.at \in Listing /\ touch.to \in Linked
    /\ \A d \in Detectors : det[d].phase \in {"ended", "retried"} => det[d].at \in Listing
    /\ \A d \in Detectors : det[d].phase = "retried" => det[d].next <= Len(det[d].failed)

\* A row is changed; the others are not.
LEMMA SetRowFacts ==
    ASSUME Types, NEW p \in Publishers, NEW a \in Accounts, NEW s \in RowStatus,
           SetRow(<<p, a>>, s)
    PROVE  /\ row' \in [Publishers -> [Accounts -> RowStatus]]
           /\ row'[p][a] = s
           /\ \A q \in Publishers, b \in Accounts : <<q, b>> # <<p, a>> => row'[q][b] = row[q][b]
  <1>1. row' = [row EXCEPT ![p] = [row[p] EXCEPT ![a] = s]]
    BY DEF SetRow
  <1>2. row \in [Publishers -> [Accounts -> RowStatus]]
    BY DEF Types, TypeOK
  <1>3. [row[p] EXCEPT ![a] = s] \in [Accounts -> RowStatus]
    BY <1>2
  <1>4. row'[p] = [row[p] EXCEPT ![a] = s] /\ \A q \in Publishers \ {p} : row'[q] = row[q]
    BY <1>1, <1>2
  <1>5. row'[p][a] = s /\ \A b \in Accounts \ {a} : row'[p][b] = row[p][b]
    BY <1>2, <1>4
  <1>6. row' \in [Publishers -> [Accounts -> RowStatus]]
    BY <1>1, <1>2, <1>3
  <1>. QED
    BY <1>4, <1>5, <1>6

\* A listing is a run's, on an account.
LEMMA ListingParts ==
    ASSUME NEW l \in Listing
    PROVE  l[1] \in Publishers /\ l[2] \in Accounts /\ l = <<l[1], l[2]>>
  BY DEF Listing

\* Taking a position out of a sequence loses at most the element there.
LEMMA RemoveAtFacts ==
    ASSUME NEW S, NEW s \in Seq(S), NEW i \in 1 .. Len(s)
    PROVE  /\ RemoveAt(s, i) \in Seq(S)
           /\ ToSet(RemoveAt(s, i)) \subseteq ToSet(s)
           /\ ToSet(s) \subseteq ToSet(RemoveAt(s, i)) \cup {s[i]}
  <1>. DEFINE u == SubSeq(s, 1, i - 1)
              v == SubSeq(s, i + 1, Len(s))
  <1>0. Len(s) \in Nat /\ DOMAIN s = 1 .. Len(s) /\ i \in Nat /\ i >= 1 /\ i <= Len(s)
    BY LenProperties
  <1>1. /\ u \in Seq(S) /\ Len(u) = i - 1
        /\ \A k \in 1 .. i - 1 : u[k] = s[k]
    <2>1. i - 1 \in Int /\ 1 \in Int /\ \A k \in 1 .. i - 1 : s[k] \in S
      BY <1>0
    <2>2. /\ SubSeq(s, 1, i - 1) \in Seq(S)
          /\ Len(SubSeq(s, 1, i - 1)) = IF 1 <= i - 1 THEN (i - 1) - 1 + 1 ELSE 0
          /\ \A k \in 1 .. (i - 1) - 1 + 1 : SubSeq(s, 1, i - 1)[k] = s[1 + k - 1]
      BY <2>1, SubSeqProperties
    <2>3. \A k \in 1 .. i - 1 : k \in 1 .. (i - 1) - 1 + 1 /\ 1 + k - 1 = k
      BY <1>0
    <2>. QED
      BY <1>0, <2>2, <2>3
  <1>2. /\ v \in Seq(S) /\ Len(v) = Len(s) - i
        /\ \A k \in 1 .. Len(s) - i : v[k] = s[i + k]
    <2>1. i + 1 \in Int /\ Len(s) \in Int /\ \A k \in i + 1 .. Len(s) : s[k] \in S
      BY <1>0
    <2>2. /\ SubSeq(s, i + 1, Len(s)) \in Seq(S)
          /\ Len(SubSeq(s, i + 1, Len(s))) = IF i + 1 <= Len(s) THEN Len(s) - (i + 1) + 1 ELSE 0
          /\ \A k \in 1 .. Len(s) - (i + 1) + 1 : SubSeq(s, i + 1, Len(s))[k] = s[(i + 1) + k - 1]
      BY <2>1, SubSeqProperties
    <2>3. ASSUME NEW k \in 1 .. Len(s) - i PROVE v[k] = s[i + k]
      <3>1. k \in 1 .. Len(s) - (i + 1) + 1 /\ (i + 1) + k - 1 = i + k
        BY <1>0
      <3>2. SubSeq(s, i + 1, Len(s))[k] = s[(i + 1) + k - 1]
        BY <2>2, <3>1, Zenon
      <3>. QED
        BY <3>1, <3>2, Zenon
    <2>4. Len(v) = Len(s) - i
      <3>1. \A n \in Nat : \A j \in 1 .. n : (IF j + 1 <= n THEN n - (j + 1) + 1 ELSE 0) = n - j
        OBVIOUS
      <3>2. (IF i + 1 <= Len(s) THEN Len(s) - (i + 1) + 1 ELSE 0) = Len(s) - i
        BY <1>0, <3>1, Zenon
      <3>. QED
        BY <2>2, <3>2
    <2>. QED
      BY <2>2, <2>3, <2>4, Zenon
  <1>. DEFINE w == u \o v
              n == Len(s)
  <1>. HIDE DEF u, v
  <1>3. /\ w \in Seq(S) /\ Len(w) = n - 1
        /\ \A k \in 1 .. n - 1 : w[k] = IF k <= i - 1 THEN u[k] ELSE v[k - (i - 1)]
    <2>1. /\ u \o v \in Seq(S)
          /\ Len(u \o v) = Len(u) + Len(v)
          /\ \A k \in 1 .. Len(u) + Len(v) :
                (u \o v)[k] = IF k <= Len(u) THEN u[k] ELSE v[k - Len(u)]
      BY <1>1, <1>2, ConcatProperties
    <2>2. Len(u) + Len(v) = n - 1
      BY <1>0, <1>1, <1>2
    <2>. QED
      BY <1>1, <2>1, <2>2
  <1>4. DOMAIN w = 1 .. n - 1 /\ n \in Nat
    BY <1>0, <1>3, LenProperties
  <1>. HIDE DEF w, n
  <1>5. \A k \in 1 .. n - 1 : w[k] = IF k < i THEN s[k] ELSE s[k + 1]
    <2>1. ASSUME NEW k \in 1 .. n - 1, k < i PROVE w[k] = s[k]
      BY <1>0, <1>1, <1>3, <1>4, <2>1
    <2>2. ASSUME NEW k \in 1 .. n - 1, ~(k < i) PROVE w[k] = s[k + 1]
      <3>1. k - (i - 1) \in 1 .. n - i /\ i + (k - (i - 1)) = k + 1 /\ ~(k <= i - 1)
        BY <1>0, <1>4, <2>2
      <3>2. v[k - (i - 1)] = s[i + (k - (i - 1))]
        BY <1>2, <3>1 DEF n
      <3>. QED
        BY <1>3, <3>1, <3>2
    <2>. QED
      BY <2>1, <2>2
  <1>6. DOMAIN s = 1 .. n /\ i \in 1 .. n
    BY <1>0 DEF n
  <1>7. ToSet(w) \subseteq ToSet(s)
    <2>1. ASSUME NEW k \in 1 .. n - 1 PROVE w[k] \in ToSet(s)
      <3>1. k \in 1 .. n /\ k + 1 \in 1 .. n
        BY <1>4
      <3>. QED
        BY <1>5, <1>6, <3>1 DEF ToSet
    <2>. QED
      BY <1>4, <2>1 DEF ToSet
  <1>8. ASSUME NEW k \in 1 .. n, k # i PROVE s[k] \in ToSet(w)
    <2>1. CASE k < i
      <3>1. k \in 1 .. n - 1
        BY <1>4, <1>6, <2>1
      <3>. QED
        BY <1>4, <1>5, <2>1, <3>1 DEF ToSet
    <2>2. CASE k > i
      <3>1. PICK m \in 1 .. n - 1 : k = m + 1 /\ ~(m < i)
        <4>1. k - 1 \in 1 .. n - 1 /\ k = (k - 1) + 1 /\ ~(k - 1 < i)
          BY <1>4, <1>6, <2>2
        <4>. QED
          BY <4>1
      <3>2. w[m] = s[k]
        BY <1>5, <3>1
      <3>. QED
        BY <1>4, <3>2 DEF ToSet
    <2>. QED
      BY <1>4, <1>6, <1>8, <2>1, <2>2
  <1>9. ToSet(s) \subseteq ToSet(w) \cup {s[i]}
    BY <1>6, <1>8 DEF ToSet
  <1>. QED
    BY <1>3, <1>7, <1>9 DEF RemoveAt, u, v, w

\* Appending adds the element.
LEMMA AppendSet ==
    ASSUME NEW S, NEW s \in Seq(S), NEW e \in S
    PROVE  Append(s, e) \in Seq(S) /\ ToSet(Append(s, e)) = ToSet(s) \cup {e}
  <1>1. /\ Append(s, e) \in Seq(S)
        /\ Len(Append(s, e)) = Len(s) + 1
        /\ \A i \in 1 .. Len(s) : Append(s, e)[i] = s[i]
        /\ Append(s, e)[Len(s) + 1] = e
    BY AppendProperties
  <1>2. Len(s) \in Nat /\ DOMAIN s = 1 .. Len(s) /\ DOMAIN Append(s, e) = 1 .. Len(s) + 1
    BY <1>1, LenProperties
  <1>. QED
    BY <1>1, <1>2 DEF ToSet

\* The resting records of runs and detectors.
LEMMA RestingRows ==
    /\ IdlePub \in PubRow /\ DonePub \in PubRow
    /\ IdleDet \in DetRow
    /\ IdlePub.phase = "idle" /\ IdlePub.left = {} /\ DonePub.phase = "done" /\ DonePub.left = {}
    /\ IdleDet.phase = "idle" /\ IdleDet.todo = {} /\ IdleDet.failed = <<>> /\ IdleDet.next = 1
  <1>1. <<>> \in Seq(Listing)
    OBVIOUS
  <1>2. NoAccount \in Accounts \cup {NoAccount} /\ NoListing \in Listing \cup {NoListing}
    OBVIOUS
  <1>3. IdlePub \in PubRow /\ IdlePub.phase = "idle" /\ IdlePub.left = {}
    BY <1>2 DEF IdlePub, PubRow
  <1>4. DonePub \in PubRow /\ DonePub.phase = "done" /\ DonePub.left = {}
    BY <1>3 DEF DonePub, PubRow
  <1>5. IdleDet \in DetRow
    <2>1. [o \in Orders |-> "none"] \in [Orders -> Payment]
      BY DEF Payment
    <2>. QED
      BY <1>1, <1>2, <2>1 DEF IdleDet, DetRow
  <1>. QED
    BY <1>3, <1>4, <1>5 DEF IdleDet

\* A detector's record changes, to a record of its type.
LEMMA DetUpdate ==
    ASSUME Types, NEW d \in Detectors, NEW x \in DetRow, det' = [det EXCEPT ![d] = x]
    PROVE  /\ det' \in [Detectors -> DetRow]
           /\ det'[d] = x
           /\ \A e \in Detectors \ {d} : det'[e] = det[e]
  BY DEF Types

\* What TypeOK says of the detectors follows from the record's type.
LEMMA DetTyped ==
    ASSUME NEW D \in [Detectors -> DetRow]
    PROVE  \A d \in Detectors :
              /\ D[d].phase \in {"idle", "orders", "stored", "ending", "ended", "retrying", "retried"}
              /\ D[d].queue \subseteq Orders
              /\ D[d].seen \in [Orders -> Payment]
              /\ D[d].todo \cup ToSet(D[d].failed) \subseteq Listing
              /\ D[d].at \in Listing \cup {NoListing}
              /\ D[d].ok \in BOOLEAN
  <1> SUFFICES ASSUME NEW d \in Detectors
               PROVE  ToSet(D[d].failed) \subseteq Listing /\ D[d] \in DetRow
    BY DEF DetRow
  <1>1. D[d] \in DetRow
    OBVIOUS
  <1>2. D[d].failed \in Seq(Listing)
    BY <1>1 DEF DetRow
  <1>. QED
    BY <1>1, <1>2, LenProperties DEF ToSet

\* The publish runs and their rows.
LEMMA TypePublishing ==
    ASSUME Types, Sane, NEW p \in Publishers, Publish(p) \/ Publishing(p) \/ PublisherDies(p)
    PROVE  Types'
  <1>. USE DEF PubAt, Calling
  <1>1. /\ pub \in [Publishers -> PubRow]
        /\ row \in [Publishers -> [Accounts -> RowStatus]]
        /\ limits \in Limits /\ events \in 0 .. limits.events /\ limits.events \in Nat
        /\ item \in ItemStatus
    BY LimitsAssumption DEF Types, TypeOK, PubRow
  <1>2. ASSUME pub' \in [Publishers -> PubRow],
               row' \in [Publishers -> [Accounts -> RowStatus]],
               remote' \in [Accounts -> {"none", "live", "ended", "sold"}],
               saved' \in [Accounts -> BOOLEAN], gap' \in [Accounts -> SUBSET Gap],
               item' \in ItemStatus, limits' = limits, events' \in 0 .. limits.events,
               UNCHANGED <<reserved, blocked, excepted, order, det, touch, unseen>>
        PROVE  Types'
    BY <1>2 DEF Types, TypeOK, PubRow
  <1>3. ASSUME NEW x \in PubRow, pub' = [pub EXCEPT ![p] = x]
        PROVE  pub' \in [Publishers -> PubRow]
    BY <1>1, <1>3
  <1>4. CASE Publish(p)
    <2>1. pub' \in [Publishers -> PubRow]
      BY ZenonT(30), <1>1, <1>4 DEF Publish, PubRow
    <2>. QED
      BY <1>1, <1>2, <1>4, <2>1 DEF Publish, tables, market, budget, Types, TypeOK
  <1>5. ASSUME NEW a \in Accounts, CheckEligibility(p, a) PROVE Types'
    <2>1. pub' \in [Publishers -> PubRow]
      <3>1. CASE Eligible(a)
        BY <1>1, <1>5, <3>1 DEF CheckEligibility, PubRow
      <3>2. CASE ~Eligible(a)
        <4>. DEFINE x == [pub[p] EXCEPT !.left = @ \ {a}, !.phase = "accounts", !.at = NoAccount]
        <4>1. pub' = [pub EXCEPT ![p] = x]
          BY <1>5, <3>2 DEF CheckEligibility
        <4>2. x \in PubRow
          BY <1>1 DEF PubRow
        <4>. QED
          BY <1>3, <4>1, <4>2
      <3>. QED
        BY <3>1, <3>2
    <2>. QED
      BY <1>1, <1>2, <1>5, <2>1 DEF CheckEligibility, tables, market, budget, Types, TypeOK
  <1>6. CASE CreateRow(p)
    <2>1. pub' \in [Publishers -> PubRow]
      BY <1>1, <1>6 DEF CreateRow, PubRow
    <2>2. pub[p].at \in Accounts /\ "publishing" \in RowStatus
      BY <1>6 DEF CreateRow, RowStatus, Sane
    <2>3. row' \in [Publishers -> [Accounts -> RowStatus]]
      BY <1>6, <2>2, SetRowFacts DEF CreateRow
    <2>. QED
      BY <1>1, <1>2, <1>6, <2>1, <2>3 DEF CreateRow, tables, market, budget, Types, TypeOK
  <1>7. ASSUME NEW outcome, SendPublish(p, outcome) PROVE Types'
    <2>1. pub' \in [Publishers -> PubRow]
      <3>1. PICK ok \in BOOLEAN : Answer(p, ok)
        BY <1>7 DEF SendPublish
      <3>. QED
        BY ZenonT(30), <1>1, <3>1 DEF Answer, PubRow
    <2>2. remote \in [Accounts -> {"none", "live", "ended", "sold"}] /\ saved \in [Accounts -> BOOLEAN]
          /\ gap \in [Accounts -> SUBSET Gap]
      BY DEF Types, TypeOK
    <2>3. remote' \in [Accounts -> {"none", "live", "ended", "sold"}]
          /\ saved' \in [Accounts -> BOOLEAN]
      BY <1>7, <2>2 DEF SendPublish, GoesUp, market
    <2>4. gap' \in [Accounts -> SUBSET Gap]
      BY ZenonT(30), <1>7, <2>2 DEF SendPublish, market, Gap
    <2>. QED
      BY <1>1, <1>2, <1>7, <2>1, <2>3, <2>4 DEF SendPublish, tables, budget
  <1>8. CASE ApplyPublish(p)
    <2>1. pub[p] \in PubRow /\ pub[p].at \in Accounts
      BY <1>1, <1>8 DEF ApplyPublish, Sane
    <2>2. Visiting(p) \in PubRow /\ [Visiting(p) EXCEPT !.any = TRUE] \in PubRow
      BY <2>1 DEF Visiting, PubRow
    <2>3. pub' \in [Publishers -> PubRow]
      BY <1>1, <1>8, <2>2, RestingRows DEF ApplyPublish
    <2>4. row' \in [Publishers -> [Accounts -> RowStatus]]
      BY <1>1, <1>8, <2>1, SetRowFacts DEF ApplyPublish, RowStatus, Linked
    <2>. QED
      BY <1>1, <1>2, <1>8, <2>3, <2>4 DEF ApplyPublish, tables, market, budget, Types, TypeOK
  <1>9. CASE FinishPublish(p)
    <2>1. pub' \in [Publishers -> PubRow] /\ item' \in ItemStatus
      BY <1>1, <1>9, RestingRows DEF FinishPublish, ItemStatus
    <2>. QED
      BY <1>1, <1>2, <1>9, <2>1 DEF FinishPublish, market, budget, Types, TypeOK
  <1>10. CASE PublisherDies(p)
    <2>1. pub' \in [Publishers -> PubRow] /\ events' \in 0 .. limits.events /\ limits' = limits
      BY <1>1, <1>10, RestingRows DEF PublisherDies, Event
    <2>. QED
      BY <1>1, <1>2, <1>10, <2>1 DEF PublisherDies, tables, market, Types, TypeOK
  <1>. QED
    BY <1>4, <1>5, <1>6, <1>7, <1>8, <1>9, <1>10 DEF Publishing

\* Buyers, time, and the refreshes of listings.
LEMMA TypeOthers ==
    ASSUME Types, Sane,
           \/ \E o \in Orders : Pay(o) \/ \E a \in Accounts : Buy(o, a, "paid") \/ Buy(o, a, "pending")
           \/ ReleaseReservation \/ BreakerCools \/ StoreTouch
           \/ \E l \in Listing, to \in Linked : TouchListing(l, to)
    PROVE  Types'
  <1>1. /\ limits \in Limits /\ events \in 0 .. limits.events /\ limits.events \in Nat
        /\ remote \in [Accounts -> {"none", "live", "ended", "sold"}]
        /\ order \in [Orders -> [account : Accounts \cup {NoAccount}, payment : Payment,
                                 stored : Payment, tied : BOOLEAN]]
        /\ row \in [Publishers -> [Accounts -> RowStatus]]
        /\ {reserved, blocked, excepted} \subseteq BOOLEAN
        /\ touch \in [at : Listing \cup {NoListing}, to : RowStatus]
    BY LimitsAssumption DEF Types, TypeOK
  <1>2. ASSUME row' \in [Publishers -> [Accounts -> RowStatus]],
               remote' \in [Accounts -> {"none", "live", "ended", "sold"}],
               order' \in [Orders -> [account : Accounts \cup {NoAccount}, payment : Payment,
                                      stored : Payment, tied : BOOLEAN]],
               {reserved', blocked', excepted'} \subseteq BOOLEAN,
               touch' \in [at : Listing \cup {NoListing}, to : RowStatus],
               limits' = limits, events' \in 0 .. limits.events,
               UNCHANGED <<item, saved, gap, pub, det, unseen>>
        PROVE  Types'
    BY <1>2 DEF Types, TypeOK
  <1>3. ASSUME NEW o \in Orders, Pay(o) PROVE Types'
    <2>1. order' \in [Orders -> [account : Accounts \cup {NoAccount}, payment : Payment,
                                 stored : Payment, tied : BOOLEAN]]
      BY SMTT(30), <1>1, <1>3 DEF Pay, Payment
    <2>. QED
      BY <1>1, <1>2, <1>3, <2>1 DEF Pay, tables, market, budget
  <1>4. ASSUME NEW o \in Orders, NEW a \in Accounts, NEW payment \in Payment, Buy(o, a, payment)
        PROVE  Types'
    <2>1. order' \in [Orders -> [account : Accounts \cup {NoAccount}, payment : Payment,
                                 stored : Payment, tied : BOOLEAN]]
      BY <1>1, <1>4 DEF Buy
    <2>2. remote' \in [Accounts -> {"none", "live", "ended", "sold"}]
      BY <1>1, <1>4 DEF Buy
    <2>. QED
      BY <1>1, <1>2, <1>4, <2>1, <2>2 DEF Buy, tables, budget
  <1>5. CASE ReleaseReservation \/ BreakerCools
    <2>1. limits' = limits /\ events' \in 0 .. limits.events
      BY <1>1, <1>5 DEF ReleaseReservation, BreakerCools, Event
    <2>2. {reserved', blocked', excepted'} \subseteq BOOLEAN
      BY <1>1, <1>5 DEF ReleaseReservation, BreakerCools
    <2>. QED
      BY <1>1, <1>2, <1>5, <2>1, <2>2 DEF ReleaseReservation, BreakerCools, market
  <1>6. CASE StoreTouch
    <2>1. touch.at \in Listing /\ touch.to \in RowStatus /\ SetRow(touch.at, touch.to)
      BY <1>6 DEF StoreTouch, Sane, RowStatus
    <2>2. row' \in [Publishers -> [Accounts -> RowStatus]]
      BY <2>1, ListingParts, SetRowFacts
    <2>3. touch' \in [at : Listing \cup {NoListing}, to : RowStatus]
      BY <1>6 DEF StoreTouch, IdleTouch, RowStatus
    <2>. QED
      BY <1>1, <1>2, <1>6, <2>2, <2>3 DEF StoreTouch, tables, market, budget
  <1>7. ASSUME NEW l \in Listing, NEW to \in Linked, TouchListing(l, to) PROVE Types'
    <2>1. touch' \in [at : Listing \cup {NoListing}, to : RowStatus]
      BY <1>7 DEF TouchListing, RowStatus
    <2>. QED
      BY <1>1, <1>2, <1>7, <2>1 DEF TouchListing, Event, tables, market
  <1>8. "paid" \in Payment /\ "pending" \in Payment
    BY DEF Payment
  <1>. QED
    BY <1>3, <1>4, <1>5, <1>6, <1>7, <1>8

\* Only d's record changes, and it stays one.
Only(d) == /\ det' \in [Detectors -> DetRow]
           /\ \A e \in Detectors \ {d} : det'[e] = det[e]

\* Taking up orders keeps what the detector has to end.
LEMMA OrderDet ==
    ASSUME Types, NEW d \in Detectors,
           \/ \E o \in Orders : UpsertOrder(d, o) \/ TakeOrder(d, o)
           \/ \E a \in Accounts : SyncOrders(d, a) \/ ProcessSales(d, a)
    PROVE  /\ Only(d) /\ det'[d].phase \in {"stored", "idle", "orders"}
           /\ det'[d].todo = det[d].todo /\ det'[d].failed = det[d].failed
  <1>1. /\ det \in [Detectors -> DetRow] /\ det[d] \in DetRow
        /\ order \in [Orders -> [account : Accounts \cup {NoAccount}, payment : Payment,
                                 stored : Payment, tied : BOOLEAN]]
    BY DEF Types, TypeOK
  <1>2. PICK ph \in {"stored", "idle", "orders"}, Q \in SUBSET Orders, sn \in [Orders -> Payment] :
            det' = [det EXCEPT ![d] = [det[d] EXCEPT !.phase = ph, !.queue = Q, !.seen = sn]]
    <2>1. ASSUME NEW o \in Orders, UpsertOrder(d, o)
          PROVE  \E ph \in {"stored", "idle", "orders"}, Q \in SUBSET Orders, sn \in [Orders -> Payment] :
                    det' = [det EXCEPT ![d] = [det[d] EXCEPT !.phase = ph, !.queue = Q, !.seen = sn]]
      <3>1. [det[d].seen EXCEPT ![o] = "none"] \in [Orders -> Payment] /\ det[d].queue \ {o} \in SUBSET Orders
        BY <1>1 DEF DetRow, Payment
      <3>2. PICK ph \in {"stored", "idle", "orders"} :
              det' = [det EXCEPT ![d].queue = det[d].queue \ {o}, ![d].phase = ph, ![d].seen[o] = "none"]
        BY <2>1 DEF UpsertOrder
      <3>3. det' = [det EXCEPT ![d] = [det[d] EXCEPT !.phase = ph, !.queue = det[d].queue \ {o},
                                            !.seen = [det[d].seen EXCEPT ![o] = "none"]]]
        BY <1>1, <3>2 DEF DetRow
      <3>. QED
        BY <3>1, <3>3
    <2>2. ASSUME NEW o \in Orders, TakeOrder(d, o)
          PROVE  \E ph \in {"stored", "idle", "orders"}, Q \in SUBSET Orders, sn \in [Orders -> Payment] :
                    det' = [det EXCEPT ![d] = [det[d] EXCEPT !.phase = ph, !.queue = Q, !.seen = sn]]
      <3>1. det[d].seen \in [Orders -> Payment] /\ det[d].queue \ {o} \in SUBSET Orders
        BY <1>1 DEF DetRow
      <3>2. PICK ph \in {"stored", "idle", "orders"} :
              det' = [det EXCEPT ![d].queue = det[d].queue \ {o}, ![d].phase = ph]
        BY <2>2 DEF TakeOrder
      <3>3. det' = [det EXCEPT ![d] = [det[d] EXCEPT !.phase = ph, !.queue = det[d].queue \ {o},
                                            !.seen = det[d].seen]]
        BY <1>1, <3>2 DEF DetRow
      <3>. QED
        BY <3>1, <3>3
    <2>3. ASSUME NEW a \in Accounts, SyncOrders(d, a)
          PROVE  \E ph \in {"stored", "idle", "orders"}, Q \in SUBSET Orders, sn \in [Orders -> Payment] :
                    det' = [det EXCEPT ![d] = [det[d] EXCEPT !.phase = ph, !.queue = Q, !.seen = sn]]
      <3>1. [o \in Orders |-> order[o].payment] \in [Orders -> Payment] /\ OrdersOf(a) \in SUBSET Orders
        BY <1>1 DEF OrdersOf
      <3>2. det' = [det EXCEPT ![d] = [det[d] EXCEPT !.phase = "orders", !.queue = OrdersOf(a),
                                          !.seen = [o \in Orders |-> order[o].payment]]]
        BY <1>1, <2>3 DEF SyncOrders, DetRow
      <3>. QED
        BY <3>1, <3>2
    <2>4. ASSUME NEW a \in Accounts, ProcessSales(d, a)
          PROVE  \E ph \in {"stored", "idle", "orders"}, Q \in SUBSET Orders, sn \in [Orders -> Payment] :
                    det' = [det EXCEPT ![d] = [det[d] EXCEPT !.phase = ph, !.queue = Q, !.seen = sn]]
      <3>. DEFINE paid == {o \in OrdersOf(a) : order[o].stored = "paid"}
      <3>1. [o \in Orders |-> "none"] \in [Orders -> Payment] /\ paid \in SUBSET Orders
        BY <1>1 DEF OrdersOf, Payment
      <3>2. det' = [det EXCEPT ![d] = [det[d] EXCEPT !.phase = "orders", !.queue = paid,
                                          !.seen = [o \in Orders |-> "none"]]]
        BY <1>1, <2>4 DEF ProcessSales, DetRow
      <3>. QED
        BY <3>1, <3>2
    <2>. QED
      BY <2>1, <2>2, <2>3, <2>4
  <1>. DEFINE x == [det[d] EXCEPT !.phase = ph, !.queue = Q, !.seen = sn]
  <1>3. x \in DetRow /\ x.phase = ph /\ x.todo = det[d].todo /\ x.failed = det[d].failed
    BY <1>1 DEF DetRow
  <1>. QED
    BY <1>2, <1>3, DetUpdate DEF Only

\* A detector that takes up orders, or leaves off.
LEMMA TypeOrders ==
    ASSUME Types, Sane, NEW d \in Detectors,
           \/ \E o \in Orders : UpsertOrder(d, o) \/ TakeOrder(d, o)
           \/ \E a \in Accounts : SyncOrders(d, a) \/ ProcessSales(d, a)
           \/ DetectorDies(d)
    PROVE  Types'
  <1>1. /\ det \in [Detectors -> DetRow] /\ det[d] \in DetRow
        /\ order \in [Orders -> [account : Accounts \cup {NoAccount}, payment : Payment,
                                 stored : Payment, tied : BOOLEAN]]
        /\ limits \in Limits /\ events \in 0 .. limits.events /\ limits.events \in Nat
    BY LimitsAssumption DEF Types, TypeOK
  <1>2. ASSUME det' \in [Detectors -> DetRow],
               order' \in [Orders -> [account : Accounts \cup {NoAccount}, payment : Payment,
                                      stored : Payment, tied : BOOLEAN]],
               limits' = limits, events' \in 0 .. limits.events,
               UNCHANGED <<tables, row, market, pub, touch, unseen>>
        PROVE  Types'
    <2>1. \A e \in Detectors :
              /\ det'[e].phase \in {"idle", "orders", "stored", "ending", "ended", "retrying", "retried"}
              /\ det'[e].queue \subseteq Orders
              /\ det'[e].seen \in [Orders -> Payment]
              /\ det'[e].todo \cup ToSet(det'[e].failed) \subseteq Listing
              /\ det'[e].at \in Listing \cup {NoListing}
              /\ det'[e].ok \in BOOLEAN
      BY <1>2, DetTyped
    <2>. QED
      BY <1>2, <2>1 DEF Types, TypeOK, tables, market
  <1>3. ASSUME NEW o \in Orders, UpsertOrder(d, o) PROVE Types'
    <2>1. det[d].seen[o] \in Payment /\ FindsItem(order[o].account) \in BOOLEAN
      BY <1>1 DEF DetRow, FindsItem
    <2>2. order' \in [Orders -> [account : Accounts \cup {NoAccount}, payment : Payment,
                                 stored : Payment, tied : BOOLEAN]]
      BY <1>1, <1>3, <2>1 DEF UpsertOrder
    <2>3. det' \in [Detectors -> DetRow]
      BY <1>3, OrderDet DEF Only
    <2>. QED
      BY <1>1, <1>2, <1>3, <2>2, <2>3 DEF UpsertOrder, budget
  <1>4. ASSUME NEW o \in Orders, TakeOrder(d, o) PROVE Types'
    <2>1. det' \in [Detectors -> DetRow]
      BY <1>4, OrderDet DEF Only
    <2>. QED
      BY <1>1, <1>2, <1>4, <2>1 DEF TakeOrder, budget
  <1>5. ASSUME NEW a \in Accounts, SyncOrders(d, a) \/ ProcessSales(d, a) PROVE Types'
    <2>1. det' \in [Detectors -> DetRow]
      BY <1>5, OrderDet DEF Only
    <2>. QED
      BY <1>1, <1>2, <1>5, <2>1 DEF SyncOrders, ProcessSales, budget
  <1>6. CASE DetectorDies(d)
    <2>1. det' \in [Detectors -> DetRow]
      BY <1>6, RestingRows, DetUpdate DEF DetectorDies
    <2>. QED
      BY <1>1, <1>2, <1>6, <2>1 DEF DetectorDies, Event
  <1>. QED
    BY <1>3, <1>4, <1>5, <1>6

-----------------------------------------------------------------------------
(* What the steps of a sale's handling make of a detector's record *)

\* The listings the first transaction found are to be ended.
LEMMA ReserveDet ==
    ASSUME Types, NEW d \in Detectors, Reserve(d)
    PROVE  /\ Only(d) /\ det'[d].phase = "ending" /\ det'[d].todo = ActiveListings
           /\ det'[d].failed = det[d].failed
  <1>1. det[d] \in DetRow /\ ActiveListings \in SUBSET Listing
    BY DEF Types, ActiveListings
  <1>. DEFINE x == [det[d] EXCEPT !.phase = "ending", !.todo = ActiveListings]
  <1>2. x \in DetRow /\ x.phase = "ending" /\ x.todo = ActiveListings
        /\ x.failed = det[d].failed
    BY <1>1 DEF DetRow
  <1>3. det' = [det EXCEPT ![d] = x]
    BY <1>1 DEF Reserve
  <1>. QED
    BY <1>2, <1>3, DetUpdate DEF Only

\* A listing is taken off the list for good.
LEMMA EndListingDet ==
    ASSUME Types, NEW d \in Detectors, NEW l \in Listing, NEW outcome, NEW ok \in BOOLEAN,
           EndListing(d, l, outcome, ok)
    PROVE  /\ Only(d) /\ det'[d].phase = "ended" /\ det'[d].todo = det[d].todo \ {l}
           /\ det'[d].at = l /\ det'[d].ok = ok /\ det'[d].failed = det[d].failed
           /\ det'[d].next = det[d].next
  <1>1. det[d] \in DetRow
    BY DEF Types
  <1>. DEFINE x == [det[d] EXCEPT !.phase = "ended", !.at = l, !.ok = ok, !.todo = det[d].todo \ {l}]
  <1>2. /\ x \in DetRow /\ x.phase = "ended" /\ x.todo = det[d].todo \ {l} /\ x.at = l /\ x.ok = ok
        /\ x.failed = det[d].failed /\ x.next = det[d].next
    BY <1>1 DEF DetRow
  <1>3. det' = [det EXCEPT ![d] = x]
    BY <1>1 DEF EndListing
  <1>. QED
    BY <1>2, <1>3, DetUpdate DEF Only

\* Its row is written, or it has failed.
LEMMA StoreEndedDet ==
    ASSUME Types, Sane, NEW d \in Detectors, StoreEnded(d)
    PROVE  /\ Only(d) /\ det'[d].phase = "ending" /\ det'[d].todo = det[d].todo
           /\ ToSet(det'[d].failed)
              = ToSet(det[d].failed) \cup (IF det[d].ok THEN {} ELSE {det[d].at})
  <1>1. /\ det[d] \in DetRow /\ det[d].failed \in Seq(Listing) /\ det[d].at \in Listing
        /\ NoListing \in Listing \cup {NoListing}
    BY DEF Types, DetRow, Sane, StoreEnded, DetAt
  <1>. DEFINE f == IF det[d].ok THEN det[d].failed ELSE Append(det[d].failed, det[d].at)
              x == [det[d] EXCEPT !.phase = "ending", !.at = NoListing, !.ok = FALSE, !.failed = f]
  <1>2. f \in Seq(Listing)
        /\ ToSet(f) = ToSet(det[d].failed) \cup (IF det[d].ok THEN {} ELSE {det[d].at})
    BY <1>1, AppendSet
  <1>3. det' = [det EXCEPT ![d] = x]
    BY <1>1 DEF StoreEnded
  <1>. HIDE DEF f
  <1>4. x \in DetRow /\ x.phase = "ending" /\ x.todo = det[d].todo /\ x.failed = f
    BY <1>1, <1>2 DEF DetRow
  <1>. QED
    BY <1>2, <1>3, <1>4, DetUpdate DEF Only

\* A listing that failed is tried again.
LEMMA RetryDet ==
    ASSUME Types, NEW d \in Detectors, NEW outcome, NEW ok \in BOOLEAN, Retry(d, outcome, ok)
    PROVE  /\ Only(d) /\ det'[d].phase = "retried" /\ det'[d].todo = det[d].todo
           /\ det'[d].at = det[d].failed[det[d].next] /\ det'[d].at \in Listing
           /\ det'[d].at \in ToSet(det[d].failed)
           /\ det'[d].ok = ok /\ det'[d].failed = det[d].failed /\ det'[d].next = det[d].next
           /\ det[d].next <= Len(det[d].failed) /\ EndRemote(det'[d].at, outcome, ok)
  <1>1. /\ det[d] \in DetRow /\ det[d].failed \in Seq(Listing) /\ det[d].next \in Nat \ {0}
        /\ det[d].next <= Len(det[d].failed) /\ Len(det[d].failed) \in Nat
    BY LenProperties DEF Types, DetRow, Retry
  <1>. DEFINE l == det[d].failed[det[d].next]
              x == [det[d] EXCEPT !.phase = "retried", !.at = l, !.ok = ok]
  <1>2. det[d].next \in DOMAIN det[d].failed
    BY <1>1, LenProperties
  <1>3. l \in Listing /\ l \in ToSet(det[d].failed)
    BY <1>1, <1>2, LenProperties DEF ToSet
  <1>4. /\ x \in DetRow /\ x.phase = "retried" /\ x.todo = det[d].todo /\ x.at = l /\ x.ok = ok
        /\ x.failed = det[d].failed /\ x.next = det[d].next
    BY <1>1, <1>3 DEF DetRow
  <1>5. det' = [det EXCEPT ![d] = x] /\ EndRemote(l, outcome, ok)
    BY <1>1 DEF Retry
  <1>. QED
    BY <1>1, <1>3, <1>4, <1>5, DetUpdate DEF Only

\* The retried listing leaves the failed ones when its row is written.
LEMMA StoreRetriedDet ==
    ASSUME Types, Sane, NEW d \in Detectors, StoreRetried(d)
    PROVE  /\ Only(d) /\ det'[d].phase = "retrying" /\ det'[d].todo = det[d].todo
           /\ ToSet(det'[d].failed) \subseteq ToSet(det[d].failed)
           /\ ToSet(det[d].failed) \subseteq ToSet(det'[d].failed)
              \cup (IF det[d].ok THEN {det[d].failed[det[d].next]} ELSE {})
  <1>1. /\ det[d] \in DetRow /\ det[d].failed \in Seq(Listing) /\ det[d].next \in Nat \ {0}
        /\ det[d].next <= Len(det[d].failed) /\ Len(det[d].failed) \in Nat
        /\ NoListing \in Listing \cup {NoListing} /\ det[d].next + 1 \in Nat \ {0}
    BY LenProperties DEF Types, DetRow, StoreRetried, Sane, DetAt
  <1>. DEFINE f == StillFailed(d)
              x == [det[d] EXCEPT !.phase = "retrying", !.at = NoListing, !.ok = FALSE,
                                  !.failed = f, !.next = det[d].next + 1]
  <1>2. det[d].next \in 1 .. Len(det[d].failed)
    BY <1>1
  <1>3. /\ f \in Seq(Listing) /\ ToSet(f) \subseteq ToSet(det[d].failed)
        /\ ToSet(det[d].failed) \subseteq ToSet(f)
              \cup (IF det[d].ok THEN {det[d].failed[det[d].next]} ELSE {})
    BY <1>1, <1>2, RemoveAtFacts DEF StillFailed
  <1>4. det' = [det EXCEPT ![d] = x]
    BY <1>1 DEF StoreRetried
  <1>. HIDE DEF f
  <1>5. x \in DetRow /\ x.phase = "retrying" /\ x.todo = det[d].todo /\ x.failed = f
    BY <1>1, <1>3 DEF DetRow
  <1>. QED
    BY <1>3, <1>4, <1>5, DetUpdate DEF Only

\* The handling is over.
LEMMA RestDet ==
    ASSUME Types, NEW d \in Detectors, det' = [det EXCEPT ![d] = Rest(d)]
    PROVE  /\ Only(d) /\ det'[d].phase \in {"idle", "orders"} /\ det'[d].todo = {}
           /\ det'[d].failed = <<>>
  <1>1. det[d] \in DetRow
    BY DEF Types
  <1>2. Rest(d) \in DetRow /\ Rest(d).phase \in {"idle", "orders"} /\ Rest(d).todo = {}
        /\ Rest(d).failed = <<>>
    <2>1. CASE det[d].queue = {}
      BY <2>1, RestingRows DEF Rest
    <2>2. CASE det[d].queue # {}
      BY <1>1, <2>2, RestingRows DEF Rest, DetRow
    <2>. QED
      BY <2>1, <2>2
  <1>. QED
    BY <1>2, DetUpdate DEF Only

\* A call that ends a listing changes its account only, and for the worse.
LEMMA EndRemoteFacts ==
    ASSUME Types, NEW l \in Listing, NEW outcome, NEW ok, EndRemote(l, outcome, ok)
    PROVE  /\ remote' \in [Accounts -> {"none", "live", "ended", "sold"}]
           /\ gap' \in [Accounts -> SUBSET Gap] /\ saved' = saved
           /\ \A a \in Accounts : /\ gap[a] \subseteq gap'[a]
                                  /\ \/ remote'[a] = remote[a]
                                     \/ remote[a] = "live" /\ remote'[a] = "ended"
           /\ ok /\ remote'[l[2]] = "live" => "shadowed" \in gap'[l[2]]
  <1>1. l[2] \in Accounts
    BY ListingParts
  <1>2. remote \in [Accounts -> {"none", "live", "ended", "sold"}] /\ gap \in [Accounts -> SUBSET Gap]
    BY DEF Types, TypeOK
  <1>3. /\ remote' \in [Accounts -> {"none", "live", "ended", "sold"}]
        /\ \A a \in Accounts : remote'[a] = remote[a] \/ (remote[a] = "live" /\ remote'[a] = "ended")
        /\ outcome = "verified" => remote'[l[2]] # "live"
    BY <1>1, <1>2 DEF EndRemote
  <1>4. /\ gap' \in [Accounts -> SUBSET Gap] /\ \A a \in Accounts : gap[a] \subseteq gap'[a]
        /\ outcome = "shadowed" => "shadowed" \in gap'[l[2]]
    BY <1>1, <1>2 DEF EndRemote, Gap
  <1>. QED
    BY <1>1, <1>3, <1>4 DEF EndRemote

\* The steps of a sale's handling keep the types.
LEMMA TypeSale ==
    ASSUME Types, Sane, NEW d \in Detectors, OnSale(d)
    PROVE  Types'
  <1>1. /\ row \in [Publishers -> [Accounts -> RowStatus]]
        /\ remote \in [Accounts -> {"none", "live", "ended", "sold"}]
        /\ gap \in [Accounts -> SUBSET Gap] /\ unseen \subseteq Accounts
        /\ item \in ItemStatus /\ {reserved, blocked, excepted} \subseteq BOOLEAN
    BY DEF Types, TypeOK
  <1>2. ASSUME det' \in [Detectors -> DetRow],
               row' \in [Publishers -> [Accounts -> RowStatus]],
               remote' \in [Accounts -> {"none", "live", "ended", "sold"}],
               gap' \in [Accounts -> SUBSET Gap], unseen' \subseteq Accounts,
               item' \in ItemStatus, {reserved', blocked', excepted'} \subseteq BOOLEAN,
               UNCHANGED <<saved, order, pub, touch, budget>>
        PROVE  Types'
    <2>1. \A e \in Detectors :
              /\ det'[e].phase \in {"idle", "orders", "stored", "ending", "ended", "retrying", "retried"}
              /\ det'[e].queue \subseteq Orders
              /\ det'[e].seen \in [Orders -> Payment]
              /\ det'[e].todo \cup ToSet(det'[e].failed) \subseteq Listing
              /\ det'[e].at \in Listing \cup {NoListing}
              /\ det'[e].ok \in BOOLEAN
      BY <1>2, DetTyped
    <2>. QED
      BY <1>2, <2>1 DEF Types, TypeOK, budget
  <1>3. CASE Reserve(d)
    <2>1. UnderWay \subseteq Accounts
      BY DEF UnderWay, Types, TypeOK
    <2>2. unseen' \subseteq Accounts /\ item' \in ItemStatus
      BY <1>1, <1>3, <2>1 DEF Reserve, ItemStatus
    <2>. QED
      BY <1>1, <1>2, <1>3, <2>2, ReserveDet DEF Reserve, market, Only
  <1>4. CASE StoreEnded(d)
    <2>1. row' \in [Publishers -> [Accounts -> RowStatus]]
      <3>1. det[d].at \in Listing /\ "ended" \in RowStatus
        BY <1>4 DEF StoreEnded, Sane, DetAt, RowStatus, Linked
      <3>. QED
        BY <1>1, <1>4, <3>1, ListingParts, SetRowFacts DEF StoreEnded
    <2>. QED
      BY <1>1, <1>2, <1>4, <2>1, StoreEndedDet DEF StoreEnded, market, tables, Only
  <1>5. CASE StoreRetried(d)
    <2>1. row' \in [Publishers -> [Accounts -> RowStatus]]
      <3>1. det[d].at \in Listing /\ "ended" \in RowStatus
        BY <1>5 DEF StoreRetried, Sane, DetAt, RowStatus, Linked
      <3>. QED
        BY <1>1, <1>5, <3>1, ListingParts, SetRowFacts DEF StoreRetried
    <2>. QED
      BY <1>1, <1>2, <1>5, <2>1, StoreRetriedDet DEF StoreRetried, market, tables, Only
  <1>6. CASE SoldOut(d)
    BY <1>1, <1>2, <1>6, RestDet DEF SoldOut, market, Only, ItemStatus
  <1>7. ASSUME NEW slow, RaiseRisk(d, slow) PROVE Types'
    BY <1>1, <1>2, <1>7, RestDet DEF RaiseRisk, market, Only
  <1>8. ASSUME NEW outcome, NEW ok \in BOOLEAN, Retry(d, outcome, ok) PROVE Types'
    <2>1. /\ remote' \in [Accounts -> {"none", "live", "ended", "sold"}]
          /\ gap' \in [Accounts -> SUBSET Gap] /\ saved' = saved
      BY <1>8, RetryDet, EndRemoteFacts
    <2>. QED
      BY <1>1, <1>2, <1>8, <2>1, RetryDet DEF Retry, tables, Only
  <1>9. ASSUME NEW outcome, NEW ok \in BOOLEAN, NEW l \in Listing, EndListing(d, l, outcome, ok)
        PROVE  Types'
    <2>1. /\ remote' \in [Accounts -> {"none", "live", "ended", "sold"}]
          /\ gap' \in [Accounts -> SUBSET Gap] /\ saved' = saved
      BY <1>9, EndRemoteFacts DEF EndListing
    <2>2. det' \in [Detectors -> DetRow]
      BY <1>9, EndListingDet DEF Only
    <2>. QED
      BY <1>1, <1>2, <1>9, <2>1, <2>2 DEF EndListing, tables
  <1>. QED
    BY <1>3, <1>4, <1>5, <1>6, <1>7, <1>8, <1>9 DEF OnSale

\* Every step keeps the types.
LEMMA TypeNext == Types /\ Sane /\ [Next]_vars => Types'
  <1> SUFFICES ASSUME Types, Sane, [Next]_vars PROVE Types'
    OBVIOUS
  <1>1. CASE UNCHANGED vars
    BY <1>1 DEF Types, TypeOK, vars, tables, market, budget
  <1>2. CASE Next
    BY <1>2, TypePublishing, TypeOthers, TypeOrders, TypeSale DEF Next, Detecting
  <1>. QED
    BY <1>1, <1>2

\* The types hold at first.
LEMMA TypeInit == Init => Types
  <1> SUFFICES ASSUME Init PROVE Types
    OBVIOUS
  <1>1. pub \in [Publishers -> PubRow] /\ det \in [Detectors -> DetRow]
    BY RestingRows DEF Init
  <1>2. IdleTouch \in [at : Listing \cup {NoListing}, to : RowStatus]
    BY DEF IdleTouch, RowStatus
  <1>3. limits \in Limits /\ events \in 0 .. limits.events
    BY LimitsAssumption DEF Init
  <1>4. order \in [Orders -> [account : Accounts \cup {NoAccount}, payment : Payment,
                              stored : Payment, tied : BOOLEAN]]
    BY DEF Init, Payment
  <1>5. row \in [Publishers -> [Accounts -> RowStatus]]
    BY DEF Init, RowStatus
  <1>6. \A d \in Detectors :
          /\ det[d].phase \in {"idle", "orders", "stored", "ending", "ended", "retrying", "retried"}
          /\ det[d].queue \subseteq Orders
          /\ det[d].seen \in [Orders -> Payment]
          /\ det[d].todo \cup ToSet(det[d].failed) \subseteq Listing
          /\ det[d].at \in Listing \cup {NoListing}
          /\ det[d].ok \in BOOLEAN
    BY <1>1, DetTyped
  <1>. QED
    BY <1>1, <1>2, <1>3, <1>4, <1>5, <1>6 DEF Init, Types, TypeOK, PubRow, ItemStatus

-----------------------------------------------------------------------------
(* The inductive invariant *)

Sending == {"created", "answered"}

\* The row a run makes for an account goes from none through publishing to
\* what the marketplace says, at the account the run is at.
RowsOfRun(p) ==
    /\ PubAt(p, "idle") => \A a \in Accounts : row[p][a] = "none"
    /\ \A a \in pub[p].left : row[p][a] = "none"
    /\ PubAt(p, "allowed") => row[p][pub[p].at] = "none"
    /\ pub[p].phase \in Sending => row[p][pub[p].at] = "publishing"
    /\ pub[p].phase \in Calling => pub[p].at \in Accounts \ pub[p].left
    /\ \A a \in Accounts : row[p][a] = "publishing" =>
          PubAt(p, "done") \/ (pub[p].phase \in Sending /\ pub[p].at = a)

Rows == \A p \in Publishers : RowsOfRun(p)

\* What the database knows to be published is at the marketplace.
Known ==
    /\ \A a \in Accounts : saved[a] => remote[a] # "none"
    /\ \A l \in Listing : StatusOf(l) \in Linked => remote[l[2]] # "none"
    /\ \A p \in Publishers : PubAt(p, "answered") /\ pub[p].ok => remote[pub[p].at] # "none"

\* The account's listing cannot be bought any more, as far as the gateway says.
Down(a) == remote[a] \notin {"none", "live"} \/ "shadowed" \in gap[a]

\* Who is about to write that a listing has ended has seen it end.
EndedRows == \A l \in Listing : StatusOf(l) = "ended" => Down(l[2])
EndedTouch ==
    touch # IdleTouch =>
        /\ touch.at \in Listing /\ StatusOf(touch.at) \in Linked /\ touch.to \in Linked
        /\ touch.to = "ended" => Down(touch.at[2])
EndedBy(d) ==
    /\ \A l \in det[d].todo \cup ToSet(det[d].failed) : StatusOf(l) \in Linked
    /\ det[d].phase \in {"ended", "retried"} =>
          /\ det[d].at \in Listing /\ StatusOf(det[d].at) \in Linked
          /\ det[d].ok => Down(det[d].at[2])
Ended == EndedRows /\ EndedTouch /\ \A d \in Detectors : EndedBy(d)

\* A live listing has a row that a sale finds, or a publish run that answers for it.
Backs(p, a) ==
    \/ row[p][a] = "active"
    \/ /\ row[p][a] = "publishing" /\ ~PubAt(p, "created")
       /\ PubAt(p, "answered") => pub[p].ok
Backed == \A a \in Accounts : remote[a] = "live" => gap[a] # {} \/ \E p \in Publishers : Backs(p, a)

\* From the first transaction of a sale on no account is admitted.
Handling == {"ending", "ended", "retrying", "retried"}
Begun == item = "sold" \/ \E d \in Detectors : det[d].phase \in Handling
Closed == Begun => /\ item # "ready"
                   /\ \A p \in Publishers : pub[p].phase \in Calling => pub[p].at \in unseen

\* What a handling has not brought down yet, it still knows of.
Pending(d) == det[d].todo \cup ToSet(det[d].failed)
              \cup (IF DetAt(d, "ended") /\ ~det[d].ok THEN {det[d].at} ELSE {})
Accounted(a, L) == a \in unseen \/ gap[a] # {} \/ \E l \in L : l[2] = a
TrackedBy(d) ==
    /\ det[d].phase \in Handling => \A a \in Accounts : remote[a] = "live" => Accounted(a, Pending(d))
    /\ det[d].phase \in {"retrying", "retried"} => det[d].todo = {}
    /\ det[d].phase = "retried" => /\ det[d].next <= Len(det[d].failed)
                                   /\ det[d].at = det[d].failed[det[d].next]
Tracked == SoldIsOffMarket /\ \A d \in Detectors : TrackedBy(d)

Inv == Types /\ Rows /\ Known /\ Ended /\ Backed /\ Closed /\ Tracked

\* The records name real listings, by the parts about rows, ends and retries.
LEMMA InvNamed == Rows /\ Ended /\ Tracked => Sane
  BY DEF Rows, RowsOfRun, Ended, EndedTouch, EndedBy, Tracked, TrackedBy, Sane

-----------------------------------------------------------------------------
(* Steps that are not a publish run's *)

\* They write the rows of known listings only, and bring listings down only.
Tame ==
    /\ pub' = pub /\ saved' = saved
    /\ \A p \in Publishers, a \in Accounts :
          /\ row[p][a] \notin Linked => row'[p][a] = row[p][a]
          /\ row[p][a] \in Linked => row'[p][a] \in Linked
          /\ row'[p][a] = "ended" => row[p][a] = "ended" \/ Down(a)
    /\ \A a \in Accounts :
          /\ gap[a] \subseteq gap'[a]
          /\ remote'[a] = remote[a] \/ (remote[a] = "live" /\ remote'[a] \in {"ended", "sold"})

\* A linked row is overwritten by a linked status.
LEMMA WriteTame ==
    ASSUME Types, NEW l \in Listing, NEW s \in Linked, StatusOf(l) \in Linked, SetRow(l, s),
           s = "ended" => Down(l[2]), UNCHANGED <<pub, market>>
    PROVE  Tame
  <1>1. l[1] \in Publishers /\ l[2] \in Accounts /\ SetRow(<<l[1], l[2]>>, s) /\ s \in RowStatus
    BY ListingParts DEF RowStatus
  <1>2. /\ row'[l[1]][l[2]] = s
        /\ \A q \in Publishers, b \in Accounts : <<q, b>> # <<l[1], l[2]>> => row'[q][b] = row[q][b]
    BY <1>1, SetRowFacts
  <1>3. ASSUME NEW q \in Publishers, NEW b \in Accounts
        PROVE  /\ row[q][b] \notin Linked => row'[q][b] = row[q][b]
               /\ row[q][b] \in Linked => row'[q][b] \in Linked
               /\ row'[q][b] = "ended" => row[q][b] = "ended" \/ Down(b)
    <2>1. CASE <<q, b>> = <<l[1], l[2]>>
      BY <1>1, <1>2, <2>1 DEF StatusOf
    <2>2. CASE <<q, b>> # <<l[1], l[2]>>
      BY <1>2, <2>2
    <2>. QED
      BY <2>1, <2>2
  <1>. QED
    BY <1>3 DEF Tame, market

\* Every step that is not a publish run's is tame.
LEMMA OthersTame ==
    ASSUME Types, Ended, Sane,
           \/ \E o \in Orders : Pay(o) \/ \E a \in Accounts : Buy(o, a, "paid") \/ Buy(o, a, "pending")
           \/ ReleaseReservation \/ BreakerCools \/ StoreTouch
           \/ \E l \in Listing, to \in Linked : TouchListing(l, to)
           \/ \E d \in Detectors : Detecting(d) \/ DetectorDies(d)
           \/ \E d \in Detectors, a \in Accounts : SyncOrders(d, a) \/ ProcessSales(d, a)
    PROVE  Tame
  <1>1. ASSUME UNCHANGED <<pub, row, market>> PROVE Tame
    BY <1>1 DEF Tame, market
  <1>2. ASSUME NEW o \in Orders, NEW a \in Accounts, NEW payment, Buy(o, a, payment) PROVE Tame
    <2>1. remote \in [Accounts -> {"none", "live", "ended", "sold"}]
      BY DEF Types, TypeOK
    <2>. QED
      BY <1>2, <2>1 DEF Buy, Tame
  <1>3. CASE StoreTouch
    BY <1>3, WriteTame DEF StoreTouch, Ended, EndedTouch
  <1>4. ASSUME NEW d \in Detectors, StoreEnded(d) \/ StoreRetried(d) PROVE Tame
    <2>1. det[d].at \in Listing /\ StatusOf(det[d].at) \in Linked /\ "ended" \in Linked
          /\ (det[d].ok => Down(det[d].at[2]))
      BY <1>4 DEF StoreEnded, StoreRetried, DetAt, Ended, EndedBy, Linked
    <2>2. CASE det[d].ok
      BY <1>4, <2>1, <2>2, WriteTame DEF StoreEnded, StoreRetried
    <2>3. CASE ~det[d].ok
      BY <1>1, <1>4, <2>3 DEF StoreEnded, StoreRetried
    <2>. QED
      BY <2>2, <2>3
  <1>5. ASSUME NEW d \in Detectors, NEW l \in Listing, NEW outcome, NEW ok, EndRemote(l, outcome, ok),
               UNCHANGED <<pub, row>>
        PROVE  Tame
    BY <1>5, EndRemoteFacts DEF Tame
  <1>6. ASSUME NEW d \in Detectors, OnSale(d) PROVE Tame
    <2>1. ASSUME NEW outcome, NEW ok \in BOOLEAN, Retry(d, outcome, ok) PROVE Tame
      BY <1>5, <2>1, RetryDet DEF Retry
    <2>2. ASSUME NEW outcome, NEW ok \in BOOLEAN, NEW l \in Listing, EndListing(d, l, outcome, ok)
          PROVE  Tame
      BY <1>5, <2>2 DEF EndListing
    <2>3. CASE Reserve(d) \/ SoldOut(d) \/ \E slow \in BOOLEAN : RaiseRisk(d, slow)
      BY <1>1, <2>3 DEF Reserve, SoldOut, RaiseRisk
    <2>. QED
      BY <1>4, <1>6, <2>1, <2>2, <2>3 DEF OnSale
  <1>7. ASSUME NEW d \in Detectors, NEW o \in Orders, UpsertOrder(d, o) \/ TakeOrder(d, o) PROVE Tame
    BY <1>1, <1>7 DEF UpsertOrder, TakeOrder
  <1>8. ASSUME NEW d \in Detectors, NEW a \in Accounts,
               SyncOrders(d, a) \/ ProcessSales(d, a) \/ DetectorDies(d)
        PROVE  Tame
    BY <1>1, <1>8 DEF SyncOrders, ProcessSales, DetectorDies
  <1>9. ASSUME NEW d \in Detectors, DetectorDies(d) PROVE Tame
    BY <1>1, <1>9 DEF DetectorDies
  <1>10. CASE ReleaseReservation \/ BreakerCools \/ \E o \in Orders : Pay(o)
    BY <1>1, <1>10 DEF ReleaseReservation, BreakerCools, Pay
  <1>11. ASSUME NEW l \in Listing, NEW to \in Linked, TouchListing(l, to) PROVE Tame
    BY <1>1, <1>11 DEF TouchListing
  <1>. QED
    BY <1>2, <1>3, <1>6, <1>7, <1>8, <1>9, <1>10, <1>11 DEF Detecting

\* What a tame step leaves of the invariant's parts.
LEMMA TameKeeps ==
    ASSUME Types, Types', Rows, Known, Ended, Backed, Tame
    PROVE  /\ Rows' /\ Known' /\ EndedRows' /\ Backed'
           /\ \A l \in Listing : StatusOf(l) \in Linked => StatusOf(l)' \in Linked
           /\ \A a \in Accounts : Down(a) => Down(a)'
  <1>1. \A l \in Listing : l[1] \in Publishers /\ l[2] \in Accounts
    BY ListingParts
  <1>2. \A a \in Accounts : Down(a) => Down(a)'
    BY DEF Down, Tame
  <1>3. \A l \in Listing : StatusOf(l) \in Linked <=> StatusOf(l)' \in Linked
    BY <1>1 DEF StatusOf, Tame
  <1>4. Rows'
    <2> SUFFICES ASSUME NEW p \in Publishers PROVE RowsOfRun(p)'
      BY DEF Rows
    <2>1. RowsOfRun(p) /\ pub[p] \in PubRow
      BY DEF Rows, Types, TypeOK, PubRow
    <2>2. \A a \in Accounts : row[p][a] \in {"none", "publishing"} \/ row'[p][a] \in {"none", "publishing"}
                                => row'[p][a] = row[p][a]
      BY DEF Tame, Linked
    <2>. QED
      BY <2>1, <2>2 DEF RowsOfRun, PubAt, Tame, PubRow, Calling, Sending
  <1>5. Known'
    <2>1. \A a \in Accounts : remote[a] # "none" => remote'[a] # "none"
      BY DEF Tame
    <2>2. \A p \in Publishers : pub[p].phase \in Calling => pub[p].at \in Accounts
      BY DEF Rows, RowsOfRun
    <2>. QED
      BY <1>1, <1>3, <2>1, <2>2 DEF Known, Tame, PubAt, Calling
  <1>6. EndedRows'
    BY <1>1, <1>2 DEF Ended, EndedRows, StatusOf, Tame
  <1>7. Backed'
    <2> SUFFICES ASSUME NEW a \in Accounts, remote'[a] = "live", gap'[a] = {}
                 PROVE  \E p \in Publishers : Backs(p, a)'
      BY DEF Backed
    <2>1. remote[a] = "live" /\ gap[a] = {} /\ ~Down(a)
      BY DEF Tame, Down
    <2>2. PICK p \in Publishers : Backs(p, a)
      BY <2>1 DEF Backed
    <2>3. row'[p][a] = row[p][a]
      BY <2>1, <2>2 DEF Tame, Backs, Linked
    <2>. QED
      BY <2>2, <2>3 DEF Backs, Tame, PubAt
  <1>. QED
    BY <1>2, <1>3, <1>4, <1>5, <1>6, <1>7

-----------------------------------------------------------------------------
(* Steps of a publish run *)

\* What a step of the run p changes: its own rows, which do not become ended,
\* and the listing of the account it sends, which may go up.
Run(p) ==
    /\ UNCHANGED <<det, touch, unseen>>
    /\ \A q \in Publishers \ {p} : pub'[q] = pub[q] /\ row'[q] = row[q]
    /\ \A a \in Accounts :
          /\ row[p][a] \in Linked => row'[p][a] = row[p][a]
          /\ row'[p][a] = "ended" => row[p][a] = "ended"
          /\ saved[a] => saved'[a]
          /\ gap[a] \subseteq gap'[a]
          /\ \/ remote'[a] = remote[a]
             \/ /\ remote[a] = "none" /\ remote'[a] = "live"
                /\ PubAt(p, "created") /\ a = pub[p].at

\* A step that only moves the run on.
LEMMA RunMoves ==
    ASSUME Types, Rows, NEW p \in Publishers, NEW x \in PubRow, pub' = [pub EXCEPT ![p] = x],
           UNCHANGED <<row, market, det, touch, unseen>>
    PROVE  Run(p) /\ pub'[p] = x
  <1>1. pub \in [Publishers -> PubRow]
    BY DEF Types, TypeOK, PubRow
  <1>. QED
    BY <1>1 DEF Run, market

\* A step that writes the row of the account the run is at.
LEMMA RunWrites ==
    ASSUME Types, NEW p \in Publishers, NEW a \in Accounts, NEW s \in RowStatus, NEW x \in PubRow,
           row[p][a] \notin Linked, s # "ended", SetRow(<<p, a>>, s),
           pub' = [pub EXCEPT ![p] = x], UNCHANGED <<market, det, touch, unseen>>
    PROVE  /\ Run(p) /\ pub'[p] = x /\ row'[p][a] = s
           /\ \A b \in Accounts \ {a} : row'[p][b] = row[p][b]
  <1>1. pub \in [Publishers -> PubRow]
    BY DEF Types, TypeOK, PubRow
  <1>2. /\ row' \in [Publishers -> [Accounts -> RowStatus]]
        /\ row'[p][a] = s
        /\ \A q \in Publishers, b \in Accounts : <<q, b>> # <<p, a>> => row'[q][b] = row[q][b]
    BY SetRowFacts
  <1>3. row \in [Publishers -> [Accounts -> RowStatus]]
    BY DEF Types, TypeOK
  <1>4. \A q \in Publishers \ {p} : row'[q] = row[q]
    <2>. SUFFICES ASSUME NEW q \in Publishers \ {p} PROVE row'[q] = row[q]
      OBVIOUS
    <2>1. row'[q] \in [Accounts -> RowStatus] /\ row[q] \in [Accounts -> RowStatus]
      BY <1>2, <1>3
    <2>2. \A b \in Accounts : row'[q][b] = row[q][b]
      BY <1>2
    <2>. QED
      BY <2>1, <2>2
  <1>5. \A b \in Accounts \ {a} : row'[p][b] = row[p][b]
    BY <1>2
  <1>. QED
    BY <1>1, <1>2, <1>4, <1>5 DEF Run, market

\* The call of create_listing.
LEMMA RunSends ==
    ASSUME Types, Rows, NEW p \in Publishers, NEW outcome, SendPublish(p, outcome)
    PROVE  /\ Run(p) /\ row' = row
           /\ pub'[p].phase = "answered" /\ pub'[p].at = pub[p].at /\ pub'[p].left = pub[p].left
           /\ \A a \in Accounts : saved'[a] => saved[a] \/ (a = pub[p].at /\ remote'[a] # "none")
           /\ pub'[p].ok => \/ saved[pub[p].at] /\ UNCHANGED market
                            \/ remote'[pub[p].at] = "live"
           /\ ~pub'[p].ok => \/ remote'[pub[p].at] = remote[pub[p].at]
                             \/ gap'[pub[p].at] # {}
  <1>1. /\ pub \in [Publishers -> PubRow] /\ saved \in [Accounts -> BOOLEAN]
        /\ remote \in [Accounts -> {"none", "live", "ended", "sold"}] /\ gap \in [Accounts -> SUBSET Gap]
    BY DEF Types, TypeOK, PubRow
  <1>2. pub[p].at \in Accounts /\ PubAt(p, "created")
    BY DEF Rows, RowsOfRun, Calling, SendPublish, PubAt
  <1>3. PICK ok \in BOOLEAN :
          /\ Answer(p, ok)
          /\ ok => \/ saved[pub[p].at] /\ UNCHANGED market
                   \/ /\ GoesUp(pub[p].at) /\ remote'[pub[p].at] = "live"
                      /\ saved' = [saved EXCEPT ![pub[p].at] = TRUE] /\ UNCHANGED gap
          /\ ~ok => \/ UNCHANGED market
                    \/ /\ GoesUp(pub[p].at)
                       /\ gap' = [gap EXCEPT ![pub[p].at] = @ \cup {"unconfirmed"}]
                       /\ saved' = saved \/ saved' = [saved EXCEPT ![pub[p].at] = TRUE]
    BY DEF SendPublish
  <1>4. /\ pub'[p].phase = "answered" /\ pub'[p].at = pub[p].at /\ pub'[p].left = pub[p].left
        /\ pub'[p].ok = ok /\ \A q \in Publishers \ {p} : pub'[q] = pub[q]
    BY <1>1, <1>3 DEF Answer, PubRow
  <1>5. UNCHANGED <<row, det, touch, unseen>>
    BY DEF SendPublish
  <1>6. CASE UNCHANGED market
    BY <1>1, <1>2, <1>3, <1>4, <1>5, <1>6 DEF Run, market
  <1>7. CASE ~UNCHANGED market
    <2>1. /\ remote' = [remote EXCEPT ![pub[p].at] = IF @ = "none" THEN "live" ELSE @]
          /\ saved' = saved \/ saved' = [saved EXCEPT ![pub[p].at] = TRUE]
          /\ gap' = gap \/ gap' = [gap EXCEPT ![pub[p].at] = @ \cup {"unconfirmed"}]
      BY <1>3, <1>7 DEF GoesUp
    <2>2. \A a \in Accounts : \/ remote'[a] = remote[a]
                              \/ remote[a] = "none" /\ remote'[a] = "live" /\ a = pub[p].at
      BY <1>1, <1>2, <2>1
    <2>3. remote'[pub[p].at] # "none"
      BY <1>1, <1>2, <2>1
    <2>4. \A a \in Accounts : gap[a] \subseteq gap'[a]
      BY <1>1, <1>2, <2>1
    <2>5. \A a \in Accounts : (saved[a] => saved'[a]) /\ (saved'[a] => saved[a] \/ a = pub[p].at)
      BY <1>1, <1>2, <2>1
    <2>6. Run(p)
      BY <1>2, <1>4, <1>5, <2>2, <2>4, <2>5 DEF Run
    <2>7. ~ok => gap'[pub[p].at] # {}
      BY <1>1, <1>2, <1>3, <1>7
    <2>. QED
      BY <1>3, <1>4, <1>5, <1>7, <2>3, <2>5, <2>6, <2>7
  <1>. QED
    BY <1>6, <1>7

\* What a run's step leaves of the invariant's parts.
LEMMA RunKeeps ==
    ASSUME Types, Rows, Known, Ended, Backed, NEW p \in Publishers, Run(p)
    PROVE  /\ \A q \in Publishers \ {p} : RowsOfRun(q) => RowsOfRun(q)'
           /\ EndedRows' /\ EndedTouch' /\ \A d \in Detectors : EndedBy(d)'
           /\ \A a \in Accounts : remote[a] # "none" => remote'[a] # "none"
           /\ \A a \in Accounts : Down(a) => Down(a)'
           /\ \A q \in Publishers \ {p}, a \in Accounts : Backs(q, a) => Backs(q, a)'
  <1>1. \A l \in Listing : l[1] \in Publishers /\ l[2] \in Accounts
    BY ListingParts
  <1>2. \A a \in Accounts : Down(a) => Down(a)'
    BY DEF Down, Run
  <1>3. \A l \in Listing : StatusOf(l) \in Linked => StatusOf(l)' = StatusOf(l)
    BY <1>1 DEF StatusOf, Run
  <1>4. EndedRows'
    <2> SUFFICES ASSUME NEW l \in Listing, StatusOf(l)' = "ended" PROVE Down(l[2])'
      BY DEF EndedRows
    <2>1. StatusOf(l) = "ended"
      BY <1>1 DEF StatusOf, Run
    <2>. QED
      BY <1>1, <1>2, <2>1 DEF Ended, EndedRows
  <1>5. EndedTouch'
    BY <1>1, <1>2, <1>3 DEF Ended, EndedTouch, Run, StatusOf
  <1>6. ASSUME NEW d \in Detectors PROVE EndedBy(d)'
    <2>1. EndedBy(d) /\ det' = det /\ det[d].todo \cup ToSet(det[d].failed) \subseteq Listing
      BY DEF Ended, Run, Types, TypeOK
    <2>. QED
      BY <1>1, <1>2, <1>3, <2>1 DEF EndedBy, StatusOf
  <1>7. \A q \in Publishers \ {p} : RowsOfRun(q) => RowsOfRun(q)'
    BY DEF Run, RowsOfRun, PubAt
  <1>8. \A q \in Publishers \ {p}, a \in Accounts : Backs(q, a) => Backs(q, a)'
    BY DEF Run, Backs, PubAt
  <1>. QED
    BY <1>2, <1>4, <1>5, <1>6, <1>7, <1>8 DEF Run

\* A run admits an account only while the item is ready, and keeps to it.
Admits(p) == pub'[p].phase \in Calling =>
                \/ pub[p].phase \in Calling /\ pub'[p].at = pub[p].at
                \/ item = "ready"

\* The steps of a run keep the parts of the invariant about its rows.
LEMMA PublishKeeps ==
    ASSUME Types, Rows, Known, Ended, Backed, NEW p \in Publishers,
           Publish(p) \/ Publishing(p) \/ PublisherDies(p)
    PROVE  Run(p) /\ Admits(p) /\ Rows' /\ Known' /\ Backed'
  <1>1. /\ pub \in [Publishers -> PubRow] /\ pub[p] \in PubRow
        /\ row[p] \in [Accounts -> RowStatus] /\ RowsOfRun(p)
    BY DEF Types, TypeOK, PubRow, Rows
  <1>2. \A l \in Listing : l[1] \in Publishers /\ l[2] \in Accounts
    BY ListingParts
  <1>3. ASSUME Run(p), RowsOfRun(p)' PROVE Rows'
    BY <1>3, RunKeeps DEF Rows
  <1>4. ASSUME Run(p), \A a \in Accounts : saved'[a] => saved[a] \/ remote'[a] # "none",
               \A a \in Accounts : row'[p][a] \in Linked => row[p][a] \in Linked \/ remote'[a] # "none",
               PubAt(p, "answered")' /\ pub'[p].ok => remote'[pub'[p].at] # "none"
        PROVE  Known'
    <2>1. \A a \in Accounts : remote[a] # "none" => remote'[a] # "none"
      BY <1>4, RunKeeps
    <2>2. \A a \in Accounts : saved'[a] => remote'[a] # "none"
      BY <1>4, <2>1 DEF Known
    <2>3. ASSUME NEW l \in Listing, StatusOf(l)' \in Linked PROVE remote'[l[2]] # "none"
      <3>1. CASE l[1] = p
        BY <1>2, <1>4, <2>1, <2>3, <3>1 DEF Known, StatusOf
      <3>2. CASE l[1] # p
        BY <1>2, <1>4, <2>1, <2>3, <3>2 DEF Known, StatusOf, Run
      <3>. QED
        BY <3>1, <3>2
    <2>4. ASSUME NEW q \in Publishers, PubAt(q, "answered")' /\ pub'[q].ok
          PROVE  remote'[pub'[q].at] # "none"
      <3>1. CASE q = p
        BY <1>4, <2>4, <3>1
      <3>2. CASE q # p
        <4>1. pub'[q] = pub[q] /\ pub[q].at \in Accounts
          BY <1>4, <2>4, <3>2 DEF Run, Rows, RowsOfRun, PubAt, Calling
        <4>. QED
          BY <2>1, <2>4, <4>1 DEF Known, PubAt
      <3>. QED
        BY <3>1, <3>2
    <2>. QED
      BY <2>2, <2>3, <2>4 DEF Known
  <1>5. ASSUME Run(p), \A a \in Accounts : remote'[a] = "live" =>
                          \/ gap'[a] # {} \/ Backs(p, a)'
                          \/ remote[a] = "live" /\ ~Backs(p, a)
        PROVE  Backed'
    <2> SUFFICES ASSUME NEW a \in Accounts, remote'[a] = "live", gap'[a] = {}
                 PROVE  \E q \in Publishers : Backs(q, a)'
      BY DEF Backed
    <2>1. CASE Backs(p, a)'
      BY <2>1
    <2>2. CASE remote[a] = "live" /\ ~Backs(p, a)
      <3>1. gap[a] = {}
        BY <1>5 DEF Run
      <3>2. PICK q \in Publishers : Backs(q, a)
        BY <2>2, <3>1 DEF Backed
      <3>3. Backs(q, a)'
        BY <1>5, <2>2, <3>2, RunKeeps
      <3>. QED
        BY <3>3
    <2>. QED
      BY <1>5, <2>1, <2>2
  <1>6. ASSUME NEW x \in PubRow, pub' = [pub EXCEPT ![p] = x],
               UNCHANGED <<row, market, det, touch, unseen>>
        PROVE  /\ Run(p) /\ pub'[p] = x /\ row' = row /\ remote' = remote /\ saved' = saved /\ gap' = gap
    BY <1>6, RunMoves DEF market
  <1>7. CASE Publish(p)
    <2>. DEFINE x == [pub[p] EXCEPT !.phase = "accounts", !.left = Accounts]
    <2>1. pub' = [pub EXCEPT ![p] = x] /\ UNCHANGED <<row, market, det, touch, unseen>>
          /\ pub[p].phase = "idle" /\ x \in PubRow /\ x.phase = "accounts" /\ x.left = Accounts
      BY <1>1, <1>7 DEF Publish, PubRow, PubAt
    <2>. HIDE DEF x
    <2>2. Run(p) /\ pub'[p] = x /\ row' = row /\ remote' = remote /\ saved' = saved /\ gap' = gap
      BY <1>6, <2>1
    <2>3. RowsOfRun(p)'
      BY <1>1, <2>1, <2>2 DEF RowsOfRun, PubAt, Calling, Sending
    <2>4. Known'
      BY <1>4, <2>1, <2>2 DEF PubAt
    <2>5. Backed'
      BY <1>5, <2>1, <2>2 DEF Backs, PubAt
    <2>. QED
      BY <1>3, <2>1, <2>2, <2>3, <2>4, <2>5 DEF Admits, Calling
  <1>8. ASSUME NEW a \in Accounts, CheckEligibility(p, a)
        PROVE  Run(p) /\ Admits(p) /\ Rows' /\ Known' /\ Backed'
    <2>1. PICK x \in PubRow :
            /\ pub' = [pub EXCEPT ![p] = x] /\ UNCHANGED <<row, market, det, touch, unseen>>
            /\ PubAt(p, "accounts") /\ a \in pub[p].left /\ x.left = pub[p].left \ {a}
            /\ \/ x.phase = "accounts"
               \/ x.phase = "allowed" /\ x.at = a /\ item = "ready"
      <3>1. UNCHANGED <<row, market, det, touch, unseen>> /\ PubAt(p, "accounts") /\ a \in pub[p].left
        BY <1>8 DEF CheckEligibility
      <3>2. CASE Eligible(a)
        <4>. DEFINE x == [pub[p] EXCEPT !.left = pub[p].left \ {a}, !.phase = "allowed", !.at = a]
        <4>1. pub' = [pub EXCEPT ![p] = x]
          BY <1>1, <1>8, <3>2 DEF CheckEligibility
        <4>2. x \in PubRow /\ x.left = pub[p].left \ {a} /\ x.phase = "allowed" /\ x.at = a
          BY <1>1 DEF PubRow
        <4>. QED
          BY <3>1, <3>2, <4>1, <4>2 DEF Eligible
      <3>3. CASE ~Eligible(a)
        <4>. DEFINE x == [pub[p] EXCEPT !.left = pub[p].left \ {a}, !.phase = "accounts", !.at = NoAccount]
        <4>1. pub' = [pub EXCEPT ![p] = x]
          BY <1>1, <1>8, <3>3 DEF CheckEligibility
        <4>2. x \in PubRow /\ x.left = pub[p].left \ {a} /\ x.phase = "accounts"
          BY <1>1 DEF PubRow
        <4>. QED
          BY <3>1, <4>1, <4>2
      <3>. QED
        BY <3>2, <3>3
    <2>2. Run(p) /\ pub'[p] = x /\ row' = row /\ remote' = remote /\ saved' = saved /\ gap' = gap
      BY <1>6, <2>1
    <2>3. RowsOfRun(p)'
      BY <1>1, <2>1, <2>2 DEF RowsOfRun, PubAt, Calling, Sending
    <2>4. Known'
      BY <1>4, <2>1, <2>2 DEF PubAt
    <2>5. Backed'
      BY <1>5, <2>1, <2>2 DEF Backs, PubAt
    <2>6. Admits(p)
      BY <2>1, <2>2 DEF Admits, Calling
    <2>. QED
      BY <1>3, <2>2, <2>3, <2>4, <2>5, <2>6
  <1>9. CASE CreateRow(p)
    <2>0. PICK a \in Accounts : a = pub[p].at
      BY <1>1, <1>9 DEF CreateRow, RowsOfRun, PubAt, Calling
    <2>. DEFINE x == [pub[p] EXCEPT !.phase = "created"]
    <2>1. pub' = [pub EXCEPT ![p] = x] /\ UNCHANGED <<market, det, touch, unseen>>
          /\ pub[p].phase = "allowed" /\ SetRow(<<p, a>>, "publishing")
          /\ x \in PubRow /\ x.phase = "created" /\ x.left = pub[p].left /\ x.at = a
      BY <1>1, <1>9, <2>0 DEF CreateRow, PubRow, PubAt
    <2>2. a \in Accounts /\ a \notin pub[p].left /\ row[p][a] = "none"
      BY <1>1, <2>0, <2>1 DEF RowsOfRun, PubAt, Calling
    <2>3. "publishing" \in RowStatus /\ row[p][a] \notin Linked /\ "publishing" # "ended"
      BY <2>2 DEF RowStatus, Linked
    <2>. HIDE DEF x
    <2>4. Run(p) /\ pub'[p] = x /\ row'[p][a] = "publishing"
          /\ \A b \in Accounts \ {a} : row'[p][b] = row[p][b]
      <3>1. PICK s \in RowStatus : s = "publishing"
        BY <2>3
      <3>2. SetRow(<<p, a>>, s) /\ row[p][a] \notin Linked /\ s # "ended"
        BY <2>1, <2>3, <3>1
      <3>3. x \in PubRow /\ pub' = [pub EXCEPT ![p] = x] /\ UNCHANGED <<market, det, touch, unseen>>
        BY <2>1
      <3>. HIDE DEF x
      <3>4. Run(p) /\ pub'[p] = x /\ row'[p][a] = s
            /\ \A b \in Accounts \ {a} : row'[p][b] = row[p][b]
        BY <3>2, <3>3, RunWrites
      <3>. QED
        BY <3>1, <3>4
    <2>5. remote' = remote /\ saved' = saved /\ gap' = gap
      BY <2>1 DEF market
    <2>6. RowsOfRun(p)'
      <3>1. \A b \in pub[p].left : row'[p][b] = "none"
        BY <1>1, <2>2, <2>4 DEF RowsOfRun, PubRow
      <3>2. \A b \in Accounts : row'[p][b] = "publishing" => b = a
        BY <1>1, <2>1, <2>4 DEF RowsOfRun, PubAt, Sending
      <3>. QED
        BY <2>1, <2>2, <2>4, <3>1, <3>2 DEF RowsOfRun, PubAt, Sending, Calling
    <2>7. Known'
      <3>1. \A b \in Accounts : row'[p][b] \in Linked => row[p][b] \in Linked
        BY <2>4 DEF Linked
      <3>. QED
        BY <1>4, <2>1, <2>4, <2>5, <3>1 DEF PubAt
    <2>8. Backed'
      <3>1. \A b \in Accounts : Backs(p, b) => Backs(p, b)'
        BY <1>1, <2>1, <2>2, <2>4 DEF Backs, PubAt, RowsOfRun, Sending
      <3>. QED
        BY <1>5, <2>4, <2>5, <3>1
    <2>9. Admits(p)
      BY <2>0, <2>1, <2>4 DEF Admits, Calling
    <2>. QED
      BY <1>3, <2>4, <2>6, <2>7, <2>8, <2>9
  <1>10. ASSUME NEW outcome, SendPublish(p, outcome)
         PROVE  Run(p) /\ Admits(p) /\ Rows' /\ Known' /\ Backed'
    <2>0. PICK a \in Accounts : a = pub[p].at
      BY <1>1, <1>10 DEF SendPublish, RowsOfRun, PubAt, Calling
    <2>1. /\ PubAt(p, "created") /\ a \in Accounts /\ a \notin pub[p].left
          /\ row[p][a] = "publishing"
          /\ \A b \in Accounts : row[p][b] = "publishing" => b = a
      BY <1>1, <1>10, <2>0 DEF SendPublish, RowsOfRun, PubAt, Calling, Sending
    <2>2. /\ Run(p) /\ row' = row
          /\ pub'[p].phase = "answered" /\ pub'[p].at = a /\ pub'[p].left = pub[p].left
          /\ \A b \in Accounts : saved'[b] => saved[b] \/ (b = a /\ remote'[b] # "none")
          /\ pub'[p].ok => \/ saved[a] /\ UNCHANGED market
                           \/ remote'[a] = "live"
          /\ ~pub'[p].ok => \/ remote'[a] = remote[a]
                            \/ gap'[a] # {}
      BY <1>10, <2>0, RunSends
    <2>3. RowsOfRun(p)'
      BY <1>1, <2>1, <2>2 DEF RowsOfRun, PubAt, Calling, Sending
    <2>4. Known'
      <3>1. pub'[p].ok => remote'[a] # "none"
        BY <2>0, <2>1, <2>2 DEF Known, market
      <3>. QED
        BY <1>4, <2>2, <3>1 DEF PubAt
    <2>5. Backed'
      <3>1. ASSUME NEW b \in Accounts, remote'[b] = "live"
            PROVE  \/ gap'[b] # {} \/ Backs(p, b)'
                   \/ remote[b] = "live" /\ ~Backs(p, b)
        <4>1. CASE b = a
          <5>1. ~Backs(p, a)
            BY <2>1 DEF Backs
          <5>2. pub'[p].ok => Backs(p, a)'
            BY <2>1, <2>2 DEF Backs, PubAt
          <5>. QED
            <6>1. CASE pub'[p].ok
              BY <4>1, <5>2, <6>1
            <6>2. CASE ~pub'[p].ok
              BY <2>2, <3>1, <4>1, <5>1, <6>2
            <6>. QED
              BY <6>1, <6>2
        <4>2. CASE b # a
          <5>1. remote[b] = "live" /\ row[p][b] # "publishing"
            BY <2>0, <2>1, <2>2, <3>1, <4>2 DEF Run
          <5>. QED
            BY <2>2, <5>1 DEF Backs
        <4>. QED
          BY <4>1, <4>2
      <3>. QED
        BY <1>5, <2>2, <3>1
    <2>6. Admits(p)
      BY <2>0, <2>1, <2>2 DEF Admits, Calling, PubAt
    <2>. QED
      BY <1>3, <2>2, <2>3, <2>4, <2>5, <2>6
  <1>11. CASE ApplyPublish(p)
    <2>. DEFINE a == pub[p].at
    <2>1. /\ PubAt(p, "answered") /\ a \in Accounts /\ a \notin pub[p].left
          /\ row[p][a] = "publishing"
          /\ \A b \in Accounts : row[p][b] = "publishing" => b = a
          /\ UNCHANGED <<market, det, touch, unseen>>
      BY <1>1, <1>11 DEF ApplyPublish, RowsOfRun, PubAt, Calling, Sending
    <2>2. /\ Visiting(p) \in PubRow /\ [Visiting(p) EXCEPT !.any = TRUE] \in PubRow
          /\ Visiting(p).phase = "accounts" /\ [Visiting(p) EXCEPT !.any = TRUE].phase = "accounts"
          /\ Visiting(p).left = pub[p].left /\ [Visiting(p) EXCEPT !.any = TRUE].left = pub[p].left
      BY <1>1 DEF Visiting, PubRow
    <2>3. row[p][a] \notin Linked /\ {"active", "failed"} \subseteq RowStatus
      BY <2>1 DEF Linked, RowStatus
    <2>4. remote' = remote /\ saved' = saved /\ gap' = gap
      BY <2>1 DEF market
    <2>5. CASE pub[p].ok /\ TakenIdentity(p, a)
      <3>1. pub' = [pub EXCEPT ![p] = DonePub] /\ row' = row
        BY <1>11, <2>5 DEF ApplyPublish, a
      <3>2. Run(p) /\ pub'[p] = DonePub
        BY <1>6, <2>1, <3>1, RestingRows
      <3>3. RowsOfRun(p)'
        BY <1>1, <3>1, <3>2, RestingRows DEF RowsOfRun, PubAt, Calling, Sending
      <3>4. Known'
        BY <1>4, <2>4, <3>1, <3>2, RestingRows DEF PubAt
      <3>5. \A b \in Accounts : Backs(p, b) => Backs(p, b)'
        BY <3>1, <3>2, RestingRows DEF Backs, PubAt
      <3>6. Backed'
        BY <1>5, <2>4, <3>2, <3>5
      <3>. QED
        BY <1>3, <3>2, <3>3, <3>4, <3>6, RestingRows DEF Admits, Calling
    <2>. DEFINE x == IF pub[p].ok THEN [Visiting(p) EXCEPT !.any = TRUE] ELSE Visiting(p)
                s == IF pub[p].ok THEN "active" ELSE "failed"
    <2>6. CASE ~(pub[p].ok /\ TakenIdentity(p, a))
      <3>1. pub' = [pub EXCEPT ![p] = x] /\ SetRow(<<p, a>>, s)
        BY <1>11, <2>6 DEF ApplyPublish, a
      <3>2. x \in PubRow /\ x.phase = "accounts" /\ x.left = pub[p].left
        BY <2>2
      <3>3. s \in RowStatus /\ s \in {"active", "failed"} /\ (pub[p].ok <=> s = "active") /\ s # "ended"
        BY <2>3
      <3>. HIDE DEF x, s, a
      <3>4. Run(p) /\ pub'[p] = x /\ row'[p][a] = s
            /\ \A b \in Accounts \ {a} : row'[p][b] = row[p][b]
        BY <2>1, <2>3, <3>1, <3>2, <3>3, RunWrites
      <3>5. RowsOfRun(p)'
        <4>1. \A b \in pub[p].left : row'[p][b] = "none"
          BY <1>1, <2>1, <3>4 DEF RowsOfRun, PubRow
        <4>2. \A b \in Accounts : row'[p][b] # "publishing"
          BY <2>1, <3>3, <3>4
        <4>. QED
          BY <3>2, <3>4, <4>1, <4>2 DEF RowsOfRun, PubAt, Sending, Calling
      <3>6. Known'
        <4>1. pub[p].ok => remote[a] # "none"
          BY <2>1 DEF Known, a
        <4>2. \A b \in Accounts : row'[p][b] \in Linked => row[p][b] \in Linked \/ remote'[b] # "none"
          BY <2>4, <3>3, <3>4, <4>1 DEF Linked
        <4>. QED
          BY <1>4, <2>4, <3>2, <3>4, <4>2 DEF PubAt
      <3>7. \A b \in Accounts : Backs(p, b) => Backs(p, b)'
        BY <2>1, <3>3, <3>4 DEF Backs, PubAt
      <3>8. Backed'
        BY <1>5, <2>4, <3>4, <3>7
      <3>. QED
        BY <1>3, <3>2, <3>4, <3>5, <3>6, <3>8 DEF Admits, Calling
    <2>. QED
      BY <2>5, <2>6
  <1>12. CASE FinishPublish(p) \/ PublisherDies(p)
    <2>1. pub' = [pub EXCEPT ![p] = DonePub] /\ UNCHANGED <<row, market, det, touch, unseen>>
      BY <1>12 DEF FinishPublish, PublisherDies
    <2>2. Run(p) /\ pub'[p] = DonePub /\ row' = row /\ remote' = remote /\ saved' = saved /\ gap' = gap
      BY <1>6, <2>1, RestingRows
    <2>3. RowsOfRun(p)'
      BY <1>1, <2>2, RestingRows DEF RowsOfRun, PubAt, Calling, Sending
    <2>4. Known'
      BY <1>4, <2>2, RestingRows DEF PubAt
    <2>5. \A b \in Accounts : Backs(p, b) => Backs(p, b)'
      BY <2>2, RestingRows DEF Backs, PubAt
    <2>6. Backed'
      BY <1>5, <2>2, <2>5
    <2>. QED
      BY <1>3, <2>2, <2>3, <2>4, <2>6, RestingRows DEF Admits, Calling
  <1>. QED
    BY <1>7, <1>8, <1>9, <1>10, <1>11, <1>12 DEF Publishing

-----------------------------------------------------------------------------
(* The detectors' steps *)

Stays == /\ \A l \in Listing : StatusOf(l) \in Linked => StatusOf(l)' \in Linked
         /\ \A a \in Accounts : Down(a) => Down(a)'

\* The account's listing is down after the step.
GoneDown(a) == remote'[a] \notin {"none", "live"} \/ "shadowed" \in gap'[a]

\* Who will write ended has seen the listing down, whatever happens meanwhile.
LEMMA EndedOthers ==
    ASSUME Types, Types', Sane, Known, Ended, Stays,
           \/ \E o \in Orders : Pay(o) \/ \E a \in Accounts : Buy(o, a, "paid") \/ Buy(o, a, "pending")
           \/ ReleaseReservation \/ BreakerCools \/ StoreTouch
           \/ \E l \in Listing, to \in Linked : TouchListing(l, to)
           \/ \E d \in Detectors : Detecting(d) \/ DetectorDies(d)
           \/ \E d \in Detectors, a \in Accounts : SyncOrders(d, a) \/ ProcessSales(d, a)
    PROVE  EndedTouch' /\ \A d \in Detectors : EndedBy(d)'
  <1>1. \A l \in Listing : l[1] \in Publishers /\ l[2] \in Accounts
    BY ListingParts
  <1>2. \A l \in Listing : StatusOf(l) \in Linked => StatusOf(l)' \in Linked
    BY DEF Stays
  <1>3. ASSUME touch' = touch PROVE EndedTouch'
    <2>1. EndedTouch
      BY DEF Ended
    <2>. QED
      BY <1>1, <1>3, <2>1 DEF EndedTouch, Stays, StatusOf
  <1>4. ASSUME NEW e \in Detectors, det'[e] = det[e] PROVE EndedBy(e)'
    <2>1. EndedBy(e) /\ det[e].todo \cup ToSet(det[e].failed) \subseteq Listing
      BY DEF Ended, Types, TypeOK
    <2>. QED
      BY <1>1, <1>4, <2>1 DEF EndedBy, Stays, StatusOf
  <1>5. ASSUME NEW d \in Detectors, Only(d), EndedBy(d)' PROVE \A e \in Detectors : EndedBy(e)'
    BY <1>4, <1>5 DEF Only
  <1>6. ASSUME NEW d \in Detectors, \A l \in det'[d].todo \cup ToSet(det'[d].failed) : StatusOf(l) \in Linked,
               det'[d].todo \cup ToSet(det'[d].failed) \subseteq Listing,
               det'[d].phase \in {"ended", "retried"} =>
                  /\ det'[d].at \in Listing /\ StatusOf(det'[d].at) \in Linked
                  /\ det'[d].ok => GoneDown(det'[d].at[2])
        PROVE  EndedBy(d)'
    <2>1. \A l \in det'[d].todo \cup ToSet(det'[d].failed) : row'[l[1]][l[2]] \in Linked
      BY <1>2, <1>6 DEF StatusOf
    <2>2. det'[d].phase \in {"ended", "retried"} => row'[det'[d].at[1]][det'[d].at[2]] \in Linked
      BY <1>2, <1>6 DEF StatusOf
    <2>. QED
      BY <1>6, <2>1, <2>2 DEF EndedBy, StatusOf, Down, GoneDown
  <1>7. ASSUME \/ \E o \in Orders : Pay(o) \/ \E a \in Accounts : Buy(o, a, "paid") \/ Buy(o, a, "pending")
               \/ ReleaseReservation \/ BreakerCools \/ StoreTouch
               \/ \E l \in Listing, to \in Linked : TouchListing(l, to)
        PROVE  EndedTouch' /\ \A d \in Detectors : EndedBy(d)'
    <2>1. \A e \in Detectors : EndedBy(e)'
      BY <1>4, <1>7 DEF Pay, Buy, ReleaseReservation, BreakerCools, StoreTouch, TouchListing
    <2>2. ASSUME NEW l \in Listing, NEW to \in Linked, TouchListing(l, to) PROVE EndedTouch'
      <3>1. touch' = [at |-> l, to |-> to] /\ UNCHANGED <<row, market>>
            /\ StatusOf(l) \in Linked /\ (to = "ended" => remote[l[2]] # "live")
        BY <2>2 DEF TouchListing, Linked
      <3>2. touch'.at = l /\ touch'.to = to
        BY <3>1
      <3>3. remote[l[2]] # "none"
        BY <3>1 DEF Known
      <3>4. to = "ended" => Down(l[2])
        BY <3>1, <3>3 DEF Down
      <3>5. StatusOf(l)' = StatusOf(l) /\ (Down(l[2]) => GoneDown(l[2]))
        BY <3>1 DEF StatusOf, market, Down, GoneDown
      <3>6. /\ row'[touch'.at[1]][touch'.at[2]] \in Linked
            /\ to = "ended" => GoneDown(touch'.at[2])
        BY <3>1, <3>2, <3>4, <3>5 DEF StatusOf
      <3>. QED
        BY <3>2, <3>6 DEF EndedTouch, StatusOf, Down, GoneDown
    <2>3. ASSUME StoreTouch PROVE EndedTouch'
      BY <2>3 DEF StoreTouch, EndedTouch, IdleTouch
    <2>4. CASE UNCHANGED touch
      BY <1>3, <2>1, <2>4
    <2>. QED
      BY <1>7, <2>1, <2>2, <2>3, <2>4 DEF Pay, Buy, ReleaseReservation, BreakerCools
  <1>8. ASSUME NEW d \in Detectors, Reserve(d) PROVE EndedTouch' /\ \A e \in Detectors : EndedBy(e)'
    <2>1. Only(d) /\ det'[d].phase = "ending" /\ det'[d].todo = ActiveListings /\ touch' = touch
          /\ det'[d].failed = det[d].failed
      BY <1>8, ReserveDet DEF Reserve
    <2>2. EndedBy(d) /\ ToSet(det[d].failed) \subseteq Listing
      BY DEF Ended, Types, TypeOK
    <2>3. \A l \in ActiveListings : l \in Listing /\ StatusOf(l) \in Linked
      BY DEF ActiveListings, Linked
    <2>4. EndedBy(d)'
      BY <1>6, <2>1, <2>2, <2>3 DEF EndedBy
    <2>. QED
      BY <1>3, <1>5, <2>1, <2>4
  <1>9. ASSUME NEW d \in Detectors, NEW l \in Listing, NEW outcome, NEW ok \in BOOLEAN,
               EndListing(d, l, outcome, ok)
        PROVE  EndedTouch' /\ \A e \in Detectors : EndedBy(e)'
    <2>1. /\ Only(d) /\ det'[d].todo = det[d].todo \ {l} /\ det'[d].at = l /\ det'[d].ok = ok
          /\ det'[d].failed = det[d].failed /\ touch' = touch /\ l \in det[d].todo
          /\ EndRemote(l, outcome, ok)
      <3>1. touch' = touch /\ l \in det[d].todo /\ EndRemote(l, outcome, ok)
        BY <1>9 DEF EndListing
      <3>. QED
        BY <1>9, <3>1, EndListingDet
    <2>2. EndedBy(d) /\ det[d].todo \cup ToSet(det[d].failed) \subseteq Listing
      BY DEF Ended, Types, TypeOK
    <2>3. ok => GoneDown(l[2])
      <3>1. ok /\ remote'[l[2]] = "live" => "shadowed" \in gap'[l[2]]
        BY <2>1, EndRemoteFacts
      <3>2. remote'[l[2]] # "none"
        <4>1. remote[l[2]] # "none"
          BY <2>1, <2>2 DEF EndedBy, Known
        <4>. QED
          BY <1>1, <2>1, <4>1, EndRemoteFacts
      <3>. QED
        BY <3>1, <3>2 DEF GoneDown
    <2>4. det'[d].ok => GoneDown(det'[d].at[2])
      BY <2>1, <2>3
    <2>5. StatusOf(l) \in Linked
      BY <2>1, <2>2 DEF EndedBy
    <2>6. EndedBy(d)'
      <3>1. \A k \in det'[d].todo \cup ToSet(det'[d].failed) : k \in Listing /\ StatusOf(k) \in Linked
        BY <2>1, <2>2 DEF EndedBy
      <3>2. det'[d].at \in Listing /\ StatusOf(det'[d].at) \in Linked
        BY <2>1, <2>5
      <3>. QED
        BY <1>6, <2>4, <3>1, <3>2
    <2>. QED
      BY <1>3, <1>5, <2>1, <2>6
  <1>10. ASSUME NEW d \in Detectors, StoreEnded(d) \/ StoreRetried(d)
         PROVE  EndedTouch' /\ \A e \in Detectors : EndedBy(e)'
    <2>1. EndedBy(d) /\ det[d].todo \cup ToSet(det[d].failed) \subseteq Listing
      BY DEF Ended, Types, TypeOK
    <2>2. Only(d) /\ det'[d].phase \notin {"ended", "retried"} /\ det'[d].todo = det[d].todo /\ touch' = touch
      BY <1>10, StoreEndedDet, StoreRetriedDet DEF StoreEnded, StoreRetried
    <2>3. \A l \in ToSet(det'[d].failed) : l \in Listing /\ StatusOf(l) \in Linked
      <3>1. CASE StoreEnded(d)
        <4>1. det[d].at \in Listing /\ StatusOf(det[d].at) \in Linked
          BY <2>1, <3>1 DEF StoreEnded, EndedBy, DetAt
        <4>2. ToSet(det'[d].failed) \subseteq ToSet(det[d].failed) \cup {det[d].at}
          BY <3>1, StoreEndedDet
        <4>. QED
          BY <2>1, <4>1, <4>2 DEF EndedBy
      <3>2. CASE StoreRetried(d)
        BY <2>1, <3>2, StoreRetriedDet DEF EndedBy
      <3>. QED
        BY <1>10, <3>1, <3>2
    <2>4. EndedBy(d)'
      BY <1>6, <2>1, <2>2, <2>3 DEF EndedBy
    <2>. QED
      BY <1>3, <1>5, <2>2, <2>4
  <1>11. ASSUME NEW d \in Detectors, NEW outcome, NEW ok \in BOOLEAN, Retry(d, outcome, ok)
         PROVE  EndedTouch' /\ \A e \in Detectors : EndedBy(e)'
    <2>. DEFINE l == det'[d].at
    <2>1. /\ Only(d) /\ det'[d].todo = det[d].todo /\ l \in Listing /\ det'[d].ok = ok
          /\ l \in ToSet(det[d].failed)
          /\ det'[d].failed = det[d].failed /\ touch' = touch /\ EndRemote(l, outcome, ok)
      BY ZenonT(30), <1>11, RetryDet DEF Retry
    <2>2. EndedBy(d) /\ det[d].todo \cup ToSet(det[d].failed) \subseteq Listing
      BY DEF Ended, Types, TypeOK
    <2>3. ok => GoneDown(l[2])
      <3>0. PICK k \in Listing : k = l
        BY <2>1
      <3>1. ok /\ remote'[k[2]] = "live" => "shadowed" \in gap'[k[2]]
        BY <2>1, <3>0, EndRemoteFacts
      <3>2. remote'[k[2]] # "none"
        <4>1. remote[k[2]] # "none"
          BY <2>1, <2>2, <3>0 DEF EndedBy, Known
        <4>. QED
          BY <1>1, <2>1, <3>0, <4>1, EndRemoteFacts
      <3>. QED
        BY <3>0, <3>1, <3>2 DEF GoneDown
    <2>5. StatusOf(l) \in Linked
      BY <2>1, <2>2 DEF EndedBy
    <2>6. EndedBy(d)'
      <3>1. \A k \in det'[d].todo \cup ToSet(det'[d].failed) : k \in Listing /\ StatusOf(k) \in Linked
        BY <2>1, <2>2 DEF EndedBy
      <3>. QED
        BY <1>6, <2>1, <2>3, <2>5, <3>1
    <2>. QED
      BY <1>3, <1>5, <2>1, <2>6
  <1>12. ASSUME NEW d \in Detectors, SoldOut(d) \/ \E slow \in BOOLEAN : RaiseRisk(d, slow)
         PROVE  EndedTouch' /\ \A e \in Detectors : EndedBy(e)'
    <2>1. Only(d) /\ det'[d].phase \notin {"ended", "retried"} /\ det'[d].todo = {}
          /\ det'[d].failed = <<>> /\ touch' = touch
      BY <1>12, RestDet DEF SoldOut, RaiseRisk
    <2>2. ToSet(det'[d].failed) = {}
      BY <2>1 DEF ToSet
    <2>. QED
      BY <1>3, <1>5, <1>6, <2>1, <2>2
  <1>13. ASSUME NEW d \in Detectors,
                \/ \E o \in Orders : UpsertOrder(d, o) \/ TakeOrder(d, o)
                \/ \E a \in Accounts : SyncOrders(d, a) \/ ProcessSales(d, a)
         PROVE  EndedTouch' /\ \A e \in Detectors : EndedBy(e)'
    <2>1. touch' = touch
      BY <1>13 DEF UpsertOrder, TakeOrder, SyncOrders, ProcessSales
    <2>2. /\ Only(d) /\ det'[d].phase \notin {"ended", "retried"}
          /\ det'[d].todo = det[d].todo /\ det'[d].failed = det[d].failed
      BY <1>13, OrderDet
    <2>3. EndedBy(d) /\ det[d].todo \cup ToSet(det[d].failed) \subseteq Listing
      BY DEF Ended, Types, TypeOK
    <2>4. EndedBy(d)'
      BY <1>6, <2>2, <2>3 DEF EndedBy
    <2>. QED
      BY <1>3, <1>5, <2>1, <2>2, <2>4
  <1>14. ASSUME NEW d \in Detectors, DetectorDies(d)
         PROVE  EndedTouch' /\ \A e \in Detectors : EndedBy(e)'
    <2>1. det \in [Detectors -> DetRow] /\ det' = [det EXCEPT ![d] = IdleDet] /\ touch' = touch
      BY <1>14 DEF Types, DetectorDies
    <2>2. Only(d) /\ det'[d] = IdleDet
      BY <2>1, RestingRows, DetUpdate DEF Only
    <2>3. ToSet(IdleDet.failed) = {}
      BY RestingRows DEF ToSet
    <2>4. EndedBy(d)'
      BY <1>6, <2>2, <2>3, RestingRows
    <2>. QED
      BY <1>3, <1>5, <2>1, <2>2, <2>4
  <1>15. ASSUME NEW d \in Detectors, OnSale(d) PROVE EndedTouch' /\ \A e \in Detectors : EndedBy(e)'
    BY <1>8, <1>9, <1>10, <1>11, <1>12, <1>15 DEF OnSale
  <1>. QED
    BY <1>7, <1>13, <1>14, <1>15 DEF Detecting

\* A sale once begun stays begun, and only its first transaction begins it.
LEMMA BegunBefore ==
    ASSUME Types, Sane,
           \/ \E o \in Orders : Pay(o) \/ \E a \in Accounts : Buy(o, a, "paid") \/ Buy(o, a, "pending")
           \/ ReleaseReservation \/ BreakerCools \/ StoreTouch
           \/ \E l \in Listing, to \in Linked : TouchListing(l, to)
           \/ \E d \in Detectors : Detecting(d) \/ DetectorDies(d)
           \/ \E d \in Detectors, a \in Accounts : SyncOrders(d, a) \/ ProcessSales(d, a)
    PROVE  \/ \E d \in Detectors : Reserve(d)
           \/ (Begun' => Begun) /\ item' \in {item, "sold"} /\ unseen' = unseen
  <1>. DEFINE Same == (Begun' => Begun) /\ item' \in {item, "sold"} /\ unseen' = unseen
  <1>1. ASSUME UNCHANGED <<item, unseen, det>> PROVE Same
    BY <1>1 DEF Begun
  <1>2. ASSUME NEW d \in Detectors, Only(d), UNCHANGED <<item, unseen>>,
               det[d].phase \in Handling \/ det'[d].phase \notin Handling
        PROVE  Same
    BY <1>2 DEF Begun, Only
  <1>3. ASSUME NEW d \in Detectors,
               \/ \E o \in Orders : UpsertOrder(d, o) \/ TakeOrder(d, o)
               \/ \E a \in Accounts : SyncOrders(d, a) \/ ProcessSales(d, a)
        PROVE  Same
    <2>1. UNCHANGED <<item, unseen>>
      BY <1>3 DEF UpsertOrder, TakeOrder, SyncOrders, ProcessSales, tables
    <2>2. Only(d) /\ det'[d].phase \notin Handling
      BY <1>3, OrderDet DEF Handling
    <2>. QED
      BY <1>2, <2>1, <2>2
  <1>4. ASSUME NEW d \in Detectors, DetectorDies(d) PROVE Same
    <2>1. UNCHANGED <<item, unseen>> /\ det' = [det EXCEPT ![d] = IdleDet]
      BY <1>4 DEF DetectorDies, tables
    <2>2. Only(d) /\ det'[d].phase = "idle"
      BY <2>1, RestingRows, DetUpdate DEF Only
    <2>. QED
      BY <1>2, <2>1, <2>2 DEF Handling
  <1>5. ASSUME NEW d \in Detectors, StoreEnded(d) \/ StoreRetried(d) PROVE Same
    BY <1>2, <1>5, StoreEndedDet, StoreRetriedDet DEF StoreEnded, StoreRetried, tables, DetAt, Handling
  <1>6. ASSUME NEW d \in Detectors, NEW outcome, NEW ok \in BOOLEAN, Retry(d, outcome, ok) PROVE Same
    <2>1. UNCHANGED <<item, unseen>> /\ det[d].phase \in Handling
      BY <1>6 DEF Retry, tables, DetAt, Handling
    <2>. QED
      BY <1>2, <1>6, <2>1, RetryDet
  <1>7. ASSUME NEW d \in Detectors, NEW l \in Listing, NEW outcome, NEW ok \in BOOLEAN,
               EndListing(d, l, outcome, ok)
        PROVE  Same
    <2>1. UNCHANGED <<item, unseen>> /\ det[d].phase \in Handling
      BY <1>7 DEF EndListing, tables, DetAt, Handling
    <2>. QED
      BY <1>2, <1>7, <2>1, EndListingDet
  <1>8. ASSUME NEW d \in Detectors, NEW slow, RaiseRisk(d, slow) PROVE Same
    BY <1>2, <1>8, RestDet DEF RaiseRisk, Handling
  <1>9. ASSUME NEW d \in Detectors, SoldOut(d) PROVE Same
    <2>1. item' = "sold" /\ unseen' = unseen /\ det[d].phase \in Handling
      BY <1>9 DEF SoldOut, Tried, DetAt, Handling
    <2>. QED
      BY <2>1 DEF Begun
  <1>10. ASSUME \/ \E o \in Orders : Pay(o) \/ \E a \in Accounts : Buy(o, a, "paid") \/ Buy(o, a, "pending")
                \/ ReleaseReservation \/ BreakerCools \/ StoreTouch
                \/ \E l \in Listing, to \in Linked : TouchListing(l, to)
         PROVE  Same
    BY <1>1, <1>10 DEF Pay, Buy, ReleaseReservation, BreakerCools, StoreTouch, TouchListing, tables
  <1>. HIDE DEF Same
  <1>11. ASSUME NEW d \in Detectors, OnSale(d) PROVE Reserve(d) \/ Same
    BY <1>5, <1>6, <1>7, <1>8, <1>9, <1>11 DEF OnSale
  <1>12. (\E d \in Detectors : Reserve(d)) \/ Same
    BY <1>3, <1>4, <1>10, <1>11 DEF Detecting
  <1>. QED
    BY <1>12 DEF Same

\* What the first transaction of a sale finds, and what it shuts out.
LEMMA ReserveFacts ==
    ASSUME Types, Types', Sane, Backed, NEW d \in Detectors, Reserve(d)
    PROVE  /\ item' \in {"sold", "reserved"} /\ (item' = "sold" => item = "sold")
           /\ pub' = pub /\ remote' = remote /\ gap' = gap
           /\ unseen \subseteq unseen'
           /\ \A p \in Publishers : pub[p].phase \in Calling => pub[p].at \in unseen'
           /\ \A a \in Accounts : remote[a] = "live" => Accounted(a, ActiveListings)'
  <1>1. item' \in {"sold", "reserved"} /\ (item' = "sold" => item = "sold")
        /\ pub' = pub /\ remote' = remote /\ gap' = gap /\ row' = row /\ unseen' = unseen \cup UnderWay
    BY DEF Reserve, market
  <1>2. \A p \in Publishers : pub[p].phase \in Calling => pub[p].at \in UnderWay
    BY AccountsAssumption DEF Sane, UnderWay
  <1>3. ASSUME NEW a \in Accounts, remote[a] = "live", gap[a] = {}
        PROVE  a \in unseen' \/ \E l \in ActiveListings : l[2] = a
    <2>1. PICK p \in Publishers : Backs(p, a)
      BY <1>3 DEF Backed
    <2>2. CASE row[p][a] = "active"
      <3>1. <<p, a>> \in ActiveListings /\ <<p, a>>[2] = a
        BY <2>2 DEF ActiveListings, Listing, StatusOf
      <3>. QED
        BY <3>1
    <2>3. CASE row[p][a] = "publishing"
      BY <1>1, <2>3 DEF UnderWay
    <2>. QED
      BY <2>1, <2>2, <2>3 DEF Backs
  <1>4. ActiveListings' = ActiveListings
    BY <1>1 DEF ActiveListings, StatusOf
  <1>. QED
    BY <1>1, <1>2, <1>3, <1>4 DEF Accounted

\* No step of a buyer, a detector or a refresh opens a begun sale again.
LEMMA ClosedOthers ==
    ASSUME Types, Types', Sane, Rows, Backed, Closed, Tame,
           \/ \E o \in Orders : Pay(o) \/ \E a \in Accounts : Buy(o, a, "paid") \/ Buy(o, a, "pending")
           \/ ReleaseReservation \/ BreakerCools \/ StoreTouch
           \/ \E l \in Listing, to \in Linked : TouchListing(l, to)
           \/ \E d \in Detectors : Detecting(d) \/ DetectorDies(d)
           \/ \E d \in Detectors, a \in Accounts : SyncOrders(d, a) \/ ProcessSales(d, a)
    PROVE  Closed' /\ unseen \subseteq unseen'
  <1>1. ASSUME NEW d \in Detectors, Reserve(d) PROVE Closed' /\ unseen \subseteq unseen'
    BY <1>1, ReserveFacts DEF Closed
  <1>2. ASSUME Begun' => Begun, item' \in {item, "sold"}, unseen' = unseen
        PROVE  Closed' /\ unseen \subseteq unseen'
    BY <1>2 DEF Closed, Tame
  <1>. QED
    BY <1>1, <1>2, BegunBefore

\* Nor does a publish run, not even the one that lists the item at its end.
LEMMA ClosedRun ==
    ASSUME Closed, NEW p \in Publishers, Run(p), Admits(p),
           Publish(p) \/ Publishing(p) \/ PublisherDies(p)
    PROVE  Closed' /\ item' \in {item, "listed"} /\ unseen' = unseen
  <1>1. item' \in {item, "listed"} /\ unseen' = unseen /\ det' = det
    BY DEF Publish, Publishing, PublisherDies, CheckEligibility, CreateRow, ApplyPublish, FinishPublish,
           SendPublish, tables
  <1>2. Begun' => Begun
    BY <1>1 DEF Begun
  <1>. QED
    BY <1>1, <1>2 DEF Closed, Run, Admits

\* The account is accounted for, by the listings L, after the step.
Covered(a, L) == a \in unseen' \/ gap'[a] # {} \/ \E l \in L : l[2] = a

\* What a publish run puts up after a sale began, the sale has set aside.
LEMMA TrackedRun ==
    ASSUME Closed, Rows, Tracked, NEW p \in Publishers, Run(p), item' \in {item, "listed"}
    PROVE  Tracked'
  <1>1. ASSUME NEW a \in Accounts, remote'[a] = "live", Begun, NEW L, remote[a] = "live" => Accounted(a, L)
        PROVE  Covered(a, L)
    <2>1. CASE remote[a] = "live"
      BY <1>1, <2>1 DEF Accounted, Covered, Run
    <2>2. CASE PubAt(p, "created") /\ a = pub[p].at
      BY <1>1, <2>2 DEF Closed, PubAt, Calling, Run, Covered
    <2>. QED
      BY <1>1, <2>1, <2>2 DEF Run
  <1>2. SoldIsOffMarket'
    <2> SUFFICES ASSUME item' = "sold", NEW a \in Accounts, remote'[a] = "live"
                 PROVE  a \in unseen' \/ gap'[a] # {}
      BY DEF SoldIsOffMarket
    <2>1. item = "sold" /\ Begun
      BY DEF Begun
    <2>2. remote[a] = "live" => Accounted(a, {})
      BY <2>1 DEF Tracked, SoldIsOffMarket, Accounted
    <2>. QED
      BY <1>1, <2>1, <2>2 DEF Covered
  <1>3. ASSUME NEW d \in Detectors PROVE TrackedBy(d)'
    <2>1. TrackedBy(d) /\ det' = det
      BY DEF Tracked, Run
    <2>2. ASSUME det[d].phase \in Handling, NEW a \in Accounts, remote'[a] = "live"
          PROVE  Accounted(a, Pending(d))'
      <3>1. Begun /\ (remote[a] = "live" => Accounted(a, Pending(d)))
        BY <2>1, <2>2 DEF TrackedBy, Begun
      <3>2. Covered(a, Pending(d))
        BY <1>1, <2>2, <3>1
      <3>. QED
        BY <2>1, <3>2 DEF Covered, Accounted, Pending, DetAt
    <2>. QED
      BY <2>1, <2>2 DEF TrackedBy
  <1>. QED
    BY <1>2, <1>3 DEF Tracked

\* A handling loses track of no listing it has not brought down.
LEMMA TrackedOthers ==
    ASSUME Types, Types', Sane, Backed, Ended, Tracked, Tame, unseen \subseteq unseen',
           \/ \E o \in Orders : Pay(o) \/ \E a \in Accounts : Buy(o, a, "paid") \/ Buy(o, a, "pending")
           \/ ReleaseReservation \/ BreakerCools \/ StoreTouch
           \/ \E l \in Listing, to \in Linked : TouchListing(l, to)
           \/ \E d \in Detectors : Detecting(d) \/ DetectorDies(d)
           \/ \E d \in Detectors, a \in Accounts : SyncOrders(d, a) \/ ProcessSales(d, a)
    PROVE  Tracked'
  <1>1. ASSUME NEW a \in Accounts, remote'[a] = "live", NEW L, remote[a] = "live" => Accounted(a, L)
        PROVE  Covered(a, L)
    BY <1>1 DEF Accounted, Covered, Tame
  <1>2. ASSUME item' = "sold" => item = "sold" PROVE SoldIsOffMarket'
    <2> SUFFICES ASSUME item' = "sold", NEW a \in Accounts, remote'[a] = "live"
                 PROVE  a \in unseen' \/ gap'[a] # {}
      BY DEF SoldIsOffMarket
    <2>1. remote[a] = "live" => Accounted(a, {})
      BY <1>2 DEF Tracked, SoldIsOffMarket, Accounted
    <2>. QED
      BY <1>1, <2>1 DEF Covered
  <1>3. ASSUME NEW d \in Detectors, det'[d] = det[d] PROVE TrackedBy(d)'
    <2>1. TrackedBy(d)
      BY DEF Tracked
    <2>2. ASSUME det[d].phase \in Handling, NEW a \in Accounts, remote'[a] = "live"
          PROVE  Accounted(a, Pending(d))'
      <3>1. Covered(a, Pending(d))
        BY <1>1, <2>1, <2>2 DEF TrackedBy
      <3>. QED
        BY <1>3, <3>1 DEF Covered, Accounted, Pending, DetAt
    <2>. QED
      BY <1>3, <2>1, <2>2 DEF TrackedBy
  <1>4. ASSUME NEW d \in Detectors, Only(d), TrackedBy(d)', item' = "sold" => item = "sold" PROVE Tracked'
    BY <1>2, <1>3, <1>4 DEF Tracked, Only
  <1>5. ASSUME NEW d \in Detectors, det'[d].phase \notin Handling PROVE TrackedBy(d)'
    BY <1>5 DEF TrackedBy, Handling
  <1>6. ASSUME NEW d \in Detectors,
               \A a \in Accounts : remote'[a] = "live" => Covered(a, Pending(d)'),
               det'[d].phase \in {"retrying", "retried"} => det'[d].todo = {},
               det'[d].phase = "retried" => /\ det'[d].next <= Len(det'[d].failed)
                                            /\ det'[d].at = det'[d].failed[det'[d].next]
        PROVE  TrackedBy(d)'
    BY <1>6 DEF TrackedBy, Covered, Accounted
  <1>7. ASSUME NEW d \in Detectors,
               \/ \E o \in Orders : UpsertOrder(d, o) \/ TakeOrder(d, o)
               \/ \E a \in Accounts : SyncOrders(d, a) \/ ProcessSales(d, a)
        PROVE  Tracked'
    <2>1. item' = item
      BY <1>7 DEF UpsertOrder, TakeOrder, SyncOrders, ProcessSales, tables
    <2>2. Only(d) /\ det'[d].phase \notin Handling
      BY <1>7, OrderDet DEF Handling
    <2>. QED
      BY <1>4, <1>5, <2>1, <2>2
  <1>8. ASSUME NEW d \in Detectors, DetectorDies(d) PROVE Tracked'
    <2>1. item' = item /\ det' = [det EXCEPT ![d] = IdleDet]
      BY <1>8 DEF DetectorDies, tables
    <2>2. Only(d) /\ det'[d].phase = "idle"
      BY <2>1, RestingRows, DetUpdate DEF Only
    <2>. QED
      BY <1>4, <1>5, <2>1, <2>2 DEF Handling
  <1>9. ASSUME \/ \E o \in Orders : Pay(o) \/ \E a \in Accounts : Buy(o, a, "paid") \/ Buy(o, a, "pending")
               \/ ReleaseReservation \/ BreakerCools \/ StoreTouch
               \/ \E l \in Listing, to \in Linked : TouchListing(l, to)
        PROVE  Tracked'
    <2>1. item' = item /\ det' = det
      BY <1>9 DEF Pay, Buy, ReleaseReservation, BreakerCools, StoreTouch, TouchListing, tables
    <2>. QED
      BY <1>2, <1>3, <2>1 DEF Tracked
  <1>10. ASSUME NEW d \in Detectors, Reserve(d) PROVE Tracked'
    <2>1. /\ Only(d) /\ det'[d].phase = "ending" /\ det'[d].todo = ActiveListings
          /\ item' = "sold" => item = "sold"
          /\ \A a \in Accounts : remote'[a] = "live" => Covered(a, ActiveListings')
      BY <1>10, ReserveDet, ReserveFacts DEF Accounted, Covered
    <2>2. ActiveListings' = ActiveListings
      BY <1>10 DEF Reserve, ActiveListings, StatusOf
    <2>3. ActiveListings \subseteq Pending(d)'
      BY <2>1 DEF Pending
    <2>4. \A a \in Accounts : remote'[a] = "live" => Covered(a, Pending(d)')
      BY <2>1, <2>2, <2>3 DEF Covered
    <2>5. TrackedBy(d)'
      BY <1>6, <2>1, <2>4
    <2>. QED
      BY <1>4, <2>1, <2>5
  <1>11. ASSUME NEW d \in Detectors, NEW l \in Listing, NEW outcome, NEW ok \in BOOLEAN,
                EndListing(d, l, outcome, ok)
         PROVE  Tracked'
    <2>1. /\ det[d].phase = "ending" /\ item' = item /\ l \in det[d].todo /\ EndRemote(l, outcome, ok)
      BY <1>11 DEF EndListing, tables, DetAt
    <2>2. /\ Only(d) /\ det'[d].phase = "ended" /\ det'[d].todo = det[d].todo \ {l}
          /\ det'[d].at = l /\ det'[d].ok = ok /\ det'[d].failed = det[d].failed
      BY <1>11, EndListingDet
    <2>3. ASSUME NEW a \in Accounts, remote'[a] = "live" PROVE Covered(a, Pending(d)')
      <3>1. Covered(a, det[d].todo \cup ToSet(det[d].failed))
        <4>1. remote[a] = "live" => Accounted(a, det[d].todo \cup ToSet(det[d].failed))
          BY <2>1 DEF Tracked, TrackedBy, Pending, DetAt, Handling
        <4>. QED
          BY <1>1, <2>3, <4>1
      <3>2. ok /\ a = l[2] => gap'[a] # {}
        BY <2>1, <2>3, EndRemoteFacts
      <3>3. /\ (det[d].todo \cup ToSet(det[d].failed)) \ {l} \subseteq Pending(d)'
            /\ ~ok => l \in Pending(d)'
        BY <2>2 DEF Pending, DetAt
      <3>. QED
        BY <3>1, <3>2, <3>3 DEF Covered
    <2>4. TrackedBy(d)'
      BY <1>6, <2>2, <2>3
    <2>. QED
      BY <1>4, <2>1, <2>2, <2>4
  <1>12. ASSUME NEW d \in Detectors, StoreEnded(d) PROVE Tracked'
    <2>1. det[d].phase = "ended" /\ item' = item /\ UNCHANGED market
      BY <1>12 DEF StoreEnded, tables, DetAt
    <2>2. /\ Only(d) /\ det'[d].phase = "ending" /\ det'[d].todo = det[d].todo
          /\ ToSet(det'[d].failed)
             = ToSet(det[d].failed) \cup (IF det[d].ok THEN {} ELSE {det[d].at})
      BY <1>12, StoreEndedDet
    <2>3. Pending(d) \subseteq Pending(d)'
      BY <2>1, <2>2 DEF Pending, DetAt
    <2>4. ASSUME NEW a \in Accounts, remote'[a] = "live" PROVE Covered(a, Pending(d)')
      <3>1. remote[a] = "live" => Accounted(a, Pending(d))
        BY <2>1 DEF Tracked, TrackedBy, Handling
      <3>2. Covered(a, Pending(d))
        BY <1>1, <2>4, <3>1
      <3>. QED
        BY <2>3, <3>2 DEF Covered
    <2>5. TrackedBy(d)'
      BY <1>6, <2>2, <2>4
    <2>. QED
      BY <1>4, <2>1, <2>2, <2>5
  <1>13. ASSUME NEW d \in Detectors, NEW outcome, NEW ok \in BOOLEAN, Retry(d, outcome, ok) PROVE Tracked'
    <2>1. det[d].phase \in {"ending", "retrying"} /\ item' = item
          /\ (det[d].phase = "ending" => det[d].todo = {})
      BY <1>13 DEF Retry, tables, DetAt
    <2>2. /\ Only(d) /\ det'[d].phase = "retried" /\ det'[d].todo = det[d].todo
          /\ det'[d].at = det[d].failed[det[d].next] /\ det'[d].failed = det[d].failed
          /\ det'[d].next = det[d].next /\ det[d].next <= Len(det[d].failed)
      BY <1>13, RetryDet
    <2>3. Pending(d) = Pending(d)' /\ det[d].todo = {}
      BY <2>1, <2>2 DEF Pending, DetAt, Tracked, TrackedBy
    <2>4. ASSUME NEW a \in Accounts, remote'[a] = "live" PROVE Covered(a, Pending(d)')
      <3>1. remote[a] = "live" => Accounted(a, Pending(d))
        BY <2>1 DEF Tracked, TrackedBy, Handling
      <3>2. Covered(a, Pending(d))
        BY <1>1, <2>4, <3>1
      <3>. QED
        BY <2>3, <3>2 DEF Covered
    <2>5. TrackedBy(d)'
      BY <1>6, <2>2, <2>3, <2>4
    <2>. QED
      BY <1>4, <2>1, <2>2, <2>5
  <1>14. ASSUME NEW d \in Detectors, StoreRetried(d) PROVE Tracked'
    <2>1. det[d].phase = "retried" /\ item' = item /\ UNCHANGED market
      BY <1>14 DEF StoreRetried, tables, DetAt
    <2>2. /\ Only(d) /\ det'[d].phase = "retrying" /\ det'[d].todo = det[d].todo
          /\ ToSet(det[d].failed) \subseteq ToSet(det'[d].failed)
             \cup (IF det[d].ok THEN {det[d].failed[det[d].next]} ELSE {})
      BY <1>14, StoreRetriedDet
    <2>3. det[d].todo = {} /\ det[d].at = det[d].failed[det[d].next]
          /\ det[d].at \in Listing /\ (det[d].ok => Down(det[d].at[2]))
      BY <2>1 DEF Tracked, TrackedBy, Ended, EndedBy
    <2>4. ASSUME NEW a \in Accounts, remote'[a] = "live" PROVE Covered(a, Pending(d)')
      <3>1. remote[a] = "live" => Accounted(a, Pending(d))
        BY <2>1 DEF Tracked, TrackedBy, Handling
      <3>2. Covered(a, Pending(d))
        BY <1>1, <2>4, <3>1
      <3>3. det[d].ok /\ a = det[d].at[2] => gap'[a] # {}
        BY <2>1, <2>3, <2>4 DEF Down, market
      <3>4. Pending(d) \subseteq Pending(d)' \cup (IF det[d].ok THEN {det[d].at} ELSE {})
        BY <2>1, <2>2, <2>3 DEF Pending, DetAt
      <3>. QED
        BY <3>2, <3>3, <3>4 DEF Covered
    <2>5. TrackedBy(d)'
      BY <1>6, <2>2, <2>3, <2>4
    <2>. QED
      BY <1>4, <2>1, <2>2, <2>5
  <1>15. ASSUME NEW d \in Detectors, NEW slow, RaiseRisk(d, slow) PROVE Tracked'
    <2>1. Only(d) /\ det'[d].phase \notin Handling /\ item' = item
      BY <1>15, RestDet DEF RaiseRisk, Handling
    <2>. QED
      BY <1>4, <1>5, <2>1
  <1>16. ASSUME NEW d \in Detectors, SoldOut(d) PROVE Tracked'
    <2>1. Only(d) /\ det'[d].phase \notin Handling /\ det[d].failed = <<>>
          /\ det[d].phase \in {"ending", "retrying"} /\ (det[d].phase = "ending" => det[d].todo = {})
      BY <1>16, RestDet DEF SoldOut, Tried, DetAt, Handling
    <2>2. Pending(d) = {}
      BY <2>1 DEF Pending, DetAt, Tracked, TrackedBy, ToSet
    <2>3. ASSUME NEW a \in Accounts, remote'[a] = "live" PROVE a \in unseen' \/ gap'[a] # {}
      <3>1. remote[a] = "live" => Accounted(a, Pending(d))
        BY <2>1 DEF Tracked, TrackedBy, Handling
      <3>2. Covered(a, Pending(d))
        BY <1>1, <2>3, <3>1
      <3>. QED
        BY <2>2, <3>2 DEF Covered
    <2>4. SoldIsOffMarket'
      BY <2>3 DEF SoldIsOffMarket
    <2>5. TrackedBy(d)'
      BY <1>5, <2>1
    <2>. QED
      BY <1>3, <2>1, <2>4, <2>5 DEF Tracked, Only
  <1>17. ASSUME NEW d \in Detectors, OnSale(d) PROVE Tracked'
    BY <1>10, <1>11, <1>12, <1>13, <1>14, <1>15, <1>16, <1>17 DEF OnSale
  <1>. QED
    BY <1>7, <1>8, <1>9, <1>17 DEF Detecting

-----------------------------------------------------------------------------
\* The invariant holds at first: nothing is published, nothing under way.
LEMMA InvInit == Init => Inv
  <1> SUFFICES ASSUME Init PROVE Inv
    OBVIOUS
  <1>1. Types
    BY TypeInit
  <1>2. /\ \A p \in Publishers : pub[p].phase = "idle" /\ pub[p].left = {}
        /\ \A d \in Detectors : /\ det[d].phase = "idle" /\ det[d].todo = {}
                                /\ ToSet(det[d].failed) = {}
    BY RestingRows DEF Init, ToSet
  <1>3. /\ \A p \in Publishers, a \in Accounts : row[p][a] = "none"
        /\ \A a \in Accounts : remote[a] = "none" /\ saved[a] = FALSE
        /\ item = "ready" /\ touch = IdleTouch
    BY DEF Init
  <1>4. Rows
    BY <1>2, <1>3 DEF Rows, RowsOfRun, PubAt, Sending, Calling
  <1>5. \A l \in Listing : StatusOf(l) = "none"
    BY <1>3, ListingParts DEF StatusOf
  <1>6. Known
    BY <1>2, <1>3, <1>5 DEF Known, PubAt, Linked
  <1>7. Ended
    BY <1>2, <1>3, <1>5 DEF Ended, EndedRows, EndedTouch, EndedBy
  <1>8. Backed /\ Closed
    BY <1>2, <1>3 DEF Backed, Closed, Begun, Handling
  <1>9. Tracked
    BY <1>2, <1>3 DEF Tracked, TrackedBy, SoldIsOffMarket, Handling
  <1>. QED
    BY <1>1, <1>4, <1>6, <1>7, <1>8, <1>9 DEF Inv

\* Every step keeps the invariant.
LEMMA InvNext == Inv /\ [Next]_vars => Inv'
  <1> SUFFICES ASSUME Inv, [Next]_vars PROVE Inv'
    OBVIOUS
  <1>1. Types /\ Rows /\ Known /\ Ended /\ Backed /\ Closed /\ Tracked /\ Sane
    BY InvNamed DEF Inv
  <1>2. Types'
    BY <1>1, TypeNext
  <1>3. CASE UNCHANGED vars
    <2>1. UNCHANGED <<item, row, remote, saved, gap, pub, det, touch, unseen>>
      BY <1>3 DEF vars, tables, market
    <2>2. Rows' /\ Known'
      BY <1>1, <2>1 DEF Rows, RowsOfRun, Known, PubAt, StatusOf
    <2>3. Ended'
      BY <1>1, <2>1 DEF Ended, EndedRows, EndedTouch, EndedBy, Down, StatusOf
    <2>4. Backed' /\ Closed'
      BY <1>1, <2>1 DEF Backed, Backs, PubAt, Closed, Begun
    <2>5. Tracked'
      BY <1>1, <2>1 DEF Tracked, TrackedBy, SoldIsOffMarket, Accounted, Pending, DetAt
    <2>. QED
      BY <1>2, <2>2, <2>3, <2>4, <2>5 DEF Inv
  <1>4. ASSUME NEW p \in Publishers, Publish(p) \/ Publishing(p) \/ PublisherDies(p) PROVE Inv'
    <2>1. Run(p) /\ Admits(p) /\ Rows' /\ Known' /\ Backed'
      BY <1>1, <1>4, PublishKeeps
    <2>2. Ended'
      BY <1>1, <2>1, RunKeeps DEF Ended
    <2>3. Closed' /\ item' \in {item, "listed"}
      BY <1>1, <1>4, <2>1, ClosedRun
    <2>4. Tracked'
      BY <1>1, <2>1, <2>3, TrackedRun
    <2>. QED
      BY <1>2, <2>1, <2>2, <2>3, <2>4 DEF Inv
  <1>5. ASSUME \/ \E o \in Orders : Pay(o) \/ \E a \in Accounts : Buy(o, a, "paid") \/ Buy(o, a, "pending")
               \/ ReleaseReservation \/ BreakerCools \/ StoreTouch
               \/ \E l \in Listing, to \in Linked : TouchListing(l, to)
               \/ \E d \in Detectors : Detecting(d) \/ DetectorDies(d)
               \/ \E d \in Detectors, a \in Accounts : SyncOrders(d, a) \/ ProcessSales(d, a)
        PROVE  Inv'
    <2>1. Tame
      BY <1>1, <1>5, OthersTame
    <2>2. Rows' /\ Known' /\ EndedRows' /\ Backed' /\ Stays
      BY <1>1, <1>2, <2>1, TameKeeps DEF Stays
    <2>3. EndedTouch' /\ \A d \in Detectors : EndedBy(d)'
      BY <1>1, <1>2, <1>5, <2>2, EndedOthers
    <2>4. Closed' /\ unseen \subseteq unseen'
      BY <1>1, <1>2, <1>5, <2>1, ClosedOthers
    <2>5. Tracked'
      BY <1>1, <1>2, <1>5, <2>1, <2>4, TrackedOthers
    <2>. QED
      BY <1>2, <2>2, <2>3, <2>4, <2>5 DEF Inv, Ended
  <1>. QED
    BY <1>3, <1>4, <1>5 DEF Next

\* So it always holds.
LEMMA Inductive == Spec => []Inv
  BY InvInit, InvNext, PTL DEF Spec

\* The tables, the marketplace and the records of the processes have the
\* values the schema and the code give them.
THEOREM TypeCorrect == Spec => []TypeOK
  <1>1. Inv => TypeOK
    BY DEF Inv, Types
  <1>. QED
    BY <1>1, Inductive, PTL

\* A row that says ended is of a listing nobody can buy any more: whatever
\* writes it has seen the listing down, and no listing goes up twice.
THEOREM EndedHolds == Spec => []EndedIsDown
  <1>1. Inv => EndedIsDown
    BY DEF Inv, Ended, EndedRows, EndedIsDown, Down
  <1>. QED
    BY <1>1, Inductive, PTL

\* A live listing has a row a sale or a reconciliation can find, or the
\* gateway left its state open.
THEOREM LiveKnown == Spec => []LiveIsKnown
  <1>1. Inv => LiveIsKnown
    BY DEF Inv, Backed, Backs, LiveIsKnown, ActiveOn
  <1>. QED
    BY <1>1, Inductive, PTL

\* An item marked sold is off every marketplace, but for accounts a publish
\* was under way for when the sale was handled, and for listings whose state
\* the gateway left open: every handling keeps track of what is still up.
THEOREM SoldOffMarket == Spec => []SoldIsOffMarket
  <1>1. Inv => SoldIsOffMarket
    BY DEF Inv, Tracked
  <1>. QED
    BY <1>1, Inductive, PTL
=============================================================================
