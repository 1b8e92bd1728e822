-------------------------- MODULE GiftIntakeProofs --------------------------
(***************************************************************************)
(* Proofs about GiftIntake: whatever body comes in, whomever Twenty knows, *)
(* whatever reviewers edit and however often the row is processed, what    *)
(* GiftIntake promises of gifts nobody looked at, of donors chosen by id,  *)
(* of eligible rows and of receipts holds.                                 *)
(***************************************************************************)
EXTENDS GiftIntake, TLAPS

(***************************************************************************)
(* What the helpers give                                                   *)
(***************************************************************************)

Match == [person : Anyone, by : {"none", "email", "name"}]

\* The lookup gives nobody or, for a contact with an address, a person of
\* Twenty, by the address only its owner.
LEMMA LookupGives ==
    ASSUME NEW c \in Contacts, NEW m \in Lookup(c)
    PROVE  /\ m \in Match
           /\ m # NoMatch =>
                  /\ c = "email" /\ m.person \in People
                  /\ m.by \in {"email", "name"}
                  /\ m.by = "email" => crm[m.person] = "owner"
           /\ m = NoMatch => m.person = NoPerson /\ m.by = "none"
<1>1. NoMatch \in Match /\ NoMatch.person = NoPerson /\ NoMatch.by = "none"
  BY DEF NoMatch, Match, Anyone
<1>2. ASSUME m \in Matches(c)
      PROVE  /\ c = "email" /\ m \in Match /\ m.person \in People
             /\ m.by \in {"email", "name"}
             /\ m.by = "email" => crm[m.person] = "owner"
  BY <1>2 DEF Matches, Match, Anyone
<1> QED BY <1>1, <1>2 DEF Lookup

\* The two payloads are about the same gift.
SameGift(p, q) ==
    /\ p.source = q.source /\ p.intent = q.intent /\ p.names = q.names
    /\ p.donor = q.donor /\ p.matched = q.matched /\ p.company = q.company
    /\ p.agreement = q.agreement /\ p.dated = q.dated /\ p.large = q.large

LEMMA ReceiptedFields ==
    ASSUME NEW p \in Payload
    PROVE  /\ Receipted(p) \in Payload
           /\ SameGift(Receipted(p), p)
           /\ Receipted(p).policy # "none" /\ Receipted(p).key # NoKey
           /\ p.policy # "none" => Receipted(p).policy = p.policy
           /\ p.key # NoKey => Receipted(p).key = p.key
           /\ p.large => Receipted(p).receipt = "suppressed"
<1> DEFINE k == [donor |-> p.donor, company |-> p.company, agreement |-> p.agreement,
                 large |-> p.large]
           key == IF p.key # NoKey THEN p.key ELSE k
           policy == IF p.policy # "none" THEN p.policy
                     ELSE IF p.agreement THEN "recurring" ELSE "one_off"
           receipt == IF p.large THEN "suppressed"
                      ELSE IF p.receipt = "none" THEN "pending" ELSE p.receipt
<1>1. k \in Key
  BY DEF Payload, Key
<1>2. key \in Key \cup {NoKey} /\ key # NoKey /\ (p.key # NoKey => key = p.key)
  BY <1>1, KeyAssumption DEF Payload
<1>3. /\ policy \in {"one_off", "recurring"} /\ (p.policy # "none" => policy = p.policy)
      /\ receipt \in {"pending", "suppressed"} /\ (p.large => receipt = "suppressed")
  BY DEF Payload
<1>4. Receipted(p) = [p EXCEPT !.policy = policy, !.receipt = receipt, !.key = key]
  BY DEF Receipted
<1> HIDE DEF k, key, policy, receipt
<1>5. Receipted(p) \in Payload
  BY <1>2, <1>3, <1>4 DEF Payload
<1>6. /\ Receipted(p).policy = policy /\ Receipted(p).receipt = receipt
      /\ Receipted(p).key = key
  BY <1>4 DEF Payload
<1>7. SameGift(Receipted(p), p)
  BY <1>4 DEF Payload, SameGift
<1> QED BY <1>2, <1>3, <1>5, <1>6, <1>7

LEMMA ContactsAre ==
    ASSUME NEW b \in Body
    PROVE  /\ ContactOf(b) \in Contacts
           /\ ToResolve(b) \in Contacts
           /\ ChosenBy(b) \in Anyone
BY DEF ContactOf, ToResolve, ChosenBy, Body, Contacts, Anyone

\* The fields of Prepared that the decision and the receipt depend on.
LEMMA PreparedFields ==
    ASSUME NEW b \in Body, NEW m \in Match, NEW d \in Anyone
    PROVE  LET p == Prepared(b, m, d) IN
           /\ p \in Payload
           /\ p.source = b.source /\ p.names = ContactOf(b) /\ p.company = b.company
           /\ p.matched = m.by
           /\ p.donor = IF d # NoPerson THEN d ELSE ChosenBy(b)
           /\ p.policy # "none" /\ p.key # NoKey
<1> DEFINE c == ContactOf(b)
           raw == [source |-> b.source, intent |-> b.intent, names |-> c,
                   donor |-> IF d # NoPerson THEN d ELSE ChosenBy(b),
                   matched |-> m.by, company |-> b.company, agreement |-> b.agreement,
                   dated |-> b.dated, large |-> b.large, auto |-> b.auto,
                   policy |-> "none", receipt |-> "none", key |-> NoKey]
<1>1. ChosenBy(b) \in Anyone /\ c \in Contacts
  BY ContactsAre
<1> HIDE DEF c
<1>2. /\ raw \in Payload /\ raw.source = b.source /\ raw.names = c
      /\ raw.company = b.company /\ raw.matched = m.by
      /\ raw.donor = IF d # NoPerson THEN d ELSE ChosenBy(b)
  BY <1>1 DEF Payload, Body, Match
<1>3. Prepared(b, m, d) = Receipted(raw)
  BY DEF Prepared, c
<1> HIDE DEF raw
<1> QED BY <1>2, <1>3, ReceiptedFields DEF SameGift, c


-----------------------------------------------------------------------------
(***************************************************************************)
(* The ways in                                                             *)
(***************************************************************************)

\* What createGift makes of a payload.
LEMMA Given ==
    ASSUME IntakeInv, phase = "new", NEW p \in Payload, p.policy # "none", p.key # NoKey,
           NEW stored \in BOOLEAN, NEW created \in BOOLEAN, GiveOrHold(p, stored, created)
    PROVE  /\ phase' \in {"held", "given", "processing", "refused"}
           /\ payload' \in Payload /\ payload'.policy # "none" /\ payload'.key # NoKey
           /\ SameGift(payload', p)
           /\ staged' \in BOOLEAN /\ unseen' \in BOOLEAN
           /\ gift' # gift => gift' = payload'
           /\ gift' \in Payload \cup {NoGift}
           /\ diagnostics' \in Diagnostics
           /\ staged' => diagnostics' = Diagnosed(p)
           /\ unseen' => gift' = payload' /\ AutoProcess(p, Diagnosed(p))
<1> DEFINE d == Diagnosed(p)
           q == [p EXCEPT !.auto = IF enabled THEN AutoProcess(p, d) ELSE @]
           row == enabled /\ stored
<1>1. d \in Diagnostics
  BY DEF Diagnosed, Diagnostics, Confidence, Payload
<1>2. AutoProcess(p, d) \in BOOLEAN
  BY <1>1 DEF AutoProcess, Payload, Diagnostics, Sources
<1>3. /\ q \in Payload /\ q.policy # "none" /\ q.key # NoKey
      /\ SameGift(q, p)
      /\ enabled /\ q.auto => AutoProcess(p, d)
  BY <1>2 DEF Payload, SameGift
<1>4. /\ payload' = q /\ diagnostics' = IF enabled THEN d ELSE diagnostics
      /\ staged' = row
      /\ \/ row /\ ~q.auto /\ phase' = "held" /\ UNCHANGED <<gift, unseen>>
         \/ /\ ~(row /\ ~q.auto)
            /\ phase' = IF created THEN "given" ELSE IF row THEN "processing" ELSE "refused"
            /\ gift' = IF created THEN q ELSE NoGift
            /\ unseen' = (created /\ row)
  BY DEF GiveOrHold
<1> HIDE DEF q, d
<1>5. /\ gift \in Payload \cup {NoGift} /\ diagnostics \in Diagnostics
      /\ enabled \in BOOLEAN /\ unseen \in BOOLEAN /\ gift = NoGift /\ ~unseen
  BY DEF IntakeInv, TypeOK, NewIsEmpty
<1>6. /\ phase' \in {"held", "given", "processing", "refused"}
      /\ payload' \in Payload /\ payload'.policy # "none" /\ payload'.key # NoKey
      /\ SameGift(payload', p)
      /\ diagnostics' \in Diagnostics
  BY <1>1, <1>3, <1>4, <1>5
<1>7. staged' \in BOOLEAN /\ (staged' => diagnostics' = d)
  BY <1>4, <1>5
<1>8. /\ unseen' \in BOOLEAN /\ gift' \in Payload \cup {NoGift}
      /\ gift' # gift => gift' = payload'
  BY <1>3, <1>4, <1>5
<1>9. unseen' => gift' = payload' /\ AutoProcess(p, d)
  BY <1>3, <1>4, <1>5
<1> QED BY <1>6, <1>7, <1>8, <1>9 DEF d

\* What holds after a request of a gift, as the decision needs it.
LEMMA GiftSubmitted ==
    ASSUME IntakeInv, phase = "new", NEW b \in GiftBody, NEW stored \in BOOLEAN,
           NEW created \in BOOLEAN, NEW m, NEW p \in Anyone,
           SubmitGift(b, stored, created, m, p)
    PROVE  IntakeInv' /\ (gift' # gift /\ chosen' # NoPerson => gift'.donor = chosen')
<1> DEFINE contact == ContactOf(b)
           asked == ToResolve(b)
           missing == asked # "none" /\ m = NoMatch
           donor == IF missing THEN p ELSE m.person
           prepared == Prepared(b, m, donor)
           Refused == ~Accepted(b) \/ (missing /\ p = NoPerson)
<1>1. /\ TypeOK /\ ~staged /\ ~unseen /\ gift = NoGift /\ failure = "none"
  BY DEF IntakeInv, NewIsEmpty
<1>2. /\ contact \in Contacts /\ asked \in Contacts /\ ChosenBy(b) \in Anyone
      /\ asked # "none" => asked = contact
      /\ asked = "none" => contact = "none" \/ b.company
  <2>1. b \in Body /\ b.donorId = NoPerson
    BY DEF GiftBody
  <2> QED BY <2>1, ContactsAre DEF ToResolve
<1>3. /\ m \in Match
      /\ m # NoMatch => /\ asked = "email" /\ m.person \in People
                        /\ m.by \in {"email", "name"}
                        /\ m.by = "email" => crm[m.person] = "owner"
      /\ m = NoMatch => m.person = NoPerson /\ m.by = "none"
  BY <1>2, LookupGives DEF SubmitGift
<1>4. /\ before' = crm /\ enabled' = enabled /\ cleared' = cleared
      /\ failure' = failure /\ edits' = edits
  BY DEF SubmitGift
<1>5. CASE Refused
  <2>1. /\ phase' = "refused"
        /\ UNCHANGED <<crm, staged, payload, diagnostics, gift, unseen, chosen>>
    BY <1>5 DEF SubmitGift, Refuse
  <2> QED BY <1>1, <1>4, <2>1
          DEF IntakeInv, TypeOK, NewIsEmpty, ChosenIsStaged, EligibleIsKept,
              UnseenGiftsAreComplete, NamesakesAreReviewed, EligibleRowsAreValid
<1>6. CASE ~Refused
  <2>1. /\ donor \in Anyone
        /\ asked # "none" => donor # NoPerson
        /\ asked = "none" => donor = NoPerson
    BY <1>2, <1>3, <1>6, IntakeAssumption DEF Anyone
  <2>2. /\ IF missing THEN crm[p] = "absent" /\ crm' = [crm EXCEPT ![p] = Created(asked)]
                      ELSE p = NoPerson /\ crm' = crm
        /\ chosen' = IF asked = "none" THEN ChosenBy(b) ELSE NoPerson
        /\ GiveOrHold(prepared, stored, created)
    BY <1>6 DEF SubmitGift
  <2>3. /\ prepared \in Payload /\ prepared.source = b.source /\ prepared.names = contact
        /\ prepared.company = b.company /\ prepared.matched = m.by
        /\ prepared.donor = IF donor # NoPerson THEN donor ELSE ChosenBy(b)
        /\ prepared.policy # "none" /\ prepared.key # NoKey
    BY <1>2, <1>3, <2>1, PreparedFields DEF GiftBody
  <2> HIDE DEF prepared
  <2>4. /\ phase' \in {"held", "given", "processing", "refused"}
        /\ payload' \in Payload /\ payload'.policy # "none" /\ payload'.key # NoKey
        /\ SameGift(payload', prepared)
        /\ staged' \in BOOLEAN /\ unseen' \in BOOLEAN
        /\ gift' # gift => gift' = payload'
        /\ gift' \in Payload \cup {NoGift}
        /\ diagnostics' \in Diagnostics
        /\ staged' => diagnostics' = Diagnosed(prepared)
        /\ unseen' => gift' = payload' /\ AutoProcess(prepared, Diagnosed(prepared))
    BY <2>2, <2>3, Given
  <2>5. prepared.donor = chosen' \/ chosen' = NoPerson
    BY <2>1, <2>2, <2>3
  <2>6. TypeOK'
    <3>1. crm' \in [People -> Standing]
      BY <1>1, <2>2 DEF TypeOK, Created, Standing
    <3>2. chosen' \in Anyone
      BY <1>2, <2>2 DEF Anyone
    <3> QED BY <1>1, <1>4, <2>4, <3>1, <3>2 DEF TypeOK
  <2>7. Diagnosed(prepared).eligible => ValidPayload(prepared)
    BY <1>2, <2>1, <2>3 DEF Diagnosed, ValidPayload
  <2>8. NewIsEmpty' /\ ChosenIsStaged' /\ EligibleRowsAreValid'
    BY <1>1, <1>4, <2>4, <2>5
       DEF NewIsEmpty, ChosenIsStaged, EligibleRowsAreValid, SameGift
  <2>9. EligibleIsKept'
    BY <2>4, <2>7 DEF EligibleIsKept, ValidPayload, SameGift
  <2>10. UnseenGiftsAreComplete'
    <3> SUFFICES ASSUME unseen'
                 PROVE  /\ gift'.dated
                        /\ gift'.intent = "org" => gift'.company
                        /\ gift'.donor # NoPerson \/ gift'.company
                        /\ gift'.intent = "recurring" => gift'.agreement
      BY DEF UnseenGiftsAreComplete
    <3>1. gift' = payload' /\ SameGift(gift', prepared) /\ Diagnosed(prepared).eligible
      BY <2>4 DEF AutoProcess
    <3> QED BY <2>7, <3>1 DEF Diagnosed, ValidPayload, SameGift
  <2>11. NamesakesAreReviewed'
    <3> SUFFICES ASSUME unseen'
                 PROVE  /\ /\ gift'.source # "manual_ui" /\ chosen' = NoPerson
                           /\ gift'.donor # NoPerson
                           => crm[gift'.donor] # "namesake"
                        /\ gift'.source = "csv_import" =>
                               gift'.donor # NoPerson /\ crm[gift'.donor] = "owner"
      BY <1>4 DEF NamesakesAreReviewed
    <3> DEFINE d == Diagnosed(prepared)
    <3>1. /\ gift' = payload' /\ SameGift(gift', prepared)
          /\ AutoProcess(prepared, d) /\ d.identity = Confidence(prepared)
      BY <2>4 DEF Diagnosed
    <3>2. /\ prepared.source \in Sources
          /\ prepared.source = "csv_import" => d.identity = "strong"
          /\ prepared.source = "stripe_webhook" => d.identity \in {"strong", "explicit"}
      BY <2>3, <3>1 DEF AutoProcess, Payload, Sources
    <3>3. CASE asked = "none"
      <4>1. m = NoMatch /\ prepared.matched = "none" /\ d.identity # "strong"
        BY <1>3, <2>3, <3>1, <3>3 DEF Confidence
      <4>2. prepared.donor = chosen'
        BY <2>1, <2>2, <2>3, <3>3
      <4> QED BY <3>1, <3>2, <4>1, <4>2 DEF SameGift
    <3>4. CASE asked # "none" /\ m = NoMatch
      <4>1. prepared.donor = p /\ crm[p] = "absent" /\ d.identity # "strong"
        BY <1>3, <2>1, <2>2, <2>3, <3>1, <3>4 DEF Confidence
      <4> QED BY <3>1, <3>2, <4>1 DEF SameGift
    <3>5. CASE asked # "none" /\ m # NoMatch
      <4>1. /\ prepared.donor = m.person /\ prepared.donor # NoPerson
            /\ prepared.matched = m.by
        BY <1>3, <2>1, <2>3, <3>5
      <4>2. m.by = "name" => d.identity = "weak"
        BY <3>1, <4>1 DEF Confidence
      <4>3. m.by \in {"email", "name"} /\ (m.by = "email" => crm[m.person] = "owner")
        BY <1>3, <3>5
      <4>4. gift'.source = prepared.source /\ gift'.donor = m.person /\ m.person # NoPerson
        BY <3>1, <4>1 DEF SameGift
      <4> QED BY <3>2, <4>2, <4>3, <4>4 DEF Sources
    <3> QED BY <3>3, <3>4, <3>5
  <2>12. gift' # gift /\ chosen' # NoPerson => gift'.donor = chosen'
    BY <2>4, <2>5 DEF SameGift
  <2> QED BY <2>6, <2>8, <2>9, <2>10, <2>11, <2>12 DEF IntakeInv
<1> QED BY <1>5, <1>6

LEMMA StagingSubmitted ==
    ASSUME IntakeInv, phase = "new", NEW b \in Body, NEW m, SubmitStaging(b, m)
    PROVE  IntakeInv' /\ gift' = gift
<1> DEFINE prepared == Prepared(b, m, NoPerson)
           p == [prepared EXCEPT !.auto = FALSE]
<1>1. TypeOK /\ ~staged /\ ~unseen /\ gift = NoGift /\ failure = "none"
  BY DEF IntakeInv, NewIsEmpty
<1>2. ChosenBy(b) \in Anyone /\ ToResolve(b) \in Contacts /\ NoPerson \in Anyone
  BY ContactsAre DEF Anyone
<1>3. m \in Match
  BY <1>2, LookupGives DEF SubmitStaging
<1>4. /\ before' = crm /\ enabled' = enabled /\ cleared' = cleared
      /\ failure' = failure /\ edits' = edits
  BY DEF SubmitStaging
<1>5. /\ prepared \in Payload /\ prepared.company = b.company /\ prepared.donor = ChosenBy(b)
      /\ prepared.policy # "none" /\ prepared.key # NoKey
  BY <1>2, <1>3, PreparedFields
<1>6. CASE Accepted(b)
  <2>1. /\ staged' = TRUE /\ phase' = "held" /\ payload' = p
        /\ diagnostics' = Diagnosed(p) /\ chosen' = ChosenBy(b)
        /\ UNCHANGED <<crm, gift, unseen>>
    BY <1>6 DEF SubmitStaging
  <2> HIDE DEF prepared
  <2>2. /\ p \in Payload /\ p.donor = ChosenBy(b)
        /\ p.policy # "none" /\ p.key # NoKey
    BY <1>5 DEF Payload
  <2> HIDE DEF p
  <2>3. Diagnosed(p) \in Diagnostics
    BY <2>2 DEF Diagnosed, Diagnostics, Confidence, Payload
  <2>4. Diagnosed(p).eligible => ValidPayload(p) \/ p.names # "none"
    BY DEF Diagnosed, ValidPayload
  <2>5. TypeOK'
    BY <1>1, <1>2, <1>4, <2>1, <2>2, <2>3 DEF TypeOK
  <2> QED BY <1>1, <1>4, <2>1, <2>2, <2>4, <2>5
          DEF IntakeInv, NewIsEmpty, ChosenIsStaged, EligibleIsKept,
              UnseenGiftsAreComplete, NamesakesAreReviewed, EligibleRowsAreValid
<1>7. CASE ~Accepted(b)
  <2>1. /\ phase' = "refused"
        /\ UNCHANGED <<crm, staged, payload, diagnostics, gift, unseen, chosen>>
    BY <1>7 DEF SubmitStaging, Refuse
  <2> QED BY <1>1, <1>4, <2>1
          DEF IntakeInv, TypeOK, NewIsEmpty, ChosenIsStaged, EligibleIsKept,
              UnseenGiftsAreComplete, NamesakesAreReviewed, EligibleRowsAreValid
<1> QED BY <1>6, <1>7

-----------------------------------------------------------------------------
(***************************************************************************)
(* The row afterwards                                                      *)
(***************************************************************************)

\* What reviewers do leaves the gift, and the receipt fields of the row, alone.
LEMMA Reviewed ==
    ASSUME IntakeInv,
           (\E c \in Changes : Save(c)) \/ (\E p \in People : Assign(p)) \/ MarkReady
    PROVE  /\ IntakeInv' /\ gift' = gift
           /\ payload'.key = payload.key /\ payload'.policy = payload.policy
<1> DEFINE Goal == /\ IntakeInv' /\ gift' = gift
                   /\ payload'.key = payload.key /\ payload'.policy = payload.policy
<1>1. TypeOK /\ payload \in Payload
  BY DEF IntakeInv, TypeOK
<1>2. ASSUME NEW c \in Changes, Save(c) PROVE Goal
  <2>1. /\ payload' \in Payload /\ payload'.donor = payload.donor
        /\ payload'.company = payload.company /\ payload'.names = c.names
        /\ payload'.key = payload.key /\ payload'.policy = payload.policy
    BY <1>1, <1>2 DEF Save, Changes, Payload
  <2>2. /\ staged /\ edits < MaxEdits /\ edits' = edits + 1
        /\ cleared' = (cleared \/ c.names = "none")
        /\ UNCHANGED <<enabled, crm, before, staged, phase, diagnostics, gift, unseen,
                       chosen, failure>>
    BY <1>2 DEF Save
  <2>3. TypeOK'
    BY <1>1, <2>1, <2>2, IntakeAssumption DEF TypeOK
  <2> QED BY <2>1, <2>2, <2>3
          DEF IntakeInv, NewIsEmpty, ChosenIsStaged, EligibleIsKept, ValidPayload,
              UnseenGiftsAreComplete, NamesakesAreReviewed, EligibleRowsAreValid
<1>3. ASSUME NEW p \in People, Assign(p) PROVE Goal
  <2>1. /\ payload' \in Payload /\ payload'.donor = p /\ p \in Anyone /\ p # NoPerson
        /\ payload'.company = payload.company /\ payload'.names = payload.names
        /\ payload'.key = payload.key /\ payload'.policy = payload.policy
    BY <1>1, <1>3, IntakeAssumption DEF Assign, Payload, Anyone
  <2>2. /\ staged /\ edits < MaxEdits /\ edits' = edits + 1 /\ chosen' = p
        /\ UNCHANGED <<enabled, crm, before, staged, phase, diagnostics, gift, unseen,
                       cleared, failure>>
    BY <1>3 DEF Assign
  <2>3. TypeOK'
    BY <1>1, <2>1, <2>2, IntakeAssumption DEF TypeOK
  <2> QED BY <2>1, <2>2, <2>3
          DEF IntakeInv, NewIsEmpty, ChosenIsStaged, EligibleIsKept, ValidPayload,
              UnseenGiftsAreComplete, NamesakesAreReviewed, EligibleRowsAreValid
<1>4. CASE MarkReady
  <2>1. /\ staged /\ phase' = "ready"
        /\ UNCHANGED <<enabled, crm, before, staged, payload, diagnostics, gift, unseen,
                       chosen, cleared, failure, edits>>
    BY <1>4 DEF MarkReady
  <2> QED BY <2>1
          DEF IntakeInv, TypeOK, NewIsEmpty, ChosenIsStaged, EligibleIsKept,
              UnseenGiftsAreComplete, NamesakesAreReviewed, EligibleRowsAreValid
<1> QED BY <1>2, <1>3, <1>4

LEMMA Processed ==
    ASSUME IntakeInv, NEW m, NEW p \in Anyone, NEW kept \in BOOLEAN,
           NEW created \in BOOLEAN, Process(m, p, kept, created)
    PROVE  /\ IntakeInv'
           /\ payload'.key = payload.key /\ payload'.policy = payload.policy
           /\ gift' # gift =>
                  /\ gift'.key = payload.key
                  /\ gift'.policy = payload.policy
                  /\ gift'.large => gift'.receipt = "suppressed"
                  /\ chosen' # NoPerson => gift'.donor = chosen'
<1> DEFINE asked == Unresolved(payload)
           missing == asked # "none" /\ m = NoMatch
           donor == IF missing THEN p ELSE m.person
           resolved == IF asked = "none" THEN payload
                       ELSE [payload EXCEPT !.donor = donor]
           Made == phase' = "given" /\ gift' = Receipted(resolved) /\ unseen' = FALSE
                   /\ failure' = failure
           Invalid == failure' = "invalid" /\ ~ValidPayload(resolved)
                      /\ ~(missing /\ p = NoPerson)
<1>1. /\ TypeOK /\ staged /\ payload \in Payload /\ phase # "new"
      /\ payload.policy # "none" /\ payload.key # NoKey
  BY DEF IntakeInv, TypeOK, Process
<1>2. /\ asked \in Contacts
      /\ asked # "none" => payload.donor = NoPerson /\ payload.names # "none"
      /\ payload.donor = NoPerson /\ payload.names # "none" => asked # "none"
  BY <1>1 DEF Unresolved, Payload, Contacts
<1>3. /\ m \in Match
      /\ m # NoMatch => m.person \in People
      /\ m = NoMatch => m.person = NoPerson
  BY <1>2, LookupGives DEF Process
<1>4. /\ donor \in Anyone
      /\ asked # "none" /\ ~(missing /\ p = NoPerson) => donor # NoPerson
  BY <1>3, IntakeAssumption DEF Match, Anyone
<1>5. /\ \/ Made \/ (phase' = "failed" /\ UNCHANGED <<gift, unseen>>
                     /\ (failure' \in {"person", "gift"} \/ Invalid))
      /\ payload' = IF kept THEN resolved ELSE payload
      /\ crm' = crm \/ crm' = [crm EXCEPT ![p] = Created(asked)]
      /\ UNCHANGED <<enabled, before, staged, diagnostics, chosen, cleared, edits>>
  BY DEF Process, Fails
<1>6. /\ resolved \in Payload
      /\ resolved.company = payload.company /\ resolved.names = payload.names
      /\ resolved.key = payload.key /\ resolved.policy = payload.policy
      /\ resolved.large = payload.large
      /\ payload.donor # NoPerson => resolved.donor = payload.donor
      /\ asked # "none" => resolved.donor = donor
      /\ asked = "none" => resolved = payload
  BY <1>1, <1>2, <1>4 DEF Payload
<1> HIDE DEF resolved, donor
<1>7. /\ payload' \in Payload
      /\ payload'.company = payload.company /\ payload'.names = payload.names
      /\ payload'.key = payload.key /\ payload'.policy = payload.policy
      /\ payload.donor # NoPerson => payload'.donor = payload.donor
  BY <1>1, <1>5, <1>6
<1>8. /\ Receipted(resolved) \in Payload
      /\ Receipted(resolved).key = payload.key /\ Receipted(resolved).policy = payload.policy
      /\ Receipted(resolved).large => Receipted(resolved).receipt = "suppressed"
      /\ Receipted(resolved).donor = resolved.donor
  BY <1>1, <1>6, ReceiptedFields DEF SameGift
<1>9. TypeOK'
  <2>1. crm' \in [People -> Standing]
    BY <1>1, <1>5 DEF TypeOK, Created, Standing
  <2>2. gift' \in Payload \cup {NoGift} /\ unseen' \in BOOLEAN
    BY <1>1, <1>5, <1>8 DEF TypeOK
  <2>3. /\ phase' \in {"failed", "given"}
        /\ failure' \in {"none", "person", "invalid", "gift"}
    BY <1>1, <1>5 DEF TypeOK
  <2> QED BY <1>1, <1>5, <1>7, <2>1, <2>2, <2>3 DEF TypeOK
<1>10. NewIsEmpty' /\ ChosenIsStaged' /\ EligibleIsKept'
  BY <1>1, <1>5, <1>7
     DEF IntakeInv, NewIsEmpty, ChosenIsStaged, EligibleIsKept, ValidPayload
<1>11. UnseenGiftsAreComplete' /\ NamesakesAreReviewed'
  BY <1>5 DEF IntakeInv, UnseenGiftsAreComplete, NamesakesAreReviewed
<1>12. EligibleRowsAreValid'
  <2>1. Invalid => payload.donor = NoPerson /\ ~payload.company /\ payload.names = "none"
    BY <1>1, <1>2, <1>4, <1>6 DEF ValidPayload, Payload
  <2>2. Invalid /\ diagnostics.eligible => cleared
    BY <1>1, <2>1 DEF IntakeInv, EligibleIsKept, ValidPayload
  <2> QED BY <1>5, <2>2 DEF IntakeInv, EligibleRowsAreValid
<1>13. gift' # gift => /\ gift'.key = payload.key
                       /\ gift'.policy = payload.policy
                       /\ gift'.large => gift'.receipt = "suppressed"
                       /\ chosen' # NoPerson => gift'.donor = chosen'
  <2>1. chosen' # NoPerson => resolved.donor = chosen'
    BY <1>1, <1>5, <1>6 DEF IntakeInv, ChosenIsStaged
  <2> QED BY <1>5, <1>8, <2>1
<1> QED BY <1>7, <1>9, <1>10, <1>11, <1>12, <1>13 DEF IntakeInv

-----------------------------------------------------------------------------
(***************************************************************************)
(* The theorems                                                            *)
(***************************************************************************)

LEMMA IntakeInit == Init => IntakeInv
<1> SUFFICES ASSUME Init PROVE IntakeInv
  OBVIOUS
<1>1. Empty \in Payload /\ NoPerson \in Anyone
  BY DEF Empty, Payload, Sources, Intents, Contacts, Anyone
<1>2. 0 \in 0 .. MaxEdits
  BY IntakeAssumption
<1>3. diagnostics \in Diagnostics /\ ~diagnostics.eligible
  BY DEF Init, Diagnostics
<1>4. TypeOK
  BY <1>1, <1>2, <1>3 DEF Init, TypeOK
<1> QED BY <1>3, <1>4
        DEF Init, IntakeInv, NewIsEmpty, ChosenIsStaged, EligibleIsKept,
            UnseenGiftsAreComplete, NamesakesAreReviewed, EligibleRowsAreValid

ReceiptStep ==
    staged =>
        /\ payload'.key = payload.key /\ payload'.policy = payload.policy
        /\ gift' # gift =>
               /\ gift'.key = payload.key
               /\ gift'.policy = payload.policy
               /\ gift'.large => gift'.receipt = "suppressed"

ChosenStep == gift' # gift /\ chosen' # NoPerson => gift'.donor = chosen'

LEMMA IntakeStep ==
    ASSUME IntakeInv, [Next]_vars
    PROVE  IntakeInv' /\ ReceiptStep /\ ChosenStep
<1>1. CASE Submit
  <2>1. phase = "new" /\ ~staged
    BY <1>1 DEF Submit, IntakeInv, NewIsEmpty
  <2> QED BY <1>1, <2>1, GiftSubmitted, StagingSubmitted
          DEF Submit, ReceiptStep, ChosenStep
<1>2. CASE (\E c \in Changes : Save(c)) \/ (\E p \in People : Assign(p)) \/ MarkReady
  BY <1>2, Reviewed DEF ReceiptStep, ChosenStep
<1>3. ASSUME NEW m, NEW p \in Anyone, NEW kept \in BOOLEAN, NEW created \in BOOLEAN,
             Process(m, p, kept, created)
      PROVE  IntakeInv' /\ ReceiptStep /\ ChosenStep
  BY <1>3, Processed DEF ReceiptStep, ChosenStep
<1>4. CASE UNCHANGED vars
  BY <1>4 DEF vars, ReceiptStep, ChosenStep, IntakeInv, TypeOK, NewIsEmpty, ChosenIsStaged,
              EligibleIsKept, UnseenGiftsAreComplete, NamesakesAreReviewed,
              EligibleRowsAreValid
<1> QED BY <1>1, <1>2, <1>3, <1>4 DEF Next

\* The invariant, with everything the run checks of states.
THEOREM IntakeInvariance == Spec => []IntakeInv
<1>1. IntakeInv /\ [Next]_vars => IntakeInv'
  BY IntakeStep
<1> QED BY <1>1, IntakeInit, PTL DEF Spec

\* A gift that went through staging without a reviewer has its date, its
\* organisation or its donor, and its agreement if it is an instalment: the
\* decision is taken on diagnostics that look for just that, after the contact
\* was resolved.
THEOREM UnseenGiftsAreAlwaysComplete == Spec => []UnseenGiftsAreComplete
BY IntakeInvariance, PTL DEF IntakeInv

\* No gift of an import or of Stripe that no reviewer saw goes to somebody who
\* merely has the donor's name.
THEOREM NamesakesAreAlwaysReviewed == Spec => []NamesakesAreReviewed
BY IntakeInvariance, PTL DEF IntakeInv

\* A row staged as eligible is not turned down as invalid when it is processed,
\* unless a reviewer emptied the donor's name.
THEOREM EligibleRowsStayValid == Spec => []EligibleRowsAreValid
BY IntakeInvariance, PTL DEF IntakeInv

\* Whatever becomes of a row, however often it is processed, has the receipt key
\* and policy of the request, and no receipt if its amount is over the limit.
THEOREM ReceiptsAreRight == Spec => ReceiptIsRight
<1>1. IntakeInv /\ [Next]_vars => ReceiptStep
  BY IntakeStep
<1> QED BY <1>1, IntakeInvariance, PTL DEF Spec, ReceiptIsRight, ReceiptStep

\* A donor chosen by id, in the request or by a reviewer, gets the gift.
THEOREM ChosenDonorsGetTheGift == Spec => ChosenDonorGetsTheGift
<1>1. IntakeInv /\ [Next]_vars => ChosenStep
  BY IntakeStep
<1> QED BY <1>1, IntakeInvariance, PTL DEF Spec, ChosenDonorGetsTheGift, ChosenStep
=============================================================================
