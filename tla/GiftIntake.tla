----------------------------- MODULE GiftIntake -----------------------------
(***************************************************************************)
(* What the service makes of the body of a donation: which fields are      *)
(* accepted, whom the gift goes to, how sure that is, whether a reviewer   *)
(* must look at it, what the reviewers are told, and what receipt the gift *)
(* gets, from the request to the gift, through edits and repeated          *)
(* processing.  GiftStaging models the same handlers call by call with     *)
(* this decision left open; here a handler is one step, and the payload    *)
(* it computes is what matters.                                            *)
(***************************************************************************)
EXTENDS Naturals

CONSTANTS
    People,     \* persons of Twenty, existing or to be created
    NoPerson,
    NoKey,      \* no receipt key yet
    NoGift,
    MaxEdits    \* bound on a reviewer's edits

ASSUME IntakeAssumption == NoPerson \notin People /\ MaxEdits \in Nat

VARIABLES
    enabled,    \* FUNDRAISING_ENABLE_GIFT_STAGING
    crm,        \* who is in Twenty
    before,     \* who was, when the request came
    staged,     \* there is a row for it
    phase,      \* the row's status, or what became of the request without one
    payload,    \* the normalised payload, rawPayload once it is staged
    diagnostics,\* processingDiagnostics of the row, as shown to reviewers
    gift,       \* the gift in Twenty
    unseen,     \* the gift was created by createGift from a staged row
    chosen,     \* the donor somebody last chose by id
    cleared,    \* a reviewer emptied the donor's name
    failure,    \* why the last attempt to process failed
    edits

vars == <<enabled, crm, before, staged, phase, payload, diagnostics, gift, unseen,
          chosen, cleared, failure, edits>>

Sources == {"manual_ui", "csv_import", "stripe_webhook"}
Intents == {"none", "org", "recurring"}     \* org: grant, corporateInKind
Contacts == {"none", "name", "email"}       \* a full name, and an address with it
Anyone == People \cup {NoPerson}

\* All contacts have one name and one address.  A person in Twenty has both, or
\* only the name.
Standing == {"absent", "owner", "namesake"}

\* The body of a request.
Body ==
    [source : Sources, intent : Intents, contact : Contacts, names : Contacts,
     contactId : Anyone, donorId : Anyone, company : BOOLEAN, agreement : BOOLEAN,
     dated : BOOLEAN, large : BOOLEAN, auto : BOOLEAN]

\* Only a gift to stage may come with the id of a donor or with loose names: the
\* other entry drops them.
GiftBody == {b \in Body : b.names = "none" /\ b.donorId = NoPerson}

\* The fingerprint of a gift that came without one.  Donor and amount are in it,
\* its date and its request are not.
Key == [donor : Anyone, company : BOOLEAN, agreement : BOOLEAN, large : BOOLEAN]

ASSUME KeyAssumption == NoKey \notin Key

Payload ==
    [source : Sources, intent : Intents, names : Contacts, donor : Anyone,
     matched : {"none", "email", "name"}, company : BOOLEAN,
     agreement : BOOLEAN, dated : BOOLEAN, large : BOOLEAN, auto : BOOLEAN,
     policy : {"none", "one_off", "recurring"},
     receipt : {"none", "pending", "suppressed"}, key : Key \cup {NoKey}]

Diagnostics ==
    [eligible : BOOLEAN, identity : {"strong", "explicit", "weak", "none"}]

Empty ==
    [source |-> "manual_ui", intent |-> "none", names |-> "none",
     donor |-> NoPerson, matched |-> "none", company |-> FALSE,
     agreement |-> FALSE, dated |-> FALSE, large |-> FALSE, auto |-> FALSE,
     policy |-> "none", receipt |-> "none", key |-> NoKey]

Init ==
    /\ enabled \in BOOLEAN
    /\ crm \in [People -> Standing]
    /\ before = crm
    /\ staged = FALSE
    /\ phase = "new"
    /\ payload = Empty
    /\ diagnostics = [eligible |-> FALSE, identity |-> "none"]
    /\ gift = NoGift
    /\ unseen = FALSE
    /\ chosen = NoPerson
    /\ cleared = FALSE
    /\ failure = "none"
    /\ edits = 0
-----------------------------------------------------------------------------
(***************************************************************************)
(* Validation and preparation                                              *)
(***************************************************************************)

Accepted(b) ==
    IF b.intent = "org" THEN b.company
    ELSE \/ b.contact # "none" \/ b.names # "none"
         \/ b.contactId # NoPerson \/ b.donorId # NoPerson

\* A gift of an organisation loses its contact and contactId, though neither its
\* loose names nor its donorId.
ContactOf(b) ==
    IF b.intent # "org" /\ b.contact # "none" THEN b.contact ELSE b.names

ChosenBy(b) ==
    IF b.donorId # NoPerson THEN b.donorId
    ELSE IF b.intent = "org" THEN NoPerson ELSE b.contactId

NoMatch == [person |-> NoPerson, by |-> "none"]

BugMatches(contact) ==
    {[person |-> p, by |-> "email"] :
        p \in {q \in People : contact = "email" /\ crm[q] # "absent"}}

\* Whom the duplicate lookup may give for a contact: the owner of the address,
\* otherwise somebody of the same name.  Without an address it is not asked.
Matches(contact) ==
    LET owners == {p \in People : crm[p] = "owner"}
        namesakes == {p \in People : crm[p] = "namesake"}
    IN IF contact # "email" THEN {}
       ELSE IF owners # {} THEN {[person |-> p, by |-> "email"] : p \in owners}
       ELSE {[person |-> p, by |-> "name"] : p \in namesakes}

\* A lookup that fails, or finds nobody, counts as no match.
Lookup(contact) ==
    Matches(contact) \cup {NoMatch}

BugRekeyed(p) ==
    [p EXCEPT
        !.policy = IF p.agreement THEN "recurring" ELSE "one_off",
        !.receipt = IF p.large THEN "suppressed"
                    ELSE IF p.receipt = "none" THEN "pending" ELSE p.receipt,
        !.key = [donor |-> p.donor, company |-> p.company,
                 agreement |-> p.agreement, large |-> p.large]]

\* applyReceiptMetadata: what is there already is kept, except that an amount
\* over the limit suppresses the receipt.
Receipted(p) ==
    [p EXCEPT
        !.policy = IF p.policy # "none" THEN p.policy
                   ELSE IF p.agreement THEN "recurring" ELSE "one_off",
        !.receipt = IF p.large THEN "suppressed"
                    ELSE IF p.receipt = "none" THEN "pending" ELSE p.receipt,
        !.key = IF p.key # NoKey THEN p.key
                ELSE [donor |-> p.donor, company |-> p.company,
                      agreement |-> p.agreement, large |-> p.large]]

BugPrepared(b, match, resolved) ==
    [source |-> b.source, intent |-> b.intent, names |-> ContactOf(b),
     donor |-> IF resolved # NoPerson THEN resolved ELSE ChosenBy(b),
     matched |-> match.by, company |-> b.company,
     agreement |-> b.agreement, dated |-> b.dated, large |-> b.large,
     auto |-> b.auto, policy |-> "none", receipt |-> "none", key |-> NoKey]

\* prepareGiftPayload, with the donor the contact was resolved to, if it was.
Prepared(b, match, resolved) ==
    Receipted(
        [source |-> b.source, intent |-> b.intent, names |-> ContactOf(b),
         donor |-> IF resolved # NoPerson THEN resolved ELSE ChosenBy(b),
         matched |-> match.by, company |-> b.company,
         agreement |-> b.agreement, dated |-> b.dated, large |-> b.large,
         auto |-> b.auto, policy |-> "none", receipt |-> "none", key |-> NoKey])

\* Nobody is looked up for a gift that names a company, or its donor.
ToResolve(b) == IF b.company \/ b.donorId # NoPerson THEN "none" ELSE ContactOf(b)

\* A new person has the address only if the contact had one.
Created(contact) == IF contact = "email" THEN "owner" ELSE "namesake"
-----------------------------------------------------------------------------
(***************************************************************************)
(* Diagnostics and the decision                                            *)
(***************************************************************************)

BugConfidence(p) ==
    IF p.donor # NoPerson \/ p.company THEN "explicit"
    ELSE IF p.matched = "email" THEN "strong"
    ELSE IF p.matched = "name" \/ p.names # "none" THEN "weak"
    ELSE "none"

\* resolveIdentityConfidence
Confidence(p) ==
    IF p.matched # "none" THEN IF p.matched = "email" THEN "strong" ELSE "weak"
    ELSE IF p.donor # NoPerson \/ p.company THEN "explicit"
    ELSE IF p.names # "none" THEN "weak"
    ELSE "none"

BugDiagnosed(p) ==
    [eligible |-> /\ p.donor # NoPerson \/ p.names # "none" \/ p.company
                  /\ p.intent = "recurring" \/ p.agreement
                  /\ p.dated,
     identity |-> Confidence(p)]

\* buildProcessingDiagnostics: what blocks a gift, and how sure its donor is.
Diagnosed(p) ==
    [eligible |-> /\ IF p.intent = "org" THEN p.company
                     ELSE p.donor # NoPerson \/ p.names # "none"
                  /\ p.intent = "recurring" => p.agreement
                  /\ p.dated,
     identity |-> Confidence(p)]

\* applyAutoProcessDecision: how sure the donor must be depends on where the
\* gift comes from.
AutoProcess(p, d) ==
    /\ p.auto
    /\ d.eligible
    /\ CASE p.source = "manual_ui" -> TRUE
         [] p.source = "csv_import" -> d.identity = "strong"
         [] OTHER -> d.identity \in {"strong", "explicit"}
-----------------------------------------------------------------------------
(***************************************************************************)
(* Requests                                                                *)
(***************************************************************************)

Refuse ==
    /\ phase' = "refused"
    /\ UNCHANGED <<crm, staged, payload, diagnostics, gift, unseen, chosen>>

\* createGift, once the donor is known: the decision, the row, the gift.  A row
\* that could not be staged is forgotten; a gift that could not be created leaves
\* a row nobody works on.
GiveOrHold(p, stored, created) ==
    LET d == Diagnosed(p)
        q == [p EXCEPT !.auto = IF enabled THEN AutoProcess(p, d) ELSE @]
        row == enabled /\ stored
    IN
    /\ payload' = q
    /\ diagnostics' = IF enabled THEN d ELSE diagnostics
    /\ staged' = row
    /\ IF row /\ ~q.auto
       THEN phase' = "held" /\ UNCHANGED <<gift, unseen>>
       ELSE /\ phase' = IF created THEN "given"
                        ELSE IF row THEN "processing" ELSE "refused"
            /\ gift' = IF created THEN q ELSE NoGift
            /\ unseen' = (created /\ row)

\* POST /gifts.  A contact is looked up, and created if nobody is found; if that
\* fails the request fails.
SubmitGift(b, stored, created, m, p) ==
    LET asked == ToResolve(b)
        missing == asked # "none" /\ m = NoMatch
        donor == IF missing THEN p ELSE m.person
    IN
    /\ m \in Lookup(asked)
    /\ before' = crm
    /\ UNCHANGED <<enabled, cleared, failure, edits>>
    /\ IF ~Accepted(b) \/ (missing /\ p = NoPerson)
       THEN p = NoPerson /\ Refuse
       ELSE /\ IF missing
               THEN /\ crm[p] = "absent"
                    /\ crm' = [crm EXCEPT ![p] = Created(asked)]
               ELSE p = NoPerson /\ UNCHANGED crm
            /\ chosen' = IF asked = "none" THEN ChosenBy(b) ELSE NoPerson
            /\ GiveOrHold(Prepared(b, m, donor), stored, created)

\* POST /gift-staging: nobody is created, nothing is decided, the row waits.
SubmitStaging(b, m) ==
    LET p == [Prepared(b, m, NoPerson) EXCEPT !.auto = FALSE] IN
    /\ enabled
    /\ m \in Lookup(ToResolve(b))
    /\ before' = crm
    /\ UNCHANGED <<enabled, cleared, failure, edits>>
    /\ IF Accepted(b)
       THEN /\ staged' = TRUE
            /\ phase' = "held"
            /\ payload' = p
            /\ diagnostics' = Diagnosed(p)
            /\ chosen' = ChosenBy(b)
            /\ UNCHANGED <<crm, gift, unseen>>
       ELSE Refuse

\* What the drawer can change: the donor's names, the intent, the date (which
\* buildPayloadUpdateBody cannot take away) and the amount.
Changes ==
    [names : Contacts, intent : Intents, large : BOOLEAN]

\* PATCH /gift-staging/:id by the drawer's form.  The diagnostics stay those of
\* the day the gift came.
Save(c) ==
    /\ staged
    /\ edits < MaxEdits
    /\ edits' = edits + 1
    /\ payload' = [payload EXCEPT !.names = c.names, !.intent = c.intent,
                                  !.large = c.large]
    /\ cleared' = (cleared \/ c.names = "none")
    /\ UNCHANGED <<enabled, crm, before, staged, phase, diagnostics, gift, unseen,
                   chosen, failure>>

\* The same, by "Assign donor".
Assign(p) ==
    /\ staged
    /\ edits < MaxEdits
    /\ crm[p] # "absent"
    /\ edits' = edits + 1
    /\ payload' = [payload EXCEPT !.donor = p]
    /\ chosen' = p
    /\ UNCHANGED <<enabled, crm, before, staged, phase, diagnostics, gift, unseen,
                   cleared, failure>>

\* PATCH /gift-staging/:id/status.  Neither the diagnostics nor what has become of
\* the row are looked at: a row may be processed twice.
MarkReady ==
    /\ staged
    /\ phase' = "ready"
    /\ UNCHANGED <<enabled, crm, before, staged, payload, diagnostics, gift, unseen,
                   chosen, cleared, failure, edits>>

BugUnresolved(p) == p.names

\* resolveDonorFromStagingPayload asks for a donor only if none is known.
Unresolved(p) == IF p.donor # NoPerson THEN "none" ELSE p.names

Fails(why) ==
    /\ phase' = "failed"
    /\ failure' = why
    /\ UNCHANGED <<gift, unseen>>

BugCompanyless(p) == p.donor # NoPerson

\* isValidPreparedPayload
ValidPayload(p) == p.donor # NoPerson \/ p.company

\* POST /gift-staging/:id/process.  Storing the donor it found in the row may
\* fail, which does not keep the gift from being created.
Process(m, p, kept, created) ==
    LET asked == Unresolved(payload)
        missing == asked # "none" /\ m = NoMatch
        donor == IF missing THEN p ELSE m.person
        resolved == IF asked = "none" THEN payload
                    ELSE [payload EXCEPT !.donor = donor]
    IN
    /\ staged
    /\ phase \in {"ready", "failed"}
    /\ m \in Lookup(asked)
    /\ IF missing /\ p # NoPerson
       THEN /\ crm[p] = "absent"
            /\ crm' = [crm EXCEPT ![p] = Created(asked)]
       ELSE p = NoPerson /\ UNCHANGED crm
    /\ payload' = IF kept THEN resolved ELSE payload
    /\ IF missing /\ p = NoPerson THEN Fails("person")
       ELSE IF ~ValidPayload(resolved) THEN Fails("invalid")
       ELSE IF ~created THEN Fails("gift")
       ELSE /\ phase' = "given"
            /\ gift' = Receipted(resolved)
            /\ unseen' = FALSE
            /\ UNCHANGED failure
    /\ UNCHANGED <<enabled, before, staged, diagnostics, chosen, cleared, edits>>

Submit ==
    /\ phase = "new"
    /\ \E m \in Lookup("email") :
        \/ \E b \in GiftBody, p \in Anyone, stored, created \in BOOLEAN :
               SubmitGift(b, stored, created, m, p)
        \/ \E b \in Body : SubmitStaging(b, m)

Next ==
    \/ Submit
    \/ \E c \in Changes : Save(c)
    \/ \E p \in People : Assign(p)
    \/ MarkReady
    \/ \E m \in Lookup("email"), p \in Anyone, kept, created \in BOOLEAN :
           Process(m, p, kept, created)

Spec == Init /\ [][Next]_vars
-----------------------------------------------------------------------------
(***************************************************************************)
(* Properties                                                              *)
(***************************************************************************)

\* Types of the variables; and a row always carries its receipt fields, which
\* only the way in computes.
TypeOK ==
    /\ enabled \in BOOLEAN
    /\ crm \in [People -> Standing]
    /\ before \in [People -> Standing]
    /\ staged \in BOOLEAN
    /\ staged => payload.policy # "none" /\ payload.key # NoKey
    /\ phase \in {"new", "refused", "held", "ready", "processing", "failed", "given"}
    /\ payload \in Payload
    /\ diagnostics \in Diagnostics
    /\ gift \in Payload \cup {NoGift}
    /\ unseen \in BOOLEAN
    /\ chosen \in Anyone
    /\ cleared \in BOOLEAN
    /\ failure \in {"none", "person", "invalid", "gift"}
    /\ edits \in 0..MaxEdits

\* What goes through staging without a reviewer is complete: it has its date,
\* its organisation or its donor, and its agreement if it is an instalment.
UnseenGiftsAreComplete ==
    unseen =>
        /\ gift.dated
        /\ gift.intent = "org" => gift.company
        /\ gift.donor # NoPerson \/ gift.company
        /\ gift.intent = "recurring" => gift.agreement

\* Unless staff entered it or chose its donor, what goes through staging without a
\* reviewer never lands on somebody who merely has the donor's name; what comes
\* from an import lands on the owner of the address, whom Twenty knew before.
NamesakesAreReviewed ==
    unseen =>
        /\ gift.source # "manual_ui" /\ chosen = NoPerson /\ gift.donor # NoPerson
               => before[gift.donor] # "namesake"
        /\ gift.source = "csv_import"
               => gift.donor # NoPerson /\ before[gift.donor] = "owner"

\* Everything that may come of one row, whatever a reviewer makes of its donor
\* and amount, and however often it is processed, has the receipt key and the
\* policy the request got when it came: the key is what keeps a receipt from
\* being sent twice.  And an amount over the limit gets no receipt of its own,
\* also when a reviewer entered it after the receipt had been scheduled.
ReceiptIsRight ==
    [][staged =>
           /\ payload'.key = payload.key /\ payload'.policy = payload.policy
           /\ gift' # gift =>
                  /\ gift'.key = payload.key
                  /\ gift'.policy = payload.policy
                  /\ gift'.large => gift'.receipt = "suppressed"]_vars

\* Whoever was chosen by id, in the request or later by a reviewer, gets the gift:
\* no lookup comes between.
ChosenDonorGetsTheGift ==
    [][gift' # gift /\ chosen' # NoPerson => gift'.donor = chosen']_vars

\* The service's own "eligible" is worth something: a row that was staged as
\* eligible is not turned down as invalid when it is processed, unless a
\* reviewer emptied the donor's name meanwhile (the diagnostics are not
\* computed again).
EligibleRowsAreValid ==
    diagnostics.eligible /\ failure = "invalid" => cleared
-----------------------------------------------------------------------------
(***************************************************************************)
(* Why these hold                                                          *)
(***************************************************************************)

\* Nothing has come of a request that has not come yet.
NewIsEmpty ==
    phase = "new" => ~staged /\ failure = "none" /\ ~unseen /\ gift = NoGift

\* Processing finds the chosen donor in the row, so that it asks for no other.
ChosenIsStaged == staged /\ chosen # NoPerson => payload.donor = chosen

\* A row staged as eligible still says whom its gift goes to.
EligibleIsKept ==
    staged /\ diagnostics.eligible /\ ~cleared =>
        ValidPayload(payload) \/ payload.names # "none"

IntakeInv ==
    /\ TypeOK
    /\ NewIsEmpty
    /\ ChosenIsStaged
    /\ EligibleIsKept
    /\ UnseenGiftsAreComplete
    /\ NamesakesAreReviewed
    /\ EligibleRowsAreValid
=============================================================================
