--------------------------- MODULE StripeWebhook ---------------------------
(***************************************************************************)
(* Stripe's checkout.session.completed events and StripeWebhookService,    *)
(* which turns each into a gift or a staged row by GiftService.createGift. *)
(* Stripe delivers an event again until it is acknowledged; the service    *)
(* does not remember what it was sent.                                     *)
(*                                                                         *)
(* Only events with a valid signature and this type are modelled: the      *)
(* others change nothing.  What becomes of a row afterwards is the matter  *)
(* of GiftStaging; the auto-process decision, free there, is taken here.   *)
(***************************************************************************)
EXTENDS Naturals, FiniteSets

CONSTANTS
    Sessions,       \* checkout sessions
    Named,          \* sessions with a first and a last name
    Emailed,        \* sessions with a name and an email
    Subscribed,     \* sessions that pay for a subscription
    Agreements,     \* recurring agreements
    Agreement,      \* metadata.recurringAgreementId of each session
    NoAgreement, NoSession,
    Handlers,       \* slots for deliveries in progress at the same time
    StagingModes,   \* values of FUNDRAISING_ENABLE_GIFT_STAGING
    Faults,         \* for each call, the ways in which it may end badly
    Timeouts,       \* whether Stripe may give up on a delivery in progress
    Restarts        \* whether the service process may crash

Calls == {"agreement", "lookup", "person", "stage", "gift"}

ASSUME SessionsAssumption ==
    /\ Emailed \subseteq Named
    /\ Named \subseteq Sessions
    /\ Subscribed \subseteq Sessions
    /\ Agreement \in [Sessions -> Agreements \cup {NoAgreement}]
    /\ NoAgreement \notin Agreements
    /\ NoSession \notin Sessions

ASSUME FlagsAssumption ==
    StagingModes \subseteq BOOLEAN /\ {Timeouts, Restarts} \subseteq BOOLEAN

\* "failed": not done.  "dropped": done, the handler gets an exception.
\* "repeated": done more than once by TwentyApiService.
ASSUME FaultsAssumption ==
    Faults \in [Calls -> SUBSET {"failed", "dropped", "repeated"}]

VARIABLES
    enabled,   \* whether gift staging is on: read when the process starts
    handler,   \* what each slot is doing
    acked,     \* sessions that Stripe has been told are done
    held,      \* rows that wait for a reviewer, by session
    gifts,     \* gifts, by session
    agreement  \* the session each agreement was last updated from

vars == <<enabled, handler, acked, held, gifts, agreement>>

Identities == {"none", "explicit", "weak", "strong"}

HandlerState == [pc       : {"idle", "acknowledge", "refuse"} \cup Calls,
                 session  : Sessions \cup {NoSession},
                 identity : Identities]

\* Bound: beyond two, counts stay at two ("several").
Several == 2

Counts == [Sessions -> 0 .. Several]

TypeOK ==
    /\ enabled \in StagingModes
    /\ handler \in [Handlers -> HandlerState]
    /\ acked \subseteq Sessions
    /\ held \in Counts
    /\ gifts \in Counts
    /\ agreement \in [Agreements -> Sessions \cup {NoSession}]

Idle == [pc |-> "idle", session |-> NoSession, identity |-> "none"]

Init ==
    /\ enabled \in StagingModes
    /\ handler = [h \in Handlers |-> Idle]
    /\ acked = {}
    /\ held = [s \in Sessions |-> 0]
    /\ gifts = [s \in Sessions |-> 0]
    /\ agreement = [a \in Agreements |-> NoSession]

-----------------------------------------------------------------------------
At(h, call) == handler[h].pc = call

Set(h, hs) == handler' = [handler EXCEPT ![h] = hs]

Go(h, next) == Set(h, [handler[h] EXCEPT !.pc = next])

Ends(call, o) == o \in {"ok"} \cup Faults[call]

\* What a POST leaves of n objects.
More(n, o) == CASE o = "failed" -> n
                [] o = "repeated" -> Several
                [] OTHER -> IF n < Several THEN n + 1 ELSE n

\* Definitions whose name starts with Bug are the definition they stand before
\* with a plausible mistake in it; nothing uses them.

BugThrown == "acknowledge"

\* What createGift throws is thrown on, and Stripe gets an error status.
Thrown == "refuse"

\* validateCreateGiftPayload refuses a payload without a contact, also when
\* the webhook has set autoProcess to false for want of one; then
\* prepareGiftPayload resolves the contact.
Forward(s) ==
    CASE s \notin Named -> Thrown
      [] s \in Emailed -> "lookup"
      [] OTHER -> "person"

\* buildProcessingDiagnostics: names, an agreement when the payload is one of
\* a recurring gift, and a date, which the webhook always sets.
Eligible(s) ==
    /\ s \in Named
    /\ s \in Subscribed => Agreement[s] # NoAgreement

\* applyAutoProcessDecision for intakeSource stripe_webhook, of medium trust.
AutoProcess(s, identity) ==
    Eligible(s) /\ identity \in {"strong", "explicit"}

\* The agreement named in the metadata is updated before anything else.
Start(s) == IF Agreement[s] # NoAgreement THEN "agreement" ELSE Forward(s)

Deliver(h, s) ==
    /\ At(h, "idle")
    /\ s \notin acked
    /\ Timeouts \/ \A k \in Handlers : handler[k].session # s
    /\ Set(h, [Idle EXCEPT !.pc = Start(s), !.session = s])
    /\ UNCHANGED <<enabled, acked, held, gifts, agreement>>

\* A failure is logged and otherwise ignored.
UpdateAgreement(h, o) ==
    /\ At(h, "agreement")
    /\ Ends("agreement", o)
    /\ Go(h, Forward(handler[h].session))
    /\ agreement' =
           [agreement EXCEPT ![Agreement[handler[h].session]] =
                IF o = "failed" THEN @ ELSE handler[h].session]
    /\ UNCHANGED <<enabled, acked, held, gifts>>

\* findExistingPersonMatch: found by email, by name only, or (also when the
\* lookup fails) not at all.
Lookup(h, identity) ==
    /\ At(h, "lookup")
    /\ Set(h, [handler[h] EXCEPT
                  !.pc = IF identity = "none" THEN "person" ELSE "stage",
                  !.identity = identity])
    /\ UNCHANGED <<enabled, acked, held, gifts, agreement>>

CreatePerson(h, o) ==
    /\ At(h, "person")
    /\ Ends("person", o)
    /\ IF o \in {"failed", "dropped"} THEN Go(h, Thrown)
       ELSE Set(h, [handler[h] EXCEPT !.pc = "stage", !.identity = "explicit"])
    /\ UNCHANGED <<enabled, acked, held, gifts, agreement>>

BugStaged(o, now) == IF ~now THEN "acknowledge" ELSE "gift"

BugStagedOn(o, now) == "gift"

\* createGift after stageGift: only a row known to be held ends it here.
Staged(o, now) ==
    IF o \in {"ok", "repeated"} /\ ~now THEN "acknowledge" ELSE "gift"

\* stageGift swallows its failure.  A row that is not held is in status
\* processing, on its way to a gift.  (The dedupe status, updated next, decides
\* nothing.)
Stage(h, o) ==
    /\ At(h, "stage")
    /\ enabled
    /\ Ends("stage", o)
    /\ LET s == handler[h].session
           now == AutoProcess(s, handler[h].identity)
       IN /\ Go(h, Staged(o, now))
          /\ held' = IF now THEN held
                     ELSE [held EXCEPT ![s] = More(@, o)]
    /\ UNCHANGED <<enabled, acked, gifts, agreement>>

\* With staging off there is no decision and no row.
SkipStaging(h) ==
    /\ At(h, "stage")
    /\ ~enabled
    /\ Go(h, "gift")
    /\ UNCHANGED <<enabled, acked, held, gifts, agreement>>

\* The row is marked afterwards; that this fails changes nothing here.
CreateGift(h, o) ==
    /\ At(h, "gift")
    /\ Ends("gift", o)
    /\ Go(h, IF o \in {"ok", "repeated"} THEN "acknowledge" ELSE Thrown)
    /\ gifts' = [gifts EXCEPT ![handler[h].session] = More(@, o)]
    /\ UNCHANGED <<enabled, acked, held, agreement>>

\* Stripe gets the status, or has stopped waiting for it.
Acknowledge(h, heard) ==
    /\ At(h, "acknowledge")
    /\ heard \/ Timeouts
    /\ Set(h, Idle)
    /\ acked' = IF heard THEN acked \cup {handler[h].session} ELSE acked
    /\ UNCHANGED <<enabled, held, gifts, agreement>>

Refuse(h) ==
    /\ At(h, "refuse")
    /\ Set(h, Idle)
    /\ UNCHANGED <<enabled, acked, held, gifts, agreement>>

Restart ==
    /\ Restarts
    /\ enabled' \in StagingModes
    /\ handler' = [h \in Handlers |-> Idle]
    /\ UNCHANGED <<acked, held, gifts, agreement>>

Outcomes == {"ok", "failed", "dropped", "repeated"}

Advance(h) ==
    \/ \E o \in Outcomes : \/ UpdateAgreement(h, o)
                           \/ CreatePerson(h, o)
                           \/ Stage(h, o)
                           \/ CreateGift(h, o)
    \/ \E identity \in {"none", "weak", "strong"} : Lookup(h, identity)
    \/ SkipStaging(h)
    \/ \E heard \in BOOLEAN : Acknowledge(h, heard)
    \/ Refuse(h)

Next ==
    \/ \E h \in Handlers : \/ \E s \in Sessions : Deliver(h, s)
                           \/ Advance(h)
    \/ Restart

Spec == Init /\ [][Next]_vars

\* Every handler goes on (TwentyRequest!CallEnds), Stripe keeps delivering what
\* was not acknowledged, and a POST that is made over and over for one session
\* succeeds at some time.
For(s, h, action) == handler[h].session = s /\ action

FairSpec ==
    /\ Spec
    /\ \A h \in Handlers : WF_vars(Advance(h))
    /\ \A s \in Sessions :
           /\ SF_vars(\E h \in Handlers : Deliver(h, s))
           /\ SF_vars(\E h \in Handlers : For(s, h, CreatePerson(h, "ok")))
           /\ SF_vars(\E h \in Handlers : For(s, h, CreateGift(h, "ok")))

-----------------------------------------------------------------------------
Ingested(s) == gifts[s] > 0 \/ held[s] > 0

\* Stripe is told that a session is done only when there is a gift or a row a
\* reviewer will see: nothing Stripe will not send again is lost, whatever
\* failed, timed out or crashed.
AcknowledgedIsIngested == \A s \in acked : Ingested(s)

\* Why: a handler that is about to acknowledge has created one or the other.
IInv ==
    /\ TypeOK
    /\ AcknowledgedIsIngested
    /\ \A h \in Handlers :
           /\ handler[h].pc # "idle" <=> handler[h].session # NoSession
           /\ At(h, "acknowledge") => Ingested(handler[h].session)
           /\ At(h, "agreement") => Agreement[handler[h].session] # NoAgreement

\* A payment becomes one gift or one row to review, never both and never two,
\* as long as a call that fails did nothing and Stripe waits for the answer.
GivenOrHeldOnce == \A s \in Sessions : gifts[s] + held[s] <= 1

\* A call that fails did nothing, Stripe waits, and the service does not crash.
Orderly == ~Timeouts /\ ~Restarts /\ Faults["stage"] \cup Faults["gift"] \subseteq {"failed"}

\* Why: a session is delivered once at a time, and not again after it has left
\* something in Twenty: the delivery that did so goes on to acknowledge it.
OnceInv ==
    /\ IInv
    /\ GivenOrHeldOnce
    /\ \A h, k \in Handlers :
           handler[h].session = handler[k].session => h = k \/ handler[h].session = NoSession
    /\ \A h \in Handlers : handler[h].session \notin acked
    /\ \A s \in Sessions : Ingested(s) =>
           s \in acked \/ \E h \in Handlers : At(h, "acknowledge") /\ handler[h].session = s

\* Redelivery gets every payment with a full name into Twenty, and, as long as the
\* update of the agreement does not fail, a date to the agreement it names.  Whose
\* date that is depends on the order of the deliveries.
PaymentsIngested ==
    \A s \in Named :
        <>(/\ Ingested(s)
           /\ Agreement[s] # NoAgreement => agreement[Agreement[s]] # NoSession)
=============================================================================
