# TLA+ models of the fundraising service

The service (`src/src`, NestJS) takes donations in, stages them for review when
it must, and turns them into gifts in Twenty, a CRM it talks to over REST. A
React client (`src/client`) is the reviewers' and data-entry staff's tool. The
service has no database: rows, gifts, people, agreements, households and payouts
are all objects of Twenty. What makes it hard is therefore everywhere the same:
a handler is a chain of awaited calls of Twenty, each of which may fail, or be
done without the handler learning of it, and between any two of which another
handler may change what the first has read.

## Inventory

Paths are relative to `src/src` unless they start with `client/`.

| Component | State | Operations | Interacts with | What is hard | What makes it correct |
|---|---|---|---|---|---|
| Gift staging (`gift-staging/`) | rows of `giftStagings`: status, giftId, autoProcess, rawPayload, donor columns | stage, edit, set status, process, mark processed | Twenty, intake, agreements, client | a lock that is a read and a later write; swallowed failed updates; two copies of the payload; crashes | a processed row has its gift; a gift was approved; replies are true; one gift per approval |
| Gift intake (`gift/`) | gifts and people in Twenty | create, update, delete, normalise, resolve donor, decide | staging, Twenty, receipt policy | staging may fail and the gift be created all the same; duplicate people | nothing bypasses the decision; one contact, one person |
| Twenty client (`twenty/`) | the attempt counter of a call | request with retries | all services | an attempt may be carried out though it failed, or later | what is returned was done; repeated only in doubt; a call ends |
| Stripe webhook (`stripe/`) | none; Stripe's view of what is done | one event type | intake, agreements | redelivery, timeouts, crashes; no memory of what was ingested | what is acknowledged is in Twenty; payments get in |
| Recurring agreements (`recurring-agreement/`) | agreements in Twenty | CRUD; status and date updates from staging and Stripe | staging, Stripe | moved before or after the gift, failures ignored | a date moves only with an instalment |
| Receipt policy (`receipt/`) | none | add receipt fields | intake | applied to new and to stored payloads | applying it again changes nothing |
| Households (`household/`, `client/.../HouseholdManager.tsx`) | household, its primary contact, its members | add, remove, copy address | Twenty | two PATCHes for one change | the primary contact is a member |
| Payouts (`gift-payout/`, `client/.../reconciliation`) | payout of each gift | link, unlink, reconcile | Twenty | one PATCH per gift, partial failure, competing links | a gift has the payout it was last given |
| Client session (`client/src/api-shared`) | token pair in a cookie, renewal in progress | fetch, renew, sign out | all client code | requests and tabs share the cookie | one renewal at a time; not signed out without cause |
| Client staging queue and drawer | what is on screen: filters, list, decisions under way, the row opened | narrow the list, mark, process, retry, review, edit | staging controller | answers out of order, actions on stale rows, chips kept apart from filters | what is saved is what was shown; a chip is true |
| Client manual entry | form, duplicate matches | look up, submit | intake | lookups out of order, resubmission, effects that run later | one submission at a time, of what is on the screen |
| GoCardless webhook | none | logs events | none | a skeleton | nothing to model |
| Appeals (`appeal/`, `client/.../AppealsView.tsx`) | appeals and solicitation snapshots in Twenty; the page's list and three forms | create, edit, log a count | Twenty | forms that stay open while their appeal changes, or while they are saved | an edit of one appeal is not saved to another |
| People, companies, opportunities | none | forward one call each | Twenty | nothing beyond the call | that of the call |
| Schema script (`../scripts/setup-schema.mjs`) | none but its listing of Twenty's metadata | provision objects, fields, relations | Twenty's metadata API | lost answers, rival runs, reruns after a failure | "complete" is true; running it again is harmless |
| Auth, request context, logging, health, smoke script, fixtures | none across requests | | | | |

## Modules

| Module | Models |
|---|---|
| `GiftStaging` | rows, gifts, people, and the requests to the two controllers that change them, as the client and the importer send them |
| `GiftLedger` | what staging promises, without handlers or failures; refined by `GiftStaging` |
| `GiftStagingProofs` | theorems about `GiftStaging` that need no more than its first invariant |
| `GiftLedgerProofs` | its other safety properties, and the refinement of `GiftLedger` |
| `TwentyRequest` | `TwentyApiService.request` |
| `TwentyCall` | what a caller may assume of it; refined by `TwentyRequest` |
| `TwentyRequestProofs` | theorems about `TwentyRequest` |
| `StripeWebhook` | delivery, redelivery and ingestion of Stripe's events |
| `StripeWebhookProofs` | theorems about `StripeWebhook` |
| `GiftIntake` | what intake and processing make of a donation: validation, donor, diagnostics, decision, receipt |
| `GiftIntakeProofs` | theorems about `GiftIntake` |
| `Session` | token pair, renewal and repetition in the client, over several tabs |
| `SessionProofs` | theorems about `Session` |
| `StagingDrawer` | the client's drawer for one staged gift |
| `Reconciliation` | the page of payouts: table, drawer, linking gift by gift, and the payout service |
| `Household` | the page of households: who belongs where, and the household service |
| `StagingQueue` | the list of staged gifts, its filters and its own buttons |
| `Appeals` | the page of appeals with its three forms, and the appeal service |
| `ManualEntry` | the client's form for a gift entered by hand |
| `ClientPages` | one of the six above at a time, as `App.tsx` shows them |
| `ClientPagesProofs` | theorems about the six views, view by view, and about the page |
| `SchemaSetup` | runs of `setup-schema.mjs` over a workspace |
| `FundraisingSchema` | what the script provisions, in its order |
| `SchemaSetupProofs` | theorems about `SchemaSetup`, for every plan |
| `MC...` | the instance of each for TLC |

The modules do not share variables: what a module needs of another it takes in the
form the other proves or checks. `GiftStaging` and `StripeWebhook` call Twenty with
the outcomes `TwentyCall` allows; `GiftIntake` looks into the decision that
`GiftStaging` leaves free, and `StripeWebhook` takes for its own payloads; the client
modules see the service through requests that are carried out or not, and answered
or not, the answers `EveryRequestAnswered` and `CallEnds` promise.

Definitions named `Bug...` stand before the definition they break. Nothing uses
them; putting one in the place of its neighbour must break a property.

### GiftStaging

*State.* `status`, `linked`, `auto`, `raw` and `col` are the columns of the rows
(`processingStatus`, `giftId`, `autoProcess`, `rawPayload`, and the donor columns
reviewers see); `people`, `gifts` and `advanced` the other objects. `handler[h]`
holds what a request keeps in local variables between two awaits: where it is
(`pc` names the call it is about to make), its row, the payload it works on, the
payload it read back (`seen`), the status it is going to write, the gift it
created, its reply. `approvals` and `served` are history.

*Actions.* `Accept...` is the arrival of a request, with the local code up to its
first await; each other action of a handler is one call of Twenty with the local
code up to the next await:

| Action | Code |
|---|---|
| `Fetch`, `Fetched` | `processGift` reading the row and deciding: already processed, locked, no payload, not ready, or go on |
| `Lookup`, `CreatePerson`, `Resolved` | `findExistingPersonMatch`, `createPerson`, from intake and from `resolveDonorFromStagingPayload` |
| `ReadForEdit`, `PatchPayload` | `updateGiftStagingPayload`, by reviewers and by `processGift` |
| `ReadForStatus`, `PatchStatus`, `Written` | `updateStatusById`: lock, failure, mark ready, dedupe status |
| `Stage` | `stageGift`; `Staged` and `NotStaged` are how `createGift` goes on |
| `CreateGift` | POST /gifts from `processGift` or `createGift` |
| `MarkProcessed`, `AdvanceAgreement` | the two updates after it |
| `Restart` | the process dies |

A call ends in one of four ways: `ok`; `failed`, not done; `dropped`, done but
reported as an exception; `retry`, done, its answer lost, and sent again by
`TwentyApiService`. These are the ways `TwentyRequest` and `TwentyCall` allow,
with one exception: an attempt the caller gave up on is here never carried out
after the handler has gone on.

*Abstraction.* A payload is its donor and how much of a contact it holds; all
contacts are the same one, the worst case for duplicates; the auto-process
decision is free (both outcomes, always; `GiftIntake` computes it); amounts are
valid. Requests are those the repository's client and importer send: PATCH `:id/status`
with `ready_for_process`, PATCH `:id` with fields of the payload. The controller checks
neither, and takes any `processingStatus` with both, and a `rawPayload` with the first.
What is shown is therefore about these clients: a request that sets a row without a
gift to `processed` makes `ProcessedRowHasItsGift` false.

*Runs.*

| Run | Environment | Shows |
|---|---|---|
| `concurrent` | 2 handlers, 1 row, 4 requests, every call fails in every way, crashes | the inductive invariant `FullInv`, type correctness in it, `ProcessedRowHasItsGift`, `NoGiftWithoutApproval`, `GiftHasDonor`, `ProcessedReplyIsTrue`, `AgreementFollowsGift`, and that the ledger is implemented |
| `sequential` | 1 handler, 2 rows, 5 requests of all kinds, failures except of the lock write and lookups, unambiguous POSTs, crashes | `OneGiftPerApproval`, `DonorShownIsDonorUsed`, `OneContactOnePerson` |
| `answers` | 2 handlers, weak fairness, updates fail or are repeated | every request is answered |
| `lock_race` (violation) | no failures at all | the processing lock is not exclusive |

The three properties of `sequential` are what the code achieves only without
overlapping requests; they are false in the environment of `concurrent`, and the
run's `Faults` say which failures they survive. They say nothing of an edit that a
status written meanwhile undoes in `rawPayload`, nor of the second person that two
overlapping lookups, or one that failed, lead to.

*Bounds.* Two handlers are the smallest number with an interleaving, and rows do
not interact except through people, so one row has every race about a row and
two have those about the shared contact. Three gifts make room for one more
than any property allows. Two attempts give each call one ambiguous repetition.
`MaxRequests` lets a row be staged, marked, processed and processed again.

*Fairness.* `FairSpec` is weak fairness of each handler's next step: Node's event
loop runs a resumed handler, and a call ends (`TwentyRequest!CallEnds`). It does
not assume that a call succeeds, or that a request arrives.

### TwentyRequest and TwentyCall

`fate[a]` is what became of attempt `a` at Twenty, and `answer[a]` how it ended
for the caller: the two are different things, and the point of the module is
what the second says about the first. `Settle`, Twenty and the network, may act
at any time, also after the caller gave up. A success means the request was
carried out, a final 4xx that it was not, 429 and 5xx nothing. The code's paths
are `Send`, `NetworkError`, `Respond`, `LoseBody` (the body is read outside the
`try`, so its loss ends the call even when a retry would have been allowed),
`ReadBody` and `Pause`.

Run `retries`: the code's three attempts. `ReturnedMeansApplied`,
`ResentOnlyInDoubt`, `CallEnds` under weak fairness of the loop (fetch ends,
timers fire; time is not modelled, and how long `Retry-After` makes it wait is bounded
neither here nor by the code),
and `ImplementsCall`: the loop refines `TwentyCall`, in which a call is applied by
any subset of its attempts, at any time, and returns only after one.

### StripeWebhook

Stripe delivers a session until it is told the session is done. A delivery goes
through the calls `agreement`, `lookup`, `person`, `stage`, `gift`; the auto-process
decision of `createGift` is computed here (`Eligible`, `AutoProcess`), where
`GiftStaging` leaves it open. `held` and `gifts` count the rows to review and the
gifts of each session, `agreement` is the session an agreement was last updated
from. Counts stay at two ("several"), so redelivery is unbounded. Sessions are of
four kinds: with an email and an agreement, with a name only, without a name,
and a subscription payment without an agreement.

| Run | Environment | Shows |
|---|---|---|
| `stripe_faulty` | 2 deliveries at a time, staging on or off, all failures, timeouts at Stripe, crashes | `AcknowledgedIsIngested`, the inductive invariant |
| `stripe_clean` | 2 deliveries at a time, POSTs fail cleanly, Stripe waits; fairness | `GivenOrHeldOnce`, `PaymentsIngested` |

*Fairness.* Handlers go on; Stripe keeps delivering (its promise, over days); a
POST made over and over for one session succeeds at some time (strong fairness of
the successful outcome). Without the last nothing could be ingested.

A session without a full name is refused for want of a contact each time it is
delivered, so `PaymentsIngested` is about named sessions. It also says that a
date gets to the agreement such a session names; that is for runs in which the update
does not fail (`CleanFaults`): a failed update is logged, and the gift is made without it.
Crashes are off there, and of the agreement it says only that it gets the date of some
event: delivered out of order, several events of one leave the older date.

That redelivery after a dropped answer, a timeout or a crash makes a second gift
of one payment is what the code does, and nothing in the repository says
otherwise: `externalId` and `sourceFingerprint` are stored and never compared.
`GivenOrHeldOnce` is checked where it holds.

### GiftIntake

*State.* One donation: the people Twenty has (`crm`: the owner of the donor's
address, a namesake, or nobody of the two), the normalised `payload`, its
`diagnostics`, whether it is `staged`, the `gift` made of it, and as history who was
in Twenty `before`, who was `chosen` by id, whether the row was created `unseen` by a
reviewer, and why processing failed.

*Actions.* `SubmitGift` (POST /gifts: `validateCreateGiftPayload`,
`prepareGiftPayload`, `applyAutoProcessDecision`, staging, creation), `SubmitStaging`
(POST /gift-staging), `Save` and `Assign` (the two PATCHes of the drawer),
`MarkReady`, and `Process` (`processGift`). A handler is one step: `GiftStaging` has its
calls, here every call still fails or succeeds (`stored`, `created`, `kept`, a lookup
that finds nobody), and what matters is what the handler computes. `Accepted`,
`Matches`, `Confidence`, `Diagnosed`, `AutoProcess`, `Receipted` and `ValidPayload` are
the code's pure functions. `Submit` takes every body the validators tell apart, those
with a `contactId`, a `donorId` and a contact at once included: a `donorId`, which only
a body to stage may have, wins over the others, and outlives the intent of an
organisation, which drops `contactId` and contact.

*Abstraction.* All contacts have one name and one address; an amount is over the
receipt limit or not.

| Run | Bounds | Shows |
|---|---|---|
| `intake` | 2 people, one edit by a reviewer, any number of decisions and attempts | what goes unreviewed is complete and goes to nobody who merely has the name; a chosen donor gets the gift; receipt key and policy never change, and a large gift gets no receipt; a row called eligible is not turned down as invalid |

Two people are an owner and a namesake, or two of either. One edit is enough to
change any field of the drawer before or after a first attempt; a second reaches no
payload the first cannot, but for two fields changed by two forms.

### Session

*State.* The cookie (`pair`, and the tab that wrote it last), the page each tab
shows, its `refreshPromise` (`renewal`), the requests in progress, and which access
and refresh tokens Twenty accepts. Pairs are numbered in order of issue.

*Actions.* `Load` is `AuthGate`; `Send`, `Unauthorized`, `Answer` are `fetchJson` and the
service, `Write` a call of the operation done at Twenty; `Renewed`, `NotRenewed` and
`RenewalFails` the ways `refreshAccessToken` goes on; `Leave`, `Reload`, `SignIn` the
navigation; `Issue`, `Grant`, `Refuse`, `Expire` are Twenty.

Run `session`: two tabs, one with two requests in progress, three pairs, operations of
two writes, refresh tokens that are accepted once. `DoneTwiceOnlyIfCut`, `SessionIsKept`, the
inductive invariant `SessionInv`, and under weak fairness of the answers
`WaitingEnds`. Two requests share a renewal and two tabs a cookie; a third of either
adds none but equal positions. Three pairs allow a renewal to follow a renewal.

### ManualEntry

*State.* `form` is the React state as last rendered, `due` the effects whose
dependencies changed with it, `timer` the delayed lookup, `lookups`, `searches`, `asking`
the queries in progress, `calls` the submissions.

*Actions.* Handlers and continuations read the values of the rendering that created
them, and effects run with the values of the rendering that caused them, at the
latest before the next: `Render` is that rule, and every action that sets state goes
through it. The person's actions are the handlers of the form and of the panel
(`EditContact` to `CreateWithNewContact`, `Reopen`), the network's the answers
(`LookupAnswers` to `CreateAnswers`), in any order.

Its properties are checked as those of a view of `ClientPages`. Run `entry_donor`
(violation) is of the form alone: nobody is known by the contact typed, and a donor
shown as selected does not get the gift.

### StagingDrawer

*State.* `open` is the row chosen in the queue, `detail` the row whose detail came last
with its columns, `form` the edit form, `loading`, `failed` and `busy` the flags, `call` the
calls in progress; `stored` are the columns in Twenty. The component stays mounted:
all of it outlives the row. The content of a field is the row it was written for, so
that mixing rows up shows.

*Actions.* `Open`, `Close`, `Retry`, `Typing`, `Reset`, `Save`, `MarkReady`, `Process` and
`AssignDonor` are the reviewer's; an open drawer covers the queue, so `Open` needs it
closed. `Serve` is the request at the service (one step: `GiftStaging` looks inside),
`Succeeded`, `Failed`, `Read` and `Loaded` how the handler goes on. The effect that fills the
form runs with the arrival of the detail, as nobody clicks in between.

### Reconciliation

*State.* `record` are the payouts in Twenty (status, note, whether a confirmation date
is set) and `payoutOf` the payout of each gift. `table` is the list last loaded,
`selected` the row clicked as it was then, `form` and `typed` the drawer's fields and
which of them a person changed, `busy` its flags, `feedback` the green message with
the gifts it counts, `call` the requests in progress.

*Actions.* `Open` to `SubmitPayout` are the buttons of the page and of the two drawers,
`PatchPayout`, `CreatePayout`, `PatchGift` the calls of the service, `Failed` to
`Refreshed` the continuations: after gifts were linked the two lists are loaded one
after the other and then the table; after a payout is saved only the table, and
then the drawer closes, on whatever payout it is open by then. `ColleagueSaves` is the
same page in another browser.

*Abstraction.* Two fields stand for all. What the two lists contain is left out, only
their loading flags are kept.

### Household

*State.* `existing`, `homeOf`, `primaryOf` are the objects in Twenty; `current` and `shown` are
the household selected and the one displayed, two different things while an answer
is awaited; `queued` and `primary` the form for a new household with its members;
`last` is history: of the household created last, whom it still lacks.

*Actions.* The buttons of `HouseholdManager`; `PatchPerson` and `PatchPrimary`, the two
PATCHes of `addMember`; the continuations. `Created` tells success, empties the form and
then adds the members one by one (`MemberAdded`), until one fails (`CreateFailed`).

*Abstraction.* Names, addresses and salutations, hence `updateHousehold` but for its
flag and the record it puts on the screen.

### StagingQueue

*State.* `filters` is what the list is asked for; `chips`, `batch` and `box` are what the
page says of it, kept in states of their own. `items`, `listing`, `refreshing`, `broken`
are those of `useGiftStagingList`; `working` the decision each gift waits for;
`pending` the delay after typing; `call` the loadings and decisions in progress, each
with the filters of the rendering it was started in.

*Actions.* `ToggleChip` to `TypeSearch` change the filter, and the effect that loads the
list then belongs to the step (`Ask`), as it runs before the next click; nothing
cancels the loading before. `TimerFires` is the search box's 350 ms. `MarkReady`,
`Process`, `Retry` are the buttons of a row; `Replied` and `Lists` the two calls of a decision,
after which a retry goes on with the next (`Ends`). `Refresh` is also the drawer's.

*Abstraction.* One term and one source stand for all. Which gifts match a status,
amount, source or term is the server's to say; only the batch is looked at. A row's
status in the list is whatever enables its button.

### Appeals

*State.* `held` are the appeals in Twenty, the content of each named by the appeal it
was written for, so that mixing them up shows; `appeals`, `chosen`, `reading`, `unread`
the table; `creating`, `editing`, `counting` the three forms, which can all be at work;
`sends` whose snapshots were loaded last.

*Actions.* The buttons and forms of `AppealsView`; `Refused` and `Saved` are a save that
was turned down, lost, or answered, with the service (`Carried`); `AppealsRead` and
`SnapshotsRead` the loading after it, with the effects that fill the edit form (`Filled`)
and load the snapshots of an appeal that became the selected one.

### ClientPages

A view's state is its components' and ends with them, so a stay at a view starts
from `Init` of its module; `view` is chosen at first and stays. The six modules are
instances over the variables a view has in common (`form`, `busy`, `call`,
`clicks`), and every property says for which views it speaks. The open drawer covers
the queue, so the two are views of their own: what the drawer does to the queue is
`StagingQueue!Refresh`.

Run `pages`, two requests in progress:

| View | Bounds | Why |
|---|---|---|
| queue | 2 gifts, one of them in a batch, 3 clicks, typing in the box included | narrow the list, change it again and decide on a gift, or two decisions and a filter |
| drawer | 2 rows, 4 clicks, typing is free | open a row, start an action, close, open the other while the action runs |
| manual entry | 2 contacts, one of them too short to be looked up, 1 donor who comes and goes, one lookup and one search at a time, 2 submissions | change the contact, or the donor, between any question and its answer |
| reconciliation | 2 payouts, one yet to be created, 2 gifts, 3 clicks | two gifts are the smallest loop that can break off; the third click is for a colleague between opening and saving |
| households | 3 households, two yet to be created, 2 people, 4 clicks | two people queued and two creations in a row |
| appeals | 3 appeals, one yet to be created, 4 clicks, typing is free | open a form, save it, cancel, open and save it again while the first save runs |

| Property | Says |
|---|---|
| `ContentStaysPut` | what the drawer holds of a gift, and the edit form of an appeal, is not saved to another, and the primary contact of a household to be created is among the people queued for it |
| `SubmittedOnce` | a form is submitted once at a time, and says so |
| `HintsAreCurrent` | chips, the panel of donors and the warning are of what is asked or typed now |
| `SavedIsTyped` | saving a payout leaves a colleague's other field alone |
| `MessageIsTrue` | a success is told only of the whole |
| `PagesInv` | the inductive invariant of each view, its types included, and that the views not shown are gone |
| `PagesSettle` | however answers and errors overtake each other, no flag stays set, and the queue is asked for what its search box says |

*Fairness.* `fetch` ends with an answer or an error, of which less is assumed: while
requests are in progress, one of them ends. The browser runs the effects that
are due and the timer of the search box. Nobody needs to click.

### SchemaSetup

*State.* `store` are the names there are in Twenty (an object is `<<o>>`, a field
`<<o, f>>`); `run[r]` is a run of the script: where in the plan it is (`at`), whether
`objectCache` is set (`listed`) and what it shows (`seen`), the answer and the attempt of
its request, and as history what was there `before` it. `late` are requests nobody waits
for that Twenty may still carry out.

*Actions.* `FetchAllObjects`, `Proceed` (go on to the first step whose name the listing
lacks), `Answer` and `CarryOut` (Twenty), `Receive` (the rules of `ensureObject`, `createField`
and `ensureRelationField` for a name that is taken), `Fault` (`fetchWithRetry`), `Stop`,
`Start`. The plan is a constant: `FundraisingSchema` has the script's, with one field for
each list of fields that are created alike.

*Run* `schema`: two operators, two failures, two attempts, and six steps of the script's
plan: two objects, a field of one, a core object with a field, and two relations, one of
whose inverse names Twenty reserves; a workspace with and one without the core object.
Each rule and each order of an object, its fields and its relations is among them.
`MainAssumption` of the instance has TLC check that the script's whole plan
is one the theorems are about. Shown: `CompleteLeavesNothingOut`,
`AsksOnlyForTheMissing`, the inductive invariant, and `SetupCompletes`.

*Fairness.* The script goes on, and its operator starts it, again after a failure: nothing
does so by itself, and the script is written for it, passing over what it finds. Calls
fail finitely often (`MaxFaults`).

## What the runs found

Two runs end in a counterexample, each against a statement of the repository:

- `lock_race`: two requests that both read a row before either writes `processing`
  create two gifts from it, while `gift-staging-processing.service.spec.ts:153` says
  processing is deferred.
- `entry_donor`: the form says that a new donor is created when none is selected, and
  shows the selected one; `handleSubmit` ignores the selection, and the run shows that.
  Beside it, and not on the run's way: the panel whose buttons do use the donor is
  closed by the effect at `useManualGiftEntryController.ts:204`, which also runs when
  the panel opens.

Behaviour nobody promised otherwise, met while modelling, and part of the models
unless the entry says so:

- A gift the decision held back is created all the same when staging it fails
  (`NotStaged`); a row whose gift could not be created by `createGift` stays `processing`
  and is turned away as locked.
- Diagnostics are never computed again; a suppressed receipt stays suppressed when
  the amount is lowered; the receipt key has neither date nor request in it, so equal
  gifts of one donor share it, and its fallback is never reached.
- A company's gift staged with loose names of a person gets that person created when
  it is processed.
- A Stripe donor with a name and no email counts as explicitly chosen, and keeps
  `autoProcess` (comment at `stripe-webhook.service.ts:135`).
- Of two tabs renewing, the one refused clears the pair the other just stored. An
  outage at renewal signs out as well: with `Outages = TRUE`, `SessionIsKept` fails.
- An operation cut off by a 401 is repeated from its first call.
- A gift that was only staged has no id in the answer, and the form shows an error.
- In the drawer a late detail is shown under the header of another row (the decision
  follows the content); emptied fields keep their column while the drawer says
  "updated", as empty values are pruned.
- "Linked n gifts" may appear under another payout than theirs, and the two lists of
  one payout under another, when answers overtake each other.
- A save of a payout that ends late closes the drawer on the payout open by then.
- While a household is loaded the panel shows the one before, and its buttons act on
  the new one: the fields of the first can be saved to the second. `Household` has no
  fields, so that no property is about it.
- Taking the primary contact out of a household leaves `primaryContactId` as it is in
  Twenty; only the page forgets it.
- A household whose members could not all be added stays, with those before the
  failure, and the form that named them is already empty.
- When no gift of the list is in the active batch, an effect drops the batch and its
  chip, and the filter keeps it: the list stays narrowed with no chip to say so, and
  "Clear all" is shown only if something else is set. `ChipsTellTheFilter` therefore
  says of a batch only that its chip is true.
- The answer to an earlier filter may be the one that stays in the queue's list.
- The two buttons of a row look for their own decision only: process, mark ready and
  process again can be under way at once, from one browser. A retry goes on to process
  although marking failed.
- An edit of an appeal that is saved late closes the form, of whatever appeal it is by
  then, and a list read anew fills an open edit form again: what was typed is lost.
  Fields emptied in that form are left out of the PATCH and keep their value.
- A solicitation count typed for one appeal is logged for the one selected by then;
  `Appeals` does not keep whose count was typed, and no property is about it.
- The snapshots of an appeal selected before may arrive last; they are filtered out, and
  the list looks empty.
- An object created by a request whose answer was lost ends the schema script with
  an error, though the next run goes on; a field or relation in that position does not.

## What is proved

TLAPS proves these for every value of the constants, from the assumptions named in
the modules: ids are distinct from the "nothing" values, bounds are naturals, the
kinds of failure and input are those enumerated, and no record is one of those
values (`KeyAssumption`, `NoneAssumption`). A theorem that needs more of its
environment has that as a hypothesis, named below. Every inductive invariant is also
checked by TLC: `FullInv`, `SessionInv`, `PagesInv` and the `IInv` of the others as
invariants of the runs.

*GiftStaging.* `Invariance`: `Spec => []IInv`. None of the safety properties is
inductive: that `processGift` may create a gift depends on a row it read several
calls earlier. `IInv` says what each handler's local variables still justify when it
makes its next call, whatever the others have done in between, and works because
the facts a handler relies on are stable: a row that exists goes on existing, an
approval is never taken back, `autoProcess` of a row never changes, a gift stays
that of its row. The proof first shows that every step only grows those
(`Grows`), so handlers that do not move stay justified, and then looks at the
handler that moves, action by action. From it follow `TypeCorrect`,
`ProcessedRowsHaveGifts`, `GiftsAreApproved` and `ProcessedRepliesAreTrue`.

*Donors, agreements, the ledger.* `FullInv` adds two parts. `DonorInv`: every donor id in a
row or in a request in progress is one Twenty gave out, and none is missing once a
gift is certain to be created; hence `GiftsHaveDonors`.
`AgreementInv`: a handler about to move an agreement has its gift, which outlives the
handler; hence `AgreementsFollowGifts`. `LedgerIsKept` is the refinement of
`GiftLedger`: each action is mapped to a step of the ledger, or to none, in which a
credited gift is new and a link is to a gift of its own row.

*One request at a time.* `OneGiftForEachApproval`, `ShownDonorIsUsedDonor` and
`OneContactBecomesOnePerson` are about a set of handlers with one element, the way run
`sequential` checks them, and say in their hypotheses which calls must not fail how:
the lock write not at all and POST /gifts only cleanly for the first, the lookup not
at all and POST /people without repetition for the third, which is also about
contacts with an email only. The second allows every failure. Crashes are allowed in all.
The invariants say, for each place of the one handler, how many gifts may still come
of the approval, or which of the two copies of the donor it has written so far.

*GiftIntake.* `IntakeInvariance`, and from it what the run checks:
`UnseenGiftsAreAlwaysComplete`, `NamesakesAreAlwaysReviewed`, `EligibleRowsStayValid`,
`ReceiptsAreRight`, `ChosenDonorsGetTheGift`. The invariant ties the diagnostics, which
are never computed again, to a payload that is edited and processed after them.

*Views of the client.* `PagesInvariance`, with one invariant for each view, inductive by
itself, as the views share no state:

| View | Its invariant adds | Theorems |
|---|---|---|
| drawer | the form, the detail and each request carry content of one row, that of the detail or that which was open at the click | `ContentStays` |
| queue | nothing: chips and filters change together | `HintsStayCurrent` |
| manual entry | the panel is closed by an effect that is due; a query or a warning is about the form unless its effect is due | `FormsSubmitOnce`, `HintsStayCurrent` |
| reconciliation | what was seen of a payout as confirmed is so for good; a save sends only what was typed; the gifts to be named are patched or still to be | `SavesAreTyped`, `MessagesAreTrue` |
| households | after a success was told, the household is complete or a request that completes it is on its way | `ContentStays`, `MessagesAreTrue` |
| appeals | an open edit form holds the chosen appeal, a save the appeal it goes to | `ContentStays`, `FormsSubmitOnce` |

They hold for any number of rows, people, payouts, clicks and requests in progress.

*Session.* `SessionInvariance`; `RepeatsOnlyWhatWasCut` follows, since a request that was
not cut has written, when it is repeated, nothing but what the repetition wrote.
`PairIsGivenUpForAReason` is under the hypothesis `~Outages`; it rests on a renewal being
of the pair in the cookie unless another tab stored one, and on a token Twenty
refused being refused for good, new ones being of new pairs.

*TwentyRequest.* `RetryInvariance`; from it `RetryTypes`, `ReturnedValuesAreTrue`,
`RepeatsOnlyInDoubt`, and `RetryRefines`: the refinement of `TwentyCall`. The
invariant adds that the attempts before the current one ended in doubt and the
later ones were not sent.

*SchemaSetup.* `SetupInvariance`, and from it `CompleteIsComplete` and
`RerunIsHarmless`, for every plan without clashing names (which the script's is), any
number of operators and of failures. That a run which says "complete" left nothing
out is not inductive: a run passes steps it has not looked at since. The invariant
says that the steps passed are provided for, that what the listing shows is there,
and that relations are there with their inverse or not at all, so that a taken name
means the whole; nothing is ever removed, so a run that does not move stays justified.

*StripeWebhook.* `DeliveryInvariance` and `NothingAcknowledgedIsLost`. The invariant
adds that a handler about to acknowledge has made a gift or a row, which no
step takes away. `EachPaymentOnce` is under the hypothesis `Orderly`: no timeouts, no
crashes, and what fails of staging and of POST /gifts was not done. `OnceInv` adds to the invariant that a session
is delivered once at a time, and that what has left something is about to be
acknowledged, or was.

Only model-checked: liveness and everything that needs fairness, which is out of the
prover's reach (`EveryRequestAnswered`, `CallEnds`, `PaymentsIngested`, `WaitingEnds`,
`PagesSettle`, `SetupCompletes`). Every other property of a run that passes is also a theorem.

## Not modelled

See `components` in `PROJECT.json`. Reads that change nothing (lists, detail),
formatting, wording and logging are left out everywhere, and so are the formats the
validators accept. Updates and deletions of gifts by hand are not in `GiftStaging`: a
deleted gift leaves a row naming it. The options of the manual entry form
(opportunities, appeals, companies) and the candidates the drawer lists for an
assignment are planned. The page of recurring agreements only reads; GoCardless is a
skeleton that logs; the smoke script and the fixtures are tests of the service.

## Plan

Done: every module above, and theorems for every safety property the runs check.

Left, in this order:

1. `GiftStaging`: attempts carried out after their caller gave up (as `TwentyRequest`
   allows), gifts changed and deleted by hand; recurring agreements with their own CRUD.
2. Donor candidates in `StagingDrawer`; options in `ManualEntry`.
3. Theorems about what those add; the refinement of `GiftStaging`'s calls to `TwentyCall`.
