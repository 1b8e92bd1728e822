---------------------------- MODULE ClientPages -----------------------------
(***************************************************************************)
(* The client shows one view at a time (App), and the state of a view is   *)
(* that of its components: it is there while the view is.  This module is  *)
(* a stay at one of them: the staging queue, as a list (StagingQueue) and  *)
(* with its drawer open (StagingDrawer), manual gift entry (ManualEntry),  *)
(* reconciliation (Reconciliation), households (Household) and appeals     *)
(* (Appeals).                                                              *)
(***************************************************************************)
EXTENDS Naturals

CONSTANTS
    Slots,             \* requests of a page in progress
    Rows, Noted, NoRow, Blank, Garbled, DrawerClicks,
    QueuedGifts, Batches, BatchOf, QueueClicks,
    EntryContacts, ShortContacts, EntryDetails, BlankDetails, IncompleteDetails,
    Donors, Directory, LookupBound,
    Payouts, Recorded, Gifts, PayoutClicks,
    People, Households, Known, HouseholdClicks,
    Appealed, Launched, AppealClicks,
    None

ASSUME ConstantsAssumption ==
    /\ Noted \subseteq Rows /\ Recorded \subseteq Payouts /\ Known \subseteq Households
    /\ Launched \subseteq Appealed
    /\ NoRow \notin Rows /\ Blank \notin Rows /\ Garbled \notin Rows \cup {Blank}
    /\ None \notin Payouts \cup Gifts \cup People \cup Households \cup Appealed
    /\ BatchOf \in [QueuedGifts -> Batches \cup {None}]
    /\ None \notin QueuedGifts \cup Batches \cup EntryContacts \cup Donors
    /\ ShortContacts \subseteq EntryContacts
    /\ IncompleteDetails \subseteq EntryDetails /\ BlankDetails \in IncompleteDetails
    /\ Directory \in [EntryContacts -> SUBSET SUBSET Donors]
    /\ {DrawerClicks, QueueClicks, LookupBound, PayoutClicks, HouseholdClicks,
        AppealClicks} \subseteq Nat

VARIABLES
    view,
    form, busy, call, clicks,                              \* of the page, whichever it is
    stored, open, detail, loading, failed,                 \* StagingDrawer
    filters, chips, batch, box, pending,                   \* StagingQueue
    items, listing, refreshing, broken, working,
    due, timer, lookups, searches, asking, calls,          \* ManualEntry
    record, payoutOf, table, selected, typed, feedback, adding,   \* Reconciliation
    existing, homeOf, primaryOf, current, shown, members,  \* Household
    queued, primary, status, last,
    held, appeals, chosen, reading, unread,                \* Appeals
    creating, editing, counting, sends

Drawer == INSTANCE StagingDrawer WITH MaxClicks <- DrawerClicks
Queue == INSTANCE StagingQueue WITH Staged <- QueuedGifts, MaxClicks <- QueueClicks
Entry == INSTANCE ManualEntry WITH
    Contacts <- EntryContacts, Short <- ShortContacts, Details <- EntryDetails,
    Blank <- BlankDetails, Incomplete <- IncompleteDetails, MaxRequests <- LookupBound
Payout == INSTANCE Reconciliation WITH MaxClicks <- PayoutClicks
House == INSTANCE Household WITH MaxClicks <- HouseholdClicks
Appeal == INSTANCE Appeals WITH MaxClicks <- AppealClicks

\* What is not there is no record.
ASSUME NoneAssumption == None \notin Payout!Record \cup Entry!Gift

drawerVars == <<stored, open, detail, loading, failed>>
queueVars == <<filters, chips, batch, box, pending,
               items, listing, refreshing, broken, working>>
entryVars == <<due, timer, lookups, searches, asking, calls>>
payoutVars == <<record, payoutOf, table, selected, typed, feedback, adding>>
houseVars == <<existing, homeOf, primaryOf, current, shown, members,
               queued, primary, status, last>>
appealVars == <<held, appeals, chosen, reading, unread,
                creating, editing, counting, sends>>
vars == <<view, form, busy, call, clicks, drawerVars, queueVars, entryVars,
          payoutVars, houseVars, appealVars>>

NoDrawer ==
    stored = None /\ open = None /\ detail = None /\ loading = None /\ failed = None

NoQueue ==
    /\ filters = None /\ chips = None /\ batch = None /\ box = None /\ pending = None
    /\ items = None /\ listing = None /\ refreshing = None /\ broken = None
    /\ working = None

NoEntry ==
    /\ due = None /\ timer = None /\ lookups = None
    /\ searches = None /\ asking = None /\ calls = None

NoPayouts ==
    /\ record = None /\ payoutOf = None /\ table = None /\ selected = None
    /\ typed = None /\ feedback = None /\ adding = None

NoHouseholds ==
    /\ existing = None /\ homeOf = None /\ primaryOf = None
    /\ current = None /\ shown = None /\ members = None
    /\ queued = None /\ primary = None /\ status = None /\ last = None

NoAppeals ==
    /\ held = None /\ appeals = None /\ chosen = None /\ reading = None /\ unread = None
    /\ creating = None /\ editing = None /\ counting = None /\ sends = None

TypeOK ==
    /\ view \in {"queue", "drawer", "manual", "reconciliation", "households", "appeals"}
    /\ IF view = "queue" THEN Queue!TypeOK /\ form = None /\ busy = None ELSE NoQueue
    /\ IF view = "drawer" THEN Drawer!TypeOK ELSE NoDrawer
    /\ IF view = "manual" THEN Entry!TypeOK /\ busy = None /\ call = None /\ clicks = None
       ELSE NoEntry
    /\ IF view = "reconciliation" THEN Payout!TypeOK ELSE NoPayouts
    /\ IF view = "households" THEN House!TypeOK /\ form = None ELSE NoHouseholds
    /\ IF view = "appeals" THEN Appeal!TypeOK /\ form = None /\ busy = None ELSE NoAppeals

Init ==
    \/ /\ view = "queue" /\ Queue!Init /\ form = None /\ busy = None
       /\ NoDrawer /\ NoEntry /\ NoPayouts /\ NoHouseholds /\ NoAppeals
    \/ /\ view = "drawer" /\ Drawer!Init
       /\ NoQueue /\ NoEntry /\ NoPayouts /\ NoHouseholds /\ NoAppeals
    \/ /\ view = "manual" /\ Entry!Init /\ busy = None /\ call = None /\ clicks = None
       /\ NoDrawer /\ NoQueue /\ NoPayouts /\ NoHouseholds /\ NoAppeals
    \/ /\ view = "reconciliation" /\ Payout!Init
       /\ NoDrawer /\ NoQueue /\ NoEntry /\ NoHouseholds /\ NoAppeals
    \/ /\ view = "households" /\ House!Init /\ form = None
       /\ NoDrawer /\ NoQueue /\ NoEntry /\ NoPayouts /\ NoAppeals
    \/ /\ view = "appeals" /\ Appeal!Init /\ form = None /\ busy = None
       /\ NoDrawer /\ NoQueue /\ NoEntry /\ NoPayouts /\ NoHouseholds

Queueing(step) ==
    /\ view = "queue" /\ step
    /\ UNCHANGED <<view, form, busy, drawerVars, entryVars, payoutVars, houseVars, appealVars>>

Reviewing(step) ==
    /\ view = "drawer" /\ step
    /\ UNCHANGED <<view, queueVars, entryVars, payoutVars, houseVars, appealVars>>

Entering(step) ==
    /\ view = "manual" /\ step
    /\ UNCHANGED <<view, busy, call, clicks,
                   drawerVars, queueVars, payoutVars, houseVars, appealVars>>

Reconciling(step) ==
    /\ view = "reconciliation" /\ step
    /\ UNCHANGED <<view, drawerVars, queueVars, entryVars, houseVars, appealVars>>

Housing(step) ==
    /\ view = "households" /\ step
    /\ UNCHANGED <<view, form, drawerVars, queueVars, entryVars, payoutVars, appealVars>>

Appealing(step) ==
    /\ view = "appeals" /\ step
    /\ UNCHANGED <<view, form, busy, drawerVars, queueVars, entryVars, payoutVars, houseVars>>

Answer(c) ==
    \/ Queueing(Queue!Answer(c))
    \/ Reviewing(Drawer!Answer(c))
    \/ Entering(Entry!Answers(c))
    \/ Reconciling(Payout!Answer(c))
    \/ Housing(House!Answer(c))
    \/ Appealing(Appeal!Answer(c))

\* What the browser does by itself: it runs the effects that are due, and the
\* timer of the search box.
Browser == Entering(Entry!RunEffects) \/ Queueing(Queue!TimerFires)

Next ==
    \/ Queueing(Queue!Next) \/ Reviewing(Drawer!Next) \/ Entering(Entry!Next)
    \/ Reconciling(Payout!Next) \/ Housing(House!Next) \/ Appealing(Appeal!Next)

Spec == Init /\ [][Next]_vars

\* fetch ends with an answer or an error, and the continuation then runs.  Less
\* is enough: while requests are in progress, one of them comes to its end.
FairSpec == Spec /\ WF_vars(Browser) /\ WF_vars(\E c \in Slots : Answer(c))
-----------------------------------------------------------------------------
\* Three forms are not used for another thing than they were filled for: the
\* columns of a staged gift are those loaded for it or typed over it, an appeal is
\* edited with its own content, and the primary contact of a household to be
\* created is one of the people queued for it.  Two other forms are not meant: the
\* count of an appeal and the fields of a household go to the one selected.
ContentStaysPut ==
    /\ view = "drawer" => Drawer!ContentStaysWithItsGift
    /\ view = "appeals" => Appeal!ContentStaysWithItsAppeal
    /\ view = "households" => House!PrimaryIsQueued

\* A form says that it is being submitted while it is, and only then, and once at
\* a time.  A gift that is being submitted is still the one the form shows, so that
\* emptying the form when the answer comes loses nothing typed meanwhile.
SubmittedOnce ==
    /\ view = "manual" => Entry!SubmittedIsShown
    /\ view = "appeals" => Appeal!FormsSaveOnce

\* What the page says of other state is true of it, however late answers come: a
\* chip names what the queue is asked for, the donors offered are those found for
\* the contact as it is typed, and a warning that a gift like this one is waiting
\* is about the donor and the details on the form.
HintsAreCurrent ==
    /\ view = "queue" => Queue!ChipsTellTheFilter
    /\ view = "manual" => Entry!PanelIsCurrent /\ Entry!WarningIsCurrent

\* Saving a payout changes only what the person changed since it was opened, and
\* what a colleague wrote meanwhile in another field stays.
SavedIsTyped == [][view = "reconciliation" => Payout!SavesWhatWasTyped]_vars

\* A success is told only if the whole was done, though it is done by one request
\* for each gift, or each person, of which any may fail: "Linked n gifts" in the
\* payout drawer, "Household created" once its members were added.
MessageIsTrue ==
    /\ view = "reconciliation" => Payout!FeedbackIsTrue
    /\ view = "households" => House!SuccessIsComplete

\* What the proofs rely on, view by view.
PagesInv ==
    /\ TypeOK
    /\ view = "queue" => Queue!QueueInv
    /\ view = "drawer" => Drawer!DrawerInv
    /\ view = "manual" => Entry!EntryInv
    /\ view = "reconciliation" => Payout!PayoutInv
    /\ view = "households" => House!HouseholdInv
    /\ view = "appeals" => Appeal!AppealsInv

Settled ==
    \/ view = "queue" /\ Queue!Settled
    \/ view = "drawer" /\ Drawer!Settled
    \/ view = "manual" /\ ~Entry!Submitting
    \/ view = "reconciliation" /\ Payout!Settled
    \/ view = "households" /\ House!Settled
    \/ view = "appeals" /\ Appeal!Settled

\* However answers and errors overtake each other, the page is usable again and
\* again: no flag stays set that keeps a button disabled, or hides what was
\* loaded, and the queue is asked for what its search box says.
PagesSettle == []<>Settled
=============================================================================
