---------------------------- MODULE StagingQueue ----------------------------
(***************************************************************************)
(* The staging queue: StagingQueue, StagingQueueSummary, StagingQueueTable *)
(* and useGiftStagingList.  A person narrows the list with chips, a batch, *)
(* the sources and a search box, and marks its gifts ready or processes    *)
(* them, several at a time.                                                *)
(*                                                                         *)
(* An effect runs before the next click, so the loading that follows a     *)
(* change of the filter belongs to the step that changed it.  What an      *)
(* error says is left out: nothing depends on it.                          *)
(***************************************************************************)
EXTENDS Naturals

CONSTANTS
    Staged,      \* gifts in staging
    Batches,
    BatchOf,     \* the batch of each gift, or None
    Slots,       \* requests in progress
    MaxClicks,   \* bound: what the person does
    None

VARIABLES
    filters,     \* activeFilters: what the list is asked for
    chips,       \* showDuplicatesOnly, highValueOnly: named for their filter
    batch,       \* activeBatchId
    box,         \* the search box holds a term
    pending,     \* the delay after typing in it has not passed
    items,       \* the list
    listing,     \* loading
    refreshing,  \* isRefreshing
    broken,      \* error
    working,     \* processingIds
    call,
    clicks

narrowing == <<filters, chips, batch, box, pending>>
list == <<items, listing, refreshing, broken>>
vars == <<narrowing, list, working, call, clicks>>

Toggles == {"statuses", "minAmountMinor"}

\* One search term and one source stand for all.
Keys == Toggles \cup {"intakeSources", "search"}

\* Without an order the server is asked for the newest first, as at the start.
Orders == {"newest", "other"}

Filters == [keys : SUBSET Keys, giftBatchId : Batches \cup {None},
            sort : Orders \cup {None}]

NoFilter == [keys |-> {}, giftBatchId |-> None, sort |-> None]

Initially == [NoFilter EXCEPT !.sort = "newest"]

Decisions == {"mark-ready", "process"}

\* A decision is sent, then lists; a retry is mark-ready, with process to come.
CallState ==
    [kind  : {"none", "load", "refresh"} \cup Decisions,
     row   : Staged \cup {None},
     retry : BOOLEAN,
     at    : {"idle", "sent", "listing"},
     asked : Filters]                 \* the filters of the click's rendering

Idle == [kind |-> "none", row |-> None, retry |-> FALSE, at |-> "idle", asked |-> NoFilter]

Load(f) == [Idle EXCEPT !.kind = "load", !.at = "listing", !.asked = f]

TypeOK ==
    /\ filters \in Filters
    /\ chips \subseteq Toggles
    /\ batch \in Batches \cup {None}
    /\ {box, pending, listing, refreshing, broken} \subseteq BOOLEAN
    /\ items \subseteq Staged
    /\ working \in [Staged -> {"none"} \cup Decisions]
    /\ call \in [Slots -> CallState]
    /\ clicks \in 0..MaxClicks

Init ==
    /\ filters = Initially
    /\ chips = {} /\ batch = None /\ box = FALSE /\ pending = TRUE
    /\ items = {} /\ listing = TRUE /\ refreshing = FALSE /\ broken = FALSE
    /\ working = [g \in Staged |-> "none"]
    /\ LET first == CHOOSE c \in Slots : TRUE
       IN call = [c \in Slots |-> IF c = first THEN Load(Initially) ELSE Idle]
    /\ clicks = 0

Click ==
    /\ clicks < MaxClicks
    /\ clicks' = clicks + 1

\* Slots are alike: any that is free will do.
Start(request) ==
    LET free == {c \in Slots : call[c] = Idle}
    IN free # {} /\ call' = [call EXCEPT ![CHOOSE c \in free : TRUE] = request]

-----------------------------------------------------------------------------
(* Filters. *)

\* A batch is active while the list has a gift of it.
StillListed(b, rows) == IF \E g \in rows : BatchOf[g] = b THEN b ELSE None

\* The list is loaded whenever what it is asked for has changed, and nothing
\* cancels the loading that is under way.
Ask(f) ==
    /\ filters' = f
    /\ IF f = filters
       THEN UNCHANGED <<listing, broken, call>>
       ELSE listing' = TRUE /\ broken' = FALSE /\ Start(Load(f))
    /\ UNCHANGED <<items, refreshing, working>>

\* applyFilter and clearFilterKey.
Keyed(key, on) ==
    [filters EXCEPT !.keys = IF on THEN @ \cup {key} ELSE @ \ {key}]

ToggleChip(key) ==
    /\ Click
    /\ chips' = IF key \in chips THEN chips \ {key} ELSE chips \cup {key}
    /\ Ask(Keyed(key, key \notin chips))
    /\ UNCHANGED <<batch, box, pending>>

\* The sources have no state beside the filter, nor has the order.
SelectSource ==
    /\ Click
    /\ Ask(Keyed("intakeSources", "intakeSources" \notin filters.keys))
    /\ UNCHANGED <<chips, batch, box, pending>>

SelectOrder ==
    /\ Click
    /\ Ask([filters EXCEPT !.sort = IF @ = "other" THEN "newest" ELSE "other"])
    /\ UNCHANGED <<chips, batch, box, pending>>

\* The batches offered are those of the list; the active one is also a chip.
SelectBatch(b) ==
    /\ \E g \in items : BatchOf[g] = b
    /\ Click
    /\ LET next == IF batch = b THEN None ELSE b
       IN batch' = next /\ Ask([filters EXCEPT !.giftBatchId = next])
    /\ UNCHANGED <<chips, box, pending>>

HasActiveFilters ==
    batch # None \/ chips # {} \/ filters.keys \cap {"intakeSources", "search"} # {}

HasChips == box \/ "intakeSources" \in filters.keys \/ batch # None \/ chips # {}

\* Mistake: the chips are left as they are.
BugClear ==
    /\ HasChips /\ HasActiveFilters
    /\ Click
    /\ batch' = None /\ box' = FALSE /\ pending' = (pending \/ box)
    /\ Ask(NoFilter)
    /\ UNCHANGED chips

ClearAll ==
    /\ HasChips /\ HasActiveFilters
    /\ Click
    /\ chips' = {} /\ batch' = None
    /\ box' = FALSE /\ pending' = (pending \/ box)
    /\ Ask(NoFilter)

TypeSearch ==
    /\ Click
    /\ \E typed \in BOOLEAN : box' = typed
    /\ pending' = TRUE
    /\ UNCHANGED <<filters, chips, batch, list, working, call>>

\* 350 ms after the last change of the box.
TimerFires ==
    /\ pending
    /\ pending' = FALSE
    /\ Ask(Keyed("search", box))
    /\ UNCHANGED <<chips, batch, box, clicks>>

-----------------------------------------------------------------------------
(* The list and its gifts.  A status the list shows may be any. *)

\* From the button, which is disabled meanwhile, or from the drawer, which
\* covers the queue and refreshes it after each decision.
Refresh ==
    /\ Click
    /\ Start([Load(filters) EXCEPT !.kind = "refresh"])
    /\ refreshing' = TRUE /\ broken' = FALSE
    /\ UNCHANGED <<narrowing, items, listing, working>>

\* filteredRows, of a table that is shown.
Shown ==
    IF listing \/ broken THEN {}
    ELSE {g \in items : batch = None \/ BatchOf[g] = batch}

Decide(kind, g, retry, enabled) ==
    /\ g \in Shown /\ enabled
    /\ Click
    /\ Start([Idle EXCEPT !.kind = kind, !.row = g, !.retry = retry, !.at = "sent",
                          !.asked = filters])
    /\ working' = [working EXCEPT ![g] = kind]
    /\ UNCHANGED <<narrowing, list>>

\* Each button looks for its own decision only, so that the two of one gift
\* can be under way at once; Retry looks for both.
MarkReady(g) == Decide("mark-ready", g, FALSE, working[g] # "mark-ready")
Process(g) == Decide("process", g, FALSE, working[g] # "process")
Retry(g) == Decide("mark-ready", g, TRUE, working[g] = "none")

-----------------------------------------------------------------------------
(* Answers. *)

\* The decision on a gift is over; a retry goes on with the next, whatever
\* became of the first.
Ends(c) ==
    IF call[c].retry
    THEN /\ call' = [call EXCEPT ![c].kind = "process", ![c].retry = FALSE, ![c].at = "sent"]
         /\ working' = [working EXCEPT ![call[c].row] = "process"]
    ELSE /\ call' = [call EXCEPT ![c] = Idle]
         /\ working' = IF call[c].kind \in Decisions
                       THEN [working EXCEPT ![call[c].row] = "none"] ELSE working

\* updateGiftStagingStatus and processGiftStaging: an answer, whatever it says,
\* is followed by a refresh, with the filters of the click.
Replied(c) ==
    /\ call[c].at = "sent"
    /\ \/ /\ call' = [call EXCEPT ![c].at = "listing"]
          /\ refreshing' = TRUE /\ broken' = FALSE
          /\ UNCHANGED working
       \/ Ends(c) /\ UNCHANGED <<refreshing, broken>>
    /\ UNCHANGED <<narrowing, items, listing, clicks>>

\* The gifts that match; the server may leave out any of them, by their status,
\* amount or source, or by the limit.
Matching(f) == {g \in Staged : f.giftBatchId \in {None, BatchOf[g]}}

\* Mistake: a loading that fails leaves its flag.
BugFlags(c, ok) ==
    /\ IF call[c].kind = "load" THEN listing' = ~ok /\ UNCHANGED refreshing
       ELSE refreshing' = FALSE /\ UNCHANGED listing

Flags(c, ok) ==
    IF call[c].kind = "load" THEN listing' = FALSE /\ UNCHANGED refreshing
    ELSE refreshing' = FALSE /\ UNCHANGED listing

\* The answer replaces the list, even one to a newer question.
Lists(c) ==
    /\ call[c].at = "listing"
    /\ \E ok \in BOOLEAN :
         /\ items' \in (IF ok THEN SUBSET Matching(call[c].asked) ELSE {{}})
         /\ broken' = (broken \/ ~ok)
         /\ Flags(c, ok)
    /\ batch' = StillListed(batch, items')
    /\ Ends(c)
    /\ UNCHANGED <<filters, chips, box, pending, clicks>>

Answer(c) == Replied(c) \/ Lists(c)

Next ==
    \/ \E key \in Toggles : ToggleChip(key)
    \/ SelectSource \/ SelectOrder
    \/ \E b \in Batches : SelectBatch(b)
    \/ ClearAll \/ TypeSearch \/ TimerFires \/ Refresh
    \/ \E g \in Staged : MarkReady(g) \/ Process(g) \/ Retry(g)
    \/ \E c \in Slots : Answer(c)

Spec == Init /\ [][Next]_vars

\* fetch ends with an answer or an error, and the timer of the box goes off.
FairSpec == Spec /\ WF_vars(TimerFires) /\ \A c \in Slots : WF_vars(Answer(c))
-----------------------------------------------------------------------------
(***************************************************************************)
(* Properties                                                              *)
(***************************************************************************)

\* What the chips say of the list is what it is asked for, though they are kept
\* apart from the filter and cleared in other places.  (Not the reverse: see
\* the README on a batch that is asked for without a chip.)
ChipsTellTheFilter ==
    /\ chips = filters.keys \cap Toggles
    /\ batch # None => filters.giftBatchId = batch

\* Nothing is under way that the page shows, and the list is asked for what
\* the search box says.
Settled ==
    /\ ~listing /\ ~refreshing
    /\ \A g \in Staged : working[g] = "none"
    /\ box <=> "search" \in filters.keys

\* What a chip says does not depend on anything but the clicks.
QueueInv == TypeOK /\ ChipsTellTheFilter
=============================================================================
