--------------------------- MODULE Reconciliation ---------------------------
(***************************************************************************)
(* The reconciliation page: ReconciliationView with its table of payouts,  *)
(* PayoutDrawer, in which a payout is corrected and gifts are linked to    *)
(* it, AddPayoutDrawer, and GiftPayoutService behind them.  PayoutDrawer   *)
(* stays mounted: its flags, and the requests it has in progress, outlive  *)
(* the payout that is open.                                                *)
(*                                                                         *)
(* The table is read when its answer arrives: that it may be out of date   *)
(* by then is no different from its being out of date a moment later.  Of  *)
(* the two lists of gifts only the loading is modelled.  They may show any *)
(* gift: also those of another payout, when two answers overtake each      *)
(* other.                                                                  *)
(***************************************************************************)
EXTENDS Naturals

CONSTANTS
    Payouts,
    Recorded,     \* payouts there are to begin with
    Gifts,
    Slots,        \* requests of this page in progress
    MaxClicks,    \* bound: clicks of the person here, and those of a colleague
    None

VARIABLES
    record,    \* payouts in Twenty
    payoutOf,  \* giftPayoutId of the gifts
    table,     \* the payouts as the page last loaded them
    selected,  \* selectedPayout: a row of the table as it was when clicked
    form,      \* status and note as they stand in the drawer
    typed,     \* which of them the person changed since the payout was opened
    busy,      \* the flags of the drawer that are set
    feedback,  \* "Linked n gifts": those it names, those it is true of
    adding,    \* AddPayoutDrawer
    call,      \* requests in progress
    clicks

drawerVars == <<selected, form, typed, busy, feedback>>
vars == <<record, payoutOf, table, drawerVars, adding, call, clicks>>

Fields == {"status", "note"}

Values == [status |-> {"pending", "reconciled"}, note |-> {"", "written"}]

Form == [status : Values.status, note : Values.note]

\* confirmed stands for confirmedAt.
Record == [status : Values.status, note : Values.note, confirmed : BOOLEAN]

Flags == {"saving", "linking", "unlinking", "linked", "suggested"}

NoForm == [status |-> "pending", note |-> ""]

FormOf(r) == [status |-> r.status, note |-> r.note]

Silent == [named |-> {}, done |-> {}]

CallState ==
    [kind   : {"none", "save", "link", "pick", "unlink", "load", "add"},
     payout : Payouts \cup {None},
     at     : {"idle", "sent", "replied", "linked", "suggested", "refresh"},
     ok     : BOOLEAN,
     form   : Form,
     fields : SUBSET Fields,     \* those the PATCH has
     confirm : BOOLEAN,          \* and confirmedAt
     typed  : SUBSET Fields,
     named  : SUBSET Gifts,      \* giftIds, if the message is to name them
     todo   : SUBSET Gifts,      \* those the loop has not come to
     done   : SUBSET Gifts,      \* those of "named" that were patched
     left   : SUBSET {"linked", "suggested"}]  \* answers a load still waits for

Idle == [kind |-> "none", payout |-> None, at |-> "idle", ok |-> FALSE,
         form |-> NoForm, fields |-> {}, confirm |-> FALSE, typed |-> {},
         named |-> {}, todo |-> {}, done |-> {}, left |-> {}]

TypeOK ==
    /\ record \in [Payouts -> Record \cup {None}]
    /\ payoutOf \in [Gifts -> Payouts \cup {None}]
    /\ table \in [Payouts -> Record \cup {None}]
    /\ selected \in [payout : Payouts, seen : Record] \cup {None}
    /\ form \in Form
    /\ typed \subseteq Fields
    /\ busy \subseteq Flags
    /\ feedback \in [named : SUBSET Gifts, done : SUBSET Gifts]
    /\ adding \in {"closed", "open", "submitting"}
    /\ call \in [Slots -> CallState]
    /\ clicks \in 0..MaxClicks

New == [status |-> "pending", note |-> "", confirmed |-> FALSE]

InTwenty(p) == record[p] # None

Init ==
    /\ record = [p \in Payouts |-> IF p \in Recorded THEN New ELSE None]
    /\ payoutOf = [g \in Gifts |-> None]
    /\ table = record
    /\ selected = None
    /\ form = NoForm
    /\ typed = {}
    /\ busy = {}
    /\ feedback = Silent
    /\ adding = "closed"
    /\ call = [c \in Slots |-> Idle]
    /\ clicks = 0
-----------------------------------------------------------------------------
(* The person at the page. *)

Click ==
    /\ clicks < MaxClicks
    /\ clicks' = clicks + 1

\* Slots are alike: any that is free will do.
Start(request) ==
    LET free == {c \in Slots : call[c] = Idle}
    IN free # {} /\ call' = [call EXCEPT ![CHOOSE c \in free : TRUE] = request]

\* The effect on the payout fills the form.
Filled(r) == FormOf(r)

\* "Review".  The effects load both lists and forget what was being linked; the
\* flags stay.  The drawers cover the table.
Open(p) ==
    /\ selected = None /\ adding = "closed"
    /\ table[p] # None
    /\ Click
    /\ selected' = [payout |-> p, seen |-> table[p]]
    /\ form' = Filled(table[p])
    /\ typed' = {}
    /\ feedback' = Silent
    /\ busy' = busy \cup {"linked", "suggested"}
    /\ Start([Idle EXCEPT !.kind = "load", !.at = "sent",
                          !.left = {"linked", "suggested"}])
    /\ UNCHANGED <<record, payoutOf, table, adding>>

\* "Close" may be clicked at any time, also while the payout is being saved.
Close ==
    /\ selected # None
    /\ Click
    /\ selected' = None
    /\ typed' = {}
    /\ UNCHANGED <<record, payoutOf, table, form, busy, feedback, adding, call>>

Type(f) ==
    /\ selected # None
    /\ \E v \in Values[f] : v # form[f] /\ form' = [form EXCEPT ![f] = v]
    /\ typed' = typed \cup {f}
    /\ UNCHANGED <<record, payoutOf, table, selected, busy, feedback, adding, call, clicks>>

BugChanged == Fields

\* What differs from the payout as it was when it was opened.
Changed == {f \in Fields : form[f] # selected.seen[f]}

BugConfirms == "status" \in Changed /\ form.status = "pending"

Confirms == form.status = "reconciled" /\ ~selected.seen.confirmed

\* handleSave.  Without a change nothing is sent.
Save ==
    /\ selected # None /\ "saving" \notin busy
    /\ Changed # {} \/ Confirms
    /\ Click
    /\ busy' = busy \cup {"saving"}
    /\ Start([Idle EXCEPT !.kind = "save", !.payout = selected.payout, !.at = "sent",
                          !.form = form, !.fields = Changed, !.confirm = Confirms,
                          !.typed = typed])
    /\ UNCHANGED <<record, payoutOf, table, selected, form, typed, feedback, adding>>

Asked(kind, gs) ==
    [Idle EXCEPT !.kind = kind, !.payout = selected.payout, !.at = "sent",
                 !.named = IF kind = "link" THEN gs ELSE {}, !.todo = gs]

SendGifts(kind, flag, gs) ==
    /\ selected # None
    /\ gs # {}
    /\ Click
    /\ busy' = busy \cup {flag}
    /\ feedback' = Silent
    /\ Start(Asked(kind, gs))
    /\ UNCHANGED <<record, payoutOf, table, selected, form, typed, adding>>

\* By ids that are typed, or by the suggestions that are ticked.
Link(kind) == "linking" \notin busy /\ \E gs \in SUBSET Gifts : SendGifts(kind, "linking", gs)

Unlink(g) == "linked" \notin busy /\ SendGifts("unlink", "unlinking", {g})

\* The two "Refresh" buttons of the drawer.
Reload(list) ==
    /\ selected # None /\ list \notin busy
    /\ Click
    /\ busy' = busy \cup {list}
    /\ Start([Idle EXCEPT !.kind = "load", !.at = "sent",
                          !.left = {list}])
    /\ UNCHANGED <<record, payoutOf, table, selected, form, typed, feedback, adding>>

\* "Refresh" of the page, which also runs when the filters change.
RefreshTable ==
    /\ selected = None
    /\ table' \in {record, [p \in Payouts |-> None]}
    /\ UNCHANGED <<record, payoutOf, drawerVars, adding, call, clicks>>

OpenAdding ==
    /\ selected = None /\ adding = "closed"
    /\ adding' = "open"
    /\ UNCHANGED <<record, payoutOf, table, drawerVars, call, clicks>>

CloseAdding ==
    /\ adding = "open"
    /\ adding' = "closed"
    /\ UNCHANGED <<record, payoutOf, table, drawerVars, call, clicks>>

SubmitPayout ==
    /\ adding = "open"
    /\ \E p \in Payouts : ~InTwenty(p)
    /\ Click
    /\ adding' = "submitting"
    /\ Start([Idle EXCEPT !.kind = "add", !.at = "sent"])
    /\ UNCHANGED <<record, payoutOf, table, drawerVars>>
-----------------------------------------------------------------------------
(* GiftPayoutService.  A reply is what the browser gets of a request. *)

\* One call of Twenty: whether it is carried out, and what the answer says.
Outcomes == {o \in [carried : BOOLEAN, ok : BOOLEAN] : o.ok => o.carried}

Replied(q, ok) ==
    [Idle EXCEPT !.kind = q.kind, !.at = "replied", !.ok = ok,
                 !.named = q.named, !.done = q.done]

Patched(r, q) ==
    [status    |-> IF "status" \in q.fields THEN q.form.status ELSE r.status,
     note      |-> IF "note" \in q.fields THEN q.form.note ELSE r.note,
     confirmed |-> r.confirmed \/ q.confirm]

PatchPayout(c) ==
    /\ call[c].kind = "save" /\ call[c].at = "sent"
    /\ \E o \in Outcomes :
        /\ record' = IF o.carried
                     THEN [record EXCEPT ![call[c].payout] = Patched(@, call[c])]
                     ELSE record
        /\ call' = [call EXCEPT ![c] = Replied(@, o.ok)]
    /\ UNCHANGED <<payoutOf, table, drawerVars, adding, clicks>>

CreatePayout(c) ==
    /\ call[c].kind = "add" /\ call[c].at = "sent"
    /\ \E o \in Outcomes, p \in Payouts :
        /\ ~InTwenty(p)
        /\ record' = IF o.carried THEN [record EXCEPT ![p] = New] ELSE record
        /\ call' = [call EXCEPT ![c] = Replied(@, o.ok)]
    /\ UNCHANGED <<payoutOf, table, drawerVars, adding, clicks>>

Without(q, g) == [q EXCEPT !.todo = @ \ {g}]

BugBroken(q, g) ==
    IF q.todo = {g} THEN Replied(q, TRUE) ELSE Without(q, g)

\* A failure ends the loop; the gifts before it stay as they are.
Broken(q, g) == Replied(q, FALSE)

\* applyGiftPayout: one PATCH for each gift, whatever payout it has by then.
PatchGift(c) ==
    LET q == call[c]
    IN /\ q.kind \in {"link", "pick", "unlink"} /\ q.at = "sent"
       /\ \E g \in q.todo, o \in Outcomes :
            LET done == [Without(q, g) EXCEPT !.done = @ \cup ({g} \cap q.named)]
            IN /\ payoutOf' = IF ~o.carried THEN payoutOf
                              ELSE [payoutOf EXCEPT ![g] = IF q.kind = "unlink" THEN None
                                                           ELSE q.payout]
               /\ call' = [call EXCEPT ![c] = IF ~o.ok THEN Broken(q, g)
                                              ELSE IF done.todo = {} THEN Replied(done, TRUE)
                                              ELSE done]
       /\ UNCHANGED <<record, table, drawerVars, adding, clicks>>
-----------------------------------------------------------------------------
(* The continuations in the browser. *)

Flag(kind) ==
    CASE kind = "save" -> {"saving"}
      [] kind = "unlink" -> {"unlinking"}
      [] kind \in {"link", "pick"} -> {"linking"}
      [] OTHER -> {}

Ended(c) == call' = [call EXCEPT ![c] = Idle]

BugFailed(c) ==
    /\ call[c].at = "replied" /\ ~call[c].ok
    /\ busy' = busy \ (IF call[c].kind = "save" THEN {} ELSE Flag(call[c].kind))
    /\ adding' = IF call[c].kind = "add" THEN "open" ELSE adding
    /\ Ended(c)
    /\ UNCHANGED <<record, payoutOf, table, selected, form, typed, feedback, clicks>>

\* The lists are not loaded again.
Failed(c) ==
    /\ call[c].at = "replied" /\ ~call[c].ok
    /\ busy' = busy \ Flag(call[c].kind)
    /\ adding' = IF call[c].kind = "add" THEN "open" ELSE adding
    /\ Ended(c)
    /\ UNCHANGED <<record, payoutOf, table, selected, form, typed, feedback, clicks>>

Goes(c, at) == call' = [call EXCEPT ![c] = [Idle EXCEPT !.kind = call[c].kind, !.at = at]]

\* The success message is shown, and the ticks are removed, whatever payout is
\* open by now.
Succeeded(c) ==
    LET q == call[c]
    IN /\ q.at = "replied" /\ q.ok
       /\ feedback' = IF q.kind = "link" THEN [named |-> q.named, done |-> q.done]
                      ELSE feedback
       /\ IF q.kind \in {"save", "add"}
          THEN Goes(c, "refresh") /\ UNCHANGED busy
          ELSE Goes(c, "linked") /\ busy' = busy \cup {"linked"}
       /\ UNCHANGED <<record, payoutOf, table, selected, form, typed, adding, clicks>>

\* loadLinkedGifts and loadCandidateGifts, one after the other.
ListsReloaded(c) ==
    /\ \/ /\ call[c].at = "linked"
          /\ busy' = (busy \ {"linked"}) \cup {"suggested"}
          /\ Goes(c, "suggested")
       \/ /\ call[c].at = "suggested"
          /\ busy' = busy \ {"suggested"}
          /\ Goes(c, "refresh")
    /\ UNCHANGED <<record, payoutOf, table, selected, form, typed, feedback, adding, clicks>>

\* When a payout is opened the two are loaded side by side.
ListLoaded(c) ==
    /\ call[c].kind = "load"
    /\ \E list \in call[c].left :
        /\ busy' = busy \ {list}
        /\ call' = IF call[c].left = {list} THEN [call EXCEPT ![c] = Idle]
                   ELSE [call EXCEPT ![c].left = @ \ {list}]
    /\ UNCHANGED <<record, payoutOf, table, selected, form, typed, feedback, adding, clicks>>

\* refresh.  After a save whatever payout is open by now is closed.
Refreshed(c) ==
    /\ call[c].at = "refresh"
    /\ table' \in {record, [p \in Payouts |-> None]}
    /\ busy' = busy \ Flag(call[c].kind)
    /\ adding' = IF call[c].kind = "add" THEN "closed" ELSE adding
    /\ IF call[c].kind = "save" THEN selected' = None /\ typed' = {}
       ELSE UNCHANGED <<selected, typed>>
    /\ Ended(c)
    /\ UNCHANGED <<record, payoutOf, form, feedback, clicks>>
-----------------------------------------------------------------------------
\* The same page in another browser.
ColleagueSaves(p) ==
    /\ InTwenty(p)
    /\ Click
    /\ \E r \in {[record[p] EXCEPT !.note = "written"],
                 [record[p] EXCEPT !.status = "pending"],
                 [record[p] EXCEPT !.status = "reconciled", !.confirmed = TRUE]} :
           record' = [record EXCEPT ![p] = r]
    /\ UNCHANGED <<payoutOf, table, drawerVars, adding, call>>

Answer(c) ==
    \/ PatchPayout(c) \/ CreatePayout(c) \/ PatchGift(c)
    \/ Failed(c) \/ Succeeded(c) \/ ListsReloaded(c) \/ ListLoaded(c) \/ Refreshed(c)

Person ==
    \/ \E p \in Payouts : Open(p)
    \/ Close \/ Save \/ Link("link") \/ Link("pick")
    \/ \E f \in Fields : Type(f)
    \/ \E g \in Gifts : Unlink(g)
    \/ \E list \in {"linked", "suggested"} : Reload(list)
    \/ RefreshTable \/ OpenAdding \/ CloseAdding \/ SubmitPayout

Next ==
    \/ Person
    \/ \E p \in Payouts : ColleagueSaves(p)
    \/ \E c \in Slots : Answer(c)

Spec == Init /\ [][Next]_vars

\* fetch ends with an answer or an error, and the continuation then runs.
FairSpec == Spec /\ \A c \in Slots : WF_vars(Answer(c))
-----------------------------------------------------------------------------
\* Saving a payout changes only what the person changed, since that payout was
\* opened: what a colleague wrote meanwhile in another field stays.  And whoever
\* makes a payout reconciled dates the confirmation with it.
SavesWhatWasTyped ==
    \A p \in Payouts : InTwenty(p) =>
        /\ \A f \in Fields :
               record'[p][f] # record[p][f] =>
                   \/ ColleagueSaves(p)
                   \/ \E c \in Slots : /\ call[c].kind = "save"
                                       /\ call[c].payout = p
                                       /\ f \in call[c].typed
        /\ record'[p].status = "reconciled" => record'[p].confirmed

SavedIsTyped == [][SavesWhatWasTyped]_vars

\* "Linked n gifts" is said only if each of them was patched, though the service
\* does it one by one and may fail at any.
FeedbackIsTrue == feedback.named \subseteq feedback.done

Settled == busy = {} /\ adding # "submitting"
-----------------------------------------------------------------------------
(***************************************************************************)
(* Why these hold                                                          *)
(***************************************************************************)

\* A payout is confirmed for ever, whatever was seen of it.
ConfirmedIn(p) == InTwenty(p) /\ record[p].confirmed

RecordOK(p) == InTwenty(p) /\ record[p].status = "reconciled" => record[p].confirmed

SeenOK(p, r) == InTwenty(p) /\ (r.confirmed => ConfirmedIn(p))

\* What differs from the payout as it was opened was typed.
FormIsTyped == \A f \in Fields : form[f] = selected.seen[f] \/ f \in typed

\* A save sends what was typed, and a confirmation unless there is one.
SaveOK(q) ==
    q.kind = "save" /\ q.at = "sent" =>
        /\ q.payout \in Payouts /\ InTwenty(q.payout)
        /\ q.fields \subseteq q.typed
        /\ "status" \in q.fields /\ q.form.status = "reconciled" =>
               q.confirm \/ ConfirmedIn(q.payout)

\* The gifts to be named are patched or still to be.
LinkOK(q) ==
    /\ q.at = "sent" => q.named \subseteq q.done \cup q.todo
    /\ q.kind = "link" /\ q.at = "replied" /\ q.ok => q.named \subseteq q.done

PayoutInv ==
    /\ TypeOK
    /\ FeedbackIsTrue
    /\ \A p \in Payouts : RecordOK(p) /\ (table[p] # None => SeenOK(p, table[p]))
    /\ selected # None => SeenOK(selected.payout, selected.seen) /\ FormIsTyped
    /\ \A c \in Slots : SaveOK(call[c]) /\ LinkOK(call[c])
=============================================================================
