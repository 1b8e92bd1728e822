--------------------------- MODULE StagingDrawer ---------------------------
(***************************************************************************)
(* The drawer in which a reviewer corrects a staged gift and decides on    *)
(* it: useGiftStagingDrawerController, useGiftStagingDetail and the        *)
(* components GiftStagingDrawer draws.  One component instance serves all  *)
(* rows of the queue: its state, and the calls it has in progress, outlive *)
(* the row that is open.                                                   *)
(*                                                                         *)
(* The content of a field is the row it was written for.  The effect that  *)
(* fills the form from a detail that has arrived runs with its arrival:    *)
(* nobody clicks between the two.                                          *)
(***************************************************************************)
EXTENDS Naturals

CONSTANTS
    Rows,        \* staged gifts
    Noted,       \* those that have a note to begin with
    Slots,       \* calls of the drawer that can be in progress
    MaxClicks,   \* bound: what the reviewer does, typing aside
    NoRow,
    Blank,       \* an empty field
    Garbled      \* an amount that is not a number

VARIABLES
    stored,    \* the editable columns of the rows, in Twenty
    open,      \* stagingId: the row chosen in the queue
    detail,    \* the row that was loaded last, and its columns then
    form,      \* editForm
    loading,
    failed,    \* error: loading failed
    busy,      \* actionBusy
    call,      \* calls in progress
    clicks

vars == <<stored, open, detail, form, loading, failed, busy, call, clicks>>

\* Amount and currency cannot be cleared; all other fields can.
Fields == {"amount", "note"}

Columns == [Fields -> Rows \cup {Blank}]
Empty == [f \in Fields |-> Blank]

Details == [row : Rows \cup {NoRow}, columns : Columns]
NoDetail == [row |-> NoRow, columns |-> Empty]

Decisions == {"update", "assign", "mark-ready", "process"}

\* assign sets the same flag as update.
Flag(kind) == IF kind = "assign" THEN "update" ELSE kind

\* A call of the server, and the loading of the row that was open at the
\* click which follows it; or, for kind "load", that loading alone.
CallState ==
    [kind  : {"none", "load"} \cup Decisions,
     row   : Rows \cup {NoRow},              \* the row acted on
     sends : Columns,
     at    : {"idle", "sent", "replied", "reading", "read"},
     ok    : BOOLEAN,                        \* the reply
     from  : Rows \cup {NoRow},              \* stagingId at the click
     seen  : Columns]

Idle == [kind |-> "none", row |-> NoRow, sends |-> Empty, at |-> "idle",
         ok |-> FALSE, from |-> NoRow, seen |-> Empty]

TypeOK ==
    /\ stored \in [Rows -> Columns]
    /\ open \in Rows \cup {NoRow}
    /\ detail \in Details
    /\ form \in [amount : Rows \cup {Blank, Garbled}, note : Rows \cup {Blank}]
    /\ loading \in BOOLEAN
    /\ failed \in BOOLEAN
    /\ busy \in {"none", "update", "mark-ready", "process"}
    /\ call \in [Slots -> CallState]
    /\ clicks \in 0..MaxClicks

Init ==
    /\ stored = [r \in Rows |-> [amount |-> r,
                                 note |-> IF r \in Noted THEN r ELSE Blank]]
    /\ open = NoRow
    /\ detail = NoDetail
    /\ form = Empty
    /\ loading = FALSE
    /\ failed = FALSE
    /\ busy = "none"
    /\ call = [c \in Slots |-> Idle]
    /\ clicks = 0
-----------------------------------------------------------------------------
(* Every change of the detail fills the form anew, whatever was typed. *)

BugShow(d) ==
    /\ detail' = d
    /\ form' = IF form = Empty THEN d.columns ELSE form

Show(d) ==
    /\ detail' = d
    /\ form' = d.columns

Load(r) == [Idle EXCEPT !.kind = "load", !.row = r, !.at = "reading", !.from = r]

StartLoading ==
    /\ loading' = TRUE
    /\ failed' = FALSE

\* What the reviewer can see of a row, and act on within it.
Shown == open # NoRow /\ ~loading /\ ~failed /\ detail.row # NoRow

\* The footer is there as long as the drawer is, with or without a detail.
Enabled(flag) == open # NoRow /\ ~loading /\ busy # flag

Click ==
    /\ clicks < MaxClicks
    /\ clicks' = clicks + 1

\* Slots are alike: any that is free will do.
Start(request) ==
    LET free == {c \in Slots : call[c] = Idle}
    IN free # {} /\ call' = [call EXCEPT ![CHOOSE c \in free : TRUE] = request]

\* "Review" in the queue.  An open drawer covers the queue.
Open(r) ==
    /\ open = NoRow
    /\ Click
    /\ open' = r
    /\ StartLoading
    /\ Start(Load(r))
    /\ UNCHANGED <<stored, detail, form, busy>>

\* Closing forgets the detail.  It ends no call, and resets no flag.
Close ==
    /\ open # NoRow
    /\ Click
    /\ open' = NoRow
    /\ Show(NoDetail)
    /\ UNCHANGED <<stored, loading, failed, busy, call>>

\* "Retry" beside the error.
Retry ==
    /\ open # NoRow /\ ~loading /\ failed
    /\ Click
    /\ StartLoading
    /\ Start(Load(open))
    /\ UNCHANGED <<stored, open, detail, form, busy>>

Type(f, v) ==
    /\ Shown /\ busy # "update"
    /\ form' = [form EXCEPT ![f] = v]
    /\ UNCHANGED <<stored, open, detail, loading, failed, busy, call, clicks>>

\* What is typed is meant for the gift on the screen.
Typing ==
    \/ \E f \in Fields : Type(f, detail.row)
    \/ \E f \in Fields : Type(f, Blank)
    \/ Type("amount", Garbled)

Reset ==
    /\ Enabled("update")
    /\ Click
    /\ Show(detail)
    /\ UNCHANGED <<stored, open, loading, failed, busy, call>>
-----------------------------------------------------------------------------
(* Decisions.  They are about the detail, not about the row that is open. *)

Target == detail.row

Begin(kind, sends) ==
    /\ Target # NoRow
    /\ Click
    /\ busy' = Flag(kind)
    /\ Start([Idle EXCEPT !.kind = kind, !.row = Target, !.sends = sends,
                          !.at = "sent", !.from = open])
    /\ UNCHANGED <<stored, open, detail, form, loading, failed>>

BugSave ==
    /\ Enabled("update")
    /\ \E f \in Fields : form[f] # Blank \/ (f # "amount" /\ detail.columns[f] # Blank)
    /\ Begin("update", form)

\* Every field with a content is sent, changed or not; an amount that is not
\* a number ends the handler with an error.
Save ==
    /\ Enabled("update")
    /\ form.amount # Garbled
    /\ \E f \in Fields : form[f] # Blank \/ (f # "amount" /\ detail.columns[f] # Blank)
    /\ Begin("update", form)

MarkReady == Enabled("mark-ready") /\ Begin("mark-ready", Empty)

Process == Enabled("process") /\ Begin("process", Empty)

\* From the list of possible donors, or from the search, which is open
\* whatever the drawer is busy with.
AssignDonor == Shown /\ Begin("assign", Empty)
-----------------------------------------------------------------------------
(* The server, and the answers. *)

\* An empty value is pruned from the PATCH: the column stays (see Columns and
\* Merged of GiftStaging).
Written(r, sends) ==
    [stored EXCEPT ![r] = [f \in Fields |-> IF sends[f] = Blank THEN @[f] ELSE sends[f]]]

\* The request is carried out or not; the reply tells, or is an error.  A row
\* that is not processed is answered with a reason (processGift), which is
\* handled as an error is.
Serve(c) ==
    /\ call[c].at = "sent"
    /\ \E done, ok \in BOOLEAN :
         /\ ok => done
         /\ stored' = IF done THEN Written(call[c].row, call[c].sends) ELSE stored
         /\ call' = [call EXCEPT ![c].at = "replied", ![c].ok = ok]
    /\ UNCHANGED <<open, detail, form, loading, failed, busy, clicks>>

\* A success is followed by reload, that of the rendering of the click.
Succeeded(c) ==
    /\ call[c].at = "replied" /\ call[c].ok
    /\ StartLoading
    /\ call' = [call EXCEPT ![c].at = "reading"]
    /\ UNCHANGED <<stored, open, detail, form, busy, clicks>>

Failed(c) ==
    /\ call[c].at = "replied" /\ ~call[c].ok
    /\ busy' = "none"
    /\ call' = [call EXCEPT ![c] = Idle]
    /\ UNCHANGED <<stored, open, detail, form, loading, failed, clicks>>

\* GET of the row: its columns as they are when the server reads them.
Read(c) ==
    /\ call[c].at = "reading"
    /\ \E ok \in BOOLEAN :
         call' = [call EXCEPT ![c].at = "read", ![c].ok = ok,
                              ![c].seen = IF ok THEN stored[call[c].from] ELSE Empty]
    /\ UNCHANGED <<stored, open, detail, form, loading, failed, busy, clicks>>

\* The answer is shown whatever row is open by now.  A decision ends here:
\* the list is refreshed, and the drawer is no longer busy.
Loaded(c) ==
    /\ call[c].at = "read"
    /\ Show(IF call[c].ok THEN [row |-> call[c].from, columns |-> call[c].seen]
            ELSE NoDetail)
    /\ failed' = (failed \/ ~call[c].ok)
    /\ loading' = FALSE
    /\ busy' = IF call[c].kind = "load" THEN busy ELSE "none"
    /\ call' = [call EXCEPT ![c] = Idle]
    /\ UNCHANGED <<stored, open, clicks>>

Answer(c) == Serve(c) \/ Succeeded(c) \/ Failed(c) \/ Read(c) \/ Loaded(c)

Reviewer == \/ \E r \in Rows : Open(r)
            \/ Close \/ Retry \/ Typing \/ Reset
            \/ Save \/ MarkReady \/ Process \/ AssignDonor

Next == Reviewer \/ \E c \in Slots : Answer(c)

Spec == Init /\ [][Next]_vars

\* fetch ends with an answer or an error, and the continuation then runs.
FairSpec == Spec /\ \A c \in Slots : WF_vars(Answer(c))
-----------------------------------------------------------------------------
(***************************************************************************)
(* Properties                                                              *)
(***************************************************************************)

\* What was loaded or typed for one gift is never written to another, though
\* details arrive in any order and for rows that are no longer open: the form
\* is always of the row that a decision is about, and is sent to that row.  An
\* amount is never lost: neither an emptied field, nor one that is not a number,
\* nor a form without a detail clears it.
ContentStaysWithItsGift ==
    \A r \in Rows : stored[r].amount = r /\ stored[r].note \in {r, Blank}

Settled == ~loading /\ busy = "none"
-----------------------------------------------------------------------------
(***************************************************************************)
(* Why contents stay with their gifts                                      *)
(***************************************************************************)

\* A call sends content of the row it acts on, and brings that of the row that
\* was open at the click.
CallOK(q) ==
    /\ q.at # "idle" => q.from \in Rows
    /\ q.at = "sent" => q.row \in Rows /\ \A f \in Fields : q.sends[f] \in {q.row, Blank}
    /\ q.at = "read" /\ q.ok => \A f \in Fields : q.seen[f] \in {q.from, Blank}

DrawerInv ==
    /\ TypeOK
    /\ ContentStaysWithItsGift
    /\ \A f \in Fields : /\ detail.columns[f] \in {detail.row, Blank}
                         /\ form[f] \in {detail.row, Blank, Garbled}
    /\ \A c \in Slots : CallOK(call[c])
=============================================================================
