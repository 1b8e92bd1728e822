------------------------------ MODULE Appeals -------------------------------
(***************************************************************************)
(* The appeals page, AppealsView with two AppealForms, and what the        *)
(* service does for it (AppealService).  Three forms can be at work at     *)
(* once: a new appeal, changes of the selected one, and a solicitation     *)
(* count for it; the list can be clicked whatever they do.                 *)
(*                                                                         *)
(* The content of a form is the appeal it was written for.  The effects    *)
(* that fill the edit form and load the snapshots run before the next      *)
(* click, with the step that changed the appeal.                           *)
(***************************************************************************)
EXTENDS Naturals

CONSTANTS
    Appealed,    \* appeals there are or may come to be
    Launched,    \* those there are to begin with
    Slots,       \* requests in progress
    MaxClicks,   \* bound: what the person does
    None

VARIABLES
    held,        \* the content of each appeal, in Twenty; None before there is one
    appeals,     \* the list
    chosen,      \* selectedAppealId
    reading,     \* appealsLoading
    unread,      \* appealsError
    creating,    \* the create form: open, a name was typed, createStatus
    editing,     \* the edit form: open, its content, editStatus
    counting,    \* the snapshot form: a count was typed, snapshotStatus
    sends,       \* the snapshots loaded last: whose, or None; snapshotLoading
    call,
    clicks

list == <<appeals, chosen, reading, unread>>
forms == <<creating, editing, counting>>
vars == <<held, list, forms, sends, call, clicks>>

Ids == Appealed \cup {None}

Saves == {"create", "edit", "count"}

\* A save is sent, and then reads; "list" and "snapshots" read only.
CallState ==
    [kind : {"none", "list", "snapshots"} \cup Saves,
     at   : {"idle", "sent", "reading"},
     id   : Ids,      \* the appeal the request is about
     sent : Ids]      \* the content it gets

Idle == [kind |-> "none", at |-> "idle", id |-> None, sent |-> None]

TypeOK ==
    /\ held \in [Appealed -> Ids]
    /\ appeals \subseteq Appealed
    /\ chosen \in Ids
    /\ {reading, unread} \subseteq BOOLEAN
    /\ creating \in [open : BOOLEAN, typed : BOOLEAN, saving : BOOLEAN]
    /\ editing \in [open : BOOLEAN, content : Ids, saving : BOOLEAN]
    /\ counting \in [typed : BOOLEAN, saving : BOOLEAN]
    /\ sends \in [of : Ids, loading : BOOLEAN]
    /\ call \in [Slots -> CallState]
    /\ clicks \in 0..MaxClicks

Save(kind, id, content) == [kind |-> kind, at |-> "sent", id |-> id, sent |-> content]

Read(kind, id) == [kind |-> kind, at |-> "reading", id |-> id, sent |-> None]

Init ==
    /\ held = [a \in Appealed |-> IF a \in Launched THEN a ELSE None]
    /\ appeals = {} /\ chosen = None /\ reading = TRUE /\ unread = FALSE
    /\ creating = [open |-> FALSE, typed |-> FALSE, saving |-> FALSE]
    /\ editing = [open |-> FALSE, content |-> None, saving |-> FALSE]
    /\ counting = [typed |-> FALSE, saving |-> FALSE]
    /\ sends = [of |-> None, loading |-> FALSE]
    /\ LET first == CHOOSE c \in Slots : TRUE
       IN call = [c \in Slots |-> IF c = first THEN Read("list", None) ELSE Idle]
    /\ clicks = 0

Click ==
    /\ clicks < MaxClicks
    /\ clicks' = clicks + 1

\* Slots are alike: any that is free will do.
Start(request) ==
    LET free == {c \in Slots : call[c] = Idle}
    IN free # {} /\ call' = [call EXCEPT ![CHOOSE c \in free : TRUE] = request]

\* The table and the panel of the selected appeal.
TableShown == ~reading /\ ~unread /\ appeals # {}

PanelShown == TableShown /\ chosen \in appeals

EditShown == editing.open /\ chosen \in appeals

-----------------------------------------------------------------------------
(* What the person does. *)

\* Mistake: the edit form is filled when it is opened, and only then.
BugFilled(rows, id) == editing

\* mapAppealToForm, by an effect: another appeal is selected, or it is read anew.
Filled(rows, id) ==
    IF editing.open /\ id \in rows THEN [editing EXCEPT !.content = id] ELSE editing

Select(a) ==
    /\ TableShown /\ a \in appeals /\ a # chosen
    /\ Click
    /\ chosen' = a
    /\ editing' = Filled(appeals, a)
    /\ sends' = [sends EXCEPT !.loading = TRUE]
    /\ Start(Read("snapshots", a))
    /\ UNCHANGED <<held, appeals, reading, unread, creating, counting>>

\* Forms are opened, cancelled and typed into, whether they are being saved or not.
Fill(create, edit, count) ==
    /\ creating' = create /\ editing' = edit /\ counting' = count
    /\ UNCHANGED <<held, list, sends, call>>

OpenCreate ==
    Click /\ Fill([creating EXCEPT !.open = TRUE], editing, counting)

OpenEdit ==
    /\ PanelShown
    /\ Click
    /\ Fill(creating, [editing EXCEPT !.open = TRUE, !.content = chosen], counting)

\* Mistake: the form is as new, and can be submitted again.
BugCancelCreate ==
    /\ creating.open
    /\ Click
    /\ Fill([open |-> FALSE, typed |-> FALSE, saving |-> FALSE], editing, counting)

CancelCreate ==
    /\ creating.open
    /\ Click
    /\ Fill([creating EXCEPT !.open = FALSE, !.typed = FALSE], editing, counting)

CancelEdit ==
    /\ EditShown
    /\ Click
    /\ Fill(creating, [editing EXCEPT !.open = FALSE, !.content = chosen], counting)

\* What is typed is meant for the appeal on the screen; a name may be emptied.
Type ==
    /\ \/ creating.open /\ Fill([creating EXCEPT !.typed = ~@], editing, counting)
       \/ /\ EditShown
          /\ \E name \in {chosen, None} :
                 Fill(creating, [editing EXCEPT !.content = name], counting)
       \/ PanelShown /\ Fill(creating, editing, [counting EXCEPT !.typed = ~@])
    /\ UNCHANGED clicks

\* buildAppealPayloadFromForm refuses a form without a name.
SubmitCreate ==
    /\ creating.open /\ ~creating.saving /\ creating.typed
    /\ Click
    /\ creating' = [creating EXCEPT !.saving = TRUE]
    /\ Start(Save("create", None, None))
    /\ UNCHANGED <<held, list, editing, counting, sends>>

SubmitEdit ==
    /\ EditShown /\ ~editing.saving /\ editing.content # None
    /\ Click
    /\ editing' = [editing EXCEPT !.saving = TRUE]
    /\ Start(Save("edit", chosen, editing.content))
    /\ UNCHANGED <<held, list, creating, counting, sends>>

\* A count that is no positive integer ends the handler with an error.
SubmitCount ==
    /\ PanelShown /\ counting.typed /\ ~counting.saving
    /\ Click
    /\ counting' = [counting EXCEPT !.saving = TRUE]
    /\ Start(Save("count", chosen, None))
    /\ UNCHANGED <<held, list, creating, editing, sends>>

-----------------------------------------------------------------------------
(* The service, and the answers. *)

\* AppealService sends what it has validated to Twenty.  A new appeal gets an
\* id of its own.  The form stays as it is on an error.
Carried(q) ==
    CASE q.kind = "create" -> {[held EXCEPT ![a] = a] : a \in {b \in Appealed : held[b] = None}}
      [] q.kind = "edit" -> {[held EXCEPT ![q.id] = q.sent]}
      [] OTHER -> {held}

Saving(kind, status) ==
    /\ creating' = [creating EXCEPT !.saving = IF kind = "create" THEN status ELSE @]
    /\ editing' = [editing EXCEPT !.saving = IF kind = "edit" THEN status ELSE @]
    /\ counting' = [counting EXCEPT !.saving = IF kind = "count" THEN status ELSE @]

\* The save was refused, was lost, or its answer was.
Refused(c) ==
    /\ call[c].at = "sent"
    /\ held' \in {held} \cup Carried(call[c])
    /\ Saving(call[c].kind, FALSE)
    /\ call' = [call EXCEPT ![c] = Idle]
    /\ UNCHANGED <<list, sends, clicks>>

\* The form is emptied or closed, whatever it holds by now, and what it changed
\* is read: refreshAppeals, or loadSnapshots for the appeal of the click.
Saved(c) ==
    /\ call[c].at = "sent"
    /\ held' \in Carried(call[c])
    /\ call' = [call EXCEPT ![c].at = "reading"]
    /\ IF call[c].kind = "count"
       THEN /\ counting' = [counting EXCEPT !.typed = FALSE]
            /\ sends' = [sends EXCEPT !.loading = TRUE]
            /\ UNCHANGED <<list, creating, editing>>
       ELSE /\ creating' = IF call[c].kind = "create"
                           THEN [creating EXCEPT !.open = FALSE, !.typed = FALSE] ELSE creating
            /\ editing' = IF call[c].kind = "edit"
                          THEN [editing EXCEPT !.open = FALSE] ELSE editing
            /\ reading' = TRUE /\ unread' = FALSE
            /\ UNCHANGED <<appeals, chosen, counting, sends>>
    /\ UNCHANGED clicks

\* Appeals that the list may lack: it ends at 100, and they are removed in Twenty.
Answers == SUBSET {a \in Appealed : held[a] # None}

\* The first of the list is selected unless one was; none, if the list is empty.
Chosen(found) ==
    IF found = {} THEN {None} ELSE IF chosen = None THEN found ELSE {chosen}

\* An error is not thrown: the save was a success.
AppealsRead(c) ==
    /\ call[c].at = "reading" /\ call[c].kind \notin {"snapshots", "count"}
    /\ reading' = FALSE
    /\ \/ /\ unread' = TRUE
          /\ Saving(call[c].kind, FALSE)
          /\ call' = [call EXCEPT ![c] = Idle]
          /\ UNCHANGED <<appeals, chosen, sends>>
       \/ \E found \in Answers : \E first \in Chosen(found) :
            /\ appeals' = found /\ chosen' = first
            /\ creating' = [creating EXCEPT !.saving = call[c].kind # "create" /\ @]
            /\ editing' = [Filled(found, first) EXCEPT !.saving = call[c].kind # "edit" /\ @]
            /\ IF first \in {chosen, None}
               THEN /\ sends' = [sends EXCEPT !.of = IF first = None THEN None ELSE @]
                    /\ call' = [call EXCEPT ![c] = Idle]
               ELSE /\ sends' = [sends EXCEPT !.loading = TRUE]
                    /\ call' = [call EXCEPT ![c] = Read("snapshots", first)]
            /\ UNCHANGED <<unread, counting>>
    /\ UNCHANGED <<held, clicks>>

\* The snapshots of an appeal that may not be selected any more.
SnapshotsRead(c) ==
    /\ call[c].at = "reading" /\ call[c].kind \in {"snapshots", "count"}
    /\ sends' \in [of : {call[c].id, None}, loading : {FALSE}]
    /\ Saving(call[c].kind, FALSE)
    /\ call' = [call EXCEPT ![c] = Idle]
    /\ UNCHANGED <<held, list, clicks>>

Answer(c) == Refused(c) \/ Saved(c) \/ AppealsRead(c) \/ SnapshotsRead(c)

Next ==
    \/ \E a \in Appealed : Select(a)
    \/ OpenCreate \/ OpenEdit \/ CancelCreate \/ CancelEdit \/ Type
    \/ SubmitCreate \/ SubmitEdit \/ SubmitCount
    \/ \E c \in Slots : Answer(c)

Spec == Init /\ [][Next]_vars

\* fetch ends with an answer or an error, and the continuation then runs.
FairSpec == Spec /\ \A c \in Slots : WF_vars(Answer(c))
-----------------------------------------------------------------------------
(***************************************************************************)
(* Properties                                                              *)
(***************************************************************************)

\* What the edit form holds of one appeal is never saved to another, though
\* another can be selected, or the list read anew, while the form is open.  (A
\* solicitation count stays in its form when another appeal is selected, and is
\* logged for that one: whose count was typed is not kept here.)
ContentStaysWithItsAppeal == \A a \in Appealed : held[a] \in {a, None}

SavesOf(kind) == {c \in Slots : call[c].kind = kind}

\* A form is not submitted again while it is being saved, whatever is cancelled,
\* opened and typed meanwhile; and no save leaves its form disabled.
FormsSaveOnce ==
    \A form \in {<<"create", creating.saving>>, <<"edit", editing.saving>>,
                 <<"count", counting.saving>>} :
        /\ form[2] <=> SavesOf(form[1]) # {}
        /\ \A c, d \in SavesOf(form[1]) : c = d

Settled ==
    /\ ~reading /\ ~sends.loading
    /\ ~creating.saving /\ ~editing.saving /\ ~counting.saving
-----------------------------------------------------------------------------
(***************************************************************************)
(* Why contents stay with their appeals                                    *)
(***************************************************************************)

\* An open edit form is that of the appeal on the screen, and sends it there.
EditIsOfChosen == EditShown => editing.content \in {chosen, None}

EditsTheirOwn(q) ==
    q.kind = "edit" /\ q.at = "sent" => q.id \in Appealed /\ q.sent = q.id

AppealsInv ==
    /\ TypeOK
    /\ ContentStaysWithItsAppeal
    /\ FormsSaveOnce
    /\ EditIsOfChosen
    /\ \A c \in Slots : EditsTheirOwn(call[c])
=============================================================================
