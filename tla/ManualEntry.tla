---------------------------- MODULE ManualEntry ----------------------------
(***************************************************************************)
(* The manual gift entry form of the client: useManualGiftEntryController  *)
(* and the components ManualGiftEntry draws with it.  A person types a     *)
(* gift and its donor, the form looks for donors that already exist, and   *)
(* submits.                                                                *)
(*                                                                         *)
(* A handler and the continuation of an awaited call read the values of    *)
(* the rendering they were created in; what they set takes effect with the *)
(* next rendering.  An effect runs, with the values of the rendering that  *)
(* changed one of its dependencies, at the latest before the next one.     *)
(* Render is that rule: every step that sets state goes through it.        *)
(***************************************************************************)
EXTENDS Naturals, FiniteSets

CONSTANTS
    Contacts,     \* names and an email address, as typed
    Short,        \* those with a name too short to be looked up
    Details,      \* everything else on the form: amount, date, agreement ...
    Blank,        \* the details of an empty form
    Incomplete,   \* details that cannot be submitted, or have no amount
    Donors,       \* people Twenty may know
    Directory,    \* what a lookup of each contact may find: others change it
    Slots,        \* submissions of this form that can be in progress
    MaxRequests,  \* lookups, and searches, in progress
    None

VARIABLES
    form,      \* the React state, as last rendered
    due,       \* effects whose dependencies changed in that rendering
    timer,     \* the delayed lookup: what it will ask, or None
    lookups,   \* delayed lookups that were sent
    searches,  \* searches that were sent, by number
    asking,    \* the query for gifts like this one that is not cancelled
    calls      \* submissions in progress

vars == <<form, due, timer, lookups, searches, asking, calls>>

Flows == {"donor", "organisation"}

Statuses == {"idle", "submitting", "error", "success"}

FormState ==
    [contact  : Contacts \cup {None},
     flow     : Flows,
     details  : Details,
     status   : Statuses,
     matches  : SUBSET Donors,             \* duplicateMatches
     foundFor : Contacts \cup {None},      \* the contact they were found for
     show     : BOOLEAN,                   \* showDuplicates
     selected : Donors \cup {None},        \* selectedDuplicateId
     modal    : BOOLEAN,                   \* isSearchModalOpen
     results  : SUBSET Donors,             \* searchResults
     warning  : [donor : Donors, details : Details] \cup {None}]

Closure == [contact : Contacts, show : BOOLEAN, selected : Donors \cup {None}]

Gift == [pc      : {"check", "create"},
         contact : Contacts \cup {None},
         flow    : Flows,
         details : Details,
         donor   : Donors \cup {None},     \* contactId
         shown   : Donors \cup {None}]     \* the donor shown as selected

Empty == [contact  |-> None, flow |-> "donor", details |-> Blank,
          status   |-> "idle", matches |-> {}, foundFor |-> None,
          show     |-> FALSE, selected |-> None, modal |-> FALSE,
          results  |-> {}, warning |-> None]

Init ==
    /\ form = Empty
    /\ due = {}
    /\ timer = None
    /\ lookups = {}
    /\ searches = 0
    /\ asking = None
    /\ calls = [s \in Slots |-> None]

-----------------------------------------------------------------------------
(* What the rendering shows. *)

Submitting == form.status = "submitting"

\* Mistake: the fields stay enabled.
BugFieldsEnabled == TRUE

FieldsEnabled == ~Submitting

CanSubmit == \* not isSubmitDisabled
    /\ form.details \notin Incomplete
    /\ form.flow = "donor" => form.contact # None

SubmitEnabled == CanSubmit /\ ~Submitting /\ ~form.show

PanelOpen == form.show /\ form.matches # {}

\* DonorSelectionPanel, and selectedDonor: a donor of one of the two lists.
ShownDonor ==
    IF /\ form.flow = "donor"
       /\ form.selected \in form.matches \cup form.results
    THEN form.selected
    ELSE None

-----------------------------------------------------------------------------
(* Effects. *)

Dependencies(f) ==
    [flow    |-> <<f.flow>>,
     panel   |-> <<f.contact, f.show>>,
     lookup  |-> <<f.contact, f.show, f.selected, f.flow>>,
     warning |-> <<f.selected, f.details, f.flow>>]

Effects == DOMAIN Dependencies(Empty)

CanLookUp == form.contact \in Contacts \ Short

\* Mistake: the panel is left alone when the contact is edited.
BugCloses == "flow" \in due /\ form.flow = "organisation"

\* The form goes to organisations; or the panel is open, for any reason.
Closes == \/ "flow" \in due /\ form.flow = "organisation"
          \/ "panel" \in due /\ form.show

\* ... or there is nobody to look up.
Forgets == \/ Closes
           \/ /\ "lookup" \in due
              /\ \/ form.flow = "organisation"
                 \/ ~CanLookUp /\ ~form.show

Flushed(next) ==
    [next EXCEPT !.show     = ~Closes /\ @,
                 !.matches  = IF Forgets THEN {} ELSE @,
                 !.foundFor = IF Forgets THEN None ELSE @,
                 !.selected = IF Forgets THEN None ELSE @,
                 !.warning  = IF "warning" \in due THEN None ELSE @]

\* Mistake: names that cannot be looked up are not excluded.
BugRestarted == [contact |-> form.contact, show |-> form.show,
                 selected |-> form.selected]

Restarted ==
    IF form.flow = "donor" /\ CanLookUp
    THEN [contact |-> form.contact, show |-> form.show,
          selected |-> form.selected]
    ELSE None

Asked ==
    IF /\ form.flow = "donor"
       /\ form.selected # None
       /\ form.details \notin Incomplete
    THEN [donor |-> form.selected, details |-> form.details]
    ELSE None

\* Mistake: a query is forgotten only when the next one starts.
BugQuery(query) == IF "warning" \in due /\ Asked # None THEN Asked ELSE query

\* The clean-up of the effect cancels the query of the last one.
Query(query) == IF "warning" \in due THEN Asked ELSE query

\* The state set by a step is next; the query still awaited is query.
RenderWith(next, query) ==
    /\ form' = Flushed(next)
    /\ due' = {e \in Effects : Dependencies(form')[e] # Dependencies(form)[e]}
    /\ timer' = IF "lookup" \in due THEN Restarted ELSE timer
    /\ asking' = Query(query)

Render(next) == RenderWith(next, asking)

RunEffects ==
    /\ due # {}
    /\ Render(form)
    /\ UNCHANGED <<lookups, searches, calls>>

-----------------------------------------------------------------------------
(* What the person does.  A form that is being submitted is disabled. *)

Type(fields) ==
    /\ FieldsEnabled
    /\ Render(fields)
    /\ UNCHANGED <<lookups, searches, calls>>

EditContact == /\ form.flow = "donor"
               /\ \E c \in (Contacts \cup {None}) \ {form.contact} :
                      Type([form EXCEPT !.contact = c])

EditFlow == \E f \in Flows \ {form.flow} : Type([form EXCEPT !.flow = f])

EditDetails == \E d \in Details \ {form.details} : Type([form EXCEPT !.details = d])

SelectDonor ==
    /\ form.show \/ form.flow = "donor"
    /\ \E d \in form.matches :
           Type([form EXCEPT !.selected = d, !.show = FALSE])

ClearSelectedDonor ==
    /\ ShownDonor # None
    /\ Type([form EXCEPT !.selected = None])

\* With "Change donor" the selection goes as well.
OpenSearchModal ==
    /\ PanelOpen \/ form.flow = "donor"
    /\ \E change \in {FALSE, ShownDonor # None} :
           Type([form EXCEPT !.modal = TRUE, !.results = {},
                             !.selected = IF change THEN None ELSE @])

\* The dialog is not part of the disabled form.
CloseSearchModal ==
    /\ form.modal
    /\ Render([form EXCEPT !.modal = FALSE])
    /\ UNCHANGED <<lookups, searches, calls>>

SubmitSearch ==
    /\ form.modal
    /\ searches < MaxRequests
    /\ searches' = searches + 1
    /\ UNCHANGED <<form, due, timer, lookups, asking, calls>>

SelectFromModal ==
    /\ form.modal
    /\ \E d \in form.results :
           Render([form EXCEPT !.selected = d, !.show = FALSE, !.modal = FALSE])
    /\ UNCHANGED <<lookups, searches, calls>>

\* Slots are alike: any that is free will do.
Send(pc, donor, shown) ==
    LET free == {s \in Slots : calls[s] = None}
        gift == [pc |-> pc, contact |-> form.contact, flow |-> form.flow,
                 details |-> form.details, donor |-> donor, shown |-> shown]
    IN /\ free # {}
       /\ calls' = [calls EXCEPT ![CHOOSE s \in free : TRUE] = gift]
       /\ Render([form EXCEPT !.status = "submitting"])
       /\ UNCHANGED <<lookups, searches>>

\* The button, or the Enter key: both are dead while the button is disabled.
Submit ==
    /\ SubmitEnabled
    /\ Send(IF form.flow = "organisation" THEN "create" ELSE "check",
            None, ShownDonor)

\* The buttons of the panel do not ask whether the form is complete.
FromPanel(donor, shown) ==
    /\ PanelOpen /\ ~Submitting
    /\ IF form.details \in Incomplete
       THEN /\ Render([form EXCEPT !.status = "error"])
            /\ UNCHANGED <<lookups, searches, calls>>
       ELSE Send("create", donor, shown)

UseExistingContact ==
    form.selected # None /\ FromPanel(form.selected, form.selected)

CreateWithNewContact == FromPanel(None, None)

\* The drawer is closed, whatever is going on, and opened again.
Reopen ==
    /\ form' = Empty
    /\ due' = {}
    /\ timer' = None
    /\ lookups' = {}
    /\ searches' = 0
    /\ asking' = None
    /\ calls' = [s \in Slots |-> None]

-----------------------------------------------------------------------------
(* What the network does. *)

TimerFires ==
    /\ timer # None
    /\ Cardinality(lookups) < MaxRequests
    /\ lookups' = lookups \cup {timer}
    /\ timer' = None
    /\ UNCHANGED <<form, due, searches, asking, calls>>

\* Nothing cancels a lookup that was sent.
LookupAnswers ==
    \E l \in lookups : \E found \in Directory[l.contact] :
        /\ lookups' = lookups \ {l}
        /\ ~l.show
        /\ Render([form EXCEPT !.matches = found, !.foundFor = l.contact,
                               !.selected = IF l.selected \in found THEN @
                                            ELSE None])
        /\ UNCHANGED <<searches, calls>>

\* It fails, or was sent while the panel was open.
LookupIsLost ==
    /\ \E l \in lookups : lookups' = lookups \ {l}
    /\ Render(form)
    /\ UNCHANGED <<searches, calls>>

SearchAnswers ==
    /\ searches > 0
    /\ searches' = searches - 1
    /\ \E found \in SUBSET Donors : Render([form EXCEPT !.results = found])
    /\ UNCHANGED <<lookups, calls>>

QueryAnswers ==
    /\ asking # None
    /\ \/ \E w \in {asking, None} :
              RenderWith([form EXCEPT !.warning = w], None)
       \/ /\ asking' = None
          /\ UNCHANGED <<form, due, timer>>
    /\ UNCHANGED <<lookups, searches, calls>>

\* Mistake: the form stays as it is while the person chooses.
BugSuggested(found, c) ==
    [form EXCEPT !.matches = found, !.foundFor = c, !.show = TRUE]

Suggested(found, c) ==
    [form EXCEPT !.matches = found, !.foundFor = c, !.show = TRUE,
                 !.status = "idle"]

\* findPersonDuplicates, before the gift is created.
CheckAnswers(s) ==
    /\ calls[s] # None
    /\ calls[s].pc = "check"
    /\ \/ /\ calls' = [calls EXCEPT ![s].pc = "create"]
          /\ UNCHANGED <<form, due, timer, asking>>
       \/ /\ calls' = [calls EXCEPT ![s] = None]
          /\ \E found \in Directory[calls[s].contact] \ {{}} :
                 Render(Suggested(found, calls[s].contact))
       \/ /\ calls' = [calls EXCEPT ![s] = None]
          /\ Render([form EXCEPT !.status = "error"])
    /\ UNCHANGED <<lookups, searches>>

\* handleSuccess, or an error: an answer without a gift is one too.
CreateAnswers(s) ==
    /\ calls[s] # None
    /\ calls[s].pc = "create"
    /\ calls' = [calls EXCEPT ![s] = None]
    /\ \/ Render([Empty EXCEPT !.flow = form.flow,
                               !.status = "success",
                               !.results = form.results])
       \/ Render([form EXCEPT !.status = "error"])
    /\ UNCHANGED <<lookups, searches>>

Answers(s) == CheckAnswers(s) \/ CreateAnswers(s)

Next ==
    \/ RunEffects
    \/ EditContact \/ EditFlow \/ EditDetails
    \/ SelectDonor \/ ClearSelectedDonor
    \/ OpenSearchModal \/ CloseSearchModal \/ SubmitSearch \/ SelectFromModal
    \/ Submit \/ UseExistingContact \/ CreateWithNewContact \/ Reopen
    \/ TimerFires \/ LookupAnswers \/ LookupIsLost
    \/ SearchAnswers \/ QueryAnswers
    \/ \E s \in Slots : Answers(s)

Spec == Init /\ [][Next]_vars

\* Every request of a browser is answered or fails in the end, and React runs
\* the effects that are due.
FairSpec == /\ Spec
            /\ WF_vars(RunEffects)
            /\ \A s \in Slots : WF_vars(Answers(s))

-----------------------------------------------------------------------------
TypeOK ==
    /\ form \in FormState
    /\ due \subseteq Effects
    /\ timer \in Closure \cup {None}
    /\ lookups \subseteq Closure
    /\ searches \in 0..MaxRequests
    /\ asking \in [donor : Donors, details : Details] \cup {None}
    /\ calls \in [Slots -> Gift \cup {None}]

Sending == {s \in Slots : calls[s] # None}

\* The form says that it is being submitted while it is, and only then; one
\* submission at a time; and what is being sent is still what the form shows:
\* clearing the form when the answer comes loses nothing that was typed meanwhile.
SubmittedIsShown ==
    /\ Submitting <=> Sending # {}
    /\ \A s, t \in Sending : s = t
    /\ \A s \in Sending : /\ calls[s].contact = form.contact
                          /\ calls[s].flow = form.flow
                          /\ calls[s].details = form.details

\* The panel shows donors "that match the details you entered", however late
\* the answers of the delayed lookups come.
PanelIsCurrent == PanelOpen => form.foundFor = form.contact

\* Once the effects have run, a warning that a gift like this one is waiting
\* is about the donor and the details on the form.
WarningIsCurrent ==
    form.warning # None /\ due = {} =>
        /\ form.flow = "donor"
        /\ form.warning = [donor |-> form.selected, details |-> form.details]

\* The form says that without a selected donor a new one is created: with one,
\* the gift is for that donor.
ShownDonorGetsTheGift ==
    \A s \in Sending :
        calls[s].pc = "create" /\ calls[s].shown # None =>
            calls[s].donor = calls[s].shown
-----------------------------------------------------------------------------
(***************************************************************************)
(* Why the hints are current                                               *)
(***************************************************************************)

\* The panel is closed by the effect of its opening.
PanelIsClosing == form.show => "panel" \in due

IsOfForm(w) == form.flow = "donor" /\ w = [donor |-> form.selected, details |-> form.details]

\* Unless the form has just changed, what is asked for and what is warned of are
\* about the form.
WarningsFollow ==
    "warning" \notin due => /\ form.warning # None => IsOfForm(form.warning)
                            /\ asking # None => IsOfForm(asking)

\* A contact is checked only if there is one.
ChecksAContact ==
    \A s \in Sending : calls[s].pc = "check" => calls[s].contact # None

EntryInv ==
    /\ TypeOK
    /\ ChecksAContact
    /\ SubmittedIsShown
    /\ PanelIsCurrent
    /\ PanelIsClosing
    /\ WarningsFollow
=============================================================================
