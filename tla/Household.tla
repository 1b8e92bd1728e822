------------------------------ MODULE Household ------------------------------
(***************************************************************************)
(* The page of households: HouseholdManager, and HouseholdService behind   *)
(* it.  A household is created with the people queued for it, by one       *)
(* request for the household and one for each person; people are added to  *)
(* the household that is shown, and taken out of it.                       *)
(*                                                                         *)
(* Addresses, names and salutations are left out: this is about who        *)
(* belongs where.  (The code saves those on display to the household that  *)
(* is selected, which may still be loading; Update has the request only.)  *)
(* What is loaded is read when its answer arrives.                         *)
(***************************************************************************)
EXTENDS Naturals

CONSTANTS
    People,
    Households,
    Known,        \* households there are to begin with
    Slots,        \* requests of the page in progress
    MaxClicks,    \* bound: clicks of the person
    None

VARIABLES
    existing,  \* the households in Twenty
    homeOf,    \* householdId of the people
    primaryOf, \* primaryContactId of the households
    current,   \* selectedHouseholdId
    shown,     \* selectedHousehold
    members,   \* those listed for it
    queued,    \* pendingMembers
    primary,   \* primaryPendingId
    status,    \* createStatus
    busy,      \* the other flags that are set
    last,      \* of the household created last: whom it still lacks
    call,      \* requests in progress
    clicks

twenty == <<existing, homeOf, primaryOf>>
panel == <<current, shown, members>>
form == <<queued, primary, status>>
vars == <<twenty, panel, form, busy, last, call, clicks>>

Somebody == People \cup {None}

CallState ==
    [kind      : {"none", "load", "create", "update", "add", "remove", "copy", "queue"},
     at        : {"idle", "sent", "patch", "primary", "replied"},
     ok        : BOOLEAN,
     household : Households \cup {None},
     person    : Somebody,          \* the one the request is about just now
     primary   : Somebody,          \* who is to become primary contact
     todo      : SUBSET People]     \* queued members not yet added

Idle == [kind |-> "none", at |-> "idle", ok |-> FALSE, household |-> None,
         person |-> None, primary |-> None, todo |-> {}]

TypeOK ==
    /\ existing \subseteq Households
    /\ homeOf \in [People -> Households \cup {None}]
    /\ primaryOf \in [Households -> Somebody]
    /\ current \in Households \cup {None}
    /\ shown \in Households \cup {None}
    /\ members \subseteq People
    /\ queued \subseteq People
    /\ primary \in Somebody
    /\ status \in {"idle", "saving", "error", "success"}
    /\ busy \subseteq {"loading", "updating", "adding"}
    /\ last \in [household : Households \cup {None}, left : SUBSET People]
    /\ call \in [Slots -> CallState]
    /\ clicks \in 0..MaxClicks

Init ==
    /\ existing = Known
    /\ homeOf = [p \in People |-> None]
    /\ primaryOf = [h \in Households |-> None]
    /\ current = None /\ shown = None /\ members = {}
    /\ queued = {} /\ primary = None
    /\ status = "idle"
    /\ busy = {}
    /\ last = [household |-> None, left |-> {}]
    /\ call = [c \in Slots |-> Idle]
    /\ clicks = 0
-----------------------------------------------------------------------------
(* The person at the page. *)

\* Slots are alike: any that is free will do.
Start(request) ==
    /\ clicks < MaxClicks
    /\ clicks' = clicks + 1
    /\ LET free == {c \in Slots : call[c] = Idle}
       IN free # {} /\ call' = [call EXCEPT ![CHOOSE c \in free : TRUE] = request]

\* loadHouseholdDetails: the household is selected, what is shown stays until
\* the answer.  An update in progress is forgotten.
Select(h) ==
    /\ current' = h
    /\ busy' = (busy \ {"updating"}) \cup {"loading"}
    /\ UNCHANGED <<shown, members>>

\* A household of the search results, or one found for a queued member.
Open(h) ==
    /\ h \in existing
    /\ Select(h)
    /\ Start([Idle EXCEPT !.kind = "load", !.at = "sent", !.household = h])
    /\ UNCHANGED <<twenty, form, last>>

\* The button "Reset" of the search.  What is being loaded is shown all the same.
ResetSearch ==
    /\ current' = None /\ shown' = None /\ members' = {}
    /\ UNCHANGED <<twenty, form, busy, last, call, clicks>>

\* The requests of the panel are about the selected household, whichever is shown.
Panel(kind, at, p, makePrimary) ==
    /\ shown # None /\ current # None
    /\ Start([Idle EXCEPT !.kind = kind, !.at = at, !.household = current, !.person = p,
                          !.primary = IF makePrimary THEN p ELSE None])
    /\ UNCHANGED <<twenty, panel, form, last>>

Update ==
    /\ "updating" \notin busy
    /\ busy' = busy \cup {"updating"}
    /\ Panel("update", "sent", None, FALSE)

AddMember(p) ==
    /\ "adding" \notin busy
    /\ busy' = busy \cup {"adding"}
    /\ \E makePrimary \in BOOLEAN : Panel("add", "patch", p, makePrimary)

RemoveMember(p) == p \in members /\ Panel("remove", "patch", p, FALSE) /\ UNCHANGED busy

CopyAddress(p) == p \in members /\ Panel("copy", "patch", p, FALSE) /\ UNCHANGED busy

\* handleQueueMember.  "primary" tells whether there was no primary at the click.
QueueMember(p) ==
    /\ p \notin queued
    /\ Start([Idle EXCEPT !.kind = "queue", !.at = "sent", !.person = p,
                          !.primary = IF primary = None THEN p ELSE None])
    /\ UNCHANGED <<twenty, panel, form, busy, last>>

RemovePending(p) ==
    /\ p \in queued
    /\ queued' = queued \ {p}
    /\ \/ primary # p /\ UNCHANGED primary
       \/ primary = p /\ primary' \in queued \ {p}
       \/ primary = p /\ queued = {p} /\ primary' = None
    /\ UNCHANGED <<twenty, panel, status, busy, last, call, clicks>>

ChoosePrimary(p) ==
    /\ p \in queued
    /\ primary' = p
    /\ UNCHANGED <<twenty, panel, queued, status, busy, last, call, clicks>>

\* handleCreateHousehold.  Nobody queued, or no name, is an error.  The button is
\* disabled while the household is created, not while its members are added.
Create ==
    /\ status # "saving"
    /\ \/ status' = "error" /\ UNCHANGED <<call, clicks>>
       \/ /\ queued # {}
          /\ status' = "saving"
          /\ Start([Idle EXCEPT !.kind = "create", !.at = "sent", !.primary = primary,
                                !.todo = queued])
    /\ UNCHANGED <<twenty, panel, queued, primary, busy, last>>
-----------------------------------------------------------------------------
(* HouseholdService. *)

\* One call of Twenty: whether it is carried out, and what the answer says.
Outcomes == {o \in [carried : BOOLEAN, ok : BOOLEAN] : o.ok => o.carried}

\* An answer of Twenty without the record asked for is an error as well.
Replied(q, ok) == [q EXCEPT !.at = "replied", !.ok = ok]

\* New households are alike: any of them will do.
PostHousehold(c) ==
    LET q == call[c]
        h == CHOOSE new \in Households : new \notin existing
    IN /\ q.kind = "create" /\ q.at = "sent"
       /\ \/ /\ call' = [call EXCEPT ![c] = Replied(q, FALSE)]
             /\ UNCHANGED <<existing, primaryOf>>
          \/ /\ existing # Households
             /\ existing' = existing \cup {h}
             /\ primaryOf' = [primaryOf EXCEPT ![h] = q.primary]
             /\ \E ok \in BOOLEAN :
                    call' = [call EXCEPT ![c] = Replied([q EXCEPT !.household = h], ok)]
       /\ UNCHANGED <<homeOf, panel, form, busy, last, clicks>>

\* PATCH of the household, or GET of a person: nothing modelled changes.
OtherCalls(c) ==
    /\ call[c].kind \in {"update", "queue"} /\ call[c].at = "sent"
    /\ \E ok \in BOOLEAN : call' = [call EXCEPT ![c] = Replied(@, ok)]
    /\ UNCHANGED <<twenty, panel, form, busy, last, clicks>>

\* addMember, removeMember and copyAddressToContact: the person is moved, whatever
\* household they are in by then; then made primary contact, if that is asked for;
\* then read, which may fail.
PatchPerson(c) ==
    LET q == call[c]
    IN /\ q.at = "patch"
       /\ \E o \in Outcomes, read \in BOOLEAN :
            /\ homeOf' = IF ~o.carried THEN homeOf
                         ELSE [homeOf EXCEPT ![q.person] = IF q.kind = "remove" THEN None
                                                           ELSE q.household]
            /\ last' = IF o.carried /\ q.kind = "create" /\ q.household = last.household
                       THEN [last EXCEPT !.left = @ \ {q.person}] ELSE last
            /\ call' = [call EXCEPT ![c] = IF o.ok /\ q.primary = q.person
                                           THEN [q EXCEPT !.at = "primary"]
                                           ELSE Replied(q, o.ok /\ read)]
       /\ UNCHANGED <<existing, primaryOf, panel, form, busy, clicks>>

PatchPrimary(c) ==
    LET q == call[c]
    IN /\ q.at = "primary"
       /\ \E o \in Outcomes, read \in BOOLEAN :
            /\ primaryOf' = IF o.carried THEN [primaryOf EXCEPT ![q.household] = q.person]
                            ELSE primaryOf
            /\ call' = [call EXCEPT ![c] = Replied(q, o.ok /\ read)]
       /\ UNCHANGED <<existing, homeOf, panel, form, busy, last, clicks>>
-----------------------------------------------------------------------------
(* The continuations in the browser. *)

Ended(c) == call' = [call EXCEPT ![c] = Idle]

Answered(c, kind) == call[c].kind = kind /\ call[c].at = "replied"

\* The answer is shown, whichever household is selected by now.
Loaded(c) ==
    /\ call[c].kind = "load"
    /\ \/ shown' = call[c].household /\ members' = {p \in People : homeOf[p] = shown'}
       \/ shown' = None /\ members' = {}
    /\ busy' = busy \ {"loading"}
    /\ Ended(c)
    /\ UNCHANGED <<twenty, current, form, last, clicks>>

BugCleared == UNCHANGED primary

\* Success is told, and the form is emptied, before the members are added.
Cleared == primary' = None

\* The next of the members; after the last of them the household is opened.
Proceeds(c, q) ==
    IF q.todo = {}
    THEN /\ Select(q.household)
         /\ call' = [call EXCEPT ![c] = [Idle EXCEPT !.kind = "load", !.at = "sent",
                                                     !.household = q.household]]
    ELSE /\ \E p \in q.todo :
              call' = [call EXCEPT ![c] = [q EXCEPT !.at = "patch", !.person = p]]
         /\ UNCHANGED <<panel, busy>>

Created(c) ==
    LET q == call[c]
    IN /\ Answered(c, "create") /\ q.ok /\ q.person = None
       /\ status' = "success"
       /\ queued' = {}
       /\ Cleared
       /\ last' = [household |-> q.household, left |-> q.todo]
       /\ Proceeds(c, q)
       /\ UNCHANGED <<twenty, clicks>>

MemberAdded(c) ==
    LET q == call[c]
    IN /\ Answered(c, "create") /\ q.ok /\ q.person # None
       /\ Proceeds(c, [q EXCEPT !.todo = @ \ {q.person}])
       /\ UNCHANGED <<twenty, form, last, clicks>>

BugCreateFailed(c) ==
    LET q == call[c]
    IN /\ Answered(c, "create") /\ ~q.ok
       /\ status' = IF q.person = None THEN "error" ELSE status
       /\ Ended(c)
       /\ UNCHANGED <<twenty, panel, queued, primary, busy, last, clicks>>

\* An error at any request ends the loop.  Nothing is taken back.
CreateFailed(c) ==
    /\ Answered(c, "create") /\ ~call[c].ok
    /\ status' = "error"
    /\ Ended(c)
    /\ UNCHANGED <<twenty, panel, queued, primary, busy, last, clicks>>

\* Update, add, remove and copy.  The answer is put in what is shown by now.
PanelAnswered(c) ==
    LET q == call[c]
    IN /\ q.at = "replied" /\ q.kind \in {"update", "add", "remove", "copy"}
       /\ shown' = IF q.ok /\ q.kind = "update" THEN q.household ELSE shown
       /\ members' = CASE q.ok /\ q.kind = "add" -> members \cup {q.person}
                       [] q.ok /\ q.kind = "remove" -> members \ {q.person}
                       [] OTHER -> members
       /\ busy' = busy \ (CASE q.kind = "update" -> {"updating"}
                            [] q.kind = "add" -> {"adding"}
                            [] OTHER -> {})
       /\ Ended(c)
       /\ UNCHANGED <<twenty, current, form, last, clicks>>

\* The person is queued; if there was no primary at the click, they become it.
MemberQueued(c) ==
    LET q == call[c]
    IN /\ Answered(c, "queue")
       /\ queued' = IF q.ok THEN queued \cup {q.person} ELSE queued
       /\ primary' = IF q.ok /\ q.primary # None THEN q.primary ELSE primary
       /\ Ended(c)
       /\ UNCHANGED <<twenty, panel, status, busy, last, clicks>>

Answer(c) ==
    \/ PostHousehold(c) \/ OtherCalls(c) \/ PatchPerson(c) \/ PatchPrimary(c)
    \/ Loaded(c) \/ Created(c) \/ MemberAdded(c) \/ CreateFailed(c)
    \/ PanelAnswered(c) \/ MemberQueued(c)

Person ==
    \/ \E h \in Households : Open(h)
    \/ ResetSearch \/ Update \/ Create
    \/ \E p \in People :
         \/ AddMember(p) \/ RemoveMember(p) \/ CopyAddress(p)
         \/ QueueMember(p) \/ RemovePending(p) \/ ChoosePrimary(p)

Next == Person \/ \E c \in Slots : Answer(c)

Spec == Init /\ [][Next]_vars

\* fetch ends with an answer or an error, and the continuation then runs.
FairSpec == Spec /\ \A c \in Slots : WF_vars(Answer(c))
-----------------------------------------------------------------------------
\* "Household created", once nothing is being created any more, is true of the
\* household that was created last: everybody queued for it was put into it,
\* though success is told before the first of them is, and each may fail.
SuccessIsComplete ==
    status = "success" /\ (\A c \in Slots : call[c].kind # "create") => last.left = {}

\* The primary contact is one of the people queued, though people are fetched
\* before they are queued, and the queue is emptied meanwhile.
PrimaryIsQueued == primary # None => primary \in queued

Settled == busy = {} /\ status # "saving"
-----------------------------------------------------------------------------
(***************************************************************************)
(* Why these hold                                                          *)
(***************************************************************************)

\* q adds to the household l was made for everybody it still lacks.
Completes(q, l) ==
    /\ q.kind = "create" /\ q.at \in {"patch", "primary", "replied"}
    /\ q.household = l.household /\ q.person # None
    /\ l.left \subseteq q.todo
    /\ q.at = "primary" \/ (q.at = "replied" /\ q.ok) => q.person \notin l.left

\* After a success was told, the household that it was told of is complete, or
\* the request that completes it is on its way.
SuccessIsPursued ==
    status = "success" => last.left = {} \/ \E c \in Slots : Completes(call[c], last)

QueuesItsPerson(q) ==
    /\ q.kind \in {"queue", "add"} => q.person \in People
    /\ q.kind = "queue" => q.primary \in {q.person, None}

HouseholdInv ==
    /\ TypeOK
    /\ PrimaryIsQueued
    /\ SuccessIsPursued
    /\ \A c \in Slots : QueuesItsPerson(call[c])
=============================================================================
