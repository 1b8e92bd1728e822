---------------------------- MODULE GiftStaging ----------------------------
(***************************************************************************)
(* The staging state machine of the fundraising service: rows of Twenty's  *)
(* giftStagings object, the gifts and people that requests create from     *)
(* them, and the HTTP handlers of GiftController and GiftStagingController *)
(* that drive both.                                                        *)
(*                                                                         *)
(* The service keeps no state of its own.  A handler is a chain of awaited *)
(* Twenty calls, and between two of its calls any other handler may run:   *)
(* one action below is one Twenty call with the local code up to the next  *)
(* await.  Two handlers never exchange anything but rows, gifts and people *)
(* kept by Twenty.                                                         *)
(*                                                                         *)
(* Modelled with FUNDRAISING_ENABLE_GIFT_STAGING on.  A payload is reduced *)
(* to what identifies the donor (donorId or companyId, and how much of a   *)
(* contact it holds); all payloads are about one and the same contact, the *)
(* worst case for duplicate people.  Amounts are always valid here.        *)
(*                                                                         *)
(* Requests are those that the repository's own client and importer send.  *)
(* The controller takes more: any processingStatus and a rawPayload with   *)
(* PATCH :id/status, a processingStatus with PATCH :id.  A client that sent*)
(* "processed" for a row without a gift would be believed.                 *)
(***************************************************************************)
EXTENDS Naturals, FiniteSets

CONSTANTS
    Rows,          \* ids of giftStagings rows
    Gifts,         \* ids of gifts
    People,        \* ids of people
    Handlers,      \* slots for requests in progress at the same time
    RecurringRows, \* rows with a recurringAgreementId
    NoRow, NoGift, NoPerson, NoPayload,
    MaxAttempts,   \* maxAttempts of TwentyApiService
    MaxRequests,   \* bound: requests accepted in a behaviour
    Operations,    \* the operations clients use in this instance
    Contacts,      \* the contact data clients send in this instance
    Faults,        \* for each call, the ways in which it may end badly
    Restarts       \* whether the service process may crash

Calls == {"fetch", "lookup", "person", "read_for_edit", "edit",
          "read_for_status", "status", "lock", "stage", "create_gift",
          "mark", "agreement"}

ContactKinds == {"none", "names", "email"}

ASSUME NothingAssumption ==
    /\ NoRow \notin Rows
    /\ NoGift \notin Gifts
    /\ NoPerson \notin People
    /\ NoGift \notin [row : Rows \cup {NoRow}, donor : People \cup {NoPerson},
                      via : {"process", "auto", "unreviewed"}]

ASSUME BoundsAssumption ==
    /\ MaxAttempts \in Nat \ {0}
    /\ MaxRequests \in Nat
    /\ Restarts \in BOOLEAN
    /\ RecurringRows \subseteq Rows

ASSUME InputsAssumption ==
    /\ Operations \subseteq {"gift", "stage_only", "process", "mark_ready",
                             "assign", "save", "import"}
    /\ Contacts \subseteq ContactKinds
    /\ Faults \in [Calls -> SUBSET {"failed", "dropped", "retry"}]

Payload == [donor : People \cup {NoPerson}, contact : ContactKinds]

ASSUME PayloadAssumption == NoPayload \notin Payload

VARIABLES
    \* columns of the giftStagings rows in Twenty
    status,    \* processingStatus, "absent" while there is no such row
    linked,    \* giftId
    auto,      \* autoProcess
    raw,       \* rawPayload: the payload a gift is created from
    col,       \* donor columns: what reviewers see
    \* other objects in Twenty
    people,    \* people that exist
    gifts,     \* gifts that exist, with the row they come from
    advanced,  \* rows whose recurring agreement was advanced
    \* the service
    handler,   \* the request each slot is serving, or its last reply
    \* history
    approvals, \* how often each row was marked ready by a reviewer
    served     \* requests accepted so far

twentyVars == <<status, linked, auto, raw, col, people, gifts, advanced>>
vars == <<twentyVars, handler, approvals, served>>

Statuses == {"absent", "pending", "ready_for_process", "processing",
             "processed", "process_failed"}

GiftRecord == [row : Rows \cup {NoRow}, donor : People \cup {NoPerson},
               via : {"process", "auto", "unreviewed"}]

Replies == {"none", "processed", "locked", "not_ready", "missing_payload",
            "error", "ok", "staged", "created"}

\* What a handler holds in its local variables between two awaits.
HandlerState ==
    [pc      : {"idle"} \cup (Calls \ {"lock"}),
     op      : {"none", "gift", "stage_only", "process", "mark_ready", "edit"},
     row     : Rows \cup {NoRow},
     payload : [donor   : People \cup {NoPerson},
                contact : ContactKinds \cup {"keep"}],
     seen    : Payload \cup {NoPayload},
     write   : {"none", "ready_for_process", "processing", "process_failed"},
     auto    : BOOLEAN,
     matched : BOOLEAN,
     gift    : Gifts \cup {NoGift},
     reply   : Replies,
     tries   : 0 .. MaxAttempts - 1]

Blank == [pc |-> "idle", op |-> "none", row |-> NoRow,
          payload |-> [donor |-> NoPerson, contact |-> "none"],
          seen |-> NoPayload, write |-> "none", auto |-> FALSE,
          matched |-> FALSE, gift |-> NoGift, reply |-> "none", tries |-> 0]

TypeOK ==
    /\ status \in [Rows -> Statuses]
    /\ linked \in [Rows -> Gifts \cup {NoGift}]
    /\ auto \in [Rows -> BOOLEAN]
    /\ raw \in [Rows -> Payload \cup {NoPayload}]
    /\ col \in [Rows -> Payload]
    /\ people \subseteq People
    /\ gifts \in [Gifts -> GiftRecord \cup {NoGift}]
    /\ advanced \subseteq Rows
    /\ handler \in [Handlers -> HandlerState]
    /\ approvals \in [Rows -> Nat]
    /\ served \in Nat

Init ==
    /\ status = [r \in Rows |-> "absent"]
    /\ linked = [r \in Rows |-> NoGift]
    /\ auto = [r \in Rows |-> FALSE]
    /\ raw = [r \in Rows |-> NoPayload]
    /\ col = [r \in Rows |-> [donor |-> NoPerson, contact |-> "none"]]
    /\ people = {}
    /\ gifts = [g \in Gifts |-> NoGift]
    /\ advanced = {}
    /\ handler = [h \in Handlers |-> Blank]
    /\ approvals = [r \in Rows |-> 0]
    /\ served = 0

-----------------------------------------------------------------------------
(***************************************************************************)
(* Decisions taken from a row or a payload                                 *)
(***************************************************************************)

\* Definitions whose name starts with Bug are the definition they stand before
\* with a plausible mistake in it.  Nothing uses them: putting one in place of
\* the definition must break a property.

BugCanProcess(s) == s \in {"pending", "ready_for_process", "process_failed"}

\* The two statuses from which processGift creates a gift.
CanProcess(s) == s \in {"ready_for_process", "process_failed"}

\* A row another request is taken to be working on.
Locked(s) == s = "processing"

BugAlreadyProcessed(r) == status[r] \in {"processing", "processed"}

\* A row whose gift is known: processGift repeats the earlier answer.
AlreadyProcessed(r) == status[r] = "processed" /\ linked[r] # NoGift

BugHasDonor(p) == TRUE

HasDonor(p) == p.donor # NoPerson

\* A person is looked up or created only for a first and a last name.
CanResolve(p) == p.donor = NoPerson /\ p.contact # "none"

BugNextToResolve(p) == "person"

\* findExistingPersonMatch asks Twenty for duplicates only with an email.
NextToResolve(p) == IF p.contact = "email" THEN "lookup" ELSE "person"

\* Of two contacts, the one that says more.
Richer(a, b) == IF "email" \in {a, b} THEN "email"
                ELSE IF "names" \in {a, b} THEN "names" ELSE "none"

\* mergePayloadForUpdate: a reviewer's change laid over the payload read from
\* the row, or the donor that processGift resolved.
Merged(hs) ==
    IF hs.op = "edit"
    THEN [donor   |-> IF HasDonor(hs.payload) THEN hs.payload.donor
                      ELSE hs.seen.donor,
          contact |-> IF hs.payload.contact = "keep" THEN hs.seen.contact
                      ELSE hs.payload.contact]
    ELSE [donor   |-> hs.payload.donor,
          contact |-> Richer(hs.seen.contact, hs.payload.contact)]

BugColumns(old, new) == old

\* buildPayloadUpdateBody drops what is empty, so a PATCH never empties a
\* column.
Columns(old, new) ==
    [donor   |-> IF HasDonor(new) THEN new.donor ELSE old.donor,
     contact |-> Richer(old.contact, new.contact)]

-----------------------------------------------------------------------------
(***************************************************************************)
(* One Twenty call.  "ok": done and acknowledged.  "failed": not done, and *)
(* the handler gets an exception.  "dropped": done, and the handler gets   *)
(* an exception all the same (no attempt left, or a body it cannot read).  *)
(* "retry": done, but the reply is lost and TwentyApiService sends the     *)
(* same request again.  Attempts that change nothing are stuttering steps. *)
(***************************************************************************)

MayRetry(hs) == hs.tries + 1 < MaxAttempts

Ends(h, call, o) ==
    /\ o \in {"ok"} \cup Faults[call]
    /\ o = "retry" => MayRetry(handler[h])

Done(o) == o # "failed"

\* The handler continues at call c with the given local variables.
At(hs, c) == [hs EXCEPT !.pc = c, !.tries = 0]

\* The handler answers its request.
Answer(hs, reply) ==
    [Blank EXCEPT !.row = hs.row, !.gift = hs.gift, !.reply = reply]

\* updateStatusById, whose first call reads the rawPayload it sends back.
Write(hs, s) == At([hs EXCEPT !.write = s], "read_for_status")

\* setProcessingError, then the answer.
Fail(hs, reply) == Write([hs EXCEPT !.reply = reply], "process_failed")

\* The status update by which processGift locks the row.
BugTakeLock(hs) == At(hs, "create_gift")

TakeLock(hs) == Write(hs, "processing")

\* The same call again.
Again(hs) == [hs EXCEPT !.tries = @ + 1]

Set(h, hs) == handler' = [handler EXCEPT ![h] = hs]

-----------------------------------------------------------------------------
(***************************************************************************)
(* Requests arrive                                                         *)
(***************************************************************************)

Accept(h, operation, hs) ==
    /\ operation \in Operations
    /\ handler[h].pc = "idle"
    /\ served < MaxRequests
    /\ served' = served + 1
    /\ Set(h, hs)
    /\ UNCHANGED <<twentyVars, approvals>>

Exists(r) == status[r] # "absent"

\* POST /gift-staging/:id/process
AcceptProcess(h, r) ==
    /\ Exists(r)
    /\ Accept(h, "process",
              At([Blank EXCEPT !.op = "process", !.row = r], "fetch"))

\* PATCH /gift-staging/:id/status, sent by "Mark ready" in the queue and in
\* the drawer whatever the status on display is.  The client sends no other
\* status, and no rawPayload.
AcceptMarkReady(h, r) ==
    /\ Exists(r)
    /\ Accept(h, "mark_ready",
              Write([Blank EXCEPT !.op = "mark_ready", !.row = r],
                    "ready_for_process"))

\* Edits carry no status, as those of the client.
Edit(r, u) ==
    At([Blank EXCEPT !.op = "edit", !.row = r, !.payload = u],
       "read_for_edit")

\* PATCH /gift-staging/:id with a donor chosen by the reviewer.
AcceptAssign(h, r, p) ==
    /\ Exists(r)
    /\ p \in people
    /\ Accept(h, "assign", Edit(r, [donor |-> p, contact |-> "keep"]))

\* PATCH /gift-staging/:id with the fields of the drawer's form.
AcceptSave(h, r, c) ==
    /\ Exists(r)
    /\ c \in Contacts
    /\ Accept(h, "save", Edit(r, [donor |-> NoPerson, contact |-> c]))

\* Bound: an intake is accepted while there is a row id left for it.
Room == Cardinality({k \in Handlers : handler[k].op \in {"gift", "stage_only"}})
        < Cardinality({r \in Rows : ~Exists(r)})

\* The payloads clients send: a known donor, or contact data.
Incoming == [donor : people \cup {NoPerson}, contact : Contacts]

\* POST /gifts, and the Stripe webhook.  The auto-process decision a is taken
\* from the payload; here both outcomes are possible.
AcceptGift(h, p, a) ==
    /\ Room
    /\ p \in Incoming
    /\ HasDonor(p) \/ CanResolve(p)
    /\ LET hs == [Blank EXCEPT !.op = "gift", !.payload = p, !.auto = a]
       IN Accept(h, "gift",
                 At(hs, IF HasDonor(p) THEN "stage" ELSE NextToResolve(p)))

\* POST /gift-staging: never auto-processed, contacts are not resolved and
\* the lookup only records its diagnostics.
AcceptStageOnly(h, p) ==
    /\ Room
    /\ p \in Incoming
    /\ LET hs == [Blank EXCEPT !.op = "stage_only", !.payload = p]
       IN Accept(h, "stage_only",
                 At(hs, IF ~HasDonor(p) /\ p.contact = "email"
                        THEN "lookup" ELSE "stage"))

\* A row entered directly in Twenty carries columns but no rawPayload.
Import(r, p) ==
    /\ "import" \in Operations
    /\ Room
    /\ ~Exists(r)
    /\ p \in Incoming
    /\ status' = [status EXCEPT ![r] = "pending"]
    /\ col' = [col EXCEPT ![r] = p]
    /\ UNCHANGED <<linked, auto, raw, people, gifts, advanced, handler,
                   approvals, served>>

-----------------------------------------------------------------------------
(***************************************************************************)
(* processGift up to the donor                                             *)
(***************************************************************************)

\* Where processGift goes with the row it has just read.
Fetched(hs, r) ==
    IF AlreadyProcessed(r)
    THEN Answer([hs EXCEPT !.gift = linked[r]], "processed")
    ELSE IF Locked(status[r]) THEN Answer(hs, "locked")
    ELSE IF ~CanProcess(status[r]) THEN Answer(hs, "not_ready")
    ELSE IF raw[r] = NoPayload THEN Fail(hs, "missing_payload")
    ELSE LET held == [hs EXCEPT !.payload = raw[r]] IN
         IF HasDonor(raw[r]) THEN TakeLock(held)
         ELSE IF CanResolve(raw[r]) THEN At(held, NextToResolve(raw[r]))
         ELSE Fail(held, "error")

Fetch(h, o) ==
    LET hs == handler[h] IN
    /\ hs.pc = "fetch"
    /\ Ends(h, "fetch", o)
    /\ o \in {"ok", "failed"}
    /\ Set(h, IF o = "ok" THEN Fetched(hs, hs.row) ELSE Answer(hs, "error"))
    /\ UNCHANGED <<twentyVars, approvals, served>>

\* What follows once the donor is known: processGift stores it in the row, the
\* intake stages the payload.
Resolved(hs) ==
    At(hs, IF hs.op = "process" THEN "read_for_edit" ELSE "stage")

\* POST /people/duplicates.  A failed lookup counts as no match; no match
\* creates a person, except for POST /gift-staging.
Lookup(h, o, p) ==
    LET hs == handler[h] IN
    /\ hs.pc = "lookup"
    /\ Ends(h, "lookup", o)
    /\ o \in {"ok", "failed"}
    /\ IF o = "ok" /\ people # {}
       THEN /\ p \in people
            /\ Set(h, IF hs.op = "stage_only" THEN At(hs, "stage")
                      ELSE Resolved([hs EXCEPT !.payload.donor = p,
                                               !.matched = TRUE]))
       ELSE Set(h, At(hs, IF hs.op = "stage_only" THEN "stage" ELSE "person"))
    /\ UNCHANGED <<twentyVars, approvals, served>>

\* POST /people
CreatePerson(h, o, p) ==
    LET hs == handler[h] IN
    /\ hs.pc = "person"
    /\ Ends(h, "person", o)
    /\ p \in People \ people
    /\ people' = IF Done(o) THEN people \cup {p} ELSE people
    /\ Set(h, IF o = "ok" THEN Resolved([hs EXCEPT !.payload.donor = p])
              ELSE IF o = "retry" THEN Again(hs)
              ELSE IF hs.op = "process" THEN Fail(hs, "error")
              ELSE Answer(hs, "error"))
    /\ UNCHANGED <<status, linked, auto, raw, col, gifts, advanced,
                   approvals, served>>

-----------------------------------------------------------------------------
(***************************************************************************)
(* updateGiftStagingPayload: read the row, merge, write it back            *)
(***************************************************************************)

BugEdited(hs, reply) ==
    IF hs.op = "edit" THEN Answer(hs, reply)
    ELSE IF reply = "error" THEN At(hs, "fetch") ELSE TakeLock(hs)

\* A reviewer's edit is answered; processGift goes on, with or without the
\* donor stored.
Edited(hs, reply) ==
    IF hs.op = "edit" THEN Answer(hs, reply) ELSE TakeLock(hs)

ReadForEdit(h, o) ==
    LET hs == handler[h] IN
    /\ hs.pc = "read_for_edit"
    /\ Ends(h, "read_for_edit", o)
    /\ o \in {"ok", "failed"}
    /\ Set(h, IF o = "failed" THEN Edited(hs, "error")
              ELSE At([hs EXCEPT !.seen = IF raw[hs.row] = NoPayload
                                          THEN col[hs.row] ELSE raw[hs.row]],
                      "edit"))
    /\ UNCHANGED <<twentyVars, approvals, served>>

\* The PATCH; the row is then read once more, only to be returned.
PatchPayload(h, o) ==
    LET hs == handler[h]
        r  == hs.row
    IN
    /\ hs.pc = "edit"
    /\ Ends(h, "edit", o)
    /\ raw' = IF Done(o) THEN [raw EXCEPT ![r] = Merged(hs)] ELSE raw
    /\ col' = IF Done(o)
              THEN [col EXCEPT ![r] = Columns(col[r], Merged(hs))] ELSE col
    /\ Set(h, IF o = "retry" THEN Again(hs)
              ELSE Edited(hs, IF o = "ok" THEN "ok" ELSE "error"))
    /\ UNCHANGED <<status, linked, auto, people, gifts, advanced,
                   approvals, served>>

-----------------------------------------------------------------------------
(***************************************************************************)
(* updateStatusById: read the rawPayload, then PATCH it back with a status *)
(***************************************************************************)

ReadForStatus(h, o) ==
    LET hs == handler[h] IN
    /\ hs.pc = "read_for_status"
    /\ Ends(h, "read_for_status", o)
    /\ o \in {"ok", "failed"}
    /\ Set(h, At([hs EXCEPT !.seen = IF o = "ok" THEN raw[hs.row]
                                     ELSE NoPayload], "status"))
    /\ UNCHANGED <<twentyVars, approvals, served>>

\* What follows a status update: the gift, after the lock or an auto-processed
\* staging; otherwise the answer.  Only a reviewer learns of a failure.
Written(hs, ok) ==
    IF hs.write = "processing" THEN At(hs, "create_gift")
    ELSE IF hs.write = "process_failed" THEN Answer(hs, hs.reply)
    ELSE IF hs.write = "ready_for_process"
         THEN Answer(hs, IF ok THEN "ok" ELSE "error")
    ELSE IF hs.auto THEN At(hs, "create_gift")
    ELSE Answer(hs, "staged")

\* Taking the lock is a call of its own, to let an instance make it reliable.
StatusCall(hs) == IF hs.write = "processing" THEN "lock" ELSE "status"

PatchStatus(h, o) ==
    LET hs == handler[h]
        r  == hs.row
    IN
    /\ hs.pc = "status"
    /\ Ends(h, StatusCall(hs), o)
    /\ status' = IF Done(o) /\ hs.write # "none"
                 THEN [status EXCEPT ![r] = hs.write] ELSE status
    /\ raw' = IF Done(o) /\ hs.seen # NoPayload
              THEN [raw EXCEPT ![r] = hs.seen] ELSE raw
    /\ approvals' = IF Done(o) /\ hs.write = "ready_for_process"
                    THEN [approvals EXCEPT ![r] = @ + 1] ELSE approvals
    /\ Set(h, IF o = "retry" THEN Again(hs) ELSE Written(hs, o = "ok"))
    /\ UNCHANGED <<linked, auto, col, people, gifts, advanced, served>>

-----------------------------------------------------------------------------
(***************************************************************************)
(* stageGift, the gift, and what is written after it                       *)
(***************************************************************************)

\* createGift updates the dedupe status of a matched donor's row, and stops
\* there unless the row is auto-processed.
Staged(hs) ==
    IF hs.op = "stage_only" THEN Answer(hs, "staged")
    ELSE IF hs.matched THEN Write(hs, "none")
    ELSE IF hs.auto THEN At(hs, "create_gift")
    ELSE Answer(hs, "staged")

\* createGift goes on without a row when staging failed, auto-process or not.
NotStaged(hs) ==
    IF hs.op = "stage_only" THEN Answer(hs, "error") ELSE At(hs, "create_gift")

\* POST /giftStagings
Stage(h, o, r) ==
    LET hs == handler[h] IN
    /\ hs.pc = "stage"
    /\ Ends(h, "stage", o)
    /\ ~Exists(r)
    /\ IF Done(o)
       THEN /\ status' = [status EXCEPT ![r] = IF hs.auto THEN "processing"
                                               ELSE "pending"]
            /\ auto' = [auto EXCEPT ![r] = hs.auto]
            /\ raw' = [raw EXCEPT ![r] = hs.payload]
            /\ col' = [col EXCEPT ![r] = hs.payload]
       ELSE UNCHANGED <<status, auto, raw, col>>
    /\ Set(h, IF o = "ok" THEN Staged([hs EXCEPT !.row = r])
              ELSE IF o = "retry" THEN Again(hs)
              ELSE NotStaged(hs))
    /\ UNCHANGED <<linked, people, gifts, advanced, approvals, served>>

NewGift(hs) ==
    [row   |-> hs.row,
     donor |-> hs.payload.donor,
     via   |-> IF hs.op = "process" THEN "process"
               ELSE IF hs.auto THEN "auto" ELSE "unreviewed"]

BugCreatedNoId(hs, g) ==
    IF hs.row = NoRow THEN Answer(hs, "created") ELSE At(hs, "mark")

\* The handler of a gift Twenty has acknowledged.
Created(hs, g) ==
    LET held == [hs EXCEPT !.gift = g] IN
    IF hs.row = NoRow THEN Answer(held, "created") ELSE At(held, "mark")

BugNotCreated(hs) ==
    IF hs.op = "process" THEN At(hs, "agreement") ELSE Answer(hs, "error")

\* A gift that could not be created: processGift records the failure in the
\* row, createGift lets the exception through and leaves the row as it is.
NotCreated(hs) ==
    IF hs.op = "process" THEN Fail(hs, "error") ELSE Answer(hs, "error")

\* POST /gifts
CreateGift(h, o, g) ==
    LET hs == handler[h] IN
    /\ hs.pc = "create_gift"
    /\ Ends(h, "create_gift", o)
    /\ gifts[g] = NoGift
    /\ gifts' = IF Done(o) THEN [gifts EXCEPT ![g] = NewGift(hs)] ELSE gifts
    /\ Set(h, IF o = "ok" THEN Created(hs, g)
              ELSE IF o = "retry" THEN Again(hs)
              ELSE NotCreated(hs))
    /\ UNCHANGED <<status, linked, auto, raw, col, people, advanced,
                   approvals, served>>

\* A failed update is only logged.  processGift then advances the agreement.
Marked(hs) ==
    IF hs.op = "gift" THEN Answer(hs, "created")
    ELSE IF hs.row \in RecurringRows THEN At(hs, "agreement")
    ELSE Answer(hs, "processed")

\* patchProcessed
MarkProcessed(h, o) ==
    LET hs == handler[h]
        r  == hs.row
    IN
    /\ hs.pc = "mark"
    /\ Ends(h, "mark", o)
    /\ IF Done(o)
       THEN /\ status' = [status EXCEPT ![r] = "processed"]
            /\ linked' = [linked EXCEPT ![r] = hs.gift]
       ELSE UNCHANGED <<status, linked>>
    /\ Set(h, IF o = "retry" THEN Again(hs) ELSE Marked(hs))
    /\ UNCHANGED <<auto, raw, col, people, gifts, advanced, approvals, served>>

\* PATCH /recurringAgreements/:id; a failure is only logged.
AdvanceAgreement(h, o) ==
    LET hs == handler[h] IN
    /\ hs.pc = "agreement"
    /\ Ends(h, "agreement", o)
    /\ advanced' = IF Done(o) THEN advanced \cup {hs.row} ELSE advanced
    /\ Set(h, IF o = "retry" THEN Again(hs) ELSE Answer(hs, "processed"))
    /\ UNCHANGED <<status, linked, auto, raw, col, people, gifts,
                   approvals, served>>

\* The process dies: what its handlers held is lost, what Twenty keeps stays.
Restart ==
    /\ Restarts
    /\ \E h \in Handlers : handler[h].pc # "idle"
    /\ handler' = [h \in Handlers |-> Blank]
    /\ UNCHANGED <<twentyVars, approvals, served>>

-----------------------------------------------------------------------------
Outcomes == {"ok", "failed", "dropped", "retry"}

\* The next await of a request in progress.
Step(h) ==
    \E o \in Outcomes :
        \/ Fetch(h, o)
        \/ \E p \in People : Lookup(h, o, p)
        \/ \E p \in People : CreatePerson(h, o, p)
        \/ ReadForEdit(h, o)
        \/ PatchPayload(h, o)
        \/ ReadForStatus(h, o)
        \/ PatchStatus(h, o)
        \/ \E r \in Rows : Stage(h, o, r)
        \/ \E g \in Gifts : CreateGift(h, o, g)
        \/ MarkProcessed(h, o)
        \/ AdvanceAgreement(h, o)

Arrive(h) ==
    \/ \E r \in Rows :
        \/ AcceptProcess(h, r)
        \/ AcceptMarkReady(h, r)
        \/ \E p \in People : AcceptAssign(h, r, p)
        \/ \E c \in ContactKinds : AcceptSave(h, r, c)
    \/ \E p \in Payload :
        \/ \E a \in BOOLEAN : AcceptGift(h, p, a)
        \/ AcceptStageOnly(h, p)

Next ==
    \/ \E h \in Handlers : Arrive(h) \/ Step(h)
    \/ \E r \in Rows, p \in Payload : Import(r, p)
    \/ Restart

Spec == Init /\ [][Next]_vars

\* Every fetch ends, by the time limits of the HTTP client at the latest, and
\* the event loop runs the handler waiting for it.
FairSpec == Spec /\ \A h \in Handlers : WF_vars(Step(h))
-----------------------------------------------------------------------------
(***************************************************************************)
(* Properties                                                              *)
(***************************************************************************)

Exist(g) == gifts[g] # NoGift

\* A row's giftId always names a gift that was created from that very row, and
\* a row is never "processed" without one: the two are written by one PATCH,
\* long after the row was read, by whichever handler gets there last.
ProcessedRowHasItsGift ==
    \A r \in Rows :
        /\ status[r] = "processed" => linked[r] # NoGift
        /\ linked[r] # NoGift => Exist(linked[r]) /\ gifts[linked[r]].row = r

\* canProcess: "Mark ready" is the reviewer's explicit signal to proceed.  No
\* order of requests, failure or crash makes processGift create a gift from a
\* row that was never marked ready, and createGift creates the gift of a staged
\* row only when the row was staged for auto-processing.
NoGiftWithoutApproval ==
    \A g \in Gifts :
        Exist(g) /\ gifts[g].row # NoRow =>
            IF gifts[g].via = "process" THEN approvals[gifts[g].row] > 0
            ELSE auto[gifts[g].row]

\* Every gift has a donor that exists in Twenty, whatever was staged, edited,
\* matched or created on the way (isValidPreparedPayload runs before the lock,
\* on a payload read earlier still).
GiftHasDonor == \A g \in Gifts : Exist(g) => gifts[g].donor \in people

\* A client told "processed" with a giftId can rely on it: there is such a gift
\* and it is that row's, though other requests may be working on the row.
ProcessedReplyIsTrue ==
    \A h \in Handlers :
        handler[h].reply = "processed" =>
            /\ handler[h].gift # NoGift
            /\ Exist(handler[h].gift)
            /\ gifts[handler[h].gift].row = handler[h].row

\* The expected date of a recurring agreement only moves on when an instalment
\* was really turned into a gift.
AgreementFollowsGift ==
    \A r \in advanced :
        \E g \in Gifts : Exist(g) /\ gifts[g].row = r /\ gifts[g].via = "process"

ProcessGifts(r) ==
    {g \in Gifts : Exist(g) /\ gifts[g].row = r /\ gifts[g].via = "process"}

\* One "Mark ready" is worth at most one gift, across failed attempts, crashes
\* and repeated clicks on "Process now".  True only while requests on a row do
\* not overlap, the lock is written and POST /gifts is not repeated by the
\* transport: the instance that checks it says so.
OneGiftPerApproval ==
    \A r \in Rows : Cardinality(ProcessGifts(r)) <= approvals[r]

Quiet == \A h \in Handlers : handler[h].pc = "idle"

\* Between requests, the donor reviewers see in the columns is the donor in the
\* rawPayload a gift would be created from.
DonorShownIsDonorUsed ==
    Quiet => \A r \in Rows :
                 raw[r] # NoPayload => raw[r].donor = col[r].donor

\* The one contact of this instance has at most one person record.
OneContactOnePerson == Cardinality(people) <= 1

\* Every request is answered, whatever fails.
EveryRequestAnswered ==
    \A h \in Handlers : handler[h].pc # "idle" ~> handler[h].pc = "idle"

-----------------------------------------------------------------------------
(***************************************************************************)
(* Why the safety properties hold: what is true of a handler between any   *)
(* two of its calls, however the others have changed Twenty meanwhile      *)
(***************************************************************************)

RowCalls == {"fetch", "read_for_edit", "edit", "read_for_status", "status",
             "mark", "agreement"}

\* The local variables a call needs are there when it is made.
LocalsOK(hs) ==
    /\ hs.op # "edit" => hs.payload \in Payload
    /\ hs.pc = "edit" => hs.seen \in Payload
    /\ hs.pc \in RowCalls => hs.row \in Rows
    /\ hs.op = "process" => hs.row \in Rows
    /\ hs.pc \in {"lookup", "person"} /\ hs.op # "process" => hs.row = NoRow
    /\ hs.pc \in {"fetch", "agreement"} => hs.op = "process"
    /\ hs.pc = "stage" => hs.op \in {"gift", "stage_only"} /\ hs.row = NoRow
    /\ hs.pc = "lookup" => hs.op \in {"gift", "stage_only", "process"}
    /\ hs.pc \in {"person", "create_gift", "mark"} => hs.op \in {"gift", "process"}
    /\ hs.pc \in {"read_for_edit", "edit"} => hs.op \in {"edit", "process"}
    /\ hs.pc \in {"read_for_status", "status"} =>
           /\ hs.write = "none" => hs.op = "gift"
           /\ hs.write = "ready_for_process" => hs.op = "mark_ready"
           /\ hs.write \in {"processing", "process_failed"} => hs.op = "process"
    /\ hs.pc = "idle" => hs.op = "none"

\* A handler on its way to POST /gifts from a row got there legitimately.
ApprovalOK(hs) ==
    /\ hs.op = "process" /\ hs.pc # "fetch" => approvals[hs.row] > 0
    /\ hs.row # NoRow => Exists(hs.row)
    /\ hs.op = "gift" /\ hs.row # NoRow => auto[hs.row] = hs.auto
    /\ hs.pc = "create_gift" /\ hs.op = "gift" /\ hs.row # NoRow => hs.auto

\* A gift in a handler's hands is that of its row.
GiftInHandOK(hs) ==
    /\ hs.pc \in {"mark", "agreement"} => hs.gift # NoGift
    /\ hs.reply = "processed" => hs.gift # NoGift
    /\ hs.pc \notin {"mark", "agreement", "idle"} => hs.gift = NoGift
    /\ hs.gift # NoGift => Exist(hs.gift) /\ gifts[hs.gift].row = hs.row

HandlerOK(hs) == LocalsOK(hs) /\ ApprovalOK(hs) /\ GiftInHandOK(hs)

\* The statuses processGift may start from were reached legitimately.
RowsOK ==
    \A r \in Rows :
        /\ CanProcess(status[r]) => approvals[r] > 0
        /\ auto[r] => Exists(r)

\* The inductive invariant from which the safety properties follow: what is
\* true of every handler between two of its calls, and of every row, however
\* the other handlers have changed Twenty meanwhile.
IInv ==
    /\ TypeOK
    /\ RowsOK
    /\ \A h \in Handlers : HandlerOK(handler[h])
    /\ ProcessedRowHasItsGift
    /\ NoGiftWithoutApproval

\* The two invariants below rest on IInv and are inductive together with it.

\* The donor ids that may be in use.
Donors == people \cup {NoPerson}

\* A handler that will create a gift without looking at its payload again.
Committed(hs) ==
    \/ hs.pc = "create_gift"
    \/ hs.op = "gift" /\ hs.pc \in {"stage", "read_for_status", "status"}
    \/ hs.op = "process" /\ hs.pc \in {"read_for_edit", "edit"}
    \/ hs.write = "processing" /\ hs.pc \in {"read_for_status", "status"}

DonorOK(hs, known) ==
    /\ hs.payload.donor \in known
    /\ hs.seen # NoPayload => hs.seen.donor \in known
    /\ Committed(hs) => HasDonor(hs.payload)

RowDonorsOK ==
    \A r \in Rows : /\ col[r].donor \in Donors
                    /\ raw[r] # NoPayload => raw[r].donor \in Donors

\* Every donor id in a row or in a request in progress is one Twenty gave out,
\* and none is missing once a gift is certain to be created.
DonorInv ==
    /\ GiftHasDonor
    /\ RowDonorsOK
    /\ \A h \in Handlers : DonorOK(handler[h], Donors)

\* processGift holds a gift of its own making when it advances an agreement.
AgreementInv ==
    /\ AgreementFollowsGift
    /\ \A h \in Handlers :
           handler[h].op = "process" /\ handler[h].pc \in {"mark", "agreement"} =>
               gifts[handler[h].gift].via = "process"

\* While requests do not overlap: a processGift that still has the approval
\* which let it start, and has not turned it into a gift.
Spending(hs) ==
    /\ hs.op = "process"
    /\ \/ hs.pc = "create_gift"
       \/ /\ hs.pc \in {"read_for_status", "status"}
          /\ hs.write \in {"processing", "process_failed"}

Unspent(r) ==
    \/ CanProcess(status[r])
    \/ \E h \in Handlers : handler[h].row = r /\ Spending(handler[h])

\* The statuses st agree with what a processGift has still to do.
SpendingOK(hs, st) ==
    hs.op = "process" =>
        /\ hs.pc \in {"lookup", "person", "read_for_edit", "edit"} =>
               CanProcess(st[hs.row])
        /\ hs.pc = "create_gift" => ~CanProcess(st[hs.row])

\* Of a row's approvals, each is spent on one gift and at most one is open.
BudgetInv ==
    /\ \A r \in Rows :
           /\ IsFiniteSet(ProcessGifts(r))
           /\ Cardinality(ProcessGifts(r)) + (IF Unspent(r) THEN 1 ELSE 0)
                  <= approvals[r]
    /\ \A h \in Handlers : SpendingOK(handler[h], status)

\* Likewise: what a handler is about to write agrees with the columns.
ShownInv ==
    /\ \A r \in Rows :
           /\ raw[r] # NoPayload => raw[r].donor = col[r].donor
           /\ ~Exists(r) => raw[r] = NoPayload
    /\ \A h \in Handlers :
           /\ handler[h].pc = "edit" /\ ~HasDonor(Merged(handler[h])) =>
                  col[handler[h].row].donor = NoPerson
           /\ handler[h].pc = "status" /\ handler[h].seen # NoPayload =>
                  handler[h].seen.donor = col[handler[h].row].donor

\* No contact without an email, which cannot be looked up, is on its way.
Nameless(hs) ==
    /\ hs.payload.contact # "names"
    /\ hs.seen # NoPayload => hs.seen.contact # "names"

\* Likewise: a person is created only when there is none.
OnePersonInv ==
    /\ \A p, q \in people : p = q
    /\ \A r \in Rows : /\ col[r].contact # "names"
                       /\ raw[r] # NoPayload => raw[r].contact # "names"
    /\ \A h \in Handlers : /\ Nameless(handler[h])
                           /\ handler[h].pc = "person" => people = {}

\* All that the proofs rely on.
FullInv == IInv /\ DonorInv /\ AgreementInv

-----------------------------------------------------------------------------
(***************************************************************************)
(* The abstract specification                                              *)
(***************************************************************************)

Admitted == {r \in Rows : approvals[r] > 0 \/ auto[r]}
Credited == [r \in Rows |-> {g \in Gifts : Exist(g) /\ gifts[g].row = r}]

Ledger == INSTANCE GiftLedger
          WITH admitted <- Admitted, credited <- Credited, settled <- linked

\* The staging rows and gifts implement the ledger, under any interleaving of
\* handlers, failed, dropped and repeated calls, and crashes.
KeepsLedger == Ledger!LedgerSpec

-----------------------------------------------------------------------------
(***************************************************************************)
(* What the code says and does not hold                                    *)
(***************************************************************************)

\* h is creating a gift from row r.
CreatingFrom(h, r) == handler[h].pc = "create_gift" /\ handler[h].row = r

\* processGift "defers when the staging record is currently processing": two
\* requests never create a gift from the same row at the same time.
ProcessingLockIsExclusive ==
    \A r \in Rows, h1, h2 \in Handlers :
        CreatingFrom(h1, r) /\ CreatingFrom(h2, r) => h1 = h2
=============================================================================
