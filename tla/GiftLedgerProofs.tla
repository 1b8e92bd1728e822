-------------------------- MODULE GiftLedgerProofs --------------------------
(***************************************************************************)
(* What GiftStaging does with donors, agreements and gifts, proved on top  *)
(* of the invariant of GiftStagingProofs: every gift has a donor, an       *)
(* agreement advances only after a gift, rows and gifts implement          *)
(* GiftLedger, and, while requests do not overlap, one approval is worth   *)
(* one gift and reviewers see the donor that is used.                      *)
(***************************************************************************)
EXTENDS GiftStagingProofs, FiniteSetTheorems

-----------------------------------------------------------------------------
(***************************************************************************)
(* Donors                                                                  *)
(***************************************************************************)

\* What is known of the handler that takes a step.
LEMMA Acting ==
    ASSUME IInv, NEW h \in Handlers
    PROVE  handler[h] \in HandlerState /\ HandlerOK(handler[h])
BY DEF IInv, TypeOK

\* A step of handler h that leaves the donors of rows and gifts in order.
LEMMA DonorStep ==
    ASSUME IInv, DonorInv, NEW h \in Handlers, NEW hs,
           handler' = [handler EXCEPT ![h] = hs],
           people \subseteq people', DonorOK(hs, Donors'), RowDonorsOK', GiftHasDonor'
    PROVE  DonorInv'
<1>1. ASSUME NEW k \in Handlers PROVE DonorOK(handler'[k], Donors')
  <2>1. handler'[k] = IF k = h THEN hs ELSE handler[k]
    BY DEF IInv, TypeOK
  <2>2. DonorOK(handler[k], Donors')
    BY DEF DonorInv, DonorOK, Donors
  <2> QED BY <2>1, <2>2
<1> QED BY <1>1 DEF DonorInv

\* The same for a step that leaves rows, gifts and people alone.
LEMMA LocalDonorStep ==
    ASSUME IInv, DonorInv, NEW h \in Handlers, NEW hs,
           handler' = [handler EXCEPT ![h] = hs],
           UNCHANGED <<people, raw, col, gifts>>, DonorOK(hs, Donors)
    PROVE  DonorInv'
<1>1. RowDonorsOK' /\ GiftHasDonor' /\ Donors' = Donors
  BY DEF DonorInv, RowDonorsOK, GiftHasDonor, Exist, Donors
<1> QED BY <1>1, DonorStep

\* A set of donors as it is passed to DonorOK.
LEMMA AnswerDonorOK ==
    ASSUME NEW known, NoPerson \in known, NEW hs, NEW reply
    PROVE  DonorOK(Answer(hs, reply), known)
BY DEF Answer, DonorOK, Blank, Committed

LEMMA AgainDonorOK ==
    ASSUME NEW known, NEW hs \in HandlerState, DonorOK(hs, known)
    PROVE  DonorOK(Again(hs), known)
BY DEF Again, DonorOK, Committed, HandlerState

LEMMA FailDonorOK ==
    ASSUME NEW known, NEW hs \in HandlerState, DonorOK(hs, known), hs.op = "process",
           NEW reply
    PROVE  DonorOK(Fail(hs, reply), known)
BY DEF Fail, Write, At, DonorOK, Committed, HandlerState

LEMMA TakeLockDonorOK ==
    ASSUME NEW known, NEW hs \in HandlerState, DonorOK(hs, known), HasDonor(hs.payload)
    PROVE  DonorOK(TakeLock(hs), known)
BY DEF TakeLock, Write, At, DonorOK, Committed, HandlerState, HasDonor

\* The donor that was found or created is used from here on.
LEMMA ResolvedDonorOK ==
    ASSUME NEW known, NEW hs \in HandlerState, DonorOK(hs, known),
           NEW found \in HandlerState, found.seen = hs.seen,
           found.payload.donor \in known \ {NoPerson}
    PROVE  DonorOK(Resolved(found), known)
BY DEF Resolved, At, DonorOK, Committed, HandlerState, HasDonor

LEMMA EditedDonorOK ==
    ASSUME NEW known, NoPerson \in known, NEW hs \in HandlerState, HandlerOK(hs),
           DonorOK(hs, known), NEW reply, hs.pc \in {"read_for_edit", "edit"}
    PROVE  DonorOK(Edited(hs, reply), known)
<1>1. CASE hs.op = "edit"
  BY <1>1, AnswerDonorOK DEF Edited
<1>2. CASE hs.op # "edit"
  BY <1>2, TakeLockDonorOK DEF Edited, DonorOK, Committed, HandlerOK, LocalsOK
<1> QED BY <1>1, <1>2

LEMMA DonorFetchStep ==
    ASSUME IInv, DonorInv, NEW h \in Handlers, NEW o, Fetch(h, o)
    PROVE  DonorInv'
<1> DEFINE hs == handler[h]
           r == hs.row
           held == [hs EXCEPT !.payload = raw[r]]
<1>1. /\ hs \in HandlerState /\ DonorOK(hs, Donors) /\ hs.pc = "fetch"
      /\ r \in Rows /\ hs.op = "process" /\ NoPerson \in Donors
  BY Acting DEF Fetch, HandlerOK, LocalsOK, RowCalls, DonorInv, Donors
<1>2. DonorOK(Fetched(hs, r), Donors)
  <2>1. CASE AlreadyProcessed(r) \/ ~CanProcess(status[r])
    BY <1>1, <2>1, AnswerDonorOK DEF Fetched
  <2>2. CASE raw[r] = NoPayload
    BY <1>1, <2>2, AnswerDonorOK, FailDonorOK DEF Fetched
  <2>3. CASE raw[r] # NoPayload
    <3>1. raw[r] \in Payload /\ raw[r].donor \in Donors
      BY <1>1, <2>3 DEF IInv, TypeOK, DonorInv, RowDonorsOK
    <3>2. held \in HandlerState /\ held.payload = raw[r] /\ held.op = "process"
      BY <1>1, <3>1 DEF HandlerState, Payload
    <3>3. DonorOK(held, Donors)
      BY <1>1, <3>1 DEF DonorOK, Committed, HandlerState
    <3>4. DonorOK(At(held, NextToResolve(raw[r])), Donors)
      BY <1>1, <3>2, <3>3 DEF At, DonorOK, Committed, HandlerState, NextToResolve
    <3> QED
      BY <1>1, <2>3, <3>2, <3>3, <3>4, AnswerDonorOK, FailDonorOK, TakeLockDonorOK
         DEF Fetched
  <2> QED BY <2>1, <2>2, <2>3
<1> QED BY <1>1, <1>2, AnswerDonorOK, LocalDonorStep DEF Fetch, Set, twentyVars

LEMMA DonorLookupStep ==
    ASSUME IInv, DonorInv, NEW h \in Handlers, NEW o, NEW p \in People, Lookup(h, o, p)
    PROVE  DonorInv'
<1> DEFINE hs == handler[h]
           found == [hs EXCEPT !.payload.donor = p, !.matched = TRUE]
<1>1. hs \in HandlerState /\ DonorOK(hs, Donors) /\ hs.pc = "lookup"
  BY Acting DEF Lookup, DonorInv
<1>2. found \in HandlerState /\ found.seen = hs.seen /\ found.payload.donor = p
  BY <1>1, ZenonT(60) DEF HandlerState
<1>3. p \in people => DonorOK(Resolved(found), Donors)
  <2> SUFFICES ASSUME p \in people PROVE DonorOK(Resolved(found), Donors)
    OBVIOUS
  <2>1. found.payload.donor \in Donors \ {NoPerson}
    BY <1>2, NothingAssumption DEF Donors
  <2> QED BY <1>1, <1>2, <2>1, ResolvedDonorOK
<1>4. /\ hs.op = "stage_only" => DonorOK(At(hs, "stage"), Donors)
      /\ DonorOK(At(hs, "person"), Donors)
  BY <1>1 DEF At, DonorOK, Committed, HandlerState
<1>5. PICK new : DonorOK(new, Donors) /\ handler' = [handler EXCEPT ![h] = new]
  BY <1>3, <1>4 DEF Lookup, Set
<1> QED BY <1>5, LocalDonorStep DEF Lookup, twentyVars

LEMMA DonorCreatePersonStep ==
    ASSUME IInv, DonorInv, NEW h \in Handlers, NEW o, NEW p \in People, CreatePerson(h, o, p)
    PROVE  DonorInv'
<1> DEFINE hs == handler[h]
           found == [hs EXCEPT !.payload.donor = p]
<1>1. people \subseteq people' /\ (Done(o) => p \in people')
  BY DEF CreatePerson
<1>2. hs \in HandlerState /\ DonorOK(hs, Donors') /\ NoPerson \in Donors'
  BY <1>1, Acting DEF DonorInv, DonorOK, Donors
<1>3. found \in HandlerState /\ found.seen = hs.seen /\ found.payload.donor = p
  BY <1>2 DEF HandlerState
<1>4. o = "ok" => DonorOK(Resolved(found), Donors')
  BY <1>1, <1>2, <1>3, ResolvedDonorOK, NothingAssumption DEF Donors, Done
<1>5. PICK new : DonorOK(new, Donors') /\ handler' = [handler EXCEPT ![h] = new]
  BY <1>2, <1>4, AgainDonorOK, AnswerDonorOK, FailDonorOK DEF CreatePerson, Set
<1>6. RowDonorsOK' /\ GiftHasDonor'
  BY <1>1 DEF CreatePerson, DonorInv, RowDonorsOK, GiftHasDonor, Exist, Donors
<1> QED BY <1>1, <1>5, <1>6, DonorStep

LEMMA DonorReadForEditStep ==
    ASSUME IInv, DonorInv, NEW h \in Handlers, NEW o, ReadForEdit(h, o)
    PROVE  DonorInv'
<1> DEFINE hs == handler[h]
           payload == IF raw[hs.row] = NoPayload THEN col[hs.row] ELSE raw[hs.row]
           read == [hs EXCEPT !.seen = payload]
<1>1. /\ hs \in HandlerState /\ HandlerOK(hs) /\ DonorOK(hs, Donors)
      /\ hs.pc = "read_for_edit" /\ hs.row \in Rows /\ NoPerson \in Donors
  BY Acting DEF ReadForEdit, HandlerOK, LocalsOK, RowCalls, DonorInv, Donors
<1>2. payload \in Payload /\ payload.donor \in Donors
  BY <1>1 DEF IInv, TypeOK, DonorInv, RowDonorsOK
<1>3. DonorOK(At(read, "edit"), Donors)
  BY <1>1, <1>2 DEF At, DonorOK, Committed, HandlerState
<1>4. PICK new : DonorOK(new, Donors) /\ handler' = [handler EXCEPT ![h] = new]
  <2>1. DonorOK(Edited(hs, "error"), Donors)
    BY <1>1, EditedDonorOK
  <2> QED BY <1>3, <2>1 DEF ReadForEdit, Set
<1> QED BY <1>4, LocalDonorStep DEF ReadForEdit, twentyVars

LEMMA DonorPatchPayloadStep ==
    ASSUME IInv, DonorInv, NEW h \in Handlers, NEW o, PatchPayload(h, o)
    PROVE  DonorInv'
<1> DEFINE hs == handler[h]
           r == hs.row
<1>1. /\ hs \in HandlerState /\ HandlerOK(hs) /\ DonorOK(hs, Donors) /\ hs.pc = "edit"
      /\ r \in Rows /\ hs.seen \in Payload /\ NoPerson \in Donors
  BY Acting DEF PatchPayload, HandlerOK, LocalsOK, RowCalls, DonorInv, Donors
<1>2. PICK new : DonorOK(new, Donors) /\ handler' = [handler EXCEPT ![h] = new]
  <2>1. \A reply : DonorOK(Edited(hs, reply), Donors)
    BY <1>1, EditedDonorOK
  <2>2. DonorOK(Again(hs), Donors)
    BY <1>1, AgainDonorOK
  <2> QED BY <2>1, <2>2 DEF PatchPayload, Set
<1>3. Merged(hs).donor \in Donors
  BY <1>1, PayloadAssumption DEF Merged, DonorOK
<1>4. Columns(col[r], Merged(hs)).donor \in Donors
  BY <1>1, <1>3 DEF Columns, DonorInv, RowDonorsOK
<1>5. UNCHANGED <<people, gifts>>
  BY DEF PatchPayload
<1>6. \A q \in Rows : /\ raw'[q] = raw[q] \/ raw'[q] = Merged(hs)
                      /\ \/ col'[q] = col[q]
                         \/ col'[q] = Columns(col[r], Merged(hs))
  BY <1>1 DEF PatchPayload, IInv, TypeOK
<1>7. RowDonorsOK' /\ GiftHasDonor' /\ Donors' = Donors
  BY <1>3, <1>4, <1>5, <1>6 DEF DonorInv, RowDonorsOK, GiftHasDonor, Exist, Donors
<1> QED BY <1>2, <1>5, <1>7, DonorStep

LEMMA DonorReadForStatusStep ==
    ASSUME IInv, DonorInv, NEW h \in Handlers, NEW o, ReadForStatus(h, o)
    PROVE  DonorInv'
<1> DEFINE hs == handler[h]
           payload == IF o = "ok" THEN raw[hs.row] ELSE NoPayload
           read == [hs EXCEPT !.seen = payload]
<1>1. /\ hs \in HandlerState /\ DonorOK(hs, Donors) /\ hs.pc = "read_for_status"
      /\ hs.row \in Rows
  BY Acting DEF ReadForStatus, HandlerOK, LocalsOK, RowCalls, DonorInv
<1>2. payload # NoPayload => payload.donor \in Donors
  BY <1>1 DEF DonorInv, RowDonorsOK
<1>3. DonorOK(At(read, "status"), Donors)
  BY <1>1, <1>2 DEF At, DonorOK, Committed, HandlerState
<1> QED BY <1>3, LocalDonorStep DEF ReadForStatus, Set, twentyVars

LEMMA DonorPatchStatusStep ==
    ASSUME IInv, DonorInv, NEW h \in Handlers, NEW o, PatchStatus(h, o)
    PROVE  DonorInv'
<1> DEFINE hs == handler[h]
           r == hs.row
<1>1. /\ hs \in HandlerState /\ HandlerOK(hs) /\ DonorOK(hs, Donors) /\ hs.pc = "status"
      /\ r \in Rows /\ NoPerson \in Donors
  BY Acting DEF PatchStatus, HandlerOK, LocalsOK, RowCalls, DonorInv, Donors
<1>2. \A ok : DonorOK(Written(hs, ok), Donors)
  <2>1. DonorOK(At(hs, "create_gift"), Donors) \/ ~(hs.write = "processing" \/ hs.write = "none")
    BY <1>1 DEF At, HandlerOK, LocalsOK, DonorOK, Committed, HandlerState
  <2>2. \A reply : DonorOK(Answer(hs, reply), Donors)
    BY <1>1, AnswerDonorOK
  <2>3. hs.write \in {"none", "ready_for_process", "processing", "process_failed"}
    BY <1>1 DEF HandlerState
  <2> QED BY <2>1, <2>2, <2>3 DEF Written
<1>3. PICK new : DonorOK(new, Donors) /\ handler' = [handler EXCEPT ![h] = new]
  <2>1. DonorOK(Again(hs), Donors)
    BY <1>1, AgainDonorOK
  <2> QED BY <1>2, <2>1 DEF PatchStatus, Set
<1>4. UNCHANGED <<people, col, gifts>>
  BY DEF PatchStatus
<1>5. \A q \in Rows : raw'[q] = raw[q] \/ (hs.seen # NoPayload /\ raw'[q] = hs.seen)
  <2>1. raw' = raw \/ (hs.seen # NoPayload /\ raw' = [raw EXCEPT ![r] = hs.seen])
    BY DEF PatchStatus
  <2> QED BY <1>1, <2>1 DEF IInv, TypeOK
<1>6. RowDonorsOK' /\ GiftHasDonor' /\ Donors' = Donors
  BY <1>1, <1>4, <1>5
     DEF DonorInv, RowDonorsOK, GiftHasDonor, Exist, Donors, DonorOK
<1> QED BY <1>3, <1>4, <1>6, DonorStep

LEMMA DonorStageStep ==
    ASSUME IInv, DonorInv, NEW h \in Handlers, NEW o, NEW r \in Rows, Stage(h, o, r)
    PROVE  DonorInv'
<1> DEFINE hs == handler[h]
           held == [hs EXCEPT !.row = r]
<1>1. /\ hs \in HandlerState /\ HandlerOK(hs) /\ DonorOK(hs, Donors) /\ hs.pc = "stage"
      /\ NoPerson \in Donors
  BY Acting DEF Stage, DonorInv, Donors
<1>2. /\ hs.payload \in Payload /\ hs.payload.donor \in Donors
      /\ hs.op = "gift" => HasDonor(hs.payload)
      /\ hs.op \in {"gift", "stage_only"}
  BY <1>1 DEF HandlerOK, LocalsOK, DonorOK, Committed
<1>3. held \in HandlerState /\ DonorOK(held, Donors) /\ held.op = hs.op
  BY <1>1 DEF HandlerState, DonorOK, Committed
<1>4. DonorOK(Staged(held), Donors)
  <2>1. hs.op = "gift" => DonorOK(Write(held, "none"), Donors)
                          /\ DonorOK(At(held, "create_gift"), Donors)
    BY <1>1, <1>2 DEF Write, At, DonorOK, Committed, HandlerState, HasDonor
  <2>2. \A reply : DonorOK(Answer(held, reply), Donors)
    BY <1>1, AnswerDonorOK
  <2> QED BY <1>2, <1>3, <2>1, <2>2 DEF Staged
<1>5. DonorOK(NotStaged(hs), Donors)
  <2>1. hs.op = "gift" => DonorOK(At(hs, "create_gift"), Donors)
    BY <1>1, <1>2 DEF At, DonorOK, Committed, HandlerState, HasDonor
  <2>2. \A reply : DonorOK(Answer(hs, reply), Donors)
    BY <1>1, AnswerDonorOK
  <2> QED BY <1>2, <2>1, <2>2 DEF NotStaged
<1>6. PICK new : DonorOK(new, Donors) /\ handler' = [handler EXCEPT ![h] = new]
  <2>1. DonorOK(Again(hs), Donors)
    BY <1>1, AgainDonorOK
  <2> QED BY <1>4, <1>5, <2>1 DEF Stage, Set
<1>7. UNCHANGED <<people, gifts>>
  BY DEF Stage
<1>8. \A q \in Rows : /\ raw'[q] = raw[q] \/ raw'[q] = hs.payload
                      /\ col'[q] = col[q] \/ col'[q] = hs.payload
  BY DEF Stage, IInv, TypeOK
<1>9. RowDonorsOK' /\ GiftHasDonor' /\ Donors' = Donors
  BY <1>2, <1>7, <1>8 DEF DonorInv, RowDonorsOK, GiftHasDonor, Exist, Donors
<1> QED BY <1>6, <1>7, <1>9, DonorStep

LEMMA DonorCreateGiftStep ==
    ASSUME IInv, DonorInv, NEW h \in Handlers, NEW o, NEW g \in Gifts, CreateGift(h, o, g)
    PROVE  DonorInv'
<1> DEFINE hs == handler[h]
           held == [hs EXCEPT !.gift = g]
<1>1. /\ hs \in HandlerState /\ HandlerOK(hs) /\ DonorOK(hs, Donors)
      /\ hs.pc = "create_gift" /\ NoPerson \in Donors
  BY Acting DEF CreateGift, DonorInv, Donors
<1>2. NewGift(hs).donor \in people
  BY <1>1 DEF NewGift, DonorOK, Committed, HasDonor, Donors
<1>3. held \in HandlerState /\ DonorOK(held, Donors)
  BY <1>1 DEF HandlerState, DonorOK, Committed
<1>4. DonorOK(Created(hs, g), Donors)
  <2>1. DonorOK(At(held, "mark"), Donors)
    BY <1>1 DEF At, DonorOK, Committed, HandlerState
  <2>2. DonorOK(Answer(held, "created"), Donors)
    BY <1>1, AnswerDonorOK
  <2> QED BY <2>1, <2>2 DEF Created
<1>5. DonorOK(NotCreated(hs), Donors)
  BY <1>1, AnswerDonorOK, FailDonorOK DEF NotCreated
<1>6. PICK new : DonorOK(new, Donors) /\ handler' = [handler EXCEPT ![h] = new]
  <2>1. DonorOK(Again(hs), Donors)
    BY <1>1, AgainDonorOK
  <2> QED BY <1>4, <1>5, <2>1 DEF CreateGift, Set
<1>7. UNCHANGED <<people, raw, col>>
  BY DEF CreateGift
<1>8. \A k \in Gifts : gifts'[k] = gifts[k] \/ gifts'[k] = NewGift(hs)
  BY DEF CreateGift, IInv, TypeOK
<1>9. RowDonorsOK' /\ GiftHasDonor' /\ Donors' = Donors
  BY <1>2, <1>7, <1>8 DEF DonorInv, RowDonorsOK, GiftHasDonor, Exist, Donors
<1> QED BY <1>6, <1>7, <1>9, DonorStep

LEMMA DonorMarkStep ==
    ASSUME IInv, DonorInv, NEW h \in Handlers, NEW o,
           MarkProcessed(h, o) \/ AdvanceAgreement(h, o)
    PROVE  DonorInv'
<1> DEFINE hs == handler[h]
<1>1. /\ hs \in HandlerState /\ DonorOK(hs, Donors) /\ hs.pc \in {"mark", "agreement"}
      /\ NoPerson \in Donors
  BY Acting DEF MarkProcessed, AdvanceAgreement, DonorInv, Donors
<1>2. DonorOK(Marked(hs), Donors)
  <2>1. DonorOK(At(hs, "agreement"), Donors)
    BY <1>1 DEF At, DonorOK, Committed, HandlerState
  <2>2. \A reply : DonorOK(Answer(hs, reply), Donors)
    BY <1>1, AnswerDonorOK
  <2> QED BY <2>1, <2>2 DEF Marked
<1>3. DonorOK(Again(hs), Donors) /\ DonorOK(Answer(hs, "processed"), Donors)
  BY <1>1, AgainDonorOK, AnswerDonorOK
<1>4. PICK new : DonorOK(new, Donors) /\ handler' = [handler EXCEPT ![h] = new]
  BY <1>2, <1>3 DEF MarkProcessed, AdvanceAgreement, Set
<1>5. UNCHANGED <<people, raw, col, gifts>>
  BY DEF MarkProcessed, AdvanceAgreement
<1> QED BY <1>4, <1>5, LocalDonorStep

LEMMA DonorArriveStep ==
    ASSUME IInv, DonorInv, NEW h \in Handlers, Arrive(h)
    PROVE  DonorInv'
<1> NoPerson \in Donors
  BY DEF Donors
<1> SUFFICES \E new : /\ DonorOK(new, Donors)
                      /\ handler' = [handler EXCEPT ![h] = new]
                      /\ UNCHANGED twentyVars
  BY LocalDonorStep DEF twentyVars
<1>1. ASSUME NEW operation, NEW new, Accept(h, operation, new), DonorOK(new, Donors)
      PROVE  \E hs : /\ DonorOK(hs, Donors)
                     /\ handler' = [handler EXCEPT ![h] = hs]
                     /\ UNCHANGED twentyVars
  BY <1>1 DEF Accept, Set
<1>2. ASSUME NEW r \in Rows, AcceptProcess(h, r) PROVE \E new : DonorOK(new, Donors) /\ Accept(h, "process", new)
  BY <1>2 DEF AcceptProcess, At, DonorOK, Committed, Blank
<1>3. ASSUME NEW r \in Rows, AcceptMarkReady(h, r) PROVE \E new : DonorOK(new, Donors) /\ Accept(h, "mark_ready", new)
  BY <1>3 DEF AcceptMarkReady, Write, At, DonorOK, Committed, Blank
<1>4. ASSUME NEW r \in Rows, NEW p \in People, AcceptAssign(h, r, p) PROVE \E new : DonorOK(new, Donors) /\ Accept(h, "assign", new)
  BY <1>4 DEF AcceptAssign, Edit, At, DonorOK, Committed, Blank, Donors
<1>5. ASSUME NEW r \in Rows, NEW c \in ContactKinds, AcceptSave(h, r, c) PROVE \E new : DonorOK(new, Donors) /\ Accept(h, "save", new)
  BY <1>5 DEF AcceptSave, Edit, At, DonorOK, Committed, Blank
<1>6. ASSUME NEW p \in Payload, NEW a \in BOOLEAN, AcceptGift(h, p, a) PROVE \E new : DonorOK(new, Donors) /\ Accept(h, "gift", new)
  <2> DEFINE b == [Blank EXCEPT !.op = "gift", !.payload = p, !.auto = a]
  <2>1. p.donor \in Donors /\ (~HasDonor(p) => NextToResolve(p) \in {"lookup", "person"})
    BY <1>6 DEF AcceptGift, Incoming, Donors, NextToResolve
  <2>2. b \in HandlerState /\ b.payload = p /\ b.seen = NoPayload /\ b.op = "gift" /\ b.write = "none"
    BY BlankTyped, ZenonT(60) DEF HandlerState, Blank, Payload
  <2> HIDE DEF b
  <2>3. DonorOK(At(b, IF HasDonor(p) THEN "stage" ELSE NextToResolve(p)), Donors)
    BY <2>1, <2>2 DEF At, DonorOK, Committed, HandlerState, HasDonor
  <2> QED BY <1>6, <2>3 DEF AcceptGift, b
<1>7. ASSUME NEW p \in Payload, AcceptStageOnly(h, p) PROVE \E new : DonorOK(new, Donors) /\ Accept(h, "stage_only", new)
  <2> DEFINE b == [Blank EXCEPT !.op = "stage_only", !.payload = p]
  <2>1. p.donor \in Donors
    BY <1>7 DEF AcceptStageOnly, Incoming, Donors
  <2>2. b \in HandlerState /\ b.payload = p /\ b.seen = NoPayload /\ b.op = "stage_only" /\ b.write = "none"
    BY BlankTyped DEF HandlerState, Blank, Payload
  <2> HIDE DEF b
  <2>3. DonorOK(At(b, IF ~HasDonor(p) /\ p.contact = "email" THEN "lookup" ELSE "stage"), Donors)
    BY <2>1, <2>2 DEF At, DonorOK, Committed, HandlerState, HasDonor
  <2> QED BY <1>7, <2>3 DEF AcceptStageOnly, b
<1> QED BY <1>1, <1>2, <1>3, <1>4, <1>5, <1>6, <1>7 DEF Arrive

LEMMA DonorInitOK == Init => DonorInv
BY DEF Init, DonorInv, GiftHasDonor, Exist, RowDonorsOK, Donors, DonorOK, Committed, Blank

LEMMA DonorNextPreserves == IInv /\ DonorInv /\ [Next]_vars => DonorInv'
<1> SUFFICES ASSUME IInv, DonorInv, [Next]_vars PROVE DonorInv'
  OBVIOUS
<1>1. ASSUME NEW h \in Handlers, Arrive(h) PROVE DonorInv'
  BY <1>1, DonorArriveStep
<1>2. ASSUME NEW h \in Handlers, Step(h) PROVE DonorInv'
  BY <1>2, DonorFetchStep, DonorLookupStep, DonorCreatePersonStep, DonorReadForEditStep,
     DonorPatchPayloadStep, DonorReadForStatusStep, DonorPatchStatusStep, DonorStageStep,
     DonorCreateGiftStep, DonorMarkStep DEF Step
<1>3. ASSUME NEW r \in Rows, NEW p \in Payload, Import(r, p) PROVE DonorInv'
  <2>1. p.donor \in Donors
    BY <1>3 DEF Import, Incoming, Donors
  <2>2. \A q \in Rows : col'[q] = col[q] \/ col'[q] = p
    BY <1>3 DEF Import, IInv, TypeOK
  <2> QED
    BY <1>3, <2>1, <2>2 DEF Import, DonorInv, GiftHasDonor, Exist, RowDonorsOK, Donors
<1>4. CASE Restart
  BY <1>4 DEF Restart, twentyVars, DonorInv, GiftHasDonor, Exist, RowDonorsOK, Donors,
              DonorOK, Committed, Blank
<1>5. CASE UNCHANGED vars
  BY <1>5 DEF vars, twentyVars, DonorInv, GiftHasDonor, Exist, RowDonorsOK, Donors
<1> QED BY <1>1, <1>2, <1>3, <1>4, <1>5 DEF Next

\* Whatever was staged, edited, matched or created on the way, and however the
\* requests interleave and fail, the donor of a gift is a person Twenty has:
\* isValidPreparedPayload sees a payload read long before the gift is created,
\* and the donor it saw is still the one that is sent.
THEOREM GiftsHaveDonors == Spec => []GiftHasDonor
<1>1. Init => IInv /\ DonorInv
  BY InitOK, DonorInitOK
<1>2. IInv /\ DonorInv /\ [Next]_vars => (IInv /\ DonorInv)'
  BY NextPreserves, DonorNextPreserves
<1>3. DonorInv => GiftHasDonor
  BY DEF DonorInv
<1> QED BY <1>1, <1>2, <1>3, PTL DEF Spec

-----------------------------------------------------------------------------
(***************************************************************************)
(* Agreements                                                              *)
(***************************************************************************)

\* A handler past the creation of its gift.
Holding(hs) == hs.op = "process" /\ hs.pc \in {"mark", "agreement"}

LEMMA AgreementStep ==
    ASSUME IInv, AgreementInv, NEW h \in Handlers, NEW hs,
           handler' = [handler EXCEPT ![h] = hs],
           \A g \in Gifts : Exist(g) => gifts'[g] = gifts[g],
           \A r \in advanced' \ advanced :
               \E g \in Gifts : Exist(g) /\ gifts[g].row = r /\ gifts[g].via = "process",
           Holding(hs) => gifts'[hs.gift].via = "process"
    PROVE  AgreementInv'
<1>1. AgreementFollowsGift'
  <2> SUFFICES ASSUME NEW r \in advanced'
               PROVE  \E g \in Gifts : /\ gifts'[g] # NoGift
                                       /\ gifts'[g].row = r /\ gifts'[g].via = "process"
    BY DEF AgreementFollowsGift, Exist
  <2>1. PICK g \in Gifts : Exist(g) /\ gifts[g].row = r /\ gifts[g].via = "process"
    BY DEF AgreementInv, AgreementFollowsGift
  <2> QED BY <2>1 DEF Exist
<1>2. ASSUME NEW k \in Handlers, Holding(handler'[k])
      PROVE  gifts'[handler'[k].gift].via = "process"
  <2>1. handler'[k] = IF k = h THEN hs ELSE handler[k]
    BY DEF IInv, TypeOK
  <2>2. CASE k = h
    BY <1>2, <2>1, <2>2
  <2>3. CASE k # h
    <3>1. Holding(handler[k]) /\ handler'[k] = handler[k]
      BY <1>2, <2>1, <2>3
    <3>2. handler[k].gift \in Gifts /\ Exist(handler[k].gift)
      BY <3>1, Acting DEF Holding, HandlerOK, GiftInHandOK, HandlerState
    <3>3. gifts[handler[k].gift].via = "process"
      BY <3>1 DEF AgreementInv, Holding
    <3> QED BY <3>1, <3>2, <3>3
  <2> QED BY <2>2, <2>3
<1> QED BY <1>1, <1>2 DEF AgreementInv, Holding

\* Where each way of going on leads.
LEMMA NextCall ==
    ASSUME NEW hs \in HandlerState
    PROVE  /\ \A reply : Answer(hs, reply).pc = "idle"
           /\ \A c : /\ At(hs, c).pc = c /\ At(hs, c).op = hs.op
                     /\ At(hs, c).gift = hs.gift /\ At(hs, c).row = hs.row
           /\ \A s : Write(hs, s).pc = "read_for_status"
           /\ \A reply : Fail(hs, reply).pc = "read_for_status"
           /\ \A reply : Edited(hs, reply).pc \in {"idle", "read_for_status"}
           /\ Resolved(hs).pc \in {"read_for_edit", "stage"}
           /\ /\ Again(hs).pc = hs.pc /\ Again(hs).op = hs.op
              /\ Again(hs).gift = hs.gift /\ Again(hs).row = hs.row
BY DEF HandlerState, Answer, At, Write, Fail, Edited, TakeLock, Resolved, Again, Blank

\* Most steps neither take nor leave a handler with a gift.
LEMMA PlainStep ==
    ASSUME IInv, NEW h \in Handlers, NEW o \in Outcomes,
           \/ Arrive(h)
           \/ Fetch(h, o)
           \/ \E p \in People : Lookup(h, o, p) \/ CreatePerson(h, o, p)
           \/ ReadForEdit(h, o)
           \/ PatchPayload(h, o)
           \/ ReadForStatus(h, o)
           \/ PatchStatus(h, o)
           \/ \E r \in Rows : Stage(h, o, r)
    PROVE  /\ UNCHANGED <<gifts, advanced>>
           /\ handler' = [handler EXCEPT ![h] = handler'[h]]
           /\ ~Holding(handler'[h])
<1> DEFINE hs == handler[h]
           Goal == /\ UNCHANGED <<gifts, advanced>>
                   /\ handler' = [handler EXCEPT ![h] = handler'[h]]
                   /\ ~Holding(handler'[h])
<1> USE DEF Holding, Set, twentyVars
<1>0. hs \in HandlerState /\ h \in DOMAIN handler
  BY Acting DEF IInv, TypeOK
<1>1. CASE Arrive(h)
  <2>1. ASSUME NEW operation, NEW new, Accept(h, operation, new), ~Holding(new)
        PROVE  Goal
    BY <1>0, <2>1 DEF Accept
  <2> QED
    BY <1>1, <2>1, ZenonT(60) DEF Arrive, AcceptProcess, AcceptMarkReady, AcceptAssign, AcceptSave,
        AcceptGift, AcceptStageOnly, Edit, Write, At, Blank, NextToResolve
<1>2. CASE Fetch(h, o)
  <2>1. Fetched(hs, hs.row).pc \notin {"mark", "agreement"}
    BY <1>0, NextCall DEF Fetched, TakeLock, Fail, Write, At, NextToResolve, HandlerState, Answer, Blank
  <2> QED BY <1>0, <1>2, <2>1, NextCall DEF Fetch
<1>3. ASSUME NEW p \in People, Lookup(h, o, p) PROVE Goal
  <2> DEFINE found == [hs EXCEPT !.payload.donor = p, !.matched = TRUE]
  <2>1. found \in HandlerState
    BY <1>0 DEF HandlerState
  <2> HIDE DEF found
  <2>2. Resolved(found).pc \in {"read_for_edit", "stage"}
    BY <2>1, NextCall
  <2>3. \/ handler' = [handler EXCEPT ![h] = At(hs, "stage")]
        \/ handler' = [handler EXCEPT ![h] = At(hs, "person")]
        \/ handler' = [handler EXCEPT ![h] = Resolved(found)]
    BY <1>3 DEF Lookup, found
  <2>4. UNCHANGED <<gifts, advanced>>
    BY <1>3 DEF Lookup
  <2>5. At(hs, "stage").pc = "stage" /\ At(hs, "person").pc = "person"
    BY <1>0, NextCall
  <2> QED BY <1>0, <2>2, <2>3, <2>4, <2>5
<1>4. ASSUME NEW p \in People, CreatePerson(h, o, p) PROVE Goal
  <2> DEFINE found == [hs EXCEPT !.payload.donor = p]
  <2>1. found \in HandlerState
    BY <1>0 DEF HandlerState
  <2> HIDE DEF found
  <2>2. Resolved(found).pc \in {"read_for_edit", "stage"}
    BY <2>1, NextCall
  <2> QED BY <1>0, <1>4, <2>2, NextCall DEF CreatePerson, found
<1>5. CASE ReadForEdit(h, o)
  BY <1>0, <1>5, NextCall DEF ReadForEdit, At, HandlerState
<1>6. CASE PatchPayload(h, o)
  BY <1>0, <1>6, NextCall DEF PatchPayload
<1>7. CASE ReadForStatus(h, o)
  BY <1>0, <1>7 DEF ReadForStatus, At, HandlerState
<1>8. CASE PatchStatus(h, o)
  <2>1. \A ok : Written(hs, ok).pc \in {"idle", "create_gift"}
    BY <1>0, NextCall DEF Written
  <2> QED BY <1>0, <1>8, <2>1, NextCall DEF PatchStatus
<1>9. ASSUME NEW r \in Rows, Stage(h, o, r) PROVE Goal
  <2> DEFINE held == [hs EXCEPT !.row = r]
  <2>1. held \in HandlerState
    BY <1>0 DEF HandlerState
  <2> HIDE DEF held
  <2>2. Staged(held).pc \in {"idle", "read_for_status", "create_gift"}
    BY <2>1, NextCall DEF Staged
  <2>3. NotStaged(hs).pc \in {"idle", "create_gift"}
    BY <1>0, NextCall DEF NotStaged
  <2> QED BY <1>0, <1>9, <2>2, <2>3, NextCall DEF Stage, held
<1> QED BY <1>1, <1>2, <1>3, <1>4, <1>5, <1>6, <1>7, <1>8, <1>9

LEMMA AgreementCreateGiftStep ==
    ASSUME IInv, AgreementInv, NEW h \in Handlers, NEW o, NEW g \in Gifts,
           CreateGift(h, o, g)
    PROVE  AgreementInv'
<1> DEFINE hs == handler[h]
           held == [hs EXCEPT !.gift = g]
<1>1. hs \in HandlerState /\ HandlerOK(hs) /\ hs.pc = "create_gift" /\ ~Exist(g)
  BY Acting DEF CreateGift, Exist
<1>2. \A k \in Gifts : Exist(k) => gifts'[k] = gifts[k]
  BY <1>1 DEF CreateGift, IInv, TypeOK
<1>3. UNCHANGED advanced
  BY DEF CreateGift
<1>4. CASE o = "ok"
  <2>1. handler' = [handler EXCEPT ![h] = Created(hs, g)] /\ gifts'[g] = NewGift(hs)
    BY <1>1, <1>4 DEF CreateGift, Set, Done, IInv, TypeOK
  <2>2. held \in HandlerState /\ held.gift = g /\ held.op = hs.op
    BY <1>1 DEF HandlerState
  <2> HIDE DEF held
  <2>3. Holding(Created(hs, g)) => hs.op = "process" /\ Created(hs, g).gift = g
    <3>1. Created(hs, g) \in {Answer(held, "created"), At(held, "mark")}
      BY DEF Created, held
    <3> QED BY <2>2, <3>1, NextCall DEF Holding
  <2> QED BY <1>1, <1>2, <1>3, <2>1, <2>3, NewGiftOK, AgreementStep, ZenonT(60)
<1>5. CASE o # "ok"
  <2>1. NotCreated(hs).pc \in {"idle", "read_for_status"} /\ Again(hs).pc = "create_gift"
    BY <1>1, NextCall DEF NotCreated
  <2>2. \/ handler' = [handler EXCEPT ![h] = Again(hs)]
        \/ handler' = [handler EXCEPT ![h] = NotCreated(hs)]
    BY <1>5 DEF CreateGift, Set
  <2>3. ~Holding(Again(hs)) /\ ~Holding(NotCreated(hs))
    BY <2>1 DEF Holding
  <2> QED BY <1>2, <1>3, <2>2, <2>3, AgreementStep
<1> QED BY <1>4, <1>5

LEMMA AgreementMarkStep ==
    ASSUME IInv, AgreementInv, NEW h \in Handlers, NEW o,
           MarkProcessed(h, o) \/ AdvanceAgreement(h, o)
    PROVE  AgreementInv'
<1> DEFINE hs == handler[h]
<1>1. /\ hs \in HandlerState /\ HandlerOK(hs) /\ hs.pc \in {"mark", "agreement"}
      /\ hs.row \in Rows
  BY Acting DEF MarkProcessed, AdvanceAgreement, HandlerOK, LocalsOK, RowCalls
<1>2. /\ hs.gift \in Gifts /\ Exist(hs.gift) /\ gifts[hs.gift].row = hs.row
      /\ Holding(hs) => gifts[hs.gift].via = "process"
  BY <1>1 DEF HandlerOK, GiftInHandOK, HandlerState, AgreementInv, Holding
<1>3. UNCHANGED gifts
  BY DEF MarkProcessed, AdvanceAgreement
<1>4. \A r \in advanced' \ advanced : r = hs.row /\ Holding(hs)
  BY <1>1 DEF MarkProcessed, AdvanceAgreement, Holding, HandlerOK, LocalsOK
<1>5. \/ handler' = [handler EXCEPT ![h] = Again(hs)]
      \/ handler' = [handler EXCEPT ![h] = Marked(hs)]
      \/ handler' = [handler EXCEPT ![h] = Answer(hs, "processed")]
  BY DEF MarkProcessed, AdvanceAgreement, Set
<1>6. /\ Holding(Again(hs)) => Holding(hs) /\ Again(hs).gift = hs.gift
      /\ Holding(Marked(hs)) => Holding(hs) /\ Marked(hs).gift = hs.gift
      /\ ~Holding(Answer(hs, "processed"))
  BY <1>1, NextCall DEF Holding, Marked
<1> QED BY <1>2, <1>3, <1>4, <1>5, <1>6, AgreementStep

LEMMA AgreementNextPreserves == IInv /\ AgreementInv /\ [Next]_vars => AgreementInv'
<1> SUFFICES ASSUME IInv, AgreementInv, [Next]_vars PROVE AgreementInv'
  OBVIOUS
<1>1. ASSUME NEW h \in Handlers, Arrive(h) \/ Step(h) PROVE AgreementInv'
  <2>1. PICK o \in Outcomes :
            \/ Arrive(h)
            \/ Fetch(h, o)
            \/ \E p \in People : Lookup(h, o, p) \/ CreatePerson(h, o, p)
            \/ ReadForEdit(h, o)
            \/ PatchPayload(h, o)
            \/ ReadForStatus(h, o)
            \/ PatchStatus(h, o)
            \/ \E r \in Rows : Stage(h, o, r)
            \/ \E g \in Gifts : CreateGift(h, o, g)
            \/ MarkProcessed(h, o) \/ AdvanceAgreement(h, o)
    BY <1>1 DEF Step, Outcomes
  <2>2. CASE \/ \E g \in Gifts : CreateGift(h, o, g)
             \/ MarkProcessed(h, o) \/ AdvanceAgreement(h, o)
    BY <2>2, AgreementCreateGiftStep, AgreementMarkStep
  <2>3. CASE ~ \/ \E g \in Gifts : CreateGift(h, o, g)
               \/ MarkProcessed(h, o) \/ AdvanceAgreement(h, o)
    <3>1. /\ UNCHANGED <<gifts, advanced>>
          /\ handler' = [handler EXCEPT ![h] = handler'[h]]
          /\ ~Holding(handler'[h])
      BY <2>1, <2>3, PlainStep
    <3> QED BY <3>1, AgreementStep
  <2> QED BY <2>2, <2>3
<1>2. CASE Restart
  BY <1>2 DEF Restart, twentyVars, AgreementInv, AgreementFollowsGift, Exist, Blank
<1>3. CASE UNCHANGED vars \/ \E r \in Rows, p \in Payload : Import(r, p)
  BY <1>3 DEF Import, vars, twentyVars, AgreementInv, AgreementFollowsGift, Exist
<1> QED BY <1>1, <1>2, <1>3 DEF Next

\* The expected date of a recurring agreement moves only when processGift has
\* created a gift from the row, though the update comes two calls after the gift
\* and may be repeated, or reported as failed, on its own.
THEOREM AgreementsFollowGifts == Spec => []AgreementFollowsGift
<1>1. Init => IInv /\ AgreementInv
  BY InitOK DEF Init, AgreementInv, AgreementFollowsGift, Blank
<1>2. IInv /\ AgreementInv /\ [Next]_vars => (IInv /\ AgreementInv)'
  BY NextPreserves, AgreementNextPreserves
<1>3. AgreementInv => AgreementFollowsGift
  BY DEF AgreementInv
<1> QED BY <1>1, <1>2, <1>3, PTL DEF Spec

\* The invariant behind all of these, as the runs check it.
THEOREM FullInvariance == Spec => []FullInv
<1>1. Init => FullInv
  BY InitOK, DonorInitOK
     DEF FullInv, Init, AgreementInv, AgreementFollowsGift, Blank
<1>2. FullInv /\ [Next]_vars => FullInv'
  BY NextPreserves, DonorNextPreserves, AgreementNextPreserves DEF FullInv
<1> QED BY <1>1, <1>2, PTL DEF Spec

-----------------------------------------------------------------------------
(***************************************************************************)
(* Rows and gifts implement the ledger                                     *)
(***************************************************************************)

LEMMA LedgerInitOK == Init => Ledger!LedgerInit
<1> SUFFICES ASSUME Init PROVE Ledger!LedgerInit
  OBVIOUS
<1>1. Admitted = {}
  BY DEF Init, Admitted
<1>2. Credited = [r \in Rows |-> {}]
  BY DEF Init, Credited, Exist
<1>3. linked = [r \in Rows |-> NoGift]
  BY DEF Init
<1> QED BY <1>1, <1>2, <1>3 DEF Ledger!LedgerInit

\* "Mark ready" and the auto-process decision of an intake admit the donation.
LEMMA LedgerAdmits ==
    ASSUME IInv, NEW h \in Handlers, NEW o, NEW r \in Rows,
           \/ r = handler[h].row /\ PatchStatus(h, o)
           \/ Stage(h, o, r)
    PROVE  \/ UNCHANGED <<Admitted, Credited, linked>>
           \/ Ledger!Admit(r)
<1>1. UNCHANGED <<gifts, linked>>
  BY DEF PatchStatus, Stage
<1>2. Credited' = Credited
  BY <1>1 DEF Credited, Exist
<1>3. Admitted' = Admitted \/ Admitted' = Admitted \cup {r}
  <2>1. CASE r = handler[h].row /\ PatchStatus(h, o)
    <3>1. auto' = auto /\ (approvals' = approvals \/ approvals' = [approvals EXCEPT ![r] = @ + 1])
      BY <2>1 DEF PatchStatus
    <3> QED BY <3>1 DEF Admitted, IInv, TypeOK
  <2>2. CASE Stage(h, o, r)
    <3>1. approvals' = approvals /\ ~auto[r]
      BY <2>2 DEF Stage, IInv, TypeOK, RowsOK
    <3>2. auto' = auto \/ auto' = [auto EXCEPT ![r] = handler[h].auto]
      BY <2>2 DEF Stage
    <3>3. handler[h].auto \in BOOLEAN
      BY Acting DEF HandlerState
    <3>4. \A q \in Rows : auto'[q] = auto[q] \/ (q = r /\ auto'[q] = handler[h].auto)
      BY <3>2 DEF IInv, TypeOK
    <3> QED BY <3>1, <3>3, <3>4 DEF Admitted
  <2> QED BY <2>1, <2>2
<1> QED BY <1>1, <1>2, <1>3 DEF Ledger!Admit

\* POST /gifts from a row credits a donation that was admitted, with a gift that
\* no donation has; without a row it is no donation's.
LEMMA LedgerCredits ==
    ASSUME IInv, NEW h \in Handlers, NEW o, NEW g \in Gifts, CreateGift(h, o, g)
    PROVE  \/ UNCHANGED <<Admitted, Credited, linked>>
           \/ \E r \in Rows : Ledger!Credit(r, g)
<1> DEFINE hs == handler[h]
           r == hs.row
<1>1. hs \in HandlerState /\ HandlerOK(hs) /\ hs.pc = "create_gift" /\ ~Exist(g)
  BY Acting DEF CreateGift, Exist
<1>2. UNCHANGED <<linked, auto, approvals>>
  BY DEF CreateGift
<1>3. Admitted' = Admitted
  BY <1>2 DEF Admitted
<1>4. /\ \A k \in Gifts : k # g => gifts'[k] = gifts[k]
      /\ gifts'[g] = NoGift \/ gifts'[g] = NewGift(hs)
  BY <1>1 DEF CreateGift, IInv, TypeOK, Exist
<1>5. CASE gifts'[g] = NoGift \/ r = NoRow
  <2>1. \A q \in Rows : ~(gifts'[g] # NoGift /\ gifts'[g].row = q)
    BY <1>1, <1>4, <1>5, NewGiftOK, NothingAssumption
  <2>2. ASSUME NEW q \in Rows, NEW k \in Gifts
        PROVE  (gifts'[k] # NoGift /\ gifts'[k].row = q) <=> (gifts[k] # NoGift /\ gifts[k].row = q)
    BY <1>1, <1>4, <2>1 DEF Exist
  <2>3. Credited' = Credited
    BY <2>2 DEF Credited, Exist
  <2> QED BY <1>2, <1>3, <2>3
<1>6. CASE gifts'[g] # NoGift /\ r # NoRow
  <2>1. r \in Rows /\ gifts'[g] # NoGift /\ gifts'[g].row = r
    BY <1>1, <1>4, <1>6, NewGiftOK DEF HandlerState
  <2>2. r \in Admitted
    <3>1. (hs.op = "process" /\ approvals[r] > 0) \/ (hs.op = "gift" /\ auto[r])
      BY <1>1, <2>1, <1>6 DEF HandlerOK, LocalsOK, ApprovalOK
    <3> QED BY <2>1, <3>1 DEF Admitted
  <2>3. \A q \in Rows : g \notin Credited[q]
    BY <1>1 DEF Credited
  <2>4. Credited' = [Credited EXCEPT ![r] = @ \cup {g}]
    <3>1. ASSUME NEW q \in Rows
          PROVE  Credited'[q] = IF q = r THEN Credited[q] \cup {g} ELSE Credited[q]
      <4>1. \A k \in Gifts : (gifts'[k] # NoGift /\ gifts'[k].row = q)
                                <=> \/ gifts[k] # NoGift /\ gifts[k].row = q
                                    \/ k = g /\ q = r
        BY <1>1, <1>4, <2>1 DEF Exist
      <4> QED BY <4>1 DEF Credited, Exist
    <3>2. Credited' = [q \in Rows |-> Credited'[q]]
      BY DEF Credited
    <3>3. Credited = [q \in Rows |-> Credited[q]]
      BY DEF Credited
    <3> QED BY <2>1, <3>1, <3>2, <3>3
  <2> QED BY <1>2, <1>3, <2>1, <2>2, <2>3, <2>4 DEF Ledger!Credit
<1> QED BY <1>5, <1>6

\* patchProcessed settles a donation on a gift made from it.
LEMMA LedgerSettles ==
    ASSUME IInv, NEW h \in Handlers, NEW o, MarkProcessed(h, o)
    PROVE  \/ UNCHANGED <<Admitted, Credited, linked>>
           \/ \E r \in Rows, g \in Gifts : Ledger!Settle(r, g)
<1> DEFINE hs == handler[h]
<1>1. hs \in HandlerState /\ HandlerOK(hs) /\ hs.pc = "mark"
  BY Acting DEF MarkProcessed
<1>2. /\ hs.row \in Rows /\ hs.gift \in Gifts
      /\ Exist(hs.gift) /\ gifts[hs.gift].row = hs.row
  BY <1>1 DEF HandlerOK, LocalsOK, GiftInHandOK, RowCalls, HandlerState
<1>3. hs.gift \in Credited[hs.row]
  BY <1>2 DEF Credited
<1>4. UNCHANGED <<gifts, auto, approvals>>
  BY DEF MarkProcessed
<1>5. Admitted' = Admitted /\ Credited' = Credited
  BY <1>4 DEF Admitted, Credited, Exist
<1>6. linked' = linked \/ linked' = [linked EXCEPT ![hs.row] = hs.gift]
  BY DEF MarkProcessed
<1> QED BY <1>2, <1>3, <1>5, <1>6 DEF Ledger!Settle

LEMMA LedgerStep ==
    IInv /\ [Next]_vars => [Ledger!LedgerNext]_<<Admitted, Credited, linked>>
<1> SUFFICES ASSUME IInv, [Next]_vars
             PROVE  Ledger!LedgerNext \/ UNCHANGED <<Admitted, Credited, linked>>
  OBVIOUS
<1>0. UNCHANGED <<gifts, linked, auto, approvals>>
        => UNCHANGED <<Admitted, Credited, linked>>
  BY DEF Admitted, Credited, Exist
<1>1. ASSUME NEW h \in Handlers, Arrive(h)
      PROVE  UNCHANGED <<gifts, linked, auto, approvals>>
  BY <1>1 DEF Arrive, AcceptProcess, AcceptMarkReady, AcceptAssign, AcceptSave,
              AcceptGift, AcceptStageOnly, Accept, twentyVars
<1>2. ASSUME NEW h \in Handlers, NEW o \in Outcomes,
             \/ Fetch(h, o)
             \/ \E p \in People : Lookup(h, o, p) \/ CreatePerson(h, o, p)
             \/ ReadForEdit(h, o) \/ PatchPayload(h, o) \/ ReadForStatus(h, o)
             \/ AdvanceAgreement(h, o)
      PROVE  UNCHANGED <<gifts, linked, auto, approvals>>
  BY <1>2 DEF Fetch, Lookup, CreatePerson, ReadForEdit, PatchPayload, ReadForStatus,
              AdvanceAgreement, twentyVars
<1>3. ASSUME NEW h \in Handlers, NEW o \in Outcomes,
             PatchStatus(h, o) \/ \E r \in Rows : Stage(h, o, r)
      PROVE  Ledger!LedgerNext \/ UNCHANGED <<Admitted, Credited, linked>>
  <2>1. PatchStatus(h, o) => handler[h].row \in Rows
    BY Acting DEF PatchStatus, HandlerOK, LocalsOK, RowCalls
  <2> QED BY <1>3, <2>1, LedgerAdmits DEF Ledger!LedgerNext
<1>4. ASSUME NEW h \in Handlers, NEW o \in Outcomes,
             (\E g \in Gifts : CreateGift(h, o, g)) \/ MarkProcessed(h, o)
      PROVE  Ledger!LedgerNext \/ UNCHANGED <<Admitted, Credited, linked>>
  BY <1>4, LedgerCredits, LedgerSettles DEF Ledger!LedgerNext
<1>5. ASSUME NEW r \in Rows, NEW p \in Payload, Import(r, p)
      PROVE  UNCHANGED <<gifts, linked, auto, approvals>>
  BY <1>5 DEF Import
<1>6. CASE Restart \/ UNCHANGED vars
  BY <1>0, <1>6 DEF Restart, vars, twentyVars
<1> QED BY <1>0, <1>1, <1>2, <1>3, <1>4, <1>5, <1>6 DEF Next, Step

\* Staging rows and gifts implement the ledger: only admitted donations become
\* gifts, a gift stays with its donation, and a row's giftId is one of the gifts
\* made from it, whatever requests, failures and crashes there are.
THEOREM LedgerIsKept == Spec => KeepsLedger
<1>1. Init => Ledger!LedgerInit
  BY LedgerInitOK
<1>2. IInv /\ [Next]_vars => [Ledger!LedgerNext]_<<Admitted, Credited, linked>>
  BY LedgerStep
<1>3. Ledger!ledgerVars = <<Admitted, Credited, linked>>
  BY DEF Ledger!ledgerVars
<1> QED BY <1>1, <1>2, <1>3, Invariance, PTL DEF Spec, KeepsLedger, Ledger!LedgerSpec,
           Ledger!ledgerVars

-----------------------------------------------------------------------------
(***************************************************************************)
(* While requests do not overlap                                           *)
(***************************************************************************)

\* A step that creates no gift of processGift.
LEMMA BudgetStep ==
    ASSUME IInv, BudgetInv, NEW h \in Handlers, Handlers = {h},
           \A r \in Rows :
               /\ ProcessGifts(r)' = ProcessGifts(r)
               /\ approvals'[r] \in Nat /\ approvals[r] <= approvals'[r]
               /\ CanProcess(status'[r]) \/ (handler'[h].row = r /\ Spending(handler'[h]))
                      => Unspent(r) \/ approvals[r] < approvals'[r],
           SpendingOK(handler'[h], status')
    PROVE  BudgetInv'
<1>1. ASSUME NEW r \in Rows
      PROVE  /\ IsFiniteSet(ProcessGifts(r)')
             /\ Cardinality(ProcessGifts(r)') + (IF Unspent(r)' THEN 1 ELSE 0)
                    <= approvals'[r]
  <2>1. Unspent(r)' => Unspent(r) \/ approvals[r] < approvals'[r]
    BY DEF Unspent
  <2>2. IsFiniteSet(ProcessGifts(r)) /\ approvals[r] \in Nat
        /\ Cardinality(ProcessGifts(r)) + (IF Unspent(r) THEN 1 ELSE 0) <= approvals[r]
    BY DEF BudgetInv, IInv, TypeOK
  <2>3. Cardinality(ProcessGifts(r)) \in Nat
    BY <2>2, FS_CardinalityType
  <2> QED BY <2>1, <2>2, <2>3
<1>2. \A k \in Handlers : SpendingOK(handler'[k], status')
  OBVIOUS
<1> QED BY <1>1, <1>2 DEF BudgetInv

\* The same when statuses, approvals and gifts stay as they are.
LEMMA LocalBudgetStep ==
    ASSUME IInv, BudgetInv, NEW h \in Handlers, Handlers = {h},
           UNCHANGED <<status, approvals, gifts>>,
           Spending(handler'[h]) => handler'[h].row \in Rows /\ Unspent(handler'[h].row),
           SpendingOK(handler'[h], status)
    PROVE  BudgetInv'
<1>1. \A r \in Rows : /\ ProcessGifts(r)' = ProcessGifts(r)
                      /\ approvals'[r] \in Nat /\ approvals[r] <= approvals'[r]
  BY DEF ProcessGifts, Exist, IInv, TypeOK
<1>2. \A r \in Rows : CanProcess(status'[r]) => Unspent(r)
  BY DEF Unspent
<1> QED BY <1>1, <1>2, BudgetStep

LEMMA BudgetArriveStep ==
    ASSUME IInv, BudgetInv, NEW h \in Handlers, Handlers = {h}, Arrive(h)
    PROVE  BudgetInv'
<1>1. UNCHANGED <<status, approvals, gifts>>
  BY DEF Arrive, AcceptProcess, AcceptMarkReady, AcceptAssign, AcceptSave, AcceptGift,
         AcceptStageOnly, Accept, twentyVars
<1>2. ASSUME NEW operation, NEW new, Accept(h, operation, new),
             new.op = "process" => new.pc = "fetch"
      PROVE  ~Spending(handler'[h]) /\ SpendingOK(handler'[h], status)
  BY <1>2 DEF Accept, Set, Spending, SpendingOK, IInv, TypeOK
<1>3. ~Spending(handler'[h]) /\ SpendingOK(handler'[h], status)
  BY <1>2 DEF Arrive, AcceptProcess, AcceptMarkReady, AcceptAssign, AcceptSave, AcceptGift,
              AcceptStageOnly, Edit, Write, At, Blank
<1> QED BY <1>1, <1>3, LocalBudgetStep

LEMMA BudgetFetchStep ==
    ASSUME IInv, BudgetInv, NEW h \in Handlers, Handlers = {h}, NEW o, Fetch(h, o)
    PROVE  BudgetInv'
<1> DEFINE hs == handler[h]
           r == hs.row
           held == [hs EXCEPT !.payload = raw[r]]
           new == IF o = "ok" THEN Fetched(hs, r) ELSE Answer(hs, "error")
<1>1. hs \in HandlerState /\ hs.pc = "fetch" /\ r \in Rows /\ hs.op = "process"
  BY Acting DEF Fetch, HandlerOK, LocalsOK, RowCalls
<1>2. handler'[h] = new /\ UNCHANGED <<status, approvals, gifts>>
  BY DEF Fetch, Set, IInv, TypeOK, twentyVars
<1>3. /\ Spending(new) => new.row = r /\ CanProcess(status[r])
      /\ SpendingOK(new, status)
  <2>1. \A reply : Answer(hs, reply).op = "none"
    BY DEF Answer, Blank
  <2>2. CASE o # "ok" \/ AlreadyProcessed(r) \/ ~CanProcess(status[r])
    <3>1. new.op = "none"
      BY <2>1, <2>2 DEF Fetched, Answer, Blank
    <3> QED BY <3>1 DEF Spending, SpendingOK
  <2>3. CASE o = "ok" /\ ~AlreadyProcessed(r) /\ CanProcess(status[r])
    <3>1. ~Locked(status[r])
      BY <2>3 DEF CanProcess, Locked
    <3>2. \A b \in HandlerState : b.row = r =>
              /\ TakeLock(b).row = r /\ TakeLock(b).pc = "read_for_status"
              /\ \A reply : Fail(b, reply).row = r /\ Fail(b, reply).pc = "read_for_status"
      BY DEF TakeLock, Fail, Write, At, HandlerState
    <3>3. CASE raw[r] = NoPayload
      <4>1. new.row = r /\ new.pc = "read_for_status"
        BY <1>1, <2>3, <3>1, <3>2, <3>3 DEF Fetched
      <4> QED BY <2>3, <4>1 DEF SpendingOK
    <3>4. CASE raw[r] # NoPayload
      <4>1. raw[r] \in Payload
        BY <1>1, <3>4 DEF IInv, TypeOK
      <4>2. held \in HandlerState /\ held.row = r
        BY <1>1, <4>1 DEF HandlerState, Payload
      <4>3. new \in {TakeLock(held), At(held, NextToResolve(raw[r])), Fail(held, "error")}
        BY <2>3, <3>1, <3>4 DEF Fetched
      <4> HIDE DEF held
      <4>4. new.row = r /\ new.pc \in {"read_for_status", "lookup", "person"}
        BY <3>2, <4>2, <4>3, NextCall DEF NextToResolve
      <4> QED BY <2>3, <4>4 DEF SpendingOK
    <3> QED BY <3>3, <3>4
  <2> QED BY <2>2, <2>3
<1> QED BY <1>1, <1>2, <1>3, LocalBudgetStep DEF Unspent

\* Finding the donor, storing it and reading the row back spend nothing.
LEMMA BudgetDonorStep ==
    ASSUME IInv, BudgetInv, NEW h \in Handlers, Handlers = {h}, NEW o,
           \/ \E p \in People : Lookup(h, o, p) \/ CreatePerson(h, o, p)
           \/ ReadForEdit(h, o)
           \/ PatchPayload(h, o)
    PROVE  BudgetInv'
<1> DEFINE hs == handler[h]
           new == handler'[h]
<1>1. /\ hs \in HandlerState /\ HandlerOK(hs)
      /\ hs.pc \in {"lookup", "person", "read_for_edit", "edit"}
      /\ h \in DOMAIN handler
  BY Acting DEF Lookup, CreatePerson, ReadForEdit, PatchPayload, IInv, TypeOK
<1>2. hs.op = "process" => hs.row \in Rows /\ CanProcess(status[hs.row])
  BY <1>1 DEF BudgetInv, SpendingOK, HandlerOK, LocalsOK
<1>3. UNCHANGED <<status, approvals, gifts>>
  BY DEF Lookup, CreatePerson, ReadForEdit, PatchPayload, twentyVars
<1>4. \/ new.op # "process"
      \/ /\ hs.op = "process" /\ new.row = hs.row
         /\ new.pc \in {"person", "read_for_edit", "edit", "read_for_status"}
  <2>1. /\ \A reply : Answer(hs, reply).op = "none"
        /\ \A b \in HandlerState :
               /\ \A reply : Edited(b, reply).op = "none" \/
                     /\ Edited(b, reply).row = b.row /\ Edited(b, reply).op = b.op
                     /\ Edited(b, reply).pc = "read_for_status"
               /\ \A reply : Fail(b, reply).row = b.row /\ Fail(b, reply).op = b.op
                             /\ Fail(b, reply).pc = "read_for_status"
               /\ Resolved(b).row = b.row /\ Resolved(b).op = b.op
               /\ b.op = "process" => Resolved(b).pc = "read_for_edit"
    BY DEF Answer, Blank, Edited, TakeLock, Fail, Write, At, HandlerState, Resolved
  <2>2. ASSUME NEW p \in People, Lookup(h, o, p)
        PROVE  \/ new.op # "process"
               \/ hs.op = "process" /\ new.row = hs.row /\ new.pc \in {"person", "read_for_edit"}
    <3> DEFINE found == [hs EXCEPT !.payload.donor = p, !.matched = TRUE]
    <3>1. found \in HandlerState /\ found.op = hs.op /\ found.row = hs.row
      BY <1>1, ZenonT(60) DEF HandlerState
    <3>2. \/ hs.op # "process" /\ new = At(hs, "stage")
          \/ new = At(hs, "person")
          \/ new = Resolved(found)
      BY <1>1, <2>2 DEF Lookup, Set
    <3> HIDE DEF found
    <3> QED BY <1>1, <2>1, <3>1, <3>2, NextCall
  <2>3. ASSUME NEW p \in People, CreatePerson(h, o, p)
        PROVE  \/ new.op # "process"
               \/ /\ hs.op = "process" /\ new.row = hs.row
                  /\ new.pc \in {"person", "read_for_edit", "read_for_status"}
    <3> DEFINE found == [hs EXCEPT !.payload.donor = p]
    <3>1. found \in HandlerState /\ found.op = hs.op /\ found.row = hs.row
      BY <1>1 DEF HandlerState
    <3>2. new \in {Resolved(found), Again(hs), Fail(hs, "error"), Answer(hs, "error")}
          /\ hs.pc = "person"
      BY <1>1, <2>3 DEF CreatePerson, Set
    <3> HIDE DEF found
    <3> QED BY <1>1, <2>1, <3>1, <3>2, NextCall
  <2>4. CASE ReadForEdit(h, o)
    <3> DEFINE read == [hs EXCEPT !.seen = IF raw[hs.row] = NoPayload
                                           THEN col[hs.row] ELSE raw[hs.row]]
    <3>1. new = Edited(hs, "error") \/ new = At(read, "edit")
      BY <1>1, <2>4 DEF ReadForEdit, Set
    <3>2. At(read, "edit").pc = "edit" /\ At(read, "edit").row = hs.row /\ At(read, "edit").op = hs.op
      BY <1>1 DEF At, HandlerState
    <3> HIDE DEF read
    <3> QED BY <1>1, <2>1, <3>1, <3>2
  <2>5. CASE PatchPayload(h, o)
    <3>1. hs.pc = "edit" /\ (new = Again(hs) \/ \E reply : new = Edited(hs, reply))
      BY <1>1, <2>5 DEF PatchPayload, Set
    <3> QED BY <1>1, <2>1, <3>1, NextCall
  <2> QED BY <2>2, <2>3, <2>4, <2>5
<1>5. Spending(new) => new.row \in Rows /\ Unspent(new.row)
  BY <1>2, <1>4 DEF Spending, Unspent
<1>6. SpendingOK(new, status)
  BY <1>2, <1>4 DEF SpendingOK
<1> QED BY <1>3, <1>5, <1>6, LocalBudgetStep

LEMMA BudgetReadForStatusStep ==
    ASSUME IInv, BudgetInv, NEW h \in Handlers, Handlers = {h}, NEW o, ReadForStatus(h, o)
    PROVE  BudgetInv'
<1> DEFINE hs == handler[h]
           read == [hs EXCEPT !.seen = IF o = "ok" THEN raw[hs.row] ELSE NoPayload]
<1>1. /\ hs \in HandlerState /\ hs.pc = "read_for_status" /\ hs.row \in Rows
  BY Acting DEF ReadForStatus, HandlerOK, LocalsOK, RowCalls
<1>2. handler'[h] = At(read, "status") /\ UNCHANGED <<status, approvals, gifts>>
  BY DEF ReadForStatus, Set, IInv, TypeOK, twentyVars
<1>3. /\ At(read, "status").pc = "status" /\ At(read, "status").row = hs.row
      /\ At(read, "status").op = hs.op /\ At(read, "status").write = hs.write
  BY <1>1 DEF At, HandlerState
<1> HIDE DEF read
<1>4. Spending(handler'[h]) => handler'[h].row \in Rows /\ Unspent(handler'[h].row)
  BY <1>1, <1>2, <1>3 DEF Spending, Unspent
<1> QED BY <1>2, <1>3, <1>4, LocalBudgetStep DEF SpendingOK

LEMMA BudgetPatchStatusStep ==
    ASSUME IInv, BudgetInv, NEW h \in Handlers, Handlers = {h}, NEW o, PatchStatus(h, o),
           Faults["lock"] = {}
    PROVE  BudgetInv'
<1> DEFINE hs == handler[h]
           r == hs.row
           new == handler'[h]
<1>1. /\ hs \in HandlerState /\ HandlerOK(hs) /\ hs.pc = "status" /\ r \in Rows
      /\ h \in DOMAIN handler
  BY Acting DEF PatchStatus, HandlerOK, LocalsOK, RowCalls, IInv, TypeOK
<1>2. \A q \in Rows : ProcessGifts(q)' = ProcessGifts(q)
  BY DEF PatchStatus, ProcessGifts, Exist
<1>3. new = Again(hs) \/ \E ok : new = Written(hs, ok)
  BY <1>1 DEF PatchStatus, Set
<1>3a. \A reply : Answer(hs, reply).op = "none" /\ Answer(hs, reply).row = r
  BY <1>1 DEF Answer, Blank, HandlerState
<1>4. /\ hs.write = "processing" => o = "ok"
      /\ o = "ok" => new = Written(hs, TRUE) /\ Done(o)
  BY <1>1 DEF PatchStatus, Set, Ends, StatusCall, Done
<1>5. \A q \in Rows : q # r => status'[q] = status[q] /\ approvals'[q] = approvals[q]
  BY DEF PatchStatus, IInv, TypeOK
<1>6. CASE hs.write = "none"
  <2>1. hs.op = "gift" /\ UNCHANGED <<status, approvals, gifts>>
    BY <1>1, <1>6 DEF PatchStatus, HandlerOK, LocalsOK
  <2>2. new.op # "process"
    BY <1>1, <1>3, <1>6, <1>3a, <2>1, NextCall DEF Written
  <2> QED BY <2>1, <2>2, LocalBudgetStep DEF Spending, SpendingOK
<1>7. CASE hs.write = "ready_for_process"
  <2>1. hs.op = "mark_ready" /\ new.op # "process"
    BY <1>1, <1>3, <1>7, <1>3a, NextCall DEF HandlerOK, LocalsOK, Written
  <2>2. \/ status' = status /\ approvals' = approvals
        \/ approvals'[r] = approvals[r] + 1
    BY <1>1, <1>7 DEF PatchStatus, IInv, TypeOK
  <2>3. ASSUME NEW q \in Rows
        PROVE  /\ approvals'[q] \in Nat /\ approvals[q] <= approvals'[q]
               /\ CanProcess(status'[q]) => CanProcess(status[q]) \/ approvals[q] < approvals'[q]
    <3>1. approvals[q] \in Nat
      BY DEF IInv, TypeOK
    <3> QED BY <1>5, <2>2, <3>1
  <2> QED BY <1>2, <2>1, <2>3, BudgetStep DEF Spending, SpendingOK, Unspent
<1>8. CASE hs.write \in {"processing", "process_failed"}
  <2>1. hs.op = "process" /\ Spending(hs) /\ Unspent(r)
    BY <1>1, <1>8 DEF HandlerOK, LocalsOK, Spending, Unspent
  <2>2. approvals' = approvals /\ \A q \in Rows : approvals[q] \in Nat
    BY <1>8 DEF PatchStatus, IInv, TypeOK
  <2>3. \A q \in Rows : CanProcess(status'[q]) => Unspent(q)
    BY <1>5, <2>1 DEF Unspent
  <2>4. CASE hs.write = "processing"
    <3>1. new = At(hs, "create_gift") /\ status'[r] = "processing"
      BY <1>1, <1>4, <2>4 DEF Written, PatchStatus, IInv, TypeOK
    <3>2. new.row = r /\ new.pc = "create_gift"
      BY <1>1, <3>1, NextCall
    <3>3. SpendingOK(new, status')
      BY <3>1, <3>2 DEF SpendingOK, CanProcess
    <3> QED BY <1>2, <2>1, <2>2, <2>3, <3>2, <3>3, BudgetStep
  <2>5. CASE hs.write = "process_failed"
    <3>1. new.row = r /\ (new.op # "process" \/ new.pc = "status")
      BY <1>1, <1>3, <1>3a, <2>5, NextCall DEF Written
    <3>2. SpendingOK(new, status')
      BY <3>1 DEF SpendingOK
    <3> QED BY <1>2, <2>1, <2>2, <2>3, <3>1, <3>2, BudgetStep
  <2> QED BY <1>8, <2>4, <2>5
<1>9. hs.write \in {"none", "ready_for_process", "processing", "process_failed"}
  BY <1>1 DEF HandlerState
<1> QED BY <1>6, <1>7, <1>8, <1>9

LEMMA BudgetStageStep ==
    ASSUME IInv, BudgetInv, NEW h \in Handlers, Handlers = {h}, NEW o, NEW r \in Rows,
           Stage(h, o, r)
    PROVE  BudgetInv'
<1> DEFINE hs == handler[h]
           held == [hs EXCEPT !.row = r]
           new == handler'[h]
<1>1. /\ hs \in HandlerState /\ hs.op \in {"gift", "stage_only"} /\ h \in DOMAIN handler
  BY Acting DEF Stage, HandlerOK, LocalsOK, IInv, TypeOK
<1>2. new.op # "process"
  <2>1. held \in HandlerState /\ held.op = hs.op
    BY <1>1 DEF HandlerState
  <2>2. new \in {Staged(held), NotStaged(hs), Again(hs)}
    BY <1>1 DEF Stage, Set
  <2> HIDE DEF held
  <2>3. \A b \in HandlerState : /\ \A reply : Answer(b, reply).op = "none"
                                /\ \A s : Write(b, s).op = b.op
    BY DEF Answer, Blank, Write, At, HandlerState
  <2>4. Staged(held).op \in {"none", hs.op} /\ NotStaged(hs).op \in {"none", hs.op}
    BY <1>1, <2>1, <2>3, NextCall DEF Staged, NotStaged
  <2> QED BY <1>1, <2>2, <2>4, NextCall
<1>3. UNCHANGED <<approvals, gifts>>
  BY DEF Stage
<1>4. \A q \in Rows : CanProcess(status'[q]) => CanProcess(status[q])
  BY DEF Stage, CanProcess, IInv, TypeOK
<1>5. \A q \in Rows : /\ ProcessGifts(q)' = ProcessGifts(q)
                      /\ approvals'[q] \in Nat /\ approvals[q] <= approvals'[q]
  BY <1>3 DEF ProcessGifts, Exist, IInv, TypeOK
<1> QED BY <1>2, <1>4, <1>5, BudgetStep DEF Spending, SpendingOK, Unspent

LEMMA BudgetMarkStep ==
    ASSUME IInv, BudgetInv, NEW h \in Handlers, Handlers = {h}, NEW o,
           MarkProcessed(h, o) \/ AdvanceAgreement(h, o)
    PROVE  BudgetInv'
<1> DEFINE hs == handler[h]
           new == handler'[h]
<1>1. hs \in HandlerState /\ hs.pc \in {"mark", "agreement"} /\ h \in DOMAIN handler
  BY Acting DEF MarkProcessed, AdvanceAgreement, IInv, TypeOK
<1>2. new.op = "none" \/ new.pc \in {"mark", "agreement"}
  <2>1. \A reply : Answer(hs, reply).op = "none"
    BY DEF Answer, Blank
  <2>2. new \in {Again(hs), Answer(hs, "created"), Answer(hs, "processed"), At(hs, "agreement")}
    BY <1>1 DEF MarkProcessed, AdvanceAgreement, Marked, Set
  <2> QED BY <1>1, <2>1, <2>2, NextCall
<1>3. UNCHANGED <<approvals, gifts>>
  BY DEF MarkProcessed, AdvanceAgreement
<1>4. \A q \in Rows : CanProcess(status'[q]) => CanProcess(status[q])
  BY DEF MarkProcessed, AdvanceAgreement, CanProcess, IInv, TypeOK
<1>5. \A q \in Rows : /\ ProcessGifts(q)' = ProcessGifts(q)
                      /\ approvals'[q] \in Nat /\ approvals[q] <= approvals'[q]
  BY <1>3 DEF ProcessGifts, Exist, IInv, TypeOK
<1> QED BY <1>2, <1>4, <1>5, BudgetStep DEF Spending, SpendingOK, Unspent

\* The only step that spends: the approval was open, and is closed with it.
LEMMA BudgetCreateGiftStep ==
    ASSUME IInv, BudgetInv, NEW h \in Handlers, Handlers = {h}, NEW o, NEW g \in Gifts,
           CreateGift(h, o, g), Faults["create_gift"] \subseteq {"failed"}
    PROVE  BudgetInv'
<1> DEFINE hs == handler[h]
           r == hs.row
           held == [hs EXCEPT !.gift = g]
           new == handler'[h]
<1>1. /\ hs \in HandlerState /\ HandlerOK(hs) /\ hs.pc = "create_gift" /\ ~Exist(g)
      /\ h \in DOMAIN handler /\ o \in {"ok", "failed"}
  BY Acting DEF CreateGift, Exist, Ends, IInv, TypeOK
<1>2. /\ \A reply : Answer(hs, reply).op = "none"
      /\ \A reply : /\ Fail(hs, reply).row = r /\ Fail(hs, reply).pc = "read_for_status"
      /\ UNCHANGED <<status, approvals>>
  BY <1>1 DEF Answer, Blank, Fail, Write, At, HandlerState, CreateGift
<1>3. CASE o = "failed"
  <2>1. gifts' = gifts /\ new = NotCreated(hs)
    BY <1>1, <1>3 DEF CreateGift, Set, Done
  <2>2. new.op = "none" \/ (hs.op = "process" /\ new.row = r /\ new.pc = "read_for_status")
    BY <1>2, <2>1 DEF NotCreated
  <2>3. hs.op = "process" => r \in Rows /\ Unspent(r)
    BY <1>1 DEF HandlerOK, LocalsOK, Unspent, Spending
  <2> QED BY <1>2, <2>1, <2>2, <2>3, LocalBudgetStep DEF Spending, SpendingOK
<1>4. CASE o = "ok"
  <2>1. new = Created(hs, g) /\ gifts' = [gifts EXCEPT ![g] = NewGift(hs)]
    BY <1>1, <1>4 DEF CreateGift, Set, Done
  <2>2. new.op = "none" \/ new.pc = "mark"
    BY <2>1 DEF Created, Answer, Blank, At, HandlerState
  <2>3. \A k \in Gifts : gifts'[k] = IF k = g THEN NewGift(hs) ELSE gifts[k]
    BY <2>1 DEF IInv, TypeOK
  <2>4. NewGift(hs) # NoGift /\ NewGift(hs).row = r
        /\ (NewGift(hs).via = "process" <=> hs.op = "process")
    BY <1>1, NewGiftOK
  <2>5. ASSUME NEW q \in Rows
        PROVE  ProcessGifts(q)' = IF q = r /\ hs.op = "process"
                                  THEN ProcessGifts(q) \cup {g} ELSE ProcessGifts(q)
    BY <1>1, <2>3, <2>4 DEF ProcessGifts, Exist
  <2>6. CASE hs.op # "process"
    <3>1. ~Spending(new) /\ SpendingOK(new, status')
      BY <2>2 DEF Spending, SpendingOK
    <3>2. \A q \in Rows : /\ ProcessGifts(q)' = ProcessGifts(q)
                          /\ approvals'[q] \in Nat /\ approvals[q] <= approvals'[q]
                          /\ CanProcess(status'[q]) => Unspent(q)
      BY <1>2, <2>5, <2>6 DEF IInv, TypeOK, Unspent
    <3> QED BY <3>1, <3>2, BudgetStep
  <2>7. CASE hs.op = "process"
    <3>1. r \in Rows /\ ~CanProcess(status[r]) /\ Unspent(r)
      BY <1>1, <2>7 DEF HandlerOK, LocalsOK, BudgetInv, SpendingOK, Unspent, Spending
    <3>2. ~Spending(new) /\ SpendingOK(new, status')
      BY <2>2 DEF Spending, SpendingOK
    <3>3. \A q \in Rows : /\ Unspent(q)' => Unspent(q) /\ q # r
                          /\ approvals[q] \in Nat /\ approvals'[q] = approvals[q]
      BY <1>2, <3>1, <3>2 DEF Unspent, IInv, TypeOK
    <3>4. ASSUME NEW q \in Rows
          PROVE  /\ IsFiniteSet(ProcessGifts(q)')
                 /\ Cardinality(ProcessGifts(q)') + (IF Unspent(q)' THEN 1 ELSE 0)
                        <= approvals'[q]
      <4>1. /\ IsFiniteSet(ProcessGifts(q))
            /\ Cardinality(ProcessGifts(q)) + (IF Unspent(q) THEN 1 ELSE 0) <= approvals[q]
        BY DEF BudgetInv
      <4>2. Cardinality(ProcessGifts(q)) \in Nat
        BY <4>1, FS_CardinalityType
      <4>3. CASE q # r
        BY <2>5, <3>3, <4>1, <4>2, <4>3
      <4>4. CASE q = r
        <5>1. ProcessGifts(q)' = ProcessGifts(q) \cup {g}
          BY <2>5, <2>7, <4>4
        <5>2. g \notin ProcessGifts(q)
          BY <1>1 DEF ProcessGifts
        <5>3. /\ IsFiniteSet(ProcessGifts(q)')
              /\ Cardinality(ProcessGifts(q)') = Cardinality(ProcessGifts(q)) + 1
          BY <4>1, <5>1, <5>2, FS_AddElement
        <5>4. Unspent(q) /\ ~Unspent(q)'
          BY <3>1, <3>3, <4>4
        <5> QED BY <3>3, <4>1, <4>2, <5>3, <5>4
      <4> QED BY <4>3, <4>4
    <3> QED BY <3>2, <3>4 DEF BudgetInv
  <2> QED BY <2>6, <2>7
<1> QED BY <1>1, <1>3, <1>4

LEMMA BudgetNextPreserves ==
    ASSUME IInv, BudgetInv, [Next]_vars, NEW k \in Handlers, Handlers = {k},
           Faults["lock"] = {}, Faults["create_gift"] \subseteq {"failed"}
    PROVE  BudgetInv'
<1>1. ASSUME NEW h \in Handlers, Arrive(h) \/ Step(h) PROVE BudgetInv'
  <2>1. Handlers = {h}
    OBVIOUS
  <2> QED BY <1>1, <2>1, BudgetArriveStep, BudgetFetchStep, BudgetDonorStep,
             BudgetReadForStatusStep, BudgetPatchStatusStep, BudgetStageStep,
             BudgetCreateGiftStep, BudgetMarkStep DEF Step
<1>2. ASSUME NEW r \in Rows, NEW p \in Payload, Import(r, p) PROVE BudgetInv'
  <2>1. UNCHANGED <<approvals, gifts, handler>>
    BY <1>2 DEF Import
  <2>2. /\ ~Exists(r) /\ status'[r] = "pending"
        /\ \A q \in Rows : q # r => status'[q] = status[q]
    BY <1>2 DEF Import, IInv, TypeOK
  <2>3. \A q \in Rows : /\ ProcessGifts(q)' = ProcessGifts(q)
                        /\ approvals'[q] \in Nat /\ approvals[q] <= approvals'[q]
                        /\ CanProcess(status'[q]) => CanProcess(status[q])
    BY <2>1, <2>2 DEF ProcessGifts, Exist, IInv, TypeOK, CanProcess
  <2>4. SpendingOK(handler'[k], status')
    <3>1. handler[k].op = "process" => handler[k].row \in Rows /\ handler[k].row # r
      BY <2>2, Acting, NothingAssumption DEF HandlerOK, LocalsOK, ApprovalOK
    <3> QED BY <2>1, <2>2, <3>1 DEF BudgetInv, SpendingOK
  <2> QED BY <2>1, <2>3, <2>4, BudgetStep DEF Unspent
<1>3. CASE Restart
  <2>1. ~Spending(handler'[k]) /\ SpendingOK(handler'[k], status)
        /\ UNCHANGED <<status, approvals, gifts>>
    BY <1>3, BlankFields DEF Restart, Spending, SpendingOK, twentyVars
  <2> QED BY <2>1, LocalBudgetStep
<1>4. CASE UNCHANGED vars
  BY <1>4 DEF vars, twentyVars, BudgetInv, SpendingOK, ProcessGifts, Exist, Unspent
<1> QED BY <1>1, <1>2, <1>3, <1>4 DEF Next

\* One "Mark ready" is worth at most one gift, through failed attempts, crashes
\* and repeated clicks on "Process now", provided that requests do not overlap,
\* the lock is written when Twenty says so, and POST /gifts is neither repeated
\* nor done and reported as failed.  Each proviso is needed.
THEOREM OneGiftForEachApproval ==
    ASSUME NEW k \in Handlers, Handlers = {k},
           Faults["lock"] = {}, Faults["create_gift"] \subseteq {"failed"}
    PROVE  Spec => []OneGiftPerApproval
<1>1. Init => BudgetInv
  <2> SUFFICES ASSUME Init PROVE BudgetInv
    OBVIOUS
  <2>1. \A r \in Rows : ProcessGifts(r) = {} /\ approvals[r] = 0 /\ ~Unspent(r)
    BY BlankFields DEF Init, ProcessGifts, Exist, Unspent, CanProcess, Spending
  <2>2. \A h \in Handlers : SpendingOK(handler[h], status)
    BY BlankFields DEF Init, SpendingOK
  <2>3. IsFiniteSet({}) /\ Cardinality({}) = 0
    BY FS_EmptySet
  <2> QED BY <2>1, <2>2, <2>3 DEF BudgetInv
<1>2. IInv /\ BudgetInv /\ [Next]_vars => BudgetInv'
  BY BudgetNextPreserves
<1>3. BudgetInv /\ IInv => OneGiftPerApproval
  <2> SUFFICES ASSUME BudgetInv, IInv, NEW r \in Rows
               PROVE  Cardinality(ProcessGifts(r)) <= approvals[r]
    BY DEF OneGiftPerApproval
  <2>1. /\ IsFiniteSet(ProcessGifts(r)) /\ approvals[r] \in Nat
        /\ Cardinality(ProcessGifts(r)) + (IF Unspent(r) THEN 1 ELSE 0) <= approvals[r]
    BY DEF BudgetInv, IInv, TypeOK
  <2>2. Cardinality(ProcessGifts(r)) \in Nat
    BY <2>1, FS_CardinalityType
  <2> QED BY <2>1, <2>2
<1> QED BY <1>1, <1>2, <1>3, Invariance, PTL DEF Spec

\* What a handler about to write agrees with, given the columns of the rows.
LEMMA ShownStep ==
    ASSUME ShownInv, NEW h \in Handlers, Handlers = {h},
           \A r \in Rows :
               /\ raw'[r] # NoPayload => raw'[r].donor = col'[r].donor
               /\ ~Exists(r)' => raw'[r] = NoPayload,
           handler'[h].pc = "edit" /\ ~HasDonor(Merged(handler'[h])) =>
               col'[handler'[h].row].donor = NoPerson,
           handler'[h].pc = "status" /\ handler'[h].seen # NoPayload =>
               handler'[h].seen.donor = col'[handler'[h].row].donor
    PROVE  ShownInv'
<1>1. \A k \in Handlers : k = h
  OBVIOUS
<1> QED BY <1>1 DEF ShownInv

\* A step that leaves the rows alone and does not end at a write.
LEMMA LocalShownStep ==
    ASSUME ShownInv, NEW h \in Handlers, Handlers = {h},
           UNCHANGED <<status, raw, col>>, handler'[h].pc \notin {"edit", "status"}
    PROVE  ShownInv'
<1>1. \A r \in Rows : /\ raw'[r] # NoPayload => raw'[r].donor = col'[r].donor
                      /\ ~Exists(r)' => raw'[r] = NoPayload
  BY DEF ShownInv, Exists
<1> QED BY <1>1, ShownStep

LEMMA ShownPlainStep ==
    ASSUME IInv, ShownInv, NEW h \in Handlers, Handlers = {h}, NEW o,
           \/ Arrive(h)
           \/ Fetch(h, o)
           \/ \E p \in People : Lookup(h, o, p) \/ CreatePerson(h, o, p)
           \/ \E g \in Gifts : CreateGift(h, o, g)
           \/ MarkProcessed(h, o) \/ AdvanceAgreement(h, o)
    PROVE  ShownInv'
<1> DEFINE hs == handler[h]
           new == handler'[h]
           away == new.pc \notin {"edit", "status"}
<1>1. hs \in HandlerState /\ h \in DOMAIN handler
  BY Acting DEF IInv, TypeOK
<1>2. ASSUME NEW b \in HandlerState
      PROVE  /\ \A reply : Answer(b, reply).pc = "idle"
             /\ \A reply : Fail(b, reply).pc = "read_for_status"
             /\ TakeLock(b).pc = "read_for_status"
             /\ Resolved(b).pc \in {"read_for_edit", "stage"}
             /\ \A c : At(b, c).pc = c
  BY DEF Answer, Blank, Fail, TakeLock, Write, At, HandlerState, Resolved
<1>3. CASE Arrive(h)
  <2>1. ASSUME NEW operation, NEW b, Accept(h, operation, b),
               b.pc \notin {"edit", "status"}
        PROVE  UNCHANGED <<status, raw, col>> /\ away
    BY <1>1, <2>1 DEF Accept, Set, twentyVars
  <2>2. UNCHANGED <<status, raw, col>> /\ away
    BY <1>3, <2>1, ZenonT(60) DEF Arrive, AcceptProcess, AcceptMarkReady, AcceptAssign, AcceptSave,
           AcceptGift, AcceptStageOnly, Edit, Write, At, Blank, NextToResolve
  <2> QED BY <2>2, LocalShownStep
<1>4. CASE Fetch(h, o)
  <2> DEFINE r == hs.row
             held == [hs EXCEPT !.payload = raw[r]]
  <2>1. r \in Rows
    BY <1>4, Acting DEF Fetch, HandlerOK, LocalsOK, RowCalls
  <2>2. \/ new \in {Answer(hs, "locked"), Answer(hs, "not_ready"), Fail(hs, "missing_payload"), Answer(hs, "error")}
        \/ new.pc = "idle"
        \/ /\ raw[r] # NoPayload
           /\ new \in {TakeLock(held), At(held, NextToResolve(raw[r])), Fail(held, "error")}
    BY <1>1, <1>4 DEF Fetch, Fetched, Set, Answer, Blank
  <2>3. ASSUME raw[r] # NoPayload PROVE held \in HandlerState
    <3>1. raw[r] \in Payload
      BY <2>1, <2>3 DEF IInv, TypeOK
    <3> QED BY <1>1, <3>1 DEF HandlerState, Payload
  <2> HIDE DEF held
  <2>4. away
    BY <1>1, <1>2, <2>2, <2>3 DEF NextToResolve
  <2>5. UNCHANGED <<status, raw, col>>
    BY <1>4 DEF Fetch, twentyVars
  <2> QED BY <2>4, <2>5, LocalShownStep
<1>5. ASSUME NEW p \in People, Lookup(h, o, p) \/ CreatePerson(h, o, p)
      PROVE  ShownInv'
  <2> DEFINE found == [hs EXCEPT !.payload.donor = p, !.matched = TRUE]
             made == [hs EXCEPT !.payload.donor = p]
  <2>1. found \in HandlerState /\ made \in HandlerState
    BY <1>1, ZenonT(60) DEF HandlerState
  <2>2. /\ hs.pc \in {"lookup", "person"}
        /\ new \in {At(hs, "stage"), At(hs, "person"), Resolved(found), Resolved(made),
                    Again(hs), Fail(hs, "error"), Answer(hs, "error")}
    BY <1>1, <1>5 DEF Lookup, CreatePerson, Set
  <2> HIDE DEF found, made
  <2>3. away
    BY <1>1, <1>2, <2>1, <2>2, NextCall
  <2>4. UNCHANGED <<status, raw, col>>
    BY <1>5 DEF Lookup, CreatePerson, twentyVars
  <2> QED BY <2>3, <2>4, LocalShownStep
<1>6. ASSUME NEW g \in Gifts, CreateGift(h, o, g) PROVE ShownInv'
  <2> DEFINE held == [hs EXCEPT !.gift = g]
  <2>1. held \in HandlerState
    BY <1>1 DEF HandlerState
  <2>2. /\ hs.pc = "create_gift"
        /\ new \in {Answer(held, "created"), At(held, "mark"), Again(hs),
                    Fail(hs, "error"), Answer(hs, "error")}
    BY <1>1, <1>6 DEF CreateGift, Created, NotCreated, Set
  <2> HIDE DEF held
  <2>3. away
    BY <1>1, <1>2, <2>1, <2>2, NextCall
  <2>4. UNCHANGED <<status, raw, col>>
    BY <1>6 DEF CreateGift
  <2> QED BY <2>3, <2>4, LocalShownStep
<1>7. CASE MarkProcessed(h, o) \/ AdvanceAgreement(h, o)
  <2>1. /\ hs.pc \in {"mark", "agreement"}
        /\ new \in {Again(hs), Answer(hs, "created"), Answer(hs, "processed"),
                    At(hs, "agreement")}
    BY <1>1, <1>7 DEF MarkProcessed, AdvanceAgreement, Marked, Set
  <2>2. away
    BY <1>1, <1>2, <2>1, NextCall
  <2>3. UNCHANGED <<raw, col>> /\ (\A r \in Rows : Exists(r) => Exists(r)')
    BY <1>7 DEF MarkProcessed, AdvanceAgreement, Exists, IInv, TypeOK
  <2> QED BY <2>2, <2>3, ShownStep DEF ShownInv
<1> QED BY <1>3, <1>4, <1>5, <1>6, <1>7

LEMMA ShownReadForEditStep ==
    ASSUME IInv, DonorInv, ShownInv, NEW h \in Handlers, Handlers = {h}, NEW o,
           ReadForEdit(h, o)
    PROVE  ShownInv'
<1> DEFINE hs == handler[h]
           r == hs.row
           seen == IF raw[r] = NoPayload THEN col[r] ELSE raw[r]
           read == At([hs EXCEPT !.seen = seen], "edit")
           new == handler'[h]
<1>1. /\ hs \in HandlerState /\ HandlerOK(hs) /\ DonorOK(hs, Donors)
      /\ hs.pc = "read_for_edit" /\ r \in Rows /\ h \in DOMAIN handler
  BY Acting DEF ReadForEdit, HandlerOK, LocalsOK, RowCalls, IInv, TypeOK, DonorInv
<1>2. new \in {Edited(hs, "error"), read} /\ UNCHANGED <<status, raw, col>>
  BY <1>1 DEF ReadForEdit, Set, twentyVars
<1>3. CASE new = Edited(hs, "error")
  BY <1>1, <1>2, <1>3, NextCall, LocalShownStep
<1>4. CASE new = read
  <2>1. /\ read.pc = "edit" /\ read.row = r /\ read.op = hs.op
        /\ read.payload = hs.payload /\ read.seen = seen
    BY <1>1 DEF At, HandlerState
  <2>2. seen.donor = col[r].donor
    BY <1>1 DEF ShownInv
  <2> HIDE DEF read, seen
  <2>3. ~HasDonor(Merged(read)) => col[r].donor = NoPerson
    <3>1. hs.op = "process" => HasDonor(hs.payload)
      BY <1>1 DEF DonorOK, Committed
    <3>2. hs.op \in {"edit", "process"}
      BY <1>1 DEF HandlerOK, LocalsOK
    <3> QED BY <2>1, <2>2, <3>1, <3>2 DEF Merged, HasDonor
  <2>4. \A q \in Rows : /\ raw'[q] # NoPayload => raw'[q].donor = col'[q].donor
                        /\ ~Exists(q)' => raw'[q] = NoPayload
    BY <1>2 DEF ShownInv, Exists
  <2> QED BY <1>2, <1>4, <2>1, <2>3, <2>4, ShownStep
<1> QED BY <1>2, <1>3, <1>4

LEMMA ShownPatchPayloadStep ==
    ASSUME IInv, ShownInv, NEW h \in Handlers, Handlers = {h}, NEW o, PatchPayload(h, o)
    PROVE  ShownInv'
<1> DEFINE hs == handler[h]
           r == hs.row
           new == handler'[h]
<1>1. /\ hs \in HandlerState /\ HandlerOK(hs) /\ hs.pc = "edit" /\ r \in Rows
      /\ h \in DOMAIN handler /\ Exists(r)
  BY Acting, NothingAssumption
     DEF PatchPayload, HandlerOK, LocalsOK, ApprovalOK, RowCalls, IInv, TypeOK
<1>2. new = Again(hs) \/ \E reply : new = Edited(hs, reply)
  BY <1>1 DEF PatchPayload, Set
<1>3. status' = status
  BY DEF PatchPayload
<1>4. /\ \A q \in Rows : q # r => raw'[q] = raw[q] /\ col'[q] = col[q]
      /\ \/ raw'[r] = raw[r] /\ col'[r] = col[r]
         \/ raw'[r] = Merged(hs) /\ col'[r] = Columns(col[r], Merged(hs))
  BY <1>1 DEF PatchPayload, IInv, TypeOK
<1>5. ~HasDonor(Merged(hs)) => col[r].donor = NoPerson
  BY <1>1 DEF ShownInv
<1>6. /\ Columns(col[r], Merged(hs)).donor = Merged(hs).donor
      /\ ~HasDonor(Merged(hs)) => Columns(col[r], Merged(hs)).donor = NoPerson
  BY <1>5 DEF Columns, HasDonor
<1>7. \A q \in Rows : /\ raw'[q] # NoPayload => raw'[q].donor = col'[q].donor
                      /\ ~Exists(q)' => raw'[q] = NoPayload
  BY <1>1, <1>3, <1>4, <1>6 DEF ShownInv, Exists
<1>8. CASE new = Again(hs)
  <2>1. /\ Again(hs).pc = "edit" /\ Again(hs).row = r /\ Again(hs).op = hs.op
        /\ Again(hs).payload = hs.payload /\ Again(hs).seen = hs.seen
    BY <1>1 DEF Again, HandlerState
  <2>2. Merged(Again(hs)) = Merged(hs)
    BY <2>1 DEF Merged
  <2>3. ~HasDonor(Merged(hs)) => col'[r].donor = NoPerson
    BY <1>4, <1>5, <1>6
  <2> QED BY <1>7, <1>8, <2>1, <2>2, <2>3, ShownStep
<1>9. CASE \E reply : new = Edited(hs, reply)
  <2>1. new.pc \notin {"edit", "status"}
    BY <1>1, <1>9, NextCall
  <2> QED BY <1>7, <2>1, ShownStep
<1> QED BY <1>2, <1>8, <1>9

LEMMA ShownReadForStatusStep ==
    ASSUME IInv, ShownInv, NEW h \in Handlers, Handlers = {h}, NEW o, ReadForStatus(h, o)
    PROVE  ShownInv'
<1> DEFINE hs == handler[h]
           r == hs.row
           seen == IF o = "ok" THEN raw[r] ELSE NoPayload
           read == At([hs EXCEPT !.seen = seen], "status")
<1>1. hs \in HandlerState /\ r \in Rows
  BY Acting DEF ReadForStatus, HandlerOK, LocalsOK, RowCalls
<1>2. handler'[h] = read /\ UNCHANGED <<status, raw, col>>
  BY DEF ReadForStatus, Set, IInv, TypeOK, twentyVars
<1>3. read.pc = "status" /\ read.row = r /\ read.seen = seen
  BY <1>1 DEF At, HandlerState
<1>4. seen # NoPayload => seen.donor = col[r].donor
  BY <1>1 DEF ShownInv
<1> HIDE DEF read, seen
<1>5. \A q \in Rows : /\ raw'[q] # NoPayload => raw'[q].donor = col'[q].donor
                      /\ ~Exists(q)' => raw'[q] = NoPayload
  BY <1>2 DEF ShownInv, Exists
<1> QED BY <1>2, <1>3, <1>4, <1>5, ShownStep

LEMMA ShownPatchStatusStep ==
    ASSUME IInv, ShownInv, NEW h \in Handlers, Handlers = {h}, NEW o, PatchStatus(h, o)
    PROVE  ShownInv'
<1> DEFINE hs == handler[h]
           r == hs.row
           new == handler'[h]
<1>1. /\ hs \in HandlerState /\ HandlerOK(hs) /\ hs.pc = "status" /\ r \in Rows
      /\ h \in DOMAIN handler /\ Exists(r)
  BY Acting, NothingAssumption
     DEF PatchStatus, HandlerOK, LocalsOK, ApprovalOK, RowCalls, IInv, TypeOK
<1>2. new = Again(hs) \/ \E ok : new = Written(hs, ok)
  BY <1>1 DEF PatchStatus, Set
<1>3. /\ col' = col
      /\ \A q \in Rows : q # r => raw'[q] = raw[q] /\ status'[q] = status[q]
      /\ raw'[r] = raw[r] \/ (hs.seen # NoPayload /\ raw'[r] = hs.seen)
  BY <1>1 DEF PatchStatus, IInv, TypeOK
<1>4. status'[r] # "absent"
  BY <1>1 DEF PatchStatus, IInv, TypeOK, Exists, HandlerState
<1>5. hs.seen # NoPayload => hs.seen.donor = col[r].donor
  BY <1>1 DEF ShownInv
<1>6. \A q \in Rows : /\ raw'[q] # NoPayload => raw'[q].donor = col'[q].donor
                      /\ ~Exists(q)' => raw'[q] = NoPayload
  BY <1>1, <1>3, <1>4, <1>5 DEF ShownInv, Exists
<1>7. CASE new = Again(hs)
  <2>1. Again(hs).pc = "status" /\ Again(hs).row = r /\ Again(hs).seen = hs.seen
    BY <1>1 DEF Again, HandlerState
  <2> QED BY <1>3, <1>5, <1>6, <1>7, <2>1, ShownStep
<1>8. CASE \E ok : new = Written(hs, ok)
  <2>1. new.pc \in {"idle", "create_gift"}
    BY <1>1, <1>8, NextCall DEF Written
  <2> QED BY <1>6, <2>1, ShownStep
<1> QED BY <1>2, <1>7, <1>8

LEMMA ShownStageStep ==
    ASSUME IInv, ShownInv, NEW h \in Handlers, Handlers = {h}, NEW o, NEW r \in Rows,
           Stage(h, o, r)
    PROVE  ShownInv'
<1> DEFINE hs == handler[h]
           held == [hs EXCEPT !.row = r]
           new == handler'[h]
<1>1. hs \in HandlerState /\ hs.pc = "stage" /\ h \in DOMAIN handler
  BY Acting DEF Stage, IInv, TypeOK
<1>2. held \in HandlerState /\ new \in {Staged(held), NotStaged(hs), Again(hs)}
  BY <1>1 DEF Stage, Set, HandlerState
<1> HIDE DEF held
<1>3. new.pc \notin {"edit", "status"}
  BY <1>1, <1>2, NextCall DEF Staged, NotStaged
<1>4. /\ \A q \in Rows : q # r => /\ raw'[q] = raw[q] /\ col'[q] = col[q]
                                  /\ status'[q] = status[q]
      /\ \/ raw'[r] = raw[r] /\ col'[r] = col[r] /\ status'[r] = status[r]
         \/ raw'[r] = hs.payload /\ col'[r] = hs.payload /\ status'[r] # "absent"
  BY DEF Stage, IInv, TypeOK
<1>5. \A q \in Rows : /\ raw'[q] # NoPayload => raw'[q].donor = col'[q].donor
                      /\ ~Exists(q)' => raw'[q] = NoPayload
  BY <1>4 DEF ShownInv, Exists
<1> QED BY <1>3, <1>5, ShownStep

LEMMA ShownImportStep ==
    ASSUME IInv, ShownInv, NEW h \in Handlers, Handlers = {h},
           NEW r \in Rows, NEW p \in Payload, Import(r, p)
    PROVE  ShownInv'
<1>1. /\ raw' = raw /\ handler' = handler /\ ~Exists(r) /\ status'[r] = "pending"
      /\ \A q \in Rows : q # r => col'[q] = col[q] /\ status'[q] = status[q]
  BY DEF Import, IInv, TypeOK
<1>2. \A q \in Rows : /\ raw'[q] # NoPayload => raw'[q].donor = col'[q].donor
                      /\ ~Exists(q)' => raw'[q] = NoPayload
  BY <1>1 DEF ShownInv, Exists
<1>3. handler[h].pc \in {"edit", "status"} => handler[h].row \in Rows \ {r}
  BY <1>1, Acting, NothingAssumption DEF HandlerOK, LocalsOK, ApprovalOK, RowCalls
<1> QED BY <1>1, <1>2, <1>3, ShownStep DEF ShownInv

LEMMA ShownNextPreserves ==
    ASSUME IInv, DonorInv, ShownInv, [Next]_vars, NEW k \in Handlers, Handlers = {k}
    PROVE  ShownInv'
<1>1. ASSUME NEW h \in Handlers, Arrive(h) \/ Step(h) PROVE ShownInv'
  <2>1. Handlers = {h}
    OBVIOUS
  <2> QED BY <1>1, <2>1, ShownPlainStep, ShownReadForEditStep, ShownPatchPayloadStep,
             ShownReadForStatusStep, ShownPatchStatusStep, ShownStageStep DEF Step
<1>2. ASSUME NEW r \in Rows, NEW p \in Payload, Import(r, p) PROVE ShownInv'
  BY <1>2, ShownImportStep
<1>3. CASE Restart
  <2>1. handler'[k].pc = "idle" /\ UNCHANGED <<status, raw, col>>
    BY <1>3, BlankFields DEF Restart, twentyVars
  <2> QED BY <2>1, LocalShownStep
<1>4. CASE UNCHANGED vars
  <2>1. UNCHANGED <<status, raw, col, handler>>
    BY <1>4 DEF vars, twentyVars
  <2> QED BY <2>1, ShownStep DEF ShownInv, Exists
<1> QED BY <1>1, <1>2, <1>3, <1>4 DEF Next

\* While requests do not overlap, the donor reviewers see is the donor a gift
\* would be created with, whichever calls fail, are repeated or are cut short
\* by a crash: updateGiftStagingPayload writes both from one merged payload, and
\* dropping empty columns never leaves an old donor on display.
THEOREM ShownDonorIsUsedDonor ==
    ASSUME NEW k \in Handlers, Handlers = {k}
    PROVE  Spec => []DonorShownIsDonorUsed
<1>1. Init => ShownInv
  BY BlankFields DEF Init, ShownInv
<1>2. Init => IInv /\ DonorInv
  BY InitOK, DonorInitOK
<1>3. IInv /\ DonorInv /\ ShownInv /\ [Next]_vars => (IInv /\ DonorInv /\ ShownInv)'
  BY NextPreserves, DonorNextPreserves, ShownNextPreserves
<1>4. ShownInv => DonorShownIsDonorUsed
  BY DEF ShownInv, DonorShownIsDonorUsed
<1> QED BY <1>1, <1>2, <1>3, <1>4, PTL DEF Spec

-----------------------------------------------------------------------------
(***************************************************************************)
(* One contact, one person                                                 *)
(***************************************************************************)

LEMMA PersonStep ==
    ASSUME OnePersonInv, NEW h \in Handlers, Handlers = {h},
           \A p, q \in people' : p = q,
           \A r \in Rows : /\ col'[r].contact # "names"
                           /\ raw'[r] # NoPayload => raw'[r].contact # "names",
           Nameless(handler'[h]), handler'[h].pc = "person" => people' = {}
    PROVE  OnePersonInv'
<1>1. \A k \in Handlers : k = h
  OBVIOUS
<1> QED BY <1>1 DEF OnePersonInv

\* A step that changes neither the rows nor the people.
LEMMA LocalPersonStep ==
    ASSUME OnePersonInv, NEW h \in Handlers, Handlers = {h},
           UNCHANGED <<raw, col, people>>,
           Nameless(handler'[h]), handler'[h].pc = "person" => people = {}
    PROVE  OnePersonInv'
<1>1. /\ \A p, q \in people' : p = q
      /\ \A r \in Rows : /\ col'[r].contact # "names"
                         /\ raw'[r] # NoPayload => raw'[r].contact # "names"
  BY DEF OnePersonInv
<1> QED BY <1>1, PersonStep

\* Going on keeps the payloads in hand.
LEMMA NamelessKept ==
    ASSUME NEW hs \in HandlerState, Nameless(hs)
    PROVE  /\ \A reply : Nameless(Answer(hs, reply))
           /\ \A c : Nameless(At(hs, c))
           /\ \A s : Nameless(Write(hs, s))
           /\ \A reply : Nameless(Fail(hs, reply))
           /\ \A reply : Nameless(Edited(hs, reply))
           /\ Nameless(TakeLock(hs))
           /\ Nameless(Resolved(hs))
           /\ Nameless(Again(hs))
BY DEF HandlerState, Nameless, Answer, At, Write, Fail, Edited, TakeLock, Resolved, Again,
       Blank

\* Of contacts with an email, or of none, nothing but those can be made.
LEMMA NamelessMerge ==
    ASSUME NEW hs, Nameless(hs), hs.seen # NoPayload
    PROVE  Merged(hs).contact # "names"
BY DEF Merged, Nameless, Richer

LEMMA PersonArriveStep ==
    ASSUME IInv, OnePersonInv, NEW h \in Handlers, Handlers = {h},
           Contacts \subseteq {"none", "email"}, Arrive(h)
    PROVE  OnePersonInv'
<1> DEFINE Enters(b) == Nameless(b) /\ b.pc # "person"
<1>1. h \in DOMAIN handler
  BY DEF IInv, TypeOK
<1>2. ASSUME NEW operation, NEW b, Accept(h, operation, b), Enters(b) PROVE OnePersonInv'
  <2>1. UNCHANGED <<raw, col, people>> /\ handler'[h] = b
    BY <1>1, <1>2 DEF Accept, Set, twentyVars
  <2> QED BY <1>2, <2>1, LocalPersonStep
<1>3. Blank.seen = NoPayload
  BY DEF Blank
<1>4. ASSUME NEW r \in Rows, AcceptProcess(h, r) \/ AcceptMarkReady(h, r) PROVE OnePersonInv'
  BY <1>2, <1>4 DEF AcceptProcess, AcceptMarkReady, Write, At, Blank, Nameless
<1>5. ASSUME NEW r \in Rows, NEW p \in People, AcceptAssign(h, r, p) PROVE OnePersonInv'
  BY <1>2, <1>5 DEF AcceptAssign, Edit, At, Blank, Nameless
<1>6. ASSUME NEW r \in Rows, NEW c, AcceptSave(h, r, c) PROVE OnePersonInv'
  BY <1>2, <1>6 DEF AcceptSave, Edit, At, Blank, Nameless
<1>7. ASSUME NEW p \in Payload, NEW a, AcceptGift(h, p, a) PROVE OnePersonInv'
  <2>1. p.contact \in {"none", "email"}
    BY <1>7 DEF AcceptGift, Incoming
  <2> QED BY <1>2, <1>7, <2>1 DEF AcceptGift, At, Blank, Nameless, HasDonor, CanResolve, NextToResolve
<1>8. ASSUME NEW p \in Payload, AcceptStageOnly(h, p) PROVE OnePersonInv'
  <2>1. p.contact \in {"none", "email"}
    BY <1>8 DEF AcceptStageOnly, Incoming
  <2> QED BY <1>2, <1>8, <2>1 DEF AcceptStageOnly, At, Blank, Nameless
<1> QED BY <1>4, <1>5, <1>6, <1>7, <1>8 DEF Arrive

LEMMA PersonDonorStep ==
    ASSUME IInv, OnePersonInv, NEW h \in Handlers, Handlers = {h},
           Faults["lookup"] = {}, "retry" \notin Faults["person"],
           NEW o, NEW p \in People, Lookup(h, o, p) \/ CreatePerson(h, o, p)
    PROVE  OnePersonInv'
<1> DEFINE hs == handler[h]
           new == handler'[h]
           found == [hs EXCEPT !.payload.donor = p, !.matched = TRUE]
           made == [hs EXCEPT !.payload.donor = p]
<1>1. hs \in HandlerState /\ Nameless(hs) /\ h \in DOMAIN handler
  BY Acting DEF OnePersonInv, IInv, TypeOK
<1>2. /\ found \in HandlerState /\ made \in HandlerState
      /\ Nameless(found) /\ Nameless(made)
  <2>1. found \in HandlerState /\ made \in HandlerState
    BY <1>1 DEF HandlerState
  <2>2. /\ found.payload.contact = hs.payload.contact /\ found.seen = hs.seen
        /\ made.payload.contact = hs.payload.contact /\ made.seen = hs.seen
    BY <1>1 DEF HandlerState
  <2> HIDE DEF found, made
  <2> QED BY <1>1, <2>1, <2>2 DEF Nameless
<1>3. CASE Lookup(h, o, p)
  <2>1. o = "ok"
    BY <1>3 DEF Lookup, Ends
  <2>2. /\ \/ new = At(hs, "person") /\ people = {}
           \/ new \in {At(hs, "stage"), Resolved(found)}
        /\ UNCHANGED <<raw, col, people>>
    BY <1>1, <1>3, <2>1 DEF Lookup, Set, twentyVars
  <2> HIDE DEF found
  <2>3. Nameless(new) /\ (new.pc = "person" => people = {})
    BY <1>1, <1>2, <2>2, NamelessKept, NextCall
  <2> QED BY <2>2, <2>3, LocalPersonStep
<1>4. CASE CreatePerson(h, o, p)
  <2>1. people = {} /\ o # "retry" /\ people' \subseteq {p} /\ UNCHANGED <<raw, col>>
    BY <1>4 DEF CreatePerson, Ends, OnePersonInv
  <2>2. new \in {Resolved(made), Fail(hs, "error"), Answer(hs, "error")}
    BY <1>1, <1>4, <2>1 DEF CreatePerson, Set
  <2> HIDE DEF made
  <2>3. Nameless(new) /\ new.pc # "person"
    BY <1>1, <1>2, <2>2, NamelessKept, NextCall
  <2>4. \A r \in Rows : /\ col'[r].contact # "names"
                        /\ raw'[r] # NoPayload => raw'[r].contact # "names"
    BY <2>1 DEF OnePersonInv
  <2>5. \A a, b \in people' : a = b
    BY <2>1
  <2> QED BY <2>3, <2>4, <2>5, PersonStep
<1> QED BY <1>3, <1>4

LEMMA PersonReadStep ==
    ASSUME IInv, OnePersonInv, NEW h \in Handlers, Handlers = {h}, NEW o,
           Fetch(h, o) \/ ReadForEdit(h, o) \/ ReadForStatus(h, o)
    PROVE  OnePersonInv'
<1> DEFINE hs == handler[h]
           new == handler'[h]
           r == hs.row
           held == [hs EXCEPT !.payload = raw[r]]
           given == [hs EXCEPT !.gift = linked[r]]
           read(v) == [hs EXCEPT !.seen = v]
<1>1. /\ hs \in HandlerState /\ Nameless(hs) /\ r \in Rows /\ h \in DOMAIN handler
      /\ col[r] \in Payload /\ raw[r] \in Payload \cup {NoPayload}
  BY Acting DEF OnePersonInv, IInv, TypeOK, HandlerOK, LocalsOK, RowCalls,
                Fetch, ReadForEdit, ReadForStatus
<1>2. UNCHANGED <<raw, col, people>>
  BY DEF Fetch, ReadForEdit, ReadForStatus, twentyVars
<1>3. CASE Fetch(h, o)
  <2>1. given \in HandlerState /\ Nameless(given)
    BY <1>1 DEF HandlerState, Nameless, IInv, TypeOK
  <2>2. ASSUME raw[r] # NoPayload
        PROVE  /\ held \in HandlerState /\ Nameless(held)
               /\ NextToResolve(raw[r]) = "lookup" \/ ~CanResolve(raw[r])
    <3>1. raw[r] \in Payload /\ raw[r].contact # "names"
      BY <1>1, <2>2 DEF OnePersonInv
    <3> QED BY <1>1, <3>1 DEF HandlerState, Payload, Nameless, NextToResolve, CanResolve, ContactKinds
  <2>3. \/ new \in {Answer(given, "processed"), Answer(hs, "locked"), Answer(hs, "not_ready"),
                    Answer(hs, "error"), Fail(hs, "missing_payload")}
        \/ raw[r] # NoPayload /\ new \in {TakeLock(held), Fail(held, "error")}
        \/ raw[r] # NoPayload /\ CanResolve(raw[r]) /\ new = At(held, NextToResolve(raw[r]))
    BY <1>1, <1>3 DEF Fetch, Fetched, Set
  <2> HIDE DEF held, given
  <2>4. Nameless(new) /\ new.pc # "person"
    BY <1>1, <2>1, <2>2, <2>3, NamelessKept, NextCall DEF TakeLock
  <2> QED BY <1>2, <2>4, LocalPersonStep
<1>4. CASE ReadForEdit(h, o)
  <2> DEFINE v == IF raw[r] = NoPayload THEN col[r] ELSE raw[r]
  <2>1. v \in Payload /\ v.contact # "names"
    BY <1>1 DEF OnePersonInv
  <2>2. new \in {Edited(hs, "error"), At(read(v), "edit")}
    BY <1>1, <1>4 DEF ReadForEdit, Set
  <2> HIDE DEF v
  <2>3. read(v) \in HandlerState /\ Nameless(read(v))
    BY <1>1, <2>1 DEF HandlerState, Nameless
  <2> HIDE DEF read
  <2>4. Nameless(new) /\ new.pc # "person"
    BY <1>1, <2>2, <2>3, NamelessKept, NextCall
  <2> QED BY <1>2, <2>4, LocalPersonStep
<1>5. CASE ReadForStatus(h, o)
  <2> DEFINE v == IF o = "ok" THEN raw[r] ELSE NoPayload
  <2>1. v \in Payload \cup {NoPayload} /\ (v # NoPayload => v.contact # "names")
    BY <1>1 DEF OnePersonInv
  <2>2. new = At(read(v), "status")
    BY <1>1, <1>5 DEF ReadForStatus, Set
  <2> HIDE DEF v
  <2>3. read(v) \in HandlerState /\ Nameless(read(v))
    BY <1>1, <2>1 DEF HandlerState, Nameless
  <2> HIDE DEF read
  <2>4. Nameless(new) /\ new.pc # "person"
    BY <1>1, <2>2, <2>3, NamelessKept, NextCall
  <2> QED BY <1>2, <2>4, LocalPersonStep
<1> QED BY <1>3, <1>4, <1>5

LEMMA PersonWriteStep ==
    ASSUME IInv, OnePersonInv, NEW h \in Handlers, Handlers = {h}, NEW o,
           PatchPayload(h, o) \/ PatchStatus(h, o)
    PROVE  OnePersonInv'
<1> DEFINE hs == handler[h]
           new == handler'[h]
           r == hs.row
<1>1. /\ hs \in HandlerState /\ Nameless(hs) /\ r \in Rows /\ h \in DOMAIN handler
      /\ hs.pc \in {"edit", "status"}
      /\ hs.pc = "edit" => hs.seen \in Payload
  BY Acting DEF OnePersonInv, IInv, TypeOK, HandlerOK, LocalsOK, RowCalls,
                PatchPayload, PatchStatus
<1>2. people' = people
  BY DEF PatchPayload, PatchStatus
<1>3. /\ \A q \in Rows : q # r => raw'[q] = raw[q] /\ col'[q] = col[q]
      /\ \/ raw'[r] \in {raw[r], hs.seen}
         \/ hs.seen # NoPayload /\ raw'[r] = Merged(hs)
      /\ col'[r] = col[r] \/ (hs.seen # NoPayload /\ col'[r] = Columns(col[r], Merged(hs)))
  <2>1. CASE PatchPayload(h, o)
    BY <1>1, <2>1, PayloadAssumption DEF PatchPayload, IInv, TypeOK
  <2>2. CASE PatchStatus(h, o)
    BY <1>1, <2>2 DEF PatchStatus, IInv, TypeOK
  <2> QED BY <2>1, <2>2
<1>4. \A q \in Rows : /\ col'[q].contact # "names"
                      /\ raw'[q] # NoPayload => raw'[q].contact # "names"
  <2>1. hs.seen # NoPayload => Merged(hs).contact # "names"
    BY <1>1, NamelessMerge
  <2>2. hs.seen # NoPayload => Columns(col[r], Merged(hs)).contact # "names"
    BY <1>1, <2>1 DEF Columns, Richer, OnePersonInv
  <2> QED BY <1>1, <1>3, <2>1, <2>2 DEF OnePersonInv, Nameless
<1>5. Nameless(new) /\ new.pc # "person"
  <2>1. new \in {Again(hs), Edited(hs, "ok"), Edited(hs, "error"),
                Written(hs, TRUE), Written(hs, FALSE)}
    BY <1>1 DEF PatchPayload, PatchStatus, Set
  <2>2. \A ok : Nameless(Written(hs, ok)) /\ Written(hs, ok).pc \in {"idle", "create_gift"}
    BY <1>1, NamelessKept, NextCall DEF Written
  <2>3. Nameless(Again(hs)) /\ Again(hs).pc \in {"edit", "status"}
    BY <1>1, NamelessKept, NextCall
  <2>4. \A reply : /\ Nameless(Edited(hs, reply))
                   /\ Edited(hs, reply).pc \in {"idle", "read_for_status"}
    BY <1>1, NamelessKept, NextCall
  <2> QED BY <2>1, <2>2, <2>3, <2>4
<1>6. \A a, b \in people' : a = b
  BY <1>2 DEF OnePersonInv
<1> QED BY <1>4, <1>5, <1>6, PersonStep

LEMMA PersonStageStep ==
    ASSUME IInv, OnePersonInv, NEW h \in Handlers, Handlers = {h}, NEW o, NEW r \in Rows,
           Stage(h, o, r)
    PROVE  OnePersonInv'
<1> DEFINE hs == handler[h]
           new == handler'[h]
           held == [hs EXCEPT !.row = r]
<1>1. hs \in HandlerState /\ Nameless(hs) /\ hs.pc = "stage" /\ h \in DOMAIN handler
  BY Acting DEF OnePersonInv, IInv, TypeOK, Stage
<1>2. held \in HandlerState /\ Nameless(held)
  BY <1>1 DEF HandlerState, Nameless
<1>3. new \in {Staged(held), NotStaged(hs), Again(hs)} /\ people' = people
  BY <1>1 DEF Stage, Set
<1> HIDE DEF held
<1>4. Nameless(new) /\ new.pc # "person"
  BY <1>1, <1>2, <1>3, NamelessKept, NextCall DEF Staged, NotStaged
<1>5. \A q \in Rows : /\ col'[q] = col[q] \/ col'[q] = hs.payload
                      /\ raw'[q] = raw[q] \/ raw'[q] = hs.payload
  BY DEF Stage, IInv, TypeOK
<1>6. /\ \A q \in Rows : /\ col'[q].contact # "names"
                         /\ raw'[q] # NoPayload => raw'[q].contact # "names"
      /\ \A a, b \in people' : a = b
  BY <1>1, <1>3, <1>5 DEF OnePersonInv, Nameless
<1> QED BY <1>4, <1>6, PersonStep

LEMMA PersonGiftStep ==
    ASSUME IInv, OnePersonInv, NEW h \in Handlers, Handlers = {h}, NEW o,
           \/ \E g \in Gifts : CreateGift(h, o, g)
           \/ MarkProcessed(h, o) \/ AdvanceAgreement(h, o)
    PROVE  OnePersonInv'
<1> DEFINE hs == handler[h]
           new == handler'[h]
<1>1. hs \in HandlerState /\ Nameless(hs) /\ h \in DOMAIN handler
  BY Acting DEF OnePersonInv, IInv, TypeOK, CreateGift, MarkProcessed, AdvanceAgreement
<1>2. ASSUME NEW g \in Gifts, CreateGift(h, o, g) PROVE OnePersonInv'
  <2> DEFINE held == [hs EXCEPT !.gift = g]
  <2>1. held \in HandlerState /\ Nameless(held)
    BY <1>1 DEF HandlerState, Nameless
  <2>2. /\ hs.pc = "create_gift" /\ UNCHANGED <<raw, col, people>>
        /\ new \in {Answer(held, "created"), At(held, "mark"), Again(hs),
                    Fail(hs, "error"), Answer(hs, "error")}
    BY <1>1, <1>2 DEF CreateGift, Created, NotCreated, Set
  <2> HIDE DEF held
  <2>3. Nameless(new) /\ new.pc # "person"
    BY <1>1, <2>1, <2>2, NamelessKept, NextCall
  <2> QED BY <2>2, <2>3, LocalPersonStep
<1>3. CASE MarkProcessed(h, o) \/ AdvanceAgreement(h, o)
  <2>1. /\ hs.pc \in {"mark", "agreement"} /\ UNCHANGED <<raw, col, people>>
        /\ new \in {Again(hs), Answer(hs, "created"), Answer(hs, "processed"),
                    At(hs, "agreement")}
    BY <1>1, <1>3 DEF MarkProcessed, AdvanceAgreement, Marked, Set
  <2>2. Nameless(new) /\ new.pc # "person"
    BY <1>1, <2>1, NamelessKept, NextCall
  <2> QED BY <2>1, <2>2, LocalPersonStep
<1> QED BY <1>2, <1>3

LEMMA PersonNextPreserves ==
    ASSUME IInv, OnePersonInv, [Next]_vars, NEW k \in Handlers, Handlers = {k},
           Contacts \subseteq {"none", "email"},
           Faults["lookup"] = {}, "retry" \notin Faults["person"]
    PROVE  OnePersonInv'
<1>1. ASSUME NEW h \in Handlers, Arrive(h) \/ Step(h) PROVE OnePersonInv'
  <2>1. Handlers = {h}
    OBVIOUS
  <2> QED BY <1>1, <2>1, PersonArriveStep, PersonDonorStep, PersonReadStep, PersonWriteStep,
             PersonStageStep, PersonGiftStep DEF Step
<1>2. ASSUME NEW r \in Rows, NEW p \in Payload, Import(r, p) PROVE OnePersonInv'
  <2>1. /\ UNCHANGED <<raw, people, handler>> /\ p.contact # "names"
        /\ \A q \in Rows : col'[q] = col[q] \/ col'[q] = p
    BY <1>2 DEF Import, Incoming, IInv, TypeOK
  <2>2. /\ \A q \in Rows : /\ col'[q].contact # "names"
                           /\ raw'[q] # NoPayload => raw'[q].contact # "names"
        /\ \A a, b \in people' : a = b
    BY <2>1 DEF OnePersonInv
  <2>3. Nameless(handler'[k]) /\ (handler'[k].pc = "person" => people' = {})
    BY <2>1 DEF OnePersonInv
  <2> QED BY <2>2, <2>3, PersonStep
<1>3. CASE Restart
  <2>1. /\ UNCHANGED <<raw, col, people>> /\ handler'[k] = Blank
    BY <1>3 DEF Restart, twentyVars
  <2> QED BY <2>1, LocalPersonStep DEF Blank, Nameless
<1>4. CASE UNCHANGED vars
  <2>1. UNCHANGED <<raw, col, people, handler>>
    BY <1>4 DEF vars, twentyVars
  <2> QED BY <2>1, LocalPersonStep DEF OnePersonInv
<1> QED BY <1>1, <1>2, <1>3, <1>4 DEF Next

\* While requests do not overlap, a contact with an email becomes one person,
\* however often it is sent, staged and processed, provided that Twenty answers
\* the duplicate lookup (a failed lookup counts as no match) and POST /people
\* is not repeated by the transport.  Contacts with only a name are out: they
\* are never looked up.
THEOREM OneContactBecomesOnePerson ==
    ASSUME NEW k \in Handlers, Handlers = {k}, Contacts \subseteq {"none", "email"},
           Faults["lookup"] = {}, "retry" \notin Faults["person"]
    PROVE  Spec => []OneContactOnePerson
<1>1. Init => OnePersonInv
  BY DEF Init, OnePersonInv, Blank, Nameless
<1>2. Init => IInv
  BY InitOK
<1>3. IInv /\ OnePersonInv /\ [Next]_vars => (IInv /\ OnePersonInv)'
  BY NextPreserves, PersonNextPreserves
<1>4. OnePersonInv => OneContactOnePerson
  <2> SUFFICES ASSUME OnePersonInv PROVE Cardinality(people) <= 1
    BY DEF OneContactOnePerson
  <2>1. CASE people = {}
    BY <2>1, FS_EmptySet
  <2>2. ASSUME NEW p \in people PROVE Cardinality(people) <= 1
    <3>1. people = {p}
      BY DEF OnePersonInv
    <3>2. Cardinality({p}) = 1
      BY FS_Singleton
    <3> QED BY <3>1, <3>2
  <2> QED BY <2>1, <2>2
<1> QED BY <1>1, <1>2, <1>3, <1>4, PTL DEF Spec
=============================================================================
