------------------------- MODULE GiftStagingProofs -------------------------
(***************************************************************************)
(* Proofs about GiftStaging, for any number of rows, gifts, people and     *)
(* handlers, any set of faults and any bound on requests.                  *)
(*                                                                         *)
(* The argument: IInv is inductive.  A step of one handler changes what    *)
(* Twenty keeps only in ways the other handlers do not depend on (Grows),  *)
(* so each action is checked for the handler that takes it and for the     *)
(* rows and gifts it touches, and the others follow.                       *)
(***************************************************************************)
EXTENDS GiftStaging, TLAPS

\* What every action leaves true of the objects in Twenty.
Grows ==
    /\ \A r \in Rows : /\ Exists(r) => Exists(r)' /\ auto'[r] = auto[r]
                       /\ approvals[r] > 0 => approvals'[r] > 0
    /\ \A g \in Gifts : Exist(g) => gifts'[g] = gifts[g]

LEMMA OthersUnaffected ==
    ASSUME TypeOK, Grows, NEW hs \in HandlerState, HandlerOK(hs)
    PROVE  HandlerOK(hs)'
<1> USE NothingAssumption
<1>1. LocalsOK(hs)'
    BY DEF HandlerOK, LocalsOK
<1>2. ApprovalOK(hs)'
    BY SMTT(30) DEF HandlerOK, LocalsOK, ApprovalOK, Grows, Exists, TypeOK, HandlerState
<1>3. GiftInHandOK(hs)'
    BY SMTT(30) DEF HandlerOK, GiftInHandOK, Grows, Exist, TypeOK, HandlerState
<1> QED BY <1>1, <1>2, <1>3 DEF HandlerOK

-----------------------------------------------------------------------------
(***************************************************************************)
(* The local variables of a handler stay in their types                    *)
(***************************************************************************)

LEMMA FirstTry == 0 \in 0 .. MaxAttempts - 1
BY BoundsAssumption

LEMMA BlankTyped == Blank \in HandlerState
BY FirstTry DEF HandlerState, Blank, ContactKinds, Replies

LEMMA BlankFields ==
    /\ Blank.pc = "idle" /\ Blank.op = "none" /\ Blank.row = NoRow
    /\ Blank.gift = NoGift /\ Blank.payload \in Payload /\ Blank.reply = "none"
BY DEF Blank, Payload, ContactKinds

LEMMA AtTyped ==
    ASSUME NEW hs \in HandlerState, NEW c \in Calls \ {"lock"}
    PROVE  At(hs, c) \in HandlerState
BY FirstTry DEF HandlerState, At

LEMMA AnswerTyped ==
    ASSUME NEW hs \in HandlerState, NEW reply \in Replies
    PROVE  Answer(hs, reply) \in HandlerState
BY BlankTyped DEF HandlerState, Answer

LEMMA WriteTyped ==
    ASSUME NEW hs \in HandlerState,
           NEW s \in {"none", "ready_for_process", "processing", "process_failed"}
    PROVE  Write(hs, s) \in HandlerState
<1>1. [hs EXCEPT !.write = s] \in HandlerState
  BY DEF HandlerState
<1>2. "read_for_status" \in Calls \ {"lock"}
  BY DEF Calls
<1> QED BY <1>1, <1>2, AtTyped DEF Write

LEMMA FailTyped ==
    ASSUME NEW hs \in HandlerState, NEW reply \in Replies
    PROVE  Fail(hs, reply) \in HandlerState
<1>1. [hs EXCEPT !.reply = reply] \in HandlerState
  BY DEF HandlerState
<1> QED BY <1>1, WriteTyped DEF Fail

LEMMA AgainTyped ==
    ASSUME NEW hs \in HandlerState, MayRetry(hs)
    PROVE  Again(hs) \in HandlerState
BY BoundsAssumption DEF HandlerState, MayRetry, Again

-----------------------------------------------------------------------------
LEMMA StepPreserves ==
    ASSUME IInv, NEW h \in Handlers,
           handler' = [handler EXCEPT ![h] = handler'[h]],
           TypeOK', Grows, RowsOK', HandlerOK(handler[h])',
           ProcessedRowHasItsGift', NoGiftWithoutApproval'
    PROVE  IInv'
<1>1. ASSUME NEW k \in Handlers PROVE HandlerOK(handler[k])'
  <2>1. CASE k = h
    BY <2>1
  <2>2. CASE k # h
    <3>1. handler[k] \in HandlerState /\ handler'[k] = handler[k]
      BY <2>2 DEF IInv, TypeOK
    <3>2. PICK hs \in HandlerState : hs = handler[k]
      BY <3>1
    <3>3. HandlerOK(hs)
      BY <3>2 DEF IInv
    <3>4. HandlerOK(hs)'
      BY <3>3, OthersUnaffected DEF IInv
    <3> QED BY <3>1, <3>2, <3>4 DEF HandlerOK, LocalsOK, ApprovalOK, GiftInHandOK, Exists, Exist
  <2> QED BY <2>1, <2>2
<1> QED BY <1>1 DEF IInv

\* A step that only moves a handler on, or accepts a request.
LEMMA LocalStep ==
    ASSUME IInv, NEW h \in Handlers, NEW hs \in HandlerState,
           handler' = [handler EXCEPT ![h] = hs], HandlerOK(hs),
           UNCHANGED <<twentyVars, approvals>>, served' \in Nat
    PROVE  IInv'
<1> USE DEF twentyVars
<1>1. handler'[h] = hs
  BY DEF IInv, TypeOK
<1>2. TypeOK'
  BY DEF IInv, TypeOK
<1>3. Grows
  BY DEF Grows, Exists
<1>4. RowsOK' /\ ProcessedRowHasItsGift' /\ NoGiftWithoutApproval'
  BY DEF IInv, RowsOK, Exists, ProcessedRowHasItsGift, NoGiftWithoutApproval, Exist
<1>5. HandlerOK(handler[h])'
  BY <1>1, <1>3, OthersUnaffected DEF IInv, HandlerOK, LocalsOK, ApprovalOK, GiftInHandOK, Exists, Exist
<1> QED BY <1>1, <1>2, <1>3, <1>4, <1>5, StepPreserves

\* A handler whose gift is still to be made.
BeforeGift(hs) == hs.pc \notin {"mark", "agreement", "idle"}

LEMMA AnswerOK ==
    ASSUME NEW hs \in HandlerState, NEW reply \in Replies, HandlerOK(hs),
           reply = "processed" => hs.gift # NoGift
    PROVE  HandlerOK(Answer(hs, reply))
BY DEF HandlerOK, LocalsOK, ApprovalOK, GiftInHandOK, Answer, Blank, HandlerState,
       Payload, RowCalls, ContactKinds

LEMMA WriteOK ==
    ASSUME NEW hs \in HandlerState, HandlerOK(hs), hs.row \in Rows, BeforeGift(hs),
           NEW s \in {"none", "ready_for_process", "processing", "process_failed"},
           s = "none" => hs.op = "gift",
           s = "ready_for_process" => hs.op = "mark_ready",
           s \in {"processing", "process_failed"} =>
               hs.op = "process" /\ approvals[hs.row] > 0
    PROVE  HandlerOK(Write(hs, s))
BY DEF HandlerOK, LocalsOK, ApprovalOK, GiftInHandOK, Write, At, HandlerState, RowCalls,
       BeforeGift

LEMMA FailOK ==
    ASSUME NEW hs \in HandlerState, HandlerOK(hs), NEW reply \in Replies \ {"processed"}, BeforeGift(hs),
           hs.op = "process", approvals[hs.row] > 0
    PROVE  HandlerOK(Fail(hs, reply))
<1> DEFINE new == [hs EXCEPT !.reply = reply]
<1>1. new \in HandlerState /\ new.op = "process" /\ new.row = hs.row /\ BeforeGift(new)
  BY DEF HandlerState, BeforeGift
<1>2. HandlerOK(new) /\ hs.row \in Rows
  BY DEF HandlerOK, LocalsOK, ApprovalOK, GiftInHandOK, HandlerState
<1> QED BY <1>1, <1>2, WriteOK DEF Fail

-----------------------------------------------------------------------------
(***************************************************************************)
(* Each action preserves the invariant                                     *)
(***************************************************************************)

LEMMA ResolvedOK ==
    ASSUME NEW hs \in HandlerState, HandlerOK(hs), hs.payload \in Payload, BeforeGift(hs),
           hs.op \in {"gift", "process"}, hs.op = "gift" => hs.row = NoRow,
           hs.op = "process" => approvals[hs.row] > 0
    PROVE  Resolved(hs) \in HandlerState /\ HandlerOK(Resolved(hs))
<1>1. Resolved(hs) \in HandlerState
  BY AtTyped DEF Resolved, Calls
<1>2. HandlerOK(Resolved(hs))
  BY NothingAssumption
     DEF HandlerOK, LocalsOK, ApprovalOK, GiftInHandOK, Resolved, At, HandlerState, RowCalls,
         BeforeGift
<1> QED BY <1>1, <1>2

\* The status update that locks the row is made by an approved processGift.
LEMMA TakeLockOK ==
    ASSUME NEW hs \in HandlerState, HandlerOK(hs), BeforeGift(hs),
           hs.op = "process", approvals[hs.row] > 0
    PROVE  TakeLock(hs) \in HandlerState /\ HandlerOK(TakeLock(hs))
BY WriteTyped, WriteOK DEF TakeLock, HandlerOK, LocalsOK

LEMMA FetchedOK ==
    ASSUME IInv, NEW hs \in HandlerState, HandlerOK(hs), hs.pc = "fetch"
    PROVE  Fetched(hs, hs.row) \in HandlerState /\ HandlerOK(Fetched(hs, hs.row))
<1> DEFINE r == hs.row
<1>1. r \in Rows /\ hs.op = "process" /\ BeforeGift(hs)
  BY DEF HandlerOK, LocalsOK, RowCalls, BeforeGift
<1>2. CASE AlreadyProcessed(r)
  <2> DEFINE known == [hs EXCEPT !.gift = linked[r]]
  <2>1. known \in HandlerState
    BY <1>1 DEF HandlerState, IInv, TypeOK
  <2>2. HandlerOK(Answer(known, "processed"))
    BY <1>1, <1>2, <2>1, BlankTyped, BlankFields
       DEF HandlerOK, LocalsOK, ApprovalOK, GiftInHandOK, HandlerState, Answer, RowCalls,
           IInv, ProcessedRowHasItsGift, AlreadyProcessed
  <2> QED BY <1>2, <2>1, <2>2, AnswerTyped DEF Fetched, Replies
<1>3. CASE ~AlreadyProcessed(r) /\ ~CanProcess(status[r])
  BY <1>3, AnswerTyped, AnswerOK DEF Fetched, Replies
<1>4. CASE ~AlreadyProcessed(r) /\ CanProcess(status[r])
  <2>1. approvals[r] > 0 /\ ~Locked(status[r])
    BY <1>1, <1>4 DEF IInv, RowsOK, CanProcess, Locked
  <2>2. CASE raw[r] = NoPayload
    BY <1>1, <1>4, <2>1, <2>2, FailTyped, FailOK DEF Fetched, Replies
  <2>3. CASE raw[r] # NoPayload
    <3> DEFINE held == [hs EXCEPT !.payload = raw[r]]
    <3>1. raw[r] \in Payload
      BY <1>1, <2>3 DEF IInv, TypeOK
    <3>2. held \in HandlerState /\ held.op = "process" /\ held.row = r /\ held.payload = raw[r]
         /\ BeforeGift(held)
      BY <1>1, <3>1 DEF HandlerState, Payload, BeforeGift
    <3>3. HandlerOK(held)
      BY <1>1, <3>1 DEF HandlerOK, LocalsOK, ApprovalOK, GiftInHandOK, HandlerState
    <3>4. CASE HasDonor(raw[r])
      BY <1>4, <2>1, <2>3, <3>2, <3>3, <3>4, TakeLockOK DEF Fetched
    <3>5. CASE ~HasDonor(raw[r]) /\ ~CanResolve(raw[r])
      BY <1>4, <2>1, <2>3, <3>2, <3>3, <3>5, FailTyped, FailOK DEF Fetched, Replies
    <3>6. CASE ~HasDonor(raw[r]) /\ CanResolve(raw[r])
      <4> DEFINE c == NextToResolve(raw[r])
      <4>1. c \in {"lookup", "person"}
        BY DEF NextToResolve
      <4>2. At(held, c) \in HandlerState
        BY <3>2, <4>1, AtTyped DEF Calls
      <4>3. HandlerOK(At(held, c))
        BY <2>1, <3>1, <3>2, <3>3, <4>1
           DEF HandlerOK, LocalsOK, ApprovalOK, GiftInHandOK, At, HandlerState, RowCalls
      <4> QED BY <1>4, <2>1, <2>3, <3>6, <4>2, <4>3 DEF Fetched
    <3> QED BY <3>4, <3>5, <3>6
  <2> QED BY <2>2, <2>3
<1> QED BY <1>2, <1>3, <1>4

LEMMA FetchStep ==
    ASSUME IInv, NEW h \in Handlers, NEW o, Fetch(h, o)
    PROVE  IInv'
<1> DEFINE hs == handler[h]
           new == IF o = "ok" THEN Fetched(hs, hs.row) ELSE Answer(hs, "error")
<1>1. hs \in HandlerState /\ HandlerOK(hs)
  BY DEF IInv, TypeOK
<1>2. new \in HandlerState /\ HandlerOK(new)
  BY <1>1, FetchedOK, AnswerTyped, AnswerOK DEF Fetch, Replies
<1>3. handler' = [handler EXCEPT ![h] = new]
  BY DEF Fetch, Set
<1>4. served' \in Nat /\ UNCHANGED <<twentyVars, approvals>>
  BY DEF Fetch, IInv, TypeOK
<1> QED BY <1>2, <1>3, <1>4, LocalStep

LEMMA LookupStep ==
    ASSUME IInv, NEW h \in Handlers, NEW o, NEW p \in People, Lookup(h, o, p)
    PROVE  IInv'
<1> DEFINE hs == handler[h]
           found == [hs EXCEPT !.payload.donor = p, !.matched = TRUE]
<1>1. hs \in HandlerState /\ HandlerOK(hs) /\ hs.pc = "lookup"
  BY DEF IInv, TypeOK, Lookup
<1>2. /\ hs.op \in {"gift", "stage_only", "process"}
      /\ hs.payload \in Payload
      /\ hs.op = "process" => approvals[hs.row] > 0
      /\ hs.op # "process" => hs.row = NoRow
  BY <1>1 DEF HandlerOK, LocalsOK, ApprovalOK
<1>3. found \in HandlerState /\ found.payload \in Payload
      /\ found.op = hs.op /\ found.row = hs.row /\ BeforeGift(found)
  BY <1>1, <1>2 DEF HandlerState, Payload, BeforeGift
<1>4. HandlerOK(found)
  BY <1>1, <1>2, <1>3 DEF HandlerOK, LocalsOK, ApprovalOK, GiftInHandOK, HandlerState
<1>5. hs.op # "stage_only" => Resolved(found) \in HandlerState /\ HandlerOK(Resolved(found))
  BY <1>2, <1>3, <1>4, ResolvedOK
<1>6. At(hs, "stage") \in HandlerState /\ At(hs, "person") \in HandlerState
  BY <1>1, AtTyped DEF Calls
<1>7. /\ hs.op = "stage_only" => HandlerOK(At(hs, "stage"))
      /\ hs.op # "stage_only" => HandlerOK(At(hs, "person"))
  BY <1>1, <1>2 DEF HandlerOK, LocalsOK, ApprovalOK, GiftInHandOK, At, HandlerState, RowCalls
<1>8. PICK new \in HandlerState :
          HandlerOK(new) /\ handler' = [handler EXCEPT ![h] = new]
  BY <1>5, <1>6, <1>7 DEF Lookup, Set
<1>9. served' \in Nat /\ UNCHANGED <<twentyVars, approvals>>
  BY DEF Lookup, IInv, TypeOK
<1> QED BY <1>8, <1>9, LocalStep

LEMMA EditedOK ==
    ASSUME NEW hs \in HandlerState, HandlerOK(hs), NEW reply \in Replies \ {"processed"},
           hs.pc \in {"read_for_edit", "edit"}
    PROVE  Edited(hs, reply) \in HandlerState /\ HandlerOK(Edited(hs, reply))
<1>1. CASE hs.op = "edit"
  BY <1>1, AnswerTyped, AnswerOK DEF Edited
<1>2. CASE hs.op # "edit"
  <2>1. hs.op = "process" /\ approvals[hs.row] > 0 /\ BeforeGift(hs)
    BY <1>2 DEF HandlerOK, LocalsOK, ApprovalOK, BeforeGift
  <2> QED BY <1>2, <2>1, TakeLockOK DEF Edited
<1> QED BY <1>1, <1>2

LEMMA ReadForEditStep ==
    ASSUME IInv, NEW h \in Handlers, NEW o, ReadForEdit(h, o)
    PROVE  IInv'
<1> DEFINE hs == handler[h]
           payload == IF raw[hs.row] = NoPayload THEN col[hs.row] ELSE raw[hs.row]
           read == [hs EXCEPT !.seen = payload]
<1>1. hs \in HandlerState /\ HandlerOK(hs) /\ hs.pc = "read_for_edit"
  BY DEF IInv, TypeOK, ReadForEdit
<1>2. hs.row \in Rows /\ payload \in Payload
  BY <1>1 DEF HandlerOK, LocalsOK, RowCalls, IInv, TypeOK
<1>3. read \in HandlerState
  BY <1>1, <1>2 DEF HandlerState
<1>4. At(read, "edit") \in HandlerState
  BY <1>3, AtTyped DEF Calls
<1>5. HandlerOK(At(read, "edit"))
  BY <1>1, <1>2 DEF HandlerOK, LocalsOK, ApprovalOK, GiftInHandOK, At, HandlerState, RowCalls
<1>6. Edited(hs, "error") \in HandlerState /\ HandlerOK(Edited(hs, "error"))
  BY <1>1, EditedOK DEF Replies
<1>7. PICK new \in HandlerState :
          HandlerOK(new) /\ handler' = [handler EXCEPT ![h] = new]
  BY <1>4, <1>5, <1>6 DEF ReadForEdit, Set
<1>8. served' \in Nat /\ UNCHANGED <<twentyVars, approvals>>
  BY DEF ReadForEdit, IInv, TypeOK
<1> QED BY <1>7, <1>8, LocalStep

LEMMA ReadForStatusStep ==
    ASSUME IInv, NEW h \in Handlers, NEW o, ReadForStatus(h, o)
    PROVE  IInv'
<1> DEFINE hs == handler[h]
           seen == IF o = "ok" THEN raw[hs.row] ELSE NoPayload
           read == [hs EXCEPT !.seen = seen]
           new == At(read, "status")
<1>1. hs \in HandlerState /\ HandlerOK(hs) /\ hs.pc = "read_for_status"
  BY DEF IInv, TypeOK, ReadForStatus
<1>2. hs.row \in Rows /\ seen \in Payload \cup {NoPayload}
  BY <1>1 DEF HandlerOK, LocalsOK, RowCalls, IInv, TypeOK
<1>3. read \in HandlerState
  BY <1>1, <1>2 DEF HandlerState
<1>4. new \in HandlerState
  BY <1>3, AtTyped DEF Calls
<1>5. HandlerOK(new)
  BY <1>1, <1>2 DEF HandlerOK, LocalsOK, ApprovalOK, GiftInHandOK, At, HandlerState, RowCalls
<1>6. handler' = [handler EXCEPT ![h] = new]
  BY DEF ReadForStatus, Set
<1>7. served' \in Nat /\ UNCHANGED <<twentyVars, approvals>>
  BY DEF ReadForStatus, IInv, TypeOK
<1> QED BY <1>4, <1>5, <1>6, <1>7, LocalStep

LEMMA AcceptStep ==
    ASSUME IInv, NEW h \in Handlers, NEW operation, NEW hs \in HandlerState,
           HandlerOK(hs), Accept(h, operation, hs)
    PROVE  IInv'
<1>1. handler' = [handler EXCEPT ![h] = hs]
  BY DEF Accept, Set
<1>2. served' \in Nat /\ UNCHANGED <<twentyVars, approvals>>
  BY DEF Accept, IInv, TypeOK
<1> QED BY <1>1, <1>2, LocalStep

LEMMA EditAccepted ==
    ASSUME IInv, NEW h \in Handlers, NEW r \in Rows, Exists(r), NEW operation,
           NEW u \in [donor : People \cup {NoPerson}, contact : ContactKinds \cup {"keep"}],
           Accept(h, operation, Edit(r, u))
    PROVE  IInv'
<1> DEFINE new == [Blank EXCEPT !.op = "edit", !.row = r, !.payload = u]
<1>1. new \in HandlerState
  BY BlankTyped DEF HandlerState
<1>2. Edit(r, u) \in HandlerState
  BY <1>1, AtTyped DEF Edit, Calls
<1>3. HandlerOK(Edit(r, u))
  BY <1>1, BlankTyped, BlankFields
     DEF Edit, At, HandlerOK, LocalsOK, ApprovalOK, GiftInHandOK, HandlerState, RowCalls
<1> QED BY <1>2, <1>3, AcceptStep

LEMMA ArriveStep ==
    ASSUME IInv, NEW h \in Handlers, Arrive(h)
    PROVE  IInv'
<1>1. ASSUME NEW r \in Rows, AcceptProcess(h, r) PROVE IInv'
  <2> DEFINE b == [Blank EXCEPT !.op = "process", !.row = r]
             new == At(b, "fetch")
  <2>1. b \in HandlerState
    BY BlankTyped DEF HandlerState
  <2>2. new \in HandlerState
    BY <2>1, AtTyped DEF Calls
  <2>3. HandlerOK(new)
    BY <1>1, <2>1, BlankTyped, BlankFields
       DEF AcceptProcess, At, HandlerOK, LocalsOK, ApprovalOK, GiftInHandOK, HandlerState, RowCalls
  <2> QED BY <1>1, <2>2, <2>3, AcceptStep DEF AcceptProcess
<1>2. ASSUME NEW r \in Rows, AcceptMarkReady(h, r) PROVE IInv'
  <2> DEFINE b == [Blank EXCEPT !.op = "mark_ready", !.row = r]
             new == Write(b, "ready_for_process")
  <2>1. b \in HandlerState /\ b.op = "mark_ready" /\ b.row = r
    BY BlankTyped DEF HandlerState
  <2>2. new \in HandlerState
    BY <2>1, WriteTyped
  <2>3. HandlerOK(new)
    BY <1>2, <2>1, BlankTyped, BlankFields
       DEF AcceptMarkReady, Write, At, HandlerOK, LocalsOK, ApprovalOK, GiftInHandOK,
           HandlerState, RowCalls
  <2> QED BY <1>2, <2>2, <2>3, AcceptStep DEF AcceptMarkReady
<1>3. ASSUME NEW r \in Rows, NEW p \in People, AcceptAssign(h, r, p) PROVE IInv'
  BY <1>3, EditAccepted DEF AcceptAssign
<1>4. ASSUME NEW r \in Rows, NEW c \in ContactKinds, AcceptSave(h, r, c) PROVE IInv'
  BY <1>4, EditAccepted DEF AcceptSave
<1>5. ASSUME NEW p \in Payload, NEW a \in BOOLEAN, AcceptGift(h, p, a) PROVE IInv'
  <2> DEFINE b == [Blank EXCEPT !.op = "gift", !.payload = p, !.auto = a]
             c == IF HasDonor(p) THEN "stage" ELSE NextToResolve(p)
             new == At(b, c)
  <2>1. b \in HandlerState
    BY BlankTyped DEF HandlerState, Payload
  <2>2. c \in {"stage", "lookup", "person"}
    BY DEF NextToResolve
  <2>3. new \in HandlerState
    BY <2>1, <2>2, AtTyped DEF Calls
  <2>4. HandlerOK(new)
    BY <2>1, <2>2, BlankTyped, BlankFields, NothingAssumption
       DEF At, HandlerOK, LocalsOK, ApprovalOK, GiftInHandOK, HandlerState, RowCalls
  <2> QED BY <1>5, <2>3, <2>4, AcceptStep DEF AcceptGift
<1>6. ASSUME NEW p \in Payload, AcceptStageOnly(h, p) PROVE IInv'
  <2> DEFINE b == [Blank EXCEPT !.op = "stage_only", !.payload = p]
             c == IF ~HasDonor(p) /\ p.contact = "email" THEN "lookup" ELSE "stage"
             new == At(b, c)
  <2>1. b \in HandlerState
    BY BlankTyped DEF HandlerState, Payload
  <2>2. new \in HandlerState
    BY <2>1, AtTyped DEF Calls
  <2>3. HandlerOK(new)
    BY <2>1, BlankTyped, BlankFields, NothingAssumption
       DEF At, HandlerOK, LocalsOK, ApprovalOK, GiftInHandOK, HandlerState, RowCalls
  <2> QED BY <1>6, <2>2, <2>3, AcceptStep DEF AcceptStageOnly
<1> QED BY <1>1, <1>2, <1>3, <1>4, <1>5, <1>6 DEF Arrive

-----------------------------------------------------------------------------
(***************************************************************************)
(* Actions that change what Twenty keeps                                   *)
(***************************************************************************)

LEMMA WorldStep ==
    ASSUME IInv, NEW h \in Handlers, NEW hs \in HandlerState,
           handler' = [handler EXCEPT ![h] = hs], HandlerOK(hs),
           TypeOK', Grows, RowsOK', ProcessedRowHasItsGift', NoGiftWithoutApproval'
    PROVE  IInv'
<1>1. handler'[h] = hs
  BY DEF IInv, TypeOK
<1>2. HandlerOK(hs)'
  BY OthersUnaffected DEF IInv
<1>3. HandlerOK(handler[h])'
  BY <1>1, <1>2 DEF HandlerOK, LocalsOK, ApprovalOK, GiftInHandOK, Exists, Exist
<1> QED BY <1>1, <1>3, StepPreserves

LEMMA HandlerTyped ==
    ASSUME TypeOK, NEW h \in Handlers, NEW hs \in HandlerState,
           handler' = [handler EXCEPT ![h] = hs]
    PROVE  handler' \in [Handlers -> HandlerState]
BY DEF TypeOK

LEMMA AgainOK ==
    ASSUME NEW hs \in HandlerState, HandlerOK(hs), MayRetry(hs)
    PROVE  Again(hs) \in HandlerState /\ HandlerOK(Again(hs))
<1>1. Again(hs) \in HandlerState
  BY AgainTyped
<1>2. HandlerOK(Again(hs))
  BY DEF HandlerOK, LocalsOK, ApprovalOK, GiftInHandOK, Again, HandlerState
<1> QED BY <1>1, <1>2

LEMMA CreatePersonStep ==
    ASSUME IInv, NEW h \in Handlers, NEW o, NEW p \in People, CreatePerson(h, o, p)
    PROVE  IInv'
<1> DEFINE hs == handler[h]
           known == [hs EXCEPT !.payload.donor = p]
<1>1. hs \in HandlerState /\ HandlerOK(hs) /\ hs.pc = "person"
  BY DEF IInv, TypeOK, CreatePerson
<1>2. /\ hs.op \in {"gift", "process"}
      /\ hs.payload \in Payload
      /\ hs.op = "process" => approvals[hs.row] > 0
      /\ hs.op = "gift" => hs.row = NoRow
  BY <1>1 DEF HandlerOK, LocalsOK, ApprovalOK
<1>3. known \in HandlerState /\ known.payload \in Payload
      /\ known.op = hs.op /\ known.row = hs.row /\ BeforeGift(known)
  BY <1>1, <1>2 DEF HandlerState, Payload, BeforeGift
<1>4. HandlerOK(known)
  BY <1>1, <1>2, <1>3 DEF HandlerOK, LocalsOK, ApprovalOK, GiftInHandOK, HandlerState
<1>5. Resolved(known) \in HandlerState /\ HandlerOK(Resolved(known))
  BY <1>2, <1>3, <1>4, ResolvedOK
<1>6. o = "retry" => Again(hs) \in HandlerState /\ HandlerOK(Again(hs))
  BY <1>1, AgainOK DEF CreatePerson, Ends
<1>7. /\ hs.op = "process" => Fail(hs, "error") \in HandlerState /\ HandlerOK(Fail(hs, "error"))
      /\ Answer(hs, "error") \in HandlerState /\ HandlerOK(Answer(hs, "error"))
  BY <1>1, <1>2, FailTyped, FailOK, AnswerTyped, AnswerOK DEF Replies, BeforeGift
<1>8. PICK new \in HandlerState :
          HandlerOK(new) /\ handler' = [handler EXCEPT ![h] = new]
  BY <1>5, <1>6, <1>7 DEF CreatePerson, Set
<1>9. TypeOK'
  BY <1>8, HandlerTyped DEF CreatePerson, IInv, TypeOK
<1>10. Grows
  BY DEF CreatePerson, Grows, Exists
<1>11. RowsOK' /\ ProcessedRowHasItsGift' /\ NoGiftWithoutApproval'
  BY DEF CreatePerson, IInv, RowsOK, Exists, ProcessedRowHasItsGift, NoGiftWithoutApproval, Exist
<1> QED BY <1>8, <1>9, <1>10, <1>11, WorldStep

LEMMA PatchPayloadStep ==
    ASSUME IInv, NEW h \in Handlers, NEW o, PatchPayload(h, o)
    PROVE  IInv'
<1> DEFINE hs == handler[h]
<1>1. hs \in HandlerState /\ HandlerOK(hs) /\ hs.pc = "edit"
  BY DEF IInv, TypeOK, PatchPayload
<1>2. hs.row \in Rows /\ hs.seen \in Payload /\ (hs.op # "edit" => hs.payload \in Payload)
  BY <1>1 DEF HandlerOK, LocalsOK, RowCalls
<1>3. PICK new \in HandlerState :
          HandlerOK(new) /\ handler' = [handler EXCEPT ![h] = new]
  BY <1>1, EditedOK, AgainOK DEF PatchPayload, Ends, Set, Replies
<1>4. Merged(hs) \in Payload
  <2>1. CASE hs.op = "edit"
    BY <1>1, <1>2, <2>1 DEF Merged, Payload, HandlerState
  <2>2. CASE hs.op # "edit"
    BY <1>2, <2>2 DEF Merged, Richer, Payload, ContactKinds
  <2> QED BY <2>1, <2>2
<1>5. Columns(col[hs.row], Merged(hs)) \in Payload
  BY <1>2, <1>4 DEF Columns, Richer, Payload, ContactKinds, IInv, TypeOK
<1>6. TypeOK'
  BY <1>2, <1>3, <1>4, <1>5, HandlerTyped DEF PatchPayload, IInv, TypeOK
<1>7. Grows
  BY DEF PatchPayload, Grows, Exists
<1>8. RowsOK' /\ ProcessedRowHasItsGift' /\ NoGiftWithoutApproval'
  BY DEF PatchPayload, IInv, RowsOK, Exists, ProcessedRowHasItsGift, NoGiftWithoutApproval, Exist
<1> QED BY <1>3, <1>6, <1>7, <1>8, WorldStep

LEMMA WrittenOK ==
    ASSUME NEW hs \in HandlerState, HandlerOK(hs), hs.pc = "status", NEW ok \in BOOLEAN
    PROVE  Written(hs, ok) \in HandlerState /\ HandlerOK(Written(hs, ok))
<1>1. CASE \/ hs.write = "processing"
           \/ hs.write = "none" /\ hs.auto
  <2>1. Written(hs, ok) = At(hs, "create_gift")
    BY <1>1 DEF Written
  <2>2. At(hs, "create_gift") \in HandlerState
    BY AtTyped DEF Calls
  <2>3. HandlerOK(At(hs, "create_gift"))
    BY <1>1 DEF At, HandlerOK, LocalsOK, ApprovalOK, GiftInHandOK, HandlerState, RowCalls
  <2> QED BY <2>1, <2>2, <2>3
<1>2. CASE hs.write # "processing" /\ (hs.write = "none" => ~hs.auto)
  <2>1. \A reply \in Replies \ {"processed"} :
            Answer(hs, reply) \in HandlerState /\ HandlerOK(Answer(hs, reply))
    BY AnswerTyped, AnswerOK
  <2>2. CASE hs.write = "process_failed"
    <3>1. hs.reply \in Replies \ {"processed"}
      BY DEF HandlerOK, GiftInHandOK, HandlerState
    <3> QED BY <2>1, <2>2, <3>1 DEF Written
  <2>3. CASE hs.write = "ready_for_process"
    BY <2>1, <2>3 DEF Written, Replies
  <2>4. CASE hs.write = "none"
    BY <1>2, <2>1, <2>4 DEF Written, Replies
  <2>5. hs.write \in {"none", "ready_for_process", "processing", "process_failed"}
    BY DEF HandlerState
  <2> QED BY <1>2, <2>2, <2>3, <2>4, <2>5
<1> QED BY <1>1, <1>2

LEMMA PatchStatusStep ==
    ASSUME IInv, NEW h \in Handlers, NEW o, PatchStatus(h, o)
    PROVE  IInv'
<1> DEFINE hs == handler[h]
           r == hs.row
<1>1. hs \in HandlerState /\ HandlerOK(hs) /\ hs.pc = "status"
  BY DEF IInv, TypeOK, PatchStatus
<1>2. /\ r \in Rows /\ Exists(r)
      /\ hs.write = "process_failed" => approvals[r] > 0
      /\ hs.write \in Statuses \cup {"none"} /\ hs.write \notin {"absent", "processed"}
  BY <1>1, NothingAssumption
     DEF HandlerOK, LocalsOK, ApprovalOK, RowCalls, HandlerState, Statuses
<1>3. PICK new \in HandlerState :
          HandlerOK(new) /\ handler' = [handler EXCEPT ![h] = new]
  BY <1>1, WrittenOK, AgainOK DEF PatchStatus, Ends, Set
<1>4. TypeOK'
  BY <1>1, <1>2, <1>3, HandlerTyped DEF PatchStatus, IInv, TypeOK, HandlerState
<1>5. \A q \in Rows : /\ status'[q] = status[q] \/ (q = r /\ status'[q] = hs.write)
                      /\ approvals[q] > 0 => approvals'[q] > 0
                      /\ status'[q] # status[q] /\ hs.write = "ready_for_process"
                            => approvals'[q] > 0
  BY <1>2 DEF PatchStatus, IInv, TypeOK
<1>6. Grows
  BY <1>2, <1>5 DEF PatchStatus, Grows, Exists
<1>7. RowsOK'
  BY <1>2, <1>5 DEF PatchStatus, IInv, RowsOK, CanProcess, Exists
<1>8. ProcessedRowHasItsGift'
  BY <1>2, <1>5 DEF PatchStatus, IInv, ProcessedRowHasItsGift, Exist
<1>9. NoGiftWithoutApproval'
  <2> SUFFICES ASSUME NEW g \in Gifts, Exist(g), gifts[g].row # NoRow
               PROVE  IF gifts[g].via = "process" THEN approvals'[gifts[g].row] > 0
                                                  ELSE auto[gifts[g].row]
    BY DEF PatchStatus, NoGiftWithoutApproval, Exist
  <2>1. gifts[g].row \in Rows
    BY DEF IInv, TypeOK, Exist, GiftRecord
  <2> QED BY <1>5, <2>1 DEF IInv, NoGiftWithoutApproval
<1> QED BY <1>3, <1>4, <1>6, <1>7, <1>8, <1>9, WorldStep

LEMMA MarkProcessedStep ==
    ASSUME IInv, NEW h \in Handlers, NEW o, MarkProcessed(h, o)
    PROVE  IInv'
<1> DEFINE hs == handler[h]
           r == hs.row
<1>1. hs \in HandlerState /\ HandlerOK(hs) /\ hs.pc = "mark"
  BY DEF IInv, TypeOK, MarkProcessed
<1>2. /\ r \in Rows /\ Exists(r)
      /\ hs.gift \in Gifts /\ Exist(hs.gift) /\ gifts[hs.gift].row = r
      /\ hs.op \in {"gift", "process"}
  BY <1>1, NothingAssumption
     DEF HandlerOK, LocalsOK, ApprovalOK, GiftInHandOK, RowCalls, HandlerState
<1>3. Marked(hs) \in HandlerState /\ HandlerOK(Marked(hs))
  <2>1. Answer(hs, "created") \in HandlerState /\ HandlerOK(Answer(hs, "created"))
        /\ Answer(hs, "processed") \in HandlerState /\ HandlerOK(Answer(hs, "processed"))
    BY <1>1, <1>2, AnswerTyped, AnswerOK, NothingAssumption DEF Replies
  <2>2. At(hs, "agreement") \in HandlerState
    BY <1>1, AtTyped DEF Calls
  <2>3. hs.op = "process" => HandlerOK(At(hs, "agreement"))
    BY <1>1 DEF At, HandlerOK, LocalsOK, ApprovalOK, GiftInHandOK, HandlerState, RowCalls
  <2> QED BY <1>2, <2>1, <2>2, <2>3 DEF Marked
<1>4. PICK new \in HandlerState :
          HandlerOK(new) /\ handler' = [handler EXCEPT ![h] = new]
  BY <1>1, <1>3, AgainOK DEF MarkProcessed, Ends, Set
<1>5. TypeOK'
  BY <1>2, <1>4, HandlerTyped DEF MarkProcessed, IInv, TypeOK, Statuses
<1>6. Grows
  BY <1>2 DEF MarkProcessed, Grows, Exists, IInv, TypeOK
<1>7. RowsOK'
  BY <1>2 DEF MarkProcessed, IInv, TypeOK, RowsOK, CanProcess, Exists
<1>8. ProcessedRowHasItsGift'
  BY <1>2, NothingAssumption DEF MarkProcessed, IInv, TypeOK, ProcessedRowHasItsGift, Exist
<1>9. NoGiftWithoutApproval'
  BY DEF MarkProcessed, IInv, NoGiftWithoutApproval, Exist
<1> QED BY <1>4, <1>5, <1>6, <1>7, <1>8, <1>9, WorldStep

LEMMA AdvanceAgreementStep ==
    ASSUME IInv, NEW h \in Handlers, NEW o, AdvanceAgreement(h, o)
    PROVE  IInv'
<1> DEFINE hs == handler[h]
<1>1. hs \in HandlerState /\ HandlerOK(hs) /\ hs.pc = "agreement"
  BY DEF IInv, TypeOK, AdvanceAgreement
<1>2. hs.row \in Rows /\ hs.gift # NoGift
  BY <1>1 DEF HandlerOK, LocalsOK, GiftInHandOK, RowCalls
<1>3. PICK new \in HandlerState :
          HandlerOK(new) /\ handler' = [handler EXCEPT ![h] = new]
  BY <1>1, <1>2, AgainOK, AnswerTyped, AnswerOK DEF AdvanceAgreement, Ends, Set, Replies
<1>4. TypeOK'
  BY <1>2, <1>3, HandlerTyped DEF AdvanceAgreement, IInv, TypeOK
<1>5. Grows
  BY DEF AdvanceAgreement, Grows, Exists
<1>6. RowsOK' /\ ProcessedRowHasItsGift' /\ NoGiftWithoutApproval'
  BY DEF AdvanceAgreement, IInv, RowsOK, Exists, ProcessedRowHasItsGift, NoGiftWithoutApproval, Exist
<1> QED BY <1>3, <1>4, <1>5, <1>6, WorldStep

LEMMA ImportStep ==
    ASSUME IInv, NEW r \in Rows, NEW p \in Payload, Import(r, p)
    PROVE  IInv'
<1>1. TypeOK'
  BY DEF Import, IInv, TypeOK, Statuses
<1>2. Grows
  BY DEF Import, Grows, Exists, IInv, TypeOK
<1>3. \A h \in Handlers : HandlerOK(handler[h])'
  <2> TAKE h \in Handlers
  <2>1. handler[h] \in HandlerState /\ handler' = handler
    BY DEF Import, IInv, TypeOK
  <2>2. PICK hs \in HandlerState : hs = handler[h]
    BY <2>1
  <2>3. HandlerOK(hs)'
    BY <1>2, <2>2, OthersUnaffected DEF IInv
  <2> QED BY <2>1, <2>2, <2>3 DEF HandlerOK, LocalsOK, ApprovalOK, GiftInHandOK, Exists, Exist
<1>4. RowsOK'
  BY DEF Import, IInv, TypeOK, RowsOK, CanProcess, Exists
<1>5. ProcessedRowHasItsGift' /\ NoGiftWithoutApproval'
  BY DEF Import, IInv, TypeOK, ProcessedRowHasItsGift, NoGiftWithoutApproval, Exist, Exists
<1> QED BY <1>1, <1>3, <1>4, <1>5 DEF IInv

LEMMA RestartStep ==
    ASSUME IInv, Restart
    PROVE  IInv'
<1> USE DEF twentyVars
<1>1. TypeOK'
  BY BlankTyped DEF Restart, IInv, TypeOK
<1>2. \A h \in Handlers : HandlerOK(handler[h])'
  BY BlankTyped, BlankFields, NothingAssumption
     DEF Restart, HandlerOK, LocalsOK, ApprovalOK, GiftInHandOK, RowCalls
<1>3. RowsOK' /\ ProcessedRowHasItsGift' /\ NoGiftWithoutApproval'
  BY DEF Restart, IInv, RowsOK, Exists, ProcessedRowHasItsGift, NoGiftWithoutApproval, Exist
<1> QED BY <1>1, <1>2, <1>3 DEF IInv

LEMMA StageStep ==
    ASSUME IInv, NEW h \in Handlers, NEW o, NEW r \in Rows, Stage(h, o, r)
    PROVE  IInv'
<1> DEFINE hs == handler[h]
           held == [hs EXCEPT !.row = r]
<1>1. hs \in HandlerState /\ HandlerOK(hs) /\ hs.pc = "stage" /\ ~Exists(r)
  BY DEF IInv, TypeOK, Stage
<1>2. /\ hs.op \in {"gift", "stage_only"} /\ hs.row = NoRow
      /\ hs.payload \in Payload /\ hs.gift = NoGift /\ hs.reply # "processed"
  BY <1>1 DEF HandlerOK, LocalsOK, GiftInHandOK
<1>3. \A q \in Rows : q # r => /\ status'[q] = status[q]
                               /\ auto'[q] = auto[q]
  BY DEF Stage, IInv, TypeOK
<1>4. /\ auto[r] = FALSE /\ status'[r] \in {"absent", "pending", "processing"}
      /\ status'[r] = "absent" => ~auto'[r]
      /\ o = "ok" => status'[r] # "absent" /\ auto'[r] = hs.auto
  BY <1>1 DEF Stage, IInv, TypeOK, RowsOK, Exists, Done
<1>5. held \in HandlerState
  BY <1>1 DEF HandlerState
<1>6. Again(hs) \in HandlerState \/ o # "retry"
  BY <1>1, AgainOK DEF Stage, Ends
<1>7. PICK new \in HandlerState :
          /\ handler' = [handler EXCEPT ![h] = new]
          /\ o # "ok" => HandlerOK(new)
          /\ o = "ok" => new = Staged(held)
  <2>1. Staged(held) \in HandlerState
    BY <1>5, AnswerTyped, WriteTyped, AtTyped DEF Staged, Replies, Calls
  <2>2. NotStaged(hs) \in HandlerState /\ HandlerOK(NotStaged(hs))
    <3>1. CASE hs.op = "stage_only"
      BY <1>1, <3>1, AnswerTyped, AnswerOK DEF NotStaged, Replies
    <3>2. CASE hs.op = "gift"
      <4>1. At(hs, "create_gift") \in HandlerState
        BY <1>1, AtTyped DEF Calls
      <4>2. HandlerOK(At(hs, "create_gift"))
        BY <1>1, <1>2, <3>2, NothingAssumption
           DEF At, HandlerOK, LocalsOK, ApprovalOK, GiftInHandOK, HandlerState, RowCalls
      <4> QED BY <3>2, <4>1, <4>2 DEF NotStaged
    <3> QED BY <1>2, <3>1, <3>2
  <2>3. o = "retry" => Again(hs) \in HandlerState /\ HandlerOK(Again(hs))
    BY <1>1, AgainOK DEF Stage, Ends
  <2> QED BY <2>1, <2>2, <2>3 DEF Stage, Set
<1>8. TypeOK'
  <2>1. UNCHANGED <<linked, people, gifts, advanced, approvals, served>>
    BY DEF Stage
  <2>2. handler' \in [Handlers -> HandlerState]
    BY <1>7, HandlerTyped DEF IInv
  <2>3. hs.auto \in BOOLEAN
    BY <1>1 DEF HandlerState
  <2>4. status' \in [Rows -> Statuses] /\ auto' \in [Rows -> BOOLEAN]
    BY <2>3 DEF Stage, IInv, TypeOK, Statuses
  <2>5. raw' \in [Rows -> Payload \cup {NoPayload}] /\ col' \in [Rows -> Payload]
    BY <1>2 DEF Stage, IInv, TypeOK
  <2> QED BY <2>1, <2>2, <2>4, <2>5 DEF IInv, TypeOK
<1>9. Grows
  <2>1. UNCHANGED <<gifts, approvals>>
    BY DEF Stage
  <2>2. \A q \in Rows : Exists(q) => q # r
    BY <1>1
  <2> QED BY <1>3, <2>1, <2>2 DEF Grows, Exists
<1>10. RowsOK'
  <2>1. UNCHANGED approvals
    BY DEF Stage
  <2> QED BY <1>3, <1>4, <2>1 DEF IInv, RowsOK, CanProcess, Exists
<1>11. ProcessedRowHasItsGift'
  BY <1>3, <1>4 DEF Stage, IInv, ProcessedRowHasItsGift, Exist
<1>12. NoGiftWithoutApproval'
  <2> SUFFICES ASSUME NEW g \in Gifts, Exist(g), gifts[g].row # NoRow
               PROVE  IF gifts[g].via = "process" THEN approvals[gifts[g].row] > 0
                                                  ELSE auto'[gifts[g].row]
    BY DEF Stage, NoGiftWithoutApproval, Exist
  <2>1. gifts[g].row \in Rows
    BY DEF IInv, TypeOK, Exist, GiftRecord
  <2> QED BY <1>3, <1>4, <2>1 DEF IInv, NoGiftWithoutApproval
<1>13. CASE o # "ok"
  BY <1>7, <1>8, <1>9, <1>10, <1>11, <1>12, <1>13, WorldStep
<1>14. CASE o = "ok"
  <2>1. handler'[h] = Staged(held) /\ Staged(held) \in HandlerState
    BY <1>7, <1>14 DEF IInv, TypeOK
  <2>2. LocalsOK(handler[h])'
    BY <1>1, <1>2, <1>5, <2>1, BlankTyped, BlankFields
       DEF LocalsOK, Staged, Answer, Write, At, HandlerState, RowCalls
  <2>3. ApprovalOK(handler[h])'
    BY <1>1, <1>2, <1>4, <1>5, <1>14, <2>1, BlankTyped, BlankFields
       DEF ApprovalOK, Exists, Staged, Answer, Write, At, HandlerState
  <2>4. GiftInHandOK(handler[h])'
    BY <1>1, <1>2, <1>5, <2>1, BlankTyped, BlankFields
       DEF GiftInHandOK, Staged, Answer, Write, At, HandlerState
  <2>5. HandlerOK(handler[h])'
    BY <2>2, <2>3, <2>4 DEF HandlerOK
  <2>6. handler' = [handler EXCEPT ![h] = handler'[h]]
    BY <1>7, <2>1, <1>14
  <2> QED BY <1>8, <1>9, <1>10, <1>11, <1>12, <2>5, <2>6, StepPreserves
<1> QED BY <1>13, <1>14

LEMMA NewGiftOK ==
    ASSUME NEW hs \in HandlerState
    PROVE  /\ NewGift(hs) \in GiftRecord /\ NewGift(hs) # NoGift
           /\ NewGift(hs).row = hs.row
           /\ (NewGift(hs).via = "process") <=> (hs.op = "process")
<1>1. NewGift(hs) \in GiftRecord
  BY DEF NewGift, GiftRecord, HandlerState
<1>2. NewGift(hs) # NoGift
  BY <1>1, NothingAssumption DEF GiftRecord
<1> QED BY <1>1, <1>2 DEF NewGift

LEMMA CreateGiftStep ==
    ASSUME IInv, NEW h \in Handlers, NEW o, NEW g \in Gifts, CreateGift(h, o, g)
    PROVE  IInv'
<1> DEFINE hs == handler[h]
           held == [hs EXCEPT !.gift = g]
<1>1. hs \in HandlerState /\ HandlerOK(hs) /\ hs.pc = "create_gift" /\ ~Exist(g)
  BY DEF IInv, TypeOK, CreateGift, Exist
<1>2. /\ hs.op \in {"gift", "process"}
      /\ hs.op = "process" => approvals[hs.row] > 0 /\ BeforeGift(hs)
      /\ hs.op = "gift" /\ hs.row # NoRow => auto[hs.row]
      /\ hs.row \in Rows \cup {NoRow}
  BY <1>1 DEF HandlerOK, LocalsOK, ApprovalOK, HandlerState, BeforeGift
<1>3. \A k \in Gifts : k # g => gifts'[k] = gifts[k]
  BY DEF CreateGift, IInv, TypeOK
<1>4. /\ o = "ok" => gifts'[g] = NewGift(hs)
      /\ gifts'[g] \in {NoGift, NewGift(hs)}
  BY <1>1 DEF CreateGift, IInv, TypeOK, Done, Exist
<1>5. held \in HandlerState
  BY <1>1 DEF HandlerState
<1>6. PICK new \in HandlerState :
          /\ handler' = [handler EXCEPT ![h] = new]
          /\ o # "ok" => HandlerOK(new)
          /\ o = "ok" => new = Created(hs, g)
  <2>1. Created(hs, g) \in HandlerState
    BY <1>5, AnswerTyped, AtTyped DEF Created, Replies, Calls
  <2>2. NotCreated(hs) \in HandlerState /\ HandlerOK(NotCreated(hs))
    BY <1>1, <1>2, FailTyped, FailOK, AnswerTyped, AnswerOK DEF NotCreated, Replies
  <2>3. o = "retry" => Again(hs) \in HandlerState /\ HandlerOK(Again(hs))
    BY <1>1, AgainOK DEF CreateGift, Ends
  <2> QED BY <2>1, <2>2, <2>3 DEF CreateGift, Set
<1>7. TypeOK'
  BY <1>1, <1>6, HandlerTyped, NewGiftOK DEF CreateGift, IInv, TypeOK
<1>8. Grows
  <2>1. UNCHANGED <<status, auto, approvals>>
    BY DEF CreateGift
  <2> QED BY <1>1, <1>3, <2>1 DEF Grows, Exists
<1>9. RowsOK'
  BY DEF CreateGift, IInv, RowsOK, Exists
<1>10. ProcessedRowHasItsGift'
  <2>1. UNCHANGED <<status, linked>> /\ linked \in [Rows -> Gifts \cup {NoGift}]
    BY DEF CreateGift, IInv, TypeOK
  <2> QED BY <1>1, <1>3, <2>1 DEF IInv, ProcessedRowHasItsGift, Exist
<1>11. NoGiftWithoutApproval'
  <2> SUFFICES ASSUME NEW k \in Gifts, Exist(k)', gifts'[k].row # NoRow
               PROVE  IF gifts'[k].via = "process" THEN approvals[gifts'[k].row] > 0
                                                   ELSE auto[gifts'[k].row]
    BY DEF CreateGift, NoGiftWithoutApproval, Exist
  <2>1. CASE k # g
    BY <1>3, <2>1 DEF IInv, NoGiftWithoutApproval, Exist
  <2>2. CASE k = g
    <3>1. gifts'[k] = NewGift(hs)
      BY <1>4, <2>2 DEF Exist
    <3>2. CASE hs.op = "process"
      BY <1>1, <1>2, <3>1, <3>2, NewGiftOK
    <3>3. CASE hs.op = "gift"
      BY <1>1, <1>2, <3>1, <3>3, NewGiftOK
    <3> QED BY <1>2, <3>2, <3>3
  <2> QED BY <2>1, <2>2
<1>12. CASE o # "ok"
  BY <1>6, <1>7, <1>8, <1>9, <1>10, <1>11, <1>12, WorldStep
<1>13. CASE o = "ok"
  <2>1. handler'[h] = Created(hs, g) /\ Created(hs, g) \in HandlerState
    BY <1>6, <1>13 DEF IInv, TypeOK
  <2>2. LocalsOK(handler[h])'
    BY <1>1, <1>2, <1>5, <2>1, BlankTyped, BlankFields
       DEF HandlerOK, LocalsOK, Created, Answer, At, HandlerState, RowCalls
  <2>3. ApprovalOK(handler[h])'
    BY <1>1, <1>2, <1>5, <2>1, BlankTyped, BlankFields
       DEF CreateGift, HandlerOK, ApprovalOK, Exists, Created, Answer, At, HandlerState
  <2>4. gifts'[g] # NoGift /\ gifts'[g].row = hs.row
    BY <1>1, <1>4, <1>13, NewGiftOK
  <2>5. GiftInHandOK(handler[h])'
    BY <1>1, <1>2, <1>5, <2>1, <2>4, BlankTyped, BlankFields, NothingAssumption
       DEF GiftInHandOK, Exist, Created, Answer, At, HandlerState
  <2>6. HandlerOK(handler[h])'
    BY <2>2, <2>3, <2>5 DEF HandlerOK
  <2>7. handler' = [handler EXCEPT ![h] = handler'[h]]
    BY <1>6, <2>1, <1>13
  <2> QED BY <1>7, <1>8, <1>9, <1>10, <1>11, <2>6, <2>7, StepPreserves
<1> QED BY <1>12, <1>13

-----------------------------------------------------------------------------
(***************************************************************************)
(* The theorems                                                            *)
(***************************************************************************)

LEMMA InitOK == Init => IInv
<1> SUFFICES ASSUME Init PROVE IInv
  OBVIOUS
<1>1. TypeOK
  BY BlankTyped DEF Init, TypeOK, Statuses, Payload, ContactKinds
<1>2. RowsOK
  BY DEF Init, RowsOK, CanProcess
<1>3. \A h \in Handlers : HandlerOK(handler[h])
  BY BlankTyped, BlankFields
     DEF Init, HandlerOK, LocalsOK, ApprovalOK, GiftInHandOK, RowCalls
<1>4. ProcessedRowHasItsGift /\ NoGiftWithoutApproval
  BY DEF Init, ProcessedRowHasItsGift, NoGiftWithoutApproval, Exist
<1> QED BY <1>1, <1>2, <1>3, <1>4 DEF IInv

LEMMA NextPreserves == IInv /\ [Next]_vars => IInv'
<1> SUFFICES ASSUME IInv, [Next]_vars PROVE IInv'
  OBVIOUS
<1>1. ASSUME NEW h \in Handlers, Arrive(h) PROVE IInv'
  BY <1>1, ArriveStep
<1>2. ASSUME NEW h \in Handlers, Step(h) PROVE IInv'
  <2>1. PICK o \in Outcomes :
            \/ Fetch(h, o)
            \/ \E p \in People : Lookup(h, o, p)
            \/ \E p \in People : CreatePerson(h, o, p)
            \/ ReadForEdit(h, o)
            \/ PatchPayload(h, o)
            \/ ReadForStatus(h, o)
            \/ PatchStatus(h, o)
            \/ \E r \in Rows : Stage(h, o, r)
            \/ \E g \in Gifts : CreateGift(h, o, g)
            \/ MarkProcessed(h, o)
            \/ AdvanceAgreement(h, o)
    BY <1>2 DEF Step
  <2> QED BY <2>1, FetchStep, LookupStep, CreatePersonStep, ReadForEditStep,
             PatchPayloadStep, ReadForStatusStep, PatchStatusStep, StageStep,
             CreateGiftStep, MarkProcessedStep, AdvanceAgreementStep
<1>3. ASSUME NEW r \in Rows, NEW p \in Payload, Import(r, p) PROVE IInv'
  BY <1>3, ImportStep
<1>4. CASE Restart
  BY <1>4, RestartStep
<1>5. CASE UNCHANGED vars
  BY <1>5 DEF vars, twentyVars, IInv, TypeOK, RowsOK, HandlerOK, LocalsOK, ApprovalOK,
              GiftInHandOK, Exists, Exist, ProcessedRowHasItsGift, NoGiftWithoutApproval
<1> QED BY <1>1, <1>2, <1>3, <1>4, <1>5 DEF Next

\* The inductive invariant holds of every behaviour: at every await of every
\* handler, whatever the others have done since it last read Twenty, its local
\* variables justify the call it is about to make.
THEOREM Invariance == Spec => []IInv
<1>1. Init => IInv
  BY InitOK
<1>2. IInv /\ [Next]_vars => IInv'
  BY NextPreserves
<1> QED BY <1>1, <1>2, PTL DEF Spec

\* Every variable keeps its type, the retry counters of TwentyApiService and
\* the enumerations of status and reply included.
THEOREM TypeCorrect == Spec => []TypeOK
<1>1. IInv => TypeOK
  BY DEF IInv
<1> QED BY <1>1, Invariance, PTL

\* A "processed" row names a gift created from that row (patchProcessed).
THEOREM ProcessedRowsHaveGifts == Spec => []ProcessedRowHasItsGift
<1>1. IInv => ProcessedRowHasItsGift
  BY DEF IInv
<1> QED BY <1>1, Invariance, PTL

\* canProcess keeps its promise under every interleaving, failure and crash: a
\* gift made by processGift comes from a row a reviewer marked ready, and one
\* made by the intake from a row staged for auto-processing.
THEOREM GiftsAreApproved == Spec => []NoGiftWithoutApproval
<1>1. IInv => NoGiftWithoutApproval
  BY DEF IInv
<1> QED BY <1>1, Invariance, PTL

\* A client that is told "processed" gets the id of a gift that exists and was
\* created from the row it asked for, whichever request created it.
THEOREM ProcessedRepliesAreTrue == Spec => []ProcessedReplyIsTrue
<1>1. IInv => ProcessedReplyIsTrue
  BY DEF IInv, ProcessedReplyIsTrue, HandlerOK, GiftInHandOK
<1> QED BY <1>1, Invariance, PTL
=============================================================================
