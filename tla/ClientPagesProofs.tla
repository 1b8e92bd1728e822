------------------------- MODULE ClientPagesProofs --------------------------
(***************************************************************************)
(* Proofs about the views of the client, for any rows, gifts, people,      *)
(* payouts, households and appeals, any number of clicks and of requests   *)
(* in progress, and answers in any order.  Each view is inductive by       *)
(* itself: its invariant is that of its component module.                  *)
(***************************************************************************)
EXTENDS ClientPages, TLAPS

LEMMA Bounds ==
    /\ DrawerClicks \in Nat /\ QueueClicks \in Nat /\ LookupBound \in Nat
    /\ PayoutClicks \in Nat /\ HouseholdClicks \in Nat /\ AppealClicks \in Nat
BY ConstantsAssumption

-----------------------------------------------------------------------------
(***************************************************************************)
(* The staging drawer                                                      *)
(***************************************************************************)

LEMMA DrawerStart ==
    ASSUME call \in [Slots -> Drawer!CallState], NEW q \in Drawer!CallState, Drawer!Start(q)
    PROVE  /\ call' \in [Slots -> Drawer!CallState]
           /\ \A c \in Slots : call'[c] \in {call[c], q}
<1> DEFINE free == {c \in Slots : call[c] = Drawer!Idle}
           s == CHOOSE c \in free : TRUE
<1>1. free # {} /\ call' = [call EXCEPT ![s] = q]
  BY DEF Drawer!Start
<1>2. s \in Slots
  BY <1>1
<1> HIDE DEF s
<1> QED BY <1>1, <1>2

\* The columns of a row fill a form, and a form whose amount is a number is sent
\* as columns.
LEMMA DrawerForms ==
    /\ Drawer!Empty \in Drawer!Columns
    /\ \A d \in Drawer!Columns : d \in [amount : Rows \cup {Blank, Garbled}, note : Rows \cup {Blank}]
    /\ \A d \in [amount : Rows \cup {Blank, Garbled}, note : Rows \cup {Blank}] :
           d.amount # Garbled => d \in Drawer!Columns
BY DEF Drawer!Empty, Drawer!Columns, Drawer!Fields
LEMMA DrawerIdle ==
    /\ Drawer!Idle \in Drawer!CallState /\ Drawer!CallOK(Drawer!Idle)
    /\ \A r \in Rows : Drawer!Load(r) \in Drawer!CallState /\ Drawer!CallOK(Drawer!Load(r))
<1>1. Drawer!Idle \in Drawer!CallState
  BY DrawerForms DEF Drawer!Idle, Drawer!CallState, Drawer!Decisions
<1>2. Drawer!CallOK(Drawer!Idle)
  BY DEF Drawer!Idle, Drawer!CallOK
<1>3. ASSUME NEW r \in Rows
      PROVE  Drawer!Load(r) \in Drawer!CallState /\ Drawer!CallOK(Drawer!Load(r))
  BY DrawerForms DEF Drawer!Load, Drawer!Idle, Drawer!CallState, Drawer!CallOK
<1> QED BY <1>1, <1>2, <1>3

LEMMA DrawerInitOK == Drawer!Init => Drawer!DrawerInv
<1> SUFFICES ASSUME Drawer!Init PROVE Drawer!DrawerInv
  OBVIOUS
<1>1. stored \in [Rows -> Drawer!Columns] /\ Drawer!ContentStaysWithItsGift
  BY DEF Drawer!Init, Drawer!Columns, Drawer!Fields, Drawer!ContentStaysWithItsGift
<1>2. detail \in Drawer!Details /\ detail.columns = Drawer!Empty /\ form = Drawer!Empty
  BY DrawerForms DEF Drawer!Init, Drawer!Details, Drawer!NoDetail
<1>3. \A f \in Drawer!Fields : Drawer!Empty[f] = Blank
  BY DEF Drawer!Empty
<1>4. call \in [Slots -> Drawer!CallState] /\ \A c \in Slots : Drawer!CallOK(call[c])
  BY DrawerIdle DEF Drawer!Init
<1>5. 0 \in 0..DrawerClicks
  BY Bounds
<1>6. Drawer!TypeOK
  BY <1>1, <1>2, <1>4, <1>5, DrawerForms DEF Drawer!Init, Drawer!TypeOK
<1> QED BY <1>1, <1>2, <1>3, <1>4, <1>6 DEF Drawer!DrawerInv

\* Closing, opening and answers change the form with the detail.
LEMMA DrawerShows ==
    ASSUME NEW d \in Drawer!Details, \A f \in Drawer!Fields : d.columns[f] \in {d.row, Blank},
           Drawer!Show(d)
    PROVE  /\ detail' \in Drawer!Details
           /\ form' \in [amount : Rows \cup {Blank, Garbled}, note : Rows \cup {Blank}]
           /\ \A f \in Drawer!Fields : /\ detail'.columns[f] \in {detail'.row, Blank}
                                       /\ form'[f] \in {detail'.row, Blank, Garbled}
<1>1. d.columns \in Drawer!Columns
  BY DEF Drawer!Details
<1> QED BY <1>1, DrawerForms DEF Drawer!Show

LEMMA DrawerNoDetail ==
    /\ Drawer!NoDetail \in Drawer!Details
    /\ \A f \in Drawer!Fields : Drawer!NoDetail.columns[f] \in {Drawer!NoDetail.row, Blank}
BY DrawerForms DEF Drawer!NoDetail, Drawer!Details, Drawer!Empty

\* What the reviewer does, decisions aside.
LEMMA DrawerLooks ==
    ASSUME Drawer!DrawerInv,
           \/ \E r \in Rows : Drawer!Open(r)
           \/ Drawer!Close \/ Drawer!Retry \/ Drawer!Typing \/ Drawer!Reset
    PROVE  Drawer!DrawerInv'
<1> USE DEF Drawer!DrawerInv, Drawer!TypeOK
<1>1. ASSUME NEW r \in Rows, Drawer!Start(Drawer!Load(r)), UNCHANGED <<stored, detail, form, busy>>,
             open' = r, loading' = TRUE, failed' = FALSE, Drawer!Click
      PROVE  Drawer!DrawerInv'
  <2>1. call' \in [Slots -> Drawer!CallState] /\ \A c \in Slots : Drawer!CallOK(call'[c])
    BY <1>1, DrawerStart, DrawerIdle
  <2>2. clicks' \in 0..DrawerClicks
    BY <1>1, ConstantsAssumption DEF Drawer!Click
  <2> QED BY <1>1, <2>1, <2>2 DEF Drawer!ContentStaysWithItsGift
<1>2. ASSUME NEW r \in Rows, Drawer!Open(r) PROVE Drawer!DrawerInv'
  BY <1>1, <1>2 DEF Drawer!Open, Drawer!StartLoading
<1>3. CASE Drawer!Retry
  BY <1>1, <1>3 DEF Drawer!Retry, Drawer!StartLoading
<1>4. CASE Drawer!Close
  <2>1. clicks' \in 0..DrawerClicks
    BY <1>4, ConstantsAssumption DEF Drawer!Close, Drawer!Click
  <2> QED BY <1>4, <2>1, DrawerShows, DrawerNoDetail
          DEF Drawer!Close, Drawer!ContentStaysWithItsGift
<1>5. CASE Drawer!Typing
  <2>1. /\ detail.row \in Rows /\ UNCHANGED <<stored, open, detail, loading, failed, busy, call, clicks>>
        /\ \E f \in Drawer!Fields, v \in {detail.row, Blank, Garbled} :
              form' = [form EXCEPT ![f] = v] /\ (v = Garbled => f = "amount")
    BY <1>5, ConstantsAssumption
       DEF Drawer!Typing, Drawer!Type, Drawer!Shown, Drawer!Details, Drawer!Fields
  <2>2. form' \in [amount : Rows \cup {Blank, Garbled}, note : Rows \cup {Blank}]
    BY <2>1 DEF Drawer!Fields
  <2>3. \A f \in Drawer!Fields : form'[f] \in {detail'.row, Blank, Garbled}
    BY <2>1 DEF Drawer!Fields
  <2> QED BY <2>1, <2>2, <2>3 DEF Drawer!ContentStaysWithItsGift
<1>6. CASE Drawer!Reset
  <2>1. clicks' \in 0..DrawerClicks
    BY <1>6, ConstantsAssumption DEF Drawer!Reset, Drawer!Click
  <2> QED BY <1>6, <2>1, DrawerShows DEF Drawer!Reset, Drawer!ContentStaysWithItsGift
<1> QED BY <1>2, <1>3, <1>4, <1>5, <1>6
\* A decision is sent with content of the gift it is about.
LEMMA DrawerDecides ==
    ASSUME Drawer!DrawerInv,
           Drawer!Save \/ Drawer!MarkReady \/ Drawer!Process \/ Drawer!AssignDonor
    PROVE  Drawer!DrawerInv'
<1> USE DEF Drawer!DrawerInv, Drawer!TypeOK
<1>1. ASSUME NEW kind \in Drawer!Decisions, NEW content \in Drawer!Columns,
             \A f \in Drawer!Fields : content[f] \in {detail.row, Blank},
             open # NoRow, Drawer!Begin(kind, content)
      PROVE  Drawer!DrawerInv'
  <2> DEFINE q == [Drawer!Idle EXCEPT !.kind = kind, !.row = detail.row, !.sends = content,
                                      !.at = "sent", !.from = open]
  <2>1. detail.row \in Rows /\ open \in Rows
    BY <1>1 DEF Drawer!Begin, Drawer!Target, Drawer!Details
  <2>2. q \in Drawer!CallState /\ Drawer!CallOK(q)
    BY <1>1, <2>1, DrawerForms DEF Drawer!Idle, Drawer!CallState, Drawer!CallOK
  <2>3. /\ Drawer!Start(q) /\ Drawer!Click /\ busy' = Drawer!Flag(kind)
        /\ UNCHANGED <<stored, open, detail, form, loading, failed>>
    BY <1>1 DEF Drawer!Begin, Drawer!Target
  <2> HIDE DEF q
  <2>4. call' \in [Slots -> Drawer!CallState] /\ \A c \in Slots : Drawer!CallOK(call'[c])
    BY <2>2, <2>3, DrawerStart
  <2>5. clicks' \in 0..DrawerClicks
    BY <2>3, Bounds DEF Drawer!Click
  <2>6. busy' \in {"none", "update", "mark-ready", "process"}
    BY <1>1, <2>3 DEF Drawer!Flag, Drawer!Decisions
  <2> QED BY <2>3, <2>4, <2>5, <2>6 DEF Drawer!ContentStaysWithItsGift
<1>2. CASE Drawer!Save
  <2>1. form \in Drawer!Columns
    BY <1>2, DrawerForms DEF Drawer!Save
  <2>2. \A f \in Drawer!Fields : form[f] \in {detail.row, Blank}
    <3>1. Garbled \notin Rows \cup {Blank}
      BY ConstantsAssumption
    <3> QED BY <2>1, <3>1 DEF Drawer!Columns
  <2> QED BY <1>1, <1>2, <2>1, <2>2 DEF Drawer!Save, Drawer!Enabled, Drawer!Decisions
<1>3. CASE Drawer!MarkReady \/ Drawer!Process \/ Drawer!AssignDonor
  <2>1. Drawer!Empty \in Drawer!Columns /\ \A f \in Drawer!Fields : Drawer!Empty[f] = Blank
    BY DrawerForms DEF Drawer!Empty
  <2>2. open # NoRow /\ \E kind \in Drawer!Decisions : Drawer!Begin(kind, Drawer!Empty)
    BY <1>3 DEF Drawer!MarkReady, Drawer!Process, Drawer!AssignDonor, Drawer!Enabled,
                Drawer!Shown, Drawer!Decisions
  <2> QED BY <1>1, <2>1, <2>2
<1> QED BY <1>2, <1>3

\* What the server does, and the answers.
LEMMA DrawerAnswers ==
    ASSUME Drawer!DrawerInv, NEW c \in Slots, Drawer!Answer(c)
    PROVE  Drawer!DrawerInv'
<1> USE DEF Drawer!DrawerInv, Drawer!TypeOK
<1>0. call[c] \in Drawer!CallState /\ Drawer!CallOK(call[c])
  OBVIOUS
<1>1. ASSUME NEW q \in Drawer!CallState, Drawer!CallOK(q), call' = [call EXCEPT ![c] = q]
      PROVE  call' \in [Slots -> Drawer!CallState] /\ \A s \in Slots : Drawer!CallOK(call'[s])
  BY <1>1
<1>2. CASE Drawer!Serve(c)
  <2>1. PICK done \in BOOLEAN, ok \in BOOLEAN :
            /\ stored' = IF done THEN Drawer!Written(call[c].row, call[c].sends) ELSE stored
            /\ call' = [call EXCEPT ![c].at = "replied", ![c].ok = ok]
    BY <1>2 DEF Drawer!Serve
  <2> DEFINE q == [call[c] EXCEPT !.at = "replied", !.ok = ok]
             r == call[c].row
  <2>2. q \in Drawer!CallState /\ Drawer!CallOK(q) /\ call' = [call EXCEPT ![c] = q]
    BY <1>0, <1>2, <2>1 DEF Drawer!CallState, Drawer!CallOK, Drawer!Serve
  <2> HIDE DEF q
  <2>3. r \in Rows /\ call[c].sends \in Drawer!Columns
        /\ \A f \in Drawer!Fields : call[c].sends[f] \in {r, Blank}
    BY <1>0, <1>2 DEF Drawer!CallState, Drawer!CallOK, Drawer!Serve
  <2>4. stored' \in [Rows -> Drawer!Columns] /\ Drawer!ContentStaysWithItsGift'
    <3> DEFINE new == [f \in Drawer!Fields |-> IF call[c].sends[f] = Blank THEN stored[r][f]
                                               ELSE call[c].sends[f]]
    <3>1. new \in Drawer!Columns /\ new.amount = r /\ new.note \in {r, Blank}
      BY <2>3 DEF Drawer!Columns, Drawer!Fields, Drawer!ContentStaysWithItsGift
    <3>2. stored' = stored \/ stored' = [stored EXCEPT ![r] = new]
      BY <2>1 DEF Drawer!Written
    <3> HIDE DEF new
    <3> QED BY <2>3, <3>1, <3>2 DEF Drawer!ContentStaysWithItsGift
  <2> QED BY <1>1, <1>2, <2>2, <2>4 DEF Drawer!Serve
<1>3. CASE Drawer!Succeeded(c)
  <2> DEFINE q == [call[c] EXCEPT !.at = "reading"]
  <2>1. q \in Drawer!CallState /\ Drawer!CallOK(q) /\ call' = [call EXCEPT ![c] = q]
    BY <1>0, <1>3 DEF Drawer!CallState, Drawer!CallOK, Drawer!Succeeded
  <2> HIDE DEF q
  <2> QED BY <1>1, <1>3, <2>1
          DEF Drawer!Succeeded, Drawer!StartLoading, Drawer!ContentStaysWithItsGift
<1>4. CASE Drawer!Failed(c)
  BY <1>1, <1>4, DrawerIdle DEF Drawer!Failed, Drawer!ContentStaysWithItsGift
<1>5. CASE Drawer!Read(c)
  <2>1. PICK ok \in BOOLEAN :
            call' = [call EXCEPT ![c].at = "read", ![c].ok = ok,
                         ![c].seen = IF ok THEN stored[call[c].from] ELSE Drawer!Empty]
    BY <1>5 DEF Drawer!Read
  <2> DEFINE seen == IF ok THEN stored[call[c].from] ELSE Drawer!Empty
             q == [call[c] EXCEPT !.at = "read", !.ok = ok, !.seen = seen]
  <2>2. call[c].from \in Rows
    BY <1>0, <1>5 DEF Drawer!CallOK, Drawer!Read
  <2>3. seen \in Drawer!Columns /\ (ok => \A f \in Drawer!Fields : seen[f] \in {call[c].from, Blank})
    BY <2>2, DrawerForms DEF Drawer!ContentStaysWithItsGift, Drawer!Fields
  <2>4. call' = [call EXCEPT ![c] = q]
    BY <2>1
  <2> HIDE DEF seen
  <2>5. q \in Drawer!CallState /\ Drawer!CallOK(q)
    BY <1>0, <2>2, <2>3 DEF Drawer!CallState, Drawer!CallOK
  <2> HIDE DEF q
  <2> QED BY <1>1, <1>5, <2>4, <2>5 DEF Drawer!Read, Drawer!ContentStaysWithItsGift
<1>6. CASE Drawer!Loaded(c)
  <2> DEFINE d == IF call[c].ok THEN [row |-> call[c].from, columns |-> call[c].seen]
                  ELSE Drawer!NoDetail
  <2>1. d \in Drawer!Details /\ \A f \in Drawer!Fields : d.columns[f] \in {d.row, Blank}
    BY <1>0, <1>6, DrawerNoDetail
       DEF Drawer!CallState, Drawer!CallOK, Drawer!Details, Drawer!Loaded
  <2>2. Drawer!Show(d)
    BY <1>6 DEF Drawer!Loaded
  <2> HIDE DEF d
  <2>3. call' \in [Slots -> Drawer!CallState] /\ \A s \in Slots : Drawer!CallOK(call'[s])
    BY <1>1, <1>6, DrawerIdle DEF Drawer!Loaded
  <2>4. /\ UNCHANGED <<stored, open, clicks>> /\ failed' \in BOOLEAN /\ loading' = FALSE
        /\ busy' \in {"none", "update", "mark-ready", "process"}
    BY <1>6 DEF Drawer!Loaded
  <2> QED BY <2>1, <2>2, <2>3, <2>4, DrawerShows DEF Drawer!ContentStaysWithItsGift
<1> QED BY <1>2, <1>3, <1>4, <1>5, <1>6 DEF Drawer!Answer

LEMMA DrawerStepOK ==
    ASSUME Drawer!DrawerInv, Drawer!Next
    PROVE  Drawer!DrawerInv'
BY DrawerLooks, DrawerDecides, DrawerAnswers DEF Drawer!Next, Drawer!Reviewer
-----------------------------------------------------------------------------
(***************************************************************************)
(* The staging queue                                                       *)
(***************************************************************************)

LEMMA QueueStart ==
    ASSUME call \in [Slots -> Queue!CallState], NEW q \in Queue!CallState, Queue!Start(q)
    PROVE  call' \in [Slots -> Queue!CallState]
<1> DEFINE free == {c \in Slots : call[c] = Queue!Idle}
           s == CHOOSE c \in free : TRUE
<1>1. free # {} /\ call' = [call EXCEPT ![s] = q]
  BY DEF Queue!Start
<1>2. s \in Slots
  BY <1>1
<1> HIDE DEF s
<1> QED BY <1>1, <1>2

LEMMA QueueCalls ==
    /\ Queue!NoFilter \in Queue!Filters /\ Queue!Initially \in Queue!Filters
    /\ Queue!NoFilter.keys = {} /\ Queue!NoFilter.giftBatchId = None
    /\ Queue!Initially.keys = {} /\ Queue!Initially.giftBatchId = None
    /\ Queue!Idle \in Queue!CallState
    /\ \A f \in Queue!Filters : Queue!Load(f) \in Queue!CallState
<1>1. /\ Queue!NoFilter \in Queue!Filters /\ Queue!Initially \in Queue!Filters
      /\ Queue!NoFilter.keys = {} /\ Queue!NoFilter.giftBatchId = None
      /\ Queue!Initially.keys = {} /\ Queue!Initially.giftBatchId = None
  BY DEF Queue!NoFilter, Queue!Initially, Queue!Filters, Queue!Orders
<1>2. Queue!Idle \in Queue!CallState
  BY <1>1 DEF Queue!Idle, Queue!CallState
<1>3. \A f \in Queue!Filters : Queue!Load(f) \in Queue!CallState
  BY <1>1 DEF Queue!Load, Queue!Idle, Queue!CallState
<1> QED BY <1>1, <1>2, <1>3

LEMMA QueueInitOK == Queue!Init => Queue!QueueInv
<1> SUFFICES ASSUME Queue!Init PROVE Queue!QueueInv
  OBVIOUS
<1>1. call \in [Slots -> Queue!CallState]
  BY QueueCalls DEF Queue!Init
<1>2. 0 \in 0..QueueClicks
  BY Bounds
<1> QED BY <1>1, <1>2, QueueCalls
        DEF Queue!Init, Queue!QueueInv, Queue!TypeOK, Queue!ChipsTellTheFilter

\* The list is asked for with the filter f.
LEMMA QueueAsks ==
    ASSUME Queue!QueueInv, NEW f \in Queue!Filters, Queue!Ask(f)
    PROVE  /\ filters' = f /\ call' \in [Slots -> Queue!CallState]
           /\ {listing', refreshing', broken'} \subseteq BOOLEAN
           /\ UNCHANGED <<items, working>>
<1>1. CASE f = filters
  BY <1>1 DEF Queue!Ask, Queue!QueueInv, Queue!TypeOK
<1>2. CASE f # filters
  <2>1. Queue!Start(Queue!Load(f)) /\ Queue!Load(f) \in Queue!CallState
    BY <1>2, QueueCalls DEF Queue!Ask
  <2>2. call' \in [Slots -> Queue!CallState]
    BY <2>1, QueueStart DEF Queue!QueueInv, Queue!TypeOK
  <2> QED BY <1>2, <2>2 DEF Queue!Ask, Queue!QueueInv, Queue!TypeOK
<1> QED BY <1>1, <1>2

\* A change of the filter changes the chips and the active batch with it.
LEMMA QueueNarrows ==
    ASSUME Queue!QueueInv,
           \/ \E key \in Queue!Toggles : Queue!ToggleChip(key)
           \/ Queue!SelectSource \/ Queue!SelectOrder
           \/ \E b \in Batches : Queue!SelectBatch(b)
           \/ Queue!ClearAll \/ Queue!TimerFires
    PROVE  Queue!QueueInv'
<1> USE DEF Queue!QueueInv, Queue!TypeOK, Queue!ChipsTellTheFilter
<1>1. ASSUME NEW f \in Queue!Filters, Queue!Ask(f),
             chips' = f.keys \cap Queue!Toggles,
             batch' \in Batches \cup {None}, batch' # None => f.giftBatchId = batch',
             {box', pending'} \subseteq BOOLEAN, clicks' = clicks \/ Queue!Click
      PROVE  Queue!QueueInv'
  <2>1. clicks' \in 0..QueueClicks
    BY <1>1, Bounds DEF Queue!Click
  <2> QED BY <1>1, <2>1, QueueAsks
<1>2. ASSUME NEW key \in Queue!Keys, NEW on \in BOOLEAN
      PROVE  /\ Queue!Keyed(key, on) \in Queue!Filters
             /\ Queue!Keyed(key, on).giftBatchId = filters.giftBatchId
             /\ Queue!Keyed(key, on).keys = IF on THEN filters.keys \cup {key}
                                            ELSE filters.keys \ {key}
  BY <1>2 DEF Queue!Keyed, Queue!Filters
<1>3. ASSUME NEW key \in Queue!Toggles, Queue!ToggleChip(key) PROVE Queue!QueueInv'
  <2> DEFINE f == Queue!Keyed(key, key \notin chips)
  <2>1. f \in Queue!Filters /\ f.giftBatchId = filters.giftBatchId
        /\ f.keys = IF key \notin chips THEN filters.keys \cup {key} ELSE filters.keys \ {key}
    BY <1>2 DEF Queue!Keys
  <2>2. /\ Queue!Ask(f) /\ Queue!Click /\ UNCHANGED <<batch, box, pending>>
        /\ chips' = IF key \in chips THEN chips \ {key} ELSE chips \cup {key}
    BY <1>3 DEF Queue!ToggleChip
  <2> HIDE DEF f
  <2> QED BY <1>1, <1>3, <2>1, <2>2
<1>4. CASE Queue!SelectSource
  <2> DEFINE f == Queue!Keyed("intakeSources", "intakeSources" \notin filters.keys)
  <2>1. f \in Queue!Filters /\ f.giftBatchId = filters.giftBatchId
        /\ f.keys \cap Queue!Toggles = filters.keys \cap Queue!Toggles
    BY <1>2 DEF Queue!Keys, Queue!Toggles
  <2>2. Queue!Ask(f) /\ Queue!Click /\ UNCHANGED <<chips, batch, box, pending>>
    BY <1>4 DEF Queue!SelectSource
  <2> HIDE DEF f
  <2> QED BY <1>1, <2>1, <2>2
<1>5. CASE Queue!SelectOrder
  <2> DEFINE f == [filters EXCEPT !.sort = IF filters.sort = "other" THEN "newest" ELSE "other"]
  <2>1. f \in Queue!Filters /\ f.giftBatchId = filters.giftBatchId /\ f.keys = filters.keys
    BY DEF Queue!Filters, Queue!Orders
  <2>2. Queue!Ask(f) /\ Queue!Click /\ UNCHANGED <<chips, batch, box, pending>>
    BY <1>5 DEF Queue!SelectOrder
  <2> HIDE DEF f
  <2> QED BY <1>1, <2>1, <2>2
<1>6. ASSUME NEW b \in Batches, Queue!SelectBatch(b) PROVE Queue!QueueInv'
  <2> DEFINE n == IF batch = b THEN None ELSE b
             f == [filters EXCEPT !.giftBatchId = n]
  <2>1. n \in Batches \cup {None}
    OBVIOUS
  <2>2. /\ batch' = n /\ Queue!Ask(f) /\ Queue!Click /\ UNCHANGED <<chips, box, pending>>
    BY <1>6 DEF Queue!SelectBatch
  <2> HIDE DEF n
  <2>3. f \in Queue!Filters /\ f.giftBatchId = n /\ f.keys = filters.keys
    BY <2>1 DEF Queue!Filters
  <2> HIDE DEF f
  <2> QED BY <1>1, <2>1, <2>2, <2>3
<1>7. CASE Queue!ClearAll
  BY <1>1, <1>7, QueueCalls DEF Queue!ClearAll
<1>8. CASE Queue!TimerFires
  <2> DEFINE f == Queue!Keyed("search", box)
  <2>1. f \in Queue!Filters /\ f.giftBatchId = filters.giftBatchId
        /\ f.keys \cap Queue!Toggles = filters.keys \cap Queue!Toggles
    BY <1>2 DEF Queue!Keys, Queue!Toggles
  <2>2. Queue!Ask(f) /\ pending' = FALSE /\ UNCHANGED <<chips, batch, box, clicks>>
    BY <1>8 DEF Queue!TimerFires
  <2> HIDE DEF f
  <2> QED BY <1>1, <2>1, <2>2
<1> QED BY <1>3, <1>4, <1>5, <1>6, <1>7, <1>8

\* Nothing else touches the filter or a chip, but an answer may end a batch.
LEMMA QueueGoesOn ==
    ASSUME Queue!QueueInv,
           \/ Queue!TypeSearch \/ Queue!Refresh
           \/ \E g \in QueuedGifts : Queue!MarkReady(g) \/ Queue!Process(g) \/ Queue!Retry(g)
           \/ \E c \in Slots : Queue!Answer(c)
    PROVE  Queue!QueueInv'
<1> USE DEF Queue!QueueInv, Queue!TypeOK, Queue!ChipsTellTheFilter
<1>1. ASSUME UNCHANGED <<filters, chips>>, batch' \in {batch, None},
             {box', pending', listing', refreshing', broken'} \subseteq BOOLEAN,
             items' \subseteq QueuedGifts, clicks' = clicks \/ Queue!Click,
             working' \in [QueuedGifts -> {"none"} \cup Queue!Decisions],
             call' \in [Slots -> Queue!CallState]
      PROVE  Queue!QueueInv'
  <2>1. clicks' \in 0..QueueClicks
    BY <1>1, Bounds DEF Queue!Click
  <2> QED BY <1>1, <2>1
<1>2. CASE Queue!TypeSearch
  BY <1>1, <1>2 DEF Queue!TypeSearch, Queue!list
<1>3. CASE Queue!Refresh
  <2>1. [Queue!Load(filters) EXCEPT !.kind = "refresh"] \in Queue!CallState
    BY QueueCalls DEF Queue!CallState
  <2>2. call' \in [Slots -> Queue!CallState]
    BY <1>3, <2>1, QueueStart DEF Queue!Refresh
  <2> QED BY <1>1, <1>3, <2>2 DEF Queue!Refresh, Queue!narrowing
<1>4. ASSUME NEW g \in QueuedGifts, Queue!MarkReady(g) \/ Queue!Process(g) \/ Queue!Retry(g)
      PROVE  Queue!QueueInv'
  <2>1. PICK kind \in Queue!Decisions, retry \in BOOLEAN, enabled \in BOOLEAN :
            Queue!Decide(kind, g, retry, enabled)
    BY <1>4 DEF Queue!MarkReady, Queue!Process, Queue!Retry, Queue!Decisions
  <2>2. [Queue!Idle EXCEPT !.kind = kind, !.row = g, !.retry = retry, !.at = "sent",
                           !.asked = filters] \in Queue!CallState
    BY QueueCalls DEF Queue!CallState
  <2>3. call' \in [Slots -> Queue!CallState]
    BY <2>1, <2>2, QueueStart DEF Queue!Decide
  <2>4. /\ UNCHANGED <<filters, chips, batch, box, pending, items, listing, refreshing, broken>>
        /\ working' = [working EXCEPT ![g] = kind] /\ Queue!Click
    BY <2>1 DEF Queue!Decide, Queue!narrowing, Queue!list
  <2> QED BY <1>1, <2>3, <2>4
<1>5. ASSUME NEW c \in Slots, Queue!Ends(c)
      PROVE  /\ call' \in [Slots -> Queue!CallState]
             /\ working' \in [QueuedGifts -> {"none"} \cup Queue!Decisions]
  <2>1. [call[c] EXCEPT !.kind = "process", !.retry = FALSE, !.at = "sent"] \in Queue!CallState
    BY DEF Queue!CallState, Queue!Decisions
  <2>2. call' \in [Slots -> Queue!CallState]
    BY <1>5, <2>1, QueueCalls DEF Queue!Ends
  <2> QED BY <1>5, <2>2 DEF Queue!Ends, Queue!Decisions
<1>6. ASSUME NEW c \in Slots, Queue!Replied(c) PROVE Queue!QueueInv'
  <2>1. [call[c] EXCEPT !.at = "listing"] \in Queue!CallState
    BY DEF Queue!CallState
  <2>2. /\ call' \in [Slots -> Queue!CallState]
        /\ working' \in [QueuedGifts -> {"none"} \cup Queue!Decisions]
        /\ {refreshing', broken'} \subseteq BOOLEAN
    BY <1>5, <1>6, <2>1 DEF Queue!Replied
  <2> QED BY <1>1, <1>6, <2>2 DEF Queue!Replied, Queue!narrowing
<1>7. ASSUME NEW c \in Slots, Queue!Lists(c) PROVE Queue!QueueInv'
  <2>1. items' \subseteq QueuedGifts
    BY <1>7 DEF Queue!Lists, Queue!Matching
  <2>2. {listing', refreshing', broken'} \subseteq BOOLEAN
    BY <1>7 DEF Queue!Lists, Queue!Flags
  <2>3. batch' \in {batch, None} /\ UNCHANGED <<filters, chips, box, pending, clicks>>
    BY <1>7 DEF Queue!Lists, Queue!StillListed
  <2> QED BY <1>1, <1>5, <1>7, <2>1, <2>2, <2>3 DEF Queue!Lists
<1> QED BY <1>2, <1>3, <1>4, <1>6, <1>7 DEF Queue!Answer

LEMMA QueueStepOK ==
    ASSUME Queue!QueueInv, Queue!Next
    PROVE  Queue!QueueInv'
BY QueueNarrows, QueueGoesOn DEF Queue!Next
-----------------------------------------------------------------------------
(***************************************************************************)
(* Appeals                                                                 *)
(***************************************************************************)

IsSaving(kind, reqs) == \E c \in Slots : reqs[c].kind = kind

SavesOne(kind, reqs) ==
    \A c, s \in Slots : reqs[c].kind = kind /\ reqs[s].kind = kind => c = s

LEMMA AppealForms ==
    Appeal!FormsSaveOnce <=>
        /\ creating.saving <=> IsSaving("create", call)
        /\ editing.saving <=> IsSaving("edit", call)
        /\ counting.saving <=> IsSaving("count", call)
        /\ SavesOne("create", call) /\ SavesOne("edit", call) /\ SavesOne("count", call)
BY DEF Appeal!FormsSaveOnce, Appeal!SavesOf, IsSaving, SavesOne

LEMMA AppealFormsNext ==
    ASSUME creating'.saving <=> IsSaving("create", call'),
           editing'.saving <=> IsSaving("edit", call'),
           counting'.saving <=> IsSaving("count", call'),
           SavesOne("create", call'), SavesOne("edit", call'), SavesOne("count", call')
    PROVE  Appeal!FormsSaveOnce'
BY DEF Appeal!FormsSaveOnce, Appeal!SavesOf, IsSaving, SavesOne

\* A request that starts, goes on or ends.
LEMMA SavesMove ==
    ASSUME call \in [Slots -> Appeal!CallState], NEW c \in Slots, NEW q,
           call' = [call EXCEPT ![c] = q], NEW kind, SavesOne(kind, call),
           q.kind # kind \/ call[c].kind = kind \/ ~IsSaving(kind, call)
    PROVE  /\ SavesOne(kind, call')
           /\ IsSaving(kind, call') <=>
                  IF call[c].kind = kind THEN q.kind = kind
                  ELSE IsSaving(kind, call) \/ q.kind = kind
<1>1. call'[c] = q /\ \A s \in Slots \ {c} : call'[s] = call[s]
  OBVIOUS
<1>2. call[c].kind = kind => (IsSaving(kind, call') <=> q.kind = kind)
  BY <1>1 DEF IsSaving, SavesOne
<1>3. call[c].kind # kind => (IsSaving(kind, call') <=> IsSaving(kind, call) \/ q.kind = kind)
  BY <1>1 DEF IsSaving
<1>4. SavesOne(kind, call')
  BY <1>1 DEF IsSaving, SavesOne
<1> QED BY <1>2, <1>3, <1>4

LEMMA AppealStart ==
    ASSUME call \in [Slots -> Appeal!CallState], NEW q \in Appeal!CallState, Appeal!Start(q)
    PROVE  \E s \in Slots : call[s] = Appeal!Idle /\ call' = [call EXCEPT ![s] = q]
<1> DEFINE free == {c \in Slots : call[c] = Appeal!Idle}
           s == CHOOSE c \in free : TRUE
<1>1. free # {} /\ call' = [call EXCEPT ![s] = q]
  BY DEF Appeal!Start
<1>2. s \in Slots /\ call[s] = Appeal!Idle
  BY <1>1
<1> HIDE DEF s
<1> QED BY <1>1, <1>2

LEMMA AppealCalls ==
    /\ Appeal!Idle \in Appeal!CallState
    /\ \A a \in Appeal!Ids, kind \in {"list", "snapshots"} :
           Appeal!Read(kind, a) \in Appeal!CallState
    /\ \A a \in Appeal!Ids, b \in Appeal!Ids, kind \in Appeal!Saves :
           Appeal!Save(kind, a, b) \in Appeal!CallState
BY DEF Appeal!Idle, Appeal!Read, Appeal!Save, Appeal!CallState, Appeal!Ids, Appeal!Saves

LEMMA AppealInitOK == Appeal!Init => Appeal!AppealsInv
<1> SUFFICES ASSUME Appeal!Init PROVE Appeal!AppealsInv
  OBVIOUS
<1> DEFINE first == CHOOSE c \in Slots : TRUE
           load == Appeal!Read("list", None)
<1>1. call = [c \in Slots |-> IF c = first THEN load ELSE Appeal!Idle]
  BY DEF Appeal!Init
<1>2. /\ load \in Appeal!CallState /\ Appeal!Idle \in Appeal!CallState
      /\ load.kind = "list" /\ Appeal!Idle.kind = "none"
  BY AppealCalls DEF Appeal!Read, Appeal!Idle, Appeal!Ids
<1> HIDE DEF first, load
<1>3. call \in [Slots -> Appeal!CallState] /\ \A c \in Slots : call[c].kind \in {"list", "none"}
  BY <1>1, <1>2
<1>4. 0 \in 0..AppealClicks
  BY Bounds
<1>5. Appeal!TypeOK
  BY <1>3, <1>4 DEF Appeal!Init, Appeal!TypeOK, Appeal!Ids
<1>6. Appeal!FormsSaveOnce
  BY <1>3, AppealForms DEF Appeal!Init, IsSaving, SavesOne
<1> QED BY <1>3, <1>5, <1>6
        DEF Appeal!Init, Appeal!AppealsInv, Appeal!ContentStaysWithItsAppeal,
            Appeal!EditIsOfChosen, Appeal!EditShown, Appeal!EditsTheirOwn

\* Steps that change no request.
LEMMA AppealFills ==
    ASSUME Appeal!AppealsInv,
           \/ Appeal!OpenCreate \/ Appeal!OpenEdit \/ Appeal!CancelCreate \/ Appeal!CancelEdit
           \/ Appeal!Type
    PROVE  Appeal!AppealsInv'
<1> USE DEF Appeal!AppealsInv, Appeal!TypeOK
<1>1. /\ UNCHANGED <<held, appeals, chosen, reading, unread, sends, call>>
      /\ Appeal!Click \/ UNCHANGED clicks
      /\ creating' \in [open : BOOLEAN, typed : BOOLEAN, saving : {creating.saving}]
      /\ counting' \in [typed : BOOLEAN, saving : {counting.saving}]
  BY DEF Appeal!OpenCreate, Appeal!OpenEdit, Appeal!CancelCreate, Appeal!CancelEdit,
         Appeal!Type, Appeal!Fill, Appeal!list
<1>2. /\ editing' \in [open : BOOLEAN, content : Appeal!Ids, saving : {editing.saving}]
      /\ Appeal!EditIsOfChosen'
  BY DEF Appeal!OpenCreate, Appeal!OpenEdit, Appeal!CancelCreate, Appeal!CancelEdit,
         Appeal!Type, Appeal!Fill, Appeal!list, Appeal!EditIsOfChosen, Appeal!EditShown,
         Appeal!Ids
<1>3. clicks' \in 0..AppealClicks
  BY <1>1, Bounds DEF Appeal!Click
<1>4. Appeal!TypeOK'
  BY <1>1, <1>2, <1>3
<1>5. Appeal!FormsSaveOnce'
  BY <1>1, <1>2, AppealForms, AppealFormsNext
<1> QED BY <1>1, <1>2, <1>4, <1>5 DEF Appeal!ContentStaysWithItsAppeal

\* Steps that send a request.
LEMMA AppealSends ==
    ASSUME Appeal!AppealsInv,
           \/ \E a \in Appealed : Appeal!Select(a)
           \/ Appeal!SubmitCreate \/ Appeal!SubmitEdit \/ Appeal!SubmitCount
    PROVE  Appeal!AppealsInv'
<1> USE DEF Appeal!AppealsInv, Appeal!TypeOK
<1>1. Appeal!Click /\ UNCHANGED <<held, appeals, reading, unread>>
  BY DEF Appeal!Select, Appeal!SubmitCreate, Appeal!SubmitEdit, Appeal!SubmitCount, Appeal!list
<1>2. clicks' \in 0..AppealClicks
  BY <1>1, Bounds DEF Appeal!Click
<1>3. ASSUME NEW q \in Appeal!CallState, Appeal!EditsTheirOwn(q), Appeal!Start(q),
             chosen' \in Appeal!Ids, Appeal!EditIsOfChosen',
             creating' = [creating EXCEPT !.saving = @ \/ q.kind = "create"],
             editing' \in [open : BOOLEAN, content : Appeal!Ids,
                           saving : {editing.saving \/ q.kind = "edit"}],
             counting' = [counting EXCEPT !.saving = @ \/ q.kind = "count"],
             q.kind = "create" => ~creating.saving,
             q.kind = "edit" => ~editing.saving,
             q.kind = "count" => ~counting.saving,
             sends' \in [of : Appeal!Ids, loading : BOOLEAN]
      PROVE  Appeal!AppealsInv'
  <2>1. PICK s \in Slots : call[s] = Appeal!Idle /\ call' = [call EXCEPT ![s] = q]
    BY <1>3, AppealStart
  <2>2. call[s].kind = "none"
    BY <2>1 DEF Appeal!Idle
  <2>3. call' \in [Slots -> Appeal!CallState] /\ \A c \in Slots : Appeal!EditsTheirOwn(call'[c])
    BY <1>3, <2>1
  <2>4. call \in [Slots -> Appeal!CallState]
    OBVIOUS
  <2>5. ASSUME NEW kind \in Appeal!Saves, SavesOne(kind, call),
               q.kind = kind => ~IsSaving(kind, call)
        PROVE  /\ SavesOne(kind, call')
               /\ IsSaving(kind, call') <=> IsSaving(kind, call) \/ q.kind = kind
    <3>1. kind # "none"
      BY DEF Appeal!Saves
    <3>2. call[s].kind # kind
      BY <2>2, <3>1
    <3>3. /\ SavesOne(kind, call')
          /\ IsSaving(kind, call') <=> IsSaving(kind, call) \/ q.kind = kind
      BY <2>1, <2>4, <2>5, <3>2, SavesMove
    <3> QED BY <3>3
  <2>6. /\ creating'.saving = (creating.saving \/ q.kind = "create")
        /\ editing'.saving = (editing.saving \/ q.kind = "edit")
        /\ counting'.saving = (counting.saving \/ q.kind = "count")
    BY <1>3
  <2>7. Appeal!FormsSaveOnce'
    BY <1>3, <2>5, <2>6, AppealForms, AppealFormsNext DEF Appeal!Saves
  <2>8. Appeal!TypeOK'
    BY <1>1, <1>2, <1>3, <2>3
  <2> QED BY <1>1, <1>3, <2>3, <2>7, <2>8 DEF Appeal!ContentStaysWithItsAppeal
<1>4. ASSUME NEW a \in Appealed, Appeal!Select(a) PROVE Appeal!AppealsInv'
  <2> DEFINE q == Appeal!Read("snapshots", a)
  <2>1. q \in Appeal!CallState /\ Appeal!EditsTheirOwn(q) /\ q.kind = "snapshots"
    BY AppealCalls DEF Appeal!Read, Appeal!EditsTheirOwn, Appeal!Ids
  <2>2. Appeal!Start(q) /\ UNCHANGED <<creating, counting>> /\ chosen' = a
        /\ editing' = Appeal!Filled(appeals, a) /\ sends' = [sends EXCEPT !.loading = TRUE]
    BY <1>4 DEF Appeal!Select
  <2> HIDE DEF q
  <2>3. /\ editing' \in [open : BOOLEAN, content : Appeal!Ids, saving : {editing.saving}]
        /\ editing'.open /\ a \in appeals => editing'.content = a
    BY <2>2 DEF Appeal!Filled, Appeal!Ids
  <2>4. Appeal!EditIsOfChosen'
    BY <1>1, <2>2, <2>3 DEF Appeal!EditIsOfChosen, Appeal!EditShown
  <2> QED BY <1>3, <2>1, <2>2, <2>3, <2>4, ZenonT(90) DEF Appeal!Ids
<1>5. CASE Appeal!SubmitCreate
  <2> DEFINE q == Appeal!Save("create", None, None)
  <2>1. q \in Appeal!CallState /\ Appeal!EditsTheirOwn(q) /\ q.kind = "create"
    BY AppealCalls DEF Appeal!Save, Appeal!EditsTheirOwn, Appeal!Ids, Appeal!Saves
  <2>2. /\ Appeal!Start(q) /\ UNCHANGED <<chosen, editing, counting, sends>>
        /\ ~creating.saving /\ creating' = [creating EXCEPT !.saving = TRUE]
    BY <1>5 DEF Appeal!SubmitCreate, Appeal!list
  <2> HIDE DEF q
  <2>3. Appeal!EditIsOfChosen'
    BY <1>1, <2>2 DEF Appeal!EditIsOfChosen, Appeal!EditShown
  <2> QED BY <1>3, <2>1, <2>2, <2>3
<1>6. CASE Appeal!SubmitEdit
  <2> DEFINE q == Appeal!Save("edit", chosen, editing.content)
  <2>1. chosen \in Appealed /\ editing.content = chosen
    BY <1>6 DEF Appeal!SubmitEdit, Appeal!EditShown, Appeal!EditIsOfChosen
  <2>2. q \in Appeal!CallState /\ Appeal!EditsTheirOwn(q) /\ q.kind = "edit"
    BY <2>1, AppealCalls DEF Appeal!Save, Appeal!EditsTheirOwn, Appeal!Ids, Appeal!Saves
  <2>3. /\ Appeal!Start(q) /\ UNCHANGED <<chosen, creating, counting, sends>>
        /\ ~editing.saving /\ editing' = [editing EXCEPT !.saving = TRUE]
    BY <1>6 DEF Appeal!SubmitEdit, Appeal!list
  <2> HIDE DEF q
  <2>4. Appeal!EditIsOfChosen'
    BY <1>1, <2>3 DEF Appeal!EditIsOfChosen, Appeal!EditShown
  <2> QED BY <1>3, <2>2, <2>3, <2>4
<1>7. CASE Appeal!SubmitCount
  <2> DEFINE q == Appeal!Save("count", chosen, None)
  <2>1. q \in Appeal!CallState /\ Appeal!EditsTheirOwn(q) /\ q.kind = "count"
    BY AppealCalls DEF Appeal!Save, Appeal!EditsTheirOwn, Appeal!Ids, Appeal!Saves
  <2>2. /\ Appeal!Start(q) /\ UNCHANGED <<chosen, creating, editing, sends>>
        /\ ~counting.saving /\ counting' = [counting EXCEPT !.saving = TRUE]
    BY <1>7 DEF Appeal!SubmitCount, Appeal!list
  <2> HIDE DEF q
  <2>3. Appeal!EditIsOfChosen'
    BY <1>1, <2>2 DEF Appeal!EditIsOfChosen, Appeal!EditShown
  <2> QED BY <1>3, <2>1, <2>2, <2>3
<1> QED BY <1>4, <1>5, <1>6, <1>7
\* What the server does, and the answers.
LEMMA AppealAnswers ==
    ASSUME Appeal!AppealsInv, NEW c \in Slots, Appeal!Answer(c)
    PROVE  Appeal!AppealsInv'
<1> USE DEF Appeal!AppealsInv, Appeal!TypeOK
<1>0. call[c] \in Appeal!CallState /\ Appeal!EditsTheirOwn(call[c])
  OBVIOUS
<1>1. ASSUME NEW q \in Appeal!CallState, call' = [call EXCEPT ![c] = q],
             q.kind \in {call[c].kind, "none", "snapshots"},
             creating'.saving <=> creating.saving /\ (call[c].kind = "create" => q.kind = "create"),
             editing'.saving <=> editing.saving /\ (call[c].kind = "edit" => q.kind = "edit"),
             counting'.saving <=> counting.saving /\ (call[c].kind = "count" => q.kind = "count")
      PROVE  Appeal!FormsSaveOnce'
  <2>1. call \in [Slots -> Appeal!CallState]
    OBVIOUS
  <2>2. ASSUME NEW kind \in Appeal!Saves, SavesOne(kind, call)
        PROVE  /\ SavesOne(kind, call')
               /\ IsSaving(kind, call') <=>
                      IsSaving(kind, call) /\ (call[c].kind = kind => q.kind = kind)
    <3>1. q.kind = call[c].kind \/ q.kind # kind
      BY <1>1, <2>2 DEF Appeal!Saves
    <3>2. call[c].kind = kind => IsSaving(kind, call)
      BY DEF IsSaving
    <3>3. /\ SavesOne(kind, call')
          /\ IsSaving(kind, call') <=>
                 IF call[c].kind = kind THEN q.kind = kind
                 ELSE IsSaving(kind, call) \/ q.kind = kind
      BY <1>1, <2>1, <2>2, <3>1, <3>2, SavesMove, ZenonT(60)
    <3> QED BY <3>1, <3>2, <3>3
  <2> QED BY <1>1, <2>2, AppealForms, AppealFormsNext DEF Appeal!Saves
<1>2. ASSUME NEW q \in Appeal!CallState, Appeal!EditsTheirOwn(q), call' = [call EXCEPT ![c] = q]
      PROVE  call' \in [Slots -> Appeal!CallState] /\ \A s \in Slots : Appeal!EditsTheirOwn(call'[s])
  BY <1>2
<1>3. Appeal!Idle.kind = "none" /\ Appeal!Idle \in Appeal!CallState
      /\ Appeal!EditsTheirOwn(Appeal!Idle)
  BY AppealCalls DEF Appeal!Idle, Appeal!EditsTheirOwn
<1>4. ASSUME Appeal!Saving(call[c].kind, FALSE)
      PROVE  /\ creating' = [creating EXCEPT !.saving = @ /\ call[c].kind # "create"]
             /\ editing' = [editing EXCEPT !.saving = @ /\ call[c].kind # "edit"]
             /\ counting' = [counting EXCEPT !.saving = @ /\ call[c].kind # "count"]
  <2>1. creating' = [creating EXCEPT !.saving = @ /\ call[c].kind # "create"]
    BY <1>4 DEF Appeal!Saving
  <2>2. editing' = [editing EXCEPT !.saving = @ /\ call[c].kind # "edit"]
    BY <1>4 DEF Appeal!Saving
  <2>3. counting' = [counting EXCEPT !.saving = @ /\ call[c].kind # "count"]
    BY <1>4 DEF Appeal!Saving
  <2> QED BY <2>1, <2>2, <2>3
<1>5. ASSUME call[c].at = "sent", held' \in {held} \cup Appeal!Carried(call[c])
      PROVE  held' \in [Appealed -> Appeal!Ids] /\ Appeal!ContentStaysWithItsAppeal'
  <2>1. CASE held' = held
    BY <2>1 DEF Appeal!ContentStaysWithItsAppeal
  <2>2. CASE call[c].kind = "create" /\ held' \in Appeal!Carried(call[c])
    <3>1. PICK a \in Appealed : held' = [held EXCEPT ![a] = a]
      BY <2>2 DEF Appeal!Carried
    <3> QED BY <3>1 DEF Appeal!ContentStaysWithItsAppeal, Appeal!Ids
  <2>3. CASE call[c].kind = "edit" /\ held' \in Appeal!Carried(call[c])
    <3>1. held' = [held EXCEPT ![call[c].id] = call[c].sent]
      BY <2>3 DEF Appeal!Carried
    <3>2. call[c].id \in Appealed /\ call[c].sent = call[c].id
      BY <1>0, <1>5, <2>3 DEF Appeal!EditsTheirOwn
    <3> QED BY <3>1, <3>2 DEF Appeal!ContentStaysWithItsAppeal, Appeal!Ids
  <2> QED BY <1>5, <2>1, <2>2, <2>3 DEF Appeal!Carried
\* The forms are as they were, but for their being disabled.
<1>6. ASSUME Appeal!Saving(call[c].kind, FALSE), UNCHANGED <<appeals, chosen, clicks>>,
             {reading', unread'} \subseteq BOOLEAN, sends' \in [of : Appeal!Ids, loading : BOOLEAN],
             call' = [call EXCEPT ![c] = Appeal!Idle],
             held' \in [Appealed -> Appeal!Ids], Appeal!ContentStaysWithItsAppeal'
      PROVE  Appeal!AppealsInv'
  <2>1. Appeal!FormsSaveOnce'
    BY <1>1, <1>3, <1>4, <1>6
  <2>2. Appeal!TypeOK'
    <3>1. /\ creating' \in [open : BOOLEAN, typed : BOOLEAN, saving : BOOLEAN]
          /\ counting' \in [typed : BOOLEAN, saving : BOOLEAN]
      BY <1>4, <1>6
    <3>2. editing' \in [open : BOOLEAN, content : Appeal!Ids, saving : BOOLEAN]
      BY <1>4, <1>6
    <3>3. call' \in [Slots -> Appeal!CallState]
      BY <1>3, <1>6
    <3> QED BY <1>6, <3>1, <3>2, <3>3
  <2>3. Appeal!EditIsOfChosen'
    BY <1>4, <1>6 DEF Appeal!EditIsOfChosen, Appeal!EditShown
  <2> QED BY <1>2, <1>3, <1>6, <2>1, <2>2, <2>3
<1>7. CASE Appeal!Refused(c)
  <2>1. /\ call[c].at = "sent" /\ held' \in {held} \cup Appeal!Carried(call[c])
        /\ Appeal!Saving(call[c].kind, FALSE) /\ call' = [call EXCEPT ![c] = Appeal!Idle]
        /\ UNCHANGED <<appeals, chosen, reading, unread, sends, clicks>>
    BY <1>7 DEF Appeal!Refused, Appeal!list
  <2>2. {reading', unread'} \subseteq BOOLEAN /\ sends' \in [of : Appeal!Ids, loading : BOOLEAN]
    BY <2>1
  <2> QED BY <1>5, <1>6, <2>1, <2>2
<1>8. CASE Appeal!Saved(c)
  <2> DEFINE q == [call[c] EXCEPT !.at = "reading"]
  <2>1. /\ q \in Appeal!CallState /\ Appeal!EditsTheirOwn(q) /\ q.kind = call[c].kind
        /\ call' = [call EXCEPT ![c] = q]
    BY <1>0, <1>8 DEF Appeal!Saved, Appeal!CallState, Appeal!EditsTheirOwn
  <2> HIDE DEF q
  <2>2. held' \in [Appealed -> Appeal!Ids] /\ Appeal!ContentStaysWithItsAppeal'
    BY <1>5, <1>8 DEF Appeal!Saved
  <2>3. /\ UNCHANGED <<appeals, chosen, clicks>> /\ {reading', unread'} \subseteq BOOLEAN
        /\ sends' \in [of : Appeal!Ids, loading : BOOLEAN]
    BY <1>8 DEF Appeal!Saved, Appeal!list
  <2>4. creating' \in [open : BOOLEAN, typed : BOOLEAN, saving : {creating.saving}]
    BY <1>8 DEF Appeal!Saved
  <2>5. editing' \in {editing, [editing EXCEPT !.open = FALSE]}
    BY <1>8 DEF Appeal!Saved
  <2>6. counting' \in [typed : BOOLEAN, saving : {counting.saving}]
    BY <1>8 DEF Appeal!Saved
  <2>7. editing' \in [open : BOOLEAN, content : Appeal!Ids, saving : {editing.saving}]
        /\ editing'.content = editing.content /\ (editing'.open => editing.open)
    BY <2>5
  <2>8. Appeal!FormsSaveOnce'
    BY <1>1, <2>1, <2>4, <2>6, <2>7
  <2>9. Appeal!TypeOK'
    BY <1>2, <2>1, <2>2, <2>3, <2>4, <2>6, <2>7
  <2>10. Appeal!EditIsOfChosen'
    BY <2>3, <2>7 DEF Appeal!EditIsOfChosen, Appeal!EditShown
  <2> QED BY <1>2, <2>1, <2>2, <2>8, <2>9, <2>10
<1>9. CASE Appeal!SnapshotsRead(c)
  <2>1. /\ Appeal!Saving(call[c].kind, FALSE) /\ call' = [call EXCEPT ![c] = Appeal!Idle]
        /\ UNCHANGED <<held, appeals, chosen, reading, unread, clicks>>
        /\ sends' \in [of : {call[c].id, None}, loading : {FALSE}]
    BY <1>9 DEF Appeal!SnapshotsRead, Appeal!list
  <2>2. call[c].id \in Appeal!Ids
    BY <1>0 DEF Appeal!CallState
  <2>3. {reading', unread'} \subseteq BOOLEAN /\ sends' \in [of : Appeal!Ids, loading : BOOLEAN]
    BY <2>1, <2>2 DEF Appeal!Ids
  <2>4. held' \in [Appealed -> Appeal!Ids] /\ Appeal!ContentStaysWithItsAppeal'
    BY <2>1 DEF Appeal!ContentStaysWithItsAppeal
  <2> QED BY <1>6, <2>1, <2>3, <2>4
<1>10. CASE Appeal!AppealsRead(c)
  <2>1. UNCHANGED <<held, clicks>> /\ reading' = FALSE
    BY <1>10 DEF Appeal!AppealsRead
  <2>2. held' \in [Appealed -> Appeal!Ids] /\ Appeal!ContentStaysWithItsAppeal'
    BY <2>1 DEF Appeal!ContentStaysWithItsAppeal
  <2>3. CASE /\ unread' = TRUE /\ Appeal!Saving(call[c].kind, FALSE)
             /\ call' = [call EXCEPT ![c] = Appeal!Idle]
             /\ UNCHANGED <<appeals, chosen, sends>>
    BY <1>6, <2>1, <2>2, <2>3
  <2>4. ASSUME NEW found \in Appeal!Answers, NEW first \in Appeal!Chosen(found),
               appeals' = found, chosen' = first,
               creating' = [creating EXCEPT !.saving = call[c].kind # "create" /\ @],
               editing' = [Appeal!Filled(found, first) EXCEPT !.saving = call[c].kind # "edit" /\ @],
               IF first \in {chosen, None}
               THEN /\ sends' = [sends EXCEPT !.of = IF first = None THEN None ELSE @]
                    /\ call' = [call EXCEPT ![c] = Appeal!Idle]
               ELSE /\ sends' = [sends EXCEPT !.loading = TRUE]
                    /\ call' = [call EXCEPT ![c] = Appeal!Read("snapshots", first)],
               UNCHANGED <<unread, counting>>
        PROVE  Appeal!AppealsInv'
    <3>1. found \subseteq Appealed /\ first \in Appeal!Ids
      BY <2>4 DEF Appeal!Answers, Appeal!Chosen, Appeal!Ids
    <3>2. PICK q \in Appeal!CallState :
              /\ call' = [call EXCEPT ![c] = q] /\ q.kind \in {"none", "snapshots"}
              /\ Appeal!EditsTheirOwn(q)
      <4>1. Appeal!Read("snapshots", first) \in Appeal!CallState
            /\ Appeal!Read("snapshots", first).kind = "snapshots"
            /\ Appeal!EditsTheirOwn(Appeal!Read("snapshots", first))
        BY <3>1, AppealCalls DEF Appeal!Read, Appeal!EditsTheirOwn
      <4> QED BY <1>3, <2>4, <4>1
    <3>3. sends' \in [of : Appeal!Ids, loading : BOOLEAN]
      BY <2>4 DEF Appeal!Ids
    <3>4. /\ editing' \in [open : {editing.open}, content : {editing.content, first},
                           saving : {call[c].kind # "edit" /\ editing.saving}]
          /\ editing'.open /\ first \in found => editing'.content = first
      <4>1. CASE editing.open /\ first \in found
        BY <2>4, <4>1 DEF Appeal!Filled
      <4>2. CASE ~(editing.open /\ first \in found)
        BY <2>4, <4>2 DEF Appeal!Filled
      <4> QED BY <4>1, <4>2
    <3>5. creating' \in [open : BOOLEAN, typed : BOOLEAN,
                         saving : {call[c].kind # "create" /\ creating.saving}]
      BY <2>4
    <3>6. call[c].kind # "count"
      BY <1>10 DEF Appeal!AppealsRead
    <3>7. Appeal!FormsSaveOnce'
      BY <1>1, <2>4, <3>2, <3>4, <3>5, <3>6
    <3>8. Appeal!TypeOK'
      BY <1>2, <2>1, <2>2, <2>4, <3>1, <3>2, <3>3, <3>4, <3>5
    <3>9. Appeal!EditIsOfChosen'
      BY <2>4, <3>4 DEF Appeal!EditIsOfChosen, Appeal!EditShown
    <3> QED BY <1>2, <2>2, <3>2, <3>7, <3>8, <3>9
  <2> QED BY <1>10, <2>3, <2>4 DEF Appeal!AppealsRead
<1> QED BY <1>7, <1>8, <1>9, <1>10 DEF Appeal!Answer

LEMMA AppealStepOK ==
    ASSUME Appeal!AppealsInv, Appeal!Next
    PROVE  Appeal!AppealsInv'
BY AppealFills, AppealSends, AppealAnswers DEF Appeal!Next
-----------------------------------------------------------------------------
(***************************************************************************)
(* Households                                                              *)
(***************************************************************************)

LEMMA HouseIdle ==
    /\ House!Idle \in House!CallState /\ House!QueuesItsPerson(House!Idle)
    /\ House!Idle.kind = "none"
    /\ \A h \in Households \cup {None} :
           LET load == [House!Idle EXCEPT !.kind = "load", !.at = "sent", !.household = h]
           IN load \in House!CallState /\ House!QueuesItsPerson(load)
BY DEF House!Idle, House!CallState, House!QueuesItsPerson, House!Somebody

LEMMA HouseInitOK == House!Init => House!HouseholdInv
<1> SUFFICES ASSUME House!Init PROVE House!HouseholdInv
  OBVIOUS
<1>1. 0 \in 0..HouseholdClicks
  BY Bounds
<1>2. Known \subseteq Households
  BY ConstantsAssumption
<1>3. call \in [Slots -> House!CallState] /\ \A c \in Slots : House!QueuesItsPerson(call[c])
  BY HouseIdle DEF House!Init
<1>4. House!TypeOK
  BY <1>1, <1>2, <1>3 DEF House!Init, House!TypeOK, House!Somebody
<1> QED BY <1>3, <1>4
        DEF House!Init, House!HouseholdInv, House!PrimaryIsQueued, House!SuccessIsPursued

\* A request takes the place of one that completes no household.
LEMMA HouseMove ==
    ASSUME House!HouseholdInv, NEW c \in Slots, NEW q \in House!CallState,
           House!QueuesItsPerson(q), call' = [call EXCEPT ![c] = q],
           ~House!Completes(call[c], last), UNCHANGED last,
           status' = "success" => status = "success"
    PROVE  /\ call' \in [Slots -> House!CallState]
           /\ \A s \in Slots : House!QueuesItsPerson(call'[s])
           /\ House!SuccessIsPursued'
<1> USE DEF House!HouseholdInv, House!TypeOK
<1>1. \A s \in Slots \ {c} : call'[s] = call[s]
  OBVIOUS
<1>2. House!SuccessIsPursued'
  BY <1>1 DEF House!SuccessIsPursued
<1> QED BY <1>2

LEMMA HouseStart ==
    ASSUME House!HouseholdInv, NEW q \in House!CallState, House!QueuesItsPerson(q),
           House!Start(q), UNCHANGED last, status' = "success" => status = "success"
    PROVE  /\ call' \in [Slots -> House!CallState]
           /\ \A s \in Slots : House!QueuesItsPerson(call'[s])
           /\ House!SuccessIsPursued'
           /\ clicks' \in 0..HouseholdClicks
<1> DEFINE free == {c \in Slots : call[c] = House!Idle}
           s == CHOOSE c \in free : TRUE
<1>1. free # {} /\ call' = [call EXCEPT ![s] = q]
  BY DEF House!Start
<1>2. s \in Slots /\ call[s] = House!Idle
  BY <1>1
<1> HIDE DEF s, free
<1>3. ~House!Completes(call[s], last)
  BY <1>2, HouseIdle DEF House!Completes
<1>4. clicks' \in 0..HouseholdClicks
  BY Bounds DEF House!Start, House!HouseholdInv, House!TypeOK
<1> QED BY <1>1, <1>2, <1>3, <1>4, HouseMove

LEMMA HouseSelect ==
    ASSUME House!HouseholdInv, NEW h \in Households \cup {None}, House!Select(h)
    PROVE  /\ current' \in Households \cup {None} /\ UNCHANGED <<shown, members>>
           /\ busy' \subseteq {"loading", "updating", "adding"}
BY DEF House!Select, House!HouseholdInv, House!TypeOK

\* The requests of the panel, and the one for a person to be queued.
LEMMA HousePanels ==
    ASSUME NEW kind \in {"update", "add", "remove", "copy"}, NEW at \in {"sent", "patch"},
           NEW h \in Households \cup {None}, NEW p \in House!Somebody, NEW m \in {p, None},
           kind = "add" => p \in People
    PROVE  LET q == [House!Idle EXCEPT !.kind = kind, !.at = at, !.household = h,
                                       !.person = p, !.primary = m]
           IN q \in House!CallState /\ House!QueuesItsPerson(q)
<1> DEFINE q == [House!Idle EXCEPT !.kind = kind, !.at = at, !.household = h,
                                   !.person = p, !.primary = m]
<1>1. q.kind = kind /\ q.person = p /\ q.primary = m
  BY DEF House!Idle
<1>2. m \in House!Somebody
  BY DEF House!Somebody
<1>3. q \in House!CallState
  BY <1>2 DEF House!Idle, House!CallState
<1> HIDE DEF q
<1>4. House!QueuesItsPerson(q)
  BY <1>1 DEF House!QueuesItsPerson
<1> QED BY <1>3, <1>4 DEF q

LEMMA HouseQueues ==
    ASSUME NEW p \in People, NEW m \in {p, None}
    PROVE  LET q == [House!Idle EXCEPT !.kind = "queue", !.at = "sent", !.person = p,
                                       !.primary = m]
           IN q \in House!CallState /\ House!QueuesItsPerson(q)
<1> DEFINE q == [House!Idle EXCEPT !.kind = "queue", !.at = "sent", !.person = p, !.primary = m]
<1>1. q.kind = "queue" /\ q.person = p /\ q.primary = m
  BY DEF House!Idle
<1>2. m \in House!Somebody /\ p \in House!Somebody
  BY DEF House!Somebody
<1>3. q \in House!CallState
  BY <1>2 DEF House!Idle, House!CallState
<1> HIDE DEF q
<1>4. House!QueuesItsPerson(q)
  BY <1>1 DEF House!QueuesItsPerson
<1> QED BY <1>3, <1>4 DEF q

\* What the person does.
LEMMA HousePerson ==
    ASSUME House!HouseholdInv, House!Person
    PROVE  House!HouseholdInv'
<1> USE DEF House!HouseholdInv, House!TypeOK
\* A request starts; households and people stay as they are.
<1>1. ASSUME NEW q \in House!CallState, House!QueuesItsPerson(q), House!Start(q),
             UNCHANGED <<existing, homeOf, primaryOf, shown, members, queued, primary, last>>,
             current' \in Households \cup {None}, busy' \subseteq {"loading", "updating", "adding"},
             status' \in {status, "saving"}
      PROVE  House!HouseholdInv'
  <2>1. /\ call' \in [Slots -> House!CallState] /\ clicks' \in 0..HouseholdClicks
        /\ \A s \in Slots : House!QueuesItsPerson(call'[s])
        /\ House!SuccessIsPursued'
    BY <1>1, HouseStart
  <2>2. House!TypeOK'
    BY <1>1, <2>1
  <2> QED BY <1>1, <2>1, <2>2 DEF House!PrimaryIsQueued
\* No request starts; nor is a success told.
<1>2. ASSUME UNCHANGED <<existing, homeOf, primaryOf, last, call, clicks>>,
             current' \in Households \cup {None}, shown' \in Households \cup {None},
             members' \subseteq People, busy' = busy, status' \in {status, "error"},
             queued' \subseteq People, primary' \in House!Somebody, House!PrimaryIsQueued'
      PROVE  House!HouseholdInv'
  <2>1. House!TypeOK'
    BY <1>2
  <2>2. House!SuccessIsPursued'
    BY <1>2 DEF House!SuccessIsPursued
  <2> QED BY <1>2, <2>1, <2>2
<1>3. ASSUME NEW h \in Households, House!Open(h) PROVE House!HouseholdInv'
  <2> DEFINE q == [House!Idle EXCEPT !.kind = "load", !.at = "sent", !.household = h]
  <2>1. q \in House!CallState /\ House!QueuesItsPerson(q)
    BY HouseIdle
  <2>2. /\ House!Start(q) /\ House!Select(h)
        /\ UNCHANGED <<existing, homeOf, primaryOf, queued, primary, status, last>>
    BY <1>3 DEF House!Open, House!twenty, House!form
  <2> HIDE DEF q
  <2> QED BY <1>1, <2>1, <2>2, HouseSelect
<1>4. CASE House!ResetSearch
  BY <1>2, <1>4 DEF House!ResetSearch, House!twenty, House!form, House!PrimaryIsQueued
<1>5. ASSUME NEW kind \in {"update", "add", "remove", "copy"}, NEW at \in {"sent", "patch"},
             NEW p \in House!Somebody, NEW makePrimary \in BOOLEAN,
             House!Panel(kind, at, p, makePrimary), kind = "add" => p \in People,
             busy' \subseteq {"loading", "updating", "adding"}
      PROVE  House!HouseholdInv'
  <2> DEFINE m == IF makePrimary THEN p ELSE None
             q == [House!Idle EXCEPT !.kind = kind, !.at = at, !.household = current,
                                     !.person = p, !.primary = m]
  <2>0. m \in {p, None}
    OBVIOUS
  <2> HIDE DEF m
  <2>1. q \in House!CallState /\ House!QueuesItsPerson(q)
    <3>1. current \in Households \cup {None} /\ (kind = "add" => p \in People)
      BY <1>5 DEF House!HouseholdInv, House!TypeOK
    <3> QED BY <2>0, <3>1, HousePanels, ZenonT(60)
  <2>2. /\ House!Start(q)
        /\ UNCHANGED <<existing, homeOf, primaryOf, current, shown, members,
                       queued, primary, status, last>>
    BY <1>5 DEF House!Panel, House!twenty, House!panel, House!form, m
  <2> HIDE DEF q
  <2> QED BY <1>1, <1>5, <2>1, <2>2
<1>6. CASE House!Update
  BY <1>5, <1>6 DEF House!Update, House!Somebody
<1>7. ASSUME NEW p \in People,
             House!AddMember(p) \/ House!RemoveMember(p) \/ House!CopyAddress(p)
      PROVE  House!HouseholdInv'
  <2>1. \E kind \in {"add", "remove", "copy"}, makePrimary \in BOOLEAN :
            House!Panel(kind, "patch", p, makePrimary)
    BY <1>7 DEF House!AddMember, House!RemoveMember, House!CopyAddress
  <2>2. busy' \subseteq {"loading", "updating", "adding"}
    BY <1>7 DEF House!AddMember, House!RemoveMember, House!CopyAddress
  <2> QED BY <1>5, <1>7, <2>1, <2>2 DEF House!Somebody
<1>8. ASSUME NEW p \in People, House!QueueMember(p) PROVE House!HouseholdInv'
  <2> DEFINE m == IF primary = None THEN p ELSE None
             q == [House!Idle EXCEPT !.kind = "queue", !.at = "sent", !.person = p, !.primary = m]
  <2>0. m \in House!Somebody /\ m \in {p, None}
    BY DEF House!Somebody
  <2> HIDE DEF m
  <2>1. q \in House!CallState /\ House!QueuesItsPerson(q)
    BY <1>8, <2>0, HouseQueues
  <2>2. /\ House!Start(q)
        /\ UNCHANGED <<existing, homeOf, primaryOf, current, shown, members,
                       queued, primary, status, busy, last>>
    BY <1>8 DEF House!QueueMember, House!twenty, House!panel, House!form, m
  <2> HIDE DEF q
  <2> QED BY <1>1, <2>1, <2>2
<1>9. ASSUME NEW p \in People, House!RemovePending(p) PROVE House!HouseholdInv'
  <2>1. queued' \subseteq People /\ primary' \in House!Somebody /\ House!PrimaryIsQueued'
    BY <1>9 DEF House!RemovePending, House!PrimaryIsQueued, House!Somebody
  <2> QED BY <1>2, <1>9, <2>1 DEF House!RemovePending, House!twenty, House!panel
<1>10. ASSUME NEW p \in People, House!ChoosePrimary(p) PROVE House!HouseholdInv'
  <2>1. queued' \subseteq People /\ primary' \in House!Somebody /\ House!PrimaryIsQueued'
    BY <1>10 DEF House!ChoosePrimary, House!PrimaryIsQueued, House!Somebody
  <2> QED BY <1>2, <1>10, <2>1 DEF House!ChoosePrimary, House!twenty, House!panel
<1>11. CASE House!Create
  <2> DEFINE q == [House!Idle EXCEPT !.kind = "create", !.at = "sent", !.primary = primary,
                                     !.todo = queued]
  <2>1. q \in House!CallState /\ House!QueuesItsPerson(q)
    BY HouseIdle, ZenonT(60) DEF House!CallState, House!Idle, House!QueuesItsPerson
  <2>2. /\ UNCHANGED <<existing, homeOf, primaryOf, current, shown, members,
                       queued, primary, busy, last>>
        /\ \/ status' = "error" /\ UNCHANGED <<call, clicks>>
           \/ status' = "saving" /\ House!Start(q)
    BY <1>11 DEF House!Create, House!twenty, House!panel
  <2> HIDE DEF q
  <2>3. CASE status' = "error" /\ UNCHANGED <<call, clicks>>
    BY <1>2, <2>2, <2>3 DEF House!PrimaryIsQueued
  <2>4. CASE status' = "saving" /\ House!Start(q)
    BY <1>1, <2>1, <2>2, <2>4
  <2> QED BY <2>2, <2>3, <2>4
<1> QED BY <1>3, <1>4, <1>6, <1>7, <1>8, <1>9, <1>10, <1>11 DEF House!Person
\* What the server does.
LEMMA HouseServes ==
    ASSUME House!HouseholdInv, NEW c \in Slots,
           \/ House!PostHousehold(c) \/ House!OtherCalls(c)
           \/ House!PatchPerson(c) \/ House!PatchPrimary(c)
    PROVE  House!HouseholdInv'
<1> USE DEF House!HouseholdInv, House!TypeOK
<1>0. call[c] \in House!CallState /\ House!QueuesItsPerson(call[c])
  OBVIOUS
\* The page stays as it is.
<1>1. ASSUME UNCHANGED <<current, shown, members, queued, primary, status, busy, clicks>>,
             existing' \subseteq Households, homeOf' \in [People -> Households \cup {None}],
             primaryOf' \in [Households -> House!Somebody],
             last' \in [household : Households \cup {None}, left : SUBSET People],
             call' \in [Slots -> House!CallState],
             \A s \in Slots : House!QueuesItsPerson(call'[s]),
             House!SuccessIsPursued'
      PROVE  House!HouseholdInv'
  <2>1. House!TypeOK'
    BY <1>1
  <2> QED BY <1>1, <2>1 DEF House!PrimaryIsQueued
<1>2. CASE House!PostHousehold(c)
  <2> DEFINE h == CHOOSE new \in Households : new \notin existing
  <2>1. /\ call[c].kind = "create" /\ call[c].at = "sent"
        /\ UNCHANGED <<homeOf, current, shown, members, queued, primary, status, busy, last, clicks>>
        /\ \/ /\ call' = [call EXCEPT ![c] = House!Replied(call[c], FALSE)]
              /\ UNCHANGED <<existing, primaryOf>>
           \/ /\ existing # Households
              /\ existing' = existing \cup {h}
              /\ primaryOf' = [primaryOf EXCEPT ![h] = call[c].primary]
              /\ \E ok \in BOOLEAN :
                     call' = [call EXCEPT ![c] = House!Replied([call[c] EXCEPT !.household = h], ok)]
    BY <1>2 DEF House!PostHousehold, House!panel, House!form
  <2>2. existing # Households => h \in Households
    OBVIOUS
  <2> HIDE DEF h
  <2>3. \E q \in House!CallState : House!QueuesItsPerson(q) /\ call' = [call EXCEPT ![c] = q]
    <3>1. CASE call' = [call EXCEPT ![c] = House!Replied(call[c], FALSE)]
      BY <1>0, <2>1, <3>1 DEF House!Replied, House!CallState, House!QueuesItsPerson
    <3>2. ASSUME existing # Households, NEW ok \in BOOLEAN,
                 call' = [call EXCEPT ![c] = House!Replied([call[c] EXCEPT !.household = h], ok)]
          PROVE  \E q \in House!CallState : House!QueuesItsPerson(q) /\ call' = [call EXCEPT ![c] = q]
      BY <1>0, <2>1, <2>2, <3>2 DEF House!Replied, House!CallState, House!QueuesItsPerson
    <3> QED BY <2>1, <3>1, <3>2
  <2>4. ~House!Completes(call[c], last)
    BY <2>1 DEF House!Completes
  <2>5. existing' \subseteq Households /\ primaryOf' \in [Households -> House!Somebody]
    BY <1>0, <2>1, <2>2 DEF House!CallState
  <2> QED BY <1>1, <2>1, <2>3, <2>4, <2>5, HouseMove
<1>3. CASE House!OtherCalls(c)
  <2>1. PICK ok \in BOOLEAN : call' = [call EXCEPT ![c] = House!Replied(@, ok)]
    BY <1>3 DEF House!OtherCalls
  <2> DEFINE q == House!Replied(call[c], ok)
  <2>2. q \in House!CallState /\ House!QueuesItsPerson(q) /\ call' = [call EXCEPT ![c] = q]
    BY <1>0, <2>1 DEF House!Replied, House!CallState, House!QueuesItsPerson
  <2> HIDE DEF q
  <2>3. ~House!Completes(call[c], last)
    BY <1>3 DEF House!OtherCalls, House!Completes
  <2>4. UNCHANGED <<existing, homeOf, primaryOf, current, shown, members, queued, primary, status,
                    busy, last, clicks>>
    BY <1>3 DEF House!OtherCalls, House!twenty, House!panel, House!form
  <2> QED BY <1>1, <2>2, <2>3, <2>4, HouseMove
\* A person that is put into the new household is one it lacks no more.
<1>4. CASE House!PatchPerson(c)
  <2>1. PICK o \in House!Outcomes, read \in BOOLEAN :
            /\ homeOf' = IF ~o.carried THEN homeOf
                         ELSE [homeOf EXCEPT ![call[c].person] = IF call[c].kind = "remove" THEN None
                                                                 ELSE call[c].household]
            /\ last' = IF o.carried /\ call[c].kind = "create" /\ call[c].household = last.household
                       THEN [last EXCEPT !.left = @ \ {call[c].person}] ELSE last
            /\ call' = [call EXCEPT ![c] = IF o.ok /\ call[c].primary = call[c].person
                                           THEN [call[c] EXCEPT !.at = "primary"]
                                           ELSE House!Replied(call[c], o.ok /\ read)]
    BY <1>4 DEF House!PatchPerson
  <2>2. o.ok => o.carried
    BY DEF House!Outcomes
  <2>3. PICK q \in House!CallState :
            /\ call' = [call EXCEPT ![c] = q] /\ House!QueuesItsPerson(q)
            /\ q.kind = call[c].kind /\ q.household = call[c].household
            /\ q.person = call[c].person /\ q.todo = call[c].todo
            /\ q.at \in {"primary", "replied"}
            /\ q.at = "primary" \/ q.ok => o.ok
    <3>1. CASE o.ok /\ call[c].primary = call[c].person
      <4> DEFINE r == [call[c] EXCEPT !.at = "primary"]
      <4>1. /\ r \in House!CallState /\ House!QueuesItsPerson(r)
            /\ r.kind = call[c].kind /\ r.household = call[c].household
            /\ r.person = call[c].person /\ r.todo = call[c].todo
            /\ r.at = "primary"
        BY <1>0 DEF House!CallState, House!QueuesItsPerson
      <4>2. call' = [call EXCEPT ![c] = r]
        BY <2>1, <3>1
      <4> HIDE DEF r
      <4> QED BY <3>1, <4>1, <4>2
    <3>2. CASE ~(o.ok /\ call[c].primary = call[c].person)
      <4> DEFINE ok == o.ok /\ read
                 r == House!Replied(call[c], ok)
      <4>1. ok \in BOOLEAN /\ (ok => o.ok) /\ call' = [call EXCEPT ![c] = r]
        BY <2>1, <3>2 DEF House!Outcomes
      <4> HIDE DEF ok
      <4>2. /\ r \in House!CallState /\ House!QueuesItsPerson(r)
            /\ r.kind = call[c].kind /\ r.household = call[c].household
            /\ r.person = call[c].person /\ r.todo = call[c].todo
            /\ r.at = "replied" /\ r.ok = ok
        BY <1>0, <4>1 DEF House!Replied, House!CallState, House!QueuesItsPerson
      <4> HIDE DEF r
      <4> QED BY <4>1, <4>2
    <3> QED BY <3>1, <3>2
  <2>4. /\ last' \in [household : {last.household}, left : SUBSET last.left]
        /\ q.kind = "create" /\ q.household = last.household /\ o.carried
               => q.person \notin last'.left
    BY <2>1, <2>3
  <2>5. House!SuccessIsPursued'
    <3> SUFFICES ASSUME status' = "success", last'.left # {}
                 PROVE  \E s \in Slots : House!Completes(call'[s], last')
      BY DEF House!SuccessIsPursued
    <3>1. status = "success" /\ last.left # {}
      BY <1>4, <2>4 DEF House!PatchPerson, House!form
    <3>2. PICK s \in Slots : House!Completes(call[s], last)
      BY <3>1 DEF House!SuccessIsPursued
    <3>3. CASE s # c
      BY <2>3, <2>4, <3>2, <3>3 DEF House!Completes
    <3>4. CASE s = c
      <4>1. call'[c] = q
        BY <2>3
      <4>2. House!Completes(q, last')
        BY <2>2, <2>3, <2>4, <3>2, <3>4 DEF House!Completes
      <4> QED BY <4>1, <4>2
    <3> QED BY <3>3, <3>4
  <2>6. homeOf' \in [People -> Households \cup {None}]
    BY <1>0, <2>1 DEF House!CallState
  <2>7. /\ call' \in [Slots -> House!CallState]
        /\ \A s \in Slots : House!QueuesItsPerson(call'[s])
    BY <2>3
  <2>8. last' \in [household : Households \cup {None}, left : SUBSET People]
    BY <2>4
  <2> QED BY <1>1, <1>4, <2>5, <2>6, <2>7, <2>8 DEF House!PatchPerson, House!panel, House!form
<1>5. CASE House!PatchPrimary(c)
  <2>1. PICK o \in House!Outcomes, read \in BOOLEAN :
            /\ primaryOf' = IF o.carried THEN [primaryOf EXCEPT ![call[c].household] = call[c].person]
                            ELSE primaryOf
            /\ call' = [call EXCEPT ![c] = House!Replied(call[c], o.ok /\ read)]
            /\ call[c].at = "primary"
    BY <1>5 DEF House!PatchPrimary
  <2> DEFINE ok == o.ok /\ read
             q == House!Replied(call[c], ok)
  <2>2. ok \in BOOLEAN /\ call' = [call EXCEPT ![c] = q]
    BY <2>1 DEF House!Outcomes
  <2> HIDE DEF ok
  <2>3. /\ q \in House!CallState /\ House!QueuesItsPerson(q)
        /\ House!Completes(call[c], last) => House!Completes(q, last)
    BY <1>0, <2>1, <2>2 DEF House!Replied, House!CallState, House!QueuesItsPerson, House!Completes
  <2> HIDE DEF q
  <2>4. /\ call' \in [Slots -> House!CallState]
        /\ \A s \in Slots : House!QueuesItsPerson(call'[s])
    BY <2>2, <2>3
  <2>5. UNCHANGED <<existing, homeOf, current, shown, members, queued, primary, status,
                    busy, last, clicks>>
    BY <1>5 DEF House!PatchPrimary, House!panel, House!form
  <2>6. House!SuccessIsPursued'
    BY <2>2, <2>3, <2>5 DEF House!SuccessIsPursued
  <2>7. primaryOf' \in [Households -> House!Somebody]
    BY <1>0, <2>1 DEF House!CallState
  <2> QED BY <1>1, <2>4, <2>5, <2>6, <2>7
<1> QED BY <1>2, <1>3, <1>4, <1>5
\* The members of the household that was made: the next of them, or none is left.
LEMMA HouseProceeds ==
    ASSUME House!HouseholdInv, NEW c \in Slots, NEW q \in House!CallState, House!Proceeds(c, q),
           q.kind = "create"
    PROVE  /\ call' \in [Slots -> House!CallState]
           /\ \A s \in Slots : House!QueuesItsPerson(call'[s])
           /\ \A s \in Slots \ {c} : call'[s] = call[s]
           /\ q.household = last'.household /\ last'.left \subseteq q.todo
                  => last'.left = {} \/ House!Completes(call'[c], last')
           /\ current' \in Households \cup {None} /\ UNCHANGED <<shown, members>>
           /\ busy' \subseteq {"loading", "updating", "adding"}
<1> USE DEF House!HouseholdInv, House!TypeOK
<1>1. CASE q.todo = {}
  <2> DEFINE h == q.household
             load == [House!Idle EXCEPT !.kind = "load", !.at = "sent", !.household = h]
  <2>1. h \in Households \cup {None}
    BY DEF House!CallState
  <2> HIDE DEF h
  <2>2. load \in House!CallState /\ House!QueuesItsPerson(load)
    BY <2>1, HouseIdle
  <2>3. House!Select(h) /\ call' = [call EXCEPT ![c] = load]
    BY <1>1 DEF House!Proceeds, h
  <2> HIDE DEF load
  <2> QED BY <1>1, <2>1, <2>2, <2>3, HouseSelect
<1>2. CASE q.todo # {}
  <2>1. PICK p \in q.todo : call' = [call EXCEPT ![c] = [q EXCEPT !.at = "patch", !.person = p]]
    BY <1>2 DEF House!Proceeds
  <2> DEFINE r == [q EXCEPT !.at = "patch", !.person = p]
  <2>2. p \in People /\ p # None
    BY ConstantsAssumption DEF House!CallState
  <2>3. r \in House!CallState /\ House!QueuesItsPerson(r)
        /\ (q.household = last'.household /\ last'.left \subseteq q.todo
                => House!Completes(r, last'))
    BY <2>2 DEF House!CallState, House!QueuesItsPerson, House!Completes, House!Somebody
  <2> HIDE DEF r
  <2>4. UNCHANGED <<current, shown, members, busy>>
    BY <1>2 DEF House!Proceeds, House!panel
  <2> QED BY <2>1, <2>3, <2>4 DEF r
<1> QED BY <1>1, <1>2

\* The continuations.
LEMMA HouseContinues ==
    ASSUME House!HouseholdInv, NEW c \in Slots,
           \/ House!Loaded(c) \/ House!Created(c) \/ House!MemberAdded(c)
           \/ House!CreateFailed(c) \/ House!PanelAnswered(c) \/ House!MemberQueued(c)
    PROVE  House!HouseholdInv'
<1> USE DEF House!HouseholdInv, House!TypeOK
<1>0. call[c] \in House!CallState /\ House!QueuesItsPerson(call[c])
  OBVIOUS
\* The request ends, and it was none for a member of a household.
<1>1. ASSUME House!Ended(c), ~House!Completes(call[c], last),
             status' = "success" => status = "success",
             UNCHANGED <<existing, homeOf, primaryOf, current, last, clicks>>,
             shown' \in Households \cup {None}, members' \subseteq People,
             queued' \subseteq People, primary' \in House!Somebody, House!PrimaryIsQueued',
             status' \in {"idle", "saving", "error", "success"}, busy' \subseteq busy
      PROVE  House!HouseholdInv'
  <2>1. call' = [call EXCEPT ![c] = House!Idle]
    BY <1>1 DEF House!Ended
  <2>2. /\ call' \in [Slots -> House!CallState]
        /\ \A s \in Slots : House!QueuesItsPerson(call'[s])
        /\ House!SuccessIsPursued'
    BY <1>1, <2>1, HouseIdle, HouseMove
  <2>3. House!TypeOK'
    BY <1>1, <2>2
  <2> QED BY <1>1, <2>2, <2>3
<1>2. CASE House!Loaded(c)
  <2>1. ~House!Completes(call[c], last)
    BY <1>2 DEF House!Loaded, House!Completes
  <2>2. shown' \in Households \cup {None} /\ members' \subseteq People
    BY <1>0, <1>2 DEF House!Loaded, House!CallState
  <2> QED BY <1>1, <1>2, <2>1, <2>2
          DEF House!Loaded, House!twenty, House!form, House!PrimaryIsQueued
<1>3. CASE House!PanelAnswered(c)
  <2>1. ~House!Completes(call[c], last)
    BY <1>3 DEF House!PanelAnswered, House!Completes
  <2>2. shown' \in Households \cup {None} /\ busy' \subseteq busy
    BY <1>0, <1>3 DEF House!PanelAnswered, House!CallState
  <2>3. members' \subseteq People
    <3>1. CASE call[c].ok /\ call[c].kind = "add"
      \* A request for nobody in particular adds nobody.
      <4>1. members' = members \cup {call[c].person}
        BY <1>3, <3>1 DEF House!PanelAnswered
      <4> QED BY <1>0, <3>1, <4>1 DEF House!QueuesItsPerson
    <3>2. CASE ~(call[c].ok /\ call[c].kind = "add")
      BY <1>3, <3>2 DEF House!PanelAnswered
    <3> QED BY <3>1, <3>2
  <2> QED BY <1>1, <1>3, <2>1, <2>2, <2>3
          DEF House!PanelAnswered, House!twenty, House!form, House!PrimaryIsQueued
<1>4. CASE House!MemberQueued(c)
  <2>1. ~House!Completes(call[c], last)
    BY <1>4 DEF House!MemberQueued, House!Answered, House!Completes
  <2>2. /\ queued' \subseteq People /\ primary' \in House!Somebody /\ House!PrimaryIsQueued'
    BY <1>0, <1>4 DEF House!MemberQueued, House!Answered, House!QueuesItsPerson,
                      House!PrimaryIsQueued, House!Somebody
  <2> QED BY <1>1, <1>4, <2>1, <2>2 DEF House!MemberQueued, House!twenty, House!panel
<1>5. CASE House!CreateFailed(c)
  <2>1. /\ House!Ended(c) /\ status' = "error"
        /\ UNCHANGED <<existing, homeOf, primaryOf, current, shown, members, queued, primary,
                       busy, last, clicks>>
    BY <1>5 DEF House!CreateFailed, House!twenty, House!panel
  <2>2. call' \in [Slots -> House!CallState] /\ \A s \in Slots : House!QueuesItsPerson(call'[s])
    BY <2>1, HouseIdle DEF House!Ended
  <2>3. House!TypeOK'
    BY <2>1, <2>2
  <2> QED BY <2>1, <2>2, <2>3 DEF House!SuccessIsPursued, House!PrimaryIsQueued
<1>6. CASE House!Created(c)
  <2>1. /\ status' = "success" /\ queued' = {} /\ primary' = None
        /\ last' = [household |-> call[c].household, left |-> call[c].todo]
        /\ House!Proceeds(c, call[c]) /\ call[c].kind = "create"
        /\ UNCHANGED <<existing, homeOf, primaryOf, clicks>>
    BY <1>6 DEF House!Created, House!Answered, House!Cleared, House!twenty
  <2>2. /\ call' \in [Slots -> House!CallState]
        /\ \A s \in Slots : House!QueuesItsPerson(call'[s])
        /\ last'.left = {} \/ House!Completes(call'[c], last')
        /\ current' \in Households \cup {None} /\ UNCHANGED <<shown, members>>
        /\ busy' \subseteq {"loading", "updating", "adding"}
    BY <1>0, <2>1, HouseProceeds
  <2>3. last' \in [household : Households \cup {None}, left : SUBSET People]
    BY <1>0, <2>1 DEF House!CallState
  <2>4. House!TypeOK'
    BY <2>1, <2>2, <2>3 DEF House!Somebody
  <2> QED BY <2>1, <2>2, <2>4 DEF House!SuccessIsPursued, House!PrimaryIsQueued
<1>7. CASE House!MemberAdded(c)
  <2> DEFINE q == [call[c] EXCEPT !.todo = @ \ {call[c].person}]
  <2>1. /\ call[c].kind = "create" /\ call[c].at = "replied" /\ call[c].ok
        /\ call[c].person # None
        /\ House!Proceeds(c, q)
        /\ UNCHANGED <<existing, homeOf, primaryOf, queued, primary, status, last, clicks>>
    BY <1>7 DEF House!MemberAdded, House!Answered, House!twenty, House!form
  <2>2. /\ q \in House!CallState /\ q.kind = "create" /\ q.household = call[c].household
        /\ q.todo = call[c].todo \ {call[c].person}
    BY <1>0, <2>1 DEF House!CallState
  <2> HIDE DEF q
  <2>3. /\ call' \in [Slots -> House!CallState]
        /\ \A s \in Slots : House!QueuesItsPerson(call'[s])
        /\ \A s \in Slots \ {c} : call'[s] = call[s]
        /\ current' \in Households \cup {None} /\ UNCHANGED <<shown, members>>
        /\ busy' \subseteq {"loading", "updating", "adding"}
    BY <2>1, <2>2, HouseProceeds
  <2>4. House!SuccessIsPursued'
    <3> SUFFICES ASSUME status = "success", last.left # {}
                 PROVE  \E s \in Slots : House!Completes(call'[s], last')
      BY <2>1 DEF House!SuccessIsPursued
    <3>1. PICK s \in Slots : House!Completes(call[s], last)
      BY DEF House!SuccessIsPursued
    <3>2. CASE s # c
      BY <2>1, <2>3, <3>1, <3>2
    <3>3. CASE s = c
      <4>1. q.household = last.household /\ last.left \subseteq q.todo
        BY <2>1, <2>2, <3>1, <3>3 DEF House!Completes
      <4> QED BY <2>1, <2>2, <4>1, HouseProceeds
    <3> QED BY <3>2, <3>3
  <2>5. House!TypeOK'
    BY <2>1, <2>3
  <2> QED BY <2>1, <2>3, <2>4, <2>5 DEF House!PrimaryIsQueued
<1> QED BY <1>2, <1>3, <1>4, <1>5, <1>6, <1>7

LEMMA HouseStepOK ==
    ASSUME House!HouseholdInv, House!Next
    PROVE  House!HouseholdInv'
BY HousePerson, HouseServes, HouseContinues DEF House!Next, House!Answer
-----------------------------------------------------------------------------
(***************************************************************************)
(* Reconciliation                                                          *)
(***************************************************************************)

LEMMA PayoutForms ==
    /\ Payout!NoForm \in Payout!Form /\ Payout!New \in Payout!Record
    /\ Payout!New # None /\ Payout!New.status = "pending"
    /\ \A r \in Payout!Record : /\ r # None /\ Payout!FormOf(r) \in Payout!Form
                                /\ \A f \in Payout!Fields : Payout!FormOf(r)[f] = r[f]
<1>1. Payout!NoForm \in Payout!Form
  BY DEF Payout!NoForm, Payout!Form, Payout!Values
<1>2. Payout!New \in Payout!Record /\ Payout!New.status = "pending"
  BY DEF Payout!New, Payout!Record, Payout!Values
<1>3. ASSUME NEW r \in Payout!Record
      PROVE  /\ r # None /\ Payout!FormOf(r) \in Payout!Form
             /\ \A f \in Payout!Fields : Payout!FormOf(r)[f] = r[f]
  <2>1. r # None
    BY NoneAssumption
  <2>2. Payout!FormOf(r) \in Payout!Form
    BY DEF Payout!Record, Payout!Form, Payout!Values, Payout!FormOf
  <2>3. \A f \in Payout!Fields : Payout!FormOf(r)[f] = r[f]
    BY DEF Payout!FormOf, Payout!Fields
  <2> QED BY <2>1, <2>2, <2>3
<1> QED BY <1>1, <1>2, <1>3

LEMMA PayoutIdle ==
    /\ Payout!Idle \in Payout!CallState
    /\ Payout!Idle.at = "idle" /\ Payout!Idle.kind = "none" /\ Payout!Idle.named = {}
BY PayoutForms DEF Payout!Idle, Payout!CallState

LEMMA PayoutIdleOK == Payout!SaveOK(Payout!Idle) /\ Payout!LinkOK(Payout!Idle)
BY PayoutIdle DEF Payout!SaveOK, Payout!LinkOK

\* The requests there are.
LEMMA PayoutLoad ==
    ASSUME NEW lists \in SUBSET {"linked", "suggested"}
    PROVE  LET q == [Payout!Idle EXCEPT !.kind = "load", !.at = "sent", !.left = lists]
           IN q \in Payout!CallState /\ Payout!SaveOK(q) /\ Payout!LinkOK(q)
<1> DEFINE q == [Payout!Idle EXCEPT !.kind = "load", !.at = "sent", !.left = lists]
<1>1. q \in Payout!CallState /\ q.kind = "load" /\ q.named = {}
  BY PayoutForms DEF Payout!Idle, Payout!CallState
<1> HIDE DEF q
<1>2. Payout!SaveOK(q) /\ Payout!LinkOK(q)
  BY <1>1 DEF Payout!SaveOK, Payout!LinkOK
<1> QED BY <1>1, <1>2 DEF q

LEMMA PayoutAdd ==
    LET q == [Payout!Idle EXCEPT !.kind = "add", !.at = "sent"]
    IN q \in Payout!CallState /\ Payout!SaveOK(q) /\ Payout!LinkOK(q)
<1> DEFINE q == [Payout!Idle EXCEPT !.kind = "add", !.at = "sent"]
<1>1. q \in Payout!CallState /\ q.kind = "add" /\ q.named = {}
  BY PayoutForms DEF Payout!Idle, Payout!CallState
<1> HIDE DEF q
<1>2. Payout!SaveOK(q) /\ Payout!LinkOK(q)
  BY <1>1 DEF Payout!SaveOK, Payout!LinkOK
<1> QED BY <1>1, <1>2 DEF q

LEMMA PayoutAsked ==
    ASSUME NEW kind \in {"link", "pick", "unlink"}, NEW gs \in SUBSET Gifts,
           NEW p \in Payouts, selected.payout = p
    PROVE  LET q == Payout!Asked(kind, gs)
           IN q \in Payout!CallState /\ Payout!SaveOK(q) /\ Payout!LinkOK(q)
<1> DEFINE q == Payout!Asked(kind, gs)
           names == IF kind = "link" THEN gs ELSE {}
<1>1. q = [Payout!Idle EXCEPT !.kind = kind, !.payout = p, !.at = "sent", !.named = names,
                              !.todo = gs]
  BY DEF Payout!Asked
<1>2. names \subseteq gs
  OBVIOUS
<1> HIDE DEF q, names
<1>3. /\ q \in Payout!CallState /\ q.kind = kind /\ q.named = names /\ q.todo = gs
      /\ q.at = "sent"
  BY <1>1, <1>2, PayoutForms DEF Payout!Idle, Payout!CallState
<1>4. Payout!SaveOK(q) /\ Payout!LinkOK(q)
  BY <1>2, <1>3 DEF Payout!SaveOK, Payout!LinkOK
<1> QED BY <1>3, <1>4 DEF q

LEMMA PayoutGoes ==
    ASSUME NEW kind \in {"none", "save", "link", "pick", "unlink", "load", "add"},
           NEW at \in {"linked", "suggested", "refresh"}
    PROVE  LET q == [Payout!Idle EXCEPT !.kind = kind, !.at = at]
           IN q \in Payout!CallState /\ Payout!SaveOK(q) /\ Payout!LinkOK(q)
<1> DEFINE q == [Payout!Idle EXCEPT !.kind = kind, !.at = at]
<1>1. q \in Payout!CallState /\ q.at = at
  BY PayoutForms DEF Payout!Idle, Payout!CallState
<1> HIDE DEF q
<1>2. Payout!SaveOK(q) /\ Payout!LinkOK(q)
  BY <1>1 DEF Payout!SaveOK, Payout!LinkOK
<1> QED BY <1>1, <1>2 DEF q

LEMMA PayoutReplied ==
    ASSUME NEW q \in Payout!CallState, NEW ok \in BOOLEAN
    PROVE  LET r == Payout!Replied(q, ok)
           IN /\ r \in Payout!CallState /\ r.at = "replied" /\ r.ok = ok /\ r.kind = q.kind
              /\ r.named = q.named /\ r.done = q.done
<1> DEFINE r == Payout!Replied(q, ok)
<1>1. r = [Payout!Idle EXCEPT !.kind = q.kind, !.at = "replied", !.ok = ok,
                              !.named = q.named, !.done = q.done]
  BY DEF Payout!Replied
<1>2. q.kind \in {"none", "save", "link", "pick", "unlink", "load", "add"}
      /\ q.named \in SUBSET Gifts /\ q.done \in SUBSET Gifts
  BY DEF Payout!CallState
<1> HIDE DEF r
<1>3. /\ r \in Payout!CallState /\ r.at = "replied" /\ r.ok = ok /\ r.kind = q.kind
      /\ r.named = q.named /\ r.done = q.done
  BY <1>1, <1>2, PayoutForms DEF Payout!Idle, Payout!CallState
<1> QED BY <1>3 DEF r

LEMMA PayoutInitOK == Payout!Init => Payout!PayoutInv
<1> SUFFICES ASSUME Payout!Init PROVE Payout!PayoutInv
  OBVIOUS
<1>1. 0 \in 0..PayoutClicks
  BY Bounds
<1>2. record \in [Payouts -> Payout!Record \cup {None}]
  BY PayoutForms DEF Payout!Init
<1>3. call \in [Slots -> Payout!CallState]
      /\ \A c \in Slots : Payout!SaveOK(call[c]) /\ Payout!LinkOK(call[c])
  BY PayoutIdle, PayoutIdleOK DEF Payout!Init
<1>4. Payout!TypeOK
  BY <1>1, <1>2, <1>3, PayoutForms DEF Payout!Init, Payout!TypeOK, Payout!Silent
<1>5. \A p \in Payouts : Payout!RecordOK(p) /\ (table[p] # None => Payout!SeenOK(p, table[p]))
  BY PayoutForms DEF Payout!Init, Payout!RecordOK, Payout!SeenOK, Payout!ConfirmedIn,
                     Payout!InTwenty
<1> QED BY <1>3, <1>4, <1>5
        DEF Payout!Init, Payout!PayoutInv, Payout!FeedbackIsTrue, Payout!Silent

LEMMA PayoutStart ==
    ASSUME call \in [Slots -> Payout!CallState], NEW q \in Payout!CallState, Payout!Start(q)
    PROVE  \E s \in Slots : call' = [call EXCEPT ![s] = q]
<1> DEFINE free == {c \in Slots : call[c] = Payout!Idle}
           s == CHOOSE c \in free : TRUE
<1>1. free # {} /\ call' = [call EXCEPT ![s] = q]
  BY DEF Payout!Start
<1>2. s \in Slots
  BY <1>1
<1> HIDE DEF s
<1> QED BY <1>1, <1>2

\* Payouts stay, and so does a confirmation.  What was seen of a payout, and what
\* a save is about, therefore stays right, whatever changes meanwhile.
LEMMA PayoutStep ==
    ASSUME Payout!PayoutInv, Payout!TypeOK', Payout!FeedbackIsTrue',
           \A p \in Payouts : record[p] # None =>
               record'[p] # None /\ (record[p].confirmed => record'[p].confirmed),
           \A p \in Payouts : Payout!RecordOK(p)',
           \A p \in Payouts : table'[p] \in {table[p], record'[p], None},
           selected' # None =>
               /\ Payout!FormIsTyped'
               /\ \/ selected' = selected
                  \/ /\ table[selected'.payout] # None
                     /\ selected'.seen = table[selected'.payout],
           NEW q, Payout!SaveOK(q), Payout!LinkOK(q),
           call' = call \/ \E c \in Slots : call' = [call EXCEPT ![c] = q]
    PROVE  Payout!PayoutInv'
<1>1. \A p \in Payouts : \A s : Payout!SeenOK(p, s) =>
          record'[p] # None /\ (s.confirmed => record'[p].confirmed)
  BY DEF Payout!SeenOK, Payout!ConfirmedIn, Payout!InTwenty
<1>2. ASSUME NEW p \in Payouts, table'[p] # None
      PROVE  record'[p] # None /\ (table'[p].confirmed => record'[p].confirmed)
  BY <1>1, <1>2 DEF Payout!PayoutInv
<1>3. ASSUME selected' # None
      PROVE  LET p == selected'.payout
             IN record'[p] # None /\ (selected'.seen.confirmed => record'[p].confirmed)
  <2>1. selected'.payout \in Payouts
    BY <1>3 DEF Payout!TypeOK
  <2>2. CASE selected' = selected
    BY <1>1, <1>3, <2>1, <2>2 DEF Payout!PayoutInv
  <2>3. CASE table[selected'.payout] # None /\ selected'.seen = table[selected'.payout]
    BY <1>1, <2>1, <2>3 DEF Payout!PayoutInv
  <2> QED BY <1>3, <2>2, <2>3
<1>4. ASSUME NEW c \in Slots
      PROVE  Payout!SaveOK(call[c])' /\ Payout!LinkOK(call[c])'
  <2>1. \A r : Payout!SaveOK(r) =>
            (r.kind = "save" /\ r.at = "sent" =>
                /\ r.payout \in Payouts /\ record'[r.payout] # None
                /\ r.fields \subseteq r.typed
                /\ "status" \in r.fields /\ r.form.status = "reconciled" =>
                       r.confirm \/ record'[r.payout].confirmed)
    BY DEF Payout!SaveOK, Payout!ConfirmedIn, Payout!InTwenty
  <2>2. PICK r : r = call'[c] /\ Payout!SaveOK(r) /\ Payout!LinkOK(r)
    <3>1. \A s \in Slots : Payout!SaveOK(call[s]) /\ Payout!LinkOK(call[s])
      BY DEF Payout!PayoutInv
    <3>2. call \in [Slots -> Payout!CallState]
      BY DEF Payout!PayoutInv, Payout!TypeOK
    <3> QED BY <3>1, <3>2
  <2> QED BY <2>1, <2>2 DEF Payout!SaveOK, Payout!LinkOK, Payout!ConfirmedIn, Payout!InTwenty
<1> QED BY <1>2, <1>3, <1>4
        DEF Payout!PayoutInv, Payout!SeenOK, Payout!ConfirmedIn, Payout!InTwenty
\* Steps in the browser: no payout changes.
LEMMA PayoutBrowses ==
    ASSUME Payout!PayoutInv, UNCHANGED <<record, payoutOf>>,
           \/ table' = table
           \/ table' \in {record, [p \in Payouts |-> None]},
           selected' \in [payout : Payouts, seen : Payout!Record] \cup {None},
           form' \in Payout!Form, typed' \subseteq Payout!Fields, busy' \subseteq Payout!Flags,
           feedback' \in [named : SUBSET Gifts, done : SUBSET Gifts], Payout!FeedbackIsTrue',
           adding' \in {"closed", "open", "submitting"}, clicks' = clicks \/ Payout!Click,
           selected' # None =>
               /\ Payout!FormIsTyped'
               /\ \/ selected' = selected
                  \/ /\ table[selected'.payout] # None
                     /\ selected'.seen = table[selected'.payout],
           NEW q \in Payout!CallState, Payout!SaveOK(q), Payout!LinkOK(q),
           call' = call \/ \E c \in Slots : call' = [call EXCEPT ![c] = q]
    PROVE  Payout!PayoutInv'
<1>1. call' \in [Slots -> Payout!CallState]
  BY DEF Payout!PayoutInv, Payout!TypeOK
<1>2. clicks' \in 0..PayoutClicks
  BY Bounds DEF Payout!PayoutInv, Payout!TypeOK, Payout!Click
<1>3. record \in [Payouts -> Payout!Record \cup {None}] /\ table \in [Payouts -> Payout!Record \cup {None}]
      /\ payoutOf \in [Gifts -> Payouts \cup {None}]
  BY DEF Payout!PayoutInv, Payout!TypeOK
<1>4. table' \in [Payouts -> Payout!Record \cup {None}]
      /\ \A p \in Payouts : table'[p] \in {table[p], record'[p], None}
  BY <1>3
<1>5. Payout!TypeOK'
  BY <1>1, <1>2, <1>3, <1>4 DEF Payout!TypeOK
<1>6. \A p \in Payouts : Payout!RecordOK(p)'
  BY DEF Payout!PayoutInv, Payout!RecordOK, Payout!InTwenty
<1> QED BY <1>4, <1>5, <1>6, PayoutStep

\* What the person does.
LEMMA PayoutPerson ==
    ASSUME Payout!PayoutInv, Payout!Person
    PROVE  Payout!PayoutInv'
<1> USE DEF Payout!PayoutInv, Payout!TypeOK
<1>0. Payout!FeedbackIsTrue /\ (selected # None => Payout!FormIsTyped)
      /\ Payout!Silent \in [named : SUBSET Gifts, done : SUBSET Gifts]
      /\ (feedback' \in {feedback, Payout!Silent} => Payout!FeedbackIsTrue')
      /\ (UNCHANGED <<selected, form, typed>> /\ selected' # None => Payout!FormIsTyped')
  BY DEF Payout!FeedbackIsTrue, Payout!Silent, Payout!FormIsTyped
<1>1. ASSUME NEW p \in Payouts, Payout!Open(p) PROVE Payout!PayoutInv'
  <2> DEFINE q == [Payout!Idle EXCEPT !.kind = "load", !.at = "sent",
                                      !.left = {"linked", "suggested"}]
  <2>1. q \in Payout!CallState /\ Payout!SaveOK(q) /\ Payout!LinkOK(q)
    BY PayoutLoad
  <2>2. /\ table[p] # None /\ Payout!Click
        /\ selected' = [payout |-> p, seen |-> table[p]] /\ form' = Payout!FormOf(table[p])
        /\ typed' = {} /\ feedback' = Payout!Silent /\ busy' = busy \cup {"linked", "suggested"}
        /\ Payout!Start(q) /\ UNCHANGED <<record, payoutOf, table, adding>>
    BY <1>1 DEF Payout!Open, Payout!Filled
  <2> HIDE DEF q
  <2>3. call \in [Slots -> Payout!CallState] /\ table[p] \in Payout!Record
    BY <2>2
  <2>4. \E c \in Slots : call' = [call EXCEPT ![c] = q]
    BY <2>1, <2>2, <2>3, PayoutStart
  <2>5. /\ selected' \in [payout : Payouts, seen : Payout!Record] \cup {None}
        /\ form' \in Payout!Form /\ Payout!FormIsTyped' /\ busy' \subseteq Payout!Flags
        /\ selected'.payout = p /\ selected'.seen = table[p]
    BY <2>2, <2>3, PayoutForms DEF Payout!FormIsTyped, Payout!Flags
  <2> QED BY <1>0, <2>1, <2>2, <2>4, <2>5, PayoutBrowses
<1>2. CASE Payout!Close
  <2>1. selected' = None /\ typed' = {} /\ Payout!Click
        /\ UNCHANGED <<record, payoutOf, table, form, busy, feedback, adding, call>>
    BY <1>2 DEF Payout!Close
  <2> QED BY <1>0, <2>1, PayoutIdle, PayoutIdleOK, PayoutBrowses
<1>3. ASSUME NEW f \in Payout!Fields, Payout!Type(f) PROVE Payout!PayoutInv'
  <2>1. /\ selected # None /\ typed' = typed \cup {f}
        /\ \E v \in Payout!Values[f] : form' = [form EXCEPT ![f] = v]
        /\ UNCHANGED <<record, payoutOf, table, selected, busy, feedback, adding, call, clicks>>
    BY <1>3 DEF Payout!Type
  <2>2. form' \in Payout!Form
    BY <2>1 DEF Payout!Form, Payout!Fields, Payout!Values
  <2>3. \A e \in Payout!Fields : e # f => form'[e] = form[e]
    BY <2>1 DEF Payout!Form, Payout!Fields, Payout!Values
  <2>4. Payout!FormIsTyped'
    BY <1>0, <2>1, <2>3 DEF Payout!FormIsTyped
  <2> QED BY <1>0, <2>1, <2>2, <2>4, PayoutIdle, PayoutIdleOK, PayoutBrowses
\* A change that is sent was typed, and a confirmation not seen is sent with it.
<1>4. CASE Payout!Save
  <2> DEFINE q == [Payout!Idle EXCEPT !.kind = "save", !.payout = selected.payout, !.at = "sent",
                                      !.form = form, !.fields = Payout!Changed,
                                      !.confirm = Payout!Confirms, !.typed = typed]
  <2>1. /\ selected # None /\ Payout!Click /\ busy' = busy \cup {"saving"} /\ Payout!Start(q)
        /\ UNCHANGED <<record, payoutOf, table, selected, form, typed, feedback, adding>>
    BY <1>4 DEF Payout!Save
  <2>2. /\ selected.payout \in Payouts /\ Payout!Changed \subseteq typed
        /\ Payout!Changed \subseteq Payout!Fields /\ Payout!Confirms \in BOOLEAN
        /\ Payout!SeenOK(selected.payout, selected.seen)
        /\ form.status = "reconciled" /\ ~Payout!Confirms => selected.seen.confirmed
    BY <1>0, <2>1 DEF Payout!Changed, Payout!FormIsTyped, Payout!Confirms
  <2>3. /\ q.kind = "save" /\ q.payout = selected.payout /\ q.form = form
        /\ q.fields = Payout!Changed /\ q.typed = typed /\ q.confirm = Payout!Confirms
        /\ q.named = {}
    BY DEF Payout!Idle
  <2>4. q \in Payout!CallState
    BY <2>2 DEF Payout!Idle, Payout!CallState
  <2> HIDE DEF q
  <2>5. Payout!SaveOK(q) /\ Payout!LinkOK(q)
    BY <2>2, <2>3 DEF Payout!SaveOK, Payout!LinkOK, Payout!SeenOK
  <2>6. \E c \in Slots : call' = [call EXCEPT ![c] = q]
    BY <2>1, <2>4, PayoutStart
  <2>7. busy' \subseteq Payout!Flags
    BY <2>1 DEF Payout!Flags
  <2> QED BY <1>0, <2>1, <2>4, <2>5, <2>6, <2>7, PayoutBrowses
<1>5. ASSUME NEW kind \in {"link", "pick", "unlink"}, NEW flag \in {"linking", "unlinking"},
             NEW gs \in SUBSET Gifts, Payout!SendGifts(kind, flag, gs)
      PROVE  Payout!PayoutInv'
  <2> DEFINE q == Payout!Asked(kind, gs)
  <2>1. /\ selected # None /\ Payout!Click /\ busy' = busy \cup {flag}
        /\ feedback' = Payout!Silent /\ Payout!Start(q)
        /\ UNCHANGED <<record, payoutOf, table, selected, form, typed, adding>>
    BY <1>5 DEF Payout!SendGifts
  <2>2. q \in Payout!CallState /\ Payout!SaveOK(q) /\ Payout!LinkOK(q)
    BY <1>5, <2>1, PayoutAsked
  <2> HIDE DEF q
  <2>3. \E c \in Slots : call' = [call EXCEPT ![c] = q]
    BY <2>1, <2>2, PayoutStart
  <2>4. busy' \subseteq Payout!Flags
    BY <1>5, <2>1 DEF Payout!Flags
  <2> QED BY <1>0, <2>1, <2>2, <2>3, <2>4, PayoutBrowses
<1>6. ASSUME NEW list \in {"linked", "suggested"}, Payout!Reload(list) PROVE Payout!PayoutInv'
  <2> DEFINE q == [Payout!Idle EXCEPT !.kind = "load", !.at = "sent", !.left = {list}]
  <2>1. /\ Payout!Click /\ busy' = busy \cup {list} /\ Payout!Start(q)
        /\ UNCHANGED <<record, payoutOf, table, selected, form, typed, feedback, adding>>
    BY <1>6 DEF Payout!Reload
  <2>2. q \in Payout!CallState /\ Payout!SaveOK(q) /\ Payout!LinkOK(q)
    BY <1>6, PayoutLoad
  <2> HIDE DEF q
  <2>3. \E c \in Slots : call' = [call EXCEPT ![c] = q]
    BY <2>1, <2>2, PayoutStart
  <2>4. busy' \subseteq Payout!Flags
    BY <1>6, <2>1 DEF Payout!Flags
  <2> QED BY <1>0, <2>1, <2>2, <2>3, <2>4, PayoutBrowses
<1>7. CASE Payout!RefreshTable \/ Payout!OpenAdding \/ Payout!CloseAdding
  <2>1. /\ UNCHANGED <<record, payoutOf, selected, form, typed, busy, feedback, call, clicks>>
        /\ table' = table \/ table' \in {record, [p \in Payouts |-> None]}
        /\ adding' \in {adding, "open", "closed"}
    BY <1>7 DEF Payout!RefreshTable, Payout!OpenAdding, Payout!CloseAdding, Payout!drawerVars
  <2> QED BY <1>0, <2>1, PayoutIdle, PayoutIdleOK, PayoutBrowses
<1>8. CASE Payout!SubmitPayout
  <2> DEFINE q == [Payout!Idle EXCEPT !.kind = "add", !.at = "sent"]
  <2>1. /\ Payout!Click /\ adding' = "submitting" /\ Payout!Start(q)
        /\ UNCHANGED <<record, payoutOf, table, selected, form, typed, busy, feedback>>
    BY <1>8 DEF Payout!SubmitPayout, Payout!drawerVars
  <2>2. q \in Payout!CallState /\ Payout!SaveOK(q) /\ Payout!LinkOK(q)
    BY PayoutAdd
  <2> HIDE DEF q
  <2>3. \E c \in Slots : call' = [call EXCEPT ![c] = q]
    BY <2>1, <2>2, PayoutStart
  <2> QED BY <1>0, <2>1, <2>2, <2>3, PayoutBrowses
<1>9. CASE Payout!Link("link") \/ Payout!Link("pick") \/ \E g \in Gifts : Payout!Unlink(g)
  <2>1. ASSUME NEW kind \in {"link", "pick"}, Payout!Link(kind) PROVE Payout!PayoutInv'
    BY <1>5, <2>1 DEF Payout!Link
  <2>2. ASSUME NEW g \in Gifts, Payout!Unlink(g) PROVE Payout!PayoutInv'
    <3>1. {g} \in SUBSET Gifts /\ Payout!SendGifts("unlink", "unlinking", {g})
      BY <2>2 DEF Payout!Unlink
    <3> QED BY <1>5, <3>1
  <2> QED BY <1>9, <2>1, <2>2
<1> QED BY <1>1, <1>2, <1>3, <1>4, <1>6, <1>7, <1>8, <1>9 DEF Payout!Person
\* Steps of the server: the page stays as it is.
LEMMA PayoutServed ==
    ASSUME Payout!PayoutInv, UNCHANGED <<table, selected, form, typed, busy, feedback, adding>>,
           clicks' = clicks \/ Payout!Click,
           record' \in [Payouts -> Payout!Record \cup {None}],
           payoutOf' \in [Gifts -> Payouts \cup {None}],
           \A p \in Payouts : record[p] # None =>
               record'[p] # None /\ (record[p].confirmed => record'[p].confirmed),
           \A p \in Payouts : Payout!RecordOK(p)',
           NEW q \in Payout!CallState, Payout!SaveOK(q), Payout!LinkOK(q),
           call' = call \/ \E c \in Slots : call' = [call EXCEPT ![c] = q]
    PROVE  Payout!PayoutInv'
<1>1. call' \in [Slots -> Payout!CallState]
  BY DEF Payout!PayoutInv, Payout!TypeOK
<1>2. clicks' \in 0..PayoutClicks
  BY Bounds DEF Payout!PayoutInv, Payout!TypeOK, Payout!Click
<1>3. Payout!TypeOK'
  BY <1>1, <1>2 DEF Payout!PayoutInv, Payout!TypeOK
<1>4. Payout!FeedbackIsTrue' /\ (selected' # None => Payout!FormIsTyped')
  BY DEF Payout!PayoutInv, Payout!FeedbackIsTrue, Payout!FormIsTyped
<1> QED BY <1>3, <1>4, PayoutStep

\* A payout that is patched gets the fields that were sent, and it is not
\* reconciled without a confirmation.
LEMMA PayoutPatched ==
    ASSUME Payout!PayoutInv, NEW q \in Payout!CallState, q.kind = "save", q.at = "sent",
           Payout!SaveOK(q)
    PROVE  /\ q.payout \in Payouts /\ record[q.payout] \in Payout!Record
           /\ LET r == record[q.payout]
                  new == Payout!Patched(r, q)
              IN /\ new \in Payout!Record
                 /\ r.confirmed => new.confirmed
                 /\ new.status = "reconciled" => new.confirmed
                 /\ \A f \in Payout!Fields : new[f] # r[f] => f \in q.typed
<1> DEFINE p == q.payout
           r == record[p]
           new == Payout!Patched(r, q)
<1>1. /\ p \in Payouts /\ r \in Payout!Record /\ q.fields \subseteq q.typed
      /\ r.status = "reconciled" => r.confirmed
      /\ "status" \in q.fields /\ q.form.status = "reconciled" => q.confirm \/ r.confirmed
  <2>1. p \in Payouts /\ r # None
    BY DEF Payout!SaveOK, Payout!InTwenty
  <2>2. r \in Payout!Record
    BY <2>1 DEF Payout!PayoutInv, Payout!TypeOK
  <2>3. r.status = "reconciled" => r.confirmed
    BY <2>1 DEF Payout!PayoutInv, Payout!RecordOK, Payout!InTwenty
  <2> QED BY <2>1, <2>2, <2>3 DEF Payout!SaveOK, Payout!ConfirmedIn
<1> HIDE DEF r, p
<1>2. /\ r.status \in Payout!Values.status /\ r.note \in Payout!Values.note /\ r.confirmed \in BOOLEAN
      /\ q.form.status \in Payout!Values.status /\ q.form.note \in Payout!Values.note
      /\ q.confirm \in BOOLEAN
  BY <1>1 DEF Payout!Record, Payout!CallState, Payout!Form
<1>3. /\ new.status = IF "status" \in q.fields THEN q.form.status ELSE r.status
      /\ new.note = IF "note" \in q.fields THEN q.form.note ELSE r.note
      /\ new.confirmed = (r.confirmed \/ q.confirm)
      /\ new = [status |-> new.status, note |-> new.note, confirmed |-> new.confirmed]
  BY DEF Payout!Patched
<1> HIDE DEF new
<1>4. new \in Payout!Record
  BY <1>2, <1>3 DEF Payout!Record
<1>5. \A f \in Payout!Fields : new[f] # r[f] => f \in q.typed
  BY <1>1, <1>3 DEF Payout!Fields
<1> QED BY <1>1, <1>2, <1>3, <1>4, <1>5 DEF new, r, p

LEMMA PayoutServes ==
    ASSUME Payout!PayoutInv, NEW c \in Slots,
           Payout!PatchPayout(c) \/ Payout!CreatePayout(c) \/ Payout!PatchGift(c)
    PROVE  Payout!PayoutInv'
<1>0. /\ call[c] \in Payout!CallState /\ Payout!SaveOK(call[c]) /\ Payout!LinkOK(call[c])
      /\ record \in [Payouts -> Payout!Record \cup {None}]
      /\ payoutOf \in [Gifts -> Payouts \cup {None}]
      /\ \A p \in Payouts : Payout!RecordOK(p)
  BY DEF Payout!PayoutInv, Payout!TypeOK
<1>1. ASSUME record' = record
      PROVE  /\ record' \in [Payouts -> Payout!Record \cup {None}]
             /\ \A p \in Payouts : Payout!RecordOK(p)'
  BY <1>0, <1>1 DEF Payout!RecordOK, Payout!InTwenty
\* The answer to a save or to a new payout is about no gifts.
<1>2. ASSUME NEW ok \in BOOLEAN, call[c].kind # "link" \/ ~ok
      PROVE  LET r == Payout!Replied(call[c], ok)
             IN r \in Payout!CallState /\ Payout!SaveOK(r) /\ Payout!LinkOK(r)
  <2> DEFINE r == Payout!Replied(call[c], ok)
  <2>1. r \in Payout!CallState /\ r.at = "replied" /\ r.ok = ok /\ r.kind = call[c].kind
    BY <1>0, PayoutReplied
  <2> HIDE DEF r
  <2>2. Payout!SaveOK(r) /\ Payout!LinkOK(r)
    BY <1>2, <2>1 DEF Payout!SaveOK, Payout!LinkOK
  <2> QED BY <2>1, <2>2 DEF r
<1>3. CASE Payout!PatchPayout(c)
  <2>1. /\ call[c].kind = "save" /\ call[c].at = "sent"
        /\ UNCHANGED <<payoutOf, table, selected, form, typed, busy, feedback, adding, clicks>>
    BY <1>3 DEF Payout!PatchPayout, Payout!drawerVars
  <2>2. PICK o \in Payout!Outcomes :
            /\ record' = IF o.carried
                         THEN [record EXCEPT ![call[c].payout] = Payout!Patched(@, call[c])]
                         ELSE record
            /\ call' = [call EXCEPT ![c] = Payout!Replied(@, o.ok)]
    BY <1>3 DEF Payout!PatchPayout
  <2> DEFINE p == call[c].payout
             new == Payout!Patched(record[p], call[c])
             r == Payout!Replied(call[c], o.ok)
  <2>3. /\ p \in Payouts /\ record[p] \in Payout!Record /\ new \in Payout!Record
        /\ record[p].confirmed => new.confirmed
        /\ new.status = "reconciled" => new.confirmed
    BY <1>0, <2>1, PayoutPatched
  <2>4. o.ok \in BOOLEAN
    BY DEF Payout!Outcomes
  <2>5. r \in Payout!CallState /\ Payout!SaveOK(r) /\ Payout!LinkOK(r)
        /\ call' = [call EXCEPT ![c] = r]
    BY <1>2, <2>1, <2>2, <2>4
  <2>6. record' = record \/ record' = [record EXCEPT ![p] = new]
    BY <2>2
  <2> HIDE DEF p, new, r
  <2>7. /\ record' \in [Payouts -> Payout!Record \cup {None}]
        /\ \A s \in Payouts : record[s] # None =>
               record'[s] # None /\ (record[s].confirmed => record'[s].confirmed)
        /\ \A s \in Payouts : Payout!RecordOK(s)'
    <3>1. CASE record' = record
      BY <1>1, <3>1
    <3>2. CASE record' = [record EXCEPT ![p] = new]
      BY <1>0, <2>3, <3>2, PayoutForms DEF Payout!RecordOK, Payout!InTwenty
    <3> QED BY <2>6, <3>1, <3>2
  <2> QED BY <1>0, <2>1, <2>5, <2>7, PayoutServed
<1>4. CASE Payout!CreatePayout(c)
  <2>1. /\ call[c].kind = "add"
        /\ UNCHANGED <<payoutOf, table, selected, form, typed, busy, feedback, adding, clicks>>
    BY <1>4 DEF Payout!CreatePayout, Payout!drawerVars
  <2>2. PICK o \in Payout!Outcomes, p \in Payouts :
            /\ record[p] = None
            /\ record' = IF o.carried THEN [record EXCEPT ![p] = Payout!New] ELSE record
            /\ call' = [call EXCEPT ![c] = Payout!Replied(@, o.ok)]
    BY <1>4 DEF Payout!CreatePayout, Payout!InTwenty
  <2> DEFINE r == Payout!Replied(call[c], o.ok)
  <2>3. o.ok \in BOOLEAN
    BY DEF Payout!Outcomes
  <2>4. r \in Payout!CallState /\ Payout!SaveOK(r) /\ Payout!LinkOK(r)
        /\ call' = [call EXCEPT ![c] = r]
    BY <1>2, <2>1, <2>2, <2>3
  <2> HIDE DEF r
  <2>5. /\ record' \in [Payouts -> Payout!Record \cup {None}]
        /\ \A s \in Payouts : record[s] # None =>
               record'[s] # None /\ (record[s].confirmed => record'[s].confirmed)
        /\ \A s \in Payouts : Payout!RecordOK(s)'
    <3>1. CASE record' = record
      BY <1>1, <3>1
    <3>2. CASE record' = [record EXCEPT ![p] = Payout!New]
      BY <1>0, <2>2, <3>2, PayoutForms DEF Payout!RecordOK, Payout!InTwenty
    <3> QED BY <2>2, <3>1, <3>2
  <2> QED BY <1>0, <2>1, <2>4, <2>5, PayoutServed
\* One gift after the other; those to be named are patched, or still to be.
<1>5. CASE Payout!PatchGift(c)
  <2>1. /\ call[c].kind \in {"link", "pick", "unlink"} /\ call[c].at = "sent"
        /\ UNCHANGED <<record, table, selected, form, typed, busy, feedback, adding, clicks>>
    BY <1>5 DEF Payout!PatchGift, Payout!drawerVars
  <2>2. PICK g \in call[c].todo, o \in Payout!Outcomes :
            LET done == [Payout!Without(call[c], g) EXCEPT !.done = @ \cup ({g} \cap call[c].named)]
            IN /\ payoutOf' = IF ~o.carried THEN payoutOf
                              ELSE [payoutOf EXCEPT ![g] = IF call[c].kind = "unlink" THEN None
                                                           ELSE call[c].payout]
               /\ call' = [call EXCEPT ![c] = IF ~o.ok THEN Payout!Broken(call[c], g)
                                              ELSE IF done.todo = {} THEN Payout!Replied(done, TRUE)
                                              ELSE done]
    BY <1>5 DEF Payout!PatchGift
  <2> DEFINE done == [Payout!Without(call[c], g) EXCEPT !.done = @ \cup ({g} \cap call[c].named)]
  <2>3. /\ done \in Payout!CallState /\ done.kind = call[c].kind /\ done.at = "sent"
        /\ done.named = call[c].named /\ done.todo = call[c].todo \ {g}
        /\ done.done = call[c].done \cup ({g} \cap call[c].named)
    BY <1>0, <2>1 DEF Payout!Without, Payout!CallState
  <2>4. call' = [call EXCEPT ![c] = IF ~o.ok THEN Payout!Replied(call[c], FALSE)
                                    ELSE IF done.todo = {} THEN Payout!Replied(done, TRUE)
                                    ELSE done]
    BY <2>2 DEF Payout!Broken
  <2> HIDE DEF done
  <2>5. done.named \subseteq done.done \cup done.todo
    BY <1>0, <2>1, <2>3 DEF Payout!LinkOK
  <2>6. \E q \in Payout!CallState : /\ Payout!SaveOK(q) /\ Payout!LinkOK(q)
                                    /\ call' = [call EXCEPT ![c] = q]
    <3>1. CASE ~o.ok
      <4>1. /\ Payout!Replied(call[c], FALSE) \in Payout!CallState
            /\ Payout!SaveOK(Payout!Replied(call[c], FALSE))
            /\ Payout!LinkOK(Payout!Replied(call[c], FALSE))
        BY <1>2
      <4> QED BY <2>4, <3>1, <4>1
    <3>2. CASE o.ok /\ done.todo = {}
      <4> DEFINE r == Payout!Replied(done, TRUE)
      <4>1. /\ r \in Payout!CallState /\ r.at = "replied" /\ r.kind = done.kind
            /\ r.named = done.named /\ r.done = done.done
        BY <2>3, PayoutReplied
      <4>2. call' = [call EXCEPT ![c] = r]
        BY <2>4, <3>2
      <4> HIDE DEF r
      <4>3. Payout!SaveOK(r) /\ Payout!LinkOK(r)
        BY <2>5, <3>2, <4>1 DEF Payout!SaveOK, Payout!LinkOK
      <4> QED BY <4>1, <4>2, <4>3
    <3>3. CASE o.ok /\ done.todo # {}
      <4>1. Payout!SaveOK(done) /\ Payout!LinkOK(done)
        BY <2>1, <2>3, <2>5 DEF Payout!SaveOK, Payout!LinkOK
      <4> QED BY <2>3, <2>4, <3>3, <4>1
    <3> QED BY <3>1, <3>2, <3>3
  <2>7. payoutOf' \in [Gifts -> Payouts \cup {None}]
    BY <1>0, <2>2 DEF Payout!CallState
  <2> QED BY <1>1, <2>1, <2>6, <2>7, PayoutServed
<1> QED BY <1>3, <1>4, <1>5

\* A colleague changes a payout.
LEMMA PayoutColleague ==
    ASSUME Payout!PayoutInv, NEW p \in Payouts, Payout!ColleagueSaves(p)
    PROVE  Payout!PayoutInv'
<1>1. /\ record[p] # None /\ Payout!Click
      /\ UNCHANGED <<payoutOf, table, selected, form, typed, busy, feedback, adding, call>>
  BY DEF Payout!ColleagueSaves, Payout!InTwenty, Payout!drawerVars
<1>2. PICK r \in {[record[p] EXCEPT !.note = "written"],
                  [record[p] EXCEPT !.status = "pending"],
                  [record[p] EXCEPT !.status = "reconciled", !.confirmed = TRUE]} :
          record' = [record EXCEPT ![p] = r]
  BY DEF Payout!ColleagueSaves
<1>3. /\ record \in [Payouts -> Payout!Record \cup {None}]
      /\ payoutOf \in [Gifts -> Payouts \cup {None}]
      /\ \A s \in Payouts : Payout!RecordOK(s)
  BY DEF Payout!PayoutInv, Payout!TypeOK
<1>4. record[p] \in Payout!Record /\ (record[p].status = "reconciled" => record[p].confirmed)
  BY <1>1, <1>3 DEF Payout!RecordOK, Payout!InTwenty
<1>5. /\ r \in Payout!Record /\ (record[p].confirmed => r.confirmed)
      /\ r.status = "reconciled" => r.confirmed
  BY <1>4 DEF Payout!Record, Payout!Values
<1>6. /\ record' \in [Payouts -> Payout!Record \cup {None}]
      /\ \A s \in Payouts : record[s] # None =>
             record'[s] # None /\ (record[s].confirmed => record'[s].confirmed)
      /\ \A s \in Payouts : Payout!RecordOK(s)'
  BY <1>2, <1>3, <1>5, PayoutForms DEF Payout!RecordOK, Payout!InTwenty
<1> QED BY <1>1, <1>3, <1>6, PayoutIdle, PayoutIdleOK, PayoutServed
\* The continuations in the browser.
LEMMA PayoutContinues ==
    ASSUME Payout!PayoutInv, NEW c \in Slots,
           \/ Payout!Failed(c) \/ Payout!Succeeded(c) \/ Payout!ListsReloaded(c)
           \/ Payout!ListLoaded(c) \/ Payout!Refreshed(c)
    PROVE  Payout!PayoutInv'
<1>0. /\ call[c] \in Payout!CallState /\ Payout!SaveOK(call[c]) /\ Payout!LinkOK(call[c])
      /\ selected \in [payout : Payouts, seen : Payout!Record] \cup {None}
      /\ form \in Payout!Form /\ typed \subseteq Payout!Fields /\ busy \subseteq Payout!Flags
      /\ feedback \in [named : SUBSET Gifts, done : SUBSET Gifts] /\ Payout!FeedbackIsTrue
      /\ adding \in {"closed", "open", "submitting"}
      /\ selected # None => Payout!FormIsTyped
  BY DEF Payout!PayoutInv, Payout!TypeOK
\* What is open, and what was typed, stay unless the payout is closed.
<1>1. ASSUME UNCHANGED <<record, payoutOf, form, clicks>>,
             table' = table \/ table' \in {record, [p \in Payouts |-> None]},
             UNCHANGED <<selected, typed>> \/ (selected' = None /\ typed' = {}),
             busy' \subseteq Payout!Flags,
             feedback' \in [named : SUBSET Gifts, done : SUBSET Gifts], Payout!FeedbackIsTrue',
             adding' \in {adding, "open", "closed"},
             NEW q \in Payout!CallState, Payout!SaveOK(q), Payout!LinkOK(q),
             call' = [call EXCEPT ![c] = q]
      PROVE  Payout!PayoutInv'
  <2>1. selected' # None => Payout!FormIsTyped' /\ selected' = selected
    BY <1>0, <1>1 DEF Payout!FormIsTyped
  <2>2. /\ selected' \in [payout : Payouts, seen : Payout!Record] \cup {None}
        /\ typed' \subseteq Payout!Fields /\ form' \in Payout!Form
        /\ adding' \in {"closed", "open", "submitting"}
    BY <1>0, <1>1
  <2> QED BY <1>1, <2>1, <2>2, PayoutBrowses
<1>2. feedback' = feedback => /\ feedback' \in [named : SUBSET Gifts, done : SUBSET Gifts]
                              /\ Payout!FeedbackIsTrue'
  BY <1>0 DEF Payout!FeedbackIsTrue
<1>3. ASSUME NEW at \in {"linked", "suggested", "refresh"}, Payout!Goes(c, at)
      PROVE  \E q \in Payout!CallState : /\ Payout!SaveOK(q) /\ Payout!LinkOK(q)
                                         /\ call' = [call EXCEPT ![c] = q]
  <2> DEFINE kind == call[c].kind
             q == [Payout!Idle EXCEPT !.kind = kind, !.at = at]
  <2>1. kind \in {"none", "save", "link", "pick", "unlink", "load", "add"}
    BY <1>0 DEF Payout!CallState
  <2>2. call' = [call EXCEPT ![c] = q]
    BY <1>3 DEF Payout!Goes
  <2> HIDE DEF kind
  <2>3. q \in Payout!CallState /\ Payout!SaveOK(q) /\ Payout!LinkOK(q)
    BY <1>3, <2>1, PayoutGoes
  <2> HIDE DEF q
  <2> QED BY <2>2, <2>3
<1>4. CASE Payout!Failed(c)
  <2>1. /\ call' = [call EXCEPT ![c] = Payout!Idle]
        /\ busy' \subseteq busy /\ adding' \in {adding, "open"}
        /\ UNCHANGED <<record, payoutOf, table, selected, form, typed, feedback, clicks>>
    BY <1>4 DEF Payout!Failed, Payout!Ended
  <2>2. busy' \subseteq Payout!Flags
    BY <1>0, <2>1
  <2> QED BY <1>1, <1>2, <2>1, <2>2, PayoutIdle, PayoutIdleOK
<1>5. CASE Payout!Succeeded(c)
  <2>1. /\ call[c].at = "replied" /\ call[c].ok
        /\ feedback' = IF call[c].kind = "link"
                       THEN [named |-> call[c].named, done |-> call[c].done] ELSE feedback
        /\ \/ Payout!Goes(c, "refresh") /\ UNCHANGED busy
           \/ Payout!Goes(c, "linked") /\ busy' = busy \cup {"linked"}
        /\ UNCHANGED <<record, payoutOf, table, selected, form, typed, adding, clicks>>
    BY <1>5 DEF Payout!Succeeded
  <2>2. /\ feedback' \in [named : SUBSET Gifts, done : SUBSET Gifts]
        /\ Payout!FeedbackIsTrue'
    <3>1. CASE call[c].kind = "link"
      BY <1>0, <2>1, <3>1 DEF Payout!LinkOK, Payout!CallState, Payout!FeedbackIsTrue
    <3>2. CASE call[c].kind # "link"
      BY <1>2, <2>1, <3>2
    <3> QED BY <3>1, <3>2
  <2>3. busy' \subseteq Payout!Flags
    BY <1>0, <2>1 DEF Payout!Flags
  <2>4. \E q \in Payout!CallState : /\ Payout!SaveOK(q) /\ Payout!LinkOK(q)
                                    /\ call' = [call EXCEPT ![c] = q]
    BY <1>3, <2>1
  <2> QED BY <1>1, <2>1, <2>2, <2>3, <2>4
<1>6. CASE Payout!ListsReloaded(c)
  <2>1. /\ \E at \in {"suggested", "refresh"} : Payout!Goes(c, at)
        /\ busy' \subseteq busy \cup {"suggested"}
        /\ UNCHANGED <<record, payoutOf, table, selected, form, typed, feedback, adding, clicks>>
    BY <1>6 DEF Payout!ListsReloaded
  <2>2. busy' \subseteq Payout!Flags
    BY <1>0, <2>1 DEF Payout!Flags
  <2>3. \E q \in Payout!CallState : /\ Payout!SaveOK(q) /\ Payout!LinkOK(q)
                                    /\ call' = [call EXCEPT ![c] = q]
    BY <1>3, <2>1
  <2> QED BY <1>1, <1>2, <2>1, <2>2, <2>3
<1>7. CASE Payout!ListLoaded(c)
  <2>1. PICK list \in call[c].left :
            /\ busy' = busy \ {list}
            /\ call' = IF call[c].left = {list} THEN [call EXCEPT ![c] = Payout!Idle]
                       ELSE [call EXCEPT ![c].left = @ \ {list}]
    BY <1>7 DEF Payout!ListLoaded
  <2> DEFINE q == [call[c] EXCEPT !.left = @ \ {list}]
  <2>2. /\ q \in Payout!CallState /\ q.kind = call[c].kind /\ q.at = call[c].at
        /\ q.named = call[c].named /\ q.done = call[c].done /\ q.todo = call[c].todo
        /\ q.ok = call[c].ok
    BY <1>0 DEF Payout!CallState
  <2>3. call' = [call EXCEPT ![c] = Payout!Idle] \/ call' = [call EXCEPT ![c] = q]
    BY <2>1
  <2> HIDE DEF q
  <2>4. Payout!SaveOK(q) /\ Payout!LinkOK(q)
    BY <1>0, <1>7, <2>2 DEF Payout!ListLoaded, Payout!SaveOK, Payout!LinkOK
  <2>5. UNCHANGED <<record, payoutOf, table, selected, form, typed, feedback, adding, clicks>>
        /\ busy' \subseteq Payout!Flags
    BY <1>0, <1>7, <2>1 DEF Payout!ListLoaded
  <2> QED BY <1>1, <1>2, <2>2, <2>3, <2>4, <2>5, PayoutIdle, PayoutIdleOK
<1>8. CASE Payout!Refreshed(c)
  <2>1. /\ call' = [call EXCEPT ![c] = Payout!Idle]
        /\ table' \in {record, [p \in Payouts |-> None]}
        /\ busy' \subseteq busy /\ adding' \in {adding, "closed"}
        /\ UNCHANGED <<selected, typed>> \/ (selected' = None /\ typed' = {})
        /\ UNCHANGED <<record, payoutOf, form, feedback, clicks>>
    BY <1>8 DEF Payout!Refreshed, Payout!Ended
  <2>2. busy' \subseteq Payout!Flags
    BY <1>0, <2>1
  <2> QED BY <1>1, <1>2, <2>1, <2>2, PayoutIdle, PayoutIdleOK
<1> QED BY <1>4, <1>5, <1>6, <1>7, <1>8

LEMMA PayoutStepOK ==
    ASSUME Payout!PayoutInv, Payout!Next
    PROVE  Payout!PayoutInv'
BY PayoutPerson, PayoutColleague, PayoutServes, PayoutContinues DEF Payout!Next, Payout!Answer

\* A payout is changed by a colleague, or in a field that was typed.
LEMMA PayoutSaves ==
    ASSUME Payout!PayoutInv, Payout!Next
    PROVE  Payout!SavesWhatWasTyped
<1> SUFFICES ASSUME NEW p \in Payouts, record[p] # None
             PROVE  /\ \A f \in Payout!Fields :
                           record'[p][f] # record[p][f] =>
                               \/ Payout!ColleagueSaves(p)
                               \/ \E c \in Slots : /\ call[c].kind = "save"
                                                   /\ call[c].payout = p
                                                   /\ f \in call[c].typed
                    /\ record'[p].status = "reconciled" => record'[p].confirmed
  BY DEF Payout!SavesWhatWasTyped, Payout!InTwenty
<1>0. record \in [Payouts -> Payout!Record \cup {None}]
  BY DEF Payout!PayoutInv, Payout!TypeOK
<1>1. record'[p] # None /\ (record'[p].status = "reconciled" => record'[p].confirmed)
      /\ \A f \in Payout!Fields :
             record'[p][f] # record[p][f] =>
                 \/ Payout!ColleagueSaves(p)
                 \/ \E c \in Slots : /\ call[c].kind = "save"
                                     /\ call[c].payout = p
                                     /\ f \in call[c].typed
  <2>1. CASE record'[p] = record[p]
    BY <2>1 DEF Payout!PayoutInv, Payout!RecordOK, Payout!InTwenty
  <2>2. ASSUME NEW s \in Payouts, Payout!ColleagueSaves(s), record'[p] # record[p]
        PROVE  Payout!ColleagueSaves(p)
    <3>1. \E r : record' = [record EXCEPT ![s] = r]
      BY <2>2 DEF Payout!ColleagueSaves
    <3>2. s = p
      BY <1>0, <2>2, <3>1
    <3> QED BY <2>2, <3>2
  <2>3. CASE Payout!ColleagueSaves(p)
    <3>1. Payout!PayoutInv'
      BY <2>3, PayoutColleague
    <3>2. record'[p] # None
      <4>1. PICK r \in {[record[p] EXCEPT !.note = "written"],
                        [record[p] EXCEPT !.status = "pending"],
                        [record[p] EXCEPT !.status = "reconciled", !.confirmed = TRUE]} :
                record' = [record EXCEPT ![p] = r]
        BY <2>3 DEF Payout!ColleagueSaves
      <4>2. r \in Payout!Record
        BY <1>0 DEF Payout!Record, Payout!Values
      <4> QED BY <1>0, <4>1, <4>2, PayoutForms
    <3> QED BY <2>3, <3>1, <3>2 DEF Payout!PayoutInv, Payout!RecordOK, Payout!InTwenty
  <2>4. ASSUME NEW c \in Slots, Payout!PatchPayout(c), record'[p] # record[p]
        PROVE  /\ call[c].kind = "save" /\ call[c].at = "sent" /\ call[c].payout = p
               /\ record'[p] = Payout!Patched(record[p], call[c])
    BY <1>0, <2>4 DEF Payout!PatchPayout
  <2>5. ASSUME NEW c \in Slots, Payout!PatchPayout(c), record'[p] # record[p]
        PROVE  /\ record'[p] # None /\ (record'[p].status = "reconciled" => record'[p].confirmed)
               /\ \A f \in Payout!Fields : record'[p][f] # record[p][f] => f \in call[c].typed
    <3>1. call[c] \in Payout!CallState /\ Payout!SaveOK(call[c])
      BY DEF Payout!PayoutInv, Payout!TypeOK
    <3> QED BY <2>4, <2>5, <3>1, PayoutPatched, PayoutForms
  <2>6. ASSUME NEW c \in Slots, Payout!CreatePayout(c)
        PROVE  record'[p] = record[p]
    BY <1>0, <2>6 DEF Payout!CreatePayout, Payout!InTwenty
  <2>7. CASE record' = record
    BY <2>1, <2>7
  <2>8. \/ record' = record
        \/ \E s \in Payouts : Payout!ColleagueSaves(s)
        \/ \E c \in Slots : Payout!PatchPayout(c) \/ Payout!CreatePayout(c)
    BY DEF Payout!Next, Payout!Person, Payout!Answer, Payout!Open, Payout!Close, Payout!Type,
           Payout!Save, Payout!Link, Payout!Unlink, Payout!SendGifts, Payout!Reload,
           Payout!RefreshTable, Payout!OpenAdding, Payout!CloseAdding, Payout!SubmitPayout,
           Payout!PatchGift, Payout!Failed, Payout!Succeeded, Payout!ListsReloaded,
           Payout!ListLoaded, Payout!Refreshed
  <2> QED BY <2>1, <2>2, <2>3, <2>4, <2>5, <2>6, <2>7, <2>8
<1> QED BY <1>1
-----------------------------------------------------------------------------
(***************************************************************************)
(* Manual gift entry                                                       *)
(***************************************************************************)

EntryEffects == {"flow", "panel", "lookup", "warning"}

LEMMA EntryDependencies ==
    /\ Entry!Effects = EntryEffects
    /\ \A f \in Entry!FormState :
           /\ Entry!Dependencies(f)["panel"] = <<f.contact, f.show>>
           /\ Entry!Dependencies(f)["warning"] = <<f.selected, f.details, f.flow>>
BY DEF Entry!Effects, Entry!Dependencies, EntryEffects

LEMMA EntryEmpty ==
    /\ Entry!Empty \in Entry!FormState
    /\ Entry!Empty.status = "idle" /\ ~Entry!Empty.show /\ Entry!Empty.warning = None
    /\ Entry!Empty.matches = {}
<1>1. BlankDetails \in EntryDetails
  BY ConstantsAssumption
<1> QED BY <1>1 DEF Entry!Empty, Entry!FormState, Entry!Flows, Entry!Statuses

LEMMA EntryInitOK == Entry!Init => Entry!EntryInv
<1> SUFFICES ASSUME Entry!Init PROVE Entry!EntryInv
  OBVIOUS
<1>1. 0 \in 0..LookupBound
  BY Bounds
<1>2. Entry!TypeOK
  BY <1>1, EntryEmpty DEF Entry!Init, Entry!TypeOK
<1>3. Entry!SubmittedIsShown
  BY EntryEmpty DEF Entry!Init, Entry!SubmittedIsShown, Entry!Submitting, Entry!Sending
<1> QED BY <1>2, <1>3, EntryEmpty
        DEF Entry!Init, Entry!EntryInv, Entry!PanelIsCurrent, Entry!PanelOpen,
            Entry!PanelIsClosing, Entry!WarningsFollow, Entry!ChecksAContact, Entry!Sending

LEMMA EntryFlushed ==
    ASSUME form \in Entry!FormState, NEW next \in Entry!FormState
    PROVE  LET f == Entry!Flushed(next)
           IN /\ f \in Entry!FormState
              /\ f.contact = next.contact /\ f.flow = next.flow
              /\ f.details = next.details /\ f.status = next.status
              /\ f.show = (~Entry!Closes /\ next.show)
              /\ f.matches # {} => f.matches = next.matches /\ f.foundFor = next.foundFor
              /\ f.warning = IF "warning" \in due THEN None ELSE next.warning
<1> DEFINE show == ~Entry!Closes /\ next.show
           matches == IF Entry!Forgets THEN {} ELSE next.matches
           foundFor == IF Entry!Forgets THEN None ELSE next.foundFor
           chosenBefore == IF Entry!Forgets THEN None ELSE next.selected
           warning == IF "warning" \in due THEN None ELSE next.warning
           f == [next EXCEPT !.show = show, !.matches = matches, !.foundFor = foundFor,
                             !.selected = chosenBefore, !.warning = warning]
<1>1. Entry!Flushed(next) = f
  BY DEF Entry!Flushed
<1>2. /\ show \in BOOLEAN /\ matches \in SUBSET Donors
      /\ foundFor \in EntryContacts \cup {None} /\ chosenBefore \in Donors \cup {None}
      /\ warning \in [donor : Donors, details : EntryDetails] \cup {None}
  BY DEF Entry!FormState
<1>3. matches # {} => matches = next.matches /\ foundFor = next.foundFor
  OBVIOUS
<1> HIDE DEF show, matches, foundFor, chosenBefore, warning
<1>4. f \in Entry!FormState
  BY <1>2 DEF Entry!FormState
<1>5. /\ f.contact = next.contact /\ f.flow = next.flow
      /\ f.details = next.details /\ f.status = next.status
      /\ f.show = show /\ f.matches = matches /\ f.foundFor = foundFor /\ f.warning = warning
  BY DEF Entry!FormState
<1> QED BY <1>1, <1>3, <1>4, <1>5 DEF show, warning

\* Every rendering keeps the hints right: the panel is closed again by the effect
\* of its opening, and a warning goes, or stays that of the form.
LEMMA EntryRender ==
    ASSUME Entry!EntryInv, NEW next \in Entry!FormState, NEW query \in {asking, None},
           Entry!RenderWith(next, query),
           next.show => form.show \/ next.foundFor = next.contact,
           next.warning \in {form.warning, asking, None}
    PROVE  /\ form' \in Entry!FormState /\ due' \subseteq Entry!Effects
           /\ timer' \in Entry!Closure \cup {None}
           /\ asking' \in [donor : Donors, details : EntryDetails] \cup {None}
           /\ form'.contact = next.contact /\ form'.flow = next.flow
           /\ form'.details = next.details /\ form'.status = next.status
           /\ Entry!PanelIsCurrent' /\ Entry!PanelIsClosing' /\ Entry!WarningsFollow'
<1>0. /\ form \in Entry!FormState /\ timer \in Entry!Closure \cup {None}
      /\ asking \in [donor : Donors, details : EntryDetails] \cup {None}
      /\ form.show => "panel" \in due
      /\ Entry!WarningsFollow
  BY DEF Entry!EntryInv, Entry!TypeOK, Entry!PanelIsClosing
<1>1. /\ form' = Entry!Flushed(next)
      /\ due' = {e \in Entry!Effects : Entry!Dependencies(form')[e] # Entry!Dependencies(form)[e]}
      /\ timer' = IF "lookup" \in due THEN Entry!Restarted ELSE timer
      /\ asking' = IF "warning" \in due THEN Entry!Asked ELSE query
  BY DEF Entry!RenderWith, Entry!Query
<1>2. /\ form' \in Entry!FormState
      /\ form'.contact = next.contact /\ form'.flow = next.flow
      /\ form'.details = next.details /\ form'.status = next.status
      /\ form'.show = (~Entry!Closes /\ next.show)
      /\ form'.matches # {} => form'.matches = next.matches /\ form'.foundFor = next.foundFor
      /\ form'.warning = IF "warning" \in due THEN None ELSE next.warning
  BY <1>0, <1>1, EntryFlushed
<1>3. timer' \in Entry!Closure \cup {None}
  BY <1>0, <1>1 DEF Entry!Restarted, Entry!CanLookUp, Entry!Closure, Entry!FormState
<1>4. Entry!Asked \in [donor : Donors, details : EntryDetails] \cup {None}
  BY <1>0 DEF Entry!Asked, Entry!FormState
<1>5. asking' \in [donor : Donors, details : EntryDetails] \cup {None}
  BY <1>0, <1>1, <1>4
<1>6. form'.show => ~form.show /\ next.show
  BY <1>0, <1>2 DEF Entry!Closes
<1>7. Entry!PanelIsClosing'
  <2> SUFFICES ASSUME form'.show PROVE "panel" \in due'
    BY DEF Entry!PanelIsClosing
  <2>1. form'.show = TRUE /\ form.show = FALSE
    BY <1>0, <1>2, <1>6 DEF Entry!FormState
  <2>2. Entry!Dependencies(form')["panel"] # Entry!Dependencies(form)["panel"]
    BY <1>0, <1>2, <2>1, EntryDependencies
  <2> QED BY <1>1, <2>2, EntryDependencies DEF EntryEffects
<1>8. Entry!PanelIsCurrent'
  BY <1>2, <1>6 DEF Entry!PanelIsCurrent, Entry!PanelOpen
<1>9. Entry!WarningsFollow'
  <2> SUFFICES ASSUME "warning" \notin due'
               PROVE  \A w \in {form'.warning, asking'} : w # None =>
                          /\ form'.flow = "donor"
                          /\ w = [donor |-> form'.selected, details |-> form'.details]
    BY DEF Entry!WarningsFollow, Entry!IsOfForm
  <2>1. form'.selected = form.selected /\ form'.details = form.details /\ form'.flow = form.flow
    <3>1. Entry!Dependencies(form')["warning"] = Entry!Dependencies(form)["warning"]
      BY <1>1, EntryDependencies DEF EntryEffects
    <3> QED BY <1>0, <1>2, <3>1, EntryDependencies
  <2>2. CASE "warning" \in due
    BY <1>1, <1>2, <2>1, <2>2 DEF Entry!IsOfForm, Entry!Asked
  <2>3. CASE "warning" \notin due
    BY <1>0, <1>1, <1>2, <2>1, <2>3 DEF Entry!WarningsFollow, Entry!IsOfForm
  <2> QED BY <2>2, <2>3
<1> QED BY <1>1, <1>2, <1>3, <1>5, <1>7, <1>8, <1>9
\* A rendering of what changes nothing of a submission, or while there is none.
LEMMA EntryShows ==
    ASSUME Entry!EntryInv, NEW next \in Entry!FormState, NEW query \in {asking, None},
           Entry!RenderWith(next, query),
           next.show => form.show,
           next.warning \in {form.warning, asking, None},
           \/ /\ next.contact = form.contact /\ next.flow = form.flow
              /\ next.details = form.details /\ next.status = form.status
           \/ form.status # "submitting" /\ next.status # "submitting",
           UNCHANGED calls, lookups' \subseteq Entry!Closure, searches' \in 0..LookupBound
    PROVE  Entry!EntryInv'
<1>1. next.show => form.show \/ next.foundFor = next.contact
  OBVIOUS
<1>2. /\ form' \in Entry!FormState /\ due' \subseteq Entry!Effects
      /\ timer' \in Entry!Closure \cup {None}
      /\ asking' \in [donor : Donors, details : EntryDetails] \cup {None}
      /\ form'.contact = next.contact /\ form'.flow = next.flow
      /\ form'.details = next.details /\ form'.status = next.status
      /\ Entry!PanelIsCurrent' /\ Entry!PanelIsClosing' /\ Entry!WarningsFollow'
  BY <1>1, EntryRender
<1>3. Entry!TypeOK'
  BY <1>2 DEF Entry!EntryInv, Entry!TypeOK
<1>4. Entry!SubmittedIsShown'
  BY <1>2 DEF Entry!EntryInv, Entry!SubmittedIsShown, Entry!Submitting, Entry!Sending
<1>5. Entry!ChecksAContact'
  BY DEF Entry!EntryInv, Entry!ChecksAContact, Entry!Sending
<1> QED BY <1>2, <1>3, <1>4, <1>5 DEF Entry!EntryInv

\* What the person does to the form, the donor and the dialog.
LEMMA EntryTypes ==
    ASSUME Entry!EntryInv,
           \/ Entry!RunEffects
           \/ Entry!EditContact \/ Entry!EditFlow \/ Entry!EditDetails
           \/ Entry!SelectDonor \/ Entry!ClearSelectedDonor
           \/ Entry!OpenSearchModal \/ Entry!CloseSearchModal \/ Entry!SelectFromModal
    PROVE  Entry!EntryInv'
<1>0. /\ form \in Entry!FormState
      /\ lookups \subseteq Entry!Closure /\ searches \in 0..LookupBound
  BY DEF Entry!EntryInv, Entry!TypeOK
<1>1. PICK next \in Entry!FormState :
          /\ Entry!RenderWith(next, asking)
          /\ next.show => form.show
          /\ next.warning = form.warning /\ next.status = form.status
          /\ \/ /\ next.contact = form.contact /\ next.flow = form.flow
                /\ next.details = form.details
             \/ form.status # "submitting"
  <2> DEFINE Good(next) ==
                 /\ next \in Entry!FormState
                 /\ Entry!RenderWith(next, asking)
                 /\ next.show => form.show
                 /\ next.warning = form.warning /\ next.status = form.status
                 /\ \/ /\ next.contact = form.contact /\ next.flow = form.flow
                       /\ next.details = form.details
                    \/ form.status # "submitting"
  <2> SUFFICES \E next : Good(next)
    OBVIOUS
  <2>1. CASE Entry!RunEffects
    <3>1. Good(form)
      BY <1>0, <2>1 DEF Entry!RunEffects, Entry!Render
    <3> QED BY <3>1
  <2>2. CASE Entry!EditContact
    <3>1. PICK c \in EntryContacts \cup {None} : Entry!Type([form EXCEPT !.contact = c])
      BY <2>2 DEF Entry!EditContact
    <3>2. Good([form EXCEPT !.contact = c])
      BY <1>0, <3>1 DEF Entry!Type, Entry!FieldsEnabled, Entry!Submitting, Entry!Render,
                        Entry!FormState
    <3> QED BY <3>2
  <2>3. CASE Entry!EditFlow
    <3>1. PICK f \in Entry!Flows : Entry!Type([form EXCEPT !.flow = f])
      BY <2>3 DEF Entry!EditFlow
    <3>2. Good([form EXCEPT !.flow = f])
      BY <1>0, <3>1 DEF Entry!Type, Entry!FieldsEnabled, Entry!Submitting, Entry!Render,
                        Entry!FormState
    <3> QED BY <3>2
  <2>4. CASE Entry!EditDetails
    <3>1. PICK d \in EntryDetails : Entry!Type([form EXCEPT !.details = d])
      BY <2>4 DEF Entry!EditDetails
    <3>2. Good([form EXCEPT !.details = d])
      BY <1>0, <3>1 DEF Entry!Type, Entry!FieldsEnabled, Entry!Submitting, Entry!Render,
                        Entry!FormState
    <3> QED BY <3>2
  <2>5. CASE Entry!SelectDonor
    <3>1. PICK d \in form.matches : Entry!Type([form EXCEPT !.selected = d, !.show = FALSE])
      BY <2>5 DEF Entry!SelectDonor
    <3>2. Good([form EXCEPT !.selected = d, !.show = FALSE])
      BY <1>0, <3>1 DEF Entry!Type, Entry!FieldsEnabled, Entry!Submitting, Entry!Render,
                        Entry!FormState
    <3> QED BY <3>2
  <2>6. CASE Entry!ClearSelectedDonor
    <3>1. Good([form EXCEPT !.selected = None])
      BY <1>0, <2>6 DEF Entry!ClearSelectedDonor, Entry!Type, Entry!FieldsEnabled,
                        Entry!Submitting, Entry!Render, Entry!FormState
    <3> QED BY <3>1
  <2>7. CASE Entry!OpenSearchModal
    <3>1. PICK s \in {None, form.selected} :
              Entry!Type([form EXCEPT !.modal = TRUE, !.results = {}, !.selected = s])
      BY <2>7 DEF Entry!OpenSearchModal
    <3>2. Good([form EXCEPT !.modal = TRUE, !.results = {}, !.selected = s])
      BY <1>0, <3>1 DEF Entry!Type, Entry!FieldsEnabled, Entry!Submitting, Entry!Render,
                        Entry!FormState
    <3> QED BY <3>2
  <2>8. CASE Entry!CloseSearchModal
    <3>1. Good([form EXCEPT !.modal = FALSE])
      BY <1>0, <2>8 DEF Entry!CloseSearchModal, Entry!Render, Entry!FormState
    <3> QED BY <3>1
  <2>9. CASE Entry!SelectFromModal
    <3>1. PICK d \in form.results :
              Entry!Render([form EXCEPT !.selected = d, !.show = FALSE, !.modal = FALSE])
      BY <2>9 DEF Entry!SelectFromModal
    <3>2. Good([form EXCEPT !.selected = d, !.show = FALSE, !.modal = FALSE])
      BY <1>0, <3>1 DEF Entry!Render, Entry!FormState
    <3> QED BY <3>2
  <2> QED BY <2>1, <2>2, <2>3, <2>4, <2>5, <2>6, <2>7, <2>8, <2>9
<1>2. UNCHANGED <<lookups, searches, calls>>
  BY DEF Entry!RunEffects, Entry!EditContact, Entry!EditFlow, Entry!EditDetails,
         Entry!SelectDonor, Entry!ClearSelectedDonor, Entry!OpenSearchModal,
         Entry!CloseSearchModal, Entry!SelectFromModal, Entry!Type
<1> QED BY <1>0, <1>1, <1>2, EntryShows

\* The answers to what is asked while a form is filled in.
LEMMA EntryHears ==
    ASSUME Entry!EntryInv,
           \/ Entry!SubmitSearch \/ Entry!TimerFires \/ Entry!LookupAnswers
           \/ Entry!LookupIsLost \/ Entry!SearchAnswers \/ Entry!QueryAnswers
    PROVE  Entry!EntryInv'
<1>0. /\ form \in Entry!FormState /\ timer \in Entry!Closure \cup {None}
      /\ lookups \subseteq Entry!Closure /\ searches \in 0..LookupBound
      /\ LookupBound \in Nat
  BY Bounds DEF Entry!EntryInv, Entry!TypeOK
\* Nothing is rendered.
<1>1. ASSUME UNCHANGED <<form, due, calls>>, timer' \in {timer, None}, asking' \in {asking, None},
             lookups' \subseteq Entry!Closure, searches' \in 0..LookupBound
      PROVE  Entry!EntryInv'
  <2>1. Entry!TypeOK'
    BY <1>1 DEF Entry!EntryInv, Entry!TypeOK
  <2>2. Entry!SubmittedIsShown'
    BY <1>1 DEF Entry!EntryInv, Entry!SubmittedIsShown, Entry!Submitting, Entry!Sending
  <2>3. Entry!PanelIsCurrent' /\ Entry!PanelIsClosing'
    BY <1>1 DEF Entry!EntryInv, Entry!PanelIsCurrent, Entry!PanelOpen, Entry!PanelIsClosing
  <2>4. Entry!WarningsFollow'
    BY <1>1 DEF Entry!EntryInv, Entry!WarningsFollow, Entry!IsOfForm
  <2>5. Entry!ChecksAContact'
    BY <1>1 DEF Entry!EntryInv, Entry!ChecksAContact, Entry!Sending
  <2> QED BY <2>1, <2>2, <2>3, <2>4, <2>5 DEF Entry!EntryInv
<1>2. CASE Entry!SubmitSearch
  <2>1. searches' \in 0..LookupBound
    BY <1>0, <1>2 DEF Entry!SubmitSearch
  <2> QED BY <1>0, <1>1, <1>2, <2>1 DEF Entry!SubmitSearch
<1>3. CASE Entry!TimerFires
  BY <1>0, <1>1, <1>3 DEF Entry!TimerFires
<1>4. CASE Entry!LookupAnswers
  <2>0. PICK l \in lookups :
            \E found \in Directory[l.contact] :
                /\ lookups' = lookups \ {l}
                /\ Entry!Render([form EXCEPT !.matches = found, !.foundFor = l.contact,
                                             !.selected = IF l.selected \in found THEN @ ELSE None])
    BY <1>4 DEF Entry!LookupAnswers
  <2>1. PICK found \in Directory[l.contact] :
            /\ lookups' = lookups \ {l}
            /\ Entry!Render([form EXCEPT !.matches = found, !.foundFor = l.contact,
                                         !.selected = IF l.selected \in found THEN @ ELSE None])
    BY <2>0
  <2> DEFINE s == IF l.selected \in found THEN form.selected ELSE None
             next == [form EXCEPT !.matches = found, !.foundFor = l.contact, !.selected = s]
  <2>2. Entry!RenderWith(next, asking)
    BY <2>1 DEF Entry!Render
  <2>3. l.contact \in EntryContacts /\ found \in SUBSET Donors /\ s \in Donors \cup {None}
    BY <1>0, <2>1, ConstantsAssumption DEF Entry!Closure, Entry!FormState
  <2> HIDE DEF s
  <2>4. /\ next \in Entry!FormState /\ next.show = form.show /\ next.warning = form.warning
        /\ next.contact = form.contact /\ next.flow = form.flow
        /\ next.details = form.details /\ next.status = form.status
    BY <1>0, <2>3 DEF Entry!FormState
  <2> HIDE DEF next
  <2>5. lookups' \subseteq Entry!Closure /\ UNCHANGED <<searches, calls>>
    BY <1>0, <1>4, <2>1 DEF Entry!LookupAnswers
  <2> QED BY <1>0, <2>2, <2>4, <2>5, EntryShows
<1>5. CASE Entry!LookupIsLost
  <2>1. /\ Entry!RenderWith(form, asking) /\ lookups' \subseteq Entry!Closure
        /\ UNCHANGED <<searches, calls>>
    BY <1>0, <1>5 DEF Entry!LookupIsLost, Entry!Render
  <2> QED BY <1>0, <2>1, EntryShows
<1>6. CASE Entry!SearchAnswers
  <2>1. PICK found \in SUBSET Donors : Entry!Render([form EXCEPT !.results = found])
    BY <1>6 DEF Entry!SearchAnswers
  <2> DEFINE next == [form EXCEPT !.results = found]
  <2>2. Entry!RenderWith(next, asking)
    BY <2>1 DEF Entry!Render
  <2>3. /\ next \in Entry!FormState /\ next.show = form.show /\ next.warning = form.warning
        /\ next.contact = form.contact /\ next.flow = form.flow
        /\ next.details = form.details /\ next.status = form.status
    BY <1>0, <2>1 DEF Entry!FormState
  <2> HIDE DEF next
  <2>4. searches' \in 0..LookupBound /\ UNCHANGED <<lookups, calls>>
    BY <1>0, <1>6 DEF Entry!SearchAnswers
  <2> QED BY <1>0, <2>2, <2>3, <2>4, EntryShows
<1>7. CASE Entry!QueryAnswers
  <2>1. CASE asking' = None /\ UNCHANGED <<form, due, timer, lookups, searches, calls>>
    BY <1>0, <1>1, <2>1
  <2>2. ASSUME NEW w \in {asking, None},
               Entry!RenderWith([form EXCEPT !.warning = w], None),
               UNCHANGED <<lookups, searches, calls>>
        PROVE  Entry!EntryInv'
    <3> DEFINE next == [form EXCEPT !.warning = w]
    <3>1. w \in [donor : Donors, details : EntryDetails] \cup {None}
      BY <2>2 DEF Entry!EntryInv, Entry!TypeOK
    <3>2. /\ next \in Entry!FormState /\ next.show = form.show /\ next.warning = w
          /\ next.contact = form.contact /\ next.flow = form.flow
          /\ next.details = form.details /\ next.status = form.status
      BY <1>0, <3>1 DEF Entry!FormState
    <3>3. Entry!RenderWith(next, None)
      BY <2>2
    <3> HIDE DEF next
    <3> QED BY <1>0, <2>2, <3>2, <3>3, EntryShows
  <2> QED BY <1>7, <2>1, <2>2 DEF Entry!QueryAnswers
<1> QED BY <1>2, <1>3, <1>4, <1>5, <1>6, <1>7
\* A gift is sent as the form shows it, and there was none in progress.
LEMMA EntrySent ==
    ASSUME Entry!EntryInv, form.status # "submitting",
           NEW pc \in {"check", "create"}, NEW donor \in Donors \cup {None},
           NEW seen \in Donors \cup {None}, Entry!Send(pc, donor, seen),
           pc = "check" => form.contact # None
    PROVE  Entry!EntryInv'
<1> DEFINE free == {s \in Slots : calls[s] = None}
           c == CHOOSE s \in free : TRUE
           gift == [pc |-> pc, contact |-> form.contact, flow |-> form.flow,
                    details |-> form.details, donor |-> donor, shown |-> seen]
           next == [form EXCEPT !.status = "submitting"]
<1>0. form \in Entry!FormState /\ lookups \subseteq Entry!Closure /\ searches \in 0..LookupBound
      /\ calls \in [Slots -> Entry!Gift \cup {None}]
  BY DEF Entry!EntryInv, Entry!TypeOK
<1>1. /\ free # {} /\ calls' = [calls EXCEPT ![c] = gift]
      /\ Entry!RenderWith(next, asking) /\ UNCHANGED <<lookups, searches>>
  BY DEF Entry!Send, Entry!Render
<1>2. c \in Slots
  BY <1>1
<1>3. /\ gift \in Entry!Gift /\ gift # None /\ gift.contact = form.contact
      /\ gift.flow = form.flow /\ gift.details = form.details /\ gift.pc = pc
  <2>1. gift \in Entry!Gift
    BY <1>0 DEF Entry!Gift, Entry!FormState
  <2> QED BY <2>1, NoneAssumption
<1>4. /\ next \in Entry!FormState /\ next.show = form.show /\ next.warning = form.warning
      /\ next.contact = form.contact /\ next.flow = form.flow
      /\ next.details = form.details /\ next.status = "submitting"
  BY <1>0 DEF Entry!FormState, Entry!Statuses
<1> HIDE DEF c, free, gift, next
<1>5. \A s \in Slots : calls[s] = None
  BY DEF Entry!EntryInv, Entry!SubmittedIsShown, Entry!Submitting, Entry!Sending
<1>6. /\ calls' \in [Slots -> Entry!Gift \cup {None}]
      /\ calls'[c] = gift /\ \A s \in Slots \ {c} : calls'[s] = None
  BY <1>0, <1>1, <1>2, <1>3, <1>5
<1>7. /\ form' \in Entry!FormState /\ due' \subseteq Entry!Effects
      /\ timer' \in Entry!Closure \cup {None}
      /\ asking' \in [donor : Donors, details : EntryDetails] \cup {None}
      /\ form'.contact = form.contact /\ form'.flow = form.flow
      /\ form'.details = form.details /\ form'.status = "submitting"
      /\ Entry!PanelIsCurrent' /\ Entry!PanelIsClosing' /\ Entry!WarningsFollow'
  BY <1>1, <1>4, EntryRender
<1>8. Entry!TypeOK'
  BY <1>0, <1>1, <1>6, <1>7 DEF Entry!TypeOK
<1>9. Entry!SubmittedIsShown'
  <2>1. Entry!Sending' = {c}
    BY <1>2, <1>3, <1>6 DEF Entry!Sending
  <2> QED BY <1>3, <1>6, <1>7, <2>1 DEF Entry!SubmittedIsShown, Entry!Submitting
<1>10. Entry!ChecksAContact'
  BY <1>3, <1>6 DEF Entry!ChecksAContact, Entry!Sending
<1> QED BY <1>7, <1>8, <1>9, <1>10 DEF Entry!EntryInv

LEMMA EntrySubmits ==
    ASSUME Entry!EntryInv,
           Entry!Submit \/ Entry!UseExistingContact \/ Entry!CreateWithNewContact
    PROVE  Entry!EntryInv'
<1>0. /\ form \in Entry!FormState /\ lookups \subseteq Entry!Closure /\ searches \in 0..LookupBound
      /\ Entry!ShownDonor \in Donors \cup {None}
      /\ None \in Donors \cup {None} /\ form.selected \in Donors \cup {None}
  BY DEF Entry!EntryInv, Entry!TypeOK, Entry!ShownDonor, Entry!FormState
<1>1. CASE Entry!Submit
  <2>1. /\ form.status # "submitting"
        /\ \E pc \in {"check", "create"} : /\ Entry!Send(pc, None, Entry!ShownDonor)
                                           /\ pc = "check" => form.contact # None
    BY <1>0, <1>1 DEF Entry!Submit, Entry!SubmitEnabled, Entry!Submitting, Entry!CanSubmit,
                      Entry!FormState, Entry!Flows
  <2> QED BY <1>0, <2>1, EntrySent
<1>2. ASSUME NEW donor \in Donors \cup {None}, Entry!FromPanel(donor, donor)
      PROVE  Entry!EntryInv'
  <2>1. form.status # "submitting"
    BY <1>2 DEF Entry!FromPanel, Entry!Submitting
  <2>2. CASE Entry!Send("create", donor, donor)
    BY <1>2, <2>1, <2>2, EntrySent
  <2>3. CASE /\ Entry!Render([form EXCEPT !.status = "error"])
             /\ UNCHANGED <<lookups, searches, calls>>
    <3> DEFINE next == [form EXCEPT !.status = "error"]
    <3>1. Entry!RenderWith(next, asking)
      BY <2>3 DEF Entry!Render
    <3>2. /\ next \in Entry!FormState /\ next.show = form.show /\ next.warning = form.warning
          /\ next.status = "error"
      BY <1>0 DEF Entry!FormState, Entry!Statuses
    <3> HIDE DEF next
    <3> QED BY <1>0, <2>1, <2>3, <3>1, <3>2, EntryShows
  <2> QED BY <1>2, <2>2, <2>3 DEF Entry!FromPanel
<1>3. CASE Entry!UseExistingContact
  BY <1>0, <1>2, <1>3 DEF Entry!UseExistingContact
<1>4. CASE Entry!CreateWithNewContact
  BY <1>0, <1>2, <1>4 DEF Entry!CreateWithNewContact
<1> QED BY <1>1, <1>3, <1>4

LEMMA EntryReopens ==
    ASSUME Entry!EntryInv, Entry!Reopen
    PROVE  Entry!EntryInv'
<1>1. 0 \in 0..LookupBound
  BY Bounds
<1>2. Entry!TypeOK'
  BY <1>1, EntryEmpty DEF Entry!Reopen, Entry!TypeOK
<1>3. Entry!SubmittedIsShown'
  BY EntryEmpty DEF Entry!Reopen, Entry!SubmittedIsShown, Entry!Submitting, Entry!Sending
<1> QED BY <1>2, <1>3, EntryEmpty
        DEF Entry!Reopen, Entry!EntryInv, Entry!PanelIsCurrent, Entry!PanelOpen,
            Entry!PanelIsClosing, Entry!WarningsFollow, Entry!ChecksAContact, Entry!Sending

\* The answers to a submission: it goes on, or the form is usable again.
LEMMA EntryAnswers ==
    ASSUME Entry!EntryInv, NEW s \in Slots, Entry!Answers(s)
    PROVE  Entry!EntryInv'
<1>0. /\ form \in Entry!FormState /\ lookups \subseteq Entry!Closure /\ searches \in 0..LookupBound
      /\ calls \in [Slots -> Entry!Gift \cup {None}] /\ calls[s] # None
      /\ UNCHANGED <<lookups, searches>>
  BY DEF Entry!EntryInv, Entry!TypeOK, Entry!Answers, Entry!CheckAnswers, Entry!CreateAnswers
<1>1. /\ calls[s] \in Entry!Gift /\ \A t \in Slots \ {s} : calls[t] = None
      /\ form.status = "submitting" /\ calls[s].contact = form.contact
      /\ calls[s].pc = "check" => calls[s].contact # None
  <2>1. s \in Entry!Sending
    BY <1>0 DEF Entry!Sending
  <2> QED BY <1>0, <2>1
          DEF Entry!EntryInv, Entry!SubmittedIsShown, Entry!ChecksAContact, Entry!Sending,
              Entry!Submitting
\* The submission ends.
<1>2. ASSUME NEW next \in Entry!FormState, Entry!RenderWith(next, asking),
             next.show => form.show \/ next.foundFor = next.contact,
             next.warning \in {form.warning, None}, next.status # "submitting",
             calls' = [calls EXCEPT ![s] = None]
      PROVE  Entry!EntryInv'
  <2>1. \A t \in Slots : calls'[t] = None
    BY <1>0, <1>1, <1>2
  <2>2. /\ form' \in Entry!FormState /\ due' \subseteq Entry!Effects
        /\ timer' \in Entry!Closure \cup {None}
        /\ asking' \in [donor : Donors, details : EntryDetails] \cup {None}
        /\ form'.status = next.status
        /\ Entry!PanelIsCurrent' /\ Entry!PanelIsClosing' /\ Entry!WarningsFollow'
    BY <1>2, EntryRender
  <2>3. Entry!TypeOK'
    BY <1>0, <1>2, <2>2 DEF Entry!TypeOK
  <2>4. Entry!SubmittedIsShown'
    BY <1>2, <2>1, <2>2 DEF Entry!SubmittedIsShown, Entry!Submitting, Entry!Sending
  <2>5. Entry!ChecksAContact'
    BY <2>1 DEF Entry!ChecksAContact, Entry!Sending
  <2> QED BY <2>2, <2>3, <2>4, <2>5 DEF Entry!EntryInv
<1>3. ASSUME Entry!Render([form EXCEPT !.status = "error"]), calls' = [calls EXCEPT ![s] = None]
      PROVE  Entry!EntryInv'
  <2> DEFINE next == [form EXCEPT !.status = "error"]
  <2>1. Entry!RenderWith(next, asking)
    BY <1>3 DEF Entry!Render
  <2>2. /\ next \in Entry!FormState /\ next.show = form.show /\ next.warning = form.warning
        /\ next.status = "error"
    BY <1>0 DEF Entry!FormState, Entry!Statuses
  <2> HIDE DEF next
  <2> QED BY <1>2, <1>3, <2>1, <2>2
<1>4. CASE calls' = [calls EXCEPT ![s].pc = "create"] /\ UNCHANGED <<form, due, timer, asking>>
  <2> DEFINE gift == [calls[s] EXCEPT !.pc = "create"]
  <2>1. /\ gift \in Entry!Gift /\ gift.contact = calls[s].contact
        /\ gift.flow = calls[s].flow /\ gift.details = calls[s].details
        /\ gift.pc = "create"
    BY <1>1 DEF Entry!Gift
  <2>2. calls' = [calls EXCEPT ![s] = gift]
    BY <1>4
  <2> HIDE DEF gift
  <2>3. gift # None
    BY <2>1, NoneAssumption
  <2>4. Entry!TypeOK'
    BY <1>0, <1>4, <2>1, <2>2 DEF Entry!EntryInv, Entry!TypeOK
  <2>5. Entry!SubmittedIsShown'
    BY <1>0, <1>1, <1>4, <2>1, <2>2, <2>3
       DEF Entry!EntryInv, Entry!SubmittedIsShown, Entry!Submitting, Entry!Sending
  <2>6. Entry!PanelIsCurrent' /\ Entry!PanelIsClosing'
    BY <1>4 DEF Entry!EntryInv, Entry!PanelIsCurrent, Entry!PanelOpen, Entry!PanelIsClosing
  <2>7. Entry!WarningsFollow'
    BY <1>4 DEF Entry!EntryInv, Entry!WarningsFollow, Entry!IsOfForm
  <2>8. Entry!ChecksAContact'
    BY <1>0, <1>1, <2>1, <2>2 DEF Entry!ChecksAContact, Entry!Sending
  <2> QED BY <2>4, <2>5, <2>6, <2>7, <2>8 DEF Entry!EntryInv
\* The donors that are suggested are those of the contact that is still shown.
<1>5. ASSUME calls[s].pc = "check", NEW found \in Directory[calls[s].contact] \ {{}},
             Entry!Render(Entry!Suggested(found, calls[s].contact)),
             calls' = [calls EXCEPT ![s] = None]
      PROVE  Entry!EntryInv'
  <2> DEFINE contact == calls[s].contact
             next == [form EXCEPT !.matches = found, !.foundFor = contact, !.show = TRUE,
                                  !.status = "idle"]
  <2>1. Entry!RenderWith(next, asking)
    BY <1>5 DEF Entry!Render, Entry!Suggested
  <2>2. contact \in EntryContacts /\ contact = form.contact
    BY <1>1, <1>5 DEF Entry!Gift
  <2>3. found \in SUBSET Donors
    BY <1>5, <2>2, ConstantsAssumption
  <2> HIDE DEF contact
  <2>4. /\ next \in Entry!FormState /\ next.foundFor = next.contact
        /\ next.warning = form.warning /\ next.status = "idle"
    BY <1>0, <2>2, <2>3 DEF Entry!FormState, Entry!Statuses
  <2> HIDE DEF next
  <2> QED BY <1>2, <1>5, <2>1, <2>4
<1>6. ASSUME Entry!Render([Entry!Empty EXCEPT !.flow = form.flow, !.status = "success",
                                              !.results = form.results]),
             calls' = [calls EXCEPT ![s] = None]
      PROVE  Entry!EntryInv'
  <2> DEFINE next == [Entry!Empty EXCEPT !.flow = form.flow, !.status = "success",
                                         !.results = form.results]
  <2>1. Entry!RenderWith(next, asking)
    BY <1>6 DEF Entry!Render
  <2>2. /\ next \in Entry!FormState /\ ~next.show /\ next.warning = None
        /\ next.status = "success"
    BY <1>0, EntryEmpty DEF Entry!FormState, Entry!Statuses
  <2> HIDE DEF next
  <2> QED BY <1>2, <1>6, <2>1, <2>2
<1>7. CASE Entry!CheckAnswers(s)
  BY <1>3, <1>4, <1>5, <1>7 DEF Entry!CheckAnswers
<1>8. CASE Entry!CreateAnswers(s)
  BY <1>3, <1>6, <1>8 DEF Entry!CreateAnswers
<1> QED BY <1>7, <1>8 DEF Entry!Answers

LEMMA EntryStepOK ==
    ASSUME Entry!EntryInv, Entry!Next
    PROVE  Entry!EntryInv'
BY EntryTypes, EntryHears, EntrySubmits, EntryReopens, EntryAnswers DEF Entry!Next
-----------------------------------------------------------------------------
(***************************************************************************)
(* The page                                                                *)
(***************************************************************************)

LEMMA PagesInitOK == Init => PagesInv
<1> SUFFICES ASSUME Init PROVE PagesInv
  OBVIOUS
<1>1. /\ Drawer!DrawerInv => Drawer!TypeOK
      /\ Queue!QueueInv => Queue!TypeOK
      /\ Entry!EntryInv => Entry!TypeOK
      /\ Payout!PayoutInv => Payout!TypeOK
      /\ House!HouseholdInv => House!TypeOK
      /\ Appeal!AppealsInv => Appeal!TypeOK
  BY DEF Drawer!DrawerInv, Queue!QueueInv, Entry!EntryInv, Payout!PayoutInv,
         House!HouseholdInv, Appeal!AppealsInv
<1> QED
  BY <1>1, DrawerInitOK, QueueInitOK, EntryInitOK, PayoutInitOK, HouseInitOK, AppealInitOK
     DEF Init, PagesInv, TypeOK

\* What is not there stays away.
LEMMA AwayStays ==
    /\ NoDrawer /\ UNCHANGED drawerVars => NoDrawer'
    /\ NoQueue /\ UNCHANGED queueVars => NoQueue'
    /\ NoEntry /\ UNCHANGED entryVars => NoEntry'
    /\ NoPayouts /\ UNCHANGED payoutVars => NoPayouts'
    /\ NoHouseholds /\ UNCHANGED houseVars => NoHouseholds'
    /\ NoAppeals /\ UNCHANGED appealVars => NoAppeals'
<1>1. NoDrawer /\ UNCHANGED drawerVars => NoDrawer'
  BY DEF NoDrawer, drawerVars
<1>2. NoQueue /\ UNCHANGED queueVars => NoQueue'
  BY DEF NoQueue, queueVars
<1>3. NoEntry /\ UNCHANGED entryVars => NoEntry'
  BY DEF NoEntry, entryVars
<1>4. NoPayouts /\ UNCHANGED payoutVars => NoPayouts'
  BY DEF NoPayouts, payoutVars
<1>5. NoHouseholds /\ UNCHANGED houseVars => NoHouseholds'
  BY DEF NoHouseholds, houseVars
<1>6. NoAppeals /\ UNCHANGED appealVars => NoAppeals'
  BY DEF NoAppeals, appealVars
<1> QED BY <1>1, <1>2, <1>3, <1>4, <1>5, <1>6

LEMMA PagesMove ==
    ASSUME PagesInv, Next
    PROVE  PagesInv'
<1>1. /\ (Drawer!DrawerInv => Drawer!TypeOK)'
      /\ (Queue!QueueInv => Queue!TypeOK)'
      /\ (Entry!EntryInv => Entry!TypeOK)'
      /\ (Payout!PayoutInv => Payout!TypeOK)'
      /\ (House!HouseholdInv => House!TypeOK)'
      /\ (Appeal!AppealsInv => Appeal!TypeOK)'
  BY DEF Drawer!DrawerInv, Queue!QueueInv, Entry!EntryInv, Payout!PayoutInv,
         House!HouseholdInv, Appeal!AppealsInv
<1>2. CASE Queueing(Queue!Next)
  <2>1. view = "queue" /\ view' = "queue" /\ Queue!QueueInv'
    BY <1>2, QueueStepOK DEF Queueing, PagesInv
  <2> QED BY <1>1, <1>2, <2>1, AwayStays DEF Queueing, PagesInv, TypeOK
<1>3. CASE Reviewing(Drawer!Next)
  <2>1. view = "drawer" /\ view' = "drawer" /\ Drawer!DrawerInv'
    BY <1>3, DrawerStepOK DEF Reviewing, PagesInv
  <2> QED BY <1>1, <1>3, <2>1, AwayStays DEF Reviewing, PagesInv, TypeOK
<1>4. CASE Entering(Entry!Next)
  <2>1. view = "manual" /\ view' = "manual" /\ Entry!EntryInv'
    BY <1>4, EntryStepOK DEF Entering, PagesInv
  <2> QED BY <1>1, <1>4, <2>1, AwayStays DEF Entering, PagesInv, TypeOK
<1>5. CASE Reconciling(Payout!Next)
  <2>1. view = "reconciliation" /\ view' = "reconciliation" /\ Payout!PayoutInv'
    BY <1>5, PayoutStepOK DEF Reconciling, PagesInv
  <2> QED BY <1>1, <1>5, <2>1, AwayStays DEF Reconciling, PagesInv, TypeOK
<1>6. CASE Housing(House!Next)
  <2>1. view = "households" /\ view' = "households" /\ House!HouseholdInv'
    BY <1>6, HouseStepOK DEF Housing, PagesInv
  <2> QED BY <1>1, <1>6, <2>1, AwayStays DEF Housing, PagesInv, TypeOK
<1>7. CASE Appealing(Appeal!Next)
  <2>1. view = "appeals" /\ view' = "appeals" /\ Appeal!AppealsInv'
    BY <1>7, AppealStepOK DEF Appealing, PagesInv
  <2> QED BY <1>1, <1>7, <2>1, AwayStays DEF Appealing, PagesInv, TypeOK
<1> QED BY <1>2, <1>3, <1>4, <1>5, <1>6, <1>7 DEF Next

\* A view's invariant is about its own variables and those of the page.
LEMMA DrawerStays ==
    ASSUME Drawer!DrawerInv, UNCHANGED <<form, busy, call, clicks, drawerVars>>
    PROVE  Drawer!DrawerInv'
BY DEF drawerVars, Drawer!DrawerInv, Drawer!TypeOK, Drawer!ContentStaysWithItsGift

LEMMA QueueStays ==
    ASSUME Queue!QueueInv, UNCHANGED <<form, busy, call, clicks, queueVars>>
    PROVE  Queue!QueueInv'
BY DEF queueVars, Queue!QueueInv, Queue!TypeOK, Queue!ChipsTellTheFilter

LEMMA EntryStays ==
    ASSUME Entry!EntryInv, UNCHANGED <<form, busy, call, clicks, entryVars>>
    PROVE  Entry!EntryInv'
BY DEF entryVars, Entry!EntryInv, Entry!TypeOK, Entry!ChecksAContact, Entry!SubmittedIsShown,
       Entry!Submitting, Entry!Sending, Entry!PanelIsCurrent, Entry!PanelOpen,
       Entry!PanelIsClosing, Entry!WarningsFollow, Entry!IsOfForm

LEMMA PayoutStays ==
    ASSUME Payout!PayoutInv, UNCHANGED <<form, busy, call, clicks, payoutVars>>
    PROVE  Payout!PayoutInv'
BY DEF payoutVars, Payout!PayoutInv, Payout!TypeOK, Payout!FeedbackIsTrue, Payout!RecordOK,
       Payout!SeenOK, Payout!FormIsTyped, Payout!SaveOK, Payout!LinkOK, Payout!InTwenty,
       Payout!ConfirmedIn

LEMMA HouseStays ==
    ASSUME House!HouseholdInv, UNCHANGED <<form, busy, call, clicks, houseVars>>
    PROVE  House!HouseholdInv'
BY DEF houseVars, House!HouseholdInv, House!TypeOK, House!PrimaryIsQueued,
       House!SuccessIsPursued

LEMMA AppealStays ==
    ASSUME Appeal!AppealsInv, UNCHANGED <<form, busy, call, clicks, appealVars>>
    PROVE  Appeal!AppealsInv'
BY DEF appealVars, Appeal!AppealsInv, Appeal!TypeOK, Appeal!ContentStaysWithItsAppeal,
       Appeal!FormsSaveOnce, Appeal!SavesOf, Appeal!EditIsOfChosen, Appeal!EditShown

LEMMA PagesStay ==
    ASSUME PagesInv, UNCHANGED vars
    PROVE  PagesInv'
<1>1. /\ UNCHANGED <<view, form, busy, call, clicks>>
      /\ UNCHANGED drawerVars /\ UNCHANGED queueVars /\ UNCHANGED entryVars
      /\ UNCHANGED payoutVars /\ UNCHANGED houseVars /\ UNCHANGED appealVars
  BY DEF vars
<1>2. /\ (Drawer!DrawerInv => Drawer!TypeOK)'
      /\ (Queue!QueueInv => Queue!TypeOK)'
      /\ (Entry!EntryInv => Entry!TypeOK)'
      /\ (Payout!PayoutInv => Payout!TypeOK)'
      /\ (House!HouseholdInv => House!TypeOK)'
      /\ (Appeal!AppealsInv => Appeal!TypeOK)'
  BY DEF Drawer!DrawerInv, Queue!QueueInv, Entry!EntryInv, Payout!PayoutInv,
         House!HouseholdInv, Appeal!AppealsInv
<1> QED
  BY <1>1, <1>2, AwayStays, DrawerStays, QueueStays, EntryStays, PayoutStays, HouseStays,
     AppealStays DEF PagesInv, TypeOK

-----------------------------------------------------------------------------
(***************************************************************************)
(* Theorems                                                                *)
(***************************************************************************)

\* Whatever view the page shows, in every reachable state the variables of that
\* view have their types and its own invariant holds, and those of the views that
\* are not shown are gone with their components (App renders one view at a time).
THEOREM PagesInvariance == Spec => []PagesInv
<1>1. PagesInv /\ [Next]_vars => PagesInv'
  BY PagesMove, PagesStay
<1> QED BY <1>1, PagesInitOK, PTL DEF Spec

\* What was loaded or typed for a staged gift, or an appeal, is never written to
\* another one (useGiftStagingDetail, AppealsView), and the primary contact of a
\* household to be created is one of the people queued for it (HouseholdManager).
THEOREM ContentStays == Spec => []ContentStaysPut
<1>1. PagesInv => ContentStaysPut
  BY DEF PagesInv, ContentStaysPut, Drawer!DrawerInv, Appeal!AppealsInv, House!HouseholdInv
<1> QED BY <1>1, PagesInvariance, PTL

\* While a gift entered by hand is submitted, the form says so and shows that gift,
\* and there is no second submission (useManualGiftEntryController); each of the
\* three forms about appeals is saving exactly while one save of it is under way.
THEOREM FormsSubmitOnce == Spec => []SubmittedOnce
<1>1. PagesInv => SubmittedOnce
  BY DEF PagesInv, SubmittedOnce, Entry!EntryInv, Appeal!AppealsInv
<1> QED BY <1>1, PagesInvariance, PTL

\* The chips of the queue are those of the filters it is loaded with (StagingQueue);
\* the donors offered are those found for the contact on the form, and a warning of
\* a waiting gift is about the gift on the form (useManualGiftEntryController).
THEOREM HintsStayCurrent == Spec => []HintsAreCurrent
<1>1. Entry!EntryInv => Entry!WarningIsCurrent
  BY DEF Entry!EntryInv, Entry!WarningsFollow, Entry!IsOfForm, Entry!WarningIsCurrent
<1>2. PagesInv => HintsAreCurrent
  BY <1>1 DEF PagesInv, HintsAreCurrent, Queue!QueueInv, Entry!EntryInv
<1> QED BY <1>2, PagesInvariance, PTL

\* "Linked n gifts" names gifts of which each was patched (PayoutDrawer), and with
\* nothing being created any more "Household created" is told only of one that has
\* all the people queued for it (HouseholdManager.handleCreateHousehold).
THEOREM MessagesAreTrue == Spec => []MessageIsTrue
<1>1. House!HouseholdInv => House!SuccessIsComplete
  BY DEF House!HouseholdInv, House!SuccessIsPursued, House!SuccessIsComplete, House!Completes
<1>2. PagesInv => MessageIsTrue
  BY <1>1 DEF PagesInv, MessageIsTrue, Payout!PayoutInv
<1> QED BY <1>2, PagesInvariance, PTL

\* A payout that is in Twenty changes only by a colleague, or in a field that was
\* typed into for a save under way, and it is never reconciled without a
\* confirmation (PayoutDrawer.handleSave, GiftPayoutService.updateGiftPayout).
THEOREM SavesAreTyped == Spec => SavedIsTyped
<1>1. PagesInv /\ [Next]_vars => [view = "reconciliation" => Payout!SavesWhatWasTyped]_vars
  <2> SUFFICES ASSUME PagesInv, Next, view = "reconciliation"
               PROVE  Payout!SavesWhatWasTyped
    OBVIOUS
  <2>1. Payout!PayoutInv /\ Payout!Next
    BY DEF PagesInv, Next, Queueing, Reviewing, Entering, Reconciling, Housing, Appealing
  <2> QED BY <2>1, PayoutSaves
<1> QED BY <1>1, PagesInvariance, PTL DEF Spec, SavedIsTyped
=============================================================================
