------------------------ MODULE StripeWebhookProofs ------------------------
(***************************************************************************)
(* Theorems about StripeWebhook, for any sessions, agreements, faults and  *)
(* number of deliveries in progress.                                       *)
(***************************************************************************)
EXTENDS StripeWebhook, TLAPS

\* A POST never takes an object away, and leaves one unless it failed.
LEMMA MoreGrows ==
    ASSUME NEW n \in 0 .. Several, NEW o \in Outcomes
    PROVE  /\ More(n, o) \in 0 .. Several
           /\ n > 0 => More(n, o) > 0
           /\ o # "failed" => More(n, o) > 0
<1>1. n + 1 \in 0 .. Several \/ ~(n < Several)
  BY DEF Several
<1>2. QED
  BY <1>1 DEF More, Outcomes, Several

\* What a slot may hold, given the counts of held rows and gifts.
SlotOK(hs) ==
    /\ hs.pc # "idle" <=> hs.session # NoSession
    /\ hs.pc = "acknowledge" => Ingested(hs.session)
    /\ hs.pc = "agreement" => Agreement[hs.session] # NoAgreement

LEMMA Initial == Init => IInv
<1> SUFFICES ASSUME Init PROVE IInv
  OBVIOUS
<1>1. TypeOK
  BY DEF Init, TypeOK, HandlerState, Idle, Identities, Counts, Several
<1>2. QED
  BY <1>1 DEF Init, IInv, AcknowledgedIsIngested, Idle, At

\* A step that moves one slot to a state it may hold, and takes no row and no
\* gift away, keeps the invariant.
LEMMA SlotStep ==
    ASSUME IInv, enabled' = enabled, NEW h \in Handlers, NEW new \in HandlerState,
           handler' = [handler EXCEPT ![h] = new], SlotOK(new)',
           acked' \subseteq Sessions, \A s \in acked' : Ingested(s)',
           held' \in Counts, gifts' \in Counts,
           agreement' \in [Agreements -> Sessions \cup {NoSession}],
           \A s \in Sessions : Ingested(s) => Ingested(s)'
    PROVE  IInv'
<1>1. TypeOK'
  BY DEF IInv, TypeOK
<1>2. AcknowledgedIsIngested'
  BY DEF AcknowledgedIsIngested
<1>3. ASSUME NEW k \in Handlers
      PROVE  SlotOK(handler[k])'
  <2>1. CASE k = h
    BY <2>1 DEF IInv, TypeOK, SlotOK
  <2>2. CASE k # h
    <3>1. handler'[k] = handler[k]
      BY <2>2 DEF IInv, TypeOK
    <3>2. SlotOK(handler[k])
      BY DEF IInv, SlotOK, At
    <3>3. handler[k].session # NoSession => handler[k].session \in Sessions
      BY DEF IInv, TypeOK, HandlerState
    <3>4. QED
      BY <3>1, <3>2, <3>3 DEF SlotOK
  <2>3. QED
    BY <2>1, <2>2
<1>4. QED
  BY <1>1, <1>2, <1>3 DEF IInv, SlotOK, At

\* Where a delivery goes once its agreement is dealt with.
LEMMA ForwardGoes ==
    ASSUME NEW s \in Sessions
    PROVE  /\ Forward(s) \in {"refuse", "lookup", "person"}
           /\ Start(s) \in {"refuse", "lookup", "person", "agreement"}
           /\ Start(s) = "agreement" => Agreement[s] # NoAgreement
<1>1. Forward(s) \in {"refuse", "lookup", "person"}
  BY DEF Forward, Thrown
<1>2. QED
  BY <1>1 DEF Start

\* The slot of a delivery in progress.
LEMMA Busy ==
    ASSUME IInv, NEW h \in Handlers, handler[h].pc # "idle"
    PROVE  /\ handler[h] \in HandlerState
           /\ handler[h].session \in Sessions
           /\ \A s \in Sessions : held[s] \in 0 .. Several /\ gifts[s] \in 0 .. Several
<1>1. QED
  BY DEF IInv, TypeOK, HandlerState, Counts

\* A step of the service that leaves the objects in Twenty alone but for an
\* agreement.
LEMMA QuietStep ==
    ASSUME IInv, NEW h \in Handlers, NEW new \in HandlerState,
           handler' = [handler EXCEPT ![h] = new], SlotOK(new),
           UNCHANGED <<enabled, acked, held, gifts>>,
           agreement' \in [Agreements -> Sessions \cup {NoSession}]
    PROVE  IInv'
<1>1. \A s : Ingested(s)' <=> Ingested(s)
  BY DEF Ingested
<1>2. SlotOK(new)'
  BY <1>1 DEF SlotOK
<1>3. acked' \subseteq Sessions /\ held' \in Counts /\ gifts' \in Counts
  BY DEF IInv, TypeOK
<1>4. \A s \in acked' : Ingested(s)'
  BY <1>1 DEF IInv, AcknowledgedIsIngested
<1>5. QED
  BY <1>1, <1>2, <1>3, <1>4, SlotStep

LEMMA DeliverStep ==
    ASSUME IInv, NEW h \in Handlers, NEW s \in Sessions, Deliver(h, s)
    PROVE  IInv'
<1> DEFINE new == [Idle EXCEPT !.pc = Start(s), !.session = s]
<1>1. /\ new \in HandlerState
      /\ new.pc = Start(s) /\ new.session = s
  BY ForwardGoes DEF HandlerState, Idle, Identities, Calls
<1>2. SlotOK(new)
  BY <1>1, ForwardGoes, SessionsAssumption DEF SlotOK
<1>3. handler' = [handler EXCEPT ![h] = new] /\ UNCHANGED <<enabled, acked, held, gifts, agreement>>
  BY DEF Deliver, Set
<1>4. QED
  BY <1>1, <1>2, <1>3, QuietStep DEF IInv, TypeOK

LEMMA UpdateAgreementStep ==
    ASSUME IInv, NEW h \in Handlers, NEW o \in Outcomes, UpdateAgreement(h, o)
    PROVE  IInv'
<1> DEFINE s == handler[h].session
           new == [handler[h] EXCEPT !.pc = Forward(s)]
<1>1. handler[h] \in HandlerState /\ s \in Sessions /\ handler[h].pc = "agreement"
  BY Busy DEF UpdateAgreement, At
<1>2. new \in HandlerState /\ new.pc = Forward(s) /\ new.session = s
  BY <1>1, ForwardGoes DEF HandlerState, Calls
<1>3. SlotOK(new)
  BY <1>1, <1>2, ForwardGoes, SessionsAssumption DEF SlotOK
<1>4. handler' = [handler EXCEPT ![h] = new] /\ UNCHANGED <<enabled, acked, held, gifts>>
  BY DEF UpdateAgreement, Set, Go
<1>5. agreement' \in [Agreements -> Sessions \cup {NoSession}]
  BY <1>1 DEF UpdateAgreement, IInv, TypeOK
<1>6. QED
  BY <1>2, <1>3, <1>4, <1>5, QuietStep

LEMMA LookupStep ==
    ASSUME IInv, NEW h \in Handlers, NEW i \in {"none", "weak", "strong"}, Lookup(h, i)
    PROVE  IInv'
<1> DEFINE new == [handler[h] EXCEPT !.pc = IF i = "none" THEN "person" ELSE "stage",
                                     !.identity = i]
<1>1. handler[h] \in HandlerState /\ handler[h].session \in Sessions
  BY Busy DEF Lookup, At
<1>2. /\ new \in HandlerState
      /\ new.pc \in {"person", "stage"} /\ new.session = handler[h].session
  BY <1>1 DEF HandlerState, Calls, Identities
<1>3. SlotOK(new)
  BY <1>1, <1>2, SessionsAssumption DEF SlotOK
<1>4. handler' = [handler EXCEPT ![h] = new] /\ UNCHANGED <<enabled, acked, held, gifts, agreement>>
  BY DEF Lookup, Set
<1>5. QED
  BY <1>2, <1>3, <1>4, QuietStep DEF IInv, TypeOK

LEMMA CreatePersonStep ==
    ASSUME IInv, NEW h \in Handlers, NEW o \in Outcomes, CreatePerson(h, o)
    PROVE  IInv'
<1>1. handler[h] \in HandlerState /\ handler[h].session \in Sessions
  BY Busy DEF CreatePerson, At
<1>2. UNCHANGED <<enabled, acked, held, gifts, agreement>>
  BY DEF CreatePerson
<1>3. PICK new \in HandlerState :
          /\ handler' = [handler EXCEPT ![h] = new]
          /\ new.pc \in {"refuse", "stage"} /\ new.session = handler[h].session
  <2>1. CASE o \in {"failed", "dropped"}
    <3> DEFINE n == [handler[h] EXCEPT !.pc = "refuse"]
    <3>1. handler' = [handler EXCEPT ![h] = n]
      BY <2>1 DEF CreatePerson, Go, Set, Thrown
    <3>2. n \in HandlerState /\ n.pc = "refuse" /\ n.session = handler[h].session
      BY <1>1 DEF HandlerState
    <3>3. QED
      BY <3>1, <3>2
  <2>2. CASE o \notin {"failed", "dropped"}
    <3> DEFINE n == [handler[h] EXCEPT !.pc = "stage", !.identity = "explicit"]
    <3>1. handler' = [handler EXCEPT ![h] = n]
      BY <2>2 DEF CreatePerson, Set
    <3>2. n \in HandlerState /\ n.pc = "stage" /\ n.session = handler[h].session
      BY <1>1 DEF HandlerState, Calls, Identities
    <3>3. QED
      BY <3>1, <3>2
  <2>3. QED
    BY <2>1, <2>2
<1>4. SlotOK(new)
  BY <1>1, <1>3, SessionsAssumption DEF SlotOK
<1>5. QED
  BY <1>2, <1>3, <1>4, QuietStep DEF IInv, TypeOK

LEMMA StageStep ==
    ASSUME IInv, NEW h \in Handlers, NEW o \in Outcomes, Stage(h, o)
    PROVE  IInv'
<1> DEFINE s == handler[h].session
           now == AutoProcess(s, handler[h].identity)
           next == [handler[h] EXCEPT !.pc = Staged(o, now)]
<1>1. /\ handler[h] \in HandlerState /\ s \in Sessions
      /\ \A t \in Sessions : held[t] \in 0 .. Several /\ gifts[t] \in 0 .. Several
  BY Busy DEF Stage, At
<1>2. /\ handler' = [handler EXCEPT ![h] = next]
      /\ held' = IF now THEN held ELSE [held EXCEPT ![s] = More(@, o)]
      /\ UNCHANGED <<enabled, acked, gifts, agreement>>
  BY DEF Stage, Set, Go
<1>3. Staged(o, now) \in {"acknowledge", "gift"}
  BY DEF Staged
<1>4. PICK new \in HandlerState :
          new = next /\ new.pc = Staged(o, now) /\ new.session = s
  <2>1. next \in HandlerState /\ next.pc = Staged(o, now) /\ next.session = s
    BY <1>1, <1>3 DEF HandlerState, Calls
  <2>2. QED
    BY <2>1
<1>5. /\ held' \in Counts
      /\ \A t \in Sessions : held[t] > 0 => held'[t] > 0
  BY <1>1, <1>2, MoreGrows DEF IInv, TypeOK, Counts
<1>6. \A t \in Sessions : Ingested(t) => Ingested(t)'
  BY <1>2, <1>5 DEF Ingested
<1>7. Staged(o, now) = "acknowledge" => held'[s] > 0
  <2>1. SUFFICES ASSUME o # "failed", ~now
                 PROVE  held'[s] > 0
    BY DEF Staged
  <2>2. held'[s] = More(held[s], o)
    BY <1>1, <1>2, <2>1 DEF IInv, TypeOK, Counts
  <2>3. QED
    BY <1>1, <2>1, <2>2, MoreGrows
<1>8. SlotOK(new)'
  <2>1. new.pc # "idle" /\ new.pc # "agreement" /\ new.session # NoSession
    BY <1>1, <1>3, <1>4, SessionsAssumption
  <2>2. new.pc = "acknowledge" => held'[new.session] > 0
    BY <1>4, <1>7
  <2>3. QED
    BY <2>1, <2>2 DEF SlotOK, Ingested
<1>9. /\ acked' \subseteq Sessions /\ gifts' \in Counts
      /\ agreement' \in [Agreements -> Sessions \cup {NoSession}]
  BY <1>2 DEF IInv, TypeOK
<1>10. \A t \in acked' : Ingested(t)'
  BY <1>2, <1>6 DEF IInv, TypeOK, AcknowledgedIsIngested
<1>11. QED
  BY <1>2, <1>4, <1>5, <1>6, <1>8, <1>9, <1>10, SlotStep

LEMMA CreateGiftStep ==
    ASSUME IInv, NEW h \in Handlers, NEW o \in Outcomes, CreateGift(h, o)
    PROVE  IInv'
<1> DEFINE s == handler[h].session
           pc == IF o \in {"ok", "repeated"} THEN "acknowledge" ELSE Thrown
           next == [handler[h] EXCEPT !.pc = pc]
<1>1. /\ handler[h] \in HandlerState /\ s \in Sessions
      /\ \A t \in Sessions : held[t] \in 0 .. Several /\ gifts[t] \in 0 .. Several
  BY Busy DEF CreateGift, At
<1>2. /\ handler' = [handler EXCEPT ![h] = next]
      /\ gifts' = [gifts EXCEPT ![s] = More(@, o)]
      /\ UNCHANGED <<enabled, acked, held, agreement>>
  BY DEF CreateGift, Set, Go
<1>3. pc \in {"acknowledge", "refuse"}
  BY DEF Thrown
<1>4. PICK new \in HandlerState :
          new = next /\ new.pc = pc /\ new.session = s
  <2>1. next \in HandlerState /\ next.pc = pc /\ next.session = s
    BY <1>1, <1>3 DEF HandlerState
  <2>2. QED
    BY <2>1
<1>5. /\ gifts' \in Counts
      /\ \A t \in Sessions : gifts[t] > 0 => gifts'[t] > 0
      /\ pc = "acknowledge" => gifts'[s] > 0
  BY <1>1, <1>2, MoreGrows DEF IInv, TypeOK, Counts, Thrown
<1>6. \A t \in Sessions : Ingested(t) => Ingested(t)'
  BY <1>2, <1>5 DEF Ingested
<1>7. SlotOK(new)'
  <2>1. new.pc # "idle" /\ new.pc # "agreement" /\ new.session # NoSession
    BY <1>1, <1>3, <1>4, SessionsAssumption
  <2>2. new.pc = "acknowledge" => gifts'[new.session] > 0
    BY <1>4, <1>5
  <2>3. QED
    BY <2>1, <2>2 DEF SlotOK, Ingested
<1>8. /\ acked' \subseteq Sessions /\ held' \in Counts
      /\ agreement' \in [Agreements -> Sessions \cup {NoSession}]
  BY <1>2 DEF IInv, TypeOK
<1>9. \A t \in acked' : Ingested(t)'
  BY <1>2, <1>6 DEF IInv, TypeOK, AcknowledgedIsIngested
<1>10. QED
  BY <1>2, <1>4, <1>5, <1>6, <1>7, <1>8, <1>9, SlotStep

LEMMA SkipStagingStep ==
    ASSUME IInv, NEW h \in Handlers, SkipStaging(h)
    PROVE  IInv'
<1> DEFINE new == [handler[h] EXCEPT !.pc = "gift"]
<1>1. handler[h] \in HandlerState /\ handler[h].session \in Sessions
  BY Busy DEF SkipStaging, At
<1>2. new \in HandlerState /\ new.pc = "gift" /\ new.session = handler[h].session
  BY <1>1 DEF HandlerState, Calls
<1>3. SlotOK(new)
  BY <1>1, <1>2, SessionsAssumption DEF SlotOK
<1>4. handler' = [handler EXCEPT ![h] = new] /\ UNCHANGED <<enabled, acked, held, gifts, agreement>>
  BY DEF SkipStaging, Set, Go
<1>5. QED
  BY <1>2, <1>3, <1>4, QuietStep DEF IInv, TypeOK

\* A slot that has become free.
LEMMA IdleSlot == Idle \in HandlerState /\ SlotOK(Idle)
<1>1. QED
  BY DEF Idle, HandlerState, Identities, SlotOK

LEMMA AcknowledgeStep ==
    ASSUME IInv, NEW h \in Handlers, NEW heard \in BOOLEAN, Acknowledge(h, heard)
    PROVE  IInv'
<1> DEFINE s == handler[h].session
<1>1. s \in Sessions
  BY Busy DEF Acknowledge, At
<1>2. Ingested(s)
  BY DEF Acknowledge, IInv
<1>3. /\ handler' = [handler EXCEPT ![h] = Idle]
      /\ acked' \subseteq acked \cup {s}
      /\ UNCHANGED <<enabled, held, gifts, agreement>>
  BY DEF Acknowledge, Set
<1>4. \A t : Ingested(t)' <=> Ingested(t)
  BY <1>3 DEF Ingested
<1>5. SlotOK(Idle)'
  BY DEF Idle, SlotOK
<1>6. /\ acked' \subseteq Sessions /\ held' \in Counts /\ gifts' \in Counts
      /\ agreement' \in [Agreements -> Sessions \cup {NoSession}]
  BY <1>1, <1>3 DEF IInv, TypeOK
<1>7. \A t \in acked' : Ingested(t)'
  BY <1>2, <1>3, <1>4 DEF IInv, AcknowledgedIsIngested
<1>8. QED
  BY <1>3, <1>4, <1>5, <1>6, <1>7, IdleSlot, SlotStep

LEMMA RefuseStep ==
    ASSUME IInv, NEW h \in Handlers, Refuse(h)
    PROVE  IInv'
<1>1. handler' = [handler EXCEPT ![h] = Idle] /\ UNCHANGED <<enabled, acked, held, gifts, agreement>>
  BY DEF Refuse, Set
<1>2. QED
  BY <1>1, IdleSlot, QuietStep DEF IInv, TypeOK

\* A crash forgets the deliveries in progress, and nothing else.
LEMMA RestartStep ==
    ASSUME IInv, Restart
    PROVE  IInv'
<1>1. /\ handler' = [k \in Handlers |-> Idle]
      /\ UNCHANGED <<acked, held, gifts, agreement>>
      /\ enabled' \in StagingModes
  BY DEF Restart
<1>2. TypeOK'
  BY <1>1, IdleSlot DEF IInv, TypeOK
<1>3. AcknowledgedIsIngested'
  BY <1>1 DEF IInv, AcknowledgedIsIngested, Ingested
<1>4. QED
  BY <1>1, <1>2, <1>3 DEF IInv, At, Idle

LEMMA Step == IInv /\ [Next]_vars => IInv'
<1> SUFFICES ASSUME IInv, [Next]_vars PROVE IInv'
  OBVIOUS
<1>1. ASSUME NEW h \in Handlers, Advance(h)
      PROVE  IInv'
  BY <1>1, UpdateAgreementStep, LookupStep, CreatePersonStep, StageStep,
     SkipStagingStep, CreateGiftStep, AcknowledgeStep, RefuseStep DEF Advance
<1>2. CASE UNCHANGED vars
  BY <1>2 DEF vars, IInv, TypeOK, AcknowledgedIsIngested, Ingested, At
<1>3. QED
  BY <1>1, <1>2, DeliverStep, RestartStep DEF Next

\* The inductive invariant holds throughout.
THEOREM DeliveryInvariance == Spec => []IInv
<1>1. QED
  BY Initial, Step, PTL DEF Spec

\* Stripe's view and Twenty's never disagree the dangerous way: what Stripe has
\* been told is done, and will not send again, is a gift or a row to review.
THEOREM NothingAcknowledgedIsLost == Spec => []AcknowledgedIsIngested
<1>1. IInv => AcknowledgedIsIngested
  BY DEF IInv
<1>2. QED
  BY <1>1, DeliveryInvariance, PTL
-----------------------------------------------------------------------------
(***************************************************************************)
(* One gift or one row for each payment, when a call that fails did        *)
(* nothing and Stripe waits for the answer.                                *)
(***************************************************************************)

\* What OnceInv adds to IInv: a delivery that is on its way has left nothing.
LEMMA NothingYet ==
    ASSUME OnceInv, NEW h \in Handlers, handler[h].pc \notin {"idle", "acknowledge"}
    PROVE  gifts[handler[h].session] = 0 /\ held[handler[h].session] = 0
<1> DEFINE s == handler[h].session
<1>1. s \in Sessions /\ s # NoSession /\ gifts[s] \in 0 .. Several /\ held[s] \in 0 .. Several
  BY Busy, SessionsAssumption DEF OnceInv
<1>2. ~Ingested(s)
  BY <1>1 DEF OnceInv, At
<1> QED BY <1>1, <1>2 DEF Ingested, Several

\* A delivery goes on, or ends, without an answer to Stripe.  What it leaves for
\* its own session is one object at most, and then it is about to acknowledge.
LEMMA OnceMoves ==
    ASSUME OnceInv, IInv', NEW h \in Handlers, NEW new \in HandlerState,
           handler[h].pc # "idle", handler[h].pc # "acknowledge",
           handler' = [handler EXCEPT ![h] = new], acked' = acked,
           new.session = handler[h].session \/ new.session = NoSession,
           \A s \in Sessions \ {handler[h].session} : gifts'[s] = gifts[s] /\ held'[s] = held[s],
           gifts'[handler[h].session] + held'[handler[h].session] <= 1,
           gifts'[handler[h].session] > 0 \/ held'[handler[h].session] > 0 =>
               new.pc = "acknowledge" /\ new.session = handler[h].session
    PROVE  OnceInv'
<1> DEFINE mine == handler[h].session
<1>1. /\ handler \in [Handlers -> HandlerState]
      /\ handler'[h] = new /\ \A k \in Handlers \ {h} : handler'[k] = handler[k]
      /\ acked \subseteq Sessions
  BY DEF OnceInv, IInv, TypeOK
<1>2. GivenOrHeldOnce'
  BY DEF OnceInv, GivenOrHeldOnce
<1>3. ASSUME NEW a \in Handlers, NEW b \in Handlers, handler'[a].session = handler'[b].session
      PROVE  a = b \/ handler'[a].session = NoSession
  BY <1>1, <1>3 DEF OnceInv
<1>4. \A k \in Handlers : handler'[k].session \notin acked'
  BY <1>1, SessionsAssumption DEF OnceInv
<1>5. ASSUME NEW s \in Sessions, Ingested(s)'
      PROVE  s \in acked' \/ \E k \in Handlers : At(k, "acknowledge")' /\ handler'[k].session = s
  <2>1. CASE s = mine
    <3>1. gifts'[mine] > 0 \/ held'[mine] > 0
      BY <1>5, <2>1 DEF Ingested
    <3> QED BY <1>1, <2>1, <3>1 DEF At
  <2>2. CASE s # mine
    <3>1. Ingested(s)
      BY <1>5, <2>2 DEF Ingested
    <3> QED BY <1>1, <2>2, <3>1 DEF OnceInv, At
  <2> QED BY <2>1, <2>2
<1> QED BY <1>2, <1>3, <1>4, <1>5 DEF OnceInv

\* Steps that leave nothing in Twenty that is counted.
LEMMA OnceQuiet ==
    ASSUME OnceInv, IInv', NEW h \in Handlers, NEW new \in HandlerState,
           handler[h].pc # "idle", handler[h].pc # "acknowledge",
           handler' = [handler EXCEPT ![h] = new], UNCHANGED <<acked, gifts, held>>,
           new.session = handler[h].session \/ new.session = NoSession
    PROVE  OnceInv'
<1>1. gifts'[handler[h].session] = 0 /\ held'[handler[h].session] = 0
  BY NothingYet
<1>2. /\ gifts'[handler[h].session] + held'[handler[h].session] <= 1
      /\ ~(gifts'[handler[h].session] > 0 \/ held'[handler[h].session] > 0)
  BY <1>1
<1>3. \A s \in Sessions \ {handler[h].session} : gifts'[s] = gifts[s] /\ held'[s] = held[s]
  OBVIOUS
<1> QED BY <1>2, <1>3, OnceMoves

LEMMA OnceDelivers ==
    ASSUME OnceInv, IInv', ~Timeouts, NEW h \in Handlers, NEW s \in Sessions, Deliver(h, s)
    PROVE  OnceInv'
<1> DEFINE new == [Idle EXCEPT !.pc = Start(s), !.session = s]
<1>1. /\ handler \in [Handlers -> HandlerState] /\ handler' = [handler EXCEPT ![h] = new]
      /\ handler[h].pc = "idle" /\ s \notin acked
      /\ \A k \in Handlers : handler[k].session # s
      /\ UNCHANGED <<acked, held, gifts>>
  BY DEF Deliver, Set, At, OnceInv, IInv, TypeOK
<1>2. new.session = s
  BY DEF Idle
<1> HIDE DEF new
<1>3. handler'[h].session = s /\ \A k \in Handlers \ {h} : handler'[k] = handler[k]
  BY <1>1, <1>2
<1>4. GivenOrHeldOnce' /\ \A t : Ingested(t)' <=> Ingested(t)
  BY <1>1 DEF OnceInv, GivenOrHeldOnce, Ingested
<1>5. \A a, b \in Handlers :
          handler'[a].session = handler'[b].session => a = b \/ handler'[a].session = NoSession
  BY <1>1, <1>3 DEF OnceInv
<1>6. \A k \in Handlers : handler'[k].session \notin acked'
  BY <1>1, <1>3 DEF OnceInv
<1>7. ASSUME NEW t \in Sessions, Ingested(t)
      PROVE  t \in acked' \/ \E k \in Handlers : At(k, "acknowledge")' /\ handler'[k].session = t
  BY <1>1, <1>3, <1>7 DEF OnceInv, At
<1> QED BY <1>4, <1>5, <1>6, <1>7 DEF OnceInv

LEMMA OnceStages ==
    ASSUME OnceInv, IInv', Orderly, NEW h \in Handlers, NEW o \in Outcomes, Stage(h, o)
    PROVE  OnceInv'
<1> DEFINE s == handler[h].session
           now == AutoProcess(s, handler[h].identity)
           new == [handler[h] EXCEPT !.pc = Staged(o, now)]
<1>1. /\ handler[h].pc = "stage" /\ handler' = [handler EXCEPT ![h] = new]
      /\ held' = IF now THEN held ELSE [held EXCEPT ![s] = More(@, o)]
      /\ UNCHANGED <<acked, gifts>> /\ o \in {"ok", "failed"}
  BY DEF Stage, Set, Go, At, Ends, Orderly
<1>2. /\ handler[h] \in HandlerState /\ s \in Sessions /\ gifts[s] = 0 /\ held[s] = 0
      /\ held \in Counts
  BY <1>1, Busy, NothingYet DEF OnceInv, IInv, TypeOK
<1>3. Staged(o, now) = IF o = "ok" /\ ~now THEN "acknowledge" ELSE "gift"
  BY <1>1 DEF Staged
<1>4. new \in HandlerState /\ new.pc = Staged(o, now) /\ new.session = s
  BY <1>2, <1>3 DEF HandlerState, Calls
<1>5. held'[s] = IF o = "ok" /\ ~now THEN 1 ELSE 0
  BY <1>1, <1>2 DEF More, Several, Counts
<1>6. \A t \in Sessions \ {s} : gifts'[t] = gifts[t] /\ held'[t] = held[t]
  BY <1>1, <1>2 DEF Counts
<1>7. /\ gifts'[s] + held'[s] <= 1
      /\ gifts'[s] > 0 \/ held'[s] > 0 => new.pc = "acknowledge" /\ new.session = s
  <2>1. gifts'[s] = 0
    BY <1>1, <1>2
  <2> QED BY <1>3, <1>4, <1>5, <2>1
<1> HIDE DEF new
<1> QED BY <1>1, <1>4, <1>6, <1>7, OnceMoves

LEMMA OnceCreatesGift ==
    ASSUME OnceInv, IInv', Orderly, NEW h \in Handlers, NEW o \in Outcomes, CreateGift(h, o)
    PROVE  OnceInv'
<1> DEFINE s == handler[h].session
           pc == IF o = "ok" THEN "acknowledge" ELSE "refuse"
           new == [handler[h] EXCEPT !.pc = pc]
<1>1. /\ handler[h].pc = "gift" /\ handler' = [handler EXCEPT ![h] = new]
      /\ gifts' = [gifts EXCEPT ![s] = More(@, o)]
      /\ UNCHANGED <<acked, held>> /\ o \in {"ok", "failed"}
  BY DEF CreateGift, Set, Go, At, Ends, Orderly, Thrown
<1>2. /\ handler[h] \in HandlerState /\ s \in Sessions /\ gifts[s] = 0 /\ held[s] = 0
      /\ gifts \in Counts
  BY <1>1, Busy, NothingYet DEF OnceInv, IInv, TypeOK
<1>3. new \in HandlerState /\ new.pc = pc /\ new.session = s
  BY <1>2 DEF HandlerState
<1>4. gifts'[s] = (IF o = "ok" THEN 1 ELSE 0) /\ held'[s] = 0
  BY <1>1, <1>2 DEF More, Several, Counts
<1>5. \A t \in Sessions \ {s} : gifts'[t] = gifts[t] /\ held'[t] = held[t]
  BY <1>1, <1>2 DEF Counts
<1>6. /\ gifts'[s] + held'[s] <= 1
      /\ gifts'[s] > 0 \/ held'[s] > 0 => new.pc = "acknowledge" /\ new.session = s
  BY <1>3, <1>4
<1> HIDE DEF new
<1> QED BY <1>1, <1>3, <1>5, <1>6, OnceMoves

LEMMA OnceAcknowledges ==
    ASSUME OnceInv, IInv', ~Timeouts, NEW h \in Handlers, NEW heard \in BOOLEAN,
           Acknowledge(h, heard)
    PROVE  OnceInv'
<1> DEFINE s == handler[h].session
<1>1. /\ handler \in [Handlers -> HandlerState] /\ handler' = [handler EXCEPT ![h] = Idle]
      /\ acked' = acked \cup {s} /\ UNCHANGED <<held, gifts>>
  BY DEF Acknowledge, Set, OnceInv, IInv, TypeOK
<1>2. handler'[h].session = NoSession /\ \A k \in Handlers \ {h} : handler'[k] = handler[k]
  BY <1>1 DEF Idle
<1>3. s \in Sessions /\ s # NoSession /\ NoSession \notin acked
  BY Busy, SessionsAssumption DEF Acknowledge, At, OnceInv, IInv, TypeOK
<1>4. GivenOrHeldOnce' /\ \A t : Ingested(t)' <=> Ingested(t)
  BY <1>1 DEF OnceInv, GivenOrHeldOnce, Ingested
<1>5. \A a, b \in Handlers :
          handler'[a].session = handler'[b].session => a = b \/ handler'[a].session = NoSession
  BY <1>2 DEF OnceInv
<1>6. \A k \in Handlers : handler'[k].session \notin acked'
  BY <1>1, <1>2, <1>3 DEF OnceInv
<1>7. ASSUME NEW t \in Sessions, Ingested(t)
      PROVE  t \in acked' \/ \E k \in Handlers : At(k, "acknowledge")' /\ handler'[k].session = t
  BY <1>1, <1>2, <1>7 DEF OnceInv, At
<1> QED BY <1>4, <1>5, <1>6, <1>7 DEF OnceInv

LEMMA MovedOn ==
    ASSUME NEW hs \in HandlerState, NEW pc, NEW identity
    PROVE  /\ [hs EXCEPT !.pc = pc].session = hs.session
           /\ [hs EXCEPT !.pc = pc, !.identity = identity].session = hs.session
BY DEF HandlerState

\* The steps of the service between the delivery and the answer that create
\* neither a row nor a gift.
LEMMA OnceGoesOn ==
    ASSUME OnceInv, IInv', NEW h \in Handlers,
           \/ \E o \in Outcomes : UpdateAgreement(h, o) \/ CreatePerson(h, o)
           \/ \E identity \in {"none", "weak", "strong"} : Lookup(h, identity)
           \/ SkipStaging(h) \/ Refuse(h)
    PROVE  OnceInv'
<1>1. /\ handler[h].pc \in {"agreement", "person", "lookup", "stage", "refuse"}
      /\ UNCHANGED <<acked, gifts, held>>
  BY DEF UpdateAgreement, CreatePerson, Lookup, SkipStaging, Refuse, At
<1>2. handler \in [Handlers -> HandlerState] /\ handler' \in [Handlers -> HandlerState]
  BY DEF OnceInv, IInv, TypeOK
<1>3. /\ handler' = [handler EXCEPT ![h] = handler'[h]]
      /\ handler'[h].session = handler[h].session \/ handler'[h].session = NoSession
  <2>1. PICK new : /\ handler' = [handler EXCEPT ![h] = new]
                   /\ new.session = handler[h].session \/ new.session = NoSession
    <3>1. handler[h] \in HandlerState
      BY <1>2
    <3>2. ASSUME NEW o \in Outcomes, UpdateAgreement(h, o)
          PROVE  \E new : /\ handler' = [handler EXCEPT ![h] = new]
                          /\ new.session = handler[h].session
      BY <3>1, <3>2, MovedOn DEF UpdateAgreement, Go, Set
    <3>3. ASSUME NEW o \in Outcomes, CreatePerson(h, o)
          PROVE  \E new : /\ handler' = [handler EXCEPT ![h] = new]
                          /\ new.session = handler[h].session
      <4>1. CASE o \in {"failed", "dropped"}
        BY <3>1, <3>3, <4>1, MovedOn, ZenonT(60) DEF CreatePerson, Go, Set
      <4>2. CASE o \notin {"failed", "dropped"}
        <5>1. handler' = [handler EXCEPT ![h] = [handler[h] EXCEPT !.pc = "stage",
                                                                  !.identity = "explicit"]]
          BY <3>3, <4>2 DEF CreatePerson, Set
        <5>2. [handler[h] EXCEPT !.pc = "stage", !.identity = "explicit"].session
                  = handler[h].session
          BY <3>1, MovedOn
        <5> QED BY <5>1, <5>2
      <4> QED BY <4>1, <4>2
    <3>4. ASSUME NEW identity \in {"none", "weak", "strong"}, Lookup(h, identity)
          PROVE  \E new : /\ handler' = [handler EXCEPT ![h] = new]
                          /\ new.session = handler[h].session
      <4> DEFINE pc == IF identity = "none" THEN "person" ELSE "stage"
      <4>1. handler' = [handler EXCEPT ![h] = [handler[h] EXCEPT !.pc = pc,
                                                                !.identity = identity]]
        BY <3>4 DEF Lookup, Set
      <4> HIDE DEF pc
      <4>2. [handler[h] EXCEPT !.pc = pc, !.identity = identity].session = handler[h].session
        BY <3>1, MovedOn
      <4> QED BY <4>1, <4>2
    <3>5. ASSUME SkipStaging(h)
          PROVE  \E new : /\ handler' = [handler EXCEPT ![h] = new]
                          /\ new.session = handler[h].session
      BY <3>1, <3>5, MovedOn DEF SkipStaging, Go, Set
    <3>6. Refuse(h) => handler' = [handler EXCEPT ![h] = Idle] /\ Idle.session = NoSession
      BY DEF Refuse, Set, Idle
    <3> QED BY <3>2, <3>3, <3>4, <3>5, <3>6
  <2> QED BY <1>2, <2>1
<1> QED BY <1>1, <1>2, <1>3, OnceQuiet

LEMMA OnceInitial == Init => OnceInv
BY Initial, SessionsAssumption
   DEF Init, OnceInv, GivenOrHeldOnce, Ingested, Idle

LEMMA OnceStep == Orderly /\ OnceInv /\ [Next]_vars => OnceInv'
<1> SUFFICES ASSUME Orderly, OnceInv, [Next]_vars PROVE OnceInv'
  OBVIOUS
<1>1. IInv'
  BY Step DEF OnceInv
<1>2. ~Timeouts /\ ~Restart
  BY DEF Orderly, Restart
<1>3. ASSUME NEW h \in Handlers, Advance(h)
      PROVE  OnceInv'
  BY <1>1, <1>2, <1>3, OnceStages, OnceCreatesGift, OnceAcknowledges, OnceGoesOn DEF Advance
<1>4. CASE UNCHANGED vars
  BY <1>1, <1>4 DEF vars, OnceInv, GivenOrHeldOnce, Ingested, At
<1> QED BY <1>1, <1>2, <1>3, <1>4, OnceDelivers DEF Next

\* A payment becomes one gift or one row to review, never both and never two
\* (StripeWebhookService, GiftService.createGift), for any sessions and deliveries:
\* on condition that a call that fails did nothing, that Stripe waits for the
\* answer and that the service does not crash, since nothing remembers an event.
THEOREM EachPaymentOnce ==
    ASSUME Orderly
    PROVE  Spec => []GivenOrHeldOnce
<1>1. OnceInv /\ [Next]_vars => OnceInv'
  BY OnceStep
<1>2. OnceInv => GivenOrHeldOnce
  BY DEF OnceInv
<1> QED BY <1>1, <1>2, OnceInitial, PTL DEF Spec
=============================================================================
