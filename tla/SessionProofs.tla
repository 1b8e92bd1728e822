--------------------------- MODULE SessionProofs ----------------------------
(***************************************************************************)
(* Theorems about Session, for any tabs and requests, whichever tab each   *)
(* request is of, any number of pairs and of calls of an operation.        *)
(***************************************************************************)
EXTENDS Session, TLAPS

LEMMA Numbers ==
    /\ MaxPairs \in Nat /\ Steps \in Nat /\ Steps > 0 /\ NoTab \notin Tabs
    /\ \A r \in Requests : TabOf[r] \in Tabs
BY ConstantsAssumption

\* What is at rest has written nothing.
LEMMA IdleRequest == Idle \in RequestState /\ WritesOnce(Idle) /\ Idle.pc = "idle"
BY Numbers DEF Idle, RequestState, WritesOnce

LEMMA SessionInitOK == Init => SessionInv
<1> SUFFICES ASSUME Init PROVE SessionInv
  OBVIOUS
<1>1. TypeOK
  BY Numbers, IdleRequest DEF Init, TypeOK, Pages, Pairs
<1>2. DoneTwiceOnlyIfCut
  BY Numbers DEF Init, DoneTwiceOnlyIfCut, Idle
<1> QED BY <1>1, <1>2, IdleRequest DEF Init, SessionInv

\* The state of a request never exceeds what it is allowed to do twice.
LEMMA CutOrOnce ==
    ASSUME NEW q \in RequestState, WritesOnce(q), q.written > Steps
    PROVE  q.cut
BY Numbers DEF RequestState, WritesOnce

\* What a request may be replaced by.
RequestOK(q, where) ==
    /\ q \in RequestState /\ WritesOnce(q)
    /\ where \in {"start", "welcome"} => q.pc = "idle"

\* A step keeps the invariant when each request, page and renewal is as it should
\* be after it.
LEMMA Assembled ==
    ASSUME pair' \in 0..MaxPairs, writer' \in Tabs \cup {NoTab}, page' \in [Tabs -> Pages],
           issued' \in 0..MaxPairs, access' \subseteq Pairs, refresh' \subseteq Pairs,
           pair' <= issued',
           request' = [r \in Requests |-> request'[r]],
           \A r \in Requests : RequestOK(request'[r], page'[TabOf[r]]),
           renewal' \in [Tabs -> Renewal \cup {None}],
           \A t \in Tabs :
               /\ page'[t] \in {"start", "welcome"} => renewal'[t] = None
               /\ renewal'[t] # None => RenewsItsPair(t, renewal[t])'
    PROVE  SessionInv'
<1>1. \A r \in Requests : request'[r] \in RequestState /\ WritesOnce(request'[r])
  BY DEF RequestOK
<1>2. TypeOK'
  <2>1. request' \in [Requests -> RequestState]
    BY <1>1
  <2> QED BY <2>1 DEF TypeOK
<1>3. DoneTwiceOnlyIfCut'
  BY <1>1, CutOrOnce DEF DoneTwiceOnlyIfCut
<1>4. \A r \in Requests : WritesOnce(request[r])'
  BY <1>1 DEF WritesOnce
<1>5. \A r \in Requests : page'[TabOf[r]] \in {"start", "welcome"} => request'[r].pc = "idle"
  BY DEF RequestOK
<1> QED BY <1>2, <1>3, <1>4, <1>5 DEF SessionInv
-----------------------------------------------------------------------------
(***************************************************************************)
(* One request at a time                                                   *)
(***************************************************************************)

\* What the invariant says of each request, page and renewal.
LEMMA Parts ==
    ASSUME SessionInv
    PROVE  /\ \A r \in Requests : RequestOK(request[r], page[TabOf[r]])
           /\ \A t \in Tabs : renewal[t] # None =>
                  /\ renewal[t] \in Renewal /\ RenewsItsPair(t, renewal[t])
                  /\ page[t] \notin {"start", "welcome"}
BY DEF SessionInv, TypeOK, RequestOK

\* A step that moves one request, and at most leaves the page or asks for a renewal
\* of the pair there is.
LEMMA RequestMoves ==
    ASSUME SessionInv, UNCHANGED <<pair, writer, issued, access, refresh>>,
           NEW r \in Requests, NEW new, request' = [request EXCEPT ![r] = new],
           RequestOK(new, page'[TabOf[r]]),
           page' \in [Tabs -> Pages],
           \A t \in Tabs : page'[t] = page[t] \/ page'[t] \notin {"start", "welcome"},
           renewal' \in [Tabs -> Renewal \cup {None}],
           \A t \in Tabs : \/ renewal'[t] = renewal[t]
                           \/ /\ page'[t] \notin {"start", "welcome"}
                              /\ RenewsItsPair(t, renewal'[t])
    PROVE  SessionInv'
<1>1. request \in [Requests -> RequestState]
  BY DEF SessionInv, TypeOK
<1>2. /\ request' = [s \in Requests |-> request'[s]]
      /\ \A s \in Requests : RequestOK(request'[s], page'[TabOf[s]])
  <2>1. ASSUME NEW s \in Requests
        PROVE  RequestOK(request'[s], page'[TabOf[s]])
    <3>1. CASE s = r
      BY <1>1, <3>1
    <3>2. CASE s # r
      <4>1. request'[s] = request[s] /\ RequestOK(request[s], page[TabOf[s]])
        BY <1>1, <3>2, Parts
      <4>2. \/ page'[TabOf[s]] = page[TabOf[s]]
            \/ page'[TabOf[s]] \notin {"start", "welcome"}
        BY Numbers
      <4> QED BY <4>1, <4>2 DEF RequestOK
    <3> QED BY <3>1, <3>2
  <2> QED BY <1>1, <2>1
<1>3. ASSUME NEW t \in Tabs
      PROVE  /\ page'[t] \in {"start", "welcome"} => renewal'[t] = None
             /\ renewal'[t] # None => RenewsItsPair(t, renewal[t])'
  <2>1. page[t] \in {"start", "welcome"} => renewal[t] = None
    BY DEF SessionInv
  <2>2. renewal[t] # None => RenewsItsPair(t, renewal[t])
    BY DEF SessionInv
  <2> QED BY <2>1, <2>2 DEF RenewsItsPair
<1>4. /\ pair' \in 0..MaxPairs /\ writer' \in Tabs \cup {NoTab} /\ issued' \in 0..MaxPairs
      /\ access' \subseteq Pairs /\ refresh' \subseteq Pairs /\ pair' <= issued'
  BY DEF SessionInv, TypeOK
<1> QED BY <1>2, <1>3, <1>4, Assembled

\* ... and nothing but the request.
LEMMA RequestOnly ==
    ASSUME SessionInv, UNCHANGED <<pair, writer, page, renewal, issued, access, refresh>>,
           NEW r \in Requests, NEW new, request' = [request EXCEPT ![r] = new],
           RequestOK(new, page[TabOf[r]])
    PROVE  SessionInv'
<1>1. page' \in [Tabs -> Pages] /\ renewal' \in [Tabs -> Renewal \cup {None}]
  BY DEF SessionInv, TypeOK
<1> QED BY <1>1, RequestMoves

\* A request is sent with the pair there is, from its beginning.
LEMMA SentFields ==
    ASSUME NEW q \in RequestState, q.sends \in 0..1, NEW pc \in {"sent", "repeated"},
           pair' \in 0..MaxPairs
    PROVE  /\ Sent(q, pc) \in RequestState
           /\ Sent(q, pc).pc = pc /\ Sent(q, pc).at = 0 /\ Sent(q, pc).sends = q.sends + 1
           /\ Sent(q, pc).written = q.written /\ Sent(q, pc).cut = q.cut
<1> DEFINE sends == q.sends + 1
<1>1. Sent(q, pc) = [q EXCEPT !.pc = pc, !.token = pair', !.at = 0, !.sends = sends]
  BY DEF Sent
<1>2. sends \in 0..2 /\ 0 \in 0..Steps
  BY Numbers
<1> HIDE DEF sends
<1> QED BY <1>1, <1>2 DEF RequestState, sends

LEMMA SendOK ==
    ASSUME SessionInv, NEW r \in Requests, Send(r)
    PROVE  SessionInv'
<1>1. request' = [request EXCEPT ![r] = Sent(Idle, "sent")]
  BY DEF Send
<1>2. pair' \in 0..MaxPairs
  BY DEF Send, SessionInv, TypeOK
<1>3. Idle.sends = 0 /\ Idle.written = 0
  BY DEF Idle
<1>4. Sent(Idle, "sent") \in RequestState /\ WritesOnce(Sent(Idle, "sent"))
  BY <1>2, <1>3, IdleRequest, SentFields DEF WritesOnce
<1>5. RequestOK(Sent(Idle, "sent"), page[TabOf[r]])
  BY <1>4 DEF RequestOK, Send
<1> QED BY <1>1, <1>5, RequestOnly DEF Send

LEMMA WriteOK ==
    ASSUME SessionInv, NEW r \in Requests, Write(r)
    PROVE  SessionInv'
<1> DEFINE q == request[r]
           new == [q EXCEPT !.at = q.at + 1, !.written = q.written + 1]
<1>1. /\ request' = [request EXCEPT ![r] = new]
      /\ q.pc \in {"sent", "repeated"} /\ q.at < Steps
      /\ UNCHANGED <<pair, writer, page, renewal, issued, access, refresh>>
  BY DEF Write
<1>2. q \in RequestState /\ WritesOnce(q) /\ page[TabOf[r]] \notin {"start", "welcome"}
  BY <1>1, Parts DEF RequestOK
<1>3. /\ new.pc = q.pc /\ new.at = q.at + 1 /\ new.written = q.written + 1
      /\ new.sends = q.sends /\ new.cut = q.cut
  BY <1>2 DEF RequestState
<1>4. q.at + 1 \in 0..Steps /\ q.written + 1 \in 0..2*Steps
  BY <1>1, <1>2, Numbers DEF RequestState, WritesOnce
<1>5. new \in RequestState
  BY <1>2, <1>4 DEF RequestState
<1>6. WritesOnce(new)
  <2>1. q.at \in Nat /\ q.written \in Nat
    BY <1>2, Numbers DEF RequestState
  <2> HIDE DEF new
  <2> QED BY <1>1, <1>2, <1>3, <2>1, Numbers DEF WritesOnce
<1> HIDE DEF new
<1> QED BY <1>1, <1>2, <1>5, <1>6, RequestOnly DEF RequestOK

LEMMA AnswerOK ==
    ASSUME SessionInv, NEW r \in Requests, Answer(r)
    PROVE  SessionInv'
<1>1. request' = [request EXCEPT ![r] = Idle]
  BY DEF Answer, AfterError
<1> QED BY <1>1, IdleRequest, RequestOnly DEF Answer, RequestOK

\* A request that is refused waits for a renewal, the first time, and ends at last.
LEMMA UnauthorizedOK ==
    ASSUME SessionInv, NEW r \in Requests, Unauthorized(r)
    PROVE  SessionInv'
<1> DEFINE t == TabOf[r]
           q == request[r]
           cut == q.cut \/ q.at > 0
           waiting == [q EXCEPT !.pc = "renewing", !.cut = cut]
<1>1. /\ t \in Tabs /\ page \in [Tabs -> Pages] /\ renewal \in [Tabs -> Renewal \cup {None}]
      /\ q.pc \in {"sent", "repeated"}
      /\ UNCHANGED <<issued, access, refresh>>
  BY Numbers DEF SessionInv, TypeOK, Unauthorized
<1>2. q \in RequestState /\ WritesOnce(q) /\ page[t] \notin {"start", "welcome"}
  BY <1>1, Parts DEF RequestOK
<1>3. \A where : RequestOK(Idle, where)
  BY IdleRequest DEF RequestOK
<1>4. q.pc = "sent" => RequestOK(waiting, page[t])
  <2> SUFFICES ASSUME q.pc = "sent" PROVE RequestOK(waiting, page[t])
    OBVIOUS
  <2>1. cut \in BOOLEAN /\ (cut \/ q.at = 0)
    BY <1>2, Numbers DEF RequestState
  <2> HIDE DEF cut
  <2>2. /\ waiting \in RequestState
        /\ waiting.pc = "renewing" /\ waiting.cut = cut
        /\ waiting.at = q.at /\ waiting.written = q.written /\ waiting.sends = q.sends
    BY <1>2, <2>1 DEF RequestState
  <2> HIDE DEF waiting
  <2>3. WritesOnce(waiting)
    BY <1>2, <2>1, <2>2 DEF WritesOnce
  <2> QED BY <1>2, <2>2, <2>3 DEF RequestOK
<1>5. CASE request' = [request EXCEPT ![r] = Idle] /\ UNCHANGED <<pair, writer, page, renewal>>
  BY <1>1, <1>3, <1>5, RequestOnly
<1>6. CASE /\ q.pc = "sent" /\ request' = [request EXCEPT ![r] = waiting]
           /\ UNCHANGED <<pair, writer, page, renewal>>
  <2> HIDE DEF waiting
  <2> QED BY <1>1, <1>4, <1>6, RequestOnly
<1>7. CASE /\ q.pc = "sent" /\ request' = [request EXCEPT ![r] = waiting]
           /\ pair # 0 /\ renewal' = Renewing(t)
           /\ UNCHANGED <<pair, writer, page>>
  <2> DEFINE n == [token |-> pair, answer |-> "pending", new |-> 0]
  <2>1. renewal' = [renewal EXCEPT ![t] = n]
    BY <1>7 DEF Renewing
  <2>2. n \in Renewal /\ RenewsItsPair(t, n)
    BY <1>7, Numbers DEF Renewal, Pairs, RenewsItsPair, SessionInv, TypeOK
  <2> HIDE DEF n, waiting
  <2>3. renewal' \in [Tabs -> Renewal \cup {None}]
    BY <1>1, <2>1, <2>2
  <2>4. \A u \in Tabs : \/ renewal'[u] = renewal[u]
                        \/ page'[u] \notin {"start", "welcome"} /\ RenewsItsPair(u, renewal'[u])
    BY <1>1, <1>2, <1>7, <2>1, <2>2
  <2> QED BY <1>1, <1>4, <1>7, <2>3, <2>4, RequestMoves
<1>8. CASE /\ request' = [request EXCEPT ![r] = Idle] /\ Show(t, "leaving")
           /\ UNCHANGED <<pair, writer, renewal>>
  <2>1. /\ page' \in [Tabs -> Pages]
        /\ \A u \in Tabs : page'[u] = page[u] \/ page'[u] \notin {"start", "welcome"}
    BY <1>1, <1>8 DEF Show, Pages
  <2> QED BY <1>1, <1>3, <1>8, <2>1, RequestMoves
<1>9. MayRepeat(q) => q.pc = "sent"
  BY DEF MayRepeat
<1> QED BY <1>5, <1>6, <1>7, <1>8, <1>9 DEF Unauthorized
-----------------------------------------------------------------------------
(***************************************************************************)
(* Pages                                                                   *)
(***************************************************************************)

\* What a step that leaves the cookie and Twenty alone keeps.
LEMMA Kept ==
    ASSUME SessionInv, UNCHANGED <<pair, writer, issued, access, refresh>>
    PROVE  /\ pair' \in 0..MaxPairs /\ writer' \in Tabs \cup {NoTab}
           /\ issued' \in 0..MaxPairs /\ access' \subseteq Pairs /\ refresh' \subseteq Pairs
           /\ pair' <= issued'
           /\ \A t \in Tabs, n \in Renewal : RenewsItsPair(t, n)' <=> RenewsItsPair(t, n)
BY DEF SessionInv, TypeOK, RenewsItsPair

LEMMA PageShown ==
    ASSUME SessionInv, NEW t \in Tabs, NEW p \in Pages, Show(t, p)
    PROVE  /\ page' \in [Tabs -> Pages] /\ page'[t] = p
           /\ \A u \in Tabs \ {t} : page'[u] = page[u]
BY DEF SessionInv, TypeOK, Show

\* A page that is left takes its requests and its renewal with it.
LEMMA Closed ==
    ASSUME SessionInv, NEW t \in Tabs, NEW p \in Pages, Show(t, p), Close(t),
           UNCHANGED <<pair, writer, issued, access, refresh>>
    PROVE  SessionInv'
<1>1. /\ page' \in [Tabs -> Pages]
      /\ \A u \in Tabs \ {t} : page'[u] = page[u]
  BY PageShown
<1>2. /\ request' = [r \in Requests |-> request'[r]]
      /\ \A r \in Requests : request'[r] = IF TabOf[r] = t THEN Idle ELSE request[r]
  BY DEF Close
<1>3. ASSUME NEW r \in Requests
      PROVE  RequestOK(request'[r], page'[TabOf[r]])
  <2>1. CASE TabOf[r] = t
    BY <1>2, <2>1, IdleRequest DEF RequestOK
  <2>2. CASE TabOf[r] # t
    <3>1. page'[TabOf[r]] = page[TabOf[r]] /\ request'[r] = request[r]
      BY <1>1, <1>2, <2>2, Numbers
    <3> QED BY <3>1, Parts
  <2> QED BY <2>1, <2>2
<1>4. /\ renewal' \in [Tabs -> Renewal \cup {None}] /\ renewal'[t] = None
      /\ \A u \in Tabs \ {t} : renewal'[u] = renewal[u]
  BY DEF Close, SessionInv, TypeOK
<1>5. ASSUME NEW u \in Tabs
      PROVE  /\ page'[u] \in {"start", "welcome"} => renewal'[u] = None
             /\ renewal'[u] # None => RenewsItsPair(u, renewal[u])'
  <2>1. CASE u = t
    BY <1>4, <2>1
  <2>2. CASE u # t
    BY <1>1, <1>4, <2>2, Parts DEF RenewsItsPair
  <2> QED BY <2>1, <2>2
<1> QED BY <1>1, <1>2, <1>3, <1>4, <1>5, Kept, Assembled

LEMMA LoadOK ==
    ASSUME SessionInv, NEW t \in Tabs, Load(t)
    PROVE  SessionInv'
<1>1. /\ page[t] = "start" /\ UNCHANGED <<pair, writer, request, issued, access, refresh>>
      /\ renewal[t] = None /\ renewal \in [Tabs -> Renewal \cup {None}]
  BY DEF Load, SessionInv, TypeOK
<1>2. PICK p \in {"welcome", "ready", "renewing"} :
          /\ Show(t, p)
          /\ \/ UNCHANGED renewal
             \/ pair # 0 /\ p = "renewing" /\ renewal' = Renewing(t)
  BY DEF Load
<1>3. /\ page' \in [Tabs -> Pages] /\ page'[t] = p
      /\ \A u \in Tabs \ {t} : page'[u] = page[u]
  BY <1>2, PageShown DEF Pages
<1>4. ASSUME NEW r \in Requests
      PROVE  RequestOK(request'[r], page'[TabOf[r]])
  <2>1. RequestOK(request[r], page[TabOf[r]]) /\ request'[r] = request[r]
    BY <1>1, Parts
  <2>2. page'[TabOf[r]] = page[TabOf[r]] \/ page[TabOf[r]] = "start"
    BY <1>1, <1>3, Numbers
  <2> QED BY <2>1, <2>2 DEF RequestOK
<1>5. request' = [r \in Requests |-> request'[r]]
  BY <1>1 DEF SessionInv, TypeOK
<1>6. CASE UNCHANGED renewal
  <2>1. ASSUME NEW u \in Tabs
        PROVE  /\ page'[u] \in {"start", "welcome"} => renewal'[u] = None
               /\ renewal'[u] # None => RenewsItsPair(u, renewal[u])'
    BY <1>1, <1>3, <1>6, Parts DEF RenewsItsPair
  <2> QED BY <1>1, <1>3, <1>4, <1>5, <1>6, <2>1, Kept, Assembled
<1>7. CASE pair # 0 /\ p = "renewing" /\ renewal' = Renewing(t)
  <2> DEFINE n == [token |-> pair, answer |-> "pending", new |-> 0]
  <2>1. renewal' = [renewal EXCEPT ![t] = n]
    BY <1>7 DEF Renewing
  <2>2. n \in Renewal /\ RenewsItsPair(t, n)
    BY <1>7, Numbers DEF Renewal, Pairs, RenewsItsPair, SessionInv, TypeOK
  <2> HIDE DEF n
  <2>3. /\ renewal' \in [Tabs -> Renewal \cup {None}] /\ renewal'[t] = n
        /\ \A u \in Tabs \ {t} : renewal'[u] = renewal[u]
    BY <1>1, <2>1, <2>2
  <2>4. ASSUME NEW u \in Tabs
        PROVE  /\ page'[u] \in {"start", "welcome"} => renewal'[u] = None
               /\ renewal'[u] # None => RenewsItsPair(u, renewal[u])'
    <3>1. CASE u = t
      BY <1>1, <1>3, <1>7, <2>2, <2>3, <3>1 DEF RenewsItsPair
    <3>2. CASE u # t
      BY <1>1, <1>3, <2>3, <3>2, Parts DEF RenewsItsPair
    <3> QED BY <3>1, <3>2
  <2> QED BY <1>1, <1>3, <1>4, <1>5, <2>3, <2>4, Kept, Assembled
<1> QED BY <1>2, <1>6, <1>7

LEMMA LeavesOK ==
    ASSUME SessionInv, NEW t \in Tabs, Leave(t) \/ Reload(t)
    PROVE  SessionInv'
BY Closed DEF Leave, Reload, Pages

-----------------------------------------------------------------------------
(***************************************************************************)
(* Renewals                                                                *)
(***************************************************************************)

\* A renewal ends: the tab may store another pair, and its requests that waited
\* are sent again or end.
LEMMA RenewalGone ==
    ASSUME SessionInv, NEW t \in Tabs, renewal[t] # None,
           renewal' = [renewal EXCEPT ![t] = None],
           UNCHANGED <<issued, access, refresh>>,
           pair' \in 0..MaxPairs, pair' <= issued,
           writer' = t \/ UNCHANGED <<pair, writer>>,
           page' \in [Tabs -> Pages], page'[t] \notin {"start", "welcome"},
           \A u \in Tabs \ {t} : page'[u] = page[u],
           request' = [r \in Requests |-> request'[r]],
           \A r \in Requests : \/ request'[r] = request[r]
                               \/ /\ TabOf[r] = t /\ request'[r] \in RequestState
                                  /\ WritesOnce(request'[r])
    PROVE  SessionInv'
<1>1. /\ renewal' \in [Tabs -> Renewal \cup {None}] /\ renewal'[t] = None
      /\ \A u \in Tabs \ {t} : renewal'[u] = renewal[u]
      /\ issued' \in 0..MaxPairs /\ access' \subseteq Pairs /\ refresh' \subseteq Pairs
      /\ pair' <= issued' /\ writer' \in Tabs \cup {NoTab}
  BY DEF SessionInv, TypeOK
<1>2. ASSUME NEW r \in Requests
      PROVE  RequestOK(request'[r], page'[TabOf[r]])
  <2>1. RequestOK(request[r], page[TabOf[r]])
    BY Parts
  <2>2. page'[TabOf[r]] = page[TabOf[r]] \/ page'[TabOf[r]] \notin {"start", "welcome"}
    BY Numbers
  <2>3. TabOf[r] = t => page'[TabOf[r]] \notin {"start", "welcome"}
    OBVIOUS
  <2> QED BY <2>1, <2>2, <2>3 DEF RequestOK
<1>3. ASSUME NEW u \in Tabs
      PROVE  /\ page'[u] \in {"start", "welcome"} => renewal'[u] = None
             /\ renewal'[u] # None => RenewsItsPair(u, renewal[u])'
  <2>1. CASE u = t
    BY <1>1, <2>1
  <2>2. CASE u # t
    BY <1>1, <2>2, Parts DEF RenewsItsPair
  <2> QED BY <2>1, <2>2
<1> QED BY <1>1, <1>2, <1>3, Assembled

LEMMA RenewedOK ==
    ASSUME SessionInv, NEW t \in Tabs, Renewed(t)
    PROVE  SessionInv'
<1> DEFINE p == IF page[t] = "renewing" THEN "ready" ELSE page[t]
<1>1. /\ renewal[t] # None /\ renewal[t].answer = "granted"
      /\ pair' = renewal[t].new /\ writer' = t
      /\ request' = [r \in Requests |->
             IF Waits(t, r) THEN Sent(request[r], "repeated") ELSE request[r]]
      /\ renewal' = [renewal EXCEPT ![t] = None] /\ Show(t, p)
      /\ UNCHANGED <<issued, access, refresh>>
  BY DEF Renewed, StoreFrom
<1>2. renewal[t] \in Renewal /\ page[t] \notin {"start", "welcome"} /\ page[t] \in Pages
  BY <1>1, Parts DEF SessionInv, TypeOK
<1>3. pair' \in 0..MaxPairs /\ pair' <= issued
  BY <1>1, <1>2, Parts DEF Renewal, RenewsItsPair
<1>4. p \in Pages /\ p \notin {"start", "welcome"}
  BY <1>2 DEF Pages
<1> HIDE DEF p
<1>5. /\ page' \in [Tabs -> Pages] /\ page'[t] = p
      /\ \A u \in Tabs \ {t} : page'[u] = page[u]
  BY <1>1, <1>4, PageShown
<1>6. ASSUME NEW r \in Requests, Waits(t, r)
      PROVE  /\ TabOf[r] = t /\ Sent(request[r], "repeated") \in RequestState
             /\ WritesOnce(Sent(request[r], "repeated"))
  <2> DEFINE q == request[r]
             new == Sent(q, "repeated")
  <2>1. q \in RequestState /\ WritesOnce(q) /\ q.pc = "renewing" /\ TabOf[r] = t
    BY <1>6, Parts DEF RequestOK, Waits
  <2>2. q.sends = 1 /\ q.written = q.at /\ (q.cut \/ q.at = 0) /\ q.at \in 0..Steps
    BY <2>1 DEF WritesOnce, RequestState
  <2>3. /\ new \in RequestState /\ new.pc = "repeated" /\ new.at = 0
        /\ new.written = q.written /\ new.cut = q.cut
    BY <1>3, <2>1, <2>2, SentFields
  <2> HIDE DEF new
  <2>4. WritesOnce(new)
    BY <2>2, <2>3, Numbers DEF WritesOnce
  <2> QED BY <2>1, <2>3, <2>4 DEF new
<1> QED BY <1>1, <1>3, <1>4, <1>5, <1>6, RenewalGone

\* Those that waited for a renewal that failed end.
LEMMA ReleasedOK ==
    ASSUME SessionInv, NEW t \in Tabs, NEW r \in Requests
    PROVE  \/ Released(t)[r] = request[r]
           \/ TabOf[r] = t /\ Released(t)[r] \in RequestState /\ WritesOnce(Released(t)[r])
BY IdleRequest DEF Released, Waits

LEMMA NotRenewedOK ==
    ASSUME SessionInv, NEW t \in Tabs, NotRenewed(t)
    PROVE  SessionInv'
<1>1. /\ renewal[t] # None /\ pair' = 0 /\ writer' = t /\ request' = Released(t)
      /\ renewal' = [renewal EXCEPT ![t] = None] /\ Show(t, "leaving")
      /\ UNCHANGED <<issued, access, refresh>>
  BY DEF NotRenewed, StoreFrom
<1>2. /\ page' \in [Tabs -> Pages] /\ page'[t] = "leaving"
      /\ \A u \in Tabs \ {t} : page'[u] = page[u]
  BY <1>1, PageShown DEF Pages
<1>3. pair' \in 0..MaxPairs /\ pair' <= issued
  BY <1>1, Numbers DEF SessionInv, TypeOK
<1>4. request' = [r \in Requests |-> request'[r]]
  BY <1>1 DEF Released
<1>5. \A r \in Requests : \/ request'[r] = request[r]
                          \/ /\ TabOf[r] = t /\ request'[r] \in RequestState
                             /\ WritesOnce(request'[r])
  BY <1>1, ReleasedOK
<1> QED BY <1>1, <1>2, <1>3, <1>4, <1>5, RenewalGone

LEMMA RenewalFailsOK ==
    ASSUME SessionInv, NEW t \in Tabs, RenewalFails(t)
    PROVE  SessionInv'
<1>1. /\ renewal[t] # None /\ request' = Released(t)
      /\ renewal' = [renewal EXCEPT ![t] = None]
      /\ UNCHANGED <<issued, access, refresh>>
  BY DEF RenewalFails
<1>2. /\ request' = [r \in Requests |-> request'[r]]
      /\ \A r \in Requests : \/ request'[r] = request[r]
                             \/ /\ TabOf[r] = t /\ request'[r] \in RequestState
                                /\ WritesOnce(request'[r])
  <2>1. request' = [r \in Requests |-> request'[r]]
    BY <1>1 DEF Released
  <2> QED BY <1>1, <2>1, ReleasedOK
<1>3. CASE StoreFrom(t, 0) /\ Show(t, "leaving")
  <2>1. /\ page' \in [Tabs -> Pages] /\ page'[t] = "leaving"
        /\ \A u \in Tabs \ {t} : page'[u] = page[u]
    BY <1>3, PageShown DEF Pages
  <2>2. pair' \in 0..MaxPairs /\ pair' <= issued /\ writer' = t
    BY <1>3, Numbers DEF StoreFrom, SessionInv, TypeOK
  <2> QED BY <1>1, <1>2, <2>1, <2>2, RenewalGone
<1>4. CASE UNCHANGED <<pair, writer, page>>
  <2>1. /\ page' \in [Tabs -> Pages] /\ page'[t] \notin {"start", "welcome"}
        /\ \A u \in Tabs \ {t} : page'[u] = page[u]
        /\ pair' \in 0..MaxPairs /\ pair' <= issued
    BY <1>1, <1>4, Parts DEF SessionInv, TypeOK
  <2> QED BY <1>1, <1>2, <1>4, <2>1, RenewalGone
<1> QED BY <1>3, <1>4 DEF RenewalFails
-----------------------------------------------------------------------------
(***************************************************************************)
(* Twenty                                                                  *)
(***************************************************************************)

\* A new pair is not one that a renewal was asked for, nor one that was refused.
LEMMA Issues ==
    ASSUME SessionInv, Issue
    PROVE  /\ issued' = issued + 1 /\ issued' \in 1..MaxPairs /\ issued' \in Pairs
           /\ access' \subseteq Pairs /\ pair <= issued' /\ issued' \in Nat /\ issued' > 0
<1>1. /\ issued \in 0..MaxPairs /\ issued < MaxPairs /\ issued' = issued + 1
      /\ access \subseteq Pairs /\ access' = access \cup {issued'}
      /\ pair \in 0..MaxPairs /\ pair <= issued
  BY DEF Issue, SessionInv, TypeOK
<1>2. issued' \in 1..MaxPairs /\ pair <= issued' /\ issued' \in Nat /\ issued' > 0
  BY <1>1, Numbers
<1> QED BY <1>1, <1>2 DEF Pairs

\* A step of Twenty or of the person that leaves requests alone and grants at most
\* tokens of a new pair.
LEMMA Grants ==
    ASSUME SessionInv, UNCHANGED request, issued' \in {issued, issued + 1}, issued' \in 0..MaxPairs,
           access' \subseteq Pairs, refresh' \subseteq Pairs,
           \A n \in refresh' : n \in refresh \/ n = issued + 1,
           pair' \in 0..MaxPairs, pair' <= issued',
           page' \in [Tabs -> Pages], renewal' \in [Tabs -> Renewal \cup {None}],
           \A u \in Tabs : \/ page'[u] = page[u]
                           \/ {page[u], page'[u]} \subseteq {"start", "welcome"},
           writer' \in Tabs \cup {NoTab},
           UNCHANGED <<pair, writer>> \/ renewal[writer'] = None,
           \A u \in Tabs : renewal'[u] # None =>
               /\ renewal[u] # None /\ renewal'[u].token = renewal[u].token
               /\ \/ renewal'[u] = renewal[u]
                  \/ /\ renewal'[u].answer = "granted"
                     /\ renewal'[u].new = issued' /\ issued' > 0
                  \/ /\ renewal'[u].answer = "refused" /\ renewal'[u].new <= issued
                     /\ Outages \/ renewal[u].token \notin refresh'
    PROVE  SessionInv'
<1>1. issued \in Nat /\ issued' \in Nat /\ issued <= issued'
  BY Numbers DEF SessionInv, TypeOK
<1>2. request' = [r \in Requests |-> request'[r]]
  BY DEF SessionInv, TypeOK
<1>3. ASSUME NEW r \in Requests
      PROVE  RequestOK(request'[r], page'[TabOf[r]])
  BY Parts, Numbers DEF RequestOK
<1>4. ASSUME NEW u \in Tabs, renewal'[u] # None
      PROVE  RenewsItsPair(u, renewal[u])' /\ page'[u] \notin {"start", "welcome"}
  <2> DEFINE n == renewal[u]
             m == renewal'[u]
  <2>1. /\ n \in Renewal /\ RenewsItsPair(u, n) /\ page[u] \notin {"start", "welcome"}
        /\ n # None /\ m \in Renewal /\ m.token = n.token
    BY <1>4, Parts
  <2>2. n.token \in Nat /\ n.new \in Nat /\ m.new \in Nat /\ n.token <= issued /\ n.new <= issued
    BY <2>1, Numbers DEF Renewal, Pairs, RenewsItsPair
  <2>3. m.token <= issued' /\ m.new <= issued'
    BY <1>1, <1>4, <2>2
  <2>4. m.answer = "granted" => m.new > 0
    BY <1>4, <2>1 DEF RenewsItsPair
  <2>5. m.answer = "refused" => Outages \/ m.token \notin refresh'
    BY <1>1, <1>4, <2>1, <2>2 DEF RenewsItsPair
  <2>6. writer' = u => pair' = m.token
    BY <1>4, <2>1 DEF RenewsItsPair
  <2> QED BY <1>4, <2>1, <2>3, <2>4, <2>5, <2>6 DEF RenewsItsPair
<1> QED BY <1>2, <1>3, <1>4, Assembled

LEMMA SignInOK ==
    ASSUME SessionInv, NEW t \in Tabs, SignIn(t)
    PROVE  SessionInv'
<1>1. /\ page[t] = "welcome" /\ Issue /\ refresh' = refresh \cup {issued'}
      /\ pair' = issued' /\ writer' = t /\ Show(t, "start")
      /\ UNCHANGED <<renewal, request>>
  BY DEF SignIn, StoreFrom
<1>2. /\ page' \in [Tabs -> Pages] /\ page'[t] = "start"
      /\ \A u \in Tabs \ {t} : page'[u] = page[u]
  BY <1>1, PageShown DEF Pages
<1>3. /\ renewal[t] = None /\ renewal \in [Tabs -> Renewal \cup {None}]
      /\ refresh \subseteq Pairs
  BY <1>1 DEF SessionInv, TypeOK
<1>4. /\ issued' = issued + 1 /\ issued' \in 0..MaxPairs /\ access' \subseteq Pairs
      /\ issued' \in Pairs /\ issued' <= issued'
  BY <1>1, Issues DEF Pairs
<1> QED BY <1>1, <1>2, <1>3, <1>4, Grants

LEMMA GrantOK ==
    ASSUME SessionInv, NEW t \in Tabs, Grant(t)
    PROVE  SessionInv'
<1> DEFINE n == renewal[t]
           m == [n EXCEPT !.answer = "granted", !.new = issued']
<1>1. /\ n # None /\ Issue /\ UNCHANGED <<pair, writer, page, request>>
      /\ renewal' = [renewal EXCEPT ![t] = m]
      /\ \A k \in refresh' : k \in refresh \/ k = issued'
  BY DEF Grant
<1>2. /\ issued' = issued + 1 /\ issued' \in 0..MaxPairs /\ access' \subseteq Pairs
      /\ issued' \in Pairs /\ issued' > 0 /\ pair <= issued'
  BY <1>1, Issues DEF Pairs
<1>3. n \in Renewal
  BY <1>1, Parts
<1>4. m \in Renewal /\ m.token = n.token /\ m.answer = "granted" /\ m.new = issued'
  BY <1>2, <1>3 DEF Renewal
<1> HIDE DEF m
<1>5. /\ renewal' \in [Tabs -> Renewal \cup {None}] /\ renewal'[t] = m
      /\ \A u \in Tabs \ {t} : renewal'[u] = renewal[u]
      /\ refresh' \subseteq Pairs /\ pair' \in 0..MaxPairs /\ writer' \in Tabs \cup {NoTab}
      /\ page' \in [Tabs -> Pages]
  BY <1>1, <1>2, <1>4 DEF SessionInv, TypeOK
<1>6. ASSUME NEW u \in Tabs, renewal'[u] # None
      PROVE  /\ renewal[u] # None /\ renewal'[u].token = renewal[u].token
             /\ \/ renewal'[u] = renewal[u]
                \/ renewal'[u].answer = "granted" /\ renewal'[u].new = issued' /\ issued' > 0
  BY <1>1, <1>2, <1>4, <1>5, <1>6
<1>7. pair' <= issued' /\ issued' \in {issued, issued + 1}
  BY <1>1, <1>2
<1>8. \A k \in refresh' : k \in refresh \/ k = issued + 1
  BY <1>1, <1>2
<1> QED BY <1>1, <1>2, <1>5, <1>6, <1>7, <1>8, Grants

LEMMA RefuseOK ==
    ASSUME SessionInv, NEW t \in Tabs, Refuse(t)
    PROVE  SessionInv'
<1> DEFINE n == renewal[t]
           m == [n EXCEPT !.answer = "refused"]
<1>1. /\ n # None /\ renewal' = [renewal EXCEPT ![t] = m]
      /\ Outages \/ n.token \notin refresh
      /\ UNCHANGED <<pair, writer, page, request, issued, access, refresh>>
  BY DEF Refuse
<1>2. n \in Renewal /\ n.new <= issued
  BY <1>1, Parts DEF RenewsItsPair
<1>3. m \in Renewal /\ m.token = n.token /\ m.answer = "refused" /\ m.new = n.new
  BY <1>2 DEF Renewal
<1> HIDE DEF m
<1>4. /\ renewal' \in [Tabs -> Renewal \cup {None}] /\ renewal'[t] = m
      /\ \A u \in Tabs \ {t} : renewal'[u] = renewal[u]
      /\ access' \subseteq Pairs /\ refresh' \subseteq Pairs
      /\ pair' \in 0..MaxPairs /\ pair' <= issued' /\ writer' \in Tabs \cup {NoTab}
      /\ page' \in [Tabs -> Pages] /\ issued' \in 0..MaxPairs
  BY <1>1, <1>3 DEF SessionInv, TypeOK
<1>5. ASSUME NEW u \in Tabs, renewal'[u] # None
      PROVE  /\ renewal[u] # None /\ renewal'[u].token = renewal[u].token
             /\ \/ renewal'[u] = renewal[u]
                \/ /\ renewal'[u].answer = "refused" /\ renewal'[u].new <= issued
                   /\ Outages \/ renewal[u].token \notin refresh'
  BY <1>1, <1>2, <1>3, <1>4, <1>5
<1> QED BY <1>1, <1>4, <1>5, Grants

LEMMA ExpireOK ==
    ASSUME SessionInv, Expire
    PROVE  SessionInv'
<1>1. /\ access' \subseteq access /\ refresh' \subseteq refresh
      /\ UNCHANGED <<pair, writer, page, renewal, request, issued>>
  BY DEF Expire
<1>2. /\ access' \subseteq Pairs /\ refresh' \subseteq Pairs
      /\ pair' \in 0..MaxPairs /\ pair' <= issued' /\ writer' \in Tabs \cup {NoTab}
      /\ page' \in [Tabs -> Pages] /\ issued' \in 0..MaxPairs
      /\ renewal' \in [Tabs -> Renewal \cup {None}]
  BY <1>1 DEF SessionInv, TypeOK
<1> QED BY <1>1, <1>2, Grants

LEMMA SessionStepOK == SessionInv /\ [Next]_vars => SessionInv'
<1> SUFFICES ASSUME SessionInv, [Next]_vars PROVE SessionInv'
  OBVIOUS
<1>1. ASSUME NEW t \in Tabs, RenewalEnds(t)
      PROVE  SessionInv'
  BY <1>1, RenewedOK, NotRenewedOK, RenewalFailsOK DEF RenewalEnds
<1>2. ASSUME NEW r \in Requests, Served(r)
      PROVE  SessionInv'
  BY <1>2, UnauthorizedOK, WriteOK, AnswerOK DEF Served
<1>3. CASE UNCHANGED vars
  BY <1>3 DEF vars, SessionInv, TypeOK, DoneTwiceOnlyIfCut, RenewsItsPair
<1> QED
  BY <1>1, <1>2, <1>3, LoadOK, LeavesOK, SignInOK, GrantOK, RefuseOK, SendOK, ExpireOK
     DEF Next

-----------------------------------------------------------------------------
\* In every reachable state, for any tabs and requests in progress, the types are
\* right, a request is sent twice at most, and each renewal is of the pair in the
\* cookie unless another tab has replaced it (fetchJson, AuthGate).
THEOREM SessionInvariance == Spec => []SessionInv
BY SessionInitOK, SessionStepOK, PTL DEF Spec

\* What a request writes is written a second time only if the access token expired
\* between two calls of the service to Twenty, so that it was refused half-way and
\* repeated with a new token (fetchJson repeats on 401).
THEOREM RepeatsOnlyWhatWasCut == Spec => []DoneTwiceOnlyIfCut
<1>1. SessionInv => DoneTwiceOnlyIfCut
  BY DEF SessionInv
<1> QED BY <1>1, SessionInvariance, PTL

\* As long as Twenty refuses only renewals with a token it does not take any more,
\* the pair in the cookie is given up only if it could not be renewed, if the
\* network failed while a page was loaded, or if another tab had stored it since
\* the renewal was asked for (setTokenPair, clearTokenPair).
THEOREM PairIsGivenUpForAReason ==
    ASSUME ~Outages
    PROVE  Spec => SessionIsKept
<1> DEFINE Given ==
        pair # 0 /\ pair' = 0 =>
           \/ pair \notin refresh
           \/ \E t \in Tabs : \/ page[t] = "renewing"
                              \/ /\ writer # t
                                 /\ renewal[t] # None
                                 /\ renewal[t].answer = "refused"
<1>1. SessionInv /\ [Next]_vars => [Given]_vars
  <2> SUFFICES ASSUME SessionInv, Next, pair # 0, pair' = 0
               PROVE  \/ pair \notin refresh
                      \/ \E t \in Tabs : \/ page[t] = "renewing"
                                         \/ /\ writer # t
                                            /\ renewal[t] # None
                                            /\ renewal[t].answer = "refused"
    OBVIOUS
  <2>1. ASSUME NEW t \in Tabs, Renewed(t) PROVE FALSE
    <3>1. renewal[t] # None /\ renewal[t].answer = "granted" /\ pair' = renewal[t].new
      BY <2>1 DEF Renewed, StoreFrom
    <3>2. renewal[t].new > 0
      BY <3>1, Parts DEF RenewsItsPair
    <3> QED BY <3>1, <3>2
  <2>2. ASSUME NEW t \in Tabs, SignIn(t) PROVE FALSE
    <3>1. pair' = issued' /\ Issue
      BY <2>2 DEF SignIn, StoreFrom
    <3>2. issued' > 0
      BY <3>1, Issues
    <3> QED BY <3>1, <3>2
  <2>3. ASSUME NEW t \in Tabs, NotRenewed(t)
        PROVE  \/ pair \notin refresh
               \/ writer # t /\ renewal[t] # None /\ renewal[t].answer = "refused"
    <3>1. renewal[t] # None /\ renewal[t].answer = "refused"
      BY <2>3 DEF NotRenewed
    <3>2. RenewsItsPair(t, renewal[t])
      BY <3>1, Parts
    <3> QED BY <3>1, <3>2 DEF RenewsItsPair
  <2>4. ASSUME NEW t \in Tabs, RenewalFails(t)
        PROVE  page[t] = "renewing"
    BY <2>4 DEF RenewalFails, GivesUp
  <2>5. \/ \E t \in Tabs : \/ Renewed(t) \/ SignIn(t) \/ NotRenewed(t) \/ RenewalFails(t)
                           \/ Load(t) \/ Leave(t) \/ Reload(t) \/ Grant(t) \/ Refuse(t)
        \/ \E r \in Requests : Send(r) \/ Unauthorized(r) \/ Write(r) \/ Answer(r)
        \/ Expire
    BY DEF Next, RenewalEnds, Served
  <2>6. ASSUME NEW t \in Tabs, Load(t) \/ Leave(t) \/ Reload(t) \/ Grant(t) \/ Refuse(t)
        PROVE  pair' = pair
    BY <2>6 DEF Load, Leave, Reload, Grant, Refuse
  <2>7. ASSUME NEW r \in Requests, Send(r) \/ Unauthorized(r) \/ Write(r) \/ Answer(r)
        PROVE  pair' = pair
    BY <2>7 DEF Send, Unauthorized, Write, Answer
  <2>8. Expire => pair' = pair
    BY DEF Expire
  <2> QED BY <2>1, <2>2, <2>3, <2>4, <2>5, <2>6, <2>7, <2>8
<1> QED BY <1>1, SessionInvariance, PTL DEF Spec, SessionIsKept
=============================================================================
