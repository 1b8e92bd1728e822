------------------------------ MODULE Session ------------------------------
(***************************************************************************)
(* Sessions of the client: a pair of tokens in a cookie that all tabs of   *)
(* the browser share, AuthGate, which looks at it when a page is loaded,   *)
(* and fetchJson, which renews it when a request is answered 401 and sends *)
(* the request once more.                                                  *)
(*                                                                         *)
(* The service hands the access token of a request to every call it makes  *)
(* to Twenty, and answers 401 if Twenty does: also half-way through an     *)
(* operation of several calls.                                             *)
(*                                                                         *)
(* Pairs are numbered in the order in which Twenty issues them.            *)
(***************************************************************************)
EXTENDS Naturals

CONSTANTS
    Tabs,
    Requests,   \* slots for requests in progress
    TabOf,      \* the tab of each slot
    MaxPairs,   \* bound on the pairs issued
    Steps,      \* calls of an operation that write
    Rotates,    \* whether Twenty takes a refresh token only once
    Outages,    \* whether Twenty may refuse a renewal for another reason
    NoTab, None

ASSUME ConstantsAssumption ==
    /\ MaxPairs \in Nat /\ Steps \in Nat \ {0}
    /\ TabOf \in [Requests -> Tabs]
    /\ Rotates \in BOOLEAN /\ Outages \in BOOLEAN
    /\ NoTab \notin Tabs

VARIABLES
    pair,      \* the cookie; 0 when there is none
    writer,    \* the tab that wrote it last
    page,      \* what each tab shows
    renewal,   \* refreshPromise of each tab
    request,   \* the requests in progress
    issued,    \* pairs issued so far
    access,    \* pairs whose access token Twenty accepts
    refresh    \* pairs whose refresh token Twenty accepts

vars == <<pair, writer, page, renewal, request, issued, access, refresh>>

Pairs == 1..MaxPairs

Pages == {"start", "renewing", "ready", "leaving", "welcome"}

\* The token it presented, and the pair it is granted.
Renewal == [token : Pairs, answer : {"pending", "granted", "refused"},
            new : 0..MaxPairs]

RequestState ==
    [pc      : {"idle", "sent", "renewing", "repeated"},
     token   : 0..MaxPairs,
     at      : 0..Steps,       \* writes done for this sending
     written : 0..2*Steps,     \* and for all of them
     sends   : 0..2,
     cut     : BOOLEAN]        \* refused after a write

Idle == [pc |-> "idle", token |-> 0, at |-> 0, written |-> 0,
         sends |-> 0, cut |-> FALSE]

Init ==
    /\ pair = 0
    /\ writer = NoTab
    /\ page = [t \in Tabs |-> "start"]
    /\ renewal = [t \in Tabs |-> None]
    /\ request = [r \in Requests |-> Idle]
    /\ issued = 0
    /\ access = {}
    /\ refresh = {}

-----------------------------------------------------------------------------
(* The client. *)

StoreFrom(t, n) == pair' = n /\ writer' = t

Renewing(t) == [renewal EXCEPT ![t] =
                   [token |-> pair, answer |-> "pending", new |-> 0]]

Show(t, p) == page' = [page EXCEPT ![t] = p]

Close(t) ==
    /\ renewal' = [renewal EXCEPT ![t] = None]
    /\ request' = [r \in Requests |-> IF TabOf[r] = t THEN Idle ELSE request[r]]

\* Without a pair the service redirects to /welcome; else AuthGate decides, by
\* the clock of the browser, whether the access token is still good.
Load(t) ==
    /\ page[t] = "start"
    /\ \/ pair = 0 /\ Show(t, "welcome") /\ UNCHANGED renewal
       \/ pair # 0 /\ Show(t, "ready") /\ UNCHANGED renewal
       \/ pair # 0 /\ Show(t, "renewing") /\ renewal' = Renewing(t)
    /\ UNCHANGED <<pair, writer, request, issued, access, refresh>>

Sent(q, pc) == [q EXCEPT !.pc = pc, !.token = pair', !.at = 0,
                         !.sends = @ + 1]

Send(r) ==
    /\ page[TabOf[r]] = "ready"
    /\ request[r].pc = "idle"
    /\ UNCHANGED <<pair, writer, page, renewal, issued, access, refresh>>
    /\ request' = [request EXCEPT ![r] = Sent(Idle, "sent")]

\* Mistake: the request that was repeated is repeated again.
BugMayRepeat(q) == TRUE

\* not hasRefreshed
MayRepeat(q) == q.pc = "sent"

\* 401.  A renewal in flight is joined; without a pair the person has to sign
\* in again.
Unauthorized(r) ==
    LET t == TabOf[r]
        q == request[r]
        waiting == [q EXCEPT !.pc = "renewing", !.cut = @ \/ q.at > 0]
    IN /\ q.pc \in {"sent", "repeated"}
       /\ q.at < Steps
       /\ q.token \notin access
       /\ \/ /\ ~MayRepeat(q)
             /\ request' = [request EXCEPT ![r] = Idle]
             /\ UNCHANGED <<pair, writer, page, renewal>>
          \/ /\ MayRepeat(q)
             /\ renewal[t] # None
             /\ request' = [request EXCEPT ![r] = waiting]
             /\ UNCHANGED <<pair, writer, page, renewal>>
          \/ /\ MayRepeat(q)
             /\ renewal[t] = None /\ pair # 0
             /\ request' = [request EXCEPT ![r] = waiting]
             /\ renewal' = Renewing(t)
             /\ UNCHANGED <<pair, writer, page>>
          \/ /\ MayRepeat(q)
             /\ renewal[t] = None /\ pair = 0
             /\ request' = [request EXCEPT ![r] = Idle]
             /\ Show(t, "leaving")
             /\ UNCHANGED <<pair, writer, renewal>>
       /\ UNCHANGED <<issued, access, refresh>>

Waits(t, r) == TabOf[r] = t /\ request[r].pc = "renewing"

\* Every request that waited stores the pair and is sent again.
Renewed(t) ==
    /\ renewal[t] # None
    /\ renewal[t].answer = "granted"
    /\ StoreFrom(t, renewal[t].new)
    /\ request' = [r \in Requests |->
           IF Waits(t, r) THEN Sent(request[r], "repeated") ELSE request[r]]
    /\ renewal' = [renewal EXCEPT ![t] = None]
    /\ Show(t, IF page[t] = "renewing" THEN "ready" ELSE page[t])
    /\ UNCHANGED <<issued, access, refresh>>

\* Mistake: requests that wait are told of a renewal that succeeds only.
BugReleased(t) == request

Released(t) == [r \in Requests |-> IF Waits(t, r) THEN Idle ELSE request[r]]

NotRenewed(t) ==
    /\ renewal[t] # None
    /\ renewal[t].answer = "refused"
    /\ StoreFrom(t, 0)
    /\ request' = Released(t)
    /\ renewal' = [renewal EXCEPT ![t] = None]
    /\ Show(t, "leaving")
    /\ UNCHANGED <<issued, access, refresh>>

\* Mistake: a renewal that fails is taken for one that is refused.
BugGivesUp(t) == TRUE

\* Only AuthGate signs out when the network fails.
GivesUp(t) == page[t] = "renewing"

RenewalFails(t) ==
    /\ renewal[t] # None
    /\ \/ /\ GivesUp(t)
          /\ StoreFrom(t, 0)
          /\ Show(t, "leaving")
       \/ /\ ~GivesUp(t)
          /\ UNCHANGED <<pair, writer, page>>
    /\ request' = Released(t)
    /\ renewal' = [renewal EXCEPT ![t] = None]
    /\ UNCHANGED <<issued, access, refresh>>

\* The navigation that redirectToSignIn asked for.
Leave(t) ==
    /\ page[t] = "leaving"
    /\ Show(t, "welcome")
    /\ Close(t)
    /\ UNCHANGED <<pair, writer, issued, access, refresh>>

\* The person reloads the page, or comes back to it.
Reload(t) ==
    /\ Show(t, "start")
    /\ Close(t)
    /\ UNCHANGED <<pair, writer, issued, access, refresh>>

-----------------------------------------------------------------------------
(* The service: one operation, several calls. *)

Write(r) ==
    LET q == request[r]
    IN /\ q.pc \in {"sent", "repeated"}
       /\ q.at < Steps
       /\ q.token \in access
       /\ request' = [request EXCEPT ![r] =
              [q EXCEPT !.at = @ + 1, !.written = @ + 1]]
       /\ UNCHANGED <<pair, writer, page, renewal, issued, access, refresh>>

\* Mistake: a request whose answer was lost is sent again as well.
BugAfterError(q) == IF q.pc = "sent" THEN Sent(q, "repeated") ELSE Idle

AfterError(q) == Idle

\* Answered, with success or any error but 401; or the answer is lost.
Answer(r) ==
    LET q == request[r]
    IN /\ q.pc \in {"sent", "repeated"}
       /\ UNCHANGED <<pair, writer, page, renewal, issued, access, refresh>>
       /\ \E q2 \in {Idle, AfterError(q)} :
              request' = [request EXCEPT ![r] = q2]

-----------------------------------------------------------------------------
(* Twenty. *)

Issue ==
    /\ issued < MaxPairs
    /\ issued' = issued + 1
    /\ access' = access \cup {issued'}

SignIn(t) ==
    /\ page[t] = "welcome"
    /\ Issue
    /\ refresh' = refresh \cup {issued'}
    /\ StoreFrom(t, issued')
    /\ Show(t, "start")
    /\ UNCHANGED <<renewal, request>>

Grant(t) ==
    /\ renewal[t] # None
    /\ renewal[t].answer = "pending"
    /\ renewal[t].token \in refresh
    /\ Issue
    /\ refresh' = (IF Rotates THEN refresh \ {renewal[t].token} ELSE refresh)
                  \cup {issued'}
    /\ renewal' = [renewal EXCEPT ![t].answer = "granted", ![t].new = issued']
    /\ UNCHANGED <<pair, writer, page, request>>

Refuse(t) ==
    /\ renewal[t] # None
    /\ renewal[t].answer = "pending"
    /\ Outages \/ renewal[t].token \notin refresh
    /\ renewal' = [renewal EXCEPT ![t].answer = "refused"]
    /\ UNCHANGED <<pair, writer, page, request, issued, access, refresh>>

\* Tokens of a kind have the same lifetime: the oldest goes first.
Oldest(tokens) == {n \in tokens : \A m \in tokens : n <= m}

Expire ==
    /\ \/ /\ access # {}
          /\ access' = access \ Oldest(access)
          /\ UNCHANGED refresh
       \/ /\ refresh # {}
          /\ refresh' = refresh \ Oldest(refresh)
          /\ UNCHANGED access
    /\ UNCHANGED <<pair, writer, page, renewal, request, issued>>

-----------------------------------------------------------------------------
Served(r) == Unauthorized(r) \/ Write(r) \/ Answer(r)

RenewalEnds(t) == Renewed(t) \/ NotRenewed(t) \/ RenewalFails(t)

Next ==
    \/ \E t \in Tabs :
           \/ Load(t) \/ Leave(t) \/ Reload(t) \/ SignIn(t)
           \/ Grant(t) \/ Refuse(t) \/ RenewalEnds(t)
    \/ \E r \in Requests : Send(r) \/ Served(r)
    \/ Expire

Spec == Init /\ [][Next]_vars

\* The service and Twenty answer, or the browser reports that they do not.
FairSpec == /\ Spec
            /\ \A t \in Tabs : WF_vars(RenewalEnds(t))
            /\ \A r \in Requests : WF_vars(Served(r))

-----------------------------------------------------------------------------
\* The types; a request is sent twice at most.
TypeOK ==
    /\ pair \in 0..MaxPairs
    /\ writer \in Tabs \cup {NoTab}
    /\ page \in [Tabs -> Pages]
    /\ renewal \in [Tabs -> Renewal \cup {None}]
    /\ request \in [Requests -> RequestState]
    /\ issued \in 0..MaxPairs
    /\ access \subseteq Pairs
    /\ refresh \subseteq Pairs

\* What a request does is done twice only if its token expired half-way.
DoneTwiceOnlyIfCut ==
    \A r \in Requests :
        request[r].written > Steps => request[r].cut

\* A tab gives up a pair that Twenty would still renew only if the network
\* failed while a page was loaded, or if another tab has stored that pair
\* behind its back.
SessionIsKept ==
    [][pair # 0 /\ pair' = 0 =>
           \/ pair \notin refresh
           \/ \E t \in Tabs : \/ page[t] = "renewing"
                              \/ /\ writer # t
                                 /\ renewal[t] # None
                                 /\ renewal[t].answer = "refused"]_vars

\* What a request has written is of this sending, or it was cut, and its first
\* sending wrote the rest.
WritesOnce(q) ==
    /\ q.pc = "idle" => q.written = 0
    /\ q.pc \in {"sent", "renewing"} => q.sends = 1 /\ q.written = q.at
    /\ q.pc = "renewing" => q.cut \/ q.at = 0
    /\ q.pc = "repeated" => q.written <= q.at + Steps /\ (q.cut \/ q.written = q.at)

\* The pair is still the one that a renewal was asked for, unless another tab has
\* stored one meanwhile; and a token that Twenty refused is good for nothing.
RenewsItsPair(t, n) ==
    /\ n.token <= issued /\ n.new <= issued
    /\ n.answer = "granted" => n.new > 0
    /\ n.answer = "refused" => Outages \/ n.token \notin refresh
    /\ writer = t => pair = n.token

\* Why these hold.  Nothing is under way in a page that is not there yet.
SessionInv ==
    /\ TypeOK
    /\ DoneTwiceOnlyIfCut
    /\ pair <= issued
    /\ \A r \in Requests :
           /\ WritesOnce(request[r])
           /\ page[TabOf[r]] \in {"start", "welcome"} => request[r].pc = "idle"
    /\ \A t \in Tabs :
           /\ page[t] \in {"start", "welcome"} => renewal[t] = None
           /\ renewal[t] # None => RenewsItsPair(t, renewal[t])

\* Whatever Twenty answers, a request ends, and so does a page that waits for a
\* renewal: neither waits for one that is not there, and there is no endless
\* round of renewals.
WaitingEnds ==
    /\ \A r \in Requests : request[r].pc # "idle" ~> request[r].pc = "idle"
    /\ \A t \in Tabs : page[t] = "renewing" ~> page[t] # "renewing"
=============================================================================
