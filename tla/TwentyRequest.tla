--------------------------- MODULE TwentyRequest ---------------------------
(***************************************************************************)
(* TwentyApiService.request: one call of Twenty's REST API, with its       *)
(* retries.  Each attempt is a message of its own: the caller may give it  *)
(* up while it is still on its way, and Twenty may carry it out afterwards.*)
(*                                                                         *)
(* GiftStaging makes every one of its calls through this loop and sees     *)
(* what TwentyCall says of it.                                             *)
(***************************************************************************)
EXTENDS Naturals, FiniteSets

CONSTANT MaxAttempts \* maxAttempts

ASSUME AttemptsAssumption == MaxAttempts \in Nat \ {0}

Attempts == 1 .. MaxAttempts

VARIABLES
    pc,      \* where request() is
    attempt, \* the loop's counter
    fate,    \* what became of each attempt at Twenty
    answer,  \* how each attempt ended for the caller
    outcome  \* what the caller gets

vars == <<pc, attempt, fate, answer, outcome>>

Returned == {"value", "empty"}
Thrown == {"unparsable", "http_error", "body_lost", "unreachable", "not_configured"}

TypeOK ==
    /\ pc \in {"start", "send", "await", "read", "pause", "over"}
    /\ attempt \in Attempts
    /\ fate \in [Attempts -> {"unsent", "underway", "applied", "refused", "lost"}]
    /\ answer \in [Attempts -> {"none", "ok", "retryable", "final", "network"}]
    /\ outcome \in {"none"} \cup Returned \cup Thrown

Init ==
    /\ pc = "start"
    /\ attempt = 1
    /\ fate = [a \in Attempts |-> "unsent"]
    /\ answer = [a \in Attempts |-> "none"]
    /\ outcome = "none"

-----------------------------------------------------------------------------
Finish(o) == pc' = "over" /\ outcome' = o

\* The user's token or TWENTY_API_KEY; with neither there is no call.
Begin ==
    /\ pc = "start"
    /\ \/ pc' = "send" /\ UNCHANGED outcome
       \/ Finish("not_configured")
    /\ UNCHANGED <<attempt, fate, answer>>

Send ==
    /\ pc = "send"
    /\ pc' = "await"
    /\ fate' = [fate EXCEPT ![attempt] = "underway"]
    /\ UNCHANGED <<attempt, answer, outcome>>

\* Whether or not another attempt follows.
Retryable == attempt < MaxAttempts

\* fetch() throws: the request may have been carried out, or be on its way.
NetworkError ==
    /\ pc = "await"
    /\ answer' = [answer EXCEPT ![attempt] = "network"]
    /\ IF Retryable THEN pc' = "pause" /\ UNCHANGED outcome
       ELSE Finish("unreachable")
    /\ UNCHANGED <<attempt, fate>>

\* Status and headers of a response.  A success says that Twenty carried the
\* request out, a final refusal that it did not; 429 and 5xx say nothing.
Respond(status) ==
    /\ pc = "await"
    /\ status = "ok" => fate[attempt] = "applied"
    /\ status = "final" => fate[attempt] = "refused"
    /\ answer' = [answer EXCEPT ![attempt] = status]
    /\ pc' = "read"
    /\ UNCHANGED <<attempt, fate, outcome>>

\* response.text() stands outside the try block: its failure ends the call,
\* whatever the status was.
LoseBody ==
    /\ pc = "read"
    /\ Finish("body_lost")
    /\ UNCHANGED <<attempt, fate, answer>>

BugParsed(body) ==
    IF body = "unparsable" /\ Retryable THEN pc' = "pause" /\ UNCHANGED outcome
    ELSE Finish(body)

\* An unreadable body breaks out of the loop; an empty one is a success.
Parsed(body) == Finish(body)

BugRejected ==
    IF Retryable THEN pc' = "pause" /\ UNCHANGED outcome ELSE Finish("empty")

\* shouldRetry
Rejected ==
    IF answer[attempt] = "retryable" /\ Retryable
    THEN pc' = "pause" /\ UNCHANGED outcome
    ELSE Finish("http_error")

ReadBody(body) ==
    /\ pc = "read"
    /\ IF answer[attempt] = "ok" THEN Parsed(body) ELSE Rejected
    /\ UNCHANGED <<attempt, fate, answer>>

BugPause ==
    /\ pc = "pause"
    /\ pc' = "send"
    /\ UNCHANGED <<attempt, fate, answer, outcome>>

\* The delay, Retry-After or the next of retryDelaysMs, and the next round.
Pause ==
    /\ pc = "pause"
    /\ pc' = "send"
    /\ attempt' = attempt + 1
    /\ UNCHANGED <<fate, answer, outcome>>

\* Twenty and the network, at any time, also after the caller gave up.
Settle(a, f) ==
    /\ fate[a] = "underway"
    /\ fate' = [fate EXCEPT ![a] = f]
    /\ UNCHANGED <<pc, attempt, answer, outcome>>

Proceed ==
    \/ Begin
    \/ Send
    \/ NetworkError
    \/ \E status \in {"ok", "retryable", "final"} : Respond(status)
    \/ LoseBody
    \/ \E body \in {"value", "empty", "unparsable"} : ReadBody(body)
    \/ Pause

Next ==
    \/ Proceed
    \/ \E a \in Attempts, f \in {"applied", "refused", "lost"} : Settle(a, f)

Spec == Init /\ [][Next]_vars

\* fetch() and the reading of a body end, by the time limits of the HTTP client
\* at the latest; timers fire.
FairSpec == Spec /\ WF_vars(Proceed)

-----------------------------------------------------------------------------
\* A caller that gets a value, or null, knows that Twenty carried the request
\* out.
ReturnedMeansApplied ==
    outcome \in Returned => \E a \in Attempts : fate[a] = "applied"

\* A request is sent again only when its last answer left open whether it was
\* carried out, or asked for another try: never after a success, even one with
\* an unreadable body, and never after a final refusal.
ResentOnlyInDoubt ==
    \A a, b \in Attempts :
        a < b /\ fate[b] # "unsent" => answer[a] \in {"network", "retryable"}

\* Every call is answered.
CallEnds == <>(pc = "over")

Call == INSTANCE TwentyCall
        WITH applied <- {a \in Attempts : fate[a] = "applied"},
             result <- IF outcome = "none" THEN "pending"
                       ELSE IF outcome \in Returned THEN "returned" ELSE "thrown"

\* The loop implements the call the other modules assume.
ImplementsCall == Call!CallSpec

\* Why: the attempts before the current one have ended in doubt, the later ones
\* have not been sent, and a success was carried out.
IInv ==
    /\ TypeOK
    /\ pc = "over" <=> outcome # "none"
    /\ \A a \in Attempts :
           /\ a < attempt => answer[a] \in {"network", "retryable"}
           /\ a > attempt => fate[a] = "unsent"
           /\ answer[a] = "ok" => fate[a] = "applied"
    /\ pc \in {"start", "send"} => fate[attempt] = "unsent"
    /\ pc = "pause" => /\ answer[attempt] \in {"network", "retryable"}
                       /\ attempt < MaxAttempts
    /\ outcome \in Returned => answer[attempt] = "ok"
=============================================================================
