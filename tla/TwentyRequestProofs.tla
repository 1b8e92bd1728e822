------------------------ MODULE TwentyRequestProofs ------------------------
(***************************************************************************)
(* Theorems about TwentyRequest, for every number of attempts.             *)
(***************************************************************************)
EXTENDS TwentyRequest, TLAPS

\* The loop starts its first attempt with nothing sent.
LEMMA Initial == Init => IInv
<1> SUFFICES ASSUME Init PROVE IInv
  OBVIOUS
<1>1. 1 \in Attempts /\ \A a \in Attempts : ~(a < 1)
  BY AttemptsAssumption DEF Attempts
<1>2. QED
  BY <1>1 DEF Init, IInv, TypeOK, Returned, Thrown

\* No step of the loop, of Twenty or of the network breaks the invariant.
LEMMA Step == IInv /\ [Next]_vars => IInv'
<1> SUFFICES ASSUME IInv, [Next]_vars PROVE IInv'
  OBVIOUS
<1> USE DEF IInv, TypeOK, Returned, Thrown
<1>1. CASE Begin
  BY <1>1 DEF Begin, Finish
<1>2. CASE Send
  <2>1. /\ fate' \in [Attempts -> {"unsent", "underway", "applied", "refused", "lost"}]
        /\ \A a \in Attempts : a # attempt => fate'[a] = fate[a]
    BY <1>2 DEF Send
  <2>2. \A a \in Attempts : a > attempt => a # attempt
    BY DEF Attempts
  <2>3. answer[attempt] # "ok"
    BY <1>2 DEF Send
  <2>4. QED
    BY <1>2, <2>1, <2>2, <2>3 DEF Send
<1>3. CASE NetworkError
  <2>1. PICK p \in {"pause", "over"} :
            /\ pc' = p
            /\ p = "pause" => Retryable /\ outcome' = outcome
            /\ p = "over" => outcome' = "unreachable"
    BY <1>3 DEF NetworkError, Finish
  <2>2. /\ pc = "await"
        /\ answer' = [answer EXCEPT ![attempt] = "network"]
        /\ attempt' = attempt /\ fate' = fate
    BY <1>3 DEF NetworkError
  <2>3. /\ answer' \in [Attempts -> {"none", "ok", "retryable", "final", "network"}]
        /\ answer'[attempt] = "network"
        /\ \A a \in Attempts : a # attempt => answer'[a] = answer[a]
    BY <2>2
  <2>4. QED
    BY <2>1, <2>2, <2>3 DEF Retryable
<1>4. ASSUME NEW status \in {"ok", "retryable", "final"}, Respond(status)
      PROVE  IInv'
  <2>1. /\ answer' \in [Attempts -> {"none", "ok", "retryable", "final", "network"}]
        /\ answer'[attempt] = status
        /\ \A a \in Attempts : a # attempt => answer'[a] = answer[a]
    BY <1>4 DEF Respond
  <2>2. \A a \in Attempts : a < attempt => a # attempt
    BY DEF Attempts
  <2>3. QED
    BY <1>4, <2>1, <2>2 DEF Respond
<1>5. CASE LoseBody
  BY <1>5 DEF LoseBody, Finish
<1>6. ASSUME NEW body \in {"value", "empty", "unparsable"}, ReadBody(body)
      PROVE  IInv'
  BY <1>6 DEF ReadBody, Parsed, Rejected, Finish, Retryable
<1>7. CASE Pause
  <2>1. /\ attempt + 1 \in Attempts
        /\ attempt + 1 > attempt
        /\ \A a \in Attempts : a < attempt + 1 => a < attempt \/ a = attempt
        /\ \A a \in Attempts : a > attempt + 1 => a > attempt
    BY <1>7, AttemptsAssumption DEF Pause, Attempts
  <2>2. QED
    BY <1>7, <2>1 DEF Pause
<1>8. ASSUME NEW a \in Attempts, NEW f \in {"applied", "refused", "lost"}, Settle(a, f)
      PROVE  IInv'
  <2>1. /\ fate' \in [Attempts -> {"unsent", "underway", "applied", "refused", "lost"}]
        /\ \A b \in Attempts : b # a => fate'[b] = fate[b]
        /\ fate[a] = "underway"
    BY <1>8 DEF Settle
  <2>2. QED
    BY <1>8, <2>1 DEF Settle
<1>9. CASE UNCHANGED vars
  BY <1>9 DEF vars
<1>10. QED
  BY <1>1, <1>2, <1>3, <1>4, <1>5, <1>6, <1>7, <1>8, <1>9 DEF Next, Proceed

\* The inductive invariant holds throughout.
THEOREM RetryInvariance == Spec => []IInv
<1>1. QED
  BY Initial, Step, PTL DEF Spec

\* The counter of request() stays within maxAttempts, and every variable keeps
\* its type.
THEOREM RetryTypes == Spec => []TypeOK
<1>1. IInv => TypeOK
  BY DEF IInv
<1>2. QED
  BY <1>1, RetryInvariance, PTL

\* Whatever request() returns, null included, Twenty carried the request out.
THEOREM ReturnedValuesAreTrue == Spec => []ReturnedMeansApplied
<1>1. IInv => ReturnedMeansApplied
  BY DEF IInv, TypeOK, ReturnedMeansApplied
<1>2. QED
  BY <1>1, RetryInvariance, PTL

\* No attempt follows one that succeeded or was finally refused.
THEOREM RepeatsOnlyInDoubt == Spec => []ResentOnlyInDoubt
<1>1. IInv => ResentOnlyInDoubt
  <2> SUFFICES ASSUME IInv, NEW a \in Attempts, NEW b \in Attempts,
                      a < b, fate[b] # "unsent"
               PROVE  answer[a] \in {"network", "retryable"}
    BY DEF ResentOnlyInDoubt
  <2>1. ~(b > attempt)
    BY DEF IInv
  <2>2. a < attempt
    BY <2>1 DEF IInv, TypeOK, Attempts
  <2>3. QED
    BY <2>2 DEF IInv
<1>2. QED
  BY <1>1, RetryInvariance, PTL

-----------------------------------------------------------------------------
\* What the caller of request() sees is what TwentyCall allows: every step of
\* the loop, of Twenty and of the network is a step of the call or none.
THEOREM RetryRefines == Spec => ImplementsCall
<1> DEFINE done == {a \in Attempts : fate[a] = "applied"}
           seen == IF outcome = "none" THEN "pending"
                   ELSE IF outcome \in Returned THEN "returned" ELSE "thrown"
<1>1. Init => Call!CallInit
  BY DEF Init, Call!CallInit
<1>2. IInv /\ IInv' /\ [Next]_vars => [Call!CallNext]_(Call!callVars)
  <2> SUFFICES ASSUME IInv, IInv', [Next]_vars
               PROVE  [Call!CallNext]_(Call!callVars)
    OBVIOUS
  <2>1. CASE fate' = fate /\ outcome' = outcome
    <3>1. done' = done /\ seen' = seen
      BY <2>1
    <3>2. QED
      BY <3>1 DEF Call!callVars
  <2>2. CASE fate' = fate /\ outcome = "none" /\ outcome' # "none"
    <3>1. done' = done /\ seen = "pending"
      BY <2>2
    <3>2. CASE outcome' \in Returned
      <4>1. ReturnedMeansApplied'
        BY DEF IInv, TypeOK, ReturnedMeansApplied
      <4>2. done' # {}
        BY <4>1, <3>2 DEF ReturnedMeansApplied
      <4>3. seen' = "returned"
        BY <2>2, <3>2
      <4>4. Call!Return
        BY <3>1, <4>2, <4>3 DEF Call!Return
      <4>5. QED
        BY <4>4 DEF Call!CallNext
    <3>3. CASE outcome' \notin Returned
      <4>1. seen' = "thrown"
        BY <2>2, <3>3
      <4>2. Call!Throw
        BY <3>1, <4>1 DEF Call!Throw
      <4>3. QED
        BY <4>2 DEF Call!CallNext
    <3>4. QED
      BY <3>2, <3>3
  <2>3. CASE Send
    <3>1. outcome' = outcome /\ fate' = [fate EXCEPT ![attempt] = "underway"]
      BY <2>3 DEF Send
    <3>2. fate[attempt] = "unsent" /\ attempt \in Attempts
      BY <2>3 DEF Send, IInv, TypeOK
    <3>3. done' = done
      BY <3>1, <3>2 DEF IInv, TypeOK
    <3>4. QED
      BY <3>1, <3>3 DEF Call!callVars
  <2>4. ASSUME NEW a \in Attempts, NEW f \in {"applied", "refused", "lost"},
               Settle(a, f)
        PROVE  [Call!CallNext]_(Call!callVars)
    <3>1. outcome' = outcome /\ fate' = [fate EXCEPT ![a] = f] /\ fate[a] = "underway"
      BY <2>4 DEF Settle
    <3>2. CASE f = "applied"
      <4>1. done' = done \cup {a}
        BY <3>1, <3>2 DEF IInv, TypeOK
      <4>2. Call!Apply(a)
        BY <3>1, <4>1 DEF Call!Apply
      <4>3. QED
        BY <4>2 DEF Call!CallNext
    <3>3. CASE f # "applied"
      <4>1. done' = done
        BY <3>1, <3>3 DEF IInv, TypeOK
      <4>2. QED
        BY <3>1, <4>1 DEF Call!callVars
    <3>4. QED
      BY <3>2, <3>3
  <2>5. \/ fate' = fate /\ outcome' = outcome
        \/ fate' = fate /\ outcome = "none" /\ outcome' # "none"
        \/ Send
        \/ \E a \in Attempts, f \in {"applied", "refused", "lost"} : Settle(a, f)
    BY DEF Next, Proceed, Begin, NetworkError, Respond, LoseBody, ReadBody,
           Parsed, Rejected, Finish, Pause, IInv, vars
  <2>6. QED
    BY <2>1, <2>2, <2>3, <2>4, <2>5
<1>3. QED
  BY <1>1, <1>2, RetryInvariance, PTL DEF Spec, ImplementsCall, Call!CallSpec
=============================================================================
