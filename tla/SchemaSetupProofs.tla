------------------------- MODULE SchemaSetupProofs --------------------------
(***************************************************************************)
(* Proofs about SchemaSetup, for every plan without clashing names, any    *)
(* number of runs and any number of failures.                              *)
(***************************************************************************)
EXTENDS SchemaSetup, TLAPS

LEMMA PlanFacts ==
    /\ Len(Plan) \in Nat
    /\ Steps = 1 .. Len(Plan)
    /\ \A i \in Steps :
           /\ Plan[i].makes \subseteq Names
           /\ Plan[i].makes \cap Core = {}
           /\ Plan[i].kind # "core" => Plan[i].finds \in Plan[i].makes
    /\ \A i, j \in Steps : i # j => Plan[i].makes \cap Plan[j].makes = {}
<1>1. Len(Plan) \in Nat /\ Steps = 1 .. Len(Plan)
    BY PlanAssumption DEF StepsOf, Steps
<1>2. ASSUME NEW i \in Steps
      PROVE  /\ Plan[i].makes \subseteq Names
             /\ Plan[i].makes \cap Core = {}
             /\ Plan[i].kind # "core" => Plan[i].finds \in Plan[i].makes
    <2>1. Plan[i].makes \subseteq Names
        BY DEF Names
    <2>2. IF Plan[i].kind = "core"
          THEN Plan[i].makes = {} /\ Plan[i].finds \in Core
          ELSE Plan[i].finds \in Plan[i].makes /\ Plan[i].makes \cap Core = {}
        BY PlanAssumption DEF StepsOf, Steps
    <2> QED BY <2>1, <2>2
<1>3. \A i, j \in Steps : i # j => Plan[i].makes \cap Plan[j].makes = {}
    BY PlanAssumption DEF NoClash, Steps
<1> QED BY <1>1, <1>2, <1>3

LEMMA InBounds ==
    /\ 1 \in 1 .. Len(Plan) + 1
    /\ Len(Plan) + 1 \in 1 .. Len(Plan) + 1
    /\ 1 \in 1 .. MaxAttempts
BY PlanFacts, BoundsAssumption

\* What Twenty makes of a request leaves the store whole, and the step done or
\* refused.
LEMMA CreationProvides ==
    ASSUME TypeOK, AllOrNothing, NEW i \in Steps, store' = Created(i)
    PROVE  /\ store' \subseteq Names
           /\ store \subseteq store'
           /\ AllOrNothing'
           /\ Provided(i)'
<1>1. CASE Taken(i)
    <2>1. store' = store BY <1>1 DEF Created
    <2>2. Provided(i) BY <1>1 DEF Taken, Provided, AllOrNothing
    <2> QED BY <2>1, <2>2 DEF Provided, AllOrNothing, TypeOK
<1>2. CASE ~Taken(i)
    <2>1. store' = store \cup Plan[i].makes BY <1>2 DEF Created
    <2>2. store' \subseteq Names BY <2>1, PlanFacts DEF TypeOK
    <2>3. Provided(i)' BY <2>1 DEF Provided
    <2>4. ASSUME NEW j \in Steps
          PROVE  Plan[j].makes \subseteq store' \/ Plan[j].makes \cap store' = {}
        <3>1. CASE j = i BY <2>1, <3>1
        <3>2. CASE j # i
            <4>1. Plan[i].makes \cap Plan[j].makes = {} BY <3>2, PlanFacts
            <4>2. Plan[j].makes \subseteq store \/ Plan[j].makes \cap store = {}
                BY DEF AllOrNothing
            <4> QED BY <2>1, <4>1, <4>2
        <3> QED BY <3>1, <3>2
    <2> QED BY <2>1, <2>2, <2>3, <2>4 DEF AllOrNothing
<1> QED BY <1>1, <1>2

\* A run that does nothing is not disturbed by a store that grows.
LEMMA GrowthIsHarmless ==
    ASSUME NEW r \in Runs, RunOK(r), run'[r] = run[r], store \subseteq store'
    PROVE  RunOK(r)'
<1>1. \A i : Provided(i) => Provided(i)' BY DEF Provided
<1> QED BY <1>1 DEF RunOK

\* A run that has ended, or not begun, has nothing to keep to.
LEMMA EndedRunIsOK ==
    ASSUME NEW r \in Runs, run'[r] \in {Fresh, Failed}
    PROVE  RunOK(r)' /\ run'[r] \in RunState
<1>1. Fresh \in RunState BY InBounds DEF Fresh, RunState
<1>2. Failed \in RunState BY <1>1 DEF Failed, RunState
<1>3. run'[r] \in RunState BY <1>1, <1>2
<1>4. /\ run'[r].pc \in {"idle", "failed"} /\ run'[r].at = 1 /\ ~run'[r].listed
      /\ run'[r].seen = {} /\ run'[r].before = {}
    BY DEF Fresh, Failed
<1> QED BY <1>3, <1>4 DEF RunOK

\* It holds before anything was run, whatever Twenty holds.
THEOREM InitIsInv == Init => IInv
<1> SUFFICES ASSUME Init PROVE IInv
    OBVIOUS
<1>1. store \subseteq Core /\ store \subseteq Names
    BY BoundsAssumption DEF Init, Names
<1>2. AllOrNothing BY <1>1, PlanFacts DEF AllOrNothing
<1>3. ASSUME NEW r \in Runs PROVE RunOK(r) /\ run[r] \in RunState
    <2>1. run[r] = Fresh BY DEF Init
    <2>3. Fresh \in RunState BY InBounds DEF Fresh, RunState
    <2> QED BY <2>1, <2>3 DEF RunOK, Fresh
<1>4. run \in [Runs -> RunState] BY <1>3 DEF Init
<1> QED BY <1>1, <1>2, <1>3, <1>4, BoundsAssumption DEF IInv, TypeOK, Init

-----------------------------------------------------------------------------
(* The steps. *)

\* A step of the script changes one run, and Twenty at most by growing.
LEMMA OneRunSteps ==
    ASSUME IInv, NEW r \in Runs, NEW me,
           run' = [run EXCEPT ![r] = me], me \in RunState, RunOK(r)',
           store' \subseteq Names, store \subseteq store', AllOrNothing',
           late' \subseteq Steps, faults' \in 0 .. MaxFaults
    PROVE  IInv'
<1>1. run' \in [Runs -> RunState] BY DEF IInv, TypeOK
<1>2. ASSUME NEW q \in Runs, q # r PROVE RunOK(q)'
    <2>1. run'[q] = run[q] BY <1>2 DEF IInv, TypeOK
    <2> QED BY <2>1, GrowthIsHarmless DEF IInv
<1> QED BY <1>1, <1>2 DEF IInv, TypeOK

LEMMA StartKeepsInv == ASSUME IInv, NEW r \in Runs, Start(r) PROVE IInv'
<1> DEFINE me == [Fresh EXCEPT !.pc = "next", !.before = store]
<1>1. run' = [run EXCEPT ![r] = me] /\ store' = store BY DEF Start
<1>2. me \in RunState
    BY InBounds DEF Fresh, RunState, IInv, TypeOK
<1>3. run'[r] = me BY <1>1 DEF IInv, TypeOK
<1>4. /\ me.pc = "next" /\ me.at = 1 /\ ~me.listed /\ me.seen = {}
      /\ me.before = store
    BY DEF Fresh
<1>5. 1 .. me.at - 1 = {} BY <1>4
<1> HIDE DEF me
<1>6. RunOK(r)' BY <1>1, <1>3, <1>4, <1>5 DEF RunOK
<1> QED BY <1>1, <1>2, <1>6, OneRunSteps DEF Start, IInv, TypeOK, AllOrNothing

LEMMA StopKeepsInv == ASSUME IInv, NEW r \in Runs, Stop(r) PROVE IInv'
<1>1. run' = [run EXCEPT ![r] = Failed] /\ store' = store BY DEF Stop
<1>2. run'[r] = Failed BY <1>1 DEF IInv, TypeOK
<1>3. RunOK(r)' /\ Failed \in RunState BY <1>2, EndedRunIsOK
<1>4. faults' \in 0 .. MaxFaults BY BoundsAssumption DEF Stop, IInv, TypeOK
<1> QED BY <1>1, <1>3, <1>4, OneRunSteps DEF Stop, IInv, TypeOK, AllOrNothing

LEMMA CarryOutKeepsInv == ASSUME IInv, NEW i \in Steps, CarryOut(i) PROVE IInv'
<1>1. /\ store' \subseteq Names /\ store \subseteq store' /\ AllOrNothing'
    BY CreationProvides DEF IInv, CarryOut
<1>2. ASSUME NEW q \in Runs PROVE RunOK(q)'
    BY <1>1, GrowthIsHarmless DEF IInv, CarryOut
<1> QED BY <1>1, <1>2 DEF IInv, TypeOK, CarryOut

LEMMA FetchKeepsInv == ASSUME IInv, NEW r \in Runs, FetchAllObjects(r) PROVE IInv'
<1> DEFINE me == [run[r] EXCEPT !.pc = "sent", !.attempt = 1]
<1>1. run' = [run EXCEPT ![r] = me] /\ store' = store
    BY DEF FetchAllObjects, IInv, TypeOK
<1>2. run[r] \in RunState BY DEF IInv, TypeOK
<1>3. me \in RunState BY <1>2, InBounds DEF RunState
<1>4. run'[r] = me BY <1>1 DEF IInv, TypeOK
<1>5. RunOK(r)' BY <1>1, <1>2, <1>4 DEF RunOK, IInv, FetchAllObjects, RunState, Provided
<1> QED BY <1>1, <1>3, <1>5, OneRunSteps DEF FetchAllObjects, IInv, TypeOK, AllOrNothing

LEMMA AnswerKeepsInv == ASSUME IInv, NEW r \in Runs, Answer(r) PROVE IInv'
<1>1. run[r] \in RunState /\ RunOK(r) BY DEF IInv, TypeOK
<1>2. run[r].pc = "sent" /\ run[r].at \in Steps BY <1>1 DEF Answer, RunOK
<1>3. CASE run[r].listed
    <2> DEFINE me == [run[r] EXCEPT !.pc = "answered", !.taken = Taken(run[r].at)]
    <2>1. run' = [run EXCEPT ![r] = me] /\ store' = Created(run[r].at)
        BY <1>3 DEF Answer, IInv, TypeOK
    <2>2. me \in RunState BY <1>1 DEF RunState, Taken
    <2>3. /\ store' \subseteq Names /\ store \subseteq store' /\ AllOrNothing'
          /\ Provided(run[r].at)'
        BY <1>2, <2>1, CreationProvides DEF IInv
    <2>4. run'[r] = me BY <2>1 DEF IInv, TypeOK
    <2>5. \A i : Provided(i) => Provided(i)' BY <2>3 DEF Provided
    <2>6. /\ me.pc = "answered" /\ me.at = run[r].at /\ me.listed
          /\ me.seen = run[r].seen /\ me.before = run[r].before
        BY <1>1, <1>3 DEF RunState
    <2>7. RunOK(r)' BY <1>1, <1>2, <1>3, <2>3, <2>4, <2>5, <2>6 DEF RunOK
    <2> QED BY <2>1, <2>2, <2>3, <2>7, OneRunSteps DEF Answer, IInv, TypeOK
<1>4. CASE ~run[r].listed
    <2> DEFINE me == [run[r] EXCEPT !.pc = "answered", !.seen = store]
    <2>1. run' = [run EXCEPT ![r] = me] /\ store' = store
        BY <1>4 DEF Answer, IInv, TypeOK
    <2>2. me \in RunState BY <1>1 DEF RunState, IInv, TypeOK
    <2>3. run'[r] = me BY <2>1 DEF IInv, TypeOK
    <2>4. /\ me.pc = "answered" /\ me.at = run[r].at /\ ~me.listed
          /\ me.seen = store /\ me.before = run[r].before
        BY <1>1, <1>4 DEF RunState
    <2>5. \A i : Provided(i) => Provided(i)' BY <2>1 DEF Provided
    <2>6. RunOK(r)' BY <1>1, <1>2, <2>1, <2>3, <2>4, <2>5 DEF RunOK
    <2> QED BY <2>1, <2>2, <2>6, OneRunSteps DEF Answer, IInv, TypeOK, AllOrNothing
<1> QED BY <1>3, <1>4

LEMMA ProceedKeepsInv == ASSUME IInv, NEW r \in Runs, Proceed(r) PROVE IInv'
<1>1. run[r] \in RunState /\ RunOK(r) BY DEF IInv, TypeOK
<1>2. run[r].at \in 1 .. Len(Plan) + 1 BY <1>1 DEF RunState
<1>3. PICK i \in run[r].at .. Len(Plan) + 1 :
          /\ Missing(r, i)
          /\ \A j \in run[r].at .. i - 1 : Found(r, j)
          /\ run' = [run EXCEPT ![r] =
                 IF i \notin Steps THEN Completed
                 ELSE IF Plan[i].kind = "core" THEN Thrown(run[r])
                 ELSE [run[r] EXCEPT !.pc = "sent", !.at = i, !.attempt = 1]]
    BY DEF Proceed
<1>4. i \in 1 .. Len(Plan) + 1 BY <1>2, <1>3, PlanFacts
<1>5. \A j \in Steps : Found(r, j) /\ Plan[j].kind # "core" => Provided(j)
    <2> SUFFICES ASSUME NEW j \in Steps, Found(r, j), Plan[j].kind # "core"
                 PROVE  Provided(j)
        OBVIOUS
    <2>1. Plan[j].finds \in store BY <1>1 DEF Found, RunOK
    <2>2. Plan[j].finds \in Plan[j].makes BY PlanFacts
    <2> QED BY <2>1, <2>2 DEF IInv, AllOrNothing, Provided
<1>6. \A j \in Steps : Plan[j].kind = "core" => Provided(j)
    BY PlanAssumption DEF StepsOf, Steps, Provided
<1>7. ASSUME NEW j \in 1 .. i - 1 PROVE Provided(j)
    <2>1. CASE j \in 1 .. run[r].at - 1
        BY <1>1, <2>1 DEF RunOK, Proceed
    <2>2. CASE j \notin 1 .. run[r].at - 1
        <3>1. j \in run[r].at .. i - 1 /\ j \in Steps
            BY <1>2, <1>4, <2>2, PlanFacts
        <3> QED BY <1>3, <1>5, <1>6, <3>1
    <2> QED BY <2>1, <2>2
<1>8. store' = store /\ late' = late /\ faults' = faults BY DEF Proceed
<1>9. \A j : Provided(j) => Provided(j)' BY <1>8 DEF Provided
<1>10. CASE i \notin Steps
    <2>1. i = Len(Plan) + 1 BY <1>4, <1>10, PlanFacts
    <2>2. run' = [run EXCEPT ![r] = Completed] /\ run'[r] = Completed
        BY <1>3, <1>10 DEF IInv, TypeOK
    <2>3. Completed \in RunState
        BY InBounds DEF Completed, Fresh, RunState
    <2>4. /\ Completed.pc = "complete" /\ Completed.at = i /\ ~Completed.listed
          /\ Completed.seen = {} /\ Completed.before = {}
        BY <2>1 DEF Completed, Fresh
    <2>5. RunOK(r)' BY <1>7, <1>9, <2>1, <2>2, <2>4 DEF RunOK
    <2> QED BY <1>8, <2>2, <2>3, <2>5, OneRunSteps DEF IInv, TypeOK, AllOrNothing
<1>11. CASE i \in Steps /\ Plan[i].kind = "core"
    <2>1. run' = [run EXCEPT ![r] = Failed] /\ run'[r] = Failed
        BY <1>3, <1>11 DEF IInv, TypeOK, Thrown
    <2>2. RunOK(r)' /\ Failed \in RunState BY <2>1, EndedRunIsOK
    <2> QED BY <1>8, <2>1, <2>2, OneRunSteps DEF IInv, TypeOK, AllOrNothing
<1>12. CASE i \in Steps /\ Plan[i].kind # "core"
    <2> DEFINE me == [run[r] EXCEPT !.pc = "sent", !.at = i, !.attempt = 1]
    <2>1. run' = [run EXCEPT ![r] = me] /\ run'[r] = me
        BY <1>3, <1>12 DEF IInv, TypeOK
    <2>2. me \in RunState BY <1>1, <1>4, InBounds DEF RunState
    <2>3. /\ me.pc = "sent" /\ me.at = i /\ me.listed = run[r].listed
          /\ me.seen = run[r].seen /\ me.before = run[r].before
        BY <1>1 DEF RunState
    <2>4. Plan[i].finds \notin me.seen BY <1>3, <1>12, <2>3 DEF Missing, Found
    <2>5. me.listed => me.before \subseteq me.seen BY <1>1, <2>3 DEF RunOK
    <2>6. run[r].listed
        BY <1>2, <1>4, <1>12, PlanFacts DEF Proceed
    <2>7. RunOK(r)'
        BY <1>1, <1>7, <1>8, <1>9, <1>12, <2>1, <2>3, <2>4, <2>5, <2>6 DEF RunOK
    <2> QED BY <1>8, <2>1, <2>2, <2>7, OneRunSteps DEF IInv, TypeOK, AllOrNothing
<1> QED BY <1>10, <1>11, <1>12

LEMMA ReceiveKeepsInv == ASSUME IInv, NEW r \in Runs, Receive(r) PROVE IInv'
<1>1. run[r] \in RunState /\ RunOK(r) /\ run[r].pc = "answered"
    BY DEF IInv, TypeOK, Receive
<1>2. run[r].at \in Steps BY <1>1 DEF RunOK
<1>3. store' = store /\ late' = late /\ faults' = faults BY DEF Receive
<1>4. \A j : Provided(j) => Provided(j)' BY <1>3 DEF Provided
<1>5. CASE ~run[r].listed
    <2> DEFINE me == [run[r] EXCEPT !.pc = "next", !.listed = TRUE]
    <2>1. run' = [run EXCEPT ![r] = me] /\ run'[r] = me
        BY <1>5 DEF Receive, IInv, TypeOK
    <2>2. me \in RunState BY <1>1 DEF RunState
    <2>3. /\ me.pc = "next" /\ me.at = run[r].at /\ me.listed
          /\ me.seen = run[r].seen /\ me.before = run[r].before
        BY <1>1 DEF RunState
    <2>4. RunOK(r)' BY <1>1, <1>3, <1>4, <2>1, <2>3 DEF RunOK
    <2> QED BY <1>3, <2>1, <2>2, <2>4, OneRunSteps DEF IInv, TypeOK, AllOrNothing
<1>6. CASE run[r].listed /\ run[r].taken /\ ~Skips(run[r].at)
    <2>1. run' = [run EXCEPT ![r] = Failed] /\ run'[r] = Failed
        BY <1>6 DEF Receive, IInv, TypeOK, Thrown
    <2>2. RunOK(r)' /\ Failed \in RunState BY <2>1, EndedRunIsOK
    <2> QED BY <1>3, <2>1, <2>2, OneRunSteps DEF IInv, TypeOK, AllOrNothing
<1>7. CASE run[r].listed /\ ~(run[r].taken /\ ~Skips(run[r].at))
    <2> DEFINE me == [run[r] EXCEPT !.pc = "next", !.at = run[r].at + 1, !.taken = FALSE,
                                    !.listed = Keeps(run[r].at)]
    <2>1. run' = [run EXCEPT ![r] = me] /\ run'[r] = me
        BY <1>7 DEF Receive, IInv, TypeOK
    <2>2. run[r].at + 1 \in 1 .. Len(Plan) + 1 BY <1>2, PlanFacts
    <2>3. Keeps(run[r].at) \in BOOLEAN BY DEF Keeps
    <2>4. me \in RunState BY <1>1, <2>2, <2>3 DEF RunState
    <2>5. /\ me.pc = "next" /\ me.at = run[r].at + 1
          /\ me.seen = run[r].seen /\ me.before = run[r].before
        BY <1>1 DEF RunState
    <2>6. me.before \subseteq me.seen BY <1>1, <1>7, <2>5 DEF RunOK
    <2>7. ASSUME NEW j \in 1 .. me.at - 1 PROVE Provided(j)'
        <3>1. j = run[r].at \/ j \in 1 .. run[r].at - 1
            BY <1>2, <2>5, PlanFacts
        <3>2. Provided(j) BY <1>1, <1>7, <3>1 DEF RunOK
        <3> QED BY <1>4, <3>2
    <2>8. RunOK(r)' BY <1>1, <1>3, <2>1, <2>5, <2>6, <2>7 DEF RunOK
    <2> QED BY <1>3, <2>1, <2>4, <2>8, OneRunSteps DEF IInv, TypeOK, AllOrNothing
<1> QED BY <1>5, <1>6, <1>7

LEMMA FaultKeepsInv ==
    ASSUME IInv, NEW r \in Runs, NEW again \in BOOLEAN, NEW arrives \in BOOLEAN,
           Fault(r, again, arrives)
    PROVE  IInv'
<1>1. run[r] \in RunState /\ RunOK(r) /\ run[r].pc \in {"sent", "answered"}
    BY DEF IInv, TypeOK, Fault
<1>2. run[r].at \in Steps BY <1>1 DEF RunOK
<1>3. store' = store /\ late' \subseteq Steps /\ faults' \in 0 .. MaxFaults
    BY <1>2, BoundsAssumption DEF Fault, IInv, TypeOK
<1>4. \A j : Provided(j) => Provided(j)' BY <1>3 DEF Provided
<1>5. CASE again
    <2> DEFINE me == [run[r] EXCEPT !.pc = "sent", !.taken = FALSE, !.attempt = run[r].attempt + 1]
    <2>1. run' = [run EXCEPT ![r] = me] /\ run'[r] = me
        BY <1>5 DEF Fault, IInv, TypeOK
    <2>2. run[r].attempt + 1 \in 1 .. MaxAttempts
        BY <1>1, <1>5, BoundsAssumption DEF Fault, RunState
    <2>3. me \in RunState BY <1>1, <2>2 DEF RunState
    <2>4. /\ me.pc = "sent" /\ me.at = run[r].at /\ me.listed = run[r].listed
          /\ me.seen = run[r].seen /\ me.before = run[r].before
        BY <1>1 DEF RunState
    <2>5. RunOK(r)' BY <1>1, <1>3, <1>4, <2>1, <2>4 DEF RunOK
    <2> QED BY <1>3, <2>1, <2>3, <2>5, OneRunSteps DEF IInv, TypeOK, AllOrNothing
<1>6. CASE ~again
    <2>1. run' = [run EXCEPT ![r] = Failed] /\ run'[r] = Failed
        BY <1>6 DEF Fault, IInv, TypeOK, Thrown
    <2>2. RunOK(r)' /\ Failed \in RunState BY <2>1, EndedRunIsOK
    <2> QED BY <1>3, <2>1, <2>2, OneRunSteps DEF IInv, TypeOK, AllOrNothing
<1> QED BY <1>5, <1>6

LEMMA StepKeepsInv == IInv /\ [Next]_vars => IInv'
<1> SUFFICES ASSUME IInv, [Next]_vars PROVE IInv'
    OBVIOUS
<1>1. CASE UNCHANGED vars
    <2>1. store' = store /\ run' = run BY <1>1 DEF vars
    <2>2. \A r \in Runs : RunOK(r)' BY <2>1, GrowthIsHarmless DEF IInv
    <2> QED BY <1>1, <2>2 DEF IInv, TypeOK, AllOrNothing, vars
<1>2. ASSUME NEW i \in Steps, CarryOut(i) PROVE IInv'
    BY <1>2, CarryOutKeepsInv
<1>3. ASSUME NEW r \in Runs, Start(r) PROVE IInv'
    BY <1>3, StartKeepsInv
<1>4. ASSUME NEW r \in Runs, Advance(r) PROVE IInv'
    BY <1>4, FetchKeepsInv, AnswerKeepsInv, ProceedKeepsInv, ReceiveKeepsInv
       DEF Advance
<1>5. ASSUME NEW r \in Runs, NEW again \in BOOLEAN, NEW arrives \in BOOLEAN,
             Fault(r, again, arrives)
      PROVE  IInv'
    BY <1>5, FaultKeepsInv
<1>6. ASSUME NEW r \in Runs, Stop(r) PROVE IInv'
    BY <1>6, StopKeepsInv
<1> QED BY <1>1, <1>2, <1>3, <1>4, <1>5, <1>6 DEF Next

-----------------------------------------------------------------------------
\* The inductive invariant holds, for every plan, of any runs at the same time.
THEOREM SetupInvariance == Spec => []IInv
BY InitIsInv, StepKeepsInv, PTL DEF Spec

\* "Setup complete" is true of everything main provisions, of whatever length its
\* lists become, with any number of failures, repeats and rival runs.
THEOREM CompleteIsComplete == Spec => []CompleteLeavesNothingOut
<1>1. IInv => CompleteLeavesNothingOut
    <2> SUFFICES ASSUME IInv, NEW r \in Runs, run[r].pc = "complete", NEW i \in Steps
                 PROVE  Provided(i)
        BY DEF CompleteLeavesNothingOut
    <2>1. RunOK(r) /\ run[r].at = Len(Plan) + 1 BY DEF IInv, RunOK
    <2>2. i \in 1 .. run[r].at - 1 BY <2>1, PlanFacts
    <2> QED BY <2>1, <2>2 DEF RunOK
<1> QED BY <1>1, SetupInvariance, PTL

\* Running the script again asks for nothing that was there, so that it changes
\* nothing once it has completed.
THEOREM RerunIsHarmless == Spec => []AsksOnlyForTheMissing
<1>1. IInv => AsksOnlyForTheMissing
    <2> SUFFICES ASSUME IInv, NEW r \in Runs, run[r].pc \in {"sent", "answered"},
                        run[r].listed
                 PROVE  Plan[run[r].at].finds \notin run[r].before
        BY DEF AsksOnlyForTheMissing
    <2>1. RunOK(r) BY DEF IInv
    <2> QED BY <2>1 DEF RunOK
<1> QED BY <1>1, SetupInvariance, PTL
=============================================================================
