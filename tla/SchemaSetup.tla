---------------------------- MODULE SchemaSetup -----------------------------
(***************************************************************************)
(* scripts/setup-schema.mjs: an operator runs it to give Twenty the        *)
(* objects, fields and relations the service needs.  It goes through a     *)
(* plan, creates what its listing of Twenty's metadata does not show, and  *)
(* ends with an error at the first call that fails for another reason than *)
(* that the name is taken; the operator then runs it again.                *)
(*                                                                         *)
(* Twenty's metadata API is external: it creates an object, a field, or a  *)
(* relation with its inverse field, all or nothing, unless a name is       *)
(* taken.  The ids the script passes on are those of objects that exist by *)
(* then.                                                                   *)
(***************************************************************************)
EXTENDS Naturals, Sequences

CONSTANTS
    Plan,         \* what main provisions, in this order
    Core,         \* objects that come with Twenty
    Installs,     \* those there may be
    Reserved,     \* names Twenty refuses
    Runs,         \* operators: runs of the script at the same time
    MaxAttempts,  \* SETUP_SCHEMA_MAX_RETRIES
    MaxFaults     \* bound: calls that fail, and runs that are stopped

Steps == DOMAIN Plan

\* What a step looks for in the listing, and what is there once it is done.
\* "core" only looks; a relation makes two names.
StepsOf(plan) ==
    /\ plan \in Seq([kind : {"core", "object", "field", "relation"},
                     finds : {plan[i].finds : i \in DOMAIN plan},
                     makes : SUBSET UNION {plan[i].makes : i \in DOMAIN plan}])
    /\ \A i \in DOMAIN plan :
           IF plan[i].kind = "core"
           THEN plan[i].makes = {} /\ plan[i].finds \in Core
           ELSE plan[i].finds \in plan[i].makes /\ plan[i].makes \cap Core = {}

\* No two steps of a plan ask Twenty for one name.
NoClash(plan) ==
    \A i, j \in DOMAIN plan : i # j => plan[i].makes \cap plan[j].makes = {}

ASSUME PlanAssumption == StepsOf(Plan) /\ NoClash(Plan)

ASSUME BoundsAssumption ==
    /\ Installs \subseteq SUBSET Core
    /\ MaxAttempts \in Nat \ {0} /\ MaxFaults \in Nat

Names == Core \cup UNION {Plan[i].makes : i \in Steps}

VARIABLES
    store,   \* names there are in Twenty
    late,    \* requests nobody waits for any more that Twenty may still carry out
    run,     \* what each operator's run is doing
    faults

vars == <<store, late, run, faults>>

\* listed: objectCache is set; seen is its content, or that of the answer.
\* before is history: what there was when the run started.
RunState ==
    [pc      : {"idle", "next", "sent", "answered", "failed", "complete"},
     at      : 1 .. Len(Plan) + 1,
     listed  : BOOLEAN,
     seen    : SUBSET Names,
     taken   : BOOLEAN,              \* the answer: the name is taken
     attempt : 1 .. MaxAttempts,
     before  : SUBSET Names]

TypeOK ==
    /\ store \subseteq Names
    /\ late \subseteq Steps
    /\ run \in [Runs -> RunState]
    /\ faults \in 0 .. MaxFaults

Fresh == [pc |-> "idle", at |-> 1, listed |-> FALSE, seen |-> {},
          taken |-> FALSE, attempt |-> 1, before |-> {}]

\* The process has ended.
Failed == [Fresh EXCEPT !.pc = "failed"]

Completed == [Fresh EXCEPT !.pc = "complete", !.at = Len(Plan) + 1]

Init ==
    /\ store \in Installs
    /\ late = {}
    /\ run = [r \in Runs |-> Fresh]
    /\ faults = 0
-----------------------------------------------------------------------------
(* Twenty. *)

Taken(i) == Plan[i].makes \cap (store \cup Reserved) # {}

Created(i) == IF Taken(i) THEN store ELSE store \cup Plan[i].makes

\* A request that timed out is carried out after all.
CarryOut(i) ==
    /\ i \in late
    /\ late' = late \ {i}
    /\ store' = Created(i)
    /\ UNCHANGED <<run, faults>>

\* GET /objects, or the POST or mutation of the step.
Answer(r) ==
    /\ run[r].pc = "sent"
    /\ IF run[r].listed
       THEN /\ run' = [run EXCEPT ![r].pc = "answered", ![r].taken = Taken(run[r].at)]
            /\ store' = Created(run[r].at)
       ELSE /\ run' = [run EXCEPT ![r].pc = "answered", ![r].seen = store]
            /\ UNCHANGED store
    /\ UNCHANGED <<late, faults>>
-----------------------------------------------------------------------------
(* The script. *)

\* Definitions whose name starts with Bug are the definition they stand before
\* with a plausible mistake in it; nothing uses them.

\* Mistake: createField swallows every error.
BugThrown(me) ==
    IF me.listed /\ Plan[me.at].kind = "field"
    THEN [me EXCEPT !.pc = "next", !.at = @ + 1, !.taken = FALSE]
    ELSE Failed

\* An error that is thrown goes through main to its catch, which exits.
Thrown(me) == Failed

Start(r) ==
    /\ run[r].pc \in {"idle", "failed", "complete"}
    /\ run' = [run EXCEPT ![r] = [Fresh EXCEPT !.pc = "next", !.before = store]]
    /\ UNCHANGED <<store, late, faults>>

\* fetchAllObjects, when objectCache is null.
FetchAllObjects(r) ==
    /\ run[r].pc = "next" /\ ~run[r].listed
    /\ run[r].at \in Steps
    /\ run' = [run EXCEPT ![r].pc = "sent", ![r].attempt = 1]
    /\ UNCHANGED <<store, late, faults>>

\* Mistake: a name is found on whatever object has it.
BugFound(r, i) ==
    \E n \in run[r].seen : n[Len(n)] = Plan[i].finds[Len(Plan[i].finds)]

\* Mistake: fields are created without looking.
BugNotSought(r, i) == Plan[i].kind # "field" /\ Plan[i].finds \in run[r].seen

\* findObjectByNameSingular and findFieldByNameAndObject.
Found(r, i) == Plan[i].finds \in run[r].seen

Missing(r, i) == i \in Steps => ~Found(r, i)

\* What is found is passed over.  A core object that is not there is an error.
Proceed(r) ==
    /\ run[r].pc = "next" /\ (run[r].listed \/ run[r].at \notin Steps)
    /\ \E i \in run[r].at .. Len(Plan) + 1 :
           /\ Missing(r, i)
           /\ \A j \in run[r].at .. i - 1 : Found(r, j)
           /\ run' = [run EXCEPT ![r] =
                  IF i \notin Steps THEN Completed
                  ELSE IF Plan[i].kind = "core" THEN Thrown(run[r])
                  ELSE [run[r] EXCEPT !.pc = "sent", !.at = i, !.attempt = 1]]
    /\ UNCHANGED <<store, late, faults>>

\* Mistake: a name that is taken is an error for everybody.
BugSkips(i) == FALSE

\* createField and ensureRelationField go on when the name is taken,
\* ensureObject has no id to go on with.
Skips(i) == Plan[i].kind # "object"

\* ensureObject clears objectCache when it has created one.
Keeps(i) == Plan[i].kind # "object"

Receive(r) ==
    /\ run[r].pc = "answered"
    /\ LET me == run[r] IN
       run' = [run EXCEPT ![r] =
           IF ~me.listed THEN [me EXCEPT !.pc = "next", !.listed = TRUE]
           ELSE IF me.taken /\ ~Skips(me.at) THEN Thrown(me)
           ELSE [me EXCEPT !.pc = "next", !.at = me.at + 1, !.taken = FALSE,
                           !.listed = Keeps(me.at)]]
    /\ UNCHANGED <<store, late, faults>>

\* No answer, or one of an overloaded server: fetchWithRetry repeats the request
\* unless the error is not worth it or was the last.  Twenty may have carried it
\* out, or may do so yet.
Fault(r, again, arrives) ==
    /\ run[r].pc \in {"sent", "answered"}
    /\ faults < MaxFaults
    /\ faults' = faults + 1
    /\ again => run[r].attempt < MaxAttempts
    /\ arrives => run[r].pc = "sent" /\ run[r].listed
    /\ run' = [run EXCEPT ![r] =
           IF again THEN [run[r] EXCEPT !.pc = "sent", !.taken = FALSE,
                                        !.attempt = run[r].attempt + 1]
           ELSE Thrown(run[r])]
    /\ late' = IF arrives THEN late \cup {run[r].at} ELSE late
    /\ UNCHANGED store

\* The operator stops it.
Stop(r) ==
    /\ run[r].pc = "next"
    /\ faults < MaxFaults
    /\ faults' = faults + 1
    /\ run' = [run EXCEPT ![r] = Failed]
    /\ UNCHANGED <<store, late>>

Advance(r) == FetchAllObjects(r) \/ Answer(r) \/ Proceed(r) \/ Receive(r)

Next ==
    \/ \E i \in Steps : CarryOut(i)
    \/ \E r \in Runs : \/ Start(r)
                       \/ Advance(r)
                       \/ \E again, arrives \in BOOLEAN : Fault(r, again, arrives)
                       \/ Stop(r)

Spec == Init /\ [][Next]_vars

\* The script goes on, and a run that failed is started again.
StartAgain(r) == run[r].pc # "complete" /\ Start(r)

FairSpec == Spec /\ \A r \in Runs : WF_vars(Advance(r)) /\ WF_vars(StartAgain(r))
-----------------------------------------------------------------------------
Provided(i) == Plan[i].makes \subseteq store \/ Plan[i].makes \cap Reserved # {}

\* A run that says that the setup is complete left nothing out, whatever was
\* repeated, refused or created by another run meanwhile, but for the relations
\* and fields whose names Twenty reserves.
CompleteLeavesNothingOut ==
    \A r \in Runs : run[r].pc = "complete" => \A i \in Steps : Provided(i)

\* A run asks for nothing that was there when it started: running it again over a
\* complete schema changes nothing, and it never depends on Twenty's refusal.
AsksOnlyForTheMissing ==
    \A r \in Runs :
        run[r].pc \in {"sent", "answered"} /\ run[r].listed =>
            Plan[run[r].at].finds \notin run[r].before

\* A relation is there with its inverse, or neither is.
AllOrNothing ==
    \A i \in Steps : Plan[i].makes \subseteq store \/ Plan[i].makes \cap store = {}

\* Why: the steps a run has passed are provided for, and what it has seen was
\* there and still is.
RunOK(r) ==
    LET me == run[r] IN
    /\ me.pc # "idle" => \A i \in 1 .. me.at - 1 : Provided(i)
    /\ me.pc = "complete" => me.at = Len(Plan) + 1
    /\ me.pc \in {"sent", "answered"} => me.at \in Steps
    /\ me.pc \in {"sent", "answered"} /\ me.listed =>
           /\ Plan[me.at].kind # "core"
           /\ Plan[me.at].finds \notin me.seen
    /\ me.pc = "answered" /\ me.listed => Provided(me.at)
    /\ me.before \subseteq store
    /\ me.seen \subseteq store
    /\ me.listed \/ me.pc = "answered" => me.before \subseteq me.seen

IInv == TypeOK /\ AllOrNothing /\ \A r \in Runs : RunOK(r)

\* However often a run fails half-way, or is in the way of another, the next ones
\* go on from there: in the end one completes, once calls stop failing.
SetupCompletes == Core \subseteq store => <>(\E r \in Runs : run[r].pc = "complete")
=============================================================================
