---------------------------- MODULE AgentContainer ----------------------------
(***************************************************************************)
(* The DataAgentContainer controller of the execution engine, for one      *)
(* container name: a reconciliation creates the service, the skills config *)
(* map and the deployment that do not exist, checks that service and       *)
(* deployment do, and reports that in the status.                          *)
(*                                                                         *)
(* It reads everything from informer caches, which lag; it watches nothing *)
(* but containers; and what exists under the name is taken for its own,    *)
(* although the garbage collector takes away what an earlier container of  *)
(* that name owned.                                                        *)
(***************************************************************************)
EXTENDS Naturals, Sequences, FiniteSets

CONSTANTS
    Skills,      \* whether the agent card names skills
    MaxOps,      \* bound on what users do
    MaxFaults    \* bound on failed calls and crashes of the operator

ASSUME ContainerAssumption == Skills \in BOOLEAN /\ MaxOps \in Nat /\ MaxFaults \in Nat

VARIABLES
    container,  \* the container in the API server
    objects,    \* the uid of the owner of each object of the name, or 0
    present,    \* whether the descriptors and config maps it names exist
    seen,       \* the informer caches of container and objects
    queued,     \* the name is in the workqueue
    delayed,    \* it will be, in ten seconds
    worker,     \* the reconciliation under way
    ops, faults,
    missed      \* an object vanished since the last reconciliation began

worldVars == <<container, objects, present>>
vars == <<worldVars, seen, queued, delayed, worker, ops, faults, missed>>

Kind == {"service", "deployment"} \union (IF Skills THEN {"skills"} ELSE {})
Type == {"Creating", "Available", "Failed"}

\* version: of the specification; each edit selects other descriptors.  writes:
\* of a status with later times only, modulo 2, for they too make another
\* resource version.  endpoint: whether it is set.  active: the version whose
\* descriptors are reported, or 0.  conditions: type and message, newest first.
\* fresh: the types of those whose time is the second of the newest.
NewStatus == [endpoint |-> FALSE, active |-> 0, conditions |-> <<>>, fresh |-> {}]
Nobody == [uid |-> 0, version |-> 0, writes |-> 0, status |-> NewStatus]
Idle == [at |-> "idle", dac |-> Nobody, missing |-> ""]

\* Of an earlier container, just deleted, the deployment may be there still.
Init ==
    /\ container = Nobody
    /\ objects \in {[k \in Kind |-> 0], [k \in Kind |-> IF k = "deployment" THEN 1 ELSE 0]}
    /\ present \in BOOLEAN /\ seen = [container |-> Nobody, objects |-> objects]
    /\ queued = FALSE /\ delayed = FALSE /\ worker = Idle
    /\ ops = 0 /\ faults = 0 /\ missed = FALSE

Fault == faults < MaxFaults /\ faults' = faults + 1

-----------------------------------------------------------------------------
\* The reconciliation.
GoTo(place) == worker' = [worker EXCEPT !.at = place] /\ UNCHANGED delayed

\* Variant: the error is logged.
FailLogging == worker' = Idle /\ UNCHANGED delayed

\* Any error: again in ten seconds.
Fail == worker' = Idle /\ delayed' = TRUE

\* A container that is not in the cache has been deleted.
Reconcile ==
    /\ worker = Idle /\ queued
    /\ queued' = FALSE /\ missed' = FALSE
    /\ worker' = IF seen.container.uid = 0 THEN Idle
                 ELSE [at |-> "service", dac |-> seen.container, missing |-> ""]
    /\ UNCHANGED <<worldVars, seen, delayed, ops, faults>>

Create(k) ==
    /\ objects' = [objects EXCEPT ![k] = worker.dac.uid]
    /\ UNCHANGED <<container, present>>

\* What the cache does not have is created, which fails if it exists.
CreateIfNotExists(k, next) ==
    /\ worker.at = k
    /\ IF seen.objects[k] # 0 THEN GoTo(next) /\ UNCHANGED worldVars
       ELSE IF objects[k] = 0 THEN Create(k) /\ GoTo(next)
       ELSE Fail /\ UNCHANGED worldVars

CreateService == CreateIfNotExists("service", IF Skills THEN "skills" ELSE "deployment")
createConfigMapForSkills == CreateIfNotExists("skills", "deployment")

\* The LLMs' config maps and all selected descriptors are needed, even when
\* the deployment exists; one that is missing ends it before any status.
Described == present

CreateDeployment ==
    \/ Described /\ CreateIfNotExists("deployment", "check")
    \/ ~Described /\ worker.at = "deployment" /\ Fail /\ UNCHANGED worldVars

checkDACStatus ==
    /\ worker.at = "check"
    /\ worker' = [worker EXCEPT !.at = "report",
                     !.missing = CASE seen.objects["service"] = 0 -> "service"
                                   [] seen.objects["deployment"] = 0 -> "deployment"
                                   [] OTHER -> ""]
    /\ UNCHANGED <<worldVars, delayed>>

\* Variant: it is appended, even if there is one of its type.
AppendCondition(conditions, c) == Append(conditions, c)

SetCondition(conditions, c) ==
    IF \E i \in DOMAIN conditions : conditions[i].type = c.type
    THEN [i \in DOMAIN conditions |-> IF conditions[i].type = c.type THEN c ELSE conditions[i]]
    ELSE Append(conditions, c)

\* Newest first; the sort is stable.
Before(conditions, newest, i, j) ==
    LET New(k) == conditions[k].type \in newest
    IN  (New(i) /\ ~New(j)) \/ ((New(i) <=> New(j)) /\ i < j)

Place(conditions, newest, i) ==
    1 + Cardinality({j \in DOMAIN conditions : Before(conditions, newest, j, i)})

Sorted(conditions, newest) ==
    [p \in DOMAIN conditions |->
        conditions[CHOOSE i \in DOMAIN conditions : Place(conditions, newest, i) = p]]

\* (TLC evaluates what it takes from a set once.)
DescConditionsByTime(conditions, newest) ==
    CHOOSE s \in {Sorted(c, n) : c \in {conditions}, n \in {newest}} : TRUE

\* The status after a check.  Times are in seconds: the newest conditions there
\* were are of the same one if the clock has not ticked since.
Checked(old, version, missing, ticked) ==
    LET created == IF old.endpoint THEN old.conditions
                   ELSE SetCondition(old.conditions, [type |-> "Creating", message |-> ""])
        outcome == [type |-> IF missing = "" THEN "Available" ELSE "Failed", message |-> missing]
        newest == {outcome.type} \union (IF old.endpoint THEN {} ELSE {"Creating"})
                    \union (IF ticked THEN {} ELSE old.fresh)
    IN  [endpoint |-> old.endpoint \/ missing = "",
         active |-> IF missing = "" THEN version ELSE old.active,
         conditions |-> DescConditionsByTime(SetCondition(created, outcome), newest),
         fresh |-> newest]

\* Variant: a condition with a later time is another one.
isStatusEqual(old, new, ticked) ==
    ~ticked /\ old.endpoint = new.endpoint /\ old.active = new.active /\ old.conditions = new.conditions

isStatusEqualIgnoringTime(old, new, ticked) ==
    old.endpoint = new.endpoint /\ old.active = new.active /\ old.conditions = new.conditions

Update(status) ==
    container' = [container EXCEPT !.status = status,
                                   !.writes = IF status = container.status THEN 1 - @ ELSE @]

\* The update is refused if the container is no longer what the cache held; a
\* failed check is an error whether or not it was written down.
handleDACStatus ==
    /\ worker.at = "report"
    /\ \E ticked \in BOOLEAN :
         LET dac == worker.dac
             status == Checked(dac.status, dac.version, worker.missing, ticked)
             Return == IF worker.missing = "" THEN worker' = Idle /\ UNCHANGED delayed ELSE Fail
         IN  IF isStatusEqualIgnoringTime(dac.status, status, ticked) THEN UNCHANGED container /\ Return
             ELSE IF container = dac THEN Update(status) /\ Return
             ELSE UNCHANGED container /\ Fail
    /\ UNCHANGED <<objects, present>>

HandlerStep ==
    /\ worker # Idle /\ UNCHANGED <<seen, queued, ops, faults, missed>>
    /\ \/ CreateService \/ createConfigMapForSkills \/ CreateDeployment
       \/ checkDACStatus \/ handleDACStatus

\* A call of the handler fails.  Where an object is only looked up, an error is
\* as good as finding it; where it is checked, as good as not.
CallFails ==
    /\ Fault
    /\ \/ worker.at \in Kind \union {"report"} /\ Fail
       \/ worker.at = "service" /\ GoTo(IF Skills THEN "skills" ELSE "deployment")
       \/ worker.at = "deployment" /\ Described /\ GoTo("check")
       \/ /\ worker.at = "check"
          /\ \E k \in {"service", "deployment"} : worker' = [worker EXCEPT !.at = "report", !.missing = k]
          /\ UNCHANGED delayed
    /\ UNCHANGED <<worldVars, seen, queued, ops, missed>>

-----------------------------------------------------------------------------
\* The API server, the caches and the workqueue.
SyncContainer ==
    /\ seen.container # container
    /\ seen' = [seen EXCEPT !.container = container]
    /\ queued' = TRUE
    /\ UNCHANGED <<worldVars, delayed, worker, ops, faults, missed>>

SyncObject(k) ==
    /\ seen.objects[k] # objects[k]
    /\ seen' = [seen EXCEPT !.objects[k] = objects[k]]
    /\ missed' = (missed \/ seen.objects[k] # 0)
    /\ UNCHANGED <<worldVars, queued, delayed, worker, ops, faults>>

Requeue ==
    /\ delayed /\ delayed' = FALSE /\ queued' = TRUE
    /\ UNCHANGED <<worldVars, seen, worker, ops, faults, missed>>

\* Every ten hours.  While anything else is due it makes no difference.
Resync ==
    /\ seen.container.uid # 0 /\ worker = Idle /\ ~delayed /\ ~queued /\ queued' = TRUE
    /\ UNCHANGED <<worldVars, seen, delayed, worker, ops, faults, missed>>

\* The operator restarts, with caches and queue filled anew.
Crash ==
    /\ Fault
    /\ worker' = Idle /\ delayed' = FALSE
    /\ seen' = [container |-> container, objects |-> objects]
    /\ queued' = (container.uid # 0)
    /\ UNCHANGED <<worldVars, ops, missed>>

\* The garbage collector deletes what a container owned that is gone.
Collect(k) ==
    /\ objects[k] \notin {0, container.uid}
    /\ objects' = [objects EXCEPT ![k] = 0] /\ missed' = (missed \/ container.uid # 0)
    /\ UNCHANGED <<container, present, seen, queued, delayed, worker, ops, faults>>

\* Users.  A uid is never used twice: it grows with what was done.
Apply ==
    /\ container.uid = 0
    /\ container' = [Nobody EXCEPT !.uid = ops + 2, !.version = 1]
    /\ UNCHANGED <<objects, present>>
Edit ==
    /\ container.uid # 0
    /\ container' = [container EXCEPT !.version = @ + 1]
    /\ UNCHANGED <<objects, present>>
Delete ==
    /\ container.uid # 0 /\ container' = Nobody
    /\ UNCHANGED <<objects, present>>
Provide ==
    /\ present' = ~present
    /\ UNCHANGED <<container, objects>>

UserOp ==
    /\ ops < MaxOps /\ ops' = ops + 1
    /\ (Apply \/ Edit \/ Delete \/ Provide)
    /\ UNCHANGED <<seen, queued, delayed, worker, faults, missed>>

-----------------------------------------------------------------------------
Next ==
    \/ Reconcile \/ HandlerStep \/ CallFails
    \/ SyncContainer \/ Requeue \/ Resync \/ Crash \/ UserOp
    \/ \E k \in Kind : SyncObject(k) \/ Collect(k)

\* The worker and its queue go on, and so do the caches and the garbage
\* collector; nothing is said of which of two things that are due comes first.
Fairness ==
    /\ WF_vars(Reconcile \/ HandlerStep \/ Requeue)
    /\ WF_vars(SyncContainer \/ \E k \in Kind : SyncObject(k) \/ Collect(k))

Spec == Init /\ [][Next]_vars /\ Fairness

-----------------------------------------------------------------------------
Message == {"", "service", "deployment"}
Condition == [type : Type, message : Message]
Conditions == UNION {[1 .. n -> Condition] : n \in 0 .. 3}

\* What there can be of them after a number of operations of users.
Status(n) == [endpoint : BOOLEAN, active : 0 .. n, conditions : Conditions, fresh : SUBSET Type]
Container(n) == [uid : 0 .. n + 1, version : 0 .. n, writes : 0 .. 1, status : Status(n)]
Owners(n) == [Kind -> 0 .. n + 1]

TypeOK ==
    /\ container \in Container(ops) /\ objects \in Owners(ops)
    /\ seen \in [container : Container(ops), objects : Owners(ops)]
    /\ worker \in [at : Kind \union {"idle", "check", "report"}, dac : Container(ops), missing : Message]
    /\ ops \in 0 .. MaxOps /\ faults \in 0 .. MaxFaults
    /\ {present, queued, delayed, missed} \subseteq BOOLEAN

Types(conditions) == {conditions[i].type : i \in DOMAIN conditions}

Consistent(status) ==
    LET types == Types(status.conditions)
    IN  /\ Cardinality(types) = Len(status.conditions)
        /\ status.endpoint <=> "Available" \in types
        /\ types # {} => "Creating" \in types
        /\ ~status.endpoint => status.active = 0

\* What a reader of the status may rely on after any sequence of checks, races
\* and refused updates: there is one condition of each type, the endpoint is
\* set exactly if a check has ever found everything (and then it stays), and
\* descriptors are active only then.
StatusConsistent == Consistent(container.status)

Wanted == container.uid # 0 /\ present

Running ==
    LET status == container.status
    IN  /\ \A k \in Kind : objects[k] = container.uid \/ (k = "skills" /\ ~Skills)
        /\ status.endpoint /\ status.active = container.version

\* A container all of whose descriptors and config maps exist gets its service,
\* skills and deployment, its own and not those of an earlier container of the
\* name, and the status says so, whatever failed, crashed or was seen late.
\* The one exception: nothing tells the controller of an object that vanishes,
\* and until something else starts a reconciliation it stays away.
EventuallyRunning == <>[]Wanted => <>[](Running \/ missed)

\* The two are inductive together.
IInv == TypeOK /\ StatusConsistent

\* The status is not written for ever: that the clock ticks, or that a failing
\* check is repeated every ten seconds, makes no difference worth a write, each
\* of which would start the next reconciliation.
StatusSettles == <>[][container' = container]_vars
=============================================================================
