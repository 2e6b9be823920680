------------------------- MODULE SakuraOrchestrator -------------------------
(***************************************************************************)
(* core/sakura_framework/agent_orchestrator.py: tasks are named by the     *)
(* millisecond they are routed in and kept twice, in the order they came   *)
(* and by name.  Tasks that need a person's approval wait for it.          *)
(***************************************************************************)
EXTENDS Integers, Sequences

CONSTANTS
    Agent,              \* the names a caller may give
    Guarded,            \* those whose tasks always need approval
    Signature,          \* what approvers sign with
    MaxTasks, MaxMs     \* bounds

ASSUME OrchestratorParameters ==
    /\ Guarded \subseteq Agent
    /\ MaxMs \in Nat

NoSignature == "none"
NoTask == 0

VARIABLES
    ms,                 \* the clock, in milliseconds
    active_tasks,       \* task id -> the index of its task, or NoTask
    execution_history,  \* sequence of tasks
    routed_at,          \* history: the time each was routed
    named               \* history: the id the last step approved, or -1

orchestratorVars == <<ms, active_tasks, execution_history, routed_at, named>>

TaskId == 0 .. MaxMs
Status == {"PENDING_APPROVAL", "EXECUTED", "APPROVED_AND_EXECUTED"}
Task == [task_id : TaskId, target_agent : Agent, requires_human_approval : BOOLEAN,
         status : Status, approver_signature : Signature \cup {NoSignature}]

OrchestratorInit ==
    /\ ms = 0
    /\ active_tasks = [id \in TaskId |-> NoTask]
    /\ execution_history = << >>
    /\ routed_at = << >>
    /\ named = -1

\* Mutant: the name has half the precision of the clock.
coarse_name(t) == t \div 2

name_of(t) == t

\* Guarded agents need approval; a caller may ask for it with any other.
Routed(id, agent, asked) ==
    LET guarded == asked \/ agent \in Guarded
    IN  [task_id |-> id, target_agent |-> agent, requires_human_approval |-> guarded,
         status |-> IF guarded THEN "PENDING_APPROVAL" ELSE "EXECUTED",
         approver_signature |-> NoSignature]

route_agent_task(agent, asked) ==
    /\ Len(execution_history) < MaxTasks
    /\ execution_history' = Append(execution_history, Routed(name_of(ms), agent, asked))
    /\ active_tasks' = [active_tasks EXCEPT ![name_of(ms)] = Len(execution_history) + 1]
    /\ routed_at' = Append(routed_at, ms)
    /\ named' = -1
    /\ UNCHANGED ms

Approved(task, signature) ==
    [task EXCEPT !.status = "APPROVED_AND_EXECUTED", !.approver_signature = signature]

\* Mutant: the first task of that name is approved.
approve_first(id, signature) ==
    /\ active_tasks[id] # NoTask
    /\ LET i == CHOOSE k \in 1 .. Len(execution_history) :
                    /\ execution_history[k].task_id = id
                    /\ \A j \in 1 .. k - 1 : execution_history[j].task_id # id
       IN  execution_history' = [execution_history EXCEPT ![i] = Approved(@, signature)]
    /\ named' = id
    /\ UNCHANGED <<ms, active_tasks, routed_at>>

\* Whatever the status of the task is.  A signature that is not a text is noted
\* as well; only the log line after it raises.
approve_human_in_the_loop_task(id, signature) ==
    /\ active_tasks[id] # NoTask
    /\ execution_history' =
          [execution_history EXCEPT ![active_tasks[id]] = Approved(@, signature)]
    /\ named' = id
    /\ UNCHANGED <<ms, active_tasks, routed_at>>

\* An ERROR answer.
NotFoundTask(id) ==
    /\ active_tasks[id] = NoTask
    /\ named' = -1
    /\ UNCHANGED <<ms, active_tasks, execution_history, routed_at>>

\* Time is the computer's own: it may be set back.
ClockMoves ==
    /\ ms' \in TaskId \ {ms}
    /\ named' = -1
    /\ UNCHANGED <<active_tasks, execution_history, routed_at>>

Approval ==
    \E id \in TaskId :
        \/ \E signature \in Signature : approve_human_in_the_loop_task(id, signature)
        \/ NotFoundTask(id)

OrchestratorNext ==
    \/ \E agent \in Agent, asked \in BOOLEAN : route_agent_task(agent, asked)
    \/ Approval
    \/ ClockMoves

OrchestratorSpec == OrchestratorInit /\ [][OrchestratorNext]_orchestratorVars

list_recent_tasks(limit) ==
    LET n == Len(execution_history)
    IN  IF limit = 0 \/ n <= limit THEN execution_history
        ELSE SubSeq(execution_history, n - limit + 1, n)

OrchestratorTypeOK ==
    /\ ms \in TaskId
    /\ active_tasks \in [TaskId -> 0 .. Len(execution_history)]
    /\ execution_history \in Seq(Task)
    /\ routed_at \in Seq(TaskId)
    /\ Len(routed_at) = Len(execution_history)
    /\ named \in TaskId \cup {-1}

\* A task that waits for approval can be approved under its name unless
\* another was routed in the same millisecond: that one took the name, and
\* the task that had it stays pending for good.
LostNeedsSameMillisecond ==
    \A i \in 1 .. Len(execution_history) :
        active_tasks[execution_history[i].task_id] # i
            => \E j \in i + 1 .. Len(execution_history) : routed_at[j] = routed_at[i]

\* No task leaves the state it was routed in but by an approval that names it,
\* and an approval reaches the youngest task of its name.
ApprovedByName ==
    [][\A i \in 1 .. Len(execution_history) :
          execution_history'[i] # execution_history[i] =>
              /\ named' = execution_history[i].task_id
              /\ \A j \in i + 1 .. Len(execution_history) :
                    execution_history[j].task_id # execution_history[i].task_id
      ]_orchestratorVars
=============================================================================
