-------------------------- MODULE Programs_proofs ---------------------------
(***************************************************************************)
(* The programs around the chain: the agent that starts trading bots, the  *)
(* oracle's orchestrator, the faucet, the miner of the proof of work, the  *)
(* indexer, the distribution script, the REST server with its referral     *)
(* engine, and the tools of the wallet.  All that follows holds for any    *)
(* owners, agents, addresses, clients and keys.                            *)
(***************************************************************************)
EXTENDS FreqtradeAgent, SakuraOrchestrator, NodeMonitors, ProofOfWork,
        Distributor, RestServer, WalletTools, Keys,
        RecursionTheorems

(* core/freqtrade_agent.py *)

AgentInv == AgentTypeOK /\ BotInHand

LEMMA InitAgentInv == AgentInit => AgentInv
  BY DEF AgentInit, AgentInv, AgentTypeOK, BotInHand, Pids, NoPid

\* What a process that is started leaves as it was.
LEMMA SpawnAppends ==
  ASSUME AgentTypeOK, NEW kind \in {"bot", "bridge"}, NEW a \in Owner, Spawn(kind, a)
  PROVE  /\ started' \in Seq({"bot", "bridge"} \X Owner)
         /\ Len(started') = next_pid
         /\ started'[next_pid] = <<kind, a>>
         /\ \A p \in Pids : started'[p] = started[p]
         /\ next_pid \in Pids' /\ next_pid \notin Pids /\ Pids \subseteq Pids'
         /\ alive' = alive \cup {next_pid}
  BY DEF AgentTypeOK, Spawn, next_pid, Pids

\* A bot is started when the one in hand has ended, and becomes the one in hand.
LEMMA StartBotKeeps ==
  ASSUME AgentInv, NEW a \in Owner, start_bot(a)
  PROVE  AgentInv'
<1> USE DEF AgentInv
<1>1. CASE UNCHANGED processVars
  BY <1>1 DEF processVars, AgentTypeOK, BotInHand, Pids
<1>2. CASE /\ ~BotRuns(a)
           /\ Spawn("bot", a)
           /\ bot_process' = [bot_process EXCEPT ![a] = next_pid]
           /\ UNCHANGED <<bridge_process, waiting>>
  <2>1. /\ started' \in Seq({"bot", "bridge"} \X Owner)
        /\ started'[next_pid] = <<"bot", a>>
        /\ \A p \in Pids : started'[p] = started[p]
        /\ next_pid \in Pids' /\ next_pid \notin Pids /\ Pids \subseteq Pids'
        /\ alive' = alive \cup {next_pid}
    BY <1>2, SpawnAppends
  <2>2. AgentTypeOK'
    BY <1>2, <2>1 DEF AgentTypeOK
  <2>3. BotInHand'
    <3> SUFFICES ASSUME NEW b \in Owner, NEW p \in alive', started'[p] = <<"bot", b>>
                 PROVE  bot_process'[b] = p
      BY DEF BotInHand
    <3>1. CASE p = next_pid
      BY <1>2, <2>1, <3>1 DEF AgentTypeOK
    <3>2. CASE p \in alive
      <4>1. p \in Pids /\ started[p] = <<"bot", b>>
        BY <2>1, <3>2 DEF AgentTypeOK
      <4>2. bot_process[b] = p
        BY <3>2, <4>1 DEF BotInHand
      <4>3. b # a
        BY <1>2, <3>2, <4>2 DEF BotRuns
      <4> QED
        BY <1>2, <4>2, <4>3 DEF AgentTypeOK
    <3> QED
      BY <2>1, <3>1, <3>2
  <2> QED
    BY <2>2, <2>3
<1> QED
  BY <1>1, <1>2 DEF start_bot

\* A bridge is no bot.
LEMMA StartBridgeKeeps ==
  ASSUME AgentInv, NEW a \in Owner, start_bridge(a)
  PROVE  AgentInv'
<1> USE DEF AgentInv
<1>0. /\ Spawn("bridge", a)
      /\ bridge_process' = [bridge_process EXCEPT ![a] = next_pid]
      /\ bot_process' = bot_process
  BY DEF start_bridge
<1>1. /\ started' \in Seq({"bot", "bridge"} \X Owner)
      /\ started'[next_pid] = <<"bridge", a>>
      /\ \A p \in Pids : started'[p] = started[p]
      /\ next_pid \in Pids' /\ Pids \subseteq Pids'
      /\ alive' = alive \cup {next_pid}
  BY <1>0, SpawnAppends
<1>2. AgentTypeOK'
  BY <1>0, <1>1 DEF AgentTypeOK
<1>3. BotInHand'
  BY <1>0, <1>1 DEF AgentTypeOK, BotInHand
<1> QED
  BY <1>2, <1>3

\* The steps that start nothing: no handle changes, and at most a process ends.
LEMMA OthersKeep ==
  ASSUME AgentInv, UNCHANGED <<bot_process, bridge_process, started>>, alive' \subseteq alive
  PROVE  AgentInv'
  BY DEF AgentInv, AgentTypeOK, BotInHand, Pids

LEMMA NextAgentInv == AgentInv /\ [AgentNext]_agentVars => AgentInv'
<1> SUFFICES ASSUME AgentInv, [AgentNext]_agentVars PROVE AgentInv'
  OBVIOUS
<1>1. ASSUME NEW a \in Owner, start_bot(a) PROVE AgentInv'
  BY <1>1, StartBotKeeps
<1>2. ASSUME NEW a \in Owner, start_bridge(a) PROVE AgentInv'
  BY <1>2, StartBridgeKeeps
<1>3. ASSUME UNCHANGED <<bot_process, bridge_process, started>>, alive' \subseteq alive
      PROVE  AgentInv'
  BY <1>3, OthersKeep
<1>4. ASSUME NEW a \in Owner, UseAgent(a) PROVE AgentInv'
  BY <1>1, <1>2, <1>3, <1>4
     DEF UseAgent, stop_bot, get_agent_status, AskBot, submit_proof, processVars
<1>5. ASSUME NEW a \in Owner, Construct(a) \/ Waited(a) \/ main_status(a) PROVE AgentInv'
  BY <1>3, <1>5
     DEF Construct, Waited, stop_bot_waited, main_status, get_agent_status, processVars
<1>6. ASSUME NEW a \in Owner, main_start_bot(a) \/ main_start_bridge(a) PROVE AgentInv'
  BY <1>1, <1>2, <1>6 DEF main_start_bot, main_start_bridge
<1>7. ASSUME NEW p \in alive, Exit(p) PROVE AgentInv'
  BY <1>3, <1>7 DEF Exit
<1>8. CASE UNCHANGED agentVars
  BY <1>3, <1>8 DEF agentVars, processVars
<1> QED
  BY <1>4, <1>5, <1>6, <1>7, <1>8 DEF AgentNext

\* For any number of agent objects and processes, stop_bot and start_bot leave no
\* object with two bots that run.
THEOREM OneBotEach == AgentSpec => []OneBot
<1>1. AgentInv => OneBot
  BY DEF AgentInv, BotInHand, OneBot
<1> QED
  BY <1>1, InitAgentInv, NextAgentInv, PTL DEF AgentSpec

\* A handle names a process that was once started, and a process that runs was
\* started: ids are given out one by one, and a handle is never given one ahead.
THEOREM HandlesName == AgentSpec => []AgentTypeOK
<1>1. AgentInv => AgentTypeOK
  BY DEF AgentInv
<1> QED
  BY <1>1, InitAgentInv, NextAgentInv, PTL DEF AgentSpec

-----------------------------------------------------------------------------
(* core/sakura_framework/agent_orchestrator.py *)

Index == 1 .. Len(execution_history)

\* A task is named by the time it was routed, and a name leads to the youngest
\* task that bears it.
NamesInv ==
    /\ \A i \in Index : execution_history[i].task_id = routed_at[i]
    /\ \A id \in TaskId : \A i \in Index :
          execution_history[i].task_id = id => i <= active_tasks[id]
    /\ \A id \in TaskId :
          active_tasks[id] # NoTask => execution_history[active_tasks[id]].task_id = id

TasksInv == OrchestratorTypeOK /\ NamesInv

LEMMA InitTasksInv == OrchestratorInit => TasksInv
  BY OrchestratorParameters
  DEF OrchestratorInit, TasksInv, OrchestratorTypeOK, NamesInv, Index, TaskId, NoTask

LEMMA RoutedIsTask ==
  ASSUME NEW id \in TaskId, NEW agent \in Agent, NEW sensitive \in BOOLEAN
  PROVE  Routed(id, agent, sensitive) \in Task /\ Routed(id, agent, sensitive).task_id = id
  BY DEF Routed, Task, Status

LEMMA ApprovedIsTask ==
  ASSUME NEW task \in Task, NEW signature \in Signature
  PROVE  Approved(task, signature) \in Task /\ Approved(task, signature).task_id = task.task_id
  BY DEF Approved, Task, Status

\* A new task takes over its name.
LEMMA RouteKeeps ==
  ASSUME TasksInv, NEW agent \in Agent, NEW sensitive \in BOOLEAN, route_agent_task(agent, sensitive)
  PROVE  TasksInv'
<1> DEFINE n == Len(execution_history) + 1
           task == Routed(ms, agent, sensitive)
<1>1. ms \in TaskId /\ task \in Task /\ task.task_id = ms
  BY RoutedIsTask DEF TasksInv, OrchestratorTypeOK
<1>2. /\ execution_history \in Seq(Task) /\ routed_at \in Seq(TaskId)
      /\ Len(routed_at) = Len(execution_history)
      /\ active_tasks \in [TaskId -> 0 .. Len(execution_history)]
  BY DEF TasksInv, OrchestratorTypeOK
<1>3. /\ execution_history' = Append(execution_history, task)
      /\ active_tasks' = [active_tasks EXCEPT ![ms] = n]
      /\ routed_at' = Append(routed_at, ms)
      /\ named' = -1 /\ ms' = ms
  BY DEF route_agent_task, name_of
<1> HIDE DEF task
<1>4. OrchestratorTypeOK'
  BY <1>1, <1>2, <1>3 DEF OrchestratorTypeOK
<1>5. /\ Len(execution_history') = n /\ n \in Nat
      /\ execution_history'[n] = task /\ routed_at'[n] = ms
      /\ \A i \in Index : execution_history'[i] = execution_history[i]
      /\ \A i \in Index : routed_at'[i] = routed_at[i]
      /\ Index' = Index \cup {n} /\ n \notin Index
  BY <1>1, <1>2, <1>3 DEF Index
<1>6. ASSUME NEW i \in Index' PROVE execution_history'[i].task_id = routed_at'[i]
  BY <1>1, <1>5, <1>6 DEF TasksInv, NamesInv
<1>7. ASSUME NEW id \in TaskId, NEW i \in Index', execution_history'[i].task_id = id
      PROVE  i <= active_tasks'[id]
  <2>1. CASE id = ms
    BY <1>2, <1>3, <1>5, <2>1 DEF Index
  <2>2. CASE id # ms
    <3>1. i \in Index /\ execution_history[i].task_id = id
      BY <1>1, <1>5, <1>7, <2>2
    <3>2. active_tasks'[id] = active_tasks[id]
      BY <1>2, <1>3, <2>2
    <3> QED
      BY <3>1, <3>2 DEF TasksInv, NamesInv
  <2> QED
    BY <2>1, <2>2
<1>8. ASSUME NEW id \in TaskId, active_tasks'[id] # NoTask
      PROVE  execution_history'[active_tasks'[id]].task_id = id
  <2>1. CASE id = ms
    BY <1>1, <1>2, <1>3, <1>5, <2>1
  <2>2. CASE id # ms
    <3>1. active_tasks'[id] = active_tasks[id]
      BY <1>2, <1>3, <2>2
    <3>2. active_tasks[id] \in Index
      BY <1>2, <1>8, <3>1 DEF Index, NoTask
    <3> QED
      BY <1>5, <1>8, <3>1, <3>2 DEF TasksInv, NamesInv
  <2> QED
    BY <2>1, <2>2
<1> QED
  BY <1>4, <1>6, <1>7, <1>8 DEF TasksInv, NamesInv

\* What an approval changes, and what it leaves as it was.
LEMMA ApproveTouches ==
  ASSUME TasksInv, NEW id \in TaskId, NEW signature \in Signature,
         approve_human_in_the_loop_task(id, signature)
  PROVE  /\ execution_history' \in Seq(Task)
         /\ Len(execution_history') = Len(execution_history)
         /\ active_tasks[id] \in Index
         /\ \A i \in Index : /\ execution_history'[i].task_id = execution_history[i].task_id
                             /\ i # active_tasks[id] => execution_history'[i] = execution_history[i]
<1> DEFINE k == active_tasks[id]
<1>1. /\ execution_history \in Seq(Task)
      /\ active_tasks \in [TaskId -> 0 .. Len(execution_history)]
  BY DEF TasksInv, OrchestratorTypeOK
<1>2. k \in Index
  BY <1>1 DEF approve_human_in_the_loop_task, Index, NoTask
<1>3. execution_history[k] \in Task
  BY <1>1, <1>2 DEF Index
<1> DEFINE after == Approved(execution_history[k], signature)
<1>4. after \in Task /\ after.task_id = execution_history[k].task_id
  BY <1>3, ApprovedIsTask
<1>5. execution_history' = [execution_history EXCEPT ![k] = after]
  BY DEF approve_human_in_the_loop_task
<1> HIDE DEF after, k
<1>6. /\ execution_history' \in Seq(Task)
      /\ Len(execution_history') = Len(execution_history)
  BY <1>1, <1>2, <1>4, <1>5 DEF Index
<1>7. ASSUME NEW i \in Index
      PROVE  /\ execution_history'[i].task_id = execution_history[i].task_id
             /\ i # k => execution_history'[i] = execution_history[i]
  BY <1>1, <1>2, <1>4, <1>5 DEF Index
<1> QED
  BY <1>2, <1>6, <1>7 DEF k

\* Everything but a new task leaves the names and the number of tasks alone.
LEMMA SameNamesKeep ==
  ASSUME TasksInv,
         execution_history' \in Seq(Task), Len(execution_history') = Len(execution_history),
         \A i \in Index : execution_history'[i].task_id = execution_history[i].task_id,
         UNCHANGED <<active_tasks, routed_at>>,
         ms' \in TaskId, named' \in TaskId \cup {-1}
  PROVE  TasksInv'
<1>1. OrchestratorTypeOK'
  BY DEF TasksInv, OrchestratorTypeOK
<1>2. Index' = Index
  BY DEF Index
<1>3. \A id \in TaskId : active_tasks[id] # NoTask => active_tasks[id] \in Index
  BY DEF TasksInv, OrchestratorTypeOK, Index, NoTask
<1>4. NamesInv'
  BY <1>2, <1>3 DEF TasksInv, NamesInv
<1> QED
  BY <1>1, <1>4 DEF TasksInv

LEMMA NextTasksInv == TasksInv /\ [OrchestratorNext]_orchestratorVars => TasksInv'
<1> SUFFICES ASSUME TasksInv, [OrchestratorNext]_orchestratorVars PROVE TasksInv'
  OBVIOUS
<1>0. /\ execution_history \in Seq(Task) /\ ms \in TaskId /\ named \in TaskId \cup {-1}
  BY DEF TasksInv, OrchestratorTypeOK
<1>1. ASSUME NEW agent \in Agent, NEW sensitive \in BOOLEAN, route_agent_task(agent, sensitive)
      PROVE  TasksInv'
  BY <1>1, RouteKeeps
<1>2. ASSUME NEW id \in TaskId, NEW signature \in Signature,
             approve_human_in_the_loop_task(id, signature)
      PROVE  TasksInv'
  <2>1. /\ execution_history' \in Seq(Task)
        /\ Len(execution_history') = Len(execution_history)
        /\ \A i \in Index : execution_history'[i].task_id = execution_history[i].task_id
    BY <1>2, ApproveTouches
  <2>2. UNCHANGED <<ms, active_tasks, routed_at>> /\ named' = id
    BY <1>2 DEF approve_human_in_the_loop_task
  <2> QED
    BY <1>0, <2>1, <2>2, SameNamesKeep
<1>3. ASSUME NEW id \in TaskId, NotFoundTask(id) PROVE TasksInv'
  BY <1>0, <1>3, SameNamesKeep DEF NotFoundTask
<1>4. CASE ClockMoves
  BY <1>0, <1>4, SameNamesKeep DEF ClockMoves
<1>5. CASE UNCHANGED orchestratorVars
  BY <1>0, <1>5, SameNamesKeep DEF orchestratorVars
<1> QED
  BY <1>1, <1>2, <1>3, <1>4, <1>5 DEF OrchestratorNext, Approval

LEMMA TasksInvAlways == OrchestratorSpec => []TasksInv
  BY InitTasksInv, NextTasksInv, PTL DEF OrchestratorSpec

\* A name leads to a task of the history or to none, and the history and the
\* times of routing have one entry each for every task.
THEOREM NamesLeadToTasks == OrchestratorSpec => []OrchestratorTypeOK
<1>1. TasksInv => OrchestratorTypeOK
  BY DEF TasksInv
<1> QED
  BY <1>1, TasksInvAlways, PTL

\* For any agents, signatures, number of tasks and whatever the clock does: a
\* task can be reached by its name unless a later one of its millisecond took it.
THEOREM NamesLostInOneMillisecond == OrchestratorSpec => []LostNeedsSameMillisecond
<1>1. ASSUME TasksInv, NEW i \in Index, active_tasks[execution_history[i].task_id] # i
      PROVE  \E j \in i + 1 .. Len(execution_history) : routed_at[j] = routed_at[i]
  <2> DEFINE id == execution_history[i].task_id
             k == active_tasks[id]
  <2>0. /\ execution_history \in Seq(Task)
        /\ active_tasks \in [TaskId -> 0 .. Len(execution_history)]
    BY <1>1 DEF TasksInv, OrchestratorTypeOK
  <2>1. id \in TaskId /\ k \in 0 .. Len(execution_history)
    <3>1. execution_history[i] \in Task
      BY <1>1, <2>0 DEF Index
    <3>2. id \in TaskId
      BY <3>1 DEF Task
    <3> QED
      BY <2>0, <3>2
  <2>2. i <= k /\ i \in Nat /\ i > 0
    BY <1>1, <2>1 DEF TasksInv, NamesInv, Index
  <2>3. k \in i + 1 .. Len(execution_history) /\ k \in Index
    BY <1>1, <2>1, <2>2 DEF Index
  <2>4. execution_history[k].task_id = id
    BY <1>1, <2>1, <2>3 DEF TasksInv, NamesInv, Index, NoTask
  <2>5. routed_at[k] = execution_history[k].task_id /\ routed_at[i] = id
    BY <1>1, <2>3 DEF TasksInv, NamesInv
  <2> QED
    BY <2>3, <2>4, <2>5
<1>2. TasksInv => LostNeedsSameMillisecond
  BY <1>1 DEF LostNeedsSameMillisecond, Index
<1> QED
  BY <1>2, TasksInvAlways, PTL

\* And nothing but an approval that names it, and reaches it, changes a task.
THEOREM TasksApprovedByName == OrchestratorSpec => ApprovedByName
<1> DEFINE Step ==
      \A i \in 1 .. Len(execution_history) :
          execution_history'[i] # execution_history[i] =>
              /\ named' = execution_history[i].task_id
              /\ \A j \in i + 1 .. Len(execution_history) :
                    execution_history[j].task_id # execution_history[i].task_id
<1>1. ASSUME TasksInv, [OrchestratorNext]_orchestratorVars PROVE Step
  <2>1. ASSUME NEW agent \in Agent, NEW sensitive \in BOOLEAN, route_agent_task(agent, sensitive)
        PROVE  Step
    <3>1. execution_history \in Seq(Task) /\ Routed(ms, agent, sensitive) \in Task
      BY <1>1, RoutedIsTask, <2>1 DEF TasksInv, OrchestratorTypeOK
    <3>2. execution_history' = Append(execution_history, Routed(ms, agent, sensitive))
      BY <2>1 DEF route_agent_task, name_of
    <3> QED
      BY <3>1, <3>2
  <2>2. ASSUME NEW id \in TaskId, NEW signature \in Signature,
               approve_human_in_the_loop_task(id, signature)
        PROVE  Step
    <3>1. /\ active_tasks[id] \in Index
          /\ \A i \in Index : i # active_tasks[id] => execution_history'[i] = execution_history[i]
      BY <1>1, <2>2, ApproveTouches
    <3>2. named' = id /\ active_tasks[id] # NoTask
      BY <2>2 DEF approve_human_in_the_loop_task
    <3>3. execution_history[active_tasks[id]].task_id = id
      BY <1>1, <3>2 DEF TasksInv, NamesInv
    <3>4. ASSUME NEW j \in Index, execution_history[j].task_id = id PROVE j <= active_tasks[id]
      BY <1>1, <3>4 DEF TasksInv, NamesInv
    <3> QED
      BY <3>1, <3>2, <3>3, <3>4 DEF Index
  <2>3. CASE execution_history' = execution_history
    BY <2>3
  <2> QED
    BY <1>1, <2>1, <2>2, <2>3
    DEF OrchestratorNext, Approval, NotFoundTask, ClockMoves, orchestratorVars
<1> QED
  BY <1>1, TasksInvAlways, PTL DEF OrchestratorSpec, ApprovedByName

-----------------------------------------------------------------------------
(* scripts/start_testnet_faucet.py *)

\* What was dispensed since the last start is remembered.
Remembered(a) ==
    dispensed[a] > 0 /\ dispensed_in[a] = epoch => last_claims[a] = dispensed_at[a]

ClaimsInv ==
    /\ now \in Nat /\ epoch \in Nat
    /\ last_claims \in [Address -> Nat \cup {NotInCooldown}]
    /\ dispensed \in [Address -> Nat]
    /\ dispensed_at \in [Address -> Nat]
    /\ dispensed_in \in [Address -> Nat]
    /\ \A a \in Address : dispensed_in[a] <= epoch /\ Remembered(a)

LEMMA InitClaimsInv == FaucetInit => ClaimsInv
  BY DEF FaucetInit, ClaimsInv, Remembered, NotInCooldown

LEMMA NextClaimsInv == ClaimsInv /\ [FaucetNext]_faucetVars => ClaimsInv'
<1> SUFFICES ASSUME ClaimsInv, [FaucetNext]_faucetVars PROVE ClaimsInv'
  OBVIOUS
<1>1. ASSUME NEW a \in Address, Dispense(a) PROVE ClaimsInv'
  BY <1>1 DEF ClaimsInv, Remembered, Dispense
<1>2. CASE Restart
  BY <1>2 DEF ClaimsInv, Remembered, Restart
<1>3. CASE UNCHANGED <<last_claims, epoch, dispensed, dispensed_at, dispensed_in>> /\ now' \in Nat
  BY <1>3 DEF ClaimsInv, Remembered
<1>4. now \in Nat /\ now + 1 \in Nat
  BY DEF ClaimsInv
<1>5. ASSUME NEW s \in Spelling, Claim(s) PROVE ClaimsInv'
  <2>1. Lower[s] \in Address
    BY FaucetParameters
  <2> QED
    BY <1>1, <1>3, <1>4, <1>5, <2>1 DEF Claim, Refuse
<1>6. CASE Malformed \/ Page \/ Hour \/ UNCHANGED faucetVars
  BY <1>3, <1>4, <1>6 DEF Malformed, Page, Hour, faucetVars
<1> QED
  BY <1>2, <1>5, <1>6 DEF FaucetNext

\* For any addresses, spellings, cooldown and number of starts.
THEOREM ClaimsKeepApart == FaucetSpec => ClaimsApart
<1> DEFINE Step ==
      \A a \in Address :
          dispensed'[a] > dispensed[a] /\ dispensed[a] > 0 /\ dispensed_in[a] = epoch
              => now - dispensed_at[a] >= COOLDOWN
<1>1. ASSUME ClaimsInv, [FaucetNext]_faucetVars PROVE Step
  <2>1. ASSUME NEW b \in Address, Dispense(b) PROVE Step
    <3> SUFFICES ASSUME NEW a \in Address,
                        dispensed'[a] > dispensed[a], dispensed[a] > 0, dispensed_in[a] = epoch
                 PROVE  now - dispensed_at[a] >= COOLDOWN
      OBVIOUS
    <3>1. a = b
      BY <1>1, <2>1 DEF ClaimsInv, Dispense
    <3>2. last_claims[a] = dispensed_at[a] /\ dispensed_at[a] \in Nat /\ now \in Nat
      BY <1>1 DEF ClaimsInv, Remembered
    <3> QED
      BY <2>1, <3>1, <3>2, FaucetParameters DEF Dispense, RateLimited, NotInCooldown
  <2>2. CASE dispensed' = dispensed
    BY <1>1, <2>2 DEF ClaimsInv
  <2>3. ASSUME NEW s \in Spelling, Claim(s) PROVE Step
    <3>1. Lower[s] \in Address
      BY FaucetParameters
    <3> QED
      BY <2>1, <2>2, <2>3, <3>1 DEF Claim, Refuse
  <2> QED
    BY <1>1, <2>2, <2>3 DEF FaucetNext, Malformed, Page, Restart, Hour, faucetVars
<1>2. FaucetSpec => []ClaimsInv
  BY InitClaimsInv, NextClaimsInv, PTL DEF FaucetSpec
<1> QED
  BY <1>1, <1>2, PTL DEF FaucetSpec, ClaimsApart

-----------------------------------------------------------------------------
(* contracts/PISOProofOfWork.sol and core/pow.py                           *)

Challenge ==
    [targetDifficulty : Difficulties, rewardAmount : Nat, active : BOOLEAN,
     solver : Miner \cup {Nobody}]

Results ==
    [id : Nat, bits : Int, hash : {"none", "keccak256", "sha256"}, nonce : Int,
     verified : BOOLEAN]

\* The reward of a challenge, which never changes.
RewardAt(i) == challenges[i].rewardAmount

PowInv ==
    /\ challenges \in Seq(Challenge)
    /\ donated \in Nat
    /\ \A i \in DOMAIN challenges : challenges[i].active <=> challenges[i].solver = Nobody
    /\ EscrowCovered
    /\ solution \in [Miner -> Results]
    /\ \A m \in Miner : solution[m].verified =>
          /\ solution[m].id \in DOMAIN challenges
          /\ solution[m].bits \in Difficulties
          /\ solution[m].nonce \in Nonce
          /\ verify_proof(solution[m].hash, m, solution[m].nonce, solution[m].bits)

\* What an invariant state offers to every action.
LEMMA PowSums ==
  ASSUME PowInv
  PROVE  /\ IsFiniteSet(Open) /\ IsFiniteSet(Solved)
         /\ Open \subseteq DOMAIN challenges /\ Solved \subseteq DOMAIN challenges
         /\ \A i \in DOMAIN challenges : challenges[i] \in Challenge /\ RewardAt(i) \in Nat
         /\ RewardOf(Open) \in Nat /\ RewardOf(Solved) \in Nat
<1>1. /\ DOMAIN challenges = 1 .. Len(challenges)
      /\ Len(challenges) \in Nat
      /\ \A i \in DOMAIN challenges : challenges[i] \in Challenge
  BY DEF PowInv
<1>2. IsFiniteSet(DOMAIN challenges)
  BY <1>1, FS_Interval
<1>3. IsFiniteSet(Open) /\ IsFiniteSet(Solved)
  BY <1>2, FS_Subset DEF Open, Solved
<1>4. \A i \in DOMAIN challenges : RewardAt(i) \in Nat
  BY <1>1 DEF Challenge, RewardAt
<1>5. ASSUME NEW S \in SUBSET DOMAIN challenges PROVE RewardOf(S) \in Nat
  <2>1. [i \in S |-> RewardAt(i)] \in [S -> Nat]
    BY <1>4
  <2>2. IsFiniteSet(S)
    BY <1>2, FS_Subset
  <2> QED
    BY <2>1, <2>2, SumNat DEF RewardOf, RewardAt
<1>6. Open \in SUBSET DOMAIN challenges /\ Solved \in SUBSET DOMAIN challenges
  BY DEF Open, Solved
<1> QED
  BY <1>1, <1>3, <1>4, <1>5, <1>6

\* Taking up one more challenge adds its reward.
LEMMA OneReward ==
  ASSUME PowInv, NEW S \in SUBSET DOMAIN challenges, NEW i \in DOMAIN challenges, i \notin S
  PROVE  RewardOf(S \cup {i}) = RewardOf(S) + RewardAt(i)
<1>1. \A k \in DOMAIN challenges : RewardAt(k) \in Nat
  BY PowSums
<1>2. IsFiniteSet(S)
  <2>1. DOMAIN challenges = 1 .. Len(challenges) /\ Len(challenges) \in Nat
    BY DEF PowInv
  <2>2. IsFiniteSet(DOMAIN challenges)
    BY <2>1, FS_Interval
  <2> QED
    BY <2>2, FS_Subset
<1> DEFINE f == [k \in S |-> RewardAt(k)]
           g == [k \in S \cup {i} |-> RewardAt(k)]
<1>3. f \in [S -> Int] /\ g \in [S \cup {i} -> Int] /\ \A k \in S : g[k] = f[k]
  BY <1>1
<1>4. g[i] = RewardAt(i)
  OBVIOUS
<1>5. RewardOf(S) = SumFunction(f) /\ RewardOf(S \cup {i}) = SumFunction(g)
  BY DEF RewardOf, RewardAt
<1> HIDE DEF f, g
<1>6. SumFunction(g) = SumFunction(f) + g[i]
  BY <1>2, <1>3, SumInsert
<1> QED
  BY <1>4, <1>5, <1>6

\* Both sides shift by the same number of bits, and a larger one gives no larger
\* target.
LEMMA Targets ==
  /\ \A bits \in Difficulties : targetValue(bits) = difficulty_to_target(bits)
  /\ \A bits \in Difficulties : targetValue(bits) \in Nat
  /\ \A b, c \in Difficulties : b <= c => targetValue(c) <= targetValue(b)
<1>1. /\ Shifted \in [Nat -> Nat]
      /\ \A m, n \in Nat : m <= n => Shifted[n] <= Shifted[m]
  BY Halving, PowParameters DEF Shifted
<1>2. \A bits \in Difficulties : /\ bits \in Nat
                                 /\ targetValue(bits) = Shifted[bits]
                                 /\ difficulty_to_target(bits) = Shifted[bits]
  BY PowParameters DEF targetValue, difficulty_to_target
<1> QED
  BY <1>1, <1>2

LEMMA InitPowInv == PowInit => PowInv
<1> SUFFICES ASSUME PowInit PROVE PowInv
  OBVIOUS
<1>1. challenges = <<>> /\ DOMAIN challenges = {} /\ Open = {} /\ Solved = {}
  BY DEF PowInit, Open, Solved
<1>2. RewardOf({}) = 0
  BY SumEmpty DEF RewardOf
<1>3. EscrowCovered
  BY <1>1, <1>2 DEF PowInit, EscrowCovered
<1>4. solution \in [Miner -> Results] /\ \A m \in Miner : ~solution[m].verified
  BY DEF PowInit, Idle, Results, NoNonce
<1> QED
  BY <1>1, <1>3, <1>4 DEF PowInit, PowInv

\* What a miner found, it found among the nonces, and it passes the check it was
\* found by.
LEMMA MineResult ==
  ASSUME NEW hash, NEW m \in Miner, NEW bits,
         mine(hash, m, bits) # NoNonce
  PROVE  /\ mine(hash, m, bits) \in Nonce
         /\ verify_proof(hash, m, mine(hash, m, bits), bits)
<1> DEFINE passing == {n \in Nonce : verify_proof(hash, m, n, bits)}
<1>1. passing # {} /\ passing \in SUBSET Nat
  BY PowParameters DEF mine
<1>2. \E n \in passing : \A k \in passing : n <= k
  <2> HIDE DEF passing
  <2> QED
    BY <1>1, LeastNumber
<1>3. mine(hash, m, bits) \in passing
  BY <1>1, <1>2 DEF mine
<1> QED
  BY <1>3

LEMMA CreateKeepsPowInv ==
  ASSUME PowInv, NEW bits \in Difficulties, NEW value \in Rewards, createChallenge(bits, value)
  PROVE  PowInv'
<1> DEFINE ch == [targetDifficulty |-> bits, rewardAmount |-> value, active |-> TRUE,
                  solver |-> Nobody]
           n == Len(challenges)
<1>1. n \in Nat /\ DOMAIN challenges = 1 .. n /\ value \in Nat
  BY PowParameters DEF PowInv
<1>2. ch \in Challenge
  BY <1>1 DEF Challenge
<1>3. challenges' = Append(challenges, ch)
  BY DEF createChallenge
<1>4. /\ challenges' \in Seq(Challenge)
      /\ DOMAIN challenges' = DOMAIN challenges \cup {n + 1}
      /\ \A i \in DOMAIN challenges : challenges'[i] = challenges[i]
      /\ challenges'[n + 1] = ch
      /\ n + 1 \notin DOMAIN challenges
  <2>1. /\ challenges' \in Seq(Challenge)
        /\ Len(challenges') = n + 1
        /\ \A i \in 1 .. n : challenges'[i] = challenges[i]
        /\ challenges'[n + 1] = ch
    BY <1>2, <1>3 DEF PowInv
  <2>2. DOMAIN challenges' = 1 .. n + 1
    BY <2>1
  <2> QED
    BY <1>1, <2>1, <2>2
<1> HIDE DEF n
<1>5. Open' = Open \cup {n + 1} /\ n + 1 \notin Open
  BY <1>4 DEF Open
<1>6. Solved' = Solved
  BY <1>4 DEF Solved
<1>7. /\ RewardOf(Open)' = RewardOf(Open) + value
      /\ RewardOf(Solved)' = RewardOf(Solved)
  <2>1. /\ IsFiniteSet(Open) /\ Open \subseteq DOMAIN challenges
        /\ Solved \subseteq DOMAIN challenges
        /\ \A i \in DOMAIN challenges : RewardAt(i) \in Nat
    BY PowSums
  <2> DEFINE f == [k \in Open |-> challenges[k].rewardAmount]
             g == [k \in Open \cup {n + 1} |-> challenges'[k].rewardAmount]
  <2>2. /\ f \in [Open -> Int] /\ g \in [Open \cup {n + 1} -> Int]
        /\ \A k \in Open : g[k] = f[k]
        /\ g[n + 1] = value
    BY <1>1, <1>4, <2>1 DEF RewardAt
  <2>3. RewardOf(Open) = SumFunction(f) /\ RewardOf(Open)' = SumFunction(g)
    BY <1>5 DEF RewardOf
  <2> HIDE DEF f, g
  <2>4. SumFunction(g) = SumFunction(f) + g[n + 1]
    BY <1>5, <2>1, <2>2, SumInsert
  <2>5. RewardOf(Solved)' = RewardOf(Solved)
    BY <1>4, <1>6, <2>1 DEF RewardOf
  <2> QED
    BY <2>2, <2>3, <2>4, <2>5
<1>8. EscrowCovered'
  <2>1. RewardOf(Open) \in Nat /\ balance' = balance + value /\ donated' = donated
        /\ totalRewardsDistributed' = totalRewardsDistributed
    BY PowSums DEF createChallenge
  <2>2. EscrowCovered /\ donated \in Nat
    BY DEF PowInv
  <2> QED
    BY <1>1, <1>7, <2>1, <2>2 DEF EscrowCovered
<1>9. solution' = solution /\ donated' = donated
  BY DEF createChallenge
<1>10. \A i \in DOMAIN challenges' : challenges'[i].active <=> challenges'[i].solver = Nobody
  BY <1>4 DEF PowInv
<1> QED
  BY <1>4, <1>8, <1>9, <1>10 DEF PowInv

\* A change of one challenge that keeps its reward and opens or solves nothing.
LEMMA AdjustKeepsPowInv ==
  ASSUME PowInv, NEW id \in DOMAIN challenges, NEW bits \in Difficulties,
         adjustDifficulty(id, bits)
  PROVE  PowInv'
<1>1. \A i \in DOMAIN challenges : challenges[i] \in Challenge
  BY PowSums
<1>2. /\ challenges' \in Seq(Challenge)
      /\ DOMAIN challenges' = DOMAIN challenges
      /\ \A i \in DOMAIN challenges : /\ challenges'[i].rewardAmount = challenges[i].rewardAmount
                                      /\ challenges'[i].active = challenges[i].active
                                      /\ challenges'[i].solver = challenges[i].solver
  <2>1. [challenges[id] EXCEPT !.targetDifficulty = bits] \in Challenge
    BY <1>1 DEF Challenge
  <2>2. challenges' = [challenges EXCEPT ![id] = [challenges[id] EXCEPT !.targetDifficulty = bits]]
    BY DEF adjustDifficulty
  <2>3. challenges' \in Seq(Challenge) /\ DOMAIN challenges' = DOMAIN challenges
    BY <2>1, <2>2 DEF PowInv
  <2>4. ASSUME NEW i \in DOMAIN challenges
        PROVE  /\ challenges'[i].rewardAmount = challenges[i].rewardAmount
               /\ challenges'[i].active = challenges[i].active
               /\ challenges'[i].solver = challenges[i].solver
    BY <1>1, <2>2 DEF Challenge
  <2> QED
    BY <2>3, <2>4
<1>3. Open' = Open /\ Solved' = Solved
  BY <1>2 DEF Open, Solved
<1>4. RewardOf(Open)' = RewardOf(Open)
  BY <1>2, <1>3 DEF RewardOf, Open
<1>5. RewardOf(Solved)' = RewardOf(Solved)
  BY <1>2, <1>3 DEF RewardOf, Solved
<1> QED
  BY <1>2, <1>4, <1>5 DEF PowInv, EscrowCovered, adjustDifficulty

LEMMA ReceiveKeepsPowInv == PowInv /\ receive => PowInv'
<1> SUFFICES ASSUME PowInv, receive PROVE PowInv'
  OBVIOUS
<1>1. RewardOf(Open) \in Nat
  BY PowSums
<1>2. Open' = Open /\ Solved' = Solved /\ challenges' = challenges
  BY DEF receive, Open, Solved
<1>3. RewardOf(Open)' = RewardOf(Open) /\ RewardOf(Solved)' = RewardOf(Solved)
  BY <1>2 DEF RewardOf
<1>4. EscrowCovered'
  BY <1>1, <1>3 DEF receive, PowInv, EscrowCovered
<1> QED
  BY <1>2, <1>4 DEF receive, PowInv

LEMMA MineKeepsPowInv ==
  ASSUME PowInv, NEW m \in Miner, NEW id \in DOMAIN challenges,
         NEW hash \in {"keccak256", "sha256"}, MineWork(m, id, hash)
  PROVE  PowInv'
<1> DEFINE bits == challenges[id].targetDifficulty
           n == mine(hash, m, bits)
           verified == n # NoNonce /\ verify_proof(hash, m, n, bits)
           result == [id |-> id, bits |-> bits, hash |-> hash, nonce |-> n,
                      verified |-> verified]
<1>1. /\ solution' = [solution EXCEPT ![m] = result]
      /\ UNCHANGED <<challenges, balance, totalRewardsDistributed, donated>>
  BY DEF MineWork
<1>2. challenges[id] \in Challenge /\ id \in Nat /\ Difficulties \subseteq Nat
  BY PowSums, PowParameters DEF PowInv
<1>3. bits \in Difficulties
  BY <1>2 DEF Challenge
<1>4. n # NoNonce => n \in Nonce
  BY MineResult
<1>5. n \in Int
  <2>1. Nonce \subseteq Nat
    BY PowParameters
  <2>2. n = NoNonce \/ n \in Nonce
    BY <1>4
  <2>3. NoNonce \in Int
    BY DEF NoNonce
  <2> HIDE DEF n
  <2>4. CASE n = NoNonce
    BY <2>3, <2>4
  <2>5. CASE n \in Nonce
    BY <2>1, <2>5
  <2> QED
    BY <2>2, <2>4, <2>5
<1>6. verified \in BOOLEAN
  OBVIOUS
<1> HIDE DEF n, verified, bits
<1>7. result \in Results
  <2>1. id \in Nat /\ bits \in Int /\ hash \in {"none", "keccak256", "sha256"}
    BY <1>2, <1>3
  <2> QED
    BY <1>5, <1>6, <2>1 DEF Results
<1>8. /\ result.verified => verified
      /\ result.id = id /\ result.bits = bits /\ result.nonce = n /\ result.hash = hash
  OBVIOUS
<1>9. verified => /\ n \in Nonce
                  /\ verify_proof(hash, m, n, bits)
  BY <1>4 DEF verified
<1> HIDE DEF result
<1>10. solution' \in [Miner -> Results] /\ solution'[m] = result
  BY <1>1, <1>7 DEF PowInv
<1>11. ASSUME NEW k \in Miner, solution'[k].verified
       PROVE  /\ solution'[k].id \in DOMAIN challenges
              /\ solution'[k].bits \in Difficulties
              /\ solution'[k].nonce \in Nonce
              /\ verify_proof(solution'[k].hash, k, solution'[k].nonce, solution'[k].bits)
  <2>1. CASE k = m
    BY <1>3, <1>8, <1>9, <1>10, <1>11, <2>1
  <2>2. CASE k # m
    <3>1. solution'[k] = solution[k]
      BY <1>1, <2>2 DEF PowInv
    <3> QED
      BY <1>11, <3>1 DEF PowInv
  <2> QED
    BY <2>1, <2>2
<1>12. Open' = Open /\ Solved' = Solved
  BY <1>1 DEF Open, Solved
<1>13. RewardOf(Open)' = RewardOf(Open) /\ RewardOf(Solved)' = RewardOf(Solved)
  BY <1>1, <1>12 DEF RewardOf
<1>14. EscrowCovered'
  BY <1>1, <1>13 DEF PowInv, EscrowCovered
<1>15. \A k \in Miner : solution'[k].verified =>
          /\ solution'[k].id \in DOMAIN challenges'
          /\ solution'[k].bits \in Difficulties
          /\ solution'[k].nonce \in Nonce
          /\ verify_proof(solution'[k].hash, k, solution'[k].nonce, solution'[k].bits)
  BY <1>1, <1>11
<1> QED
  BY <1>1, <1>10, <1>14, <1>15 DEF PowInv

\* The reward leaves the escrow and enters the total with the change of the flag.
LEMMA SubmitKeepsPowInv ==
  ASSUME PowInv, NEW m \in Miner, Submit(m)
  PROVE  PowInv'
<1> DEFINE id == solution[m].id
           reward == challenges[id].rewardAmount
<1>1. id \in DOMAIN challenges /\ donated' = donated
  BY DEF PowInv, Submit
<1>2. /\ \A i \in DOMAIN challenges : challenges[i] \in Challenge /\ RewardAt(i) \in Nat
      /\ Open \subseteq DOMAIN challenges /\ Solved \subseteq DOMAIN challenges
      /\ IsFiniteSet(Open) /\ IsFiniteSet(Solved)
      /\ RewardOf(Open) \in Nat /\ RewardOf(Solved) \in Nat
  BY PowSums
<1>3. solution' = [solution EXCEPT ![m] = Idle]
  BY DEF Submit
<1>4. Idle \in Results /\ ~Idle.verified
  BY DEF Idle, Results, NoNonce
<1>5. solution' \in [Miner -> Results]
  BY <1>3, <1>4 DEF PowInv
<1>6. \A k \in Miner : solution'[k].verified => solution'[k] = solution[k]
  BY <1>3, <1>4 DEF PowInv
<1>7. CASE UNCHANGED <<challenges, balance, totalRewardsDistributed>>
  <2>1. Open' = Open /\ Solved' = Solved
    BY <1>7 DEF Open, Solved
  <2>2. RewardOf(Open)' = RewardOf(Open) /\ RewardOf(Solved)' = RewardOf(Solved)
    BY <1>7, <2>1 DEF RewardOf
  <2>3. EscrowCovered'
    BY <1>1, <1>7, <2>2 DEF PowInv, EscrowCovered
  <2> QED
    BY <1>1, <1>5, <1>6, <1>7, <2>3 DEF PowInv
<1>8. CASE submitWork(id, m, solution[m].nonce)
  <2> DEFINE rec == [challenges[id] EXCEPT !.solver = m, !.active = FALSE]
  <2>1. /\ challenges[id].active
        /\ challenges' = [challenges EXCEPT ![id] = rec]
        /\ balance' = balance - reward
        /\ totalRewardsDistributed' = totalRewardsDistributed + reward
    BY <1>8 DEF submitWork, solved
  <2>2. /\ rec \in Challenge /\ ~rec.active /\ rec.solver = m /\ m # Nobody
        /\ rec.rewardAmount = reward
    BY <1>1, <1>2, NobodyAssumption DEF Challenge
  <2> HIDE DEF rec, id
  <2>3. /\ challenges' \in Seq(Challenge)
        /\ DOMAIN challenges' = DOMAIN challenges
        /\ challenges'[id] = rec
        /\ \A i \in DOMAIN challenges : i # id => challenges'[i] = challenges[i]
    BY <1>1, <2>1, <2>2 DEF PowInv
  <2>4. id \in Open /\ id \notin Solved
    BY <1>1, <2>1 DEF Open, Solved, PowInv
  <2>5. Open' = Open \ {id} /\ Solved' = Solved \cup {id}
    BY <1>1, <2>2, <2>3 DEF Open, Solved
  <2>6. \A i \in DOMAIN challenges : challenges'[i].rewardAmount = RewardAt(i)
    BY <1>1, <2>2, <2>3 DEF RewardAt
  <2>7. /\ RewardOf(Open)' = RewardOf(Open \ {id})
        /\ RewardOf(Solved)' = RewardOf(Solved \cup {id})
    <3>1. ASSUME NEW i \in Open \ {id} PROVE challenges'[i].rewardAmount = challenges[i].rewardAmount
      BY <1>2, <2>6 DEF RewardAt
    <3>2. ASSUME NEW i \in Solved \cup {id}
          PROVE  challenges'[i].rewardAmount = challenges[i].rewardAmount
      BY <1>1, <1>2, <2>6 DEF RewardAt
    <3> QED
      BY <2>5, <3>1, <3>2 DEF RewardOf
  <2>8. /\ RewardOf(Open) = RewardOf(Open \ {id}) + reward
        /\ RewardOf(Solved \cup {id}) = RewardOf(Solved) + reward
    <3>1. (Open \ {id}) \cup {id} = Open
      BY <2>4
    <3>2. RewardOf((Open \ {id}) \cup {id}) = RewardOf(Open \ {id}) + RewardAt(id)
      BY <1>1, <1>2, OneReward
    <3>3. RewardOf(Solved \cup {id}) = RewardOf(Solved) + RewardAt(id)
      BY <1>1, <1>2, <2>4, OneReward
    <3> QED
      BY <3>1, <3>2, <3>3 DEF RewardAt
  <2>9. RewardOf(Open \ {id}) \in Int /\ reward \in Int
    <3>1. [i \in Open \ {id} |-> RewardAt(i)] \in [Open \ {id} -> Int]
      BY <1>2
    <3>2. IsFiniteSet(Open \ {id})
      BY <1>2, FS_Subset
    <3>3. RewardOf(Open \ {id}) \in Int
      BY <3>1, <3>2, SumType DEF RewardOf, RewardAt
    <3> QED
      BY <1>1, <1>2, <3>3 DEF RewardAt
  <2>10. EscrowCovered'
    <3>1. /\ balance = RewardOf(Open) + donated
          /\ totalRewardsDistributed = RewardOf(Solved)
          /\ donated \in Nat
      BY DEF PowInv, EscrowCovered
    <3> HIDE DEF reward
    <3>2. balance' = RewardOf(Open \ {id}) + donated
      BY <2>1, <2>8, <2>9, <3>1
    <3>3. totalRewardsDistributed' = RewardOf(Solved \cup {id})
      BY <2>1, <2>8, <3>1
    <3> QED
      BY <1>1, <2>7, <3>2, <3>3 DEF EscrowCovered
  <2>11. \A i \in DOMAIN challenges' : challenges'[i].active <=> challenges'[i].solver = Nobody
    BY <2>2, <2>3 DEF PowInv
  <2> QED
    BY <1>1, <1>5, <1>6, <2>3, <2>10, <2>11 DEF PowInv
<1> QED
  BY <1>7, <1>8 DEF Submit

LEMMA NextPowInv == PowInv /\ [PowNext]_powVars => PowInv'
<1> SUFFICES ASSUME PowInv, [PowNext]_powVars PROVE PowInv'
  OBVIOUS
<1>1. CASE UNCHANGED powVars
  BY <1>1 DEF powVars, PowInv, EscrowCovered, RewardOf, Open, Solved
<1> QED
  BY <1>1, CreateKeepsPowInv, AdjustKeepsPowInv, ReceiveKeepsPowInv, MineKeepsPowInv,
     SubmitKeepsPowInv DEF PowNext

\* For any number of challenges, miners and donations: the coins in the contract
\* are those of the open challenges and the donations, and no reward leaves it
\* twice.
THEOREM RewardsAreCovered == PowSpec => []EscrowCovered
<1>1. PowInv => EscrowCovered
  BY DEF PowInv
<1> QED
  BY <1>1, InitPowInv, NextPowInv, PTL DEF PowSpec

\* For any digest and width of a hash: the contract accepts and pays what the
\* miner's own check passed, unless the challenge was solved or made harder.
THEOREM VerifiedAccepted == PowSpec => []VerifiedIsAccepted
<1>1. ASSUME PowInv, NEW m \in Miner, solution[m].verified, solution[m].hash = "keccak256",
             challenges[solution[m].id].active,
             ~(challenges[solution[m].id].targetDifficulty > solution[m].bits)
      PROVE  /\ verifyProof(m, solution[m].nonce, challenges[solution[m].id].targetDifficulty)
             /\ balance >= challenges[solution[m].id].rewardAmount
  <2> DEFINE id == solution[m].id
             bits == solution[m].bits
             target == challenges[id].targetDifficulty
             hash == Keccak[<<m, solution[m].nonce>>]
  <2>1. /\ id \in DOMAIN challenges /\ bits \in Difficulties /\ solution[m].nonce \in Nonce
        /\ verify_proof("keccak256", m, solution[m].nonce, bits)
    BY <1>1 DEF PowInv
  <2>2. challenges[id] \in Challenge /\ target \in Difficulties
    BY <1>1, <2>1, PowSums DEF Challenge
  <2>3. hash \in Nat
    BY <2>1, PowParameters
  <2>4. hash <= targetValue(bits)
    BY <2>1, Targets DEF verify_proof, compute_hash
  <2>5. target <= bits
    <3>1. Difficulties \subseteq Int
      BY PowParameters
    <3>2. ~(target > bits)
      BY <1>1
    <3> HIDE DEF target, bits
    <3> QED
      BY <2>1, <2>2, <3>1, <3>2
  <2>6. targetValue(bits) <= targetValue(target)
    BY <2>1, <2>2, <2>5, Targets
  <2>7. targetValue(bits) \in Nat /\ targetValue(target) \in Nat
    BY <2>1, <2>2, Targets
  <2>8. hash <= targetValue(target)
    <3> HIDE DEF hash, bits, target
    <3> QED
      BY <2>3, <2>4, <2>6, <2>7
  <2>9. balance >= challenges[id].rewardAmount
    <3>1. /\ IsFiniteSet(Open) /\ Open \subseteq DOMAIN challenges
          /\ \A i \in DOMAIN challenges : RewardAt(i) \in Nat
          /\ RewardOf(Open) \in Nat
      BY <1>1, PowSums
    <3> DEFINE f == [i \in Open |-> challenges[i].rewardAmount]
    <3>2. f \in [Open -> Nat] /\ id \in Open /\ f[id] = challenges[id].rewardAmount
      BY <1>1, <2>1, <3>1 DEF Open, RewardAt
    <3>3. RewardOf(Open) = SumFunction(f)
      BY DEF RewardOf
    <3>4. f[id] \in Nat
      BY <3>2
    <3> HIDE DEF f, id
    <3>5. f[id] <= SumFunction(f)
      BY <3>1, <3>2, SumBound
    <3>6. balance = RewardOf(Open) + donated /\ donated \in Nat
      BY <1>1 DEF PowInv, EscrowCovered
    <3> QED
      BY <3>1, <3>2, <3>3, <3>4, <3>5, <3>6
  <2> QED
    BY <2>8, <2>9 DEF verifyProof
<1>2. PowInv => VerifiedIsAccepted
  BY <1>1 DEF VerifiedIsAccepted
<1> QED
  BY <1>2, InitPowInv, NextPowInv, PTL DEF PowSpec

-----------------------------------------------------------------------------
(* indexer/indexer.py                                                      *)

Hashes == {DemoEvents[i] : i \in DOMAIN DemoEvents}

Stored(hash) == \E k \in DOMAIN events : events[k] = hash

\* Of what a scan that found no node made up, what it has passed is stored.
IndexerInv ==
    /\ events \in Seq(Hashes)
    /\ \A j, k \in DOMAIN events : events[j] = events[k] => j = k
    /\ scan \in [Process -> 0 .. Len(DemoEvents) + 1]
    /\ simulating \in [Process -> BOOLEAN]
    /\ \A p \in Process : scan[p] # Ready /\ simulating[p] =>
          \/ failed
          \/ \A i \in DOMAIN DemoEvents : i < scan[p] => Stored(DemoEvents[i])
    /\ simulated =>
          \/ failed
          \/ \A i \in DOMAIN DemoEvents : Stored(DemoEvents[i])

LEMMA InitIndexerInv == IndexerInit => IndexerInv
<1> USE IndexerParameters
<1>1. <<>> \in Seq(Hashes) /\ DOMAIN <<>> = {}
  OBVIOUS
<1> QED
  BY <1>1 DEF IndexerInit, IndexerInv, Ready

\* What is stored stays stored, and is not stored again.
LEMMA InsertStores ==
  ASSUME IndexerInv, NEW hash \in Hashes,
         events' = IF \E i \in DOMAIN events : events[i] = hash
                   THEN events ELSE Append(events, hash)
  PROVE  /\ events' \in Seq(Hashes)
         /\ \A j, k \in DOMAIN events' : events'[j] = events'[k] => j = k
         /\ Stored(hash)'
         /\ \A h : Stored(h) => Stored(h)'
<1>1. CASE \E i \in DOMAIN events : events[i] = hash
  BY <1>1 DEF IndexerInv, Stored
<1>2. CASE ~\E i \in DOMAIN events : events[i] = hash
  <2>1. events' = Append(events, hash) /\ events \in Seq(Hashes)
    BY <1>2 DEF IndexerInv
  <2>1a. /\ Len(events) \in Nat
        /\ DOMAIN events = 1 .. Len(events)
        /\ Len(events') = Len(events) + 1
    BY <2>1
  <2>2. /\ events' \in Seq(Hashes)
        /\ Len(events) \in Nat
        /\ DOMAIN events = 1 .. Len(events)
        /\ DOMAIN events' = 1 .. Len(events) + 1
        /\ events'[Len(events) + 1] = hash
        /\ \A k \in 1 .. Len(events) : events'[k] = events[k]
    BY <2>1, <2>1a
  <2>3. Len(events) + 1 \in DOMAIN events' /\ DOMAIN events \subseteq DOMAIN events'
    BY <2>2
  <2>4. \A h : Stored(h) => Stored(h)'
    BY <2>2, <2>3 DEF Stored
  <2>5. Stored(hash)'
    BY <2>2, <2>3 DEF Stored
  <2>6. ASSUME NEW j \in DOMAIN events', NEW k \in DOMAIN events', events'[j] = events'[k]
        PROVE  j = k
    <3>1. CASE j \in DOMAIN events /\ k \in DOMAIN events
      BY <2>2, <2>6, <3>1 DEF IndexerInv
    <3>2. CASE j \in DOMAIN events /\ k = Len(events) + 1
      BY <1>2, <2>2, <2>6, <3>2
    <3>3. CASE k \in DOMAIN events /\ j = Len(events) + 1
      BY <1>2, <2>2, <2>6, <3>3
    <3> QED
      BY <2>2, <3>1, <3>2, <3>3
  <2> QED
    BY <2>2, <2>4, <2>5, <2>6
<1> QED
  BY <1>1, <1>2

LEMMA InsertKeepsIndexerInv ==
  ASSUME IndexerInv, NEW p \in Process, insert_event(p)
  PROVE  IndexerInv'
<1>1. /\ Len(DemoEvents) \in Nat
      /\ DOMAIN DemoEvents = 1 .. Len(DemoEvents)
  BY IndexerParameters
<1>2. PICK hash \in Hashes : scan[p] \in DOMAIN DemoEvents /\ hash = DemoEvents[scan[p]]
  BY DEF insert_event, Hashes
<1>3. /\ scan' = [scan EXCEPT ![p] = @ + 1]
      /\ UNCHANGED <<simulating, simulated>>
  BY DEF insert_event
<1>4. /\ scan' \in [Process -> 0 .. Len(DemoEvents) + 1]
      /\ scan'[p] = scan[p] + 1
      /\ \A q \in Process : q # p => scan'[q] = scan[q]
  BY <1>1, <1>2, <1>3 DEF IndexerInv
<1>5. CASE failed' = TRUE /\ UNCHANGED events
  BY <1>3, <1>4, <1>5 DEF IndexerInv
<1>6. CASE /\ events' = IF \E i \in DOMAIN events : events[i] = hash
                        THEN events ELSE Append(events, hash)
           /\ UNCHANGED failed
  <2>1. /\ events' \in Seq(Hashes)
        /\ \A j, k \in DOMAIN events' : events'[j] = events'[k] => j = k
        /\ Stored(hash)'
        /\ \A h : Stored(h) => Stored(h)'
    BY <1>2, <1>6, InsertStores
  <2>2. ASSUME NEW q \in Process, scan'[q] # Ready, simulating'[q],
               ~failed', NEW i \in DOMAIN DemoEvents, i < scan'[q]
        PROVE  Stored(DemoEvents[i])'
    <3>1. CASE q # p
      BY <1>3, <1>4, <1>6, <2>1, <2>2, <3>1 DEF IndexerInv
    <3>2. CASE q = p /\ i = scan[p]
      BY <1>2, <2>1, <3>2
    <3>3. CASE q = p /\ i # scan[p]
      <4>1. i < scan[p] /\ scan[p] # Ready
        BY <1>1, <1>2, <1>4, <2>2, <3>3 DEF Ready
      <4>2. Stored(DemoEvents[i])
        BY <1>3, <1>6, <2>2, <3>3, <4>1 DEF IndexerInv
      <4> QED
        BY <2>1, <4>2
    <3> QED
      BY <3>1, <3>2, <3>3
  <2>3. simulated' =>
           \/ failed'
           \/ \A i \in DOMAIN DemoEvents : Stored(DemoEvents[i])'
    BY <1>3, <1>6, <2>1 DEF IndexerInv
  <2> QED
    BY <1>3, <1>4, <2>1, <2>2, <2>3 DEF IndexerInv
<1> QED
  BY <1>2, <1>5, <1>6 DEF insert_event

LEMMA NextIndexerInv == IndexerInv /\ [IndexerNext]_indexerVars => IndexerInv'
<1> SUFFICES ASSUME IndexerInv, [IndexerNext]_indexerVars PROVE IndexerInv'
  OBVIOUS
<1>0. /\ DOMAIN DemoEvents = 1 .. Len(DemoEvents) /\ Len(DemoEvents) \in Nat
  BY IndexerParameters
<1>1. ASSUME NEW p \in Process, scan_cycle(p) PROVE IndexerInv'
  <2>1. /\ scan' = [scan EXCEPT ![p] = IF connected THEN Updating ELSE 1]
        /\ simulating' = [simulating EXCEPT ![p] = ~connected]
        /\ UNCHANGED <<events, simulated, failed>>
    BY <1>1 DEF scan_cycle
  <2>2. /\ scan' \in [Process -> 0 .. Len(DemoEvents) + 1]
        /\ scan'[p] = (IF connected THEN Updating ELSE 1)
        /\ \A q \in Process : q # p => scan'[q] = scan[q]
    BY <1>0, <2>1 DEF IndexerInv, Updating
  <2>3. /\ simulating' \in [Process -> BOOLEAN]
        /\ simulating'[p] <=> ~connected
        /\ \A q \in Process : q # p => simulating'[q] = simulating[q]
    <3>1. (~connected) \in BOOLEAN
      OBVIOUS
    <3> QED
      BY <2>1, <3>1 DEF IndexerInv
  <2>5. ASSUME NEW q \in Process, scan'[q] # Ready, simulating'[q],
               NEW i \in DOMAIN DemoEvents, i < scan'[q]
        PROVE  failed \/ Stored(DemoEvents[i])
    <3>1. CASE q = p
      BY <1>0, <2>2, <2>3, <2>5, <3>1
    <3>2. CASE q # p
      BY <2>2, <2>3, <2>5, <3>2 DEF IndexerInv
    <3> QED
      BY <3>1, <3>2
  <2> QED
    BY <2>1, <2>2, <2>3, <2>5 DEF IndexerInv, Stored
<1>2. ASSUME NEW p \in Process, update_last_block(p) PROVE IndexerInv'
  <2>1. /\ scan[p] = Updating
        /\ simulated' = (simulated \/ simulating[p])
        /\ scan' = [scan EXCEPT ![p] = Ready]
        /\ UNCHANGED <<events, simulating, failed>>
    BY <1>2 DEF update_last_block
  <2>2. /\ scan' \in [Process -> 0 .. Len(DemoEvents) + 1]
        /\ \A q \in Process : scan'[q] # Ready => scan'[q] = scan[q]
    BY <1>0, <2>1 DEF IndexerInv, Ready
  <2>3. ASSUME simulated', ~failed, NEW i \in DOMAIN DemoEvents
        PROVE  Stored(DemoEvents[i])
    <3>1. scan[p] # Ready /\ i < scan[p]
      BY <1>0, <2>1 DEF Ready, Updating
    <3> QED
      BY <2>1, <2>3, <3>1 DEF IndexerInv
  <2> QED
    BY <2>1, <2>2, <2>3 DEF IndexerInv, Stored
<1>3. ASSUME NEW p \in Process, Kill(p) PROVE IndexerInv'
  <2>1. /\ scan' = [scan EXCEPT ![p] = Ready]
        /\ UNCHANGED <<events, simulating, simulated, failed>>
    BY <1>3 DEF Kill
  <2>2. /\ scan' \in [Process -> 0 .. Len(DemoEvents) + 1]
        /\ \A q \in Process : scan'[q] # Ready => scan'[q] = scan[q]
    BY <1>0, <2>1 DEF IndexerInv, Ready
  <2> QED
    BY <2>1, <2>2 DEF IndexerInv, Stored
<1>4. CASE Grow
  BY <1>0, <1>4 DEF Grow, IndexerInv, Stored
<1>5. CASE Toggle \/ UNCHANGED indexerVars
  BY <1>5 DEF Toggle, indexerVars, IndexerInv, Stored
<1> QED
  BY <1>1, <1>2, <1>3, <1>4, <1>5, InsertKeepsIndexerInv DEF IndexerNext

\* For any processes that run and are killed at the same time, any events and any
\* heights: a scan that found no node sets its mark after they are stored, and
\* none is stored twice.
THEOREM SimulatedAreStored == IndexerSpec => []SimulatedIsStored
<1>1. ASSUME IndexerInv, simulated, ~failed,
             NEW i \in DOMAIN DemoEvents
      PROVE  Cardinality({k \in DOMAIN events : events[k] = DemoEvents[i]}) = 1
  <2>1. PICK j \in DOMAIN events : events[j] = DemoEvents[i]
    BY <1>1 DEF IndexerInv, Stored
  <2>2. {k \in DOMAIN events : events[k] = DemoEvents[i]} = {j}
    BY <1>1, <2>1 DEF IndexerInv
  <2> QED
    BY <2>2, FS_Singleton
<1>2. IndexerInv => SimulatedIsStored
  BY <1>1 DEF SimulatedIsStored
<1> QED
  BY <1>2, InitIndexerInv, NextIndexerInv, PTL DEF IndexerSpec

-----------------------------------------------------------------------------
(* scripts/distribute_piso.py                                              *)

\* The node has taken the first nonce.
Begun == mined > 0 \/ 0 \in DOMAIN pool

Sent(r) == {n \in DOMAIN pool : pool[n] = r}

Left == {recipients[i] : i \in DOMAIN recipients}

Apart(list) == \A i, j \in DOMAIN list : i # j => list[i] # list[j]

NoneTwice == \A r \in Recipient : Transfers(r) <= 1

\* While the node drops nothing, a run that may still enter a transfer has entered none for those left on its
\* list: only the run that took the first nonce gets beyond it.
DistributorInv ==
    /\ endpoint \in {"node", "piso_rpc"}
    /\ mined \in Nat
    /\ IsFiniteSet(DOMAIN pool) /\ pool \in [DOMAIN pool -> Recipient]
    /\ paid \in [Recipient -> Nat]
    /\ current_nonce \in Nat
    /\ recipients \in Seq(Recipient)
    /\ running => recipients # <<>> /\ Apart(recipients)
    /\ endpoint = "node" /\ current_nonce > 0 => Begun
    /\ endpoint = "piso_rpc" \/ ~Begun =>
          /\ DOMAIN pool = {}
          /\ \A r \in Recipient : paid[r] = 0
    /\ NoneTwice
    /\ running /\ Accepted => \A r \in Recipient : r \in Left => Transfers(r) = 0

LEMMA InitDistributorInv == DistributorInit => DistributorInv
<1> SUFFICES ASSUME DistributorInit PROVE DistributorInv
  OBVIOUS
<1>1. /\ mined \in Nat /\ DOMAIN pool = {} /\ pool = <<>>
      /\ paid \in [Recipient -> Nat] /\ \A r \in Recipient : paid[r] = 0
      /\ ~running /\ recipients = <<>> /\ current_nonce = 0
      /\ endpoint \in {"node", "piso_rpc"}
  BY DEF DistributorInit
<1>2. IsFiniteSet(DOMAIN pool) /\ pool \in [DOMAIN pool -> Recipient]
  <2>1. IsFiniteSet(DOMAIN pool)
    BY <1>1, FS_EmptySet
  <2>2. pool = [n \in {} |-> pool[n]]
    BY <1>1
  <2> QED
    BY <1>1, <2>1, <2>2
<1>3. ASSUME NEW r \in Recipient PROVE Transfers(r) = 0
  <2>1. Sent(r) = {}
    BY <1>1 DEF Sent
  <2> QED
    BY <1>1, <2>1, FS_EmptySet DEF Transfers, Sent
<1>4. NoneTwice
  BY <1>3 DEF NoneTwice
<1> QED
  BY <1>1, <1>2, <1>4 DEF DistributorInv

\* Each recipient's transfers are counted.
LEMMA TransfersType ==
  ASSUME DistributorInv, NEW r \in Recipient
  PROVE  Transfers(r) \in Nat /\ IsFiniteSet(Sent(r)) /\ Cardinality(Sent(r)) \in Nat
<1>1. IsFiniteSet(Sent(r))
  BY FS_Subset DEF DistributorInv, Sent
<1>2. Cardinality(Sent(r)) \in Nat
  BY <1>1, FS_CardinalityType
<1> QED
  BY <1>1, <1>2 DEF DistributorInv, Transfers, Sent

\* Without an entry the counts stay.
LEMMA TransfersStay ==
  ASSUME UNCHANGED <<pool, paid>>
  PROVE  \A r : Transfers(r)' = Transfers(r)
BY DEF Transfers

\* The node takes one transaction: one transfer more for the first on the list.
LEMMA EnterCounts ==
  ASSUME DistributorInv, running, Accepted, Enter, UNCHANGED paid
  PROVE  /\ Head(recipients) \in Recipient
         /\ IsFiniteSet(DOMAIN pool') /\ pool' \in [DOMAIN pool' -> Recipient]
         /\ current_nonce \in DOMAIN pool' /\ DOMAIN pool \subseteq DOMAIN pool'
         /\ \A r \in Recipient : r # Head(recipients) => Transfers(r)' = Transfers(r)
         /\ \A r \in Recipient : r = Head(recipients) => Transfers(r)' = 1
<1>1. /\ recipients \in Seq(Recipient) /\ recipients # <<>>
      /\ IsFiniteSet(DOMAIN pool) /\ pool \in [DOMAIN pool -> Recipient]
      /\ current_nonce \notin DOMAIN pool
      /\ paid \in [Recipient -> Nat]
  BY DEF DistributorInv, Accepted
<1>2. Head(recipients) \in Recipient /\ 1 \in DOMAIN recipients /\ recipients[1] = Head(recipients)
  BY <1>1
<1>3. \A r \in Recipient : r = Head(recipients) => Transfers(r) = 0
  BY <1>2 DEF DistributorInv, Left
<1>4. /\ DOMAIN pool' = DOMAIN pool \cup {current_nonce}
      /\ pool'[current_nonce] = Head(recipients)
      /\ \A n \in DOMAIN pool : pool'[n] = pool[n]
      /\ pool' \in [DOMAIN pool' -> Recipient]
  BY <1>1, <1>2 DEF Enter
<1>5. IsFiniteSet(DOMAIN pool')
  BY <1>1, <1>4, FS_AddElement
<1>6. ASSUME NEW r \in Recipient, r # Head(recipients) PROVE Transfers(r)' = Transfers(r)
  <2>1. Sent(r)' = Sent(r)
    BY <1>4, <1>6 DEF Sent
  <2> QED
    BY <2>1 DEF Transfers, Sent
<1>7. ASSUME NEW r \in Recipient, r = Head(recipients) PROVE Transfers(r)' = 1
  <2>1. Sent(r)' = Sent(r) \cup {current_nonce} /\ current_nonce \notin Sent(r)
    BY <1>1, <1>4, <1>7 DEF Sent
  <2>2. IsFiniteSet(Sent(r)) /\ Cardinality(Sent(r)) \in Nat /\ paid[r] \in Nat
    BY <1>1, TransfersType
  <2>3. Cardinality(Sent(r) \cup {current_nonce}) = Cardinality(Sent(r)) + 1
    BY <2>1, <2>2, FS_AddElement
  <2>4. Transfers(r) = 0
    BY <1>3, <1>7
  <2>5. Transfers(r) = paid[r] + Cardinality(Sent(r))
        /\ Transfers(r)' = paid[r] + Cardinality(Sent(r)')
    BY DEF Transfers, Sent
  <2> QED
    BY <2>1, <2>2, <2>3, <2>4, <2>5
<1> QED
  BY <1>2, <1>4, <1>5, <1>6, <1>7

\* What is left of a list.
LEMMA TailApart ==
  ASSUME NEW S, NEW s \in Seq(S), s # <<>>, Apart(s)
  PROVE  /\ Tail(s) \in Seq(S) /\ Apart(Tail(s))
         /\ \A i \in DOMAIN Tail(s) :
               /\ i + 1 \in DOMAIN s
               /\ Tail(s)[i] = s[i + 1]
               /\ Tail(s)[i] # Head(s)
<1>1. /\ Tail(s) \in Seq(S) /\ Len(Tail(s)) = Len(s) - 1
      /\ Len(s) \in Nat /\ Len(s) >= 1 /\ DOMAIN s = 1 .. Len(s)
      /\ Head(s) = s[1]
  OBVIOUS
<1>2. DOMAIN Tail(s) = 1 .. Len(s) - 1
  BY <1>1
<1>3. ASSUME NEW i \in DOMAIN Tail(s)
      PROVE  i + 1 \in DOMAIN s /\ i + 1 # 1 /\ i \in Int /\ Tail(s)[i] = s[i + 1]
  BY <1>1, <1>2
<1>4. ASSUME NEW i \in DOMAIN Tail(s) PROVE Tail(s)[i] # Head(s)
  <2>1. 1 \in DOMAIN s
    BY <1>1
  <2> QED
    BY <1>1, <1>3, <2>1 DEF Apart
<1>5. ASSUME NEW i \in DOMAIN Tail(s), NEW j \in DOMAIN Tail(s), i # j
      PROVE  Tail(s)[i] # Tail(s)[j]
  <2>1. i + 1 # j + 1
    BY <1>2, <1>5
  <2> QED
    BY <1>3, <2>1 DEF Apart
<1> QED
  BY <1>1, <1>3, <1>4, <1>5 DEF Apart

\* A transfer that ends, whether it was entered and whether a success is
\* printed, with the rest of the list or with the run.
LEMMA TurnKeeps ==
  ASSUME DistributorInv, running,
         \/ endpoint = "node" /\ Accepted /\ Enter
         \/ UNCHANGED pool,
         UNCHANGED <<endpoint, mined, paid>>,
         \/ recipients' = Tail(recipients) /\ (running' => Tail(recipients) # <<>>)
         \/ recipients' = <<>> /\ ~running',
         \/ current_nonce' = current_nonce
         \/ /\ current_nonce' = current_nonce + 1
            /\ \/ endpoint = "node" /\ Accepted /\ Enter
               \/ endpoint = "piso_rpc"
  PROVE  DistributorInv'
<1>1. /\ recipients \in Seq(Recipient) /\ recipients # <<>> /\ Apart(recipients)
      /\ current_nonce \in Nat /\ mined \in Nat
      /\ \A r \in Recipient : Transfers(r) <= 1
  BY DEF DistributorInv, NoneTwice
<1>2. /\ Tail(recipients) \in Seq(Recipient) /\ Apart(Tail(recipients))
      /\ \A i \in DOMAIN Tail(recipients) :
            /\ i + 1 \in DOMAIN recipients
            /\ Tail(recipients)[i] = recipients[i + 1]
            /\ Tail(recipients)[i] # Head(recipients)
  BY <1>1, TailApart
<1>3. /\ recipients' \in Seq(Recipient)
      /\ current_nonce' \in Nat
      /\ running' => recipients' # <<>> /\ recipients' = Tail(recipients)
  <2>1. current_nonce' \in Nat
    BY <1>1
  <2>2. CASE recipients' = Tail(recipients) /\ (running' => Tail(recipients) # <<>>)
    BY <1>2, <2>1, <2>2
  <2>3. CASE recipients' = <<>> /\ ~running'
    <3>1. <<>> \in Seq(Recipient)
      OBVIOUS
    <3> QED
      BY <2>1, <2>3, <3>1
  <2> QED
    BY <2>2, <2>3
<1>4. running' => Apart(recipients)'
  BY <1>2, <1>3 DEF Apart
<1>5. CASE UNCHANGED pool
  <2>1. \A r : Transfers(r)' = Transfers(r)
    BY <1>5, TransfersStay
  <2>2. NoneTwice'
    BY <1>1, <2>1 DEF NoneTwice
  <2>3. ASSUME running', Accepted', NEW r \in Recipient, r \in Left'
        PROVE  Transfers(r)' = 0
    <3>1. PICK i \in DOMAIN recipients' : r = recipients'[i]
      BY <2>3 DEF Left
    <3>2. r \in Left
      BY <1>2, <1>3, <2>3, <3>1 DEF Left
    <3>3. CASE endpoint = "piso_rpc"
      <4>1. DOMAIN pool = {} /\ paid[r] = 0
        BY <3>3 DEF DistributorInv
      <4>2. Sent(r) = {}
        BY <4>1 DEF Sent
      <4>3. Transfers(r) = 0
        BY <4>1, <4>2, FS_EmptySet DEF Transfers, Sent
      <4> QED
        BY <2>1, <3>1, <4>3
    <3>4. CASE current_nonce' = current_nonce
      <4>1. Accepted
        BY <1>5, <2>3, <3>4 DEF Accepted
      <4>2. Transfers(r) = 0
        BY <3>2, <4>1 DEF DistributorInv
      <4> QED
        BY <2>1, <3>1, <4>2
    <3>5. CASE Accepted /\ Enter
      <4>1. Transfers(r) = 0
        BY <3>2, <3>5 DEF DistributorInv
      <4> QED
        BY <2>1, <3>1, <4>1
    <3> QED
      BY <3>3, <3>4, <3>5
  <2>4. endpoint' = "node" /\ current_nonce' > 0 => Begun'
    <3>1. CASE current_nonce' = current_nonce \/ endpoint = "piso_rpc"
      BY <1>5, <3>1 DEF DistributorInv, Begun
    <3>2. CASE Enter /\ Accepted
      <4>1. current_nonce \in DOMAIN pool
        BY <1>5, <3>2 DEF Enter
      <4> QED
        BY <3>2, <4>1 DEF Accepted
    <3> QED
      BY <3>1, <3>2
  <2>5. \A r \in Recipient : paid'[r] = paid[r]
    OBVIOUS
  <2> QED
    BY <1>3, <1>4, <1>5, <2>2, <2>3, <2>4 DEF DistributorInv, Begun
<1>6. CASE endpoint = "node" /\ Accepted /\ Enter
  <2>1. /\ Head(recipients) \in Recipient
        /\ IsFiniteSet(DOMAIN pool') /\ pool' \in [DOMAIN pool' -> Recipient]
        /\ current_nonce \in DOMAIN pool' /\ DOMAIN pool \subseteq DOMAIN pool'
        /\ \A r \in Recipient : r # Head(recipients) => Transfers(r)' = Transfers(r)
        /\ \A r \in Recipient : r = Head(recipients) => Transfers(r)' = 1
    BY <1>6, EnterCounts
  <2>2. NoneTwice'
    <3>1. ASSUME NEW r \in Recipient PROVE Transfers(r)' <= 1
      BY <1>1, <2>1
    <3> QED
      BY <3>1 DEF NoneTwice
  <2>3. ASSUME running', NEW r \in Recipient, r \in Left' PROVE Transfers(r)' = 0
    <3>1. PICK i \in DOMAIN recipients' : r = recipients'[i]
      BY <2>3 DEF Left
    <3>2. r \in Left /\ r # Head(recipients)
      BY <1>2, <1>3, <2>3, <3>1 DEF Left
    <3>3. Transfers(r) = 0
      BY <1>6, <3>2 DEF DistributorInv
    <3> QED
      BY <2>1, <3>1, <3>2, <3>3
  <2>4. Begun'
    <3>1. CASE current_nonce = 0
      BY <2>1, <3>1 DEF Begun
    <3>2. CASE current_nonce # 0
      <4>1. Begun
        BY <1>1, <1>6, <3>2 DEF DistributorInv
      <4> QED
        BY <2>1, <4>1 DEF Begun
    <3> QED
      BY <3>1, <3>2
  <2> QED
    BY <1>3, <1>4, <1>6, <2>1, <2>2, <2>3, <2>4 DEF DistributorInv
<1> QED
  BY <1>5, <1>6

\* A list that is taken up: distinct recipients, and the first nonce.
LEMMA StartKeeps ==
  ASSUME DistributorInv, NEW list \in Lists, Start(list)
  PROVE  DistributorInv'
<1>1. /\ list \in Seq(Recipient \cup {NotAnAddress})
      /\ Apart(list)
      /\ recipients' = valid_recipients(list) /\ valid_recipients(list) # <<>>
      /\ current_nonce' = 0
      /\ UNCHANGED <<endpoint, mined, pool, paid>>
  BY DistributorParameters DEF Start, Listed, get_nonce, nodeVars, Apart
<1>2. Len(list) \in Nat
  BY <1>1
<1>3. recipients' \in Seq(Recipient) /\ Apart(recipients)'
  <2> DEFINE f == CHOOSE g : IsFiltering(g, Recipient, list)
  <2>1. \A n \in Nat :
           /\ f[n] \in Seq(Recipient)
           /\ \A i \in DOMAIN f[n] : \E j \in DOMAIN list : j \in 1 .. n /\ f[n][i] = list[j]
           /\ (\A i, j \in DOMAIN list : i # j => list[i] # list[j])
                  => \A i, j \in DOMAIN f[n] : i # j => f[n][i] # f[n][j]
    <3>1. IsFiltering(f, Recipient, list)
      BY FilteringExists
    <3> HIDE DEF f
    <3> QED
      BY <3>1, Filtering
  <2>2. valid_recipients(list) = f[Len(list)]
    BY DEF valid_recipients, IsFiltering
  <2> HIDE DEF f
  <2>3. f[Len(list)] \in Seq(Recipient) /\ Apart(f[Len(list)])
    BY <1>1, <1>2, <2>1 DEF Apart
  <2>4. recipients' = f[Len(list)]
    BY <1>1, <2>2
  <2> QED
    BY <2>3, <2>4 DEF Apart
<1>4. \A r : Transfers(r)' = Transfers(r)
  BY <1>1, TransfersStay
<1>5. NoneTwice'
  BY <1>4 DEF DistributorInv, NoneTwice
<1>6. ASSUME Accepted', NEW r \in Recipient PROVE Transfers(r)' = 0
  <2>2. ~Begun
    BY <1>1, <1>6 DEF Accepted, Begun, DistributorInv
  <2>3. DOMAIN pool = {} /\ paid[r] = 0
    BY <2>2 DEF DistributorInv
  <2>4. Sent(r) = {}
    BY <2>3 DEF Sent
  <2>5. Transfers(r) = 0
    BY <2>3, <2>4, FS_EmptySet DEF Transfers, Sent
  <2> QED
    BY <1>4, <2>5
<1>7. recipients' # <<>>
  BY <1>1
<1> QED
  BY <1>1, <1>3, <1>5, <1>6, <1>7 DEF DistributorInv, Begun

\* A transaction that is mined was counted when it was entered.
LEMMA MineKeeps == DistributorInv /\ Mine => DistributorInv'
<1> SUFFICES ASSUME DistributorInv, Mine PROVE DistributorInv'
  OBVIOUS
<1>1. /\ mined \in Nat /\ mined \in DOMAIN pool
      /\ IsFiniteSet(DOMAIN pool) /\ pool \in [DOMAIN pool -> Recipient]
      /\ paid \in [Recipient -> Nat] /\ current_nonce \in Nat
      /\ mined' = mined + 1
      /\ pool' = [n \in DOMAIN pool \ {mined} |-> pool[n]]
      /\ UNCHANGED <<endpoint, running, recipients, current_nonce>>
  BY DEF DistributorInv, Mine
<1>2. /\ DOMAIN pool' = DOMAIN pool \ {mined}
      /\ pool' \in [DOMAIN pool' -> Recipient]
      /\ \A n \in DOMAIN pool' : pool'[n] = pool[n]
  BY <1>1
<1>3. IsFiniteSet(DOMAIN pool')
  BY <1>1, <1>2, FS_RemoveElement
<1>4. /\ paid' \in [Recipient -> Nat]
      /\ \A r \in Recipient : r # pool[mined] => paid'[r] = paid[r]
      /\ paid'[pool[mined]] \in {paid[pool[mined]], paid[pool[mined]] + 1}
  <2>1. pool[mined] \in Recipient /\ paid[pool[mined]] \in Nat
    BY <1>1
  <2> QED
    BY <1>1, <2>1 DEF Mine
<1>5. ASSUME NEW r \in Recipient
      PROVE  Transfers(r) \in Nat /\ Transfers(r)' \in Nat /\ Transfers(r)' <= Transfers(r)
  <2>1. IsFiniteSet(Sent(r)) /\ Cardinality(Sent(r)) \in Nat /\ paid[r] \in Nat
    BY <1>1, TransfersType
  <2>2. Transfers(r) = paid[r] + Cardinality(Sent(r))
        /\ Transfers(r)' = paid'[r] + Cardinality(Sent(r)')
    BY DEF Transfers, Sent
  <2>3. CASE r = pool[mined]
    <3>1. Sent(r)' = Sent(r) \ {mined} /\ mined \in Sent(r)
      BY <1>1, <1>2, <2>3 DEF Sent
    <3>2. /\ IsFiniteSet(Sent(r) \ {mined})
          /\ Cardinality(Sent(r) \ {mined}) = Cardinality(Sent(r)) - 1
      BY <2>1, <3>1, FS_RemoveElement
    <3>3. Cardinality(Sent(r) \ {mined}) \in Nat
      BY <3>2, FS_CardinalityType
    <3>4. paid'[r] \in {paid[r], paid[r] + 1}
      BY <1>4, <2>3
    <3> QED
      BY <2>1, <2>2, <3>1, <3>2, <3>3, <3>4
  <2>4. CASE r # pool[mined]
    <3>1. Sent(r)' = Sent(r)
      BY <1>1, <1>2, <2>4 DEF Sent
    <3>2. paid'[r] = paid[r]
      BY <1>4, <2>4
    <3> QED
      BY <2>1, <2>2, <3>1, <3>2
  <2> QED
    BY <2>3, <2>4
<1>6. NoneTwice'
  <2>1. ASSUME NEW r \in Recipient PROVE Transfers(r)' <= 1
    <3>1. Transfers(r) <= 1
      BY DEF DistributorInv, NoneTwice
    <3> QED
      BY <1>5, <3>1
  <2> QED
    BY <2>1 DEF NoneTwice
<1>7. Accepted' => Accepted
  <2> SUFFICES ASSUME Accepted' PROVE Accepted
    OBVIOUS
  <2>1. current_nonce >= mined + 1 /\ current_nonce \notin DOMAIN pool \ {mined}
    BY <1>1, <1>2 DEF Accepted
  <2> QED
    BY <1>1, <2>1 DEF Accepted
<1>8. ASSUME running', Accepted', NEW r \in Recipient, r \in Left' PROVE Transfers(r)' = 0
  <2>1. Transfers(r) = 0
    BY <1>1, <1>7, <1>8 DEF DistributorInv, Left
  <2> QED
    BY <1>5, <2>1
<1>9. Begun' /\ endpoint = "node"
  BY <1>1 DEF DistributorInv, Begun
<1>10. Apart(recipients)' <=> Apart(recipients)
  BY <1>1 DEF Apart
<1> QED
  BY <1>1, <1>2, <1>3, <1>4, <1>6, <1>8, <1>9, <1>10 DEF DistributorInv

DroppedOrApart == dropped \in BOOLEAN /\ (dropped \/ DistributorInv)

LEMMA NextDistributorInv ==
  DroppedOrApart /\ [DistributorNext]_distributorVars => DroppedOrApart'
<1> SUFFICES ASSUME DroppedOrApart, [DistributorNext]_distributorVars PROVE DroppedOrApart'
  OBVIOUS
<1>0. ASSUME NEW nonce \in DOMAIN pool, Drop(nonce) PROVE DroppedOrApart'
  BY <1>0 DEF Drop, DroppedOrApart
<1>1. \/ UNCHANGED dropped
      \/ \E nonce \in DOMAIN pool : Drop(nonce)
  BY DEF DistributorNext, distributorVars, nodeVars, Start, StartInVain, Listed, SendAccepted,
     SendRefused, SendInDoubt, SendToServer, BreakOff, Mine
<1>2. CASE dropped
  BY <1>0, <1>1, <1>2 DEF DroppedOrApart
<1>3. CASE UNCHANGED dropped /\ DistributorInv
  <2> SUFFICES DistributorInv' \/ \E nonce \in DOMAIN pool : Drop(nonce)
    BY <1>0, <1>3 DEF DroppedOrApart
  <2> USE <1>3
  <2>1. ASSUME NEW list \in Lists, StartInVain(list) PROVE DistributorInv'
    BY <2>1 DEF StartInVain, Listed, nodeVars, DistributorInv, Begun, Apart, NoneTwice,
       Transfers, Accepted, Left
  <2>2. CASE SendAccepted
    BY <2>2, TurnKeeps DEF SendAccepted, Success, NextRecipient
  <2>3. CASE SendRefused
    BY <2>3, TurnKeeps DEF SendRefused, Failure, NextRecipient, nodeVars
  <2>4. CASE SendInDoubt
    BY <2>4, TurnKeeps DEF SendInDoubt, Failure, NextRecipient
  <2>5. CASE SendToServer
    BY <2>5, TurnKeeps DEF SendToServer, Success, NextRecipient, nodeVars
  <2>6. CASE BreakOff
    BY <2>6, TurnKeeps DEF BreakOff
  <2>7. CASE UNCHANGED distributorVars
    BY <2>7 DEF distributorVars, nodeVars, DistributorInv, Begun, Apart, NoneTwice, Transfers,
       Accepted, Left
  <2> QED
    BY <2>1, <2>2, <2>3, <2>4, <2>5, <2>6, <2>7, StartKeeps, MineKeeps DEF DistributorNext
<1> QED
  BY <1>0, <1>1, <1>2, <1>3 DEF DroppedOrApart

\* For any recipients and lists, any number of runs and of losses: nobody is
\* paid twice by a list that is sent again, unless the node dropped a
\* transaction.
THEOREM NobodyPaidTwice == DistributorSpec => []PaidOnce
<1>1. DistributorInit => DroppedOrApart
  BY InitDistributorInv DEF DistributorInit, DroppedOrApart
<1>2. DroppedOrApart => PaidOnce
  BY DEF DroppedOrApart, DistributorInv, NoneTwice, PaidOnce
<1> QED
  BY <1>1, <1>2, NextDistributorInv, PTL DEF DistributorSpec

-----------------------------------------------------------------------------
(* api/rest_server.py with core/refref_referral_engine.py                  *)

Requests == (UNION Workloads) \cup {Nothing}

RequestsInv ==
  /\ workload \in Workloads
  /\ request \in [Client -> Requests]

LEMMA InitRequestsInv == Init => RequestsInv
  BY DEF Init, RequestsInv, Requests

\* What a request that is read holds for its handler.
LEMMA ReadForms ==
  ASSUME RequestsInv, NEW c \in Client
  PROVE  /\ Read(c, "/api/v1/refref/code/generate")
              => request[c].referrer \in Referrer \cup {WrongType}
         /\ Read(c, "/api/v1/refref/campaign/create")
              => request[c].reward \in RewardValue \cup {WrongType}
<1>1. request[c] \in UNION Workloads \/ request[c] = Nothing
  BY DEF RequestsInv, Requests
<1>2. CASE request[c] = Nothing
  <2>1. request[c].path = "none"
    BY <1>2 DEF Nothing
  <2> QED
    BY <2>1 DEF Read
<1>3. CASE request[c] \in UNION Workloads
  <2>1. PICK requests \in Workloads : request[c] \in requests
    BY <1>3
  <2> QED
    BY <2>1, RequestForms DEF Read
<1> QED
  BY <1>1, <1>2, <1>3

\* A connection ends, and its client is idle or holds the request it had.
LEMMA CloseKeepsRequests ==
  ASSUME RequestsInv, UNCHANGED workload, NEW c \in Client,
         NEW answered, NEW judged, Close(c, answered, judged)
  PROVE  RequestsInv'
<1>1. Nothing \in Requests
  BY DEF Requests
<1> QED
  BY <1>1 DEF Close, RequestsInv

\* The record of a code, an entry of the log, and how often either has a reward.
CodeRecord(ids) ==
  [referrer : Referrer, campaign : ids, earned : Seq(RewardValue), created_at : Nat]

Logged == [code : Code, referrer : Referrer, reward : RewardValue]

Credits(code, reward) ==
  {k \in DOMAIN referral_codes[code].earned : referral_codes[code].earned[k] = reward}

BookedFor(code, reward) == {i \in Booked(code) : conversions[i].reward = reward}

ReferralTypes ==
  /\ DefaultCampaign \in DOMAIN campaigns
  /\ campaigns \in [DOMAIN campaigns -> RewardValue]
  /\ DOMAIN referral_codes \subseteq Code
  /\ referral_codes \in [DOMAIN referral_codes -> CodeRecord(DOMAIN campaigns)]
  /\ conversions \in Seq(Logged)

ReferralInv == ReferralTypes /\ BookedIsCredited

LEMMA InitReferralInv == Init => ReferralInv
<1> SUFFICES ASSUME Init PROVE ReferralInv
  OBVIOUS
<1>1. /\ campaigns = [id \in {DefaultCampaign} |-> DefaultReward]
      /\ referral_codes = <<>> /\ conversions = <<>>
  BY DEF Init, RefRefInit
<1>2. DOMAIN campaigns = {DefaultCampaign} /\ campaigns \in [{DefaultCampaign} -> RewardValue]
  BY <1>1, RefRefParameters
<1>3. DOMAIN referral_codes = {}
  BY <1>1
<1>4. referral_codes \in [{} -> CodeRecord(DOMAIN campaigns)] /\ conversions \in Seq(Logged)
  BY <1>1
<1> QED
  BY <1>2, <1>3, <1>4 DEF ReferralInv, ReferralTypes, BookedIsCredited

LEMMA CreditedForm ==
  BookedIsCredited <=>
     \A code \in DOMAIN referral_codes :
        /\ \A i \in Booked(code) : conversions[i].referrer = referral_codes[code].referrer
        /\ \A reward \in RewardValue :
              Cardinality(BookedFor(code, reward)) <= Cardinality(Credits(code, reward))
  BY DEF BookedIsCredited, BookedFor, Credits

\* The log and the accounts are finite, so that they can be counted.
LEMMA CountsOfReferrals ==
  ASSUME ReferralTypes, NEW code \in DOMAIN referral_codes, NEW reward
  PROVE  /\ IsFiniteSet(BookedFor(code, reward)) /\ Cardinality(BookedFor(code, reward)) \in Nat
         /\ IsFiniteSet(Credits(code, reward)) /\ Cardinality(Credits(code, reward)) \in Nat
<1> DEFINE n == Len(conversions)
<1> DEFINE m == Len(referral_codes[code].earned)
<1>1. n \in Nat /\ DOMAIN conversions = 1 .. n
  BY DEF ReferralTypes
<1>2. m \in Nat /\ DOMAIN referral_codes[code].earned = 1 .. m
  BY DEF ReferralTypes, CodeRecord
<1>3. BookedFor(code, reward) \subseteq 1 .. n /\ Credits(code, reward) \subseteq 1 .. m
  BY <1>1, <1>2 DEF BookedFor, Booked, Credits
<1>4. IsFiniteSet(1 .. n) /\ IsFiniteSet(1 .. m)
  <2> HIDE DEF n, m
  <2>1. \A b \in Nat : IsFiniteSet(1 .. b)
    BY FS_Interval
  <2> QED
    BY <1>1, <1>2, <2>1
<1>5. IsFiniteSet(BookedFor(code, reward)) /\ IsFiniteSet(Credits(code, reward))
  BY <1>3, <1>4, FS_Subset
<1> QED
  BY <1>5, FS_CardinalityType

LEMMA CampaignKeepsReferrals ==
  ASSUME ReferralInv, NEW id, NEW reward_piso \in RewardValue, create_campaign(id, reward_piso)
  PROVE  ReferralInv'
<1>1. /\ campaigns' = Entered(id, reward_piso, campaigns)
      /\ referral_codes' = referral_codes /\ conversions' = conversions
  BY DEF create_campaign
<1> DEFINE ids == DOMAIN campaigns
<1>2. /\ DOMAIN campaigns' = ids \cup {id}
      /\ campaigns' = [k \in DOMAIN campaigns' |-> campaigns'[k]]
      /\ campaigns'[id] = reward_piso
      /\ \A k \in ids : k # id => campaigns'[k] = campaigns[k]
  BY <1>1 DEF Entered
<1>3. campaigns' \in [DOMAIN campaigns' -> RewardValue]
  <2>1. \A k \in ids : campaigns[k] \in RewardValue
    BY DEF ReferralInv, ReferralTypes
  <2>2. \A k \in DOMAIN campaigns' : campaigns'[k] \in RewardValue
    BY <1>2, <2>1
  <2> QED
    BY <1>2, <2>2
<1>4. referral_codes' \in [DOMAIN referral_codes' -> CodeRecord(DOMAIN campaigns')]
  <2>1. ids \subseteq DOMAIN campaigns'
    BY <1>2
  <2>2. CodeRecord(ids) \subseteq CodeRecord(DOMAIN campaigns')
    BY <2>1 DEF CodeRecord
  <2> QED
    BY <1>1, <2>2 DEF ReferralInv, ReferralTypes
<1>5. BookedIsCredited'
  BY <1>1 DEF ReferralInv, BookedIsCredited, Booked
<1> QED
  BY <1>1, <1>2, <1>3, <1>4, <1>5 DEF ReferralInv, ReferralTypes

\* A new record has no log behind it, whatever was logged under its code before.
LEMMA CodeKeepsReferrals ==
  ASSUME ReferralInv, NEW code \in Code, NEW referrer \in Referrer, NEW id,
         generate_referral_code(code, referrer, id)
  PROVE  ReferralInv'
<1> DEFINE ids == DOMAIN campaigns
<1> DEFINE D == DOMAIN referral_codes
<1> DEFINE record == [referrer |-> referrer, campaign |-> Selected(id),
                      earned |-> <<>>, created_at |-> Len(conversions)]
<1>1. /\ referral_codes' = Entered(code, record, referral_codes)
      /\ campaigns' = campaigns /\ conversions' = conversions
  BY DEF generate_referral_code
<1>2. /\ record \in CodeRecord(ids) /\ record.created_at = Len(conversions)
      /\ DOMAIN conversions = 1 .. Len(conversions) /\ Len(conversions) \in Nat
  BY DEF CodeRecord, Selected, ReferralInv, ReferralTypes
<1>8. DOMAIN record.earned = {}
  OBVIOUS
<1> HIDE DEF record
<1>3. /\ DOMAIN referral_codes' = D \cup {code}
      /\ referral_codes' = [k \in DOMAIN referral_codes' |-> referral_codes'[k]]
      /\ referral_codes'[code] = record
      /\ \A k \in D : k # code => referral_codes'[k] = referral_codes[k]
  BY <1>1 DEF Entered
<1>4. D \subseteq Code /\ \A k \in D : referral_codes[k] \in CodeRecord(ids)
  BY DEF ReferralInv, ReferralTypes
<1>5. ReferralTypes'
  <2>1. referral_codes' \in [DOMAIN referral_codes' -> CodeRecord(DOMAIN campaigns')]
    BY <1>1, <1>2, <1>3, <1>4
  <2> QED
    BY <1>1, <1>3, <1>4, <2>1 DEF ReferralInv, ReferralTypes
<1>6. ASSUME NEW k \in DOMAIN referral_codes'
      PROVE  /\ \A i \in Booked(k)' : conversions'[i].referrer = referral_codes'[k].referrer
             /\ \A reward \in RewardValue :
                   Cardinality(BookedFor(k, reward)') <= Cardinality(Credits(k, reward)')
  <2>1. CASE k = code
    <3>1. Booked(k)' = {}
      BY <1>1, <1>2, <1>3, <2>1 DEF Booked
    <3>2. \A reward \in RewardValue : BookedFor(k, reward)' = {}
      BY <3>1 DEF BookedFor
    <3>3. \A reward \in RewardValue : Credits(k, reward)' = {}
      BY <1>3, <1>8, <2>1 DEF Credits
    <3>4. Cardinality({}) = 0
      BY FS_EmptySet
    <3> QED
      BY <3>1, <3>2, <3>3, <3>4
  <2>2. CASE k # code
    <3>1. k \in D /\ referral_codes'[k] = referral_codes[k]
      BY <1>3, <1>6, <2>2
    <3>2. Booked(k)' = Booked(k)
      BY <1>1, <3>1 DEF Booked
    <3>3. \A reward \in RewardValue : /\ BookedFor(k, reward)' = BookedFor(k, reward)
                                  /\ Credits(k, reward)' = Credits(k, reward)
      BY <1>1, <3>1, <3>2 DEF BookedFor, Credits
    <3> QED
      BY <1>1, <3>1, <3>2, <3>3, CreditedForm DEF ReferralInv
  <2> QED
    BY <2>1, <2>2
<1>7. BookedIsCredited'
  BY <1>6 DEF BookedIsCredited, BookedFor, Credits
<1> QED
  BY <1>5, <1>7 DEF ReferralInv

\* The record of a code gains the reward of its campaign, the others stay.
LEMMA CountedAdds ==
  ASSUME ReferralInv, NEW code \in DOMAIN referral_codes, Counted(code),
         UNCHANGED campaigns
  PROVE  /\ CampaignReward(code) \in RewardValue
         /\ DOMAIN referral_codes' = DOMAIN referral_codes
         /\ referral_codes' \in [DOMAIN referral_codes' -> CodeRecord(DOMAIN campaigns')]
         /\ \A k \in DOMAIN referral_codes :
               /\ referral_codes'[k].referrer = referral_codes[k].referrer
               /\ referral_codes'[k].created_at = referral_codes[k].created_at
         /\ \A k \in DOMAIN referral_codes : \A reward \in RewardValue :
               IF k = code /\ reward = CampaignReward(code)
               THEN Cardinality(Credits(k, reward)') = Cardinality(Credits(k, reward)) + 1
               ELSE Credits(k, reward)' = Credits(k, reward)
<1> DEFINE D == DOMAIN referral_codes
<1> PICK r : r = CampaignReward(code)
  OBVIOUS
<1> DEFINE old == referral_codes[code].earned
<1> DEFINE m == Len(old)
<1>1. \A k \in D : referral_codes[k] \in CodeRecord(DOMAIN campaigns)
  BY DEF ReferralInv, ReferralTypes
<1>2. r \in RewardValue /\ old \in Seq(RewardValue)
  BY <1>1 DEF ReferralInv, ReferralTypes, CodeRecord, CampaignReward
<1>3. referral_codes' = [referral_codes EXCEPT ![code].earned = Append(old, r)]
  BY DEF Counted
<1> DEFINE new == Append(old, r)
<1>4. /\ new \in Seq(RewardValue) /\ m \in Nat /\ DOMAIN old = 1 .. m
      /\ DOMAIN new = (1 .. m) \cup {m + 1} /\ new[m + 1] = r
      /\ \A j \in 1 .. m : new[j] = old[j]
  <2>1. new \in Seq(RewardValue) /\ m \in Nat /\ DOMAIN old = 1 .. m /\ DOMAIN new = 1 .. m + 1
        /\ new[m + 1] = r /\ \A j \in 1 .. m : new[j] = old[j]
    BY <1>2
  <2> QED
    BY <2>1
<1> HIDE DEF old, new
<1>5. /\ DOMAIN referral_codes' = D
      /\ referral_codes' = [k \in D |-> referral_codes'[k]]
      /\ \A k \in D : k # code => referral_codes'[k] = referral_codes[k]
      /\ referral_codes'[code] = [referral_codes[code] EXCEPT !.earned = new]
  BY <1>3 DEF ReferralInv, ReferralTypes, new
<1>6. /\ referral_codes'[code] \in CodeRecord(DOMAIN campaigns)
      /\ referral_codes'[code].earned = new
      /\ referral_codes'[code].referrer = referral_codes[code].referrer
      /\ referral_codes'[code].created_at = referral_codes[code].created_at
  BY <1>1, <1>4, <1>5 DEF CodeRecord
<1>7. ASSUME NEW k \in D, NEW reward \in RewardValue, ~(k = code /\ reward = r)
      PROVE  Credits(k, reward)' = Credits(k, reward)
  <2>1. CASE k # code
    BY <1>5, <2>1 DEF Credits
  <2>2. CASE k = code
    <3>1. Credits(k, reward)' = {j \in DOMAIN new : new[j] = reward}
      BY <1>6, <2>2 DEF Credits
    <3>2. Credits(k, reward) = {j \in DOMAIN old : old[j] = reward}
      BY <2>2 DEF Credits, old
    <3> QED
      BY <1>4, <1>7, <2>2, <3>1, <3>2
  <2> QED
    BY <2>1, <2>2
<1>8. Cardinality(Credits(code, r)') = Cardinality(Credits(code, r)) + 1
  <2>1. Credits(code, r)' = {j \in DOMAIN new : new[j] = r}
    BY <1>6 DEF Credits
  <2>2. Credits(code, r) = {j \in DOMAIN old : old[j] = r}
    BY DEF Credits, old
  <2>3. Credits(code, r)' = Credits(code, r) \cup {m + 1} /\ m + 1 \notin Credits(code, r)
    BY <1>4, <2>1, <2>2
  <2>4. IsFiniteSet(Credits(code, r))
    BY CountsOfReferrals DEF ReferralInv
  <2> QED
    BY <2>3, <2>4, FS_AddElement
<1> QED
  BY <1>1, <1>2, <1>5, <1>6, <1>7, <1>8

\* What is logged is credited in the same call.
LEMMA AttributedKeepsReferrals ==
  ASSUME ReferralInv, NEW code, Attributed(code)
  PROVE  ReferralInv'
<1> PICK n : n = Len(conversions)
  OBVIOUS
<1> PICK event : event = [code |-> code, referrer |-> referral_codes[code].referrer,
                          reward |-> CampaignReward(code)]
  OBVIOUS
<1>1. /\ code \in DOMAIN referral_codes /\ Counted(code)
      /\ conversions' = Append(conversions, event) /\ campaigns' = campaigns
  BY DEF Attributed
<1>2. /\ CampaignReward(code) \in RewardValue /\ DOMAIN referral_codes' = DOMAIN referral_codes
      /\ referral_codes' \in [DOMAIN referral_codes' -> CodeRecord(DOMAIN campaigns')]
      /\ \A k \in DOMAIN referral_codes :
            /\ referral_codes'[k].referrer = referral_codes[k].referrer
            /\ referral_codes'[k].created_at = referral_codes[k].created_at
      /\ \A k \in DOMAIN referral_codes : \A reward \in RewardValue :
            IF k = code /\ reward = CampaignReward(code)
            THEN Cardinality(Credits(k, reward)') = Cardinality(Credits(k, reward)) + 1
            ELSE Credits(k, reward)' = Credits(k, reward)
  BY <1>1, CountedAdds
<1>3. /\ event \in Logged /\ event.code = code /\ event.reward = CampaignReward(code)
      /\ event.referrer = referral_codes[code].referrer
  BY <1>1, <1>2 DEF ReferralInv, ReferralTypes, CodeRecord, Logged
<1>4. /\ conversions \in Seq(Logged) /\ conversions' \in Seq(Logged) /\ n \in Nat
      /\ DOMAIN conversions = 1 .. n /\ DOMAIN conversions' = (1 .. n) \cup {n + 1}
      /\ conversions'[n + 1] = event
      /\ \A i \in 1 .. n : conversions'[i] = conversions[i]
  <2>1. conversions \in Seq(Logged)
    BY DEF ReferralInv, ReferralTypes
  <2>2. /\ conversions' \in Seq(Logged) /\ n \in Nat
        /\ DOMAIN conversions = 1 .. n /\ DOMAIN conversions' = 1 .. n + 1
        /\ conversions'[n + 1] = event
        /\ \A i \in 1 .. n : conversions'[i] = conversions[i]
    BY <1>1, <1>3, <2>1
  <2>3. 1 .. n + 1 = (1 .. n) \cup {n + 1}
    BY <2>2
  <2> QED
    BY <2>1, <2>2, <2>3
<1>5. ReferralTypes'
  BY <1>1, <1>2, <1>4 DEF ReferralInv, ReferralTypes
<1>6. ASSUME NEW k \in DOMAIN referral_codes
      PROVE  /\ Booked(k) \subseteq Booked(k)'
             /\ Booked(k)' \subseteq Booked(k) \cup {n + 1}
             /\ k # code => Booked(k)' = Booked(k)
  BY <1>2, <1>3, <1>4 DEF Booked
<1>7. ASSUME NEW k \in DOMAIN referral_codes'
      PROVE  /\ \A i \in Booked(k)' : conversions'[i].referrer = referral_codes'[k].referrer
             /\ \A reward \in RewardValue :
                   Cardinality(BookedFor(k, reward)') <= Cardinality(Credits(k, reward)')
  <2>1. k \in DOMAIN referral_codes
    BY <1>2, <1>7
  <2>2. /\ \A i \in Booked(k) : conversions[i].referrer = referral_codes[k].referrer
        /\ \A reward \in RewardValue :
              Cardinality(BookedFor(k, reward)) <= Cardinality(Credits(k, reward))
    BY <2>1, CreditedForm DEF ReferralInv
  <2>3. Booked(k) \subseteq 1 .. n
    BY <1>4 DEF Booked
  <2>4. \A i \in Booked(k)' : conversions'[i].referrer = referral_codes'[k].referrer
    BY <1>2, <1>3, <1>4, <1>6, <2>1, <2>2, <2>3
  <2>5. ASSUME NEW reward \in RewardValue
        PROVE  Cardinality(BookedFor(k, reward)') <= Cardinality(Credits(k, reward)')
    <3>1. /\ IsFiniteSet(BookedFor(k, reward)) /\ Cardinality(BookedFor(k, reward)) \in Nat
          /\ Cardinality(Credits(k, reward)) \in Nat
      BY <2>1, CountsOfReferrals DEF ReferralInv
    <3>2. CASE k = code /\ reward = CampaignReward(code)
      <4>1. \/ BookedFor(k, reward)' = BookedFor(k, reward)
            \/ BookedFor(k, reward)' = BookedFor(k, reward) \cup {n + 1}
        BY <1>3, <1>4, <1>6, <2>1, <2>3 DEF BookedFor
      <4>2. n + 1 \notin BookedFor(k, reward)
        BY <1>4, <2>3 DEF BookedFor
      <4>3. Cardinality(BookedFor(k, reward)') <= Cardinality(BookedFor(k, reward)) + 1
        BY <3>1, <4>1, <4>2, FS_AddElement
      <4>4. Cardinality(Credits(k, reward)') = Cardinality(Credits(k, reward)) + 1
        BY <1>2, <2>1, <3>2
      <4>5. Cardinality(BookedFor(k, reward)) <= Cardinality(Credits(k, reward))
        BY <2>2
      <4>6. Cardinality(BookedFor(k, reward)') \in Nat
        <5>1. CASE BookedFor(k, reward)' = BookedFor(k, reward)
          BY <3>1, <5>1
        <5>2. CASE BookedFor(k, reward)' = BookedFor(k, reward) \cup {n + 1}
          <6>1. Cardinality(BookedFor(k, reward)') = Cardinality(BookedFor(k, reward)) + 1
            BY <3>1, <4>2, <5>2, FS_AddElement
          <6> QED
            BY <3>1, <6>1
        <5> QED
          BY <4>1, <5>1, <5>2
      <4> QED
        BY <3>1, <4>3, <4>4, <4>5, <4>6
    <3>3. CASE ~(k = code /\ reward = CampaignReward(code))
      <4>1. BookedFor(k, reward)' = BookedFor(k, reward)
        BY <1>3, <1>4, <1>6, <2>1, <2>3, <3>3 DEF BookedFor
      <4>2. Credits(k, reward)' = Credits(k, reward)
        BY <1>2, <2>1, <3>3
      <4> QED
        BY <2>2, <4>1, <4>2
    <3> QED
      BY <3>2, <3>3
  <2> QED
    BY <2>4, <2>5
<1>8. BookedIsCredited'
  BY <1>7 DEF BookedIsCredited, BookedFor, Credits
<1> QED
  BY <1>5, <1>8 DEF ReferralInv

\* A call that raises has credited what it does not log.
LEMMA RaisedKeepsReferrals ==
  ASSUME ReferralInv, NEW code, CountedThenRaised(code)
  PROVE  ReferralInv'
<1>1. /\ code \in DOMAIN referral_codes /\ Counted(code) /\ conversions' = conversions
      /\ campaigns' = campaigns
  BY DEF CountedThenRaised
<1>2. /\ DOMAIN referral_codes' = DOMAIN referral_codes
      /\ referral_codes' \in [DOMAIN referral_codes' -> CodeRecord(DOMAIN campaigns')]
      /\ \A k \in DOMAIN referral_codes :
            /\ referral_codes'[k].referrer = referral_codes[k].referrer
            /\ referral_codes'[k].created_at = referral_codes[k].created_at
      /\ \A k \in DOMAIN referral_codes : \A reward \in RewardValue :
            IF k = code /\ reward = CampaignReward(code)
            THEN Cardinality(Credits(k, reward)') = Cardinality(Credits(k, reward)) + 1
            ELSE Credits(k, reward)' = Credits(k, reward)
  BY <1>1, CountedAdds
<1>3. ReferralTypes'
  BY <1>1, <1>2 DEF ReferralInv, ReferralTypes
<1>4. ASSUME NEW k \in DOMAIN referral_codes'
      PROVE  /\ \A i \in Booked(k)' : conversions'[i].referrer = referral_codes'[k].referrer
             /\ \A reward \in RewardValue :
                   Cardinality(BookedFor(k, reward)') <= Cardinality(Credits(k, reward)')
  <2>1. k \in DOMAIN referral_codes /\ Booked(k)' = Booked(k)
    BY <1>1, <1>2, <1>4 DEF Booked
  <2>2. /\ \A i \in Booked(k) : conversions[i].referrer = referral_codes[k].referrer
        /\ \A reward \in RewardValue :
              Cardinality(BookedFor(k, reward)) <= Cardinality(Credits(k, reward))
    BY <2>1, CreditedForm DEF ReferralInv
  <2>3. ASSUME NEW reward \in RewardValue
        PROVE  Cardinality(BookedFor(k, reward)') <= Cardinality(Credits(k, reward)')
    <3>1. BookedFor(k, reward)' = BookedFor(k, reward)
      BY <1>1, <2>1 DEF BookedFor
    <3>2. /\ Cardinality(BookedFor(k, reward)) \in Nat /\ Cardinality(Credits(k, reward)) \in Nat
          /\ Cardinality(BookedFor(k, reward)) <= Cardinality(Credits(k, reward))
      BY <2>1, <2>2, CountsOfReferrals DEF ReferralInv
    <3>3. \/ Cardinality(Credits(k, reward)') = Cardinality(Credits(k, reward)) + 1
          \/ Credits(k, reward)' = Credits(k, reward)
      BY <1>2, <2>1
    <3> QED
      BY <3>1, <3>2, <3>3
  <2> QED
    BY <1>1, <1>2, <2>1, <2>2, <2>3
<1>5. BookedIsCredited'
  BY <1>4 DEF BookedIsCredited, BookedFor, Credits
<1> QED
  BY <1>3, <1>5 DEF ReferralInv

LEMMA SameReferralsKeep ==
  ASSUME ReferralInv, UNCHANGED refrefVars
  PROVE  ReferralInv'
  BY DEF refrefVars, ReferralInv, ReferralTypes, BookedIsCredited, Booked

RestInv == RequestsInv /\ ReferralInv

\* What clients do leaves the engines alone.
LEMMA ClientsKeepRestInv ==
  ASSUME RestInv, UNCHANGED workload, NEW c \in Client,
         \/ \E req \in workload : Ask(c, req)
         \/ AskAgain(c)
         \/ GiveUp(c)
         \/ \E how \in {"whole", "cut"} : Upload(c, how)
  PROVE  RestInv'
<1>1. RequestsInv /\ ReferralInv /\ Nothing \in Requests
  BY DEF RestInv, Requests
<1>2. \A req \in workload : req \in Requests
  BY <1>1 DEF RequestsInv, Requests
<1>3. UNCHANGED engineVars
  BY DEF Ask, AskAgain, GiveUp, Upload, Connect
<1>4. ReferralInv'
  BY <1>1, <1>3, SameReferralsKeep DEF engineVars, refrefVars
<1>5. \/ \E req \in Requests : request' = [request EXCEPT ![c] = req]
      \/ request' = request
  BY <1>1, <1>2 DEF Ask, AskAgain, GiveUp, Upload, Connect, RequestsInv
<1> QED
  BY <1>1, <1>4, <1>5 DEF RestInv, RequestsInv

\* The handlers of the referral engine, with the requests they refuse.
LEMMA HandlersKeepReferrals ==
  ASSUME RestInv, NEW c \in Client
  PROVE  /\ \A id \in CampaignId : PostCampaign(c, id) => ReferralInv'
         /\ \A code \in Code : PostCode(c, code) => ReferralInv'
         /\ PostConversion(c) => ReferralInv'
<1>1. RequestsInv /\ ReferralInv
  BY DEF RestInv
<1>2. ASSUME NEW id \in CampaignId, PostCampaign(c, id) PROVE ReferralInv'
  <2>1. \/ /\ request[c].reward # WrongType
           /\ create_campaign(id, request[c].reward)
        \/ UNCHANGED refrefVars
    BY <1>2 DEF PostCampaign
  <2>2. request[c].reward \in RewardValue \cup {WrongType}
    BY <1>1, <1>2, ReadForms DEF PostCampaign
  <2> QED
    BY <1>1, <2>1, <2>2, CampaignKeepsReferrals, SameReferralsKeep
<1>3. ASSUME NEW code \in Code, PostCode(c, code) PROVE ReferralInv'
  <2>1. \/ /\ request[c].referrer # WrongType
           /\ generate_referral_code(code, request[c].referrer, request[c].campaign)
        \/ UNCHANGED refrefVars
    BY <1>3 DEF PostCode
  <2>2. request[c].referrer \in Referrer \cup {WrongType}
    BY <1>1, <1>3, ReadForms DEF PostCode
  <2> QED
    BY <1>1, <2>1, <2>2, CodeKeepsReferrals, SameReferralsKeep
<1>4. ASSUME PostConversion(c) PROVE ReferralInv'
  <2>1. \/ UNCHANGED refrefVars
        \/ Attributed(request[c].code)
        \/ CountedThenRaised(request[c].code)
    BY <1>4 DEF PostConversion
  <2> QED
    BY <1>1, <2>1, SameReferralsKeep, AttributedKeepsReferrals, RaisedKeepsReferrals
<1> QED
  BY <1>2, <1>3, <1>4

LEMMA ServeKeepsRestInv == ASSUME RestInv, UNCHANGED workload, Serve PROVE RestInv'
<1>1. RequestsInv /\ ReferralInv
  BY DEF RestInv
<1>2. CASE Accept
  BY <1>1, <1>2, SameReferralsKeep
     DEF RestInv, Accept, clientVars, engineVars, refrefVars, RequestsInv
<1>3. ASSUME NEW c \in Client,
             \/ DropCut(c) \/ do_GET(c) \/ do_POST(c) \/ PostConversion(c)
             \/ \E id \in JobId : PostSchedule(c, id)
             \/ \E id \in CampaignId : PostCampaign(c, id)
             \/ \E code \in Code : PostCode(c, code)
      PROVE  RestInv'
  <2>1. \E answered, judged : Close(c, answered, judged)
    BY <1>3 DEF DropCut, do_GET, do_POST, PostSchedule, PostCampaign, PostCode, PostConversion
  <2>2. RequestsInv'
    BY <1>1, <2>1, CloseKeepsRequests
  <2>3. CASE DropCut(c) \/ do_GET(c) \/ do_POST(c) \/ \E id \in JobId : PostSchedule(c, id)
    <3>1. UNCHANGED refrefVars
      BY <2>3 DEF DropCut, do_GET, do_POST, PostSchedule, engineVars, refrefVars
    <3> QED
      BY <1>1, <2>2, <3>1, SameReferralsKeep DEF RestInv
  <2>4. CASE \/ PostConversion(c)
             \/ \E id \in CampaignId : PostCampaign(c, id)
             \/ \E code \in Code : PostCode(c, code)
    BY <2>2, <2>4, HandlersKeepReferrals DEF RestInv
  <2> QED
    BY <1>3, <2>3, <2>4
<1> QED
  BY <1>2, <1>3 DEF Serve

LEMMA NextRestInv == RestInv /\ [Next]_vars => RestInv'
<1> SUFFICES ASSUME RestInv, [Next]_vars PROVE RestInv'
  OBVIOUS
<1>1. ASSUME UNCHANGED workload, Serve PROVE RestInv'
  BY <1>1, ServeKeepsRestInv
<1>2. ASSUME UNCHANGED workload, NEW c \in Client,
             \/ \E req \in workload : Ask(c, req)
             \/ AskAgain(c)
             \/ GiveUp(c)
             \/ \E how \in {"whole", "cut"} : Upload(c, how)
      PROVE  RestInv'
  BY <1>2, ClientsKeepRestInv
<1>3. ASSUME UNCHANGED <<refrefVars, clientVars, workload>> PROVE RestInv'
  BY <1>3, SameReferralsKeep DEF RestInv, RequestsInv, clientVars
<1>4. CASE UNCHANGED vars
  BY <1>3, <1>4 DEF vars, engineVars, refrefVars
<1>5. ASSUME NEW id \in JobId, RunTask(id), UNCHANGED workload PROVE RestInv'
  BY <1>3, <1>5 DEF RunTask
<1> QED
  BY <1>1, <1>2, <1>4, <1>5 DEF Next

\* Whatever clients send, break off and repeat, what the log calls disbursed for a
\* code was credited to the referrer of its record, each reward as often as logged.
THEOREM BookedRewardsCredited == Spec => []BookedIsCredited
<1>1. Init => RestInv
  BY InitRequestsInv, InitReferralInv DEF RestInv
<1>2. RestInv => BookedIsCredited
  BY DEF RestInv, ReferralInv
<1> QED
  BY <1>1, <1>2, NextRestInv, PTL DEF Spec

-----------------------------------------------------------------------------
(* wallet/hdwallet/hdwallet.py, recovery/recovery.py and the tools         *)

\* A path that was read or built, and the indexes it stands for.
ReadPaths == Seq([val : Int, hard : {"marked", "plain"}])
Indexes(path) == [k \in 1 .. Len(path) |-> index_of(path[k])]

LEMMA EntryOfSeq ==
  ASSUME NEW S, NEW seq \in Seq(S), NEW k \in 1 .. Len(seq)
  PROVE  seq[k] \in S
  OBVIOUS

LEMMA IndexesMeasured ==
  ASSUME NEW path \in ReadPaths
  PROVE  Indexes(path) \in Seq(Int) /\ Len(Indexes(path)) = Len(path)
<1>1. \A k \in 1 .. Len(path) : index_of(path[k]) \in Int
  <2>1. ASSUME NEW k \in 1 .. Len(path)
        PROVE  index_of(path[k]) \in Int
    <3>1. path[k] \in [val : Int, hard : {"marked", "plain"}]
      BY EntryOfSeq DEF ReadPaths
    <3>2. path[k].val \in Int
      BY <3>1
    <3> QED  BY <3>2, PathsAreParts DEF index_of
  <2> QED  BY <2>1
<1>2. Len(path) \in Nat
  BY DEF ReadPaths
<1> QED  BY <1>1, <1>2 DEF Indexes

LEMMA DefaultsAreRead ==
  ASSUME NEW coin_type \in CoinType
  PROVE  /\ build_path(coin_type, 0, 0) \in ReadPaths
         /\ Len(build_path(coin_type, 0, 0)) = 5
         /\ build_path(coin_type, 0, 0) # NotAPath
<1>1. coin_type \in Int
  BY PathsAreParts
<1>2. build_path(coin_type, 0, 0) \in ReadPaths /\ Len(build_path(coin_type, 0, 0)) = 5
  BY <1>1 DEF build_path, ReadPaths
<1>3. Len(NotAPath) = 1
  BY DEF NotAPath
<1> QED  BY <1>2, <1>3

\* Paths that stand for the same indexes.
SameIndexes(path, other) ==
  /\ Len(path) = Len(other)
  /\ \A k \in 1 .. Len(other) : index_of(path[k]) = index_of(other[k])

LEMMA SameIndexesSame ==
  ASSUME NEW path \in ReadPaths, NEW other \in ReadPaths
  PROVE  Indexes(path) = Indexes(other) <=> SameIndexes(path, other)
<1>1. ASSUME Indexes(path) = Indexes(other)
      PROVE  SameIndexes(path, other)
  <2>1. Len(path) = Len(other)
    BY <1>1, IndexesMeasured
  <2>2. \A k \in 1 .. Len(other) : Indexes(path)[k] = Indexes(other)[k]
    BY <1>1
  <2> QED  BY <2>1, <2>2 DEF SameIndexes, Indexes
<1>2. ASSUME SameIndexes(path, other)
      PROVE  Indexes(path) = Indexes(other)
  BY <1>2 DEF SameIndexes, Indexes
<1> QED  BY <1>1, <1>2

-----------------------------------------------------------------------------
\* The node a derivation has reached after k steps.
NodeAt(master, path, k) == [master EXCEPT !.indexes = SubSeq(Indexes(path), 1, k)]

CanDerive(master, path) ==
  \A k \in 1 .. Len(path) : Derivable(NodeAt(master, path, k - 1), Indexes(path)[k])

LEMMA DeriveByNodes ==
  ASSUME NEW master, NEW path
  PROVE  derive_path(master, path)
           = IF path # NotAPath /\ CanDerive(master, path)
             THEN NodeAt(master, path, Len(path)) ELSE Invalid
  BY DEF derive_path, NodeAt, CanDerive, Indexes

LEMMA WholeIndexes ==
  ASSUME NEW seq \in Seq(Int)
  PROVE  SubSeq(seq, 1, Len(seq)) = seq
  OBVIOUS

\* What a derivation from the seed of a phrase comes to.
Account(phrase, passphrase, indexes) ==
  [seed |-> <<phrase, passphrase>>, curve |-> "secp256k1", indexes |-> indexes]

LEMMA AccountsApart ==
  ASSUME NEW phrase, NEW passphrase, NEW indexes, NEW phrase2, NEW passphrase2, NEW indexes2
  PROVE  /\ Account(phrase, passphrase, indexes) = Account(phrase2, passphrase2, indexes2)
              <=> phrase = phrase2 /\ passphrase = passphrase2 /\ indexes = indexes2
         /\ Account(phrase, passphrase, indexes) # Invalid
<1>1. ASSUME Account(phrase, passphrase, indexes) = Account(phrase2, passphrase2, indexes2)
      PROVE  phrase = phrase2 /\ passphrase = passphrase2 /\ indexes = indexes2
  <2>1. <<phrase, passphrase>> = <<phrase2, passphrase2>> /\ indexes = indexes2
    BY <1>1 DEF Account
  <2> QED  BY <2>1
<1>2. "error" \notin DOMAIN Account(phrase, passphrase, indexes) /\ "error" \in DOMAIN Invalid
  BY DEF Account, Invalid
<1> QED  BY <1>1, <1>2

Recoverable(phrase, passphrase, path) ==
  /\ mnemonic_valid(phrase)
  /\ path # NotAPath
  /\ CanDerive(from_seed(<<phrase, passphrase>>, "secp256k1"), path)

LEMMA RecoveredAccount ==
  ASSUME NEW phrase, NEW passphrase, NEW path \in ReadPaths \cup {NotAPath}
  PROVE  recover_from_path(phrase, passphrase, "secp256k1", path)
           = IF Recoverable(phrase, passphrase, path)
             THEN Account(phrase, passphrase, Indexes(path)) ELSE Invalid
<1> DEFINE master == from_seed(<<phrase, passphrase>>, "secp256k1")
           node == derive_path(master, path)
<1>1. recover_from_path(phrase, passphrase, "secp256k1", path)
        = IF mnemonic_valid(phrase) THEN from_hdnode(node) ELSE Invalid
  BY DEF recover_from_path, to_seed
<1>2. CASE Recoverable(phrase, passphrase, path)
  <2>1. path \in ReadPaths
    BY <1>2 DEF Recoverable
  <2>2. node = NodeAt(master, path, Len(path))
    BY <1>2, DeriveByNodes DEF Recoverable
  <2>3. SubSeq(Indexes(path), 1, Len(path)) = Indexes(path)
    <3>1. Indexes(path) \in Seq(Int) /\ Len(Indexes(path)) = Len(path)
      BY <2>1, IndexesMeasured
    <3> QED  BY <3>1, WholeIndexes
  <2>4. node = [master EXCEPT !.indexes = Indexes(path)]
    BY <2>2, <2>3 DEF NodeAt
  <2>5. node = Account(phrase, passphrase, Indexes(path))
    BY <2>4 DEF from_seed, Account
  <2>6. node.curve = "secp256k1"
    BY <2>5 DEF Account
  <2>7. node # Invalid
    BY <2>5, AccountsApart
  <2>8. from_hdnode(node) = node
    BY <2>6, <2>7 DEF from_hdnode
  <2> HIDE DEF node
  <2> QED  BY <1>1, <1>2, <2>5, <2>8 DEF Recoverable
<1>3. CASE ~Recoverable(phrase, passphrase, path)
  <2>1. mnemonic_valid(phrase) => node = Invalid
    BY <1>3, DeriveByNodes DEF Recoverable
  <2>2. node = Invalid => from_hdnode(node) = Invalid
    BY DEF from_hdnode
  <2> HIDE DEF node
  <2> QED  BY <1>1, <1>3, <2>1, <2>2
<1> QED  BY <1>2, <1>3

\* Whether a path can be derived is a matter of its indexes.
LEMMA IndexesDecide ==
  ASSUME NEW master, NEW path, NEW other, Indexes(path) = Indexes(other),
         Len(path) = Len(other), CanDerive(master, other)
  PROVE  CanDerive(master, path)
  BY DEF CanDerive, NodeAt

-----------------------------------------------------------------------------
MadePath == build_path(made.coin_type, 0, 0)

\* The path an account was found by.
PathUsed == IF found.tool = "derive_address" THEN DefaultPath ELSE found.path

\* What was printed is the account of the phrase, the passphrase and the path
\* that were printed with it, and what was found is what they lead to.
ToolsInv ==
  /\ made # NoAccount =>
        /\ made.coin_type \in CoinType
        /\ Recoverable(made.phrase, made.passphrase, MadePath)
        /\ made.account = Account(made.phrase, made.passphrase, Indexes(MadePath))
  /\ found # NoAccount =>
        /\ made # NoAccount
        /\ PathUsed \in ReadPaths \cup {NotAPath}
        /\ found.account =
              recover_from_path(found.phrase, found.passphrase, "secp256k1", PathUsed)

LEMMA InitToolsInv == ToolsInit => ToolsInv
  BY DEF ToolsInit, ToolsInv

LEMMA CreateKeeps ==
  ASSUME ToolsInv, NEW words, NEW passphrase, NEW coin_type \in CoinType,
         Create(words, passphrase, coin_type)
  PROVE  ToolsInv'
<1>1. made = NoAccount /\ found' = NoAccount
  BY DEF Create, ToolsInv
<1>2. PICK entropy \in Entropy :
        made' = IF recover_from_mnemonic(entropy_to_mnemonic(entropy, words), passphrase,
                                         coin_type) = Invalid
                THEN NoAccount
                ELSE [phrase |-> entropy_to_mnemonic(entropy, words),
                      passphrase |-> passphrase, coin_type |-> coin_type,
                      account |-> recover_from_mnemonic(entropy_to_mnemonic(entropy, words),
                                                        passphrase, coin_type)]
  BY DEF Create
<1> DEFINE phrase == entropy_to_mnemonic(entropy, words)
           path == build_path(coin_type, 0, 0)
           account == recover_from_mnemonic(phrase, passphrase, coin_type)
<1>3. path \in ReadPaths
  BY DefaultsAreRead
<1>4. account = IF Recoverable(phrase, passphrase, path)
                THEN Account(phrase, passphrase, Indexes(path)) ELSE Invalid
  <2> HIDE DEF phrase
  <2>1. account = recover_from_path(phrase, passphrase, "secp256k1", path)
    BY DEF recover_from_mnemonic
  <2> HIDE DEF account, path
  <2> QED  BY <1>3, <2>1, RecoveredAccount
<1>5. CASE account = Invalid
  BY <1>1, <1>2, <1>5 DEF ToolsInv
<1>6. CASE account # Invalid
  <2>1. made' = [phrase |-> phrase, passphrase |-> passphrase, coin_type |-> coin_type,
                 account |-> account]
    BY <1>2, <1>6
  <2> HIDE DEF phrase, account
  <2>2. made'.phrase = phrase /\ made'.passphrase = passphrase
        /\ made'.coin_type = coin_type /\ made'.account = account
    BY <2>1
  <2>3. MadePath' = path
    BY <2>2 DEF MadePath
  <2> HIDE DEF path
  <2>4. Recoverable(phrase, passphrase, path)
        /\ account = Account(phrase, passphrase, Indexes(path))
    BY <1>4, <1>6
  <2> QED  BY <1>1, <2>2, <2>3, <2>4 DEF ToolsInv
<1> QED  BY <1>5, <1>6

LEMMA FindKeeps ==
  ASSUME ToolsInv, made # NoAccount, NEW tool, NEW phrase, NEW passphrase, NEW path,
         NEW used \in ReadPaths \cup {NotAPath},
         used = IF tool = "derive_address" THEN DefaultPath ELSE path,
         Find(tool, phrase, passphrase, path,
              recover_from_path(phrase, passphrase, "secp256k1", used))
  PROVE  ToolsInv'
<1> DEFINE account == recover_from_path(phrase, passphrase, "secp256k1", used)
<1>1. found' = [tool |-> tool, phrase |-> phrase, passphrase |-> passphrase, path |-> path,
                account |-> account] /\ made' = made
  BY DEF Find
<1>2. MadePath' = MadePath
  BY <1>1 DEF MadePath
<1>3. /\ found'.phrase = phrase /\ found'.passphrase = passphrase
      /\ found'.account = account /\ found'.tool = tool /\ found'.path = path
  BY <1>1
<1>4. PathUsed' = used
  BY <1>3 DEF PathUsed, DefaultPath
<1>5. found'.account =
         recover_from_path(found'.phrase, found'.passphrase, "secp256k1", PathUsed')
  BY <1>3, <1>4
<1> HIDE DEF account
<1> QED  BY <1>1, <1>2, <1>4, <1>5 DEF ToolsInv

LEMMA FindAtCoinKeeps ==
  ASSUME ToolsInv, made # NoAccount, NEW tool \in {"recover", "recover_wallet"}, NEW phrase,
         NEW passphrase, NEW coin_type \in CoinType,
         Find(tool, phrase, passphrase, build_path(coin_type, 0, 0),
              recover_from_mnemonic(phrase, passphrase, coin_type))
  PROVE  ToolsInv'
<1> DEFINE path == build_path(coin_type, 0, 0)
<1>1. path \in ReadPaths \cup {NotAPath}
  BY DefaultsAreRead
<1>2. Find(tool, phrase, passphrase, path,
           recover_from_path(phrase, passphrase, "secp256k1", path))
  BY DEF recover_from_mnemonic
<1>3. path = IF tool = "derive_address" THEN DefaultPath ELSE path
  OBVIOUS
<1> HIDE DEF path
<1> QED  BY <1>1, <1>2, <1>3, FindKeeps

LEMMA NextToolsInv ==
  ASSUME ToolsInv, [ToolsNext]_toolVars
  PROVE  ToolsInv'
<1>1. CASE cmd_wallet_create
  BY <1>1, CreateKeeps DEF cmd_wallet_create
<1>2. CASE generate_wallet
  BY <1>2, CreateKeeps, DefaultsAreTyped DEF generate_wallet
<1>3. CASE ai_agent_wallet
  BY <1>3, CreateKeeps, DefaultsAreTyped DEF ai_agent_wallet
<1>4. ASSUME made # NoAccount, NEW phrase, cmd_wallet_recover(phrase)
      PROVE  ToolsInv'
  BY <1>4, FindAtCoinKeeps DEF cmd_wallet_recover
<1>5. ASSUME made # NoAccount, NEW phrase, cmd_wallet_derive(phrase)
      PROVE  ToolsInv'
  <2>1. PICK path \in Path :
          Find("derive", phrase, "", path, recover_from_path(phrase, "", "secp256k1", path))
    BY <1>5 DEF cmd_wallet_derive
  <2>2. path \in ReadPaths \cup {NotAPath}
    BY PathsAreParts DEF ReadPaths
  <2>3. path = IF "derive" = "derive_address" THEN DefaultPath ELSE path
    OBVIOUS
  <2> QED  BY <1>5, <2>1, <2>2, <2>3, FindKeeps
<1>6. ASSUME made # NoAccount, NEW phrase, recover_wallet(phrase)
      PROVE  ToolsInv'
  BY <1>6, FindAtCoinKeeps, DefaultsAreTyped DEF recover_wallet, DefaultPath
<1>7. ASSUME made # NoAccount, NEW phrase, derive_address(phrase)
      PROVE  ToolsInv'
  <2>1. PICK path \in Path :
          Find("derive_address", phrase, "", path,
               recover_from_path(phrase, "", "secp256k1", DefaultPath))
    BY <1>7 DEF derive_address, recover_from_mnemonic, DefaultPath
  <2>2. DefaultPath \in ReadPaths \cup {NotAPath}
    BY DefaultsAreRead, DefaultsAreTyped DEF DefaultPath
  <2>3. DefaultPath = IF "derive_address" = "derive_address" THEN DefaultPath ELSE path
    OBVIOUS
  <2> QED  BY <1>7, <2>1, <2>2, <2>3, FindKeeps
<1>8. ASSUME NEW coin_type, NEW symbol, register(coin_type, symbol)
      PROVE  ToolsInv'
  BY <1>8 DEF register, ToolsInv, MadePath, PathUsed
<1>9. CASE UNCHANGED toolVars
  BY <1>9 DEF toolVars, ToolsInv, MadePath, PathUsed
<1> QED  BY <1>1, <1>2, <1>3, <1>4, <1>5, <1>6, <1>7, <1>8, <1>9 DEF ToolsNext

\* Two coin types never have the same path.
LEMMA CoinsApart ==
  ASSUME NEW coin \in CoinType, NEW other \in CoinType
  PROVE  SameIndexes(build_path(coin, 0, 0), build_path(other, 0, 0)) <=> coin = other
<1>1. coin \in Int /\ other \in Int /\ HARDENED_OFFSET \in Nat
  BY PathsAreParts
<1>2. ASSUME NEW c PROVE index_of([val |-> c, hard |-> "marked"]) = c + HARDENED_OFFSET
  BY DEF index_of
<1>3. ASSUME NEW c PROVE index_of(build_path(c, 0, 0)[2]) = c + HARDENED_OFFSET
  <2>1. build_path(c, 0, 0)[2] = [val |-> c, hard |-> "marked"]
    BY DEF build_path
  <2> QED  BY <1>2, <2>1
<1>4. Len(build_path(other, 0, 0)) = 5 /\ 2 \in 1 .. 5
  BY DefaultsAreRead
<1>5. ASSUME SameIndexes(build_path(coin, 0, 0), build_path(other, 0, 0)) PROVE coin = other
  <2>1. index_of(build_path(coin, 0, 0)[2]) = index_of(build_path(other, 0, 0)[2])
    BY <1>4, <1>5 DEF SameIndexes
  <2>2. coin + HARDENED_OFFSET = other + HARDENED_OFFSET
    BY <1>1, <1>3, <2>1
  <2> QED  BY <1>1, <2>2
<1>6. ASSUME coin = other PROVE SameIndexes(build_path(coin, 0, 0), build_path(other, 0, 0))
  BY <1>6 DEF SameIndexes
<1> QED  BY <1>5, <1>6

LEMMA SameAccountOnly ==
  ASSUME ToolsInv
  PROVE  ToolsAgree
<1> SUFFICES ASSUME made # NoAccount, found # NoAccount
             PROVE  found.account = made.account <=>
                       /\ found.phrase = made.phrase
                       /\ found.passphrase = made.passphrase
                       /\ IF found.tool = "derive_address" THEN made.coin_type = DefaultCoin
                          ELSE /\ found.path # NotAPath /\ Len(found.path) = 5
                               /\ \A k \in 1 .. 5 :
                                     index_of(found.path[k]) = index_of(MadePath[k])
  BY DEF ToolsAgree, MadePath
<1>1. MadePath \in ReadPaths /\ Len(MadePath) = 5
  BY DefaultsAreRead DEF ToolsInv, MadePath
<1>2. /\ Recoverable(made.phrase, made.passphrase, MadePath)
      /\ made.account = Account(made.phrase, made.passphrase, Indexes(MadePath))
      /\ PathUsed \in ReadPaths \cup {NotAPath}
      /\ found.account =
            IF Recoverable(found.phrase, found.passphrase, PathUsed)
            THEN Account(found.phrase, found.passphrase, Indexes(PathUsed)) ELSE Invalid
  BY RecoveredAccount DEF ToolsInv
<1>3. ASSUME found.account = made.account
      PROVE  /\ found.phrase = made.phrase
             /\ found.passphrase = made.passphrase
             /\ PathUsed # NotAPath /\ SameIndexes(PathUsed, MadePath)
  <2>1. Recoverable(found.phrase, found.passphrase, PathUsed)
    BY <1>2, <1>3, AccountsApart
  <2>2. PathUsed # NotAPath /\ PathUsed \in ReadPaths
    BY <1>2, <2>1 DEF Recoverable
  <2>3. Account(found.phrase, found.passphrase, Indexes(PathUsed))
          = Account(made.phrase, made.passphrase, Indexes(MadePath))
    BY <1>2, <1>3, <2>1
  <2>4. found.phrase = made.phrase /\ found.passphrase = made.passphrase
        /\ Indexes(PathUsed) = Indexes(MadePath)
    BY <2>3, AccountsApart
  <2> QED  BY <1>1, <2>2, <2>4, SameIndexesSame
<1>4. ASSUME found.phrase = made.phrase, found.passphrase = made.passphrase,
             PathUsed # NotAPath, SameIndexes(PathUsed, MadePath)
      PROVE  found.account = made.account
  <2>1. PathUsed \in ReadPaths
    BY <1>2, <1>4
  <2>2. Indexes(PathUsed) = Indexes(MadePath) /\ Len(PathUsed) = Len(MadePath)
    BY <1>1, <1>4, <2>1, SameIndexesSame DEF SameIndexes
  <2>3. Recoverable(found.phrase, found.passphrase, PathUsed)
    BY <1>2, <1>4, <2>2, IndexesDecide DEF Recoverable
  <2> QED  BY <1>2, <1>4, <2>2, <2>3
<1>5. (PathUsed # NotAPath /\ SameIndexes(PathUsed, MadePath)) <=>
         IF found.tool = "derive_address" THEN made.coin_type = DefaultCoin
         ELSE /\ found.path # NotAPath /\ Len(found.path) = 5
              /\ \A k \in 1 .. 5 : index_of(found.path[k]) = index_of(MadePath[k])
  <2>1. CASE found.tool = "derive_address"
    <3>1. PathUsed = build_path(DefaultCoin, 0, 0) /\ made.coin_type \in CoinType
      BY <2>1 DEF PathUsed, DefaultPath, ToolsInv
    <3>2. build_path(DefaultCoin, 0, 0) # NotAPath
      BY DefaultsAreRead, DefaultsAreTyped
    <3>3. SameIndexes(build_path(DefaultCoin, 0, 0), MadePath)
             <=> DefaultCoin = made.coin_type
      BY <3>1, CoinsApart, DefaultsAreTyped DEF MadePath
    <3> QED  BY <2>1, <3>1, <3>2, <3>3
  <2>2. CASE found.tool # "derive_address"
    <3>1. PathUsed = found.path
      BY <2>2 DEF PathUsed
    <3> HIDE DEF MadePath
    <3> QED  BY <1>1, <2>2, <3>1 DEF SameIndexes
  <2> QED  BY <2>1, <2>2
<1> HIDE DEF MadePath
<1> QED  BY <1>3, <1>4, <1>5

\* For any entropy, checksums, passphrases and paths, the account that was
\* made is found again from what was printed with it, by any of the tools, and
\* from nothing else, but for the path, which derive_address of the SDK does not
\* look at (create_wallet, recover_from_mnemonic, derive_path).
THEOREM ToolsFindAccounts == ToolsSpec => []ToolsAgree
<1>1. ToolsInv /\ [ToolsNext]_toolVars => ToolsInv'
  BY NextToolsInv
<1> QED  BY InitToolsInv, <1>1, SameAccountOnly, PTL DEF ToolsSpec

-----------------------------------------------------------------------------
(* wallet/encryption/keystore.py, scripts/kms_key_manager.py               *)

\* A key of one of the two roles: none of the answers that stand for no key.
PrivateKeys == {private_key(role, seed) : role \in {"WALLET", "VALIDATOR"}, seed \in Seed}

LEMMA NoAnswerIsAKey ==
  ASSUME NEW key \in PrivateKeys
  PROVE  key # Raised /\ key # Garbage /\ key # FixedText
<1>1. PICK role \in {"WALLET", "VALIDATOR"}, seed \in Seed : key = <<role, seed>>
  BY DEF PrivateKeys, private_key
<1>2. key[1] = role
  BY <1>1
<1>3. Raised[1] = "error" /\ Garbage[1] = "not the key" /\ FixedText[1] = "fixed text"
  BY DEF Raised, Garbage, FixedText
<1> QED  BY <1>2, <1>3

\* The keystore on disk is the one last written, but for its damage.
KeystoreInv ==
  \/ keystore = NoFile
  \/ /\ put.keystore[1] \in PrivateKeys
     /\ {"text", "mac", "salt"} \subseteq DOMAIN keystore
     /\ keystore.text = put.keystore[1]
     /\ keystore.mac = derived_key(keystore, put.keystore[2])

EnvelopeInv ==
  \/ envelope = NoFile
  \/ /\ put.envelope[1] \in PrivateKeys
     /\ \/ envelope.provider \in Stubs
        \/ /\ envelope.provider = "local_aes_gcm"
           /\ envelope.text = put.envelope[1]
           /\ envelope.master = put.envelope[2]

CustodyInv ==
  /\ DOMAIN put = {"keystore", "envelope"}
  /\ KeystoreInv
  /\ EnvelopeInv
  /\ opened.file \in {"none", "keystore", "envelope"}
  /\ opened.file = "keystore" => keystore # NoFile
  /\ opened.file = "envelope" => envelope # NoFile
  /\ FilesOpenToTheirKeys

LEMMA InitCustodyInv == CustodyInit => CustodyInv
  BY DEF CustodyInit, CustodyInv, KeystoreInv, EnvelopeInv, FilesOpenToTheirKeys, NotOpened

\* What leaves the files and the process alone and has opened none of them.
LEMMA NothingOpened ==
  ASSUME opened' = NotOpened
  PROVE  /\ opened'.file = "none"
         /\ FilesOpenToTheirKeys'
  BY DEF NotOpened, FilesOpenToTheirKeys

LEMMA UnopenedKeeps ==
  ASSUME CustodyInv, UNCHANGED <<keystore, envelope, opened, put>>
  PROVE  CustodyInv'
  BY DEF CustodyInv, KeystoreInv, EnvelopeInv, FilesOpenToTheirKeys, derived_key

LEMMA EncryptKeeps ==
  ASSUME CustodyInv, NEW key \in PrivateKeys, NEW password, NEW role,
         encrypt_private_key(key, password, role)
  PROVE  CustodyInv'
<1>1. put' = [put EXCEPT !.keystore = <<key, password>>]
  BY DEF encrypt_private_key
<1>2. put'.keystore = <<key, password>> /\ put'.envelope = put.envelope
      /\ DOMAIN put' = {"keystore", "envelope"}
  BY <1>1 DEF CustodyInv
<1>3. keystore'.text = key /\ keystore'.mac = derived_key(keystore', password)
      /\ {"text", "mac", "salt"} \subseteq DOMAIN keystore'
  BY DEF encrypt_private_key, derived_key
<1>4. KeystoreInv'
  BY <1>2, <1>3 DEF KeystoreInv, derived_key
<1>5. EnvelopeInv'
  BY <1>2 DEF CustodyInv, EnvelopeInv, encrypt_private_key
<1>6. opened' = NotOpened
  BY DEF encrypt_private_key
<1> QED  BY <1>2, <1>4, <1>5, <1>6, NothingOpened DEF CustodyInv

LEMMA DamageKeeps ==
  ASSUME CustodyInv, Damage
  PROVE  CustodyInv'
<1>1. keystore # NoFile /\ opened' = NotOpened /\ UNCHANGED <<envelope, put>>
  BY DEF Damage
<1>2. keystore'.text = keystore.text /\ keystore'.mac = keystore.mac
      /\ keystore'.salt = keystore.salt /\ DOMAIN keystore' = DOMAIN keystore
  BY <1>1 DEF Damage, CustodyInv, KeystoreInv
<1>3. KeystoreInv'
  BY <1>1, <1>2 DEF CustodyInv, KeystoreInv, derived_key
<1> QED  BY <1>1, <1>3, NothingOpened DEF CustodyInv, EnvelopeInv

LEMMA KmsEncryptKeeps ==
  ASSUME CustodyInv, NEW manager, NEW key \in PrivateKeys, kms_encrypt(manager, key)
  PROVE  CustodyInv'
<1>1. put' = [put EXCEPT !.envelope = <<key, manager.master>>] /\ opened' = NotOpened
      /\ keystore' = keystore
  BY DEF kms_encrypt
<1>2. put'.envelope = <<key, manager.master>> /\ put'.keystore = put.keystore
      /\ DOMAIN put' = {"keystore", "envelope"}
  BY <1>1 DEF CustodyInv
<1>3. EnvelopeInv'
  <2>1. CASE manager.provider \in Stubs
    BY <1>2, <2>1 DEF EnvelopeInv, kms_encrypt
  <2>2. CASE manager.provider \notin Stubs
    BY <1>2, <2>2 DEF EnvelopeInv, kms_encrypt
  <2> QED  BY <2>1, <2>2
<1>4. KeystoreInv'
  BY <1>1, <1>2 DEF CustodyInv, KeystoreInv, derived_key
<1> QED  BY <1>1, <1>2, <1>3, <1>4, NothingOpened DEF CustodyInv

\* The MAC is checked with the password given and the salt in the file.
LEMMA KeystoreOpens ==
  ASSUME CustodyInv, NEW password, decrypt_keystore(password)
  PROVE  CustodyInv'
<1>1. /\ keystore # NoFile
      /\ opened' = [file |-> "keystore", with |-> password, gave |-> opened'.gave]
      /\ UNCHANGED <<keystore, envelope, put>>
  BY DEF decrypt_keystore, Opens
<1>2. (derived_key(keystore, password) = keystore.mac) <=> (password = put.keystore[2])
  BY <1>1 DEF CustodyInv, KeystoreInv, derived_key
<1>3. ASSUME keystore.cipher = "aes-256-gcm"
      PROVE  opened'.gave = IF /\ keystore.intact /\ keystore.tag
                               /\ password = put.keystore[2]
                            THEN put.keystore[1] ELSE Raised
  BY <1>1, <1>2, <1>3 DEF decrypt_keystore, Opens, CustodyInv, KeystoreInv
<1>4. FilesOpenToTheirKeys'
  BY <1>1, <1>3 DEF FilesOpenToTheirKeys
<1>5. KeystoreInv' /\ EnvelopeInv'
  BY <1>1 DEF CustodyInv, KeystoreInv, EnvelopeInv, derived_key
<1> QED  BY <1>1, <1>4, <1>5 DEF CustodyInv

LEMMA FileOpened ==
  ASSUME NEW file, NEW with, NEW gave, Opens(file, with, gave)
  PROVE  opened'.file = file /\ opened'.with = with /\ opened'.gave = gave
  BY DEF Opens

LEMMA EnvelopeOpens ==
  ASSUME CustodyInv, NEW manager, kms_decrypt(manager)
  PROVE  CustodyInv'
<1>1. /\ envelope # NoFile
      /\ UNCHANGED <<keystore, envelope, put>>
  BY DEF kms_decrypt, Opens
<1>2. /\ opened'.file = "envelope" /\ opened'.with = manager.master
      /\ opened'.gave = IF envelope.provider \in Stubs THEN FixedText
                        ELSE IF envelope.master # manager.master THEN Raised
                        ELSE envelope.text
  BY FileOpened DEF kms_decrypt
<1>3. put.envelope[1] # Raised /\ put.envelope[1] # FixedText
  BY <1>1, NoAnswerIsAKey DEF CustodyInv, EnvelopeInv
<1>4. opened'.gave = put.envelope[1]
        <=> envelope.provider = "local_aes_gcm" /\ opened'.with = put.envelope[2]
  BY <1>1, <1>3, <1>2 DEF CustodyInv, EnvelopeInv, Stubs
<1>5. FilesOpenToTheirKeys'
  BY <1>1, <1>4, <1>2 DEF FilesOpenToTheirKeys
<1>6. KeystoreInv' /\ EnvelopeInv' /\ DOMAIN put' = {"keystore", "envelope"}
  BY <1>1 DEF CustodyInv, KeystoreInv, EnvelopeInv, derived_key
<1> QED  BY <1>1, <1>2, <1>5, <1>6 DEF CustodyInv

LEMMA NextCustodyInv ==
  ASSUME CustodyInv, [CustodyNext]_custodyVars
  PROVE  CustodyInv'
<1>1. ASSUME NEW seed \in Seed, NEW password \in Password,
             export_keystore("WALLET", private_key("WALLET", seed), password)
      PROVE  CustodyInv'
  BY <1>1, EncryptKeeps DEF export_keystore, PrivateKeys
<1>2. ASSUME NEW password \in Password, decrypt_keystore(password)
      PROVE  CustodyInv'
  BY <1>2, KeystoreOpens
<1>3. CASE Damage
  BY <1>3, DamageKeeps
<1>4. ASSUME NEW role \in {"WALLET", "VALIDATOR"}, sign_block_proposal(role)
      PROVE  CustodyInv'
  BY <1>4, UnopenedKeeps DEF sign_block_proposal
<1>5. CASE cmd_validator_create \/ cmd_validator_rotate
  BY <1>5, UnopenedKeeps DEF cmd_validator_create, cmd_validator_rotate
<1>6. CASE cmd_validator_export
  BY <1>6, EncryptKeeps DEF cmd_validator_export, export_keystore, PrivateKeys
<1>7. ASSUME NEW manager \in managers, NEW seed \in Seed,
             kms_encrypt(manager, private_key("VALIDATOR", seed))
      PROVE  CustodyInv'
  <2>1. private_key("VALIDATOR", seed) \in PrivateKeys
    BY DEF PrivateKeys
  <2> QED  BY <1>7, <2>1, KmsEncryptKeeps
<1>8. ASSUME NEW manager \in managers, kms_decrypt(manager)
      PROVE  CustodyInv'
  BY <1>8, EnvelopeOpens
<1>9. CASE StartAgain
  <2>1. opened' = NotOpened /\ UNCHANGED <<keystore, envelope, put>>
    BY <1>9 DEF StartAgain
  <2> QED  BY <2>1, NothingOpened DEF CustodyInv, KeystoreInv, EnvelopeInv, derived_key
<1>10. CASE UNCHANGED custodyVars
  BY <1>10, UnopenedKeeps DEF custodyVars
<1>11. ASSUME NEW provider, NewManager(provider)
       PROVE  CustodyInv'
  BY <1>11, UnopenedKeeps DEF NewManager
<1> QED  BY <1>1, <1>2, <1>3, <1>4, <1>5, <1>6, <1>7, <1>8, <1>9, <1>10, <1>11 DEF CustodyNext

\* A file gives the key that was put into it, or an error: for any passwords,
\* damage and number of processes a keystore opens with its password alone, and
\* an envelope to the object alone that sealed it (decrypt_keystore, kms_decrypt).
THEOREM FilesOpenRightly == CustodySpec => []FilesOpenToTheirKeys
<1>1. CustodyInv /\ [CustodyNext]_custodyVars => CustodyInv'
  BY NextCustodyInv
<1>2. CustodyInv => FilesOpenToTheirKeys
  BY DEF CustodyInv
<1> QED  BY InitCustodyInv, <1>1, <1>2, PTL DEF CustodySpec

-----------------------------------------------------------------------------
(* wallet/multisig/multisig.py with wallet/account/account.py              *)

\* A signature that lies under a name was made by somebody, and what was
\* answered of the transaction is true of the signatures that lie there.
SigningInv ==
  /\ signatures \in [Signatory \cup {NoAddress} -> signed \cup {NotSigned}]
  /\ verdict = "approved" => Cardinality(valid_signatures) >= wallet.threshold

LEMMA InitSigningInv == SigningInit => SigningInv
  BY DEF SigningInit, SigningInv

LEMMA OtherVerdict ==
  ASSUME SigningInv, verdict' # "approved", signed \subseteq signed',
         signatures' = signatures \/ signatures' \in [Signatory \cup {NoAddress} -> signed' \cup {NotSigned}]
  PROVE  SigningInv'
  BY DEF SigningInv

LEMMA NextSigningInv ==
  ASSUME SigningInv, [SigningNext]_signingVars
  PROVE  SigningInv'
<1>1. ASSUME NEW scheme \in Schemes, NEW a \in Signatory, NEW hash \in TxHash,
             sign(scheme, a, hash)
      PROVE  SigningInv'
  BY <1>1, OtherVerdict DEF sign
<1>2. ASSUME NEW verifier \in {"account", "signer"}, NEW s \in signed, NEW a \in Signatory,
             NEW hash \in TxHash, Verify(verifier, s.scheme, a, hash, s)
      PROVE  SigningInv'
  BY <1>2, OtherVerdict DEF Verify
<1>3. ASSUME NEW owners \in Owners, NEW threshold \in Threshold, NewMultisig(owners, threshold)
      PROVE  SigningInv'
  BY <1>3, OtherVerdict DEF NewMultisig
<1>4. ASSUME NEW name \in Signatory \cup {NoAddress}, NEW s \in signed, add_signature(name, s)
      PROVE  SigningInv'
  <2>1. signatures' \in [Signatory \cup {NoAddress} -> signed' \cup {NotSigned}]
    BY <1>4 DEF add_signature, SigningInv
  <2> QED  BY <1>4, <2>1, OtherVerdict DEF add_signature
<1>5. CASE verify_transaction
  BY <1>5 DEF verify_transaction, SigningInv, valid_signatures, signed_by_owner
<1>6. ASSUME NEW bytes \in {65, 255, 256}, exchange(bytes)
      PROVE  SigningInv'
  BY <1>6, OtherVerdict DEF exchange
<1>7. CASE UNCHANGED signingVars
  BY <1>7 DEF signingVars, SigningInv, valid_signatures, signed_by_owner
<1> QED  BY <1>1, <1>2, <1>3, <1>4, <1>5, <1>6, <1>7 DEF SigningNext

\* The valid signatures are those of different owners, each made by its own.
LEMMA SignersAreOwners ==
  ASSUME SigningInv
  PROVE  ApprovedByOwners
<1>1. ASSUME NEW a \in valid_signatures
      PROVE  /\ \E k \in 1 .. Len(wallet.owners) : wallet.owners[k] = a
             /\ [scheme |-> "secp256k1", by |-> a, hash |-> tx_hash] \in signed
  <2>1. a \in Signatory /\ signatures[a] = [scheme |-> "secp256k1", by |-> a, hash |-> tx_hash]
    BY DEF valid_signatures, signed_by_owner
  <2>2. signatures[a] # NotSigned
    BY <2>1 DEF NotSigned
  <2> QED  BY <2>1, <2>2 DEF SigningInv, valid_signatures
<1>2. valid_signatures \in SUBSET Signatory
  BY DEF valid_signatures
<1> QED  BY <1>1, <1>2 DEF SigningInv, ApprovedByOwners

\* For any owners, thresholds and hashes, a transaction is approved only by the
\* signatures of as many different owners as the threshold asks for, each made by
\* the owner it counts for (verify_transaction).
THEOREM OwnersApprove == SigningSpec => []ApprovedByOwners
<1>1. SigningInv /\ [SigningNext]_signingVars => SigningInv'
  BY NextSigningInv
<1> QED  BY InitSigningInv, <1>1, SignersAreOwners, PTL DEF SigningSpec
=============================================================================
