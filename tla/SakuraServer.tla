---------------------------- MODULE SakuraServer ----------------------------
(***************************************************************************)
(* scripts/sakura_agent_server.py: the gateway to the agents, the registry *)
(* and the engines behind it.  One request is handled at a time, so a      *)
(* request is one step.  Proofs, clocks and wording are left out.          *)
(*                                                                         *)
(* A request is [method, path, form, body].  The form of what is posted is *)
(* "unreadable" (no text, or a Content-Length that is no number), "not     *)
(* JSON" (read as an empty object), "no object", or "object"; the body of  *)
(* an object says what each endpoint would find in it (see Defaults):      *)
(* code is "text" or not, terms the words of topics that a query holds.    *)
(***************************************************************************)
EXTENDS SakuraOrchestrator, FiniteSets

CONSTANT Requests   \* bound: what clients send

VARIABLES
    http_status,    \* of the last answer; NoAnswer when the handler raised
    outcome,        \* what the last answer says
    recalled        \* the words of the last query and the topics answered

answerVars == <<http_status, outcome, recalled>>
serverVars == <<orchestratorVars, answerVars>>

OK == 200
NotFound == 404
NoAnswer == 0

-----------------------------------------------------------------------------
(* core/sakura_agents/agent_registry.py *)

SAKURA_20_AGENTS ==
    {"GovernanceAgent", "TreasuryAgent", "ValidatorAgent", "TradingAgent", "ComplianceAgent",
     "SmartContractAuditor", "BlockchainAnalyticsAgent", "ExplorerAssistant", "WalletAssistant",
     "IdentityAgent", "SupplyChainAgent", "DePINAgent", "GISAgent", "CustomerSupportAgent",
     "BusinessAutomationAgent", "DocumentationAssistant", "DeveloperCopilot",
     "SecurityMonitoringAgent", "ProposalReviewAgent", "RiskAssessmentAgent"}

\* The stand-in for an agent that is not registered has a name and no category.
get_agent_info(agent) == IF agent \in SAKURA_20_AGENTS THEN {"name", "category"} ELSE {"name"}

list_all_agents == SAKURA_20_AGENTS

Specialised == {"SmartContractAuditor", "ComplianceAgent", "TradingAgent"}

\* The answer quotes the category, which raises when there is none.
execute_agent_task(agent) ==
    IF "category" \notin get_agent_info(agent) THEN "raises"
    ELSE IF agent \in Specialised THEN agent ELSE "generic"

-----------------------------------------------------------------------------
(* core/sakura_framework/workflow_engine.py, ai_memory_store.py,           *)
(* agent_oracle_bridge.py, freqtrade_ai_connector.py                       *)

SUPPORTED_WORKFLOWS ==
    {"CRM_CUSTOMER_ONBOARDING", "ERP_INVENTORY_RESTOCK", "PAYROLL_DISBURSEMENT",
     "ACCOUNTING_TAX_AUDIT", "INVOICING_AUTOMATION", "SUPPLY_CHAIN_LOGISTICS",
     "PROCUREMENT_APPROVAL", "MARKETING_CAMPAIGN"}

\* The steps are reported as completed; the payload is handed back unread.
execute_workflow(workflow) == IF workflow \in SUPPORTED_WORKFLOWS THEN "SUCCESS" ELSE "FAILED"

\* The topics in the order of the index, with the words that name each.
knowledge_index ==
    <<{"WHITEPAPER"}, {"FREQTRADE"}, {"ACCOUNT", "ABSTRACTION"}, {"QUANTUM", "SECURITY"},
      {"POW", "MINING"}>>

\* Topics named in the query first, each group in the order of the index; three
\* are returned.
query_memory(terms) ==
    LET hit(i) == knowledge_index[i] \cap terms # {}
        at(i) == IF hit(i) THEN Cardinality({j \in 1 .. i : hit(j)})
                 ELSE Cardinality({j \in 1 .. 5 : hit(j)} \cup {j \in 1 .. i : ~hit(j)})
    IN  [k \in 1 .. 3 |-> CHOOSE i \in 1 .. 5 : at(i) = k]

\* Every report is "verified" and earns 15 PISO; nothing is sent.
submit_ai_report_proof == "SUBMITTED_AND_VERIFIED"

\* The bot is active when its own server answers the ping.
analyze_market_risk(active) == IF active THEN "BULLISH_CONTINUATION" ELSE "SIMULATED_NEUTRAL"

-----------------------------------------------------------------------------
(* The handlers *)

ServerInit ==
    /\ OrchestratorInit
    /\ http_status = NoAnswer
    /\ outcome = "none"
    /\ recalled = [terms |-> {}, topics |-> << >>]

Answers(code, what) ==
    /\ http_status' = code
    /\ outcome' = what
    /\ UNCHANGED <<orchestratorVars, recalled>>

Raises == Answers(NoAnswer, "none")

\* A connector whose bot does not answer within three seconds reports so.
do_GET(req) ==
    CASE req.path \in {"/", "/health", "/api/v1/sakura/health"} -> Answers(OK, "ONLINE")
      [] req.path = "/api/v1/sakura/agents"  -> Answers(OK, "agents")
      [] req.path = "/api/v1/sakura/history" ->
            Answers(OK, IF list_recent_tasks(10) = << >> THEN "no tasks" ELSE "tasks")
      [] req.path = "/api/v1/sakura/freqtrade/risk" ->
            \E active \in BOOLEAN : Answers(OK, analyze_market_risk(active))
      [] OTHER -> Answers(NotFound, "none")

\* The reasoning is made and its proof submitted before anyone approved the
\* task: the status of the task is only told.
Execute(body) ==
    LET agent == IF body.agent = "default" THEN "SmartContractAuditor" ELSE body.agent
    IN  IF execute_agent_task(agent) = "raises" THEN Raises
        ELSE /\ route_agent_task(agent, body.asked)
             /\ http_status' = OK
             /\ outcome' = submit_ai_report_proof
             /\ UNCHANGED recalled

RunWorkflow(body) == Answers(OK, execute_workflow(body.workflow))

AuditContract(body) ==
    IF body.code # "text" THEN Raises
    ELSE Answers(OK, execute_agent_task("SmartContractAuditor"))

QueryMemory(body) ==
    IF body.terms = {"no text"} THEN Raises
    ELSE /\ recalled' = [terms |-> body.terms, topics |-> query_memory(body.terms)]
         /\ http_status' = OK
         /\ outcome' = "results"
         /\ UNCHANGED orchestratorVars

\* What an object without the field means to each endpoint.
Defaults == [agent |-> "default", asked |-> FALSE, workflow |-> "CRM_CUSTOMER_ONBOARDING",
             code |-> "text", terms |-> {"WHITEPAPER"}]

\* The path is looked at before the body is, but for one that cannot be read.
do_POST(req) ==
    LET body == IF req.form = "object" THEN req.body ELSE Defaults
        Handle(H) == IF req.form = "no object" THEN Raises ELSE H
    IN  IF req.form = "unreadable" THEN Raises
        ELSE CASE req.path = "/api/v1/sakura/agent/execute"  -> Handle(Execute(body))
               [] req.path = "/api/v1/sakura/workflow/run"   -> Handle(RunWorkflow(body))
               [] req.path = "/api/v1/sakura/audit/contract" -> Handle(AuditContract(body))
               [] req.path = "/api/v1/sakura/memory/query"   -> Handle(QueryMemory(body))
               [] OTHER -> Answers(NotFound, "none")

do_OPTIONS == Answers(OK, "none")

ServerNext ==
    \/ \E req \in Requests : IF req.method = "GET" THEN do_GET(req) ELSE do_POST(req)
    \/ do_OPTIONS
    \/ (Approval \/ ClockMoves) /\ UNCHANGED answerVars
=============================================================================
