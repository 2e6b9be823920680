-------------------------- MODULE MC_UserPrograms ---------------------------
(***************************************************************************)
(* What users run for themselves.  The agent layer: the gateway with the   *)
(* engines behind it, the freqtrade agent, and the strategy its bot runs.  *)
(* The wallet library and its tools: sharing a secret, finding an account  *)
(* again from its words, keeping keys in files, signing.  They meet only   *)
(* in what their callers pass on, so a behaviour follows one of them,      *)
(* chosen at the start.                                                    *)
(***************************************************************************)
EXTENDS SakuraServer, FreqtradeAgent, PISOStrategy, Shamir, WalletTools, Keys

VARIABLE program    \* the one this behaviour follows

agentLayerVars == <<serverVars, agentVars, strategyVars>>
walletVars == <<shamirVars, toolVars, custodyVars, signingVars>>
vars == <<program, agentLayerVars, walletVars>>

Init ==
    /\ program \in {"gateway", "freqtrade agent", "strategy",
                    "shares", "tools", "custody", "signing"}
    /\ ServerInit /\ AgentInit /\ StrategyInit
    /\ ShamirInit /\ ToolsInit /\ CustodyInit /\ SigningInit

AgentLayerNext ==
    \/ /\ program = "gateway"
       /\ ServerNext
       /\ UNCHANGED <<agentVars, strategyVars>>
    \/ /\ program = "freqtrade agent"
       /\ AgentNext
       /\ UNCHANGED <<serverVars, strategyVars>>
    \/ /\ program = "strategy"
       /\ StrategyNext
       /\ UNCHANGED <<serverVars, agentVars>>

WalletNext ==
    \/ /\ program = "shares"
       /\ ShamirNext
       /\ UNCHANGED <<toolVars, custodyVars, signingVars>>
    \/ /\ program = "tools"
       /\ ToolsNext
       /\ UNCHANGED <<shamirVars, custodyVars, signingVars>>
    \/ /\ program = "custody"
       /\ CustodyNext
       /\ UNCHANGED <<shamirVars, toolVars, signingVars>>
    \/ /\ program = "signing"
       /\ SigningNext
       /\ UNCHANGED <<shamirVars, toolVars, custodyVars>>

Next ==
    /\ UNCHANGED program
    /\ \/ AgentLayerNext /\ UNCHANGED walletVars
       \/ WalletNext /\ UNCHANGED agentLayerVars

Spec == Init /\ [][Next]_vars

-----------------------------------------------------------------------------
\* One registered agent of each kind, a guarded one, and one that is not registered.
MCAgents == {"SmartContractAuditor", "TreasuryAgent", "nobody"}

MCBody == [Defaults EXCEPT !.terms = {"WHITEPAPER", "POW", "SECURITY", "ACCOUNT"}]
MCPosted(path, form, body) == [method |-> "POST", path |-> path, form |-> form, body |-> body]
MCPages == {"/health", "/api/v1/sakura/agents", "/api/v1/sakura/history",
            "/api/v1/sakura/freqtrade/risk", "/nothing"}
MCExecute == "/api/v1/sakura/agent/execute"
MCPaths == {MCExecute, "/api/v1/sakura/workflow/run", "/api/v1/sakura/audit/contract",
            "/api/v1/sakura/memory/query", "/nothing"}

MCRequests ==
    {[method |-> "GET", path |-> p, form |-> "object", body |-> Defaults] : p \in MCPages}
    \cup {MCPosted(MCExecute, "object", [Defaults EXCEPT !.agent = a, !.asked = b]) :
              a \in MCAgents, b \in BOOLEAN}
    \cup {MCPosted(p, f, MCBody) : p \in MCPaths, f \in {"unreadable", "not JSON", "no object"}}
    \cup {MCPosted("/api/v1/sakura/workflow/run", "object", [Defaults EXCEPT !.workflow = w]) :
              w \in {"MARKETING_CAMPAIGN", "TAX_RETURN"}}
    \cup {MCPosted("/api/v1/sakura/audit/contract", "object", [Defaults EXCEPT !.code = c]) :
              c \in {"text", "number"}}
    \cup {MCPosted("/api/v1/sakura/memory/query", "object", [Defaults EXCEPT !.terms = t]) :
              t \in {{"no text"}, {"QUANTUM", "MINING"}}}

\* Averages that cross, touch and stay apart, with the momentum at each limit.
MCCandles ==
    [ema_fast : {1, 2}, ema_slow : {1, 2}, ema_trend : {1}, rsi : {40, 70},
     close : {2}, macdhist : {1}, volume : {1}]
    \cup
    [ema_fast : {2}, ema_slow : {1}, ema_trend : {1}, rsi : {39, 76},
     close : {1, 2}, macdhist : {0, 1}, volume : {0, 1}]
MCProfits == {-3000, 900, 2000, 5005, 5015}

\* Bytes at the limits of the field and within it, and no byte at all.
MCSecret == {<<0, 255>>, <<83, 1>>, << >>}

MCChecksum == [e \in {1, 2, 3} |-> <<0, 5, 5>>[e]]
MCMarked(v) == [val |-> v, hard |-> "marked"]
MCPlain(v) == [val |-> v, hard |-> "plain"]
\* Indices are hardened from 100 on.  The default path, the same with an index
\* written out, one of another coin, ones that cannot be read or derived.
MCPath == {build_path(26, 0, 0), NotAPath, <<MCMarked(44), MCMarked(60)>>,
           [build_path(26, 0, 0) EXCEPT ![3] = MCPlain(100)],
           [build_path(26, 0, 0) EXCEPT ![5] = MCPlain(200)],
           [build_path(26, 0, 0) EXCEPT ![5] = MCMarked(-1)],
           [build_path(26, 0, 0) EXCEPT ![5] = MCMarked(0)]}
\* The child of one account cannot be derived.
MCUnusable ==
    {<<[seed |-> to_seed(entropy_to_mnemonic(2, 12), ""), curve |-> "secp256k1",
        indexes |-> <<144>>], 126>>}

MCOwners == {<<"a", "b", "c">>, <<"a", "a">>}
=============================================================================
