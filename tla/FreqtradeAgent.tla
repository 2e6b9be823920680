--------------------------- MODULE FreqtradeAgent ---------------------------
(***************************************************************************)
(* core/freqtrade_agent.py: an agent object starts a trading bot and a     *)
(* bridge daemon as processes of their own and keeps a handle of each.     *)
(* Every start of the command line makes an object and ends at once; the   *)
(* processes it started live on.                                           *)
(***************************************************************************)
EXTENDS Integers, Sequences

CONSTANTS
    Owner,          \* the agent objects
    MaxProcesses, MaxProofs \* bounds

VARIABLES
    use,            \* agent -> what holds the object
    bot_process,    \* agent -> handle, or NoPid
    bridge_process,
    alive,          \* the processes that run
    started,        \* history: what was started, <<kind, owner>>, in order
    waiting,        \* the agents in the wait() of stop_bot
    said,           \* what the last call answered
    total_proofs_submitted  \* agent -> count

processVars == <<bot_process, bridge_process, alive, started, waiting>>
agentVars == <<use, processVars, said, total_proofs_submitted>>

\* Processes are numbered in the order of their starts.
NoPid == 0

AgentInit ==
    /\ use = [a \in Owner |-> "free"]
    /\ bot_process = [a \in Owner |-> NoPid]
    /\ bridge_process = [a \in Owner |-> NoPid]
    /\ alive = {}
    /\ started = << >>
    /\ waiting = {}
    /\ said = "nothing"
    /\ total_proofs_submitted = [a \in Owner |-> 0]

Says(what) == said' = what

BotRuns(a) == bot_process[a] \in alive
BridgeRuns(a) == bridge_process[a] \in alive

next_pid == Len(started) + 1

Spawn(kind, a) ==
    /\ Len(started) < MaxProcesses
    /\ started' = Append(started, <<kind, a>>)
    /\ alive' = alive \cup {next_pid}

\* The configuration file may be missing; a bot that ended is started again.
start_bot(a) ==
    \/ /\ Says("ERROR")
       /\ UNCHANGED processVars
    \/ /\ BotRuns(a)
       /\ Says("Bot is already running")
       /\ UNCHANGED processVars
    \/ /\ ~BotRuns(a)
       /\ Spawn("bot", a)
       /\ bot_process' = [bot_process EXCEPT ![a] = next_pid]
       /\ Says("Freqtrade bot started")
       /\ UNCHANGED <<bridge_process, waiting>>

\* Nothing asks whether a bridge runs already.
start_bridge(a) ==
    /\ Spawn("bridge", a)
    /\ bridge_process' = [bridge_process EXCEPT ![a] = next_pid]
    /\ Says("Bridge started")
    /\ UNCHANGED <<bot_process, waiting>>

stop_bot(a) ==
    /\ IF bot_process[a] = NoPid
       THEN Says("ERROR") /\ UNCHANGED waiting
       ELSE waiting' = waiting \cup {a} /\ UNCHANGED said
    /\ UNCHANGED <<bot_process, bridge_process, alive, started>>

\* Mutant: the handle is dropped however the wait ends.
forget_bot(a) ==
    /\ waiting' = waiting \ {a}
    /\ Says(IF BotRuns(a) THEN "TimeoutExpired" ELSE "Bot stopped")
    /\ bot_process' = [bot_process EXCEPT ![a] = NoPid]
    /\ UNCHANGED <<bridge_process, alive, started>>

\* The bot has ended, or ten seconds have passed and it has not: it runs on,
\* and the handle is kept either way.
stop_bot_waited(a) ==
    /\ waiting' = waiting \ {a}
    /\ Says(IF BotRuns(a) THEN "TimeoutExpired" ELSE "Bot stopped")
    /\ UNCHANGED <<bot_process, bridge_process, alive, started>>

\* A bot or a bridge ends on its own or on the signal sent to it.
Exit(p) ==
    /\ p \in alive
    /\ alive' = alive \ {p}
    /\ UNCHANGED <<bot_process, bridge_process, started, waiting, said>>

get_agent_status(a) ==
    /\ Says(IF BotRuns(a) THEN IF BridgeRuns(a) THEN "both run" ELSE "bot runs"
            ELSE IF BridgeRuns(a) THEN "bridge runs" ELSE "none runs")
    /\ UNCHANGED processVars

\* get_open_trades, get_closed_trades, get_profit_summary: the bot's own server
\* is asked, when the library to ask it is there.
AskBot(has_requests, reached) ==
    /\ Says(IF has_requests /\ reached THEN "SUCCESS" ELSE "ERROR")
    /\ UNCHANGED processVars

\* Nothing is sent to the chain, dry run or not, and both are counted.
submit_proof(a, dry_run) ==
    /\ total_proofs_submitted[a] < MaxProofs
    /\ total_proofs_submitted' = [total_proofs_submitted EXCEPT ![a] = @ + 1]
    /\ Says(IF dry_run THEN "DRY_RUN" ELSE "SUCCESS")
    /\ UNCHANGED processVars

-----------------------------------------------------------------------------
\* An object is imported and called, or is the command line's own.
Construct(a) ==
    /\ use[a] = "free"
    /\ use' = [use EXCEPT ![a] = "imported"]
    /\ UNCHANGED <<processVars, said, total_proofs_submitted>>

UseAgent(a) ==
    /\ use[a] = "imported" /\ a \notin waiting
    /\ \/ (start_bot(a) \/ start_bridge(a) \/ stop_bot(a) \/ get_agent_status(a)
            \/ \E has_requests, reached \in BOOLEAN : AskBot(has_requests, reached))
          /\ UNCHANGED total_proofs_submitted
       \/ \E dry_run \in BOOLEAN : submit_proof(a, dry_run)
    /\ UNCHANGED use

Waited(a) ==
    /\ a \in waiting
    /\ stop_bot_waited(a)
    /\ UNCHANGED <<use, total_proofs_submitted>>

\* --start-bot: the bridge is started whatever became of the bot.
main_start_bot(a) ==
    /\ use[a] = "free"
    /\ start_bot(a)
    /\ use' = [use EXCEPT ![a] = "started the bot"]
    /\ UNCHANGED total_proofs_submitted

main_start_bridge(a) ==
    /\ use[a] = "started the bot"
    /\ start_bridge(a)
    /\ use' = [use EXCEPT ![a] = "ended"]
    /\ UNCHANGED total_proofs_submitted

\* --status, or no option: the status of an object that has started nothing.
main_status(a) ==
    /\ use[a] = "free"
    /\ get_agent_status(a)
    /\ use' = [use EXCEPT ![a] = "ended"]
    /\ UNCHANGED total_proofs_submitted

AgentNext ==
    \/ \E a \in Owner :
          \/ Construct(a) \/ UseAgent(a) \/ Waited(a)
          \/ main_start_bot(a) \/ main_start_bridge(a) \/ main_status(a)
    \/ \E p \in alive : Exit(p) /\ UNCHANGED <<use, total_proofs_submitted>>

AgentSpec == AgentInit /\ [][AgentNext]_agentVars

Pids == 1 .. Len(started)

AgentTypeOK ==
    /\ started \in Seq({"bot", "bridge"} \X Owner)
    /\ bot_process \in [Owner -> Pids \cup {NoPid}]
    /\ bridge_process \in [Owner -> Pids \cup {NoPid}]
    /\ alive \subseteq Pids

\* The handle of a running bot is not lost: neither a bot that would not end in
\* ten seconds nor one that ended by itself makes start_bot start a second one
\* beside it.  (It holds of each object: the command line makes one at each
\* start, and a bridge is started whether one runs or not.)
OneBot ==
    \A a \in Owner : \A p, q \in alive :
        started[p] = <<"bot", a>> /\ started[q] = <<"bot", a>> => p = q

\* What makes OneBot inductive: the bot that runs is the one in hand.
BotInHand ==
    \A a \in Owner : \A p \in alive : started[p] = <<"bot", a>> => bot_process[a] = p
=============================================================================
