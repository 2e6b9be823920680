-------------------------- MODULE FreqtradeBridge --------------------------
(***************************************************************************)
(* bridge/freqtrade_bridge.py: the daemon that polls freqtrade for closed  *)
(* trades, sends a proof of each to the oracle contract, waits for the     *)
(* receipt and remembers the trade in a state file.  Between it and the    *)
(* contract lies a chain node with a mempool.                              *)
(*                                                                         *)
(* The nonce of a transaction is the number of transactions mined so far,  *)
(* so the node takes at most one pending transaction of the account: the   *)
(* next one with the same nonce is refused ("already known" or             *)
(* "replacement underpriced").                                             *)
(***************************************************************************)
EXTENDS FreqtradeOracle, FiniteSets

CONSTANTS
    NoTrade,
    MaxFaults   \* bound: crashes, failures to save, lost answers and transactions

ASSUME BridgeParameters ==
    /\ NoTrade \notin Trade
    /\ MaxFaults \in Nat

VARIABLES
    closed,     \* the trades freqtrade reports as closed
    running,    \* the daemon is up
    dry_run,    \* self.dry_run, from the command line
    oracle,     \* self.piso.oracle is there, not None
    submitted,  \* self.state["submitted_trade_ids"]
    file,       \* what the state file holds
    readable,   \* whether it can be parsed
    new_trades, \* what is left of this poll's list
    waiting,    \* the trade whose receipt is waited for, or NoTrade
    answered,   \* its receipt is there
    pending,    \* the trade of the account's pending transaction, or NoTrade
    reverted,   \* history: how many transactions of each trade failed
    rehearsed,  \* history: the trades a dry run marked
    faults,     \* history: all faults
    doubts      \* history: faults[t] by the trade whose outcome they hid

chainVars == <<pending, answered, reverted>>
fileVars == <<file, readable>>
historyVars == <<rehearsed, faults, doubts>>
bridgeVars == <<closed, running, dry_run, oracle, submitted, new_trades, waiting>>
vars == <<oracleVars, bridgeVars, fileVars, chainVars, historyVars>>

Init ==
    /\ OracleInit
    /\ closed = {}
    /\ running = TRUE
    /\ dry_run \in BOOLEAN /\ oracle \in BOOLEAN
    /\ submitted = {}
    /\ file = {}
    /\ readable = TRUE
    /\ new_trades = {}
    /\ waiting = NoTrade
    /\ answered = FALSE
    /\ pending = NoTrade
    /\ reverted = [t \in Trade |-> 0]
    /\ rehearsed = {}
    /\ faults = 0
    /\ doubts = [t \in Trade |-> 0]

CloseTrade(t) ==
    /\ t \notin closed
    /\ closed' = closed \cup {t}
    /\ UNCHANGED <<oracleVars, running, dry_run, oracle, submitted, new_trades, waiting,
                   fileVars, chainVars, historyVars>>

\* poll_and_submit up to the loop.  An offline bot is a poll that did not happen.
Poll ==
    /\ running
    /\ waiting = NoTrade /\ new_trades = {}
    /\ new_trades' = closed \ submitted
    /\ UNCHANGED <<oracleVars, closed, running, dry_run, oracle, submitted, waiting,
                   fileVars, chainVars, historyVars>>

Busy(t) == running /\ waiting = NoTrade /\ t \in new_trades

\* Mutant: the trade goes to the file and not to the list in memory.
MarkInFileOnly(t) ==
    /\ file' = file \cup {t}
    /\ readable' = TRUE
    /\ new_trades' = new_trades \ {t}
    /\ UNCHANGED <<submitted, faults, doubts>>

\* _mark_submitted: the list first, then the file.
Mark(t) ==
    /\ submitted' = submitted \cup {t}
    /\ new_trades' = new_trades \ {t}
    /\ file' = submitted'
    /\ readable' = TRUE
    /\ UNCHANGED <<faults, doubts>>

\* _save_state raises: the list holds the trade, the file is as it was or cut
\* short, and the exception ends this poll.
MarkUnsaved(t) ==
    /\ faults < MaxFaults
    /\ faults' = faults + 1
    /\ doubts' = [doubts EXCEPT ![t] = @ + 1]
    /\ submitted' = submitted \cup {t}
    /\ new_trades' = {}
    /\ \/ UNCHANGED fileVars
       \/ file' = {} /\ readable' = FALSE

\* Without an oracle submit_trade_proof returns None before it looks at dry_run, and
\* the loop goes on with the next trade.
Skip(t) ==
    /\ Busy(t)
    /\ ~oracle
    /\ new_trades' = new_trades \ {t}
    /\ UNCHANGED <<oracleVars, closed, running, dry_run, oracle, submitted, waiting,
                   fileVars, chainVars, historyVars>>

\* A trade that cannot be read, such as one without dates, raises, and run_loop
\* swallows the exception: the trades behind it are left to the next poll, which
\* meets it again.
PollRaises ==
    /\ running /\ waiting = NoTrade
    /\ new_trades # {}
    /\ new_trades' = {}
    /\ UNCHANGED <<oracleVars, closed, running, dry_run, oracle, submitted, waiting,
                   fileVars, chainVars, historyVars>>

\* A dry run gets a made-up hash and marks the trade like any other.
Rehearse(t) ==
    /\ Busy(t)
    /\ oracle /\ dry_run
    /\ Mark(t) \/ MarkUnsaved(t)
    /\ rehearsed' = rehearsed \cup {t}
    /\ UNCHANGED <<oracleVars, closed, running, dry_run, oracle, waiting, chainVars>>

\* submit_trade_proof up to wait_for_transaction_receipt.
Send(t) ==
    /\ Busy(t)
    /\ oracle /\ ~dry_run
    /\ pending = NoTrade
    /\ pending' = t
    /\ waiting' = t
    /\ answered' = FALSE
    /\ UNCHANGED <<oracleVars, closed, running, dry_run, oracle, submitted, new_trades,
                   fileVars, reverted, historyVars>>

\* The node refuses the transaction: its nonce is that of the pending one, the worker
\* cannot pay the gas, or the node is out of reach.  None, and the next trade.
SendRefused(t) ==
    /\ Busy(t)
    /\ oracle /\ ~dry_run
    /\ new_trades' = new_trades \ {t}
    /\ UNCHANGED <<oracleVars, closed, running, dry_run, oracle, submitted, waiting,
                   fileVars, chainVars, historyVars>>

Lost == pending # waiting /\ ~answered

\* Mutant: after the timeout the transaction is taken for sent.
TimeoutMarking ==
    /\ waiting # NoTrade
    /\ Lost \/ faults < MaxFaults
    /\ waiting' = NoTrade
    /\ Mark(waiting)
    /\ UNCHANGED <<oracleVars, closed, running, dry_run, oracle, chainVars, rehearsed>>

\* Mutant: the receipt is waited for without a timeout.
TimeoutOnlyOnError ==
    /\ waiting # NoTrade
    /\ ~Lost
    /\ faults < MaxFaults
    /\ faults' = faults + 1
    /\ doubts' = [doubts EXCEPT ![waiting] = @ + 1]
    /\ waiting' = NoTrade
    /\ new_trades' = new_trades \ {waiting}
    /\ UNCHANGED <<oracleVars, closed, running, dry_run, oracle, submitted,
                   fileVars, chainVars, rehearsed>>

\* No receipt within 30 seconds, or the node gives no answer: None, and the
\* transaction stays where it is.  Of a lost transaction no receipt ever comes.
Timeout ==
    /\ waiting # NoTrade
    /\ \/ /\ Lost
          /\ UNCHANGED <<faults, doubts>>
       \/ /\ ~Lost
          /\ faults < MaxFaults
          /\ faults' = faults + 1
          /\ doubts' = [doubts EXCEPT ![waiting] = @ + 1]
    /\ waiting' = NoTrade
    /\ new_trades' = new_trades \ {waiting}
    /\ UNCHANGED <<oracleVars, closed, running, dry_run, oracle, submitted,
                   fileVars, chainVars, rehearsed>>

\* The receipt is there.  Its status is logged, and the hash returned either way.
Receipt ==
    /\ waiting # NoTrade
    /\ answered
    /\ waiting' = NoTrade
    /\ Mark(waiting) \/ MarkUnsaved(waiting)
    /\ UNCHANGED <<oracleVars, closed, running, dry_run, oracle, chainVars, rehearsed>>

\* The pending transaction is mined.  It reverts when the worker is not
\* authorised, when the contract rejects its arguments, and when 200_000 gas
\* are too few for the dozen storage slots of a proof.
Mine ==
    /\ pending # NoTrade
    /\ pending' = NoTrade
    /\ answered' = (waiting = pending)
    /\ \/ /\ SubmitTradeProof(pending)
          /\ UNCHANGED reverted
       \/ /\ reverted' = [reverted EXCEPT ![pending] = @ + 1]
          /\ UNCHANGED oracleVars
    /\ UNCHANGED <<bridgeVars, fileVars, historyVars>>

\* The node forgets its mempool.
DropPending ==
    /\ pending # NoTrade
    /\ faults < MaxFaults
    /\ faults' = faults + 1
    /\ pending' = NoTrade
    /\ UNCHANGED <<oracleVars, bridgeVars, fileVars, answered, reverted, rehearsed, doubts>>

\* The process ends.  It may be waiting for a receipt then.
Crash ==
    /\ running
    /\ faults < MaxFaults
    /\ faults' = faults + 1
    /\ doubts' = [t \in Trade |->
          IF t = waiting THEN doubts[t] + 1 ELSE doubts[t]]
    /\ running' = FALSE
    /\ submitted' = {}
    /\ new_trades' = {}
    /\ waiting' = NoTrade
    /\ UNCHANGED <<oracleVars, closed, dry_run, oracle, fileVars, chainVars, rehearsed>>

\* __init__: _load_state raises when the file cannot be parsed.
Restart ==
    /\ ~running
    /\ readable
    /\ running' = TRUE
    /\ submitted' = file
    /\ dry_run' \in BOOLEAN /\ oracle' \in BOOLEAN
    /\ UNCHANGED <<oracleVars, closed, new_trades, waiting, fileVars, chainVars, historyVars>>

\* What the loop does with a trade of its list.
Handle(t) == Skip(t) \/ Rehearse(t) \/ Send(t) \/ SendRefused(t)

Next ==
    \/ Poll \/ PollRaises \/ Timeout \/ Receipt \/ Mine \/ DropPending \/ Crash \/ Restart
    \/ \E t \in Trade : CloseTrade(t) \/ Handle(t)
    \/ AdminCall /\ UNCHANGED <<bridgeVars, fileVars, chainVars, historyVars>>

Spec == Init /\ [][Next]_vars

\* The loop of the daemon goes on, freqtrade answers it, it is restarted after a
\* crash, and the chain mines what is pending.  A wait ends, by the receipt or by
\* the timeout.  What becomes of a trade of the list is left open: the oracle may
\* be missing, every send refused and every poll raise.  Nobody need authorise the
\* worker or fill the vault.
FairSpec ==
    /\ Spec
    /\ WF_vars(Poll) /\ WF_vars(Receipt \/ Timeout) /\ WF_vars(Mine) /\ WF_vars(Restart)
    /\ WF_vars(\E t \in Trade : Handle(t))

-----------------------------------------------------------------------------
\* Types, and what the daemon and the node hold together: it waits and works
\* only while it runs, and an answer is one it waits for.
TypeOK ==
    /\ closed \subseteq Trade
    /\ submitted \subseteq closed /\ file \subseteq closed
    /\ new_trades \subseteq closed \ submitted
    /\ {waiting, pending} \subseteq closed \cup {NoTrade}
    /\ {running, dry_run, oracle, readable, authorized} \subseteq BOOLEAN
    /\ waiting # NoTrade => running /\ waiting \in new_trades
    /\ rewardPerProfitableTrade \in Nat /\ minProfitBps \in Nat
    /\ proofs \in [Trade -> Nat] /\ reverted \in [Trade -> Nat]
    /\ rewards \in [Trade -> Nat] /\ \A t \in Trade : rewards[t] <= proofs[t]
    /\ vault \in 0..MaxVault

Transactions(t) == proofs[t] + reverted[t]

\* A trade reaches the contract a second time only when the outcome of an
\* earlier transaction of it was hidden from the daemon: it gave up waiting, died
\* while waiting, or could not write the mark down.  Polling alone never submits
\* twice, whatever the order of receipts, restarts and trades.
DuplicatesNeedDoubt == \A t \in Trade : Transactions(t) <= 1 + doubts[t]

\* What the daemon or its state file calls submitted has been mined, unless a dry
\* run said so: no timeout, refusal or crash marks a trade that never reached
\* the chain and would then never be sent again.
MarkedHasAnswer ==
    \A t \in submitted \cup file : Transactions(t) > 0 \/ t \in rehearsed

\* A transaction whose outcome the daemon learned marks its trade for good, and a
\* failed one does so like a proof: while the daemon runs its list holds the trade,
\* and as long as the file can be read the file does too.
AnswerIsMarked ==
    \A t \in Trade : Transactions(t) > doubts[t] =>
        \/ waiting = t /\ answered
        \/ /\ running => t \in submitted
           /\ readable => t \in file

\* Marks and answers correspond: no mark without a transaction that was mined, and no
\* known outcome, proof or failure, without its mark, through timeouts, lost
\* transactions, failures to save and restarts.
MarksAreAnswers == MarkedHasAnswer /\ AnswerIsMarked

\* The oracle is missing, a trade cannot be read, or a send is refused for another
\* cause than the pending transaction.
Troubled ==
    \/ PollRaises
    \/ \E t \in Trade : Skip(t) \/ (pending = NoTrade /\ SendRefused(t))

\* If that trouble ends, a closed trade is marked in the end, through timeouts,
\* restarts, dropped transactions and sends refused behind a pending one, unless a
\* half-written state file keeps the daemon down.  Trouble that lasts leaves trades
\* unmarked for ever, in a dry run too.
ClosedIsMarked ==
    <>[][~Troubled]_vars => \A t \in Trade : t \in closed ~> t \in submitted \/ ~readable
=============================================================================
