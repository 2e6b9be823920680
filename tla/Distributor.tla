---------------------------- MODULE Distributor ----------------------------
(***************************************************************************)
(* scripts/distribute_piso.py: sends the native coin to a list of          *)
(* recipients, one transaction each, through a JSON-RPC endpoint.          *)
(*                                                                         *)
(* The endpoint is a chain node (external), which keeps a transaction per  *)
(* nonce of the sender, mines them in the order of the nonces and may drop *)
(* one, or this repository's own server, rpc/jsonrpc_server.py, which      *)
(* answers a hash to any transaction and keeps none.                       *)
(***************************************************************************)
EXTENDS JsonRpc, FiniteSets

CONSTANTS
    Recipient, NotAnAddress,
    Lists,          \* bound: the lists of recipients the script is started with
    MaxRuns,        \* bound: times the script is started
    MaxFaults       \* bound: calls, answers, transactions lost, runs broken off

ASSUME DistributorParameters ==
    /\ NotAnAddress \notin Recipient
    /\ Lists \subseteq Seq(Recipient \cup {NotAnAddress})

VARIABLES
    endpoint,       \* "node" or "piso_rpc"
    mined,          \* node: transactions of the sender in the chain
    pool,           \* node: nonce -> recipient, for those not yet mined
    paid,           \* node: Recipient -> transfers mined
    reverted,       \* node: recipients with a transfer mined that failed
    dropped,        \* history: the node dropped a transaction
    running,        \* the script is in its loop
    recipients,     \* what is left of valid_recipients
    current_nonce,
    succeeded,      \* history: recipients for whom a success was printed
    runs, faults    \* history: for the bounds

nodeVars == <<mined, pool, paid, reverted, dropped>>
distributorVars == <<endpoint, nodeVars, running, recipients, current_nonce,
                     succeeded, runs, faults>>

DistributorInit ==
    /\ endpoint \in {"node", "piso_rpc"}
    /\ mined \in {0, 1}
    /\ pool = << >>
    /\ paid = [r \in Recipient |-> 0]
    /\ reverted = {} /\ dropped = FALSE
    /\ running = FALSE
    /\ recipients = << >>
    /\ current_nonce = 0
    /\ succeeded = {}
    /\ runs = 0 /\ faults = 0

\* get_nonce calls startsWith, which no Python text has, on any number that is
\* answered.  The chain node answers; the server has no such method, and of its
\* error json_rpc makes None and get_nonce zero.
get_nonce_raises ==
    endpoint = "node" \/ dispatch(Call("eth_getTransactionCount", "text", 1)).kind = "result"

\* Mutant: it returns the nonce after.
get_nonce_next == 1

\* What it returns when it does not raise.
get_nonce == 0

\* main up to its loop.  The operator lists recipients of whom no success was
\* printed so far, each of them once.
Listed(list) ==
    /\ ~running /\ runs < MaxRuns
    /\ \A i, j \in DOMAIN list : i # j => list[i] # list[j]
    /\ \A i \in DOMAIN list : list[i] \notin succeeded
    /\ runs' = runs + 1
    /\ UNCHANGED <<endpoint, nodeVars, succeeded>>

valid_recipients(list) ==
    LET kept[i \in Nat] ==
            IF i = 0 THEN <<>>
            ELSE IF i \in DOMAIN list /\ list[i] \in Recipient
                 THEN Append(kept[i - 1], list[i]) ELSE kept[i - 1]
    IN  kept[Len(list)]

\* The script ends before its loop: nobody to pay, or get_nonce raises.
StartInVain(list) ==
    /\ Listed(list)
    /\ valid_recipients(list) = << >> \/ get_nonce_raises
    /\ UNCHANGED <<running, recipients, current_nonce, faults>>

\* The question is answered by an error, or gets no answer from the node.
Start(list) ==
    /\ Listed(list)
    /\ valid_recipients(list) # << >>
    /\ get_nonce_raises => faults < MaxFaults
    /\ recipients' = valid_recipients(list)
    /\ running' = TRUE
    /\ current_nonce' = get_nonce
    /\ faults' = IF get_nonce_raises THEN faults + 1 ELSE faults

\* The node takes the transaction: its nonce is not used up and not pending.
Accepted == current_nonce >= mined /\ current_nonce \notin DOMAIN pool

Enter == pool' = [n \in DOMAIN pool \cup {current_nonce} |->
                     IF n = current_nonce THEN Head(recipients) ELSE pool[n]]

\* The loop goes on with the next recipient, the last one ends the script.
NextRecipient ==
    /\ recipients' = Tail(recipients)
    /\ running' = (Tail(recipients) # << >>)

\* A hash comes back: success is printed and the nonce moves on.
Success ==
    /\ succeeded' = succeeded \cup {Head(recipients)}
    /\ current_nonce' = current_nonce + 1
    /\ NextRecipient
    /\ UNCHANGED faults

\* Mutant: the nonce moves on after a failure as well.
FailureMovesOn ==
    /\ current_nonce' = current_nonce + 1
    /\ NextRecipient
    /\ UNCHANGED succeeded

\* None comes back.
Failure ==
    /\ NextRecipient
    /\ UNCHANGED <<succeeded, current_nonce>>

SendAccepted ==
    /\ running /\ endpoint = "node" /\ Accepted
    /\ Enter
    /\ Success
    /\ UNCHANGED <<endpoint, mined, paid, reverted, dropped, runs>>

\* nonce too low, a transaction of that nonce pending, or another cause, such
\* as the sender's funds.
SendRefused ==
    /\ running /\ endpoint = "node"
    /\ Failure
    /\ UNCHANGED <<endpoint, nodeVars, runs, faults>>

\* The answer does not come within ten seconds, or the call never arrived.
SendInDoubt ==
    /\ running /\ faults < MaxFaults
    /\ \/ endpoint = "node" /\ Accepted /\ Enter
       \/ UNCHANGED pool
    /\ Failure
    /\ faults' = faults + 1
    /\ UNCHANGED <<endpoint, mined, paid, reverted, dropped, runs>>

\* eth_sendRawTransaction of rpc/jsonrpc_server.py answers the digest of any text.
SendToServer ==
    /\ running /\ endpoint = "piso_rpc"
    /\ dispatch(Call("eth_sendRawTransaction", "text", 1)).kind = "result"
    /\ Success
    /\ UNCHANGED <<endpoint, nodeVars, runs>>

\* The run is broken off, perhaps between the send and the printed line.
BreakOff ==
    /\ running /\ faults < MaxFaults
    /\ \/ endpoint = "node" /\ Accepted /\ Enter
       \/ UNCHANGED pool
    /\ running' = FALSE /\ recipients' = << >>
    /\ faults' = faults + 1
    /\ UNCHANGED <<endpoint, mined, paid, reverted, dropped, current_nonce,
                   succeeded, runs>>

\* The gas of a transfer is fixed at 21000: one to a contract whose code has to
\* run uses its nonce up and fails.
Mine ==
    /\ mined \in DOMAIN pool
    /\ \/ paid' = [paid EXCEPT ![pool[mined]] = @ + 1] /\ UNCHANGED reverted
       \/ reverted' = reverted \cup {pool[mined]} /\ UNCHANGED paid
    /\ mined' = mined + 1
    /\ pool' = [n \in DOMAIN pool \ {mined} |-> pool[n]]
    /\ UNCHANGED <<endpoint, dropped, running, recipients, current_nonce, succeeded,
                   runs, faults>>

\* Its pool is full, it restarts, or the sender cannot pay any more.
Drop(nonce) ==
    /\ faults < MaxFaults
    /\ pool' = [n \in DOMAIN pool \ {nonce} |-> pool[n]]
    /\ dropped' = TRUE
    /\ faults' = faults + 1
    /\ UNCHANGED <<endpoint, mined, paid, reverted, running, recipients, current_nonce,
                   succeeded, runs>>

DistributorNext ==
    \/ \E list \in Lists : Start(list) \/ StartInVain(list)
    \/ SendAccepted \/ SendRefused \/ SendInDoubt \/ SendToServer \/ BreakOff
    \/ Mine \/ \E nonce \in DOMAIN pool : Drop(nonce)

DistributorSpec == DistributorInit /\ [][DistributorNext]_distributorVars

Transfers(r) == paid[r] + Cardinality({n \in DOMAIN pool : pool[n] = r})

\* Nobody is paid twice, though the operator lists those again of whom no
\* success was printed, and a transfer that was sent may show none: every run
\* counts from zero, and the node takes a nonce once.  Only after the node
\* dropped a transaction, whose nonce is free again, may it be twice.
PaidOnce == dropped \/ \A r \in Recipient : Transfers(r) <= 1

\* With a chain node that drops no transaction, one whose success was printed is
\* mined, and pays or fails for want of gas: no nonce before it is left open,
\* whatever was refused or lost.  What is printed says of neither.
PrintedIsMined ==
    \A r \in Recipient :
        endpoint = "node" /\ r \in succeeded ~> paid[r] > 0 \/ r \in reverted \/ dropped
=============================================================================
