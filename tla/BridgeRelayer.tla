--------------------------- MODULE BridgeRelayer ---------------------------
(***************************************************************************)
(* The bridge in one direction: deposits on the source chain, the relayer  *)
(* daemons (bridge/relayer.py) that watch them and keep a state file, and  *)
(* the vault of the target chain (module PISOBridge).                      *)
(*                                                                         *)
(* A daemon prints the proposal of a deposit and remembers its hash; it    *)
(* sends no transaction.  The vote is its operator's, who votes for a hash *)
(* that was printed, and again when the transaction reverts.  Recipient    *)
(* and amount of the vote are what the operator enters: the amount on the  *)
(* screen is rounded, and the contract compares neither with the hash.     *)
(***************************************************************************)
EXTENDS PISOBridge

CONSTANTS
    Sender, Target, Amounts,  \* what a deposit may consist of
    PrintStep,   \* the coin in the last of the four decimals that are printed
    VoteRecipients, VoteAmounts,  \* what an operator may enter
    MaxBlock,    \* bound: the source chain's last block
    MaxDeposits, \* bound: the deposits in all
    MaxFaults    \* bound: crashes and failures to save, in all

ASSUME RelayerParameters ==
    /\ Amounts \subseteq Nat \ {0}
    /\ PrintStep \in Nat \ {0}
    /\ VoteAmounts \subseteq Nat
    /\ MaxBlock \in Nat \ {0}
    /\ MaxDeposits \in Nat
    /\ MaxFaults \in Nat

\* compute_tx_hash: sender, target, amount and block, and nothing else.
ComputeTxHash(event) == <<event.sender, event.targetAddress, event.amount, event.block>>

HashTarget(hash) == hash[2]

\* The amount of the proposal as it is printed: the nearest number of four
\* decimals; which one of two, half-way between them, is up to the binary fraction.
PrintedAmounts(hash) ==
    {printed \in {PrintStep * n : n \in 0..(hash[3] \div PrintStep + 1)} :
        2 * (hash[3] - printed) \in -PrintStep..PrintStep}

AllHashes == Sender \X Target \X Amounts \X (1..MaxBlock)

ASSUME HashAssumption == AllHashes \subseteq TxHash

VARIABLES
    block,         \* the source chain's height
    events,        \* the Deposit events, in order
    running,       \* the relayers whose daemon runs
    processed_txs, \* self.processed_txs of each daemon
    state_file,    \* what load_state would read
    proposals,     \* what each daemon has printed
    faults

daemonVars == <<running, processed_txs, state_file, proposals, faults>>
vars == <<block, events, daemonVars, bridgeVars>>

Init ==
    /\ BridgeInit
    /\ block = 1
    /\ events = <<>>
    /\ running = isRelayer
    /\ processed_txs = [r \in isRelayer |-> {}]
    /\ state_file = [r \in isRelayer |-> {}]
    /\ proposals = [r \in isRelayer |-> {}]
    /\ faults = 0

NewBlock ==
    /\ block < MaxBlock
    /\ block' = block + 1
    /\ UNCHANGED <<events, daemonVars, bridgeVars>>

\* deposit() requires a positive amount and emits the event.
Deposit(sender, targetAddress, amount) ==
    /\ Len(events) < MaxDeposits
    /\ events' = Append(events, [sender |-> sender, targetAddress |-> targetAddress,
                                 amount |-> amount, block |-> block])
    /\ UNCHANGED <<block, daemonVars, bridgeVars>>

SaveState(r, hashes) ==
    /\ state_file' = [state_file EXCEPT ![r] = hashes]
    /\ UNCHANGED faults

\* What goes wrong in save_state is swallowed: the file could not be opened and
\* is as it was, or it was cut short and load_state will find nothing in it.
FailToSave(r) ==
    /\ faults < MaxFaults
    /\ faults' = faults + 1
    /\ \E left \in {state_file[r], {}} : state_file' = [state_file EXCEPT ![r] = left]

\* process_deposit_event; the event may have been seen before.
ProcessDepositEvent(r, event) ==
    LET hash == ComputeTxHash(event)
    IN  /\ r \in running
        /\ hash \notin processed_txs[r]
        /\ proposals' = [proposals EXCEPT ![r] = @ \cup {hash}]
        /\ processed_txs' = [processed_txs EXCEPT ![r] = @ \cup {hash}]
        /\ \/ SaveState(r, processed_txs'[r])
           \/ FailToSave(r)
        /\ UNCHANGED <<block, events, running, bridgeVars>>

Crash(r) ==
    /\ r \in running
    /\ faults < MaxFaults
    /\ faults' = faults + 1
    /\ running' = running \ {r}
    /\ processed_txs' = [processed_txs EXCEPT ![r] = {}]
    /\ UNCHANGED <<block, events, state_file, proposals, bridgeVars>>

\* __init__ with load_state.
Restart(r) ==
    /\ r \notin running
    /\ running' = running \cup {r}
    /\ processed_txs' = [processed_txs EXCEPT ![r] = state_file[r]]
    /\ UNCHANGED <<block, events, state_file, proposals, faults, bridgeVars>>

\* The operator's transaction for a printed proposal, with what was printed.
VoteAsPrinted(r) ==
    /\ \E hash \in proposals[r] : \E amount \in PrintedAmounts(hash) :
          VoteProposal(r, HashTarget(hash), amount, hash)
    /\ UNCHANGED <<block, events, daemonVars>>

\* The same with any recipient and amount.
Vote(r) ==
    /\ \E hash \in proposals[r], recipient \in VoteRecipients, amount \in VoteAmounts :
          VoteProposal(r, recipient, amount, hash)
    /\ UNCHANGED <<block, events, daemonVars>>

\* Somebody tops the vault up.
Fund ==
    /\ vault < MaxVault
    /\ Receive(MaxVault - vault)
    /\ UNCHANGED <<block, events, daemonVars>>

\* The handler is given the events of the chain, in any order and repeatedly.  In
\* the source, run() gives it one simulated event when the node is offline, and
\* none when it is connected.
Scan(r) == \E i \in DOMAIN events : ProcessDepositEvent(r, events[i])

Next ==
    \/ NewBlock
    \/ \E sender \in Sender, targetAddress \in Target, amount \in Amounts :
          Deposit(sender, targetAddress, amount)
    \/ Fund
    \/ \E r \in isRelayer :
          Scan(r) \/ Crash(r) \/ Restart(r) \/ Vote(r) \/ VoteAsPrinted(r)

Spec == Init /\ [][Next]_vars

\* Operators vote as was printed, unless they have voted otherwise, again if the
\* vote reverts, and the vault is kept topped up.  Nothing is assumed of the daemons.
FairSpec ==
    /\ Spec
    /\ WF_vars(Fund)
    /\ \A r \in isRelayer : WF_vars(VoteAsPrinted(r))

-----------------------------------------------------------------------------
TypeOK ==
    /\ block \in 1..MaxBlock
    /\ \A i \in DOMAIN events : ComputeTxHash(events[i]) \in TxHash
    /\ running \subseteq isRelayer
    /\ processed_txs \in [isRelayer -> SUBSET TxHash]
    /\ state_file \in [isRelayer -> SUBSET TxHash]
    /\ proposals \in [isRelayer -> SUBSET TxHash]
    /\ votes \in [TxHash -> SUBSET isRelayer]
    /\ voteCounts \in [TxHash -> 0..Len(RelayerList)]
    /\ processedTransactions \subseteq TxHash
    /\ vault \in 0..MaxVault
    /\ funded \in Nat

\* Coin is released only after as many different relayers as the threshold asks
\* for printed its deposit: a daemon that lost its state and brings the deposit up
\* again, or an operator who repeats a vote, does not count twice.
ReleasedByThreshold ==
    \A hash \in processedTransactions :
        Cardinality({r \in isRelayer : hash \in proposals[r]}) >= THRESHOLD

Hashes == {ComputeTxHash(events[i]) : i \in DOMAIN events}

Escrow == INSTANCE BridgeEscrow WITH
    Key <- TxHash,
    deposited <- Hashes,
    released <- processedTransactions,
    paid <- funded - vault

\* Whatever crashes, is scanned again, reverts or is voted for late, and whatever
\* recipients and amounts the votes name, coin leaves once for a deposit and for
\* nothing else.
ImplementsEscrow == Escrow!EscrowSpec

\* Once enough daemons have printed a deposit it is released in the end, also when
\* the deciding vote first meets an empty vault, or daemons go down meanwhile,
\* unless its target refuses coin: then every deciding vote for it reverts.
PrintedIsReleased ==
    \A hash \in TxHash :
        Cardinality({r \in isRelayer : hash \in proposals[r]}) >= THRESHOLD
            ~> hash \in processedTransactions \/ HashTarget(hash) \in Refusing

\* No daemon, operator or vote is left to act for a deposit.
Settled ==
    /\ running = isRelayer
    /\ \A r \in isRelayer : Hashes \subseteq processed_txs[r]
    /\ Hashes \subseteq processedTransactions

\* docs/FAUCET_AND_RELAYER.md:27-33: a deposit emits its event, the daemon scans
\* it, and the relayer executes the mint or unlock.  So once everything is settled
\* there was a release for every deposit.
AllDepositsReleased == Settled => Cardinality(processedTransactions) = Len(events)
=============================================================================
