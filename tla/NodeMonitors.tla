---------------------------- MODULE NodeMonitors ----------------------------
(***************************************************************************)
(* Four programs beside a chain node that send it nothing:                 *)
(* indexer/indexer.py, scripts/block_producer.py, bundler/bundler.py and   *)
(* scripts/start_testnet_faucet.py.                                        *)
(*                                                                         *)
(* Each start of the indexer makes one scan.  Several may run on one       *)
(* database at a time, and one may be killed between any two of its        *)
(* statements, each of which is a transaction of its own.                  *)
(***************************************************************************)
EXTENDS Integers, Sequences, FiniteSets

CONSTANTS
    Process,
    DemoEvents,     \* the tx_hash of the simulated events, a sequence
    OfflineHeight,  \* the height taken when no node answers, 124900
    MaxHeight,      \* bound: height of the chain
    MaxErrors       \* bound: failed insertions and kills

ASSUME IndexerParameters ==
    /\ DemoEvents \in Seq(STRING)
    /\ OfflineHeight \in Nat
    /\ MaxHeight \in Nat /\ 1 <= MaxHeight

VARIABLES
    height,         \* of the chain node
    connected,      \* the node answers
    events,         \* table events: the tx_hash of its rows, in order of id
    last_scanned_block, \* table sync_status, 0 for no row
    scan,           \* Process -> where it is in scan_cycle
    current_block,  \* Process -> what it read
    simulating,     \* Process -> it found no node
    simulated,      \* history: a scan that found no node has set its mark
    failed, errors  \* history: an insertion failed; for the bound

indexerVars == <<height, connected, events, last_scanned_block, scan, current_block,
                 simulating, simulated, failed, errors>>

\* A scan is at "ready", at insertion 1 .. Len(DemoEvents), or at the update.
Ready == 0
Updating == Len(DemoEvents) + 1

IndexerInit ==
    /\ height = 1
    /\ connected = TRUE
    /\ events = <<>>
    /\ last_scanned_block = 0
    /\ scan = [p \in Process |-> Ready]
    /\ current_block = [p \in Process |-> 0]
    /\ simulating = [p \in Process |-> FALSE]
    /\ simulated = FALSE
    /\ failed = FALSE /\ errors = 0

\* A node that answers is asked for its height and nothing else, and the scan
\* stores no event.  last_block is read and not used.
scan_cycle(p) ==
    /\ scan[p] = Ready
    /\ current_block' = [current_block EXCEPT ![p] = IF connected THEN height ELSE OfflineHeight]
    /\ simulating' = [simulating EXCEPT ![p] = ~connected]
    /\ scan' = [scan EXCEPT ![p] = IF connected THEN Updating ELSE 1]
    /\ UNCHANGED <<height, connected, events, last_scanned_block, simulated, failed, errors>>

\* INSERT OR IGNORE: the hash is unique.  An error is printed and swallowed.
insert_event(p) ==
    /\ scan[p] \in DOMAIN DemoEvents
    /\ LET hash == DemoEvents[scan[p]]
       IN  \/ /\ events' = IF \E i \in DOMAIN events : events[i] = hash
                           THEN events ELSE Append(events, hash)
              /\ UNCHANGED <<failed, errors>>
           \/ /\ errors < MaxErrors
              /\ failed' = TRUE /\ errors' = errors + 1
              /\ UNCHANGED events
    /\ scan' = [scan EXCEPT ![p] = @ + 1]
    /\ UNCHANGED <<height, connected, last_scanned_block, current_block, simulating,
                   simulated>>

\* Mutant: the mark is set before the events are stored.
update_first(p) ==
    /\ scan[p] \notin {Ready, Updating}
    /\ last_scanned_block' = current_block[p]
    /\ simulated' = (simulated \/ simulating[p])
    /\ UNCHANGED <<height, connected, events, scan, current_block, simulating, failed,
                   errors>>

update_last_block(p) ==
    /\ scan[p] = Updating
    /\ last_scanned_block' = current_block[p]
    /\ simulated' = (simulated \/ simulating[p])
    /\ scan' = [scan EXCEPT ![p] = Ready]
    /\ UNCHANGED <<height, connected, events, current_block, simulating, failed, errors>>

Kill(p) ==
    /\ scan[p] # Ready /\ errors < MaxErrors
    /\ scan' = [scan EXCEPT ![p] = Ready]
    /\ errors' = errors + 1
    /\ UNCHANGED <<height, connected, events, last_scanned_block, current_block,
                   simulating, simulated, failed>>

\* The node.
Grow ==
    /\ height < MaxHeight
    /\ height' = height + 1
    /\ UNCHANGED <<connected, events, last_scanned_block, scan, current_block, simulating,
                   simulated, failed, errors>>

Toggle ==
    /\ connected' = ~connected
    /\ UNCHANGED <<height, events, last_scanned_block, scan, current_block, simulating,
                   simulated, failed, errors>>

IndexerNext ==
    \/ \E p \in Process : scan_cycle(p) \/ insert_event(p) \/ update_last_block(p) \/ Kill(p)
    \/ Grow \/ Toggle

IndexerSpec == IndexerInit /\ [][IndexerNext]_indexerVars

\* Once a scan that found no node has set its mark, each of the events it made
\* up is stored, once, whatever was killed and whoever ran at the same time.
\* Only an insertion that failed, which the code passes over, leaves one out.
\* The mark alone stands for no event: a scan of a node sets it to any height,
\* and to the same one, having looked for none.
SimulatedIsStored ==
    simulated =>
        \/ failed
        \/ \A i \in DOMAIN DemoEvents :
               Cardinality({k \in DOMAIN events : events[k] = DemoEvents[i]}) = 1

-----------------------------------------------------------------------------
(* scripts/block_producer.py and bundler/bundler.py.                         *)

CONSTANTS
    UserOp,         \* with a sender that is an address
    Sponsored,      \* those whose paymasterAndData names the paymaster
    MaxBlock,       \* bound: the chain's height
    MaxOps          \* bound: operations submitted

ASSUME Sponsored \subseteq UserOp

VARIABLES
    head,           \* height of the node
    up,             \* the node answers
    last_block,     \* of the producer, -1 at first
    announced,      \* history: the blocks it printed
    mempool,        \* self.mempool of the bundler
    warned, bundled \* history: operations warned about, and bundled

monitorVars == <<head, up, last_block, announced, mempool, warned, bundled>>

MonitorInit ==
    /\ head = 0 /\ up = TRUE
    /\ last_block = -1 /\ announced = <<>>
    /\ mempool = <<>> /\ warned = 0 /\ bundled = 0

\* One turn of start_block_producer: a block is announced when the height
\* differs from the last one seen; blocks between the two are passed over.
start_block_producer ==
    /\ up /\ head # last_block
    /\ last_block' = head
    /\ announced' = Append(announced, head)
    /\ UNCHANGED <<head, up, mempool, warned, bundled>>

\* A wrong paymaster is only warned about; an invalid sender raises.
submit_user_op(op) ==
    /\ Len(mempool) + bundled < MaxOps
    /\ mempool' = Append(mempool, op)
    /\ warned' = warned + (IF op \in Sponsored THEN 0 ELSE 1)
    /\ UNCHANGED <<head, up, last_block, announced, bundled>>

\* The operations are counted and forgotten; no transaction is sent.
bundle_mempool ==
    /\ mempool # <<>>
    /\ bundled' = bundled + Len(mempool)
    /\ mempool' = <<>>
    /\ UNCHANGED <<head, up, last_block, announced, warned>>

Node ==
    /\ \/ head < MaxBlock /\ head' = head + 1 /\ UNCHANGED up
       \/ up' = ~up /\ UNCHANGED head
    /\ UNCHANGED <<last_block, announced, mempool, warned, bundled>>

MonitorNext ==
    \/ start_block_producer
    \/ \E op \in UserOp : submit_user_op(op)
    \/ bundle_mempool
    \/ Node

-----------------------------------------------------------------------------
(* scripts/start_testnet_faucet.py: one coin per address and day.  The     *)
(* server handles one request at a time and keeps its claims in memory;    *)
(* time is counted in hours, and no coin is moved: the answer names a hash *)
(* made from the clock.                                                    *)

CONSTANTS
    Address,        \* lower-case addresses of 42 characters
    Spelling,       \* the forms in which they are written
    Lower,          \* Spelling -> Address: strip().lower()
    COOLDOWN,       \* COOLDOWN_SECONDS, in the unit of time
    MaxHours, MaxStarts \* bounds

ASSUME FaucetParameters ==
    /\ Lower \in [Spelling -> Address]
    /\ COOLDOWN \in Nat

NotInCooldown == -1

VARIABLES
    now,
    last_claims,    \* Address -> time of the last claim, or NotInCooldown
    status,         \* the last status answered
    epoch,          \* history: starts of the service
    dispensed,      \* history: Address -> successes
    dispensed_at,   \* history: Address -> time of the last one
    dispensed_in    \* history: Address -> epoch of the last one

faucetVars == <<now, last_claims, status, epoch, dispensed, dispensed_at, dispensed_in>>

FaucetInit ==
    /\ now = 0
    /\ last_claims = [a \in Address |-> NotInCooldown]
    /\ status = 0
    /\ epoch = 0
    /\ dispensed = [a \in Address |-> 0]
    /\ dispensed_at = [a \in Address |-> 0]
    /\ dispensed_in = [a \in Address |-> 0]

\* Mutant: the last moment of the cooldown is not part of it.
RateLimitedShort(a) == last_claims[a] # NotInCooldown /\ now - last_claims[a] < COOLDOWN - 1

RateLimited(a) == last_claims[a] # NotInCooldown /\ now - last_claims[a] < COOLDOWN

Dispense(a) ==
    /\ ~RateLimited(a)
    /\ last_claims' = [last_claims EXCEPT ![a] = now]
    /\ status' = 200
    /\ dispensed' = [dispensed EXCEPT ![a] = @ + 1]
    /\ dispensed_at' = [dispensed_at EXCEPT ![a] = now]
    /\ dispensed_in' = [dispensed_in EXCEPT ![a] = epoch]
    /\ UNCHANGED <<now, epoch>>

Refuse(a) ==
    /\ RateLimited(a)
    /\ status' = 429
    /\ UNCHANGED <<now, last_claims, epoch, dispensed, dispensed_at, dispensed_in>>

Claim(s) == Dispense(Lower[s]) \/ Refuse(Lower[s])

\* 400: no address of the right form; 500: what is sent cannot be read as one.
Malformed ==
    /\ status' \in {400, 500}
    /\ UNCHANGED <<now, last_claims, epoch, dispensed, dispensed_at, dispensed_in>>

Page ==
    /\ status' = 200
    /\ UNCHANGED <<now, last_claims, epoch, dispensed, dispensed_at, dispensed_in>>

Restart ==
    /\ epoch < MaxStarts
    /\ last_claims' = [a \in Address |-> NotInCooldown]
    /\ epoch' = epoch + 1
    /\ UNCHANGED <<now, status, dispensed, dispensed_at, dispensed_in>>

Hour ==
    /\ now < MaxHours
    /\ now' = now + 1
    /\ UNCHANGED <<last_claims, status, epoch, dispensed, dispensed_at, dispensed_in>>

FaucetNext ==
    \/ \E s \in Spelling : Claim(s)
    \/ Malformed \/ Page \/ Restart \/ Hour

FaucetSpec == FaucetInit /\ [][FaucetNext]_faucetVars

\* However it is written, an address is served twice within the cooldown only
\* when the service was started again in between: its claims are in memory.
ClaimsApart ==
    [][\A a \in Address :
          dispensed'[a] > dispensed[a] /\ dispensed[a] > 0 /\ dispensed_in[a] = epoch
              => now - dispensed_at[a] >= COOLDOWN]_faucetVars
=============================================================================
