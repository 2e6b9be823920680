------------------------ MODULE BridgeRelayer_proofs ------------------------
(***************************************************************************)
(* The relayed bridge for any relayers, threshold, deposits and faults:    *)
(* the coin of a deposit is released once, and on as many printed          *)
(* proposals as the threshold asks for, whatever recipients and amounts    *)
(* the votes name.                                                         *)
(*                                                                         *)
(* A vote stands for a proposal its relayer printed, and voteCounts for    *)
(* the set of those who voted; what daemons remember or lose plays no part *)
(* in it.                                                                  *)
(***************************************************************************)
EXTENDS BridgeRelayer, FiniteSetTheorems, TLAPS

Event == [sender : Sender, targetAddress : Target, amount : Amounts, block : 1..MaxBlock]

BridgeInv ==
    /\ block \in 1..MaxBlock
    /\ events \in Seq(Event)
    /\ running \subseteq isRelayer
    /\ processed_txs \in [isRelayer -> SUBSET Hashes]
    /\ state_file \in [isRelayer -> SUBSET Hashes]
    /\ proposals \in [isRelayer -> SUBSET Hashes]
    /\ votes \in [TxHash -> SUBSET isRelayer]
    /\ voteCounts \in [TxHash -> Nat]
    /\ \A hash \in TxHash :
          /\ voteCounts[hash] = Cardinality(votes[hash])
          /\ \A r \in votes[hash] : hash \in proposals[r]
          /\ hash \in processedTransactions => voteCounts[hash] >= THRESHOLD
    /\ processedTransactions \subseteq TxHash
    /\ vault \in 0..MaxVault
    /\ funded \in Nat

\* The relayers are no more than the list names, and finitely many.
LEMMA RelayersFinite == IsFiniteSet(isRelayer) /\ Cardinality(isRelayer) <= Len(RelayerList)
<1>1. RelayerList \in Seq(isRelayer) /\ Len(RelayerList) \in Nat
      /\ DOMAIN RelayerList = 1 .. Len(RelayerList)
  BY BridgeParameters
<1>2. isRelayer = {RelayerList[i] : i \in 1 .. Len(RelayerList)}
  BY <1>1 DEF isRelayer, Range
<1>3. RelayerList \in Surjection(1 .. Len(RelayerList), isRelayer)
  BY <1>1, <1>2 DEF Surjection
<1>4. ExistsSurjection(1 .. Len(RelayerList), isRelayer)
  BY <1>3 DEF ExistsSurjection
<1> QED
  BY <1>1, <1>4, FS_NatSurjection, FS_SurjCardinalityBound

\* The hash of an event may be voted for.
LEMMA EventHash ==
  ASSUME NEW event \in Event
  PROVE  ComputeTxHash(event) \in TxHash
<1>1. ComputeTxHash(event) \in AllHashes
  BY DEF Event, ComputeTxHash, AllHashes
<1> QED
  BY <1>1, HashAssumption

\* What was deposited can be released.
LEMMA HashesKnown ==
  ASSUME BridgeInv
  PROVE  Hashes \subseteq TxHash
<1> SUFFICES ASSUME NEW hash \in Hashes PROVE hash \in TxHash
  OBVIOUS
<1>1. PICK i \in DOMAIN events : hash = ComputeTxHash(events[i])
  BY DEF Hashes
<1>2. events[i] \in Event
  BY DEF BridgeInv
<1> QED
  BY <1>1, <1>2, EventHash

\* A vote, with whatever recipient, names a printed hash and a natural amount.
LEMMA VoteNames ==
  ASSUME NEW r \in isRelayer, Vote(r) \/ VoteAsPrinted(r)
  PROVE  /\ \E hash \in proposals[r], amount \in Nat :
               \E recipient : VoteProposal(r, recipient, amount, hash)
         /\ UNCHANGED <<block, events, daemonVars>>
<1>1. CASE Vote(r)
  BY <1>1, RelayerParameters DEF Vote
<1>2. CASE VoteAsPrinted(r)
  <2>1. PICK hash \in proposals[r] : \E amount \in PrintedAmounts(hash) :
            VoteProposal(r, HashTarget(hash), amount, hash)
    BY <1>2 DEF VoteAsPrinted
  <2>2. ASSUME NEW n \in Nat PROVE PrintStep * n \in Nat
    BY RelayerParameters
  <2>3. PrintedAmounts(hash) \subseteq Nat
    BY <2>2 DEF PrintedAmounts
  <2> QED
    BY <1>2, <2>1, <2>3 DEF VoteAsPrinted
<1> QED
  BY <1>1, <1>2

\* A deposit enters one hash.
LEMMA DepositAdds ==
  ASSUME BridgeInv, NEW sender \in Sender, NEW targetAddress \in Target, NEW amount \in Amounts,
         Deposit(sender, targetAddress, amount)
  PROVE  /\ events' \in Seq(Event)
         /\ \E hash \in TxHash : Hashes' = Hashes \cup {hash}
<1> DEFINE event == [sender |-> sender, targetAddress |-> targetAddress,
                     amount |-> amount, block |-> block]
<1>1. event \in Event /\ events \in Seq(Event) /\ events' = Append(events, event)
  BY DEF BridgeInv, Event, Deposit
<1> HIDE DEF event
<1>2. /\ events' \in Seq(Event)
      /\ Len(events) \in Nat /\ DOMAIN events = 1 .. Len(events)
      /\ Len(events') = Len(events) + 1
      /\ events'[Len(events) + 1] = event
      /\ \A i \in 1 .. Len(events) : events'[i] = events[i]
  BY <1>1
<1>3. DOMAIN events' = DOMAIN events \cup {Len(events) + 1}
  BY <1>2
<1>4. PICK hash \in TxHash : hash = ComputeTxHash(event)
  BY <1>1, EventHash
<1>5. Hashes' = Hashes \cup {hash}
  <2>1. ASSUME NEW h \in Hashes' PROVE h \in Hashes \cup {hash}
    <3>1. PICK i \in DOMAIN events' : h = ComputeTxHash(events'[i])
      BY DEF Hashes
    <3>2. CASE i = Len(events) + 1
      BY <1>2, <1>4, <3>1, <3>2
    <3>3. CASE i \in DOMAIN events
      BY <1>2, <3>1, <3>3 DEF Hashes
    <3> QED
      BY <1>3, <3>1, <3>2, <3>3
  <2>2. ASSUME NEW h \in Hashes PROVE h \in Hashes'
    <3>1. PICK i \in DOMAIN events : h = ComputeTxHash(events[i])
      BY DEF Hashes
    <3> QED
      BY <1>2, <1>3, <3>1 DEF Hashes
  <2>3. hash \in Hashes'
    BY <1>2, <1>3, <1>4 DEF Hashes
  <2> QED
    BY <2>1, <2>2, <2>3
<1> QED
  BY <1>2, <1>5

LEMMA InitBridgeInv == Init => BridgeInv
<1> SUFFICES ASSUME Init PROVE BridgeInv
  OBVIOUS
<1>1. events = <<>> /\ DOMAIN events = {} /\ events \in Seq(Event)
  BY DEF Init
<1>2. ASSUME NEW hash \in TxHash
      PROVE  /\ votes[hash] = {} /\ voteCounts[hash] = 0
             /\ voteCounts[hash] = Cardinality(votes[hash])
  BY FS_EmptySet DEF Init, BridgeInit
<1>3. MaxBlock \in Nat \ {0} /\ MaxVault \in Nat
  BY RelayerParameters, BridgeParameters
<1> QED
  BY <1>1, <1>2, <1>3 DEF Init, BridgeInit, BridgeInv

\* Whatever a daemon does, it prints what was deposited, and remembers no more.
LEMMA DaemonKeeps ==
  ASSUME BridgeInv, NEW r \in isRelayer, Scan(r) \/ Crash(r) \/ Restart(r)
  PROVE  BridgeInv'
<1>1. /\ processed_txs \in [isRelayer -> SUBSET Hashes]
      /\ state_file \in [isRelayer -> SUBSET Hashes]
      /\ proposals \in [isRelayer -> SUBSET Hashes]
      /\ running \subseteq isRelayer
  BY DEF BridgeInv
<1>2. UNCHANGED <<block, events, bridgeVars>>
  BY DEF Scan, ProcessDepositEvent, Crash, Restart
<1>3. Hashes' = Hashes
  BY <1>2 DEF Hashes
<1>4. /\ running' \subseteq isRelayer
      /\ processed_txs' \in [isRelayer -> SUBSET Hashes]
      /\ state_file' \in [isRelayer -> SUBSET Hashes]
      /\ proposals' \in [isRelayer -> SUBSET Hashes]
      /\ \A k \in isRelayer : proposals[k] \subseteq proposals'[k]
  <2>1. ASSUME NEW i \in DOMAIN events, ProcessDepositEvent(r, events[i])
        PROVE  /\ running' \subseteq isRelayer
               /\ processed_txs' \in [isRelayer -> SUBSET Hashes]
               /\ state_file' \in [isRelayer -> SUBSET Hashes]
               /\ proposals' \in [isRelayer -> SUBSET Hashes]
               /\ \A k \in isRelayer : proposals[k] \subseteq proposals'[k]
    <3>1. PICK hash \in Hashes : hash = ComputeTxHash(events[i])
      BY DEF Hashes
    <3>2. /\ proposals' = [proposals EXCEPT ![r] = @ \cup {hash}]
          /\ processed_txs' = [processed_txs EXCEPT ![r] = @ \cup {hash}]
          /\ running' = running
          /\ SaveState(r, processed_txs'[r]) \/ FailToSave(r)
      BY <2>1, <3>1 DEF ProcessDepositEvent
    <3>3. /\ processed_txs' \in [isRelayer -> SUBSET Hashes]
          /\ proposals' \in [isRelayer -> SUBSET Hashes]
          /\ \A k \in isRelayer : proposals[k] \subseteq proposals'[k]
      BY <1>1, <3>2
    <3>4. state_file' \in [isRelayer -> SUBSET Hashes]
      BY <1>1, <3>2, <3>3 DEF SaveState, FailToSave
    <3> QED
      BY <1>1, <3>2, <3>3, <3>4
  <2>2. CASE Crash(r)
    BY <1>1, <2>2 DEF Crash
  <2>3. CASE Restart(r)
    BY <1>1, <2>3 DEF Restart
  <2> QED
    BY <2>1, <2>2, <2>3 DEF Scan
<1>5. \A hash \in TxHash : \A k \in votes[hash] : k \in isRelayer /\ hash \in proposals'[k]
  BY <1>4 DEF BridgeInv
<1> QED
  BY <1>2, <1>3, <1>4, <1>5 DEF BridgeInv, bridgeVars

\* What a vote does to the contract.
LEMMA VoteEffect ==
  ASSUME BridgeInv, NEW r \in isRelayer, NEW hash \in proposals[r],
         NEW recipient, NEW amount \in Nat, VoteProposal(r, recipient, amount, hash)
  PROVE  /\ hash \in Hashes /\ hash \in TxHash /\ hash \notin processedTransactions
         /\ votes' = [votes EXCEPT ![hash] = @ \cup {r}]
         /\ voteCounts' = [voteCounts EXCEPT ![hash] = @ + 1]
         /\ voteCounts'[hash] = Cardinality(votes'[hash])
         /\ funded' = funded
         /\ \/ processedTransactions' = processedTransactions /\ vault' = vault
            \/ /\ processedTransactions' = processedTransactions \cup {hash}
               /\ voteCounts[hash] + 1 >= THRESHOLD
               /\ vault' = vault - amount /\ vault >= amount
<1>1. hash \in Hashes /\ hash \in TxHash
  BY HashesKnown DEF BridgeInv
<1>2. /\ hash \notin processedTransactions /\ r \notin votes[hash]
      /\ VoteBelowThreshold(r, hash) \/ VoteAndRelease(r, recipient, amount, hash)
  BY DEF VoteProposal
<1>3. /\ votes' = [votes EXCEPT ![hash] = @ \cup {r}]
      /\ voteCounts' = [voteCounts EXCEPT ![hash] = @ + 1]
  BY <1>2 DEF VoteBelowThreshold, VoteAndRelease, Counted
<1>4. voteCounts'[hash] = Cardinality(votes'[hash])
  <2>1. votes[hash] \subseteq isRelayer /\ IsFiniteSet(votes[hash])
    BY <1>1, RelayersFinite, FS_Subset DEF BridgeInv
  <2>2. Cardinality(votes[hash] \cup {r}) = Cardinality(votes[hash]) + 1
    BY <1>2, <2>1, FS_AddElement
  <2>3. votes'[hash] = votes[hash] \cup {r} /\ voteCounts'[hash] = voteCounts[hash] + 1
    BY <1>1, <1>3 DEF BridgeInv
  <2> QED
    BY <1>1, <2>2, <2>3 DEF BridgeInv
<1> QED
  BY <1>1, <1>2, <1>3, <1>4 DEF VoteBelowThreshold, VoteAndRelease

LEMMA VoteKeeps ==
  ASSUME BridgeInv, NEW r \in isRelayer, Vote(r) \/ VoteAsPrinted(r)
  PROVE  BridgeInv'
<1>1. PICK hash \in proposals[r], amount \in Nat :
        \E recipient : VoteProposal(r, recipient, amount, hash)
  BY VoteNames
<1>2. UNCHANGED <<block, events, daemonVars>>
  BY VoteNames
<1>3. Hashes' = Hashes
  BY <1>2 DEF Hashes
<1>4. /\ hash \in Hashes /\ hash \in TxHash /\ hash \notin processedTransactions
      /\ votes' = [votes EXCEPT ![hash] = @ \cup {r}]
      /\ voteCounts' = [voteCounts EXCEPT ![hash] = @ + 1]
      /\ voteCounts'[hash] = Cardinality(votes'[hash])
      /\ funded' = funded
      /\ \/ processedTransactions' = processedTransactions /\ vault' = vault
         \/ /\ processedTransactions' = processedTransactions \cup {hash}
            /\ voteCounts[hash] + 1 >= THRESHOLD
            /\ vault' = vault - amount /\ vault >= amount
  BY <1>1, VoteEffect
<1>5. votes' \in [TxHash -> SUBSET isRelayer] /\ voteCounts' \in [TxHash -> Nat]
  BY <1>4 DEF BridgeInv
<1>6. ASSUME NEW h \in TxHash
      PROVE  /\ voteCounts'[h] = Cardinality(votes'[h])
             /\ \A k \in votes'[h] : h \in proposals'[k]
             /\ h \in processedTransactions' => voteCounts'[h] >= THRESHOLD
  <2>1. CASE h = hash
    <3>1. votes'[h] = votes[h] \cup {r} /\ voteCounts'[h] = voteCounts[h] + 1
      BY <1>4, <2>1 DEF BridgeInv
    <3>2. \A k \in votes'[h] : h \in proposals'[k]
      BY <1>1, <1>2, <1>4, <2>1, <3>1 DEF BridgeInv, daemonVars
    <3> QED
      BY <1>4, <2>1, <3>1, <3>2
  <2>2. CASE h # hash
    <3>1. votes'[h] = votes[h] /\ voteCounts'[h] = voteCounts[h]
      BY <1>4, <2>2 DEF BridgeInv
    <3> QED
      BY <1>2, <1>4, <2>2, <3>1 DEF BridgeInv, daemonVars
  <2> QED
    BY <2>1, <2>2
<1>7. processedTransactions' \subseteq TxHash /\ vault' \in 0..MaxVault
  <2>2. vault \in 0..MaxVault /\ MaxVault \in Nat
    BY BridgeParameters DEF BridgeInv
  <2> QED
    BY <1>4, <2>2 DEF BridgeInv
<1> QED
  BY <1>2, <1>3, <1>4, <1>5, <1>6, <1>7 DEF BridgeInv, daemonVars

LEMMA NextBridgeInv == BridgeInv /\ [Next]_vars => BridgeInv'
<1> SUFFICES ASSUME BridgeInv, [Next]_vars PROVE BridgeInv'
  OBVIOUS
<1>1. CASE NewBlock
  <2>1. Hashes' = Hashes /\ block' \in 1..MaxBlock
    BY <1>1, RelayerParameters DEF NewBlock, Hashes, BridgeInv
  <2> QED
    BY <1>1, <2>1 DEF NewBlock, BridgeInv, daemonVars, bridgeVars
<1>2. ASSUME NEW sender \in Sender, NEW targetAddress \in Target, NEW amount \in Amounts,
             Deposit(sender, targetAddress, amount)
      PROVE  BridgeInv'
  <2>1. events' \in Seq(Event) /\ Hashes \subseteq Hashes'
    BY <1>2, DepositAdds
  <2> QED
    BY <1>2, <2>1 DEF Deposit, BridgeInv, daemonVars, bridgeVars
<1>3. CASE Fund
  <2>1. Hashes' = Hashes
    BY <1>3 DEF Fund, Hashes
  <2>2. vault' \in 0..MaxVault /\ funded' \in Nat
    BY <1>3, BridgeParameters DEF Fund, Receive, BridgeInv
  <2> QED
    BY <1>3, <2>1, <2>2 DEF Fund, Receive, BridgeInv, daemonVars
<1>4. CASE UNCHANGED vars
  BY <1>4 DEF vars, daemonVars, bridgeVars, BridgeInv, Hashes
<1> QED
  BY <1>1, <1>2, <1>3, <1>4, DaemonKeeps, VoteKeeps DEF Next

\* The bridge keeps its types; in particular no count of votes exceeds the number
\* of relayers, so that its eight bits suffice.
THEOREM TypeCorrect == Spec => []TypeOK
<1>1. ASSUME BridgeInv PROVE TypeOK
  <2>1. Hashes \subseteq TxHash
    BY <1>1, HashesKnown
  <2>2. \A i \in DOMAIN events : ComputeTxHash(events[i]) \in TxHash
    BY <2>1 DEF Hashes
  <2>3. ASSUME NEW hash \in TxHash PROVE voteCounts[hash] \in 0..Len(RelayerList)
    <3>1. votes[hash] \subseteq isRelayer /\ voteCounts[hash] = Cardinality(votes[hash])
          /\ voteCounts[hash] \in Nat
      BY <1>1 DEF BridgeInv
    <3>2. Cardinality(votes[hash]) <= Cardinality(isRelayer)
      BY <3>1, RelayersFinite, FS_Subset
    <3>3. Cardinality(isRelayer) \in Nat /\ Len(RelayerList) \in Nat
      BY RelayersFinite, FS_CardinalityType, BridgeParameters
    <3> QED
      BY <3>1, <3>2, <3>3, RelayersFinite
  <2>4. voteCounts \in [TxHash -> 0..Len(RelayerList)]
    BY <1>1, <2>3 DEF BridgeInv
  <2>5. \A S \in SUBSET Hashes : S \in SUBSET TxHash
    BY <2>1
  <2>6. /\ processed_txs \in [isRelayer -> SUBSET TxHash]
        /\ state_file \in [isRelayer -> SUBSET TxHash]
        /\ proposals \in [isRelayer -> SUBSET TxHash]
    BY <1>1, <2>5 DEF BridgeInv
  <2> QED
    BY <1>1, <2>2, <2>4, <2>6 DEF BridgeInv, TypeOK
<1> QED
  BY <1>1, InitBridgeInv, NextBridgeInv, PTL DEF Spec

\* A daemon that lost its state and prints a deposit again, or an operator who
\* repeats a vote, does not count twice: as many different relayers printed what
\* is released as the threshold asks for.
THEOREM ThresholdPrinted == Spec => []ReleasedByThreshold
<1>1. ASSUME BridgeInv, NEW hash \in processedTransactions
      PROVE  Cardinality({r \in isRelayer : hash \in proposals[r]}) >= THRESHOLD
  <2> DEFINE printed == {r \in isRelayer : hash \in proposals[r]}
  <2>1. hash \in TxHash /\ votes[hash] \subseteq printed
    BY <1>1 DEF BridgeInv
  <2>2. IsFiniteSet(printed)
    BY RelayersFinite, FS_Subset
  <2> HIDE DEF printed
  <2>3. Cardinality(votes[hash]) <= Cardinality(printed)
    BY <2>1, <2>2, FS_Subset
  <2>4. Cardinality(votes[hash]) \in Nat /\ Cardinality(votes[hash]) >= THRESHOLD
    BY <1>1, <2>1 DEF BridgeInv
  <2>5. Cardinality(printed) \in Nat /\ THRESHOLD \in Nat
    BY <2>2, FS_CardinalityType, BridgeParameters
  <2>6. Cardinality(printed) >= THRESHOLD
    BY <2>3, <2>4, <2>5
  <2> QED
    BY <2>6 DEF printed
<1>2. BridgeInv => ReleasedByThreshold
  BY <1>1 DEF ReleasedByThreshold
<1> QED
  BY <1>2, InitBridgeInv, NextBridgeInv, PTL DEF Spec

\* Each step of the bridge locks coin under a hash, releases coin for a hash not
\* released before, or does nothing to the escrow.
LEMMA StepIsEscrow ==
  ASSUME BridgeInv, [Next]_vars
  PROVE  [Escrow!EscrowNext]_(Escrow!escrowVars)
<1> DEFINE paid == funded - vault
<1>1. vault \in Int /\ funded \in Int
  BY DEF BridgeInv
<1>2. CASE NewBlock \/ (\E r \in isRelayer : Scan(r) \/ Crash(r) \/ Restart(r))
  BY <1>2 DEF NewBlock, Scan, ProcessDepositEvent, Crash, Restart, bridgeVars, Hashes,
     Escrow!escrowVars
<1>3. ASSUME NEW sender \in Sender, NEW targetAddress \in Target, NEW amount \in Amounts,
             Deposit(sender, targetAddress, amount)
      PROVE  Escrow!EscrowNext
  <2>1. PICK hash \in TxHash : Hashes' = Hashes \cup {hash}
    BY <1>3, DepositAdds
  <2>2. Escrow!Lock(hash)
    BY <1>3, <2>1 DEF Deposit, bridgeVars, Escrow!Lock
  <2> QED
    BY <2>2 DEF Escrow!EscrowNext
<1>4. CASE Fund
  <2>1. paid' = paid
    BY <1>1, <1>4, BridgeParameters DEF Fund, Receive
  <2> QED
    BY <1>4, <2>1 DEF Fund, Receive, Hashes, Escrow!escrowVars
<1>5. ASSUME NEW r \in isRelayer, Vote(r) \/ VoteAsPrinted(r)
      PROVE  Escrow!EscrowNext \/ UNCHANGED Escrow!escrowVars
  <2>1. PICK hash \in proposals[r], amount \in Nat :
          \E recipient : VoteProposal(r, recipient, amount, hash)
    BY <1>5, VoteNames
  <2>2. Hashes' = Hashes
    BY <1>5, VoteNames DEF Hashes
  <2>3. /\ hash \in Hashes /\ hash \in TxHash /\ hash \notin processedTransactions
        /\ funded' = funded
        /\ \/ processedTransactions' = processedTransactions /\ vault' = vault
           \/ /\ processedTransactions' = processedTransactions \cup {hash}
              /\ vault' = vault - amount
    BY <2>1, VoteEffect
  <2>4. CASE processedTransactions' = processedTransactions /\ vault' = vault
    BY <2>2, <2>3, <2>4 DEF Escrow!escrowVars
  <2>5. CASE /\ processedTransactions' = processedTransactions \cup {hash}
             /\ vault' = vault - amount
    <3>1. paid' >= paid
      BY <1>1, <2>3, <2>5
    <3>2. Escrow!Release(hash)
      BY <2>2, <2>3, <2>5, <3>1 DEF Escrow!Release
    <3> QED
      BY <2>3, <3>2 DEF Escrow!EscrowNext
  <2> QED
    BY <2>3, <2>4, <2>5
<1>6. CASE UNCHANGED vars
  BY <1>6 DEF vars, bridgeVars, Hashes, Escrow!escrowVars
<1> QED
  BY <1>2, <1>3, <1>4, <1>5, <1>6 DEF Next

LEMMA InitIsEscrow == Init => Escrow!EscrowInit
<1> SUFFICES ASSUME Init PROVE Escrow!EscrowInit
  OBVIOUS
<1>1. Hashes = {}
  BY DEF Init, Hashes
<1> QED
  BY <1>1 DEF Init, BridgeInit, Escrow!EscrowInit

\* Whatever crashes, is scanned again, reverts or is voted for late, and whatever
\* recipients and amounts the votes name, coin leaves the vault once for a deposit
\* and for nothing else.
THEOREM BridgeIsEscrow == Spec => ImplementsEscrow
<1>1. Spec => []BridgeInv
  BY InitBridgeInv, NextBridgeInv, PTL DEF Spec
<1>2. BridgeInv /\ [Next]_vars => [Escrow!EscrowNext]_(Escrow!escrowVars)
  BY StepIsEscrow
<1> QED
  BY <1>1, <1>2, InitIsEscrow, PTL DEF Spec, ImplementsEscrow, Escrow!EscrowSpec
=============================================================================
