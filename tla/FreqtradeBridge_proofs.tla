----------------------- MODULE FreqtradeBridge_proofs -----------------------
(***************************************************************************)
(* A trade reaches the contract twice only after a hidden outcome, what is *)
(* marked has been mined, and what the daemon knows the outcome of is      *)
(* marked: for any set of trades, any number of faults and any parameters  *)
(* of the contract.                                                        *)
(***************************************************************************)
EXTENDS FreqtradeBridge, TLAPS

InFlight(t) == IF pending = t THEN 1 ELSE 0

\* The trades that will not be sent again, or whose transaction is the one waited
\* for and not lost.  A daemon whose file is unreadable keeps them while it runs,
\* and when it is down it stays down.
Settled(t) ==
    \/ waiting = t /\ (pending = t \/ answered)
    \/ t \in file
    \/ ~readable /\ (t \in submitted \/ ~running)

DoubtInv ==
    \A t \in Trade : Transactions(t) + InFlight(t) <= doubts[t] + (IF Settled(t) THEN 1 ELSE 0)

AnswerInv ==
    /\ MarkedHasAnswer
    /\ waiting # NoTrade => pending \in {waiting, NoTrade}
    /\ answered /\ waiting # NoTrade => Transactions(waiting) > 0

CountersOK ==
    /\ proofs \in [Trade -> Nat]
    /\ reverted \in [Trade -> Nat]
    /\ doubts \in [Trade -> Nat]
    /\ waiting \in Trade \cup {NoTrade}
    /\ pending \in Trade \cup {NoTrade}
    /\ running \in BOOLEAN /\ readable \in BOOLEAN /\ answered \in BOOLEAN
    /\ new_trades \subseteq Trade \ submitted
    /\ closed \subseteq Trade /\ submitted \subseteq Trade /\ file \subseteq Trade
    /\ running => file \subseteq submitted
    /\ ~running => waiting = NoTrade /\ submitted = {} /\ new_trades = {}
    /\ waiting # NoTrade => waiting \in new_trades

IInv == CountersOK /\ DoubtInv /\ AnswerInv

-----------------------------------------------------------------------------
\* The two invariants hold at the start.
LEMMA InitIInv == Init => IInv
<1> SUFFICES ASSUME Init PROVE IInv
  OBVIOUS
<1> USE BridgeParameters DEF Init, OracleInit
<1>1. CountersOK
  BY DEF CountersOK
<1>2. DoubtInv
  <2> SUFFICES ASSUME NEW t \in Trade
               PROVE  Transactions(t) + InFlight(t) <= doubts[t] + (IF Settled(t) THEN 1 ELSE 0)
    BY DEF DoubtInv
  <2>1. Transactions(t) = 0 /\ InFlight(t) = 0 /\ doubts[t] = 0
    BY DEF Transactions, InFlight
  <2> QED
    BY <2>1
<1>3. AnswerInv
  BY DEF AnswerInv, MarkedHasAnswer
<1> QED
  BY <1>1, <1>2, <1>3 DEF IInv

\* Every step of the daemon, the chain, the owner and the faults keeps them.
LEMMA NextIInv == IInv /\ [Next]_vars => IInv'
<1> SUFFICES ASSUME IInv, [Next]_vars PROVE IInv'
  OBVIOUS
<1>0. NoTrade \notin Trade
  BY BridgeParameters
<1> USE <1>0 DEF IInv, oracleVars, bridgeVars, fileVars, chainVars, historyVars
<1>1. CASE Poll
  <2>1. CountersOK'
    BY <1>1 DEF CountersOK, Poll
  <2>2. DoubtInv'
    BY <1>1 DEF CountersOK, DoubtInv, Settled, InFlight, Transactions, Poll
  <2>3. AnswerInv'
    BY <1>1 DEF CountersOK, AnswerInv, MarkedHasAnswer, Transactions, Poll
  <2> QED
    BY <2>1, <2>2, <2>3
<1>2. ASSUME NEW t \in Trade, CloseTrade(t) PROVE IInv'
  <2>1. CountersOK'
    BY <1>2 DEF CountersOK, CloseTrade
  <2>2. DoubtInv'
    BY <1>2 DEF CountersOK, DoubtInv, Settled, InFlight, Transactions, CloseTrade
  <2>3. AnswerInv'
    BY <1>2 DEF CountersOK, AnswerInv, MarkedHasAnswer, Transactions, CloseTrade
  <2> QED
    BY <2>1, <2>2, <2>3
<1>3. ASSUME NEW t \in Trade, Rehearse(t) PROVE IInv'
  <2>1. CountersOK'
    <3>1. CASE Mark(t)
      BY <1>3, <3>1 DEF CountersOK, Rehearse, Busy, Mark
    <3>2. CASE MarkUnsaved(t)
      <4>1. doubts' \in [Trade -> Nat]
        BY <3>2 DEF CountersOK, MarkUnsaved
      <4>2. CASE UNCHANGED fileVars
        BY <1>3, <3>2, <4>1, <4>2 DEF CountersOK, Rehearse, Busy, MarkUnsaved
      <4>3. CASE file' = {} /\ readable' = FALSE
        BY <1>3, <3>2, <4>1, <4>3 DEF CountersOK, Rehearse, Busy, MarkUnsaved
      <4> QED
        BY <3>2, <4>2, <4>3 DEF MarkUnsaved
    <3> QED
      BY <1>3, <3>1, <3>2 DEF Rehearse
  <2>2. DoubtInv'
    BY <1>3 DEF CountersOK, DoubtInv, Settled, InFlight, Transactions, Rehearse, Busy, Mark, MarkUnsaved
  <2>3. AnswerInv'
    BY <1>3 DEF CountersOK, AnswerInv, MarkedHasAnswer, Transactions, Rehearse, Busy, Mark, MarkUnsaved
  <2> QED
    BY <2>1, <2>2, <2>3
<1>4. ASSUME NEW t \in Trade, Send(t) PROVE IInv'
  <2>1. CountersOK'
    BY <1>4 DEF CountersOK, Send, Busy
  <2>2. DoubtInv'
    BY <1>4 DEF CountersOK, DoubtInv, Settled, InFlight, Transactions, Send, Busy
  <2>3. AnswerInv'
    BY <1>4 DEF CountersOK, AnswerInv, MarkedHasAnswer, Transactions, Send, Busy
  <2> QED
    BY <2>1, <2>2, <2>3
<1>5. ASSUME NEW t \in Trade, SendRefused(t) PROVE IInv'
  <2>1. CountersOK'
    BY <1>5 DEF CountersOK, SendRefused, Busy
  <2>2. DoubtInv'
    BY <1>5 DEF CountersOK, DoubtInv, Settled, InFlight, Transactions, SendRefused, Busy
  <2>3. AnswerInv'
    BY <1>5 DEF CountersOK, AnswerInv, MarkedHasAnswer, Transactions, SendRefused, Busy
  <2> QED
    BY <2>1, <2>2, <2>3
<1>14. ASSUME NEW t \in Trade, Skip(t) PROVE IInv'
  <2>1. CountersOK'
    BY <1>14 DEF CountersOK, Skip, Busy
  <2>2. DoubtInv'
    BY <1>14 DEF CountersOK, DoubtInv, Settled, InFlight, Transactions, Skip, Busy
  <2>3. AnswerInv'
    BY <1>14 DEF CountersOK, AnswerInv, MarkedHasAnswer, Transactions, Skip, Busy
  <2> QED
    BY <2>1, <2>2, <2>3
<1>15. CASE PollRaises
  <2>1. CountersOK'
    BY <1>15 DEF CountersOK, PollRaises
  <2>2. DoubtInv'
    BY <1>15 DEF CountersOK, DoubtInv, Settled, InFlight, Transactions, PollRaises
  <2>3. AnswerInv'
    BY <1>15 DEF CountersOK, AnswerInv, MarkedHasAnswer, Transactions, PollRaises
  <2> QED
    BY <2>1, <2>2, <2>3
<1>6. CASE Timeout
  <2>1. CountersOK'
    BY <1>6 DEF CountersOK, Timeout, Lost
  <2>2. DoubtInv'
    <3> SUFFICES ASSUME NEW t \in Trade
                 PROVE  Transactions(t)' + InFlight(t)' <= doubts'[t] + (IF Settled(t)' THEN 1 ELSE 0)
      BY DEF DoubtInv
    <3>1. Transactions(t)' = Transactions(t) /\ InFlight(t)' = InFlight(t)
      BY <1>6 DEF Timeout, Transactions, InFlight
    <3>2. Transactions(t) + InFlight(t) <= doubts[t] + (IF Settled(t) THEN 1 ELSE 0)
      BY DEF DoubtInv
    <3>3. Transactions(t) \in Nat /\ InFlight(t) \in 0..1 /\ doubts[t] \in Nat
      BY DEF CountersOK, Transactions, InFlight
    <3>4. CASE t # waiting
      <4>1. Settled(t)' = Settled(t) /\ doubts'[t] = doubts[t]
        BY <1>6, <3>4 DEF CountersOK, Settled, Timeout
      <4> QED
        BY <3>1, <3>2, <4>1
    <3>5. CASE t = waiting /\ ~Lost
      <4>1. doubts'[t] = doubts[t] + 1
        BY <1>6, <3>5 DEF CountersOK, Timeout
      <4> QED
        BY <3>1, <3>2, <3>3, <4>1
    <3>6. CASE t = waiting /\ Lost
      <4>1. doubts'[t] = doubts[t]
        BY <1>6, <3>6 DEF CountersOK, Timeout
      <4>2. ~Settled(t)
        BY <1>6, <3>6 DEF CountersOK, Settled, Timeout, Lost
      <4> QED
        BY <3>1, <3>2, <3>3, <4>1, <4>2
    <3> QED
      BY <3>4, <3>5, <3>6
  <2>3. AnswerInv'
    BY <1>6 DEF CountersOK, AnswerInv, MarkedHasAnswer, Transactions, Timeout, Lost
  <2> QED
    BY <2>1, <2>2, <2>3
<1>7. CASE Receipt
  <2>1. CountersOK'
    <3>1. CASE Mark(waiting)
      BY <1>7, <3>1 DEF CountersOK, Receipt, Mark
    <3>2. CASE MarkUnsaved(waiting)
      <4>1. doubts' \in [Trade -> Nat] /\ running
        BY <1>7, <3>2 DEF CountersOK, Receipt, MarkUnsaved
      <4>2. CASE UNCHANGED fileVars
        BY <1>7, <3>2, <4>1, <4>2 DEF CountersOK, Receipt, MarkUnsaved
      <4>3. CASE file' = {} /\ readable' = FALSE
        BY <1>7, <3>2, <4>1, <4>3 DEF CountersOK, Receipt, MarkUnsaved
      <4> QED
        BY <3>2, <4>2, <4>3 DEF MarkUnsaved
    <3> QED
      BY <1>7, <3>1, <3>2 DEF Receipt
  <2>2. DoubtInv'
    BY <1>7 DEF CountersOK, DoubtInv, Settled, InFlight, Transactions, Receipt, Mark, MarkUnsaved
  <2>3. AnswerInv'
    BY <1>7 DEF CountersOK, AnswerInv, MarkedHasAnswer, Transactions, Receipt, Mark, MarkUnsaved
  <2> QED
    BY <2>1, <2>2, <2>3
<1>8. CASE Mine
  <2>0. /\ pending \in Trade /\ pending' = NoTrade
        /\ UNCHANGED <<running, submitted, file, readable, rehearsed, waiting, doubts>>
    BY <1>8 DEF CountersOK, Mine
  <2>1. CountersOK'
    BY <1>8 DEF CountersOK, Mine, SubmitTradeProof
  <2>2. \A t \in Trade : proofs[t] + reverted[t] \in Nat
    BY DEF CountersOK
  <2>3. ASSUME NEW t \in Trade
        PROVE  proofs'[t] + reverted'[t] = proofs[t] + reverted[t] + (IF t = pending THEN 1 ELSE 0)
    BY <1>8 DEF CountersOK, Mine, SubmitTradeProof
  <2>4. DoubtInv'
    <3> SUFFICES ASSUME NEW t \in Trade
                 PROVE  proofs'[t] + reverted'[t] + 0 <= doubts[t] + (IF Settled(t)' THEN 1 ELSE 0)
      BY <2>0 DEF DoubtInv, Transactions, InFlight
    <3>1. proofs[t] + reverted[t] + (IF t = pending THEN 1 ELSE 0)
            <= doubts[t] + (IF Settled(t) THEN 1 ELSE 0)
      BY DEF DoubtInv, Transactions, InFlight
    <3>2. Settled(t) => Settled(t)'
      BY <1>8, <2>0 DEF CountersOK, AnswerInv, Settled, Mine
    <3> QED
      BY <2>2, <2>3, <3>1, <3>2 DEF CountersOK
  <2>5. MarkedHasAnswer'
    <3> SUFFICES ASSUME NEW t \in submitted \cup file, t \notin rehearsed
                 PROVE  proofs'[t] + reverted'[t] > 0
      BY <2>0 DEF MarkedHasAnswer, Transactions
    <3>1. t \in Trade /\ proofs[t] + reverted[t] > 0
      BY DEF CountersOK, AnswerInv, MarkedHasAnswer, Transactions
    <3> QED
      BY <2>2, <2>3, <3>1
  <2>6. answered' /\ waiting' # NoTrade => (Transactions(waiting))' > 0
    <3> SUFFICES ASSUME waiting = pending PROVE proofs'[pending] + reverted'[pending] > 0
      BY <1>8, <2>0 DEF Mine, Transactions
    <3> QED
      BY <2>0, <2>2, <2>3
  <2>7. AnswerInv'
    BY <2>0, <2>5, <2>6 DEF AnswerInv
  <2> QED
    BY <2>1, <2>4, <2>7
<1>9. CASE DropPending
  <2>1. CountersOK'
    BY <1>9 DEF CountersOK, DropPending
  <2>2. DoubtInv'
    BY <1>9 DEF CountersOK, DoubtInv, Settled, InFlight, Transactions, DropPending
  <2>3. AnswerInv'
    BY <1>9 DEF CountersOK, AnswerInv, MarkedHasAnswer, Transactions, DropPending
  <2> QED
    BY <2>1, <2>2, <2>3
<1>10. CASE Crash
  <2>1. CountersOK'
    <3>1. doubts' \in [Trade -> Nat]
      BY <1>10 DEF CountersOK, Crash
    <3> QED
      BY <1>10, <3>1 DEF CountersOK, Crash
  <2>2. DoubtInv'
    BY <1>10 DEF CountersOK, DoubtInv, Settled, InFlight, Transactions, Crash
  <2>3. AnswerInv'
    BY <1>10 DEF CountersOK, AnswerInv, MarkedHasAnswer, Transactions, Crash
  <2> QED
    BY <2>1, <2>2, <2>3
<1>11. CASE Restart
  <2>1. CountersOK'
    BY <1>11 DEF CountersOK, Restart
  <2>2. DoubtInv'
    BY <1>11 DEF CountersOK, DoubtInv, Settled, InFlight, Transactions, Restart
  <2>3. AnswerInv'
    BY <1>11 DEF CountersOK, AnswerInv, MarkedHasAnswer, Transactions, Restart
  <2> QED
    BY <2>1, <2>2, <2>3
<1>12. CASE AdminCall /\ UNCHANGED <<bridgeVars, fileVars, chainVars, historyVars>>
  <2>1. CountersOK'
    BY <1>12 DEF CountersOK, AdminCall, SetWorkerAuthorization, SetRewardPerProfitableTrade, SetMinProfitBps, DepositRewards, EmergencyWithdraw
  <2>2. DoubtInv'
    BY <1>12 DEF CountersOK, DoubtInv, Settled, InFlight, Transactions, AdminCall, SetWorkerAuthorization, SetRewardPerProfitableTrade, SetMinProfitBps, DepositRewards, EmergencyWithdraw
  <2>3. AnswerInv'
    BY <1>12 DEF CountersOK, AnswerInv, MarkedHasAnswer, Transactions, AdminCall, SetWorkerAuthorization, SetRewardPerProfitableTrade, SetMinProfitBps, DepositRewards, EmergencyWithdraw
  <2> QED
    BY <2>1, <2>2, <2>3
<1>13. CASE UNCHANGED vars
  <2>1. CountersOK'
    BY <1>13 DEF CountersOK, vars
  <2>2. DoubtInv'
    BY <1>13 DEF CountersOK, DoubtInv, Settled, InFlight, Transactions, vars
  <2>3. AnswerInv'
    BY <1>13 DEF CountersOK, AnswerInv, MarkedHasAnswer, Transactions, vars
  <2> QED
    BY <2>1, <2>2, <2>3
<1> QED
  BY <1>1, <1>2, <1>3, <1>4, <1>5, <1>6, <1>7, <1>8, <1>9, <1>10, <1>11, <1>12, <1>13, <1>14, <1>15
  DEF Next, Handle

LEMMA IInvAlways == Spec => []IInv
BY InitIInv, NextIInv, PTL DEF Spec

\* A trade is sent twice only after the outcome of a transaction of it was hidden
\* by a timeout, a crash or a failure to save.
THEOREM DuplicatesOnlyInDoubt == Spec => []DuplicatesNeedDoubt
<1>1. ASSUME IInv, NEW t \in Trade PROVE Transactions(t) <= 1 + doubts[t]
  <2>1. Transactions(t) \in Nat /\ InFlight(t) \in 0..1 /\ doubts[t] \in Nat
    BY <1>1 DEF IInv, CountersOK, Transactions, InFlight
  <2>2. Transactions(t) + InFlight(t) <= doubts[t] + (IF Settled(t) THEN 1 ELSE 0)
    BY <1>1 DEF IInv, DoubtInv
  <2> QED
    BY <2>1, <2>2
<1>2. IInv => DuplicatesNeedDoubt
  BY <1>1 DEF DuplicatesNeedDoubt
<1> QED
  BY <1>2, IInvAlways, PTL

\* What the daemon or its file calls submitted has been mined, or rehearsed; and an
\* outcome it learned, proof or failure, is marked in memory and in the file.
THEOREM MarksKeepAnswers == Spec => []MarksAreAnswers
<1>1. IInv => MarkedHasAnswer
  BY DEF IInv, AnswerInv
<1>2. ASSUME IInv, NEW t \in Trade, Transactions(t) > doubts[t], ~(waiting = t /\ answered)
      PROVE  (running => t \in submitted) /\ (readable => t \in file)
  <2>1. Transactions(t) \in Nat /\ doubts[t] \in Nat
    BY <1>2 DEF IInv, CountersOK, Transactions
  <2>2. Transactions(t) + InFlight(t) <= doubts[t] + (IF Settled(t) THEN 1 ELSE 0)
    BY <1>2 DEF IInv, DoubtInv
  <2>3. Settled(t) /\ pending # t
    BY <1>2, <2>1, <2>2 DEF InFlight
  <2>4. CASE t \in file
    BY <1>2, <2>4 DEF IInv, CountersOK
  <2>5. CASE ~readable /\ (t \in submitted \/ ~running)
    BY <2>5
  <2> QED
    BY <1>2, <2>3, <2>4, <2>5 DEF Settled
<1>3. IInv => AnswerIsMarked
  BY <1>2 DEF AnswerIsMarked
<1>4. IInv => MarksAreAnswers
  BY <1>1, <1>3 DEF MarksAreAnswers
<1> QED
  BY <1>4, IInvAlways, PTL

-----------------------------------------------------------------------------
\* The counters of the contract, and what the daemon has in hand.
LEMMA TypeStep == IInv /\ TypeOK /\ [Next]_vars => TypeOK'
<1> SUFFICES ASSUME IInv, TypeOK, [Next]_vars PROVE TypeOK'
  OBVIOUS
<1>0. /\ NoTrade \notin Trade
      /\ MaxVault \in Nat /\ RewardRange \subseteq Nat /\ MinBpsRange \subseteq Nat
      /\ CountersOK
  BY BridgeParameters, OracleParameters DEF IInv
<1> USE <1>0 DEF oracleVars, bridgeVars, fileVars, chainVars, historyVars
<1>1. CASE Poll
  BY <1>1 DEF CountersOK, TypeOK, Poll
<1>2. ASSUME NEW t \in Trade, CloseTrade(t) PROVE TypeOK'
  BY <1>2 DEF CountersOK, TypeOK, CloseTrade
<1>3. ASSUME NEW t \in Trade, Rehearse(t) PROVE TypeOK'
  <2>1. CASE Mark(t)
    BY <1>3, <2>1 DEF CountersOK, TypeOK, Rehearse, Busy, Mark
  <2>2. CASE MarkUnsaved(t)
    BY <1>3, <2>2 DEF CountersOK, TypeOK, Rehearse, Busy, MarkUnsaved
  <2> QED
    BY <1>3, <2>1, <2>2 DEF Rehearse
<1>4. ASSUME NEW t \in Trade, Send(t) PROVE TypeOK'
  BY <1>4 DEF CountersOK, TypeOK, Send, Busy
<1>5. ASSUME NEW t \in Trade, SendRefused(t) PROVE TypeOK'
  BY <1>5 DEF CountersOK, TypeOK, SendRefused, Busy
<1>14. ASSUME NEW t \in Trade, Skip(t) PROVE TypeOK'
  BY <1>14 DEF CountersOK, TypeOK, Skip, Busy
<1>15. CASE PollRaises
  BY <1>15 DEF CountersOK, TypeOK, PollRaises
<1>6. CASE Timeout
  BY <1>6 DEF CountersOK, TypeOK, Timeout
<1>7. CASE Receipt
  <2>1. CASE Mark(waiting)
    BY <1>7, <2>1 DEF CountersOK, TypeOK, Receipt, Mark
  <2>2. CASE MarkUnsaved(waiting)
    BY <1>7, <2>2 DEF CountersOK, TypeOK, Receipt, MarkUnsaved
  <2> QED
    BY <1>7, <2>1, <2>2 DEF Receipt
<1>8. CASE Mine
  <2>1. /\ UNCHANGED <<bridgeVars, fileVars>> /\ pending' = NoTrade /\ pending \in Trade
        /\ authorized' = authorized
    BY <1>8 DEF CountersOK, Mine, SubmitTradeProof
  <2>2. CASE SubmitTradeProof(pending) /\ UNCHANGED reverted
    <3>1. proofs' = [proofs EXCEPT ![pending] = @ + 1] /\ proofs' \in [Trade -> Nat]
      BY <2>1, <2>2 DEF CountersOK, SubmitTradeProof
    <3>2. \/ rewards' = rewards /\ vault' = vault
          \/ /\ rewards' = [rewards EXCEPT ![pending] = @ + 1]
             /\ vault' = vault - rewardPerProfitableTrade /\ vault >= rewardPerProfitableTrade
      BY <2>2 DEF SubmitTradeProof
    <3>3. rewardPerProfitableTrade \in Nat
      BY DEF TypeOK
    <3>4. rewards' \in [Trade -> Nat] /\ \A t \in Trade : rewards'[t] <= proofs'[t]
      BY <2>1, <3>1, <3>2 DEF CountersOK, TypeOK
    <3>5. vault' \in 0 .. MaxVault
      BY <3>2, <3>3 DEF TypeOK
    <3> QED
      BY <2>1, <2>2, <3>1, <3>4, <3>5 DEF TypeOK, SubmitTradeProof
  <2>3. CASE reverted' = [reverted EXCEPT ![pending] = @ + 1] /\ UNCHANGED oracleVars
    <3>1. reverted' \in [Trade -> Nat]
      BY <2>1, <2>3 DEF CountersOK
    <3> QED
      BY <2>1, <2>3, <3>1 DEF TypeOK
  <2> QED
    BY <1>8, <2>2, <2>3 DEF Mine
<1>9. CASE DropPending
  BY <1>9 DEF CountersOK, TypeOK, DropPending
<1>10. CASE Crash
  BY <1>10 DEF CountersOK, TypeOK, Crash
<1>11. CASE Restart
  BY <1>11 DEF CountersOK, TypeOK, Restart
<1>12. CASE AdminCall /\ UNCHANGED <<bridgeVars, fileVars, chainVars, historyVars>>
  <2>1. UNCHANGED <<closed, running, dry_run, oracle, submitted, new_trades, waiting, file,
                    readable, pending, reverted, proofs, rewards>>
    BY <1>12 DEF AdminCall, SetWorkerAuthorization, SetRewardPerProfitableTrade,
       SetMinProfitBps, DepositRewards, EmergencyWithdraw
  <2>2. vault' \in 0 .. MaxVault
    BY <1>12 DEF TypeOK, AdminCall, SetWorkerAuthorization, SetRewardPerProfitableTrade,
       SetMinProfitBps, DepositRewards, EmergencyWithdraw
  <2>3. authorized' \in BOOLEAN
    BY <1>12 DEF TypeOK, AdminCall, SetWorkerAuthorization, SetRewardPerProfitableTrade,
       SetMinProfitBps, DepositRewards, EmergencyWithdraw
  <2>4. rewardPerProfitableTrade' \in Nat /\ minProfitBps' \in Nat
    BY <1>12 DEF TypeOK, AdminCall, SetWorkerAuthorization, SetRewardPerProfitableTrade,
       SetMinProfitBps, DepositRewards, EmergencyWithdraw
  <2> QED
    BY <2>1, <2>2, <2>3, <2>4 DEF TypeOK
<1>13. CASE UNCHANGED vars
  BY <1>13 DEF TypeOK, vars
<1> QED
  BY <1>1, <1>2, <1>3, <1>4, <1>5, <1>6, <1>7, <1>8, <1>9, <1>10, <1>11, <1>12, <1>13, <1>14, <1>15
  DEF Next, Handle

\* Types, and the order of the lists: what is marked, waited for or pending was
\* closed, what is left of a poll is not yet marked, and no trade was rewarded more
\* often than proved.
THEOREM TypeCorrect == Spec => []TypeOK
<1>1. Init => TypeOK
  BY BridgeParameters, OracleParameters DEF Init, OracleInit, TypeOK
<1> QED
  BY <1>1, IInvAlways, TypeStep, PTL DEF Spec
=============================================================================
