-------------------------- MODULE MC_NodeServices ---------------------------
(***************************************************************************)
(* The JSON-RPC server and the programs that run beside a chain node: the  *)
(* distributor, the event indexer, the block producer and the bundler, the *)
(* faucet service, the miners.  They share nothing, so a behaviour follows *)
(* one of them, chosen at the start; the others stand still.               *)
(***************************************************************************)
EXTENDS JsonRpc, Distributor, NodeMonitors, ProofOfWork, TLC

CONSTANT Bodies     \* bound: the bodies posted to the JSON-RPC server

VARIABLE service    \* the one this behaviour follows

vars == <<service, rpcVars, distributorVars, indexerVars, faucetVars, monitorVars, powVars>>

Services == {"rpc", "distributor", "indexer", "faucet", "monitors", "pow"}

Init ==
    /\ service \in Services
    /\ RpcInit /\ DistributorInit /\ IndexerInit /\ FaucetInit /\ MonitorInit /\ PowInit

Next ==
    /\ UNCHANGED service
    /\ \/ /\ service = "rpc"
          /\ RpcNext(Bodies)
          /\ UNCHANGED <<distributorVars, indexerVars, faucetVars, monitorVars, powVars>>
       \/ /\ service = "distributor"
          /\ DistributorNext
          /\ UNCHANGED <<rpcVars, indexerVars, faucetVars, monitorVars, powVars>>
       \/ /\ service = "indexer"
          /\ IndexerNext
          /\ UNCHANGED <<rpcVars, distributorVars, faucetVars, monitorVars, powVars>>
       \/ /\ service = "faucet"
          /\ FaucetNext
          /\ UNCHANGED <<rpcVars, distributorVars, indexerVars, monitorVars, powVars>>
       \/ /\ service = "monitors"
          /\ MonitorNext
          /\ UNCHANGED <<rpcVars, distributorVars, indexerVars, faucetVars, powVars>>
       \/ /\ service = "pow"
          /\ PowNext
          /\ UNCHANGED <<rpcVars, distributorVars, indexerVars, faucetVars, monitorVars>>

Spec == Init /\ [][Next]_vars

\* The chain node mines what it holds.
FairSpec ==
    /\ Spec
    /\ WF_vars(Mine /\ UNCHANGED <<service, rpcVars, indexerVars, faucetVars, monitorVars, powVars>>)

-----------------------------------------------------------------------------
MCMembers ==
    {Call("eth_sendRawTransaction", p, 7) : p \in {"text", "number"}}
    \cup {Call("eth_chainId", "text", NoId), Call("net_peerCount", "text", 8)}
    \cup {Call(NotAName, "text", 9), NotAnObject}
MCBodies == UNION {[1 .. n -> MCMembers] : n \in 0 .. 2}

MCLists == UNION {{<<a>>, <<a, b>>} : a \in Recipient \cup {NotAnAddress}, b \in Recipient}

MCDemoEvents == <<"0xsim_reg", "0xsim_faucet", "0xsim_pqc">>
MCLower == ("0xa" :> "0xa") @@ ("0xA" :> "0xa") @@ ("0xb" :> "0xb")

\* Hashes of three bits.  m1 finds a nonce for one bit at once and one for two
\* bits later, m2 finds one that is just enough and its digests differ.
MCKeccak == [mn \in {"m1", "m2"} \X (0 .. 2) |->
    IF mn[1] = "m1" THEN <<3, 5, 1>>[mn[2] + 1] ELSE <<4, 2, 7>>[mn[2] + 1]]
MCSha256 == [mn \in {"m1", "m2"} \X (0 .. 2) |-> <<6, 0, 3>>[mn[2] + 1]]
=============================================================================
