------------------------------ MODULE JsonRpc ------------------------------
(***************************************************************************)
(* rpc/jsonrpc_server.py and the client of the Python SDK.  The server     *)
(* keeps no state: every method answers a constant or a digest of its      *)
(* parameter, the receipt of any hash says success.                        *)
(***************************************************************************)
EXTENDS Integers, Sequences

\* self._methods
Methods ==
    {"eth_chainId", "eth_accounts", "eth_blockNumber", "eth_getBalance",
     "eth_sendRawTransaction", "eth_getTransactionByHash", "eth_getBlockByNumber",
     "eth_call", "eth_estimateGas", "eth_getLogs", "eth_feeHistory",
     "eth_getTransactionReceipt", "web3_clientVersion", "net_version"}

\* The method that raises unless its parameter is text; the other two that read
\* theirs echo whatever it is.
\* With no parameter it digests "0x".
DigestMethods == {"eth_sendRawTransaction"}

\* A member of a body: a call, or a JSON value that is not an object.
Call(method, param, id) == [object |-> TRUE, method |-> method, param |-> param, id |-> id]
NotAnObject == [object |-> FALSE]
NotAName == "an array"      \* a method that is no dict key
NoId == 0

\* One call; without an id it is taken to be 1.
dispatch(req) ==
    LET id == IF req.id = NoId THEN 1 ELSE req.id
    IN  CASE req.method \notin Methods -> [id |-> id, kind |-> "error", code |-> -32601]
          [] req.method \in DigestMethods /\ req.param = "number"
                                       -> [id |-> id, kind |-> "error", code |-> -32000]
          [] OTHER                     -> [id |-> id, kind |-> "result", code |-> 0]

ParseError == [status |-> 400, answers |-> <<>>]

\* What dispatch does not catch: a member that is no object, a method that is no name.
Raises(member) == ~member.object \/ member.method = NotAName

\* A body that parses, as the sequence of its members: when dispatch raises for one,
\* the answers to all the others are thrown away.
do_POST_rpc(batch) ==
    IF \E i \in DOMAIN batch : Raises(batch[i]) THEN ParseError
    ELSE [status |-> 200, answers |-> [i \in DOMAIN batch |-> dispatch(batch[i])]]

VARIABLES
    online,         \* the server can be reached by the client
    asked,          \* the last body, <<>> for one that does not parse
    replied,        \* what was answered to it
    returned        \* what the SDK handed to its caller

rpcVars == <<online, asked, replied, returned>>

RpcInit ==
    /\ online = TRUE
    /\ asked = <<>> /\ replied = ParseError
    /\ returned = "nothing"

Post(batch) ==
    /\ online
    /\ asked' = batch
    /\ replied' = do_POST_rpc(batch)
    /\ UNCHANGED <<online, returned>>

PostGarbled ==
    /\ online
    /\ asked' = <<>> /\ replied' = ParseError
    /\ UNCHANGED <<online, returned>>

\* PISOClient._call makes an "error" of whatever fails.
_call(method, param) ==
    IF online THEN dispatch(Call(method, param, 1)).kind ELSE "error"

\* The result or else the error, as one text: the caller cannot tell them apart.
\* stake and delegate are broadcasts of a constant.
broadcast_transaction(param) ==
    /\ returned' = _call("eth_sendRawTransaction", param)
    /\ UNCHANGED <<online, asked, replied>>

get_balance ==
    /\ returned' = IF _call("eth_getBalance", "text") = "result" THEN "result" ELSE "0x0"
    /\ UNCHANGED <<online, asked, replied>>

Reach ==
    /\ online' = ~online
    /\ UNCHANGED <<asked, replied, returned>>

RpcNext(bodies) ==
    \/ \E batch \in bodies : Post(batch)
    \/ PostGarbled
    \/ \E param \in {"text", "number"} : broadcast_transaction(param)
    \/ get_balance
    \/ Reach
=============================================================================
