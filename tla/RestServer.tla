----------------------------- MODULE RestServer -----------------------------
(***************************************************************************)
(* api/rest_server.py with the engines it holds.  HTTPServer has one       *)
(* thread: it takes connections in the order they came, reads the request, *)
(* for which it waits without a limit, runs the handler and closes the     *)
(* connection.  A handler that raises closes it with no answer.            *)
(*                                                                         *)
(* The clients are external: a client that got no answer cannot tell a     *)
(* handler that raised from an answer that was lost on the way, and may    *)
(* send its request again.                                                 *)
(*                                                                         *)
(* A request is [path, body, arg]: body "json", "none", "garbled" or       *)
(* "array", JSON that is no object; arg what the endpoint reads from the   *)
(* query or the body: "text", "empty", "other" (a number or null), or a    *)
(* record where more than that matters.                                    *)
(***************************************************************************)
EXTENDS RestEngines

(* What the endpoints that keep no state answer.                            *)

OK == 200
BadRequest == 400
NotFound == 404
NoAnswer == 0    \* the handler raised: the connection is closed

\* do_GET, apart from the two endpoints that show the state of an engine.
FixedPages == {"/api/wallet/balance", "/api/staking", "/api/validator", "/api/network",
               "/api/network/info", "/api/bridge", "/api/node/status",
               "/api/v1/ironsight/telemetry", "/api/v1/l0p4map/topology",
               "/api/v1/aisvs/compliance", "/api/v1/nethermind/status", "/docs/swagger.json",
               "/api/v1/jobsync/tasks", "/api/v1/refref/stats"}

GetStatus(req) ==
    CASE req.path \in FixedPages               -> OK
      [] req.path = "/api/v1/treasury/status"  -> IF req.arg = "number" THEN OK ELSE NoAnswer
      [] OTHER                                 -> NotFound

(* do_POST, apart from the endpoints that change an engine.                 *)

Words == {12, 18, 24}

\* BIP39Mnemonic.generate raises for any other number of words, or none.
WalletCreate(words) == IF words \in Words THEN OK ELSE NoAnswer

WalletRecover(mnemonic) ==
    CASE mnemonic = "empty" -> BadRequest
      [] mnemonic = "valid" -> OK
      [] OTHER              -> NoAnswer

\* bytes.fromhex raises for a secret that is no hex text, and
\* ShamirSecretSharing.split unless 1 <= threshold <= shares <= 254.
WalletSplit(arg) ==
    IF arg.secret = "hex" /\ 1 <= arg.threshold /\ arg.threshold <= arg.shares /\ arg.shares <= 254
    THEN OK ELSE NoAnswer

\* These read one text and raise for any other value, "null" included.
TextEndpoints == {"/api/wallet/send", "/api/v1/praison/orchestrate",
                  "/api/v1/l0p4map/scan", "/api/v1/mineru/parse"}

\* These pass on whatever the body holds, or do not look at it.
AnyEndpoints == {"/api/validator/create", "/api/ai-agent", "/api/v1/nethermind/trace"}

\* body.get raises; the other endpoints and unknown paths do not look at the body.
ReadsBody(path) ==
    \/ path \in TextEndpoints \cup (AnyEndpoints \ {"/api/validator/create"})
    \/ path \in {"/api/wallet/create", "/api/wallet/recover", "/api/wallet/split",
                 "/api/v1/osint/investigate", "/api/v1/aisvs/verify"}

PostStatus(req) ==
    CASE req.body = "garbled"                   -> NoAnswer
      [] req.body = "array"                     -> IF ReadsBody(req.path) THEN NoAnswer
                                                   ELSE IF req.path \in AnyEndpoints THEN OK
                                                   ELSE NotFound
      [] req.path = "/api/wallet/create"        -> WalletCreate(req.arg)
      [] req.path = "/api/wallet/recover"       -> WalletRecover(req.arg)
      [] req.path = "/api/wallet/split"         -> WalletSplit(req.arg)
      [] req.path \in TextEndpoints             -> IF req.arg \in {"text", "empty"}
                                                   THEN OK ELSE NoAnswer
      [] req.path \in AnyEndpoints              -> OK
      [] req.path = "/api/v1/osint/investigate" -> IF req.arg.form = "other"
                                                   THEN NoAnswer ELSE OK
      [] req.path = "/api/v1/aisvs/verify"      -> IF req.arg.form = "other"
                                                   THEN NoAnswer ELSE OK
      [] OTHER                                  -> NotFound

\* What is answered beside the status, where the engine decides something.
Verdict(req) ==
    CASE req.body \in {"garbled", "array"}      -> "none"
      [] req.path = "/api/v1/osint/investigate" -> generate_osint_report(req.arg).level
      [] req.path = "/api/v1/aisvs/verify"      -> AisvsVerify(req.arg)
      [] OTHER                                  -> "none"

-----------------------------------------------------------------------------
CONSTANTS
    Client, NoClient,
    GetRequests, PostRequests,      \* requests for endpoints that keep no state
    Workloads,                      \* bound: the sets of requests a behaviour chooses from
    MaxRequests,                    \* bound: requests sent, repeated ones included
    MaxLost                         \* bound: answers lost

ASSUME ClientApart == NoClient \notin Client

\* What the handlers of the referral endpoints find in the body.
ASSUME RequestForms ==
    \A requests \in Workloads : \A req \in requests :
        /\ req.path # "none"
        /\ req.path = "/api/v1/refref/campaign/create" => req.reward \in RewardValue \cup {WrongType}
        /\ req.path = "/api/v1/refref/code/generate" => req.referrer \in Referrer \cup {WrongType}

VARIABLES
    workload,   \* what the clients of this behaviour ask for
    phase,      \* Client -> "idle", "waiting" or "unsure"
    request,    \* Client -> what it asks
    upload,     \* Client -> "pending", "whole" or "cut": how its request arrives
    backlog,    \* connections not yet accepted, in order
    serving,    \* the client of the accepted connection
    answer,     \* Client -> the last status and verdict it got
    sent,       \* history: requests sent
    lost        \* history: answers lost

clientVars == <<phase, request, upload, answer, sent, lost>>
engineVars == <<tasks, campaigns, referral_codes, conversions>>
vars == <<engineVars, clientVars, backlog, serving, workload>>

Schedule == [path |-> "/api/v1/jobsync/schedule"]
CreateCampaign(reward) == [path |-> "/api/v1/refref/campaign/create", reward |-> reward]
GenerateCode(referrer, id) ==
    [path |-> "/api/v1/refref/code/generate", referrer |-> referrer, campaign |-> id]
TrackConversion(code, user) ==
    [path |-> "/api/v1/refref/track/conversion", code |-> code, user |-> user]

Nothing == [path |-> "none"]
Unanswered == [status |-> NoAnswer, verdict |-> "none"]

Init ==
    /\ workload \in Workloads
    /\ JobSyncInit
    /\ RefRefInit
    /\ phase = [c \in Client |-> "idle"]
    /\ request = [c \in Client |-> Nothing]
    /\ upload = [c \in Client |-> "pending"]
    /\ backlog = <<>>
    /\ serving = NoClient
    /\ answer = [c \in Client |-> Unanswered]
    /\ sent = 0 /\ lost = 0

-----------------------------------------------------------------------------
(* Clients.                                                                 *)

Connect(c, req) ==
    /\ sent < MaxRequests
    /\ sent' = sent + 1
    /\ phase' = [phase EXCEPT ![c] = "waiting"]
    /\ request' = [request EXCEPT ![c] = req]
    /\ upload' = [upload EXCEPT ![c] = "pending"]
    /\ backlog' = Append(backlog, c)
    /\ answer' = [answer EXCEPT ![c] = Unanswered]
    /\ UNCHANGED <<engineVars, serving, lost>>

Ask(c, req) ==
    /\ phase[c] = "idle"
    /\ Connect(c, req)

AskAgain(c) ==
    /\ phase[c] = "unsure"
    /\ Connect(c, request[c])

GiveUp(c) ==
    /\ phase[c] = "unsure"
    /\ phase' = [phase EXCEPT ![c] = "idle"]
    /\ request' = [request EXCEPT ![c] = Nothing]
    /\ UNCHANGED <<engineVars, upload, backlog, serving, answer, sent, lost>>

\* The request arrives in full, or the client closes before that.
Upload(c, how) ==
    /\ phase[c] = "waiting" /\ upload[c] = "pending"
    /\ upload' = [upload EXCEPT ![c] = how]
    /\ UNCHANGED <<engineVars, phase, request, backlog, serving, answer, sent, lost>>

-----------------------------------------------------------------------------
(* The server.                                                              *)

Accept ==
    /\ serving = NoClient /\ backlog # <<>>
    /\ serving' = Head(backlog)
    /\ backlog' = Tail(backlog)
    /\ UNCHANGED <<engineVars, clientVars>>

\* Mutant: a handler that raises takes the server with it.
CloseOrStick(c, status, verdict) ==
    /\ serving' = IF status = NoAnswer THEN serving ELSE NoClient
    /\ phase' = [phase EXCEPT ![c] = IF status = NoAnswer THEN "waiting" ELSE "idle"]
    /\ UNCHANGED <<request, answer, lost, upload, backlog, sent>>

\* The connection ends: with an answer, which may be lost, or without one.
Close(c, status, verdict) ==
    /\ serving' = NoClient
    /\ \/ /\ status # NoAnswer
          /\ phase' = [phase EXCEPT ![c] = "idle"]
          /\ request' = [request EXCEPT ![c] = Nothing]
          /\ answer' = [answer EXCEPT ![c] = [status |-> status, verdict |-> verdict]]
          /\ UNCHANGED lost
       \/ /\ status = NoAnswer \/ lost < MaxLost
          /\ phase' = [phase EXCEPT ![c] = "unsure"]
          /\ lost' = lost + (IF status = NoAnswer THEN 0 ELSE 1)
          /\ UNCHANGED <<request, answer>>
    /\ UNCHANGED <<upload, backlog, sent>>

Read(c, path) ==
    /\ serving = c /\ upload[c] = "whole"
    /\ request[c].path = path

\* json.loads of half a body raises.
DropCut(c) ==
    /\ serving = c /\ upload[c] = "cut"
    /\ Close(c, NoAnswer, "none")
    /\ UNCHANGED engineVars

do_GET(c) ==
    /\ serving = c /\ upload[c] = "whole"
    /\ request[c] \in GetRequests
    /\ Close(c, GetStatus(request[c]), "none")
    /\ UNCHANGED engineVars

do_POST(c) ==
    /\ serving = c /\ upload[c] = "whole"
    /\ request[c] \in PostRequests
    /\ Close(c, PostStatus(request[c]), Verdict(request[c]))
    /\ UNCHANGED engineVars

PostSchedule(c, id) ==
    /\ Read(c, "/api/v1/jobsync/schedule")
    /\ schedule_job(id)
    /\ Close(c, OK, "none")
    /\ UNCHANGED refrefVars

\* float() raises for what is no number.
PostCampaign(c, id) ==
    /\ Read(c, "/api/v1/refref/campaign/create")
    /\ \/ /\ request[c].reward # WrongType
          /\ create_campaign(id, request[c].reward)
          /\ Close(c, OK, "none")
       \/ /\ request[c].reward = WrongType
          /\ Close(c, NoAnswer, "none")
          /\ UNCHANGED refrefVars
    /\ UNCHANGED tasks

\* A referrer that is no text raises, and so does a campaign that is no dict key.
PostCode(c, code) ==
    /\ Read(c, "/api/v1/refref/code/generate")
    /\ LET referrer == request[c].referrer
           id == request[c].campaign
       IN  \/ /\ referrer # WrongType /\ id # WrongType
              /\ generate_referral_code(code, referrer, id)
              /\ Close(c, OK, "none")
           \/ /\ referrer = WrongType \/ id = WrongType
              /\ Close(c, NoAnswer, "none")
              /\ UNCHANGED refrefVars
    /\ UNCHANGED tasks

\* track_conversion; an unknown code is answered with status 200, too, and one that is
\* no dict key raises at once.
PostConversion(c) ==
    /\ Read(c, "/api/v1/refref/track/conversion")
    /\ LET code == request[c].code
       IN  \/ /\ code \notin DOMAIN referral_codes
              /\ IF code = WrongType THEN Close(c, NoAnswer, "none") ELSE Close(c, OK, "ERROR")
              /\ UNCHANGED refrefVars
           \/ /\ request[c].user # WrongType
              /\ Attributed(code)
              /\ Close(c, OK, "ATTRIBUTED_AND_DISBURSED")
           \/ /\ request[c].user = WrongType
              /\ CountedThenRaised(code)
              /\ Close(c, NoAnswer, "none")
    /\ UNCHANGED tasks

\* No endpoint runs a job; a caller inside the process does.
RunTask(id) ==
    /\ Schedule \in workload
    /\ serving = NoClient
    /\ run_task(id)
    /\ UNCHANGED <<refrefVars, clientVars, backlog, serving>>

Serve ==
    \/ Accept
    \/ \E c \in Client :
          \/ DropCut(c) \/ do_GET(c) \/ do_POST(c) \/ PostConversion(c)
          \/ \E id \in JobId : PostSchedule(c, id)
          \/ \E id \in CampaignId : PostCampaign(c, id)
          \/ \E code \in Code : PostCode(c, code)

Next ==
    /\ \/ Serve
       \/ \E c \in Client :
             \/ \E req \in workload : Ask(c, req)
             \/ AskAgain(c)
             \/ GiveUp(c)
             \/ \E how \in {"whole", "cut"} : Upload(c, how)
       \/ \E id \in JobId : RunTask(id)
    /\ UNCHANGED workload

\* The server runs on.  That a request arrives in full, or its connection breaks, is up
\* to the client: the server sets no limit to the wait.
Fairness == WF_vars(Serve /\ UNCHANGED workload)

Spec == Init /\ [][Next]_vars
FairSpec == Spec /\ Fairness

-----------------------------------------------------------------------------
\* The thread waits for the rest of a request.
HeldUp == serving # NoClient /\ upload[serving] = "pending"

\* The one thing that keeps a connection waiting for ever is a request, its own or
\* that of one before it, of which the rest never comes: unless the server waits for
\* such a one for good, every connection is closed in the end, with or without an
\* answer, although handlers raise and requests break off half way.
EveryConnectionEnds ==
    []<>~HeldUp => \A c \in Client : phase[c] = "waiting" ~> phase[c] # "waiting"
=============================================================================
