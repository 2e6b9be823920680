--------------------------- MODULE MC_RestServer ---------------------------
EXTENDS RestServer

MCNodes == <<"manila", "singapore", "tokyo">>

Get(path, arg) == [path |-> path, body |-> "none", arg |-> arg]
Post(path, arg) == [path |-> path, body |-> "json", arg |-> arg]

MCGetRequests ==
    {Get("/api/v1/jobsync/tasks", "empty"), Get("/api/v1/unknown", "empty")}
    \cup {Get("/api/v1/treasury/status", a) : a \in {"number", "text"}}

WalletRequests ==
    {Post("/api/wallet/create", w) : w \in {12, 13}}
    \cup {Post("/api/wallet/recover", m) : m \in {"empty", "valid", "invalid"}}
    \cup {Post("/api/wallet/split", [secret |-> x, threshold |-> t, shares |-> 3]) :
             x \in {"hex", "other"}, t \in {3, 4}}

TextRequests ==
    {Post("/api/wallet/send", "text"), Post("/api/wallet/send", "other"),
     Post("/api/validator/create", "empty"), Post("/api/v1/unknown", "empty"),
     [path |-> "/api/wallet/send", body |-> "garbled", arg |-> "text"],
     [path |-> "/api/wallet/send", body |-> "array", arg |-> "empty"]}

Target(form, listed, spelling) == [form |-> form, listed |-> listed, spelling |-> spelling]

AnalysisRequests ==
    {Post("/api/v1/osint/investigate", t) :
        t \in {Target("address", TRUE, "mixed"), Target("IPv4", FALSE, "lower"),
               Target("digest", TRUE, "lower"), Target("other", FALSE, "lower")}}
    \cup {Post("/api/v1/aisvs/verify", p) :
             p \in {[form |-> "text", found |-> {"jailbreak"}], [form |-> "text", found |-> {}],
                   [form |-> "empty", found |-> {}], [form |-> "other", found |-> {}]}}

MCPostRequests == WalletRequests \cup TextRequests \cup AnalysisRequests

ReferralRequests ==
    {CreateCampaign(r) : r \in {"nan", WrongType}}
    \cup {GenerateCode(r, "CMP-1") : r \in Referrer \cup {WrongType}}
    \cup {GenerateCode("r1", WrongType)}
    \cup {TrackConversion(k, "text") : k \in Code \cup {WrongType}}
    \cup {TrackConversion(k, WrongType) : k \in Code}

MCWorkloads ==
    {MCGetRequests, WalletRequests, TextRequests, AnalysisRequests,
     {Schedule}, ReferralRequests}
=============================================================================
