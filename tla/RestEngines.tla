---------------------------- MODULE RestEngines -----------------------------
(***************************************************************************)
(* The engines the REST server holds: core/jobsync_engine.py, the job      *)
(* scheduler; core/refref_referral_engine.py, campaigns, referral codes    *)
(* and the log of conversions; core/legendary_osint.py and                 *)
(* core/aisvs_security_verifier.py, which decide and keep nothing.         *)
(*                                                                         *)
(* Identifiers are cut from digests that cover the clock.  One may come    *)
(* out twice, and the later record then takes the place of the earlier     *)
(* one.                                                                    *)
(***************************************************************************)
EXTENDS Integers, FiniteSets, Sequences, Functions

\* dict[key] = value.
Entered(key, value, dict) ==
    [k \in DOMAIN dict \cup {key} |-> IF k = key THEN value ELSE dict[k]]

(* JobSync *)

CONSTANTS
    JobId,         \* what a truncated digest can be
    ActiveNodes     \* self.active_nodes, a sequence

ASSUME JobSyncParameters ==
    /\ JobId # {}
    /\ ActiveNodes \in Seq(STRING) /\ ActiveNodes # <<>>

VARIABLE tasks      \* self.tasks: JobId -> status and node, for the ids in use

\* The dict after schedule_job; the node goes round with the number of jobs.
Scheduled(ts, id) ==
    LET size == Cardinality(DOMAIN ts \cup {id})
    IN  Entered(id, [status |-> "PENDING",
                     assigned_node |-> ActiveNodes[(size % Len(ActiveNodes)) + 1]], ts)

\* Two jobs are scheduled when the server starts.
JobSyncInit == \E a, b \in JobId : tasks = Scheduled(Scheduled(<<>>, a), b)

schedule_job(id) == tasks' = Scheduled(tasks, id)

\* RUNNING is never seen: the call sleeps in between and holds its only thread.
run_task(id) ==
    /\ id \in DOMAIN tasks
    /\ tasks' = [tasks EXCEPT ![id].status = "COMPLETED"]

With(status) == Cardinality({id \in DOMAIN tasks : tasks[id].status = status})

get_queue_stats ==
    [total_tasks     |-> Cardinality(DOMAIN tasks),
     pending_tasks   |-> With("PENDING"),
     running_tasks   |-> With("RUNNING"),
     completed_tasks |-> With("COMPLETED")]

-----------------------------------------------------------------------------
(* RefRef.  RewardValue are floats, of which sums depend on the order and may   *)
(* be no number at all: they are values told apart by nothing but equality, *)
(* and an account is the sequence of what was added to it.                  *)

CONSTANTS
    CampaignId, DefaultCampaign,    \* DefaultCampaign is entered first, by __init__
    RewardValue, DefaultReward,         \* what float() returns; the reward of DefaultCampaign
    Code, Referrer,
    WrongType                       \* a value of another JSON type than the engine expects

ASSUME RefRefParameters ==
    /\ DefaultCampaign \in CampaignId
    /\ DefaultReward \in RewardValue
    /\ WrongType \notin CampaignId \cup RewardValue \cup Code \cup Referrer

VARIABLES
    campaigns,      \* self.campaigns: CampaignId -> reward_piso
    referral_codes, \* self.referral_codes: Code -> record
    conversions     \* self.conversions

refrefVars == <<campaigns, referral_codes, conversions>>

RefRefInit ==
    /\ campaigns = [id \in {DefaultCampaign} |-> DefaultReward]
    /\ referral_codes = <<>>
    /\ conversions = <<>>

\* reward_type is stored and never looked at; neither is "active".
create_campaign(id, reward_piso) ==
    /\ campaigns' = Entered(id, reward_piso, campaigns)
    /\ UNCHANGED <<referral_codes, conversions>>

\* An unknown campaign, or none, stands for the first one entered.
Selected(id) == IF id \in DOMAIN campaigns THEN id ELSE DefaultCampaign

\* created_at is the time at which the log had as many entries.
generate_referral_code(code, referrer, id) ==
    /\ referral_codes' = Entered(code, [referrer   |-> referrer,
                                        campaign   |-> Selected(id),
                                        earned     |-> <<>>,
                                        created_at |-> Len(conversions)], referral_codes)
    /\ UNCHANGED <<campaigns, conversions>>

CampaignReward(code) == campaigns[referral_codes[code].campaign]

\* Mutant: the record keeps what it earned last and forgets the rest.
CountedLast(code) ==
    referral_codes' = [referral_codes EXCEPT ![code].earned = <<CampaignReward(code)>>]

\* total_conversions, the length of earned, and total_rewards_earned_piso are updated
\* first; the event is built, and may fail, after that.
Counted(code) ==
    referral_codes' = [referral_codes EXCEPT ![code].earned = Append(@, CampaignReward(code))]

Attributed(code) ==
    /\ code \in DOMAIN referral_codes
    /\ Counted(code)
    /\ conversions' = Append(conversions,
          [code |-> code, referrer |-> referral_codes[code].referrer,
           reward |-> CampaignReward(code)])
    /\ UNCHANGED campaigns

\* referred_user_address.lower() raises after the record was updated.
CountedThenRaised(code) ==
    /\ code \in DOMAIN referral_codes
    /\ Counted(code)
    /\ UNCHANGED <<campaigns, conversions>>

\* The log of a code since its record was made.
Booked(code) ==
    {i \in DOMAIN conversions :
        i > referral_codes[code].created_at /\ conversions[i].code = code}

\* What the log calls disbursed for a code went to the referrer of its record, and
\* the record was credited with it, each reward as often as it was logged: through
\* calls that fail half way, repeated reports, codes drawn twice and campaigns
\* entered over one another.  The record may hold more, from calls that failed.
BookedIsCredited ==
    \A code \in DOMAIN referral_codes :
        LET record == referral_codes[code]
        IN  /\ \A i \in Booked(code) : conversions[i].referrer = record.referrer
            /\ \A reward \in RewardValue :
                  Cardinality({i \in Booked(code) : conversions[i].reward = reward})
                    <= Cardinality({k \in DOMAIN record.earned : record.earned[k] = reward})

-----------------------------------------------------------------------------
(* core/legendary_osint.py.  A target is [form, listed, spelling]: the form *)
(* decides which of the three inquiries is made.                            *)

investigate_address(target) ==
    [inquiry |-> "wallet",
     flagged |-> target.listed,
     level   |-> IF target.listed THEN "CRITICAL" ELSE "LOW",   \* 95, or 5 .. 39
     tag     |-> IF target.listed /\ target.spelling = "lower"
                 THEN "its own" ELSE "generic"]

inspect_infrastructure(target) ==
    [inquiry |-> "infrastructure",
     flagged |-> FALSE,
     level   |-> "LOW",             \* below 30
     tag     |-> IF target.form = "IPv4" THEN "IPv4 Address" ELSE "Domain Name"]

\* The digest is compared as typed; an e-mail address with no dot is digested first.
correlate_darkweb_leak(target) ==
    [inquiry |-> "leak",
     flagged |-> target.listed /\ target.spelling = "lower",
     level   |-> "LOW",
     tag     |-> "generic"]

generate_osint_report(target) ==
    CASE target.form = "address"             -> investigate_address(target)
      [] target.form \in {"IPv4", "domain"}  -> inspect_infrastructure(target)
      [] OTHER                               -> correlate_darkweb_leak(target)

-----------------------------------------------------------------------------
(* core/aisvs_security_verifier.py.  A prompt is [form, found]: "text" with *)
(* the patterns it contains, "empty", which asks for the report on          *)
(* chapters, or "other", which is no text and raises.                       *)

verify_prompt_security(found) == IF found = {} THEN "L3 Verified" ELSE "BLOCKED"

evaluate_aisvs_compliance == "COMPLIANT_L3"

AisvsVerify(prompt) ==
    CASE prompt.form = "empty" -> evaluate_aisvs_compliance
      [] prompt.form = "text"  -> verify_prompt_security(prompt.found)
      [] OTHER                 -> "none"
=============================================================================
