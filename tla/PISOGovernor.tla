---------------------------- MODULE PISOGovernor ----------------------------
(***************************************************************************)
(* contracts/PISOGovernor.sol: anybody proposes, every account votes once  *)
(* with the coins it holds at that moment, and when the time is over a     *)
(* proposal with more votes for than against makes its call.  The fields   *)
(* canceled and startTime, the constant TIMELOCK_DELAY and the admin play  *)
(* no part in the code.                                                    *)
(***************************************************************************)
EXTENDS NativeCoin

CONSTANTS
    MaxProposals,  \* bound
    PROPOSAL_DURATION

ASSUME GovernorParameters ==
    /\ MaxProposals \in Nat
    /\ PROPOSAL_DURATION \in Nat

VARIABLES
    proposals,
    proposalCount,
    hasVoted,     \* hasVoted[id]: the accounts that have voted
    calls         \* history: how often the call of each proposal was made

governorVars == <<proposals, proposalCount, hasVoted, calls>>

ProposalId == 1 .. MaxProposals

\* A proposal without a target or without call data is executed without a call.
Target == {"none", "contract"}

Proposals == [forVotes : Nat, againstVotes : Nat, endTime : Nat,
              executed : BOOLEAN, target : Target]

\* What the mapping holds where nothing was written.
NoProposal == [forVotes |-> 0, againstVotes |-> 0, endTime |-> 0,
               executed |-> FALSE, target |-> "none"]

GovernorInit ==
    /\ proposals = [id \in ProposalId |-> NoProposal]
    /\ proposalCount = 0
    /\ hasVoted = [id \in ProposalId |-> {}]
    /\ calls = [id \in ProposalId |-> 0]

GovernorTypeOK ==
    /\ proposals \in [ProposalId -> Proposals]
    /\ proposalCount \in 0 .. MaxProposals
    /\ hasVoted \in [ProposalId -> SUBSET Account]
    /\ calls \in [ProposalId -> Nat]

CreateProposal(target) ==
    /\ proposalCount < MaxProposals
    /\ proposalCount' = proposalCount + 1
    /\ proposals' = [proposals EXCEPT ![proposalCount + 1] =
                        [forVotes |-> 0, againstVotes |-> 0,
                         endTime |-> now + PROPOSAL_DURATION,
                         executed |-> FALSE, target |-> target]]
    /\ UNCHANGED <<coinVars, hasVoted, calls>>

\* Mutant: votes are taken after the end.
CastLateVote(voter, id, support) ==
    /\ voter \notin hasVoted[id]
    /\ hasVoted' = [hasVoted EXCEPT ![id] = @ \cup {voter}]
    /\ proposals' =
          IF support
          THEN [proposals EXCEPT ![id].forVotes = @ + coins[voter]]
          ELSE [proposals EXCEPT ![id].againstVotes = @ + coins[voter]]
    /\ UNCHANGED <<coinVars, proposalCount, calls>>

CastVote(voter, id, support) ==
    /\ now <= proposals[id].endTime
    /\ voter \notin hasVoted[id]
    /\ hasVoted' = [hasVoted EXCEPT ![id] = @ \cup {voter}]
    /\ proposals' =
          IF support
          THEN [proposals EXCEPT ![id].forVotes = @ + coins[voter]]
          ELSE [proposals EXCEPT ![id].againstVotes = @ + coins[voter]]
    /\ UNCHANGED <<coinVars, proposalCount, calls>>

\* Mutant: the last moment of the vote counts as its end.
ExecutableEarly(id) ==
    /\ now >= proposals[id].endTime
    /\ ~proposals[id].executed
    /\ proposals[id].forVotes > proposals[id].againstVotes

Executable(id) ==
    /\ now > proposals[id].endTime
    /\ ~proposals[id].executed
    /\ proposals[id].forVotes > proposals[id].againstVotes

\* Mutant: executed is set only where there is no call to wait for.
ExecuteUnmarked(id) ==
    /\ Executable(id)
    /\ \/ /\ proposals[id].target = "contract"
          /\ calls' = [calls EXCEPT ![id] = @ + 1]
          /\ Calls([call |-> "execute", id |-> id])
          /\ UNCHANGED proposals
       \/ /\ proposals[id].target = "none"
          /\ proposals' = [proposals EXCEPT ![id].executed = TRUE]
          /\ UNCHANGED <<calls, frames>>
    /\ UNCHANGED <<coins, now, proposalCount, hasVoted>>

\* executeProposal, up to the call it makes.
ExecuteProposal(id) ==
    /\ Executable(id)
    /\ proposals' = [proposals EXCEPT ![id].executed = TRUE]
    /\ \/ /\ proposals[id].target = "contract"
          /\ calls' = [calls EXCEPT ![id] = @ + 1]
          /\ Calls([call |-> "execute", id |-> id])
       \/ /\ proposals[id].target = "none"
          /\ UNCHANGED <<calls, frames>>
    /\ UNCHANGED <<coins, now, proposalCount, hasVoted>>

ExecutionReturns ==
    /\ frames /= <<>> /\ Head(frames).call = "execute"
    /\ frames' = Tail(frames)
    /\ UNCHANGED <<coins, now, governorVars>>

outcome == [id \in ProposalId |->
    CASE id > proposalCount -> "none"
      [] id <= proposalCount /\ proposals[id].executed -> "executed"
      [] id <= proposalCount /\ ~proposals[id].executed /\ now <= proposals[id].endTime -> "open"
      [] OTHER -> IF proposals[id].forVotes > proposals[id].againstVotes
                  THEN "carried" ELSE "rejected"]

B == INSTANCE Ballot WITH Proposal <- ProposalId

(***************************************************************************)
(* executeProposal and castVote against the clock: a proposal is decided   *)
(* when its time is over, the decision never changes, and what was         *)
(* rejected or is still open is never executed.                            *)
(***************************************************************************)
ImplementsBallot == B!Spec

(***************************************************************************)
(* executed is set before the call, so a target that calls back into the   *)
(* governor, at any depth, never has its proposal's call made again.       *)
(***************************************************************************)
CalledOnce == \A id \in ProposalId : calls[id] <= 1

(***************************************************************************)
(* The votes that carried an executed proposal still stand in its tally:   *)
(* no vote arrives after the execution that would have changed it.         *)
(***************************************************************************)
ExecutedByVotes == \A id \in ProposalId :
    proposals[id].executed => proposals[id].forVotes > proposals[id].againstVotes
=============================================================================
