------------------------------ MODULE Proposals ------------------------------
(***************************************************************************)
(* The proposal registry (kai-os/ai/src/proposal.rs): what an agent        *)
(* proposes is specified and then handed to the VM, and every step is      *)
(* written to the registry's own audit pipeline (audit.rs).  Any call may  *)
(* come at any time, with any id, and again.                               *)
(*                                                                         *)
(* A proposal is its id: the hash of agent, kind and payload.              *)
(***************************************************************************)
EXTENDS Naturals, Sequences

CONSTANTS ProposalIds,
          NoProposal,       \* no proposal of this id
          MaxCalls       \* bound on calls of submit

ASSUME ProposalsAssumption ==
    NoProposal \notin {"Proposed", "Specified", "HandedToVM"} /\ MaxCalls \in Nat

VARIABLES state,         \* Proposal.state of each id
          trail,         \* AuditPipeline.events of the registry
          calls          \* counter for the bound

proposals == <<state, trail, calls>>

ProposalsInit ==
    /\ state = [id \in ProposalIds |-> NoProposal]
    /\ trail = <<>>
    /\ calls = 0

Moves(id, to, kind) ==
    /\ state' = [state EXCEPT ![id] = to]
    /\ trail' = Append(trail, [kind |-> kind, id |-> id])

\* Mutant: a proposal that comes again starts again.
SubmitAnew(id) ==
    /\ calls < MaxCalls /\ calls' = calls + 1
    /\ Moves(id, "Proposed", "proposal_submitted")

\* Idempotent: only the first submission of an id does anything.
Submit(id) ==
    /\ calls < MaxCalls /\ calls' = calls + 1
    /\ IF state[id] = NoProposal
       THEN Moves(id, "Proposed", "proposal_submitted")
       ELSE UNCHANGED <<state, trail>>

\* mark_specified and mark_handed_to_vm; in any other state they fail and
\* change nothing.
MarkSpecified(id) ==
    /\ state[id] = "Proposed"
    /\ Moves(id, "Specified", "proposal_specified")
    /\ UNCHANGED calls

MarkHandedToVm(id) ==
    /\ state[id] = "Specified"
    /\ Moves(id, "HandedToVM", "proposal_handed_to_vm")
    /\ UNCHANGED calls

ProposalsNext ==
    \E id \in ProposalIds : Submit(id) \/ MarkSpecified(id) \/ MarkHandedToVm(id)

ProposalsSpec == ProposalsInit /\ [][ProposalsNext]_proposals
----------------------------------------------------------------------------
\* Type invariant.
ProposalsTypeOK ==
    /\ state \in [ProposalIds -> {NoProposal, "Proposed", "Specified", "HandedToVM"}]
    /\ trail \in Seq([kind : {"proposal_submitted", "proposal_specified",
                              "proposal_handed_to_vm"}, id : ProposalIds])
    /\ calls \in 0..MaxCalls

\* The place of a step in the lifecycle, and how far a state is through it.
Stage(kind) ==
    CASE kind = "proposal_submitted" -> 1
      [] kind = "proposal_specified" -> 2
      [] OTHER -> 3

Reached(st) ==
    CASE st = NoProposal -> 0 [] st = "Proposed" -> 1 [] st = "Specified" -> 2 [] OTHER -> 3

\* The lifecycle "Proposed -> Specified -> HandedToVM" (proposal.rs, 2) as
\* the audit tells it: however often a proposal is submitted, its trail has
\* each step at most once, in this order, and ends where its state is.  So
\* nothing is handed to the VM twice, or without having been specified.
TrailIsLifecycle ==
    /\ \A i, j \in DOMAIN trail :
           i < j /\ trail[i].id = trail[j].id => Stage(trail[i].kind) < Stage(trail[j].kind)
    /\ \A id \in ProposalIds :
           {Stage(trail[i].kind) : i \in {j \in DOMAIN trail : trail[j].id = id}}
               = 1..Reached(state[id])
=============================================================================
