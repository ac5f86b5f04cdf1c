------------------------------- MODULE Runtime -------------------------------
(***************************************************************************)
(* Sandboxes and their quotas (kai-os/runtime/src/sandbox.rs, resources.rs *)
(* and capability.rs).  Sandbox::execute first asks the capability, then   *)
(* books the amount with the ResourceManager that all sandboxes share.     *)
(* The operations Syscall and Sign book nothing and have no action; a call *)
(* that returns an error changes nothing and has none either.              *)
(***************************************************************************)
EXTENDS Integers

CONSTANTS Sandboxes,      \* sandbox ids
          Ports,          \* network ports
          Capabilities,   \* what builder() is asked to build
          Amounts,        \* amounts operations ask for
          UsageModulus,   \* 2^64: u64 sums are taken modulo it
          MaxGranted      \* bound on what is granted of a quota

Quotas == {"cpu", "memory", "storage"}
Directions == {"out", "in"}

CapabilitySet ==
    [limit : [Quotas -> 0..UsageModulus - 1], allow : [Directions -> SUBSET Ports]]

ASSUME RuntimeAssumption ==
    /\ UsageModulus \in Nat \ {0} /\ MaxGranted \in Nat \ {0}
    /\ Amounts \subseteq 0..UsageModulus - 1
    /\ Capabilities \subseteq CapabilitySet

VARIABLES capability,     \* the CapabilitySet of each sandbox
          usage,          \* ResourceManager.usage, zero for an id it lacks
          granted         \* history: what the accepted operations add up to

sandboxes == <<capability, usage, granted>>

ResourceUsage == [Quotas \cup Directions -> 0..UsageModulus - 1]

\* Quotas must be positive, or build() fails.
Validate(cap) == \A q \in Quotas : cap.limit[q] > 0

SandboxInit ==
    /\ capability \in [Sandboxes -> {cap \in Capabilities : Validate(cap)}]
    /\ usage = [s \in Sandboxes |-> [r \in Quotas \cup Directions |-> 0]]
    /\ granted = [s \in Sandboxes |-> [q \in Quotas |-> 0]]

\* u64 addition of a release build.
Plus(a, b) == (a + b) % UsageModulus

\* Mutant: the limit is compared with what was booked before.
FitsBefore(used, amount, limit) == used <= limit

\* The quota check of consume_cpu, alloc_memory and consume_storage.
Fits(used, amount, limit) == Plus(used, amount) <= limit

\* Operations Compute, Alloc and Store.
Consume(s, q, amount) ==
    /\ Fits(usage[s][q], amount, capability[s].limit[q])
    /\ granted[s][q] + amount <= MaxGranted
    /\ usage' = [usage EXCEPT ![s][q] = Plus(@, amount)]
    /\ granted' = [granted EXCEPT ![s][q] = @ + amount]
    /\ UNCHANGED capability

Free(s, bytes) ==
    /\ bytes <= usage[s]["memory"]
    /\ usage' = [usage EXCEPT ![s]["memory"] = @ - bytes]
    /\ granted' = [granted EXCEPT ![s]["memory"] = @ - bytes]
    /\ UNCHANGED capability

\* Operations NetworkOut and NetworkIn.
Network(s, direction, port, bytes) ==
    /\ port \in capability[s].allow[direction]
    /\ usage' = [usage EXCEPT ![s][direction] = Plus(@, bytes)]
    /\ UNCHANGED <<capability, granted>>

\* A new accounting period for all sandboxes.
ResetTick ==
    /\ usage' = [s \in Sandboxes |-> [usage[s] EXCEPT !["cpu"] = 0]]
    /\ granted' = [s \in Sandboxes |-> [granted[s] EXCEPT !["cpu"] = 0]]
    /\ UNCHANGED capability

SandboxNext ==
    \/ \E s \in Sandboxes, q \in Quotas, a \in Amounts : Consume(s, q, a)
    \/ \E s \in Sandboxes, a \in Amounts : Free(s, a)
    \/ \E s \in Sandboxes, d \in Directions, p \in Ports, a \in Amounts : Network(s, d, p, a)
    \/ ResetTick

SandboxSpec == SandboxInit /\ [][SandboxNext]_sandboxes
----------------------------------------------------------------------------
\* Type invariant; a counter never leaves the range of u64.
SandboxTypeOK ==
    /\ capability \in [Sandboxes -> Capabilities]
    /\ usage \in [Sandboxes -> ResourceUsage]
    /\ granted \in [Sandboxes -> [Quotas -> Int]]

\* "Ein Agent erhaelt NIE unbegrenzte Ressourcen" (capability.rs:2): what a
\* sandbox was granted in this period (cpu), holds now (memory) or was
\* granted ever (storage) is within its quota, or else a sum has wrapped
\* (resources.rs, 81, 103, 138) and at least 2^64 was granted.  From then on
\* the counter has forgotten multiples of 2^64, and nothing besides.
QuotaRespected ==
    \A s \in Sandboxes, q \in Quotas :
        /\ granted[s][q] \in 0..capability[s].limit[q] \/ granted[s][q] >= UsageModulus
        /\ usage[s][q] <= capability[s].limit[q]
        /\ \E wraps \in 0..granted[s][q] : granted[s][q] = usage[s][q] + wraps * UsageModulus
=============================================================================
