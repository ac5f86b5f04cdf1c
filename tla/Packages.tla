------------------------------ MODULE Packages ------------------------------
(***************************************************************************)
(* The package manager (kai-os/pkg/src): the registry packages are         *)
(* published to, resolve, and lockfiles that are checked against the       *)
(* registry later.                                                         *)
(*                                                                         *)
(* A version is a pair of major and minor; the patch level is compared     *)
(* like the minor one.  A content stands for its SHA-256.  A call of       *)
(* resolve_inner is a record of its arguments, with path and resolved      *)
(* (here plan) as they are when it is made; inner answers the calls it     *)
(* makes in turn.  An error ends all of them.                              *)
(***************************************************************************)
EXTENDS Naturals, Sequences, FiniteSets

CONSTANTS Manifests,   \* what is published: manifest and content
          Root,        \* the package that is resolved
          NoVersion    \* no such version, no lockfile

Names == {m.name : m \in Manifests}
Versions == {m.version : m \in Manifests}

Deps(m) == {m.deps[i] : i \in DOMAIN m.deps}

ASSUME PackagesAssumption ==
    /\ Root \in Names /\ NoVersion \notin Versions
    /\ \A m \in Manifests : m.version \in Nat \X Nat /\ m.deps \in Seq(Deps(m))

VARIABLES packages,    \* PkgRegistry.packages: the entries, one per name and version
          lock         \* a Lockfile made from a plan of Root, or NoVersion

registry == <<packages, lock>>

PackagesInit == packages = {} /\ lock = NoVersion

Entry(name, version) == {m \in packages : m.name = name /\ m.version = version}

\* A version that exists is left alone: the same content is Ok, any other
\* is refused.
Publish(m) ==
    /\ Entry(m.name, m.version) = {}
    /\ packages' = packages \cup {m}
    /\ UNCHANGED lock
----------------------------------------------------------------------------
(* version.rs, best_match and highest.                                     *)

Leq(v, w) == v[1] < w[1] \/ (v[1] = w[1] /\ v[2] <= w[2])

Matches(req, v) ==
    IF req.exact THEN v = req.version
    ELSE v[1] = req.version[1] /\ Leq(req.version, v)

Highest(vs) ==
    IF vs = {} THEN NoVersion ELSE CHOOSE v \in vs : \A w \in vs : Leq(w, v)

VersionsOf(name) == {m.version : m \in {x \in packages : x.name = name}}

BestMatch(dep) == Highest({v \in VersionsOf(dep.name) : Matches(dep.req, v)})
----------------------------------------------------------------------------
(* resolve: the entries resolved so far, and why it failed, "" if not.     *)

PublishedNames == {m.name : m \in packages}
ResolveCalls == [name : PublishedNames, version : Versions,
                 path : SUBSET PublishedNames, plan : SUBSET packages]

Ok(plan) == [plan |-> plan, error |-> ""]
Failed(error) == [plan |-> {}, error |-> error]

Resolved(plan, n) == \E m \in plan : m.name = n

\* The loop over deps, from the first on: an error ends it.
ResolveDeps(entry, call, inner) ==
    LET after[i \in 0..Len(entry.deps)] ==
            IF i = 0 THEN Ok(call.plan)
            ELSE LET before == after[i - 1]
                     dep == entry.deps[i]
                 IN  IF before.error # "" THEN before
                     ELSE IF BestMatch(dep) = NoVersion THEN Failed("MissingDependency")
                     ELSE inner[[name |-> dep.name, version |-> BestMatch(dep),
                                 path |-> call.path \cup {call.name},
                                 plan |-> before.plan]]
    IN  after[Len(entry.deps)]

\* Mutant: reuse is looked for before the cycle, and entered before the
\* dependencies are.
ResolveInnerEager(call, inner) ==
    IF Resolved(call.plan, call.name) THEN Ok(call.plan)
    ELSE LET entry == CHOOSE m \in Entry(call.name, call.version) : TRUE
         IN  ResolveDeps(entry, [call EXCEPT !.plan = @ \cup {entry}], inner)

\* The version is one best_match or highest found, so that it has an entry.
ResolveInner(call, inner) ==
    IF call.name \in call.path THEN Failed("CycleDetected")
    ELSE IF Resolved(call.plan, call.name) THEN Ok(call.plan)
    ELSE LET entry == CHOOSE m \in Entry(call.name, call.version) : TRUE
             below == ResolveDeps(entry, call, inner)
         IN  IF below.error # "" THEN below ELSE Ok(below.plan \cup {entry})

\* The calls that may still be nested depth deep.  With every name on the
\* path there is a cycle.
ResolveAt ==
    LET at[depth \in 0..Cardinality(PublishedNames)] ==
            [call \in ResolveCalls |->
                IF depth = 0 THEN Failed("CycleDetected")
                ELSE ResolveInner(call, at[depth - 1])]
    IN  at

Resolve(root) ==
    LET version == Highest(VersionsOf(root))
    IN  IF version = NoVersion THEN Failed("RegistryPoisoned")
        ELSE ResolveAt[Cardinality(PublishedNames)]
                      [[name |-> root, version |-> version, path |-> {}, plan |-> {}]]
----------------------------------------------------------------------------
(* lockfile.rs: name, version and content of the packages of a plan.       *)

LockEntry(m) == [name |-> m.name, version |-> m.version, integrity |-> m.content]

FromPlan ==
    /\ Resolve(Root).error = ""
    /\ lock' = {LockEntry(m) : m \in Resolve(Root).plan}
    /\ UNCHANGED packages

\* Lockfile::verify
Verify(l) == \A e \in l : \E m \in packages : LockEntry(m) = e

PackagesNext == FromPlan \/ \E m \in Manifests : Publish(m)

PackagesSpec == PackagesInit /\ [][PackagesNext]_registry
----------------------------------------------------------------------------
(* The reference: what the dependencies ask for, as sets.                  *)

Chosen(m) == UNION {Entry(dep.name, BestMatch(dep)) : dep \in Deps(m)}

\* Everything a package reaches through at least one dependency: what is in
\* every set that holds its dependencies and, with a package, those of the
\* package.
Needs ==
    LET chosen == [m \in packages |-> Chosen(m)]
        closed == {S \in SUBSET packages : \A m \in S : chosen[m] \subseteq S}
    IN  [m \in packages |->
            {n \in packages : \A S \in closed : chosen[m] \subseteq S => n \in S}]

\* No package of the plan depends on itself, over any number of others: a
\* set of packages that each depend on one of the set is empty.
Acyclic(plan) ==
    \A S \in (SUBSET plan) \ {{}} :
        \E m \in S : \A dep \in Deps(m), n \in S : n.name # dep.name

\* Type invariant: a name and version has one entry (a BTreeMap of
\* BTreeMaps in registry.rs).
PackagesTypeOK ==
    /\ packages \subseteq Manifests
    /\ \A m, n \in packages : m.name = n.name /\ m.version = n.version => m = n
    /\ lock = NoVersion \/ \A e \in lock : e \in {LockEntry(m) : m \in Manifests}

\* "Zyklen und fehlende Dependencies werden abgewiesen" (pkg/src/lib.rs, 3),
\* and nothing else is: a plan has one version of each package, all that
\* its packages depend on, nothing that Root does not need, and no cycle;
\* an error has the cause it names.  A lockfile made from a plan verifies
\* for ever, whatever is published later.
PlanIsRight ==
    LET needs == Needs
        roots == Entry(Root, Highest(VersionsOf(Root)))
        all == roots \cup UNION {needs[m] : m \in roots}
        missing == \E m \in all : \E dep \in Deps(m) : BestMatch(dep) = NoVersion
        cycle == \E m \in all : \E n \in needs[m] : n.name = m.name
        res == Resolve(Root)
    IN  /\ res.error = "MissingDependency" => missing
        /\ res.error = "CycleDetected" => cycle
        /\ res.error = "RegistryPoisoned" <=> roots = {}
        /\ roots # {} /\ ~missing /\ ~cycle => res.error = ""
        /\ res.error = "" =>
               /\ roots \subseteq res.plan /\ res.plan \subseteq all
               /\ \A m, n \in res.plan : m.name = n.name => m = n
               /\ \A m \in res.plan : \A dep \in Deps(m) : Resolved(res.plan, dep.name)
               /\ Acyclic(res.plan)
        /\ lock # NoVersion => Verify(lock)

\* "höchste passende Version gewinnt" (pkg/src/lib.rs, 2): the version in
\* the plan matches what each package in the plan asked for.
PlanMatches ==
    LET res == Resolve(Root)
    IN  res.error = "" =>
            \A m \in res.plan : \A dep \in Deps(m) : \A n \in res.plan :
                n.name = dep.name => Matches(dep.req, n.version)
=============================================================================
