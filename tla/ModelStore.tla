----------------------------- MODULE ModelStore -----------------------------
(***************************************************************************)
(* The model registry (kai-os/ai/src/model_registry.rs) and the verified   *)
(* cache (verified_cache.rs).  Owners publish manifests; anyone puts bytes *)
(* with any manifest into the cache, which never asks the registry; what   *)
(* the cache holds may be damaged between two accesses; a put may come     *)
(* again.                                                                  *)
(*                                                                         *)
(* A content stands for its SHA-256, Damaged for bytes that are no model's *)
(* content.                                                                *)
(***************************************************************************)
EXTENDS Naturals, Sequences, FiniteSets, Functions

CONSTANTS ModelKeys,    \* pairs of id and version
          Owners, Contents,
          Damaged, Missing,
          MaxEntries    \* bound on the limit of the cache

ASSUME ModelAssumption ==
    /\ Damaged \notin Contents /\ MaxEntries \in Nat
    /\ Missing \notin [owner : Owners, sha256 : Contents]
    /\ Missing \notin [manifest : [owner : Owners, sha256 : Contents],
                      bytes : Contents \cup {Damaged}]

Manifest == [owner : Owners, sha256 : Contents]

VARIABLES max_entries,  \* VerifiedCache.max_entries
          models,       \* ModelRegistry.models: manifest of each key
          cached,       \* VerifiedCache.entries: manifest and bytes
          fifo,         \* VerifiedCache.order, oldest first
          vouched       \* history: keys last put with a manifest that publish accepted

modelStore == <<max_entries, models, cached, fifo, vouched>>

ModelStoreInit ==
    /\ max_entries \in 0..MaxEntries
    /\ models = [k \in ModelKeys |-> Missing]
    /\ cached = [k \in ModelKeys |-> Missing]
    /\ fifo = <<>>
    /\ vouched = {}

Held == {k \in ModelKeys : cached[k] # Missing}

\* Mutant: what is published later counts.
AcceptsNewer(k, m) == TRUE

\* A version that is there keeps its manifest: publish is Ok for the same
\* hash, whatever else differs, and refused otherwise.
Accepts(k, m) == models[k] = Missing

PublishModel(k, m) ==
    /\ Accepts(k, m)
    /\ models' = [models EXCEPT ![k] = m]
    /\ UNCHANGED <<max_entries, cached, fifo, vouched>>

\* publish was Ok for this manifest: the registry's own, or another one
\* with the same hash.  The cache does not know.
Trusted(k, m) == models[k] # Missing /\ models[k].sha256 = m.sha256

HashOk(manifest, bytes) == manifest.sha256 = bytes

\* Mutant: the key goes to the end of the order each time.
OrderAgain(kept, k) == Append(kept, k)

\* The order after a put of k, when kept is what the eviction left.
OrderAfter(kept, k) == IF k \in Range(kept) THEN kept ELSE Append(kept, k)

\* put.  At the limit the oldest entry goes, also when k itself is there.
Put(k, manifest, bytes) ==
    LET full == Cardinality(Held) >= max_entries /\ fifo # <<>>
        kept == IF full THEN Tail(fifo) ELSE fifo
    IN  /\ HashOk(manifest, bytes)
        /\ cached' = [j \in ModelKeys |->
                          IF j = k THEN [manifest |-> manifest, bytes |-> bytes]
                          ELSE IF full /\ j = Head(fifo) THEN Missing ELSE cached[j]]
        /\ fifo' = OrderAfter(kept, k)
        /\ vouched' = IF Trusted(k, manifest) THEN vouched \cup {k} ELSE vouched \ {k}
        /\ UNCHANGED <<max_entries, models>>

\* What tamper_for_test stands for.
Damage(k) ==
    /\ cached[k] # Missing
    /\ \E b \in (Contents \cup {Damaged}) \ {cached[k].bytes} :
           cached' = [cached EXCEPT ![k].bytes = b]
    /\ UNCHANGED <<max_entries, models, fifo, vouched>>

\* get: the bytes, checked again, or an error.
Get(k) ==
    IF cached[k] # Missing /\ HashOk(cached[k].manifest, cached[k].bytes)
    THEN cached[k].bytes ELSE Missing

ModelStoreNext ==
    \/ \E k \in ModelKeys, m \in Manifest :
           PublishModel(k, m) \/ \E bytes \in Contents : Put(k, m, bytes)
    \/ \E k \in ModelKeys : Damage(k)

ModelStoreSpec == ModelStoreInit /\ [][ModelStoreNext]_modelStore
----------------------------------------------------------------------------
\* Type invariant; the order lists each entry once, and never more of them
\* than the limit (or one, when the limit is 0).
ModelStoreTypeOK ==
    /\ max_entries \in 0..MaxEntries
    /\ models \in [ModelKeys -> Manifest \cup {Missing}]
    /\ \A k \in Held : cached[k] \in [manifest : Manifest, bytes : Contents \cup {Damaged}]
    /\ vouched \subseteq ModelKeys
    /\ fifo \in Seq(ModelKeys) /\ IsInjective(fifo)
    /\ Range(fifo) = Held
    /\ Len(fifo) <= IF max_entries = 0 THEN 1 ELSE max_entries

\* "niemals Rückgabe ungeprüfter Bytes" (verified_cache.rs, 6) and "das
\* Registry-Manifest ist die Verifikationsgrundlage" (README.md, 152): what
\* get returns is what the registry says, however manifests were published
\* again, entries evicted and put back, or bytes damaged, for every key that
\* was put with a manifest publish had accepted.  put (58-81) takes any other
\* manifest too, and get then returns what no registry knows, or what the
\* registry has another hash for.
ServedIsPublished ==
    \A k \in vouched : Get(k) # Missing => models[k] # Missing /\ Get(k) = models[k].sha256
=============================================================================
