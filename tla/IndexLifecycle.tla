--------------------------- MODULE IndexLifecycle ---------------------------
(***************************************************************************)
(* The retrieval index of one memory key: the fact lists of each process,  *)
(* the tiers derived from them, the embedding index built over both, and   *)
(* the dirty mark and build lease that processes share in the key's store. *)
(*                                                                         *)
(* Granularity.  As in WriteLog: code between two awaits is one step of    *)
(* its process, unless it commits several SQLite transactions.  A build is *)
(* suspended while facts are aggregated, while texts are embedded and      *)
(* before a retry; its other phases are the transactions of one callback,  *)
(* during which LoopFree keeps the other tasks of the process out.  The    *)
(* dirty mark and the data of one client call are written together; a mark *)
(* that fails, which the code only logs, is left out.                      *)
(*                                                                         *)
(* Abstractions.  An artifact is one source with one granular fact and, if *)
(* it was asserted, one asserted consolidated fact.  Aggregation finds     *)
(* something in every source.  Every fact is embedded.  Debounce times     *)
(* are left out: nothing but the scheduler's own tick waits for them.      *)
(***************************************************************************)
EXTENDS Naturals, FiniteSets

CONSTANTS
  Artifacts,    \* artifact ids
  Servers,      \* the processes that opened this memory key
  Calls,        \* slots for build_index calls
  Host,         \* call -> the server it runs in
  MaxTries,     \* max_attempts of build_index
  Environment,  \* which of Events this deployment is exposed to
  MaxCrashes,   \* bound of the model: how many times a process dies
  Nobody

Events == {"crash", "persist_error", "raise", "slow_build",
           "retract", "purge", "redact", "reload"}

ASSUME IndexAssumption ==
  /\ Host \in [Calls -> Servers]
  /\ IsFiniteSet(Artifacts)
  /\ Nobody \notin Servers
  /\ MaxTries \in Nat \ {0}
  /\ MaxCrashes \in Nat
  /\ Environment \subseteq Events

VARIABLES
  mem,         \* _all_granular, _all_cons, _all_cross of each server
  tiersDirty,  \* _tiers_dirty
  index,       \* _data_dict
  prints,      \* _emb_fingerprints
  build,       \* what each build_index call is doing
  disk,        \* facts, fingerprints and embeddings in SQLite
  status,      \* the index_status row
  crashes

vars == <<mem, tiersDirty, index, prints, build, disk, status, crashes>>
-----------------------------------------------------------------------------
(* A purged artifact is in no list; its id is never used again.            *)
FactKinds == {"none", "active", "retracted", "redacted", "purged"}

Lists == [gran : [Artifacts -> FactKinds], asserted : SUBSET Artifacts,
          derived : SUBSET Artifacts]

NoLists == [gran |-> [a \in Artifacts |-> "none"], asserted |-> {}, derived |-> {}]

Held(L) == {a \in Artifacts : L.gran[a] \notin {"none", "purged"}}

Text(kind) == CASE kind \in {"none", "purged"} -> "none"
                [] kind = "redacted" -> "redacted"
                [] OTHER -> "text"

(* _embedding_fingerprint: the texts of the tiers, not the statuses.  An   *)
(* asserted fact is redacted together with its artifact.                   *)
Prints == [texts : [Artifacts -> {"none", "text", "redacted"}],
           asserted : SUBSET Artifacts, derived : SUBSET Artifacts]

PrintOf(L) == [texts |-> [a \in Artifacts |-> Text(L.gran[a])],
             asserted |-> L.asserted, derived |-> L.derived]

NoPrint == PrintOf(NoLists)

(* The number of vectors, or of facts, per tier.                           *)
Counts(P) == <<Cardinality({a \in Artifacts : P.texts[a] # "none"}),
               Cardinality(P.asserted), Cardinality(P.derived)>>

(* An index is made of facts and of the vectors of some texts.             *)
Indexes == [of : Prints, vectors : Prints]
NoIndex == [of |-> NoPrint, vectors |-> NoPrint]

(* "ask" to "fail": the transactions of one callback; the others await.    *)
SyncPhases == {"ask", "top", "snap", "commit", "release", "fail"}
Phases == {"idle", "aggregate", "embed", "retry"} \cup SyncPhases

Builds == [phase : Phases, try : 1..MaxTries, moved : BOOLEAN, leased : BOOLEAN,
           inputs : SUBSET Artifacts, kept : SUBSET Artifacts,
           snap : Prints, vectors : Prints]

NoBuild == [phase |-> "idle", try |-> 1, moved |-> FALSE, leased |-> FALSE,
            inputs |-> {}, kept |-> {}, snap |-> NoPrint, vectors |-> NoPrint]

Statuses == [dirty : BOOLEAN, again : BOOLEAN, backoff : BOOLEAN,
             owner : Servers \cup {Nobody}, lease : {"none", "live", "expired"}]

CallsOf(s) == {c \in Calls : Host[c] = s}

(* No callback of this server is between two of its transactions.          *)
LoopFree(s) == \A c \in CallsOf(s) : build[c].phase \notin SyncPhases

Running(c) == build[c].phase \notin {"idle", "ask"}
-----------------------------------------------------------------------------
(* mark_index_dirty; "again" is dirty_after_build.                         *)
MarkedDirty(st) == [st EXCEPT !.dirty = TRUE, !.again = @ \/ st.lease = "live"]

(* _mark_tiers_dirty on the lists: an aggregated fact carries no version   *)
(* and its source does, so _is_current_supported_cross_fact keeps none.    *)
Underived(L) == [L EXCEPT !.derived = {}]

(* _bump_index_snapshot_version, for the builds that noted the version.    *)
Bumped(s) ==
  [c \in Calls |-> IF Host[c] = s /\ build[c].phase = "embed"
                   THEN [build[c] EXCEPT !.moved = TRUE] ELSE build[c]]

(* _index_snapshot_is_stale.                                               *)
Stale(c) == tiersDirty[Host[c]] \/ build[c].moved

Saved(L, P) == [disk EXCEPT !.lists = L, !.prints = P]

(* _save_cache, which may raise and leave SQLite as it was.                *)
SaveCache(L, P) ==
  \/ disk' = Saved(L, P)
  \/ "persist_error" \in Environment /\ UNCHANGED disk

(* Artifact ids are generated: nothing in the system mentions a new one.   *)
Unused(a) == disk.lists.gran[a] = "none" /\ \A s \in Servers : mem[s].gran[a] = "none"

-----------------------------------------------------------------------------
(* Clients. *)

(* store() after its extraction: memory first, then the delta of its facts *)
(* in one transaction, then the version.  If the transaction raises, the   *)
(* version stays.                                                          *)
Store(s, a) ==
  /\ LoopFree(s) /\ Unused(a)
  /\ mem' = [mem EXCEPT ![s] = [Underived(@) EXCEPT !.gran[a] = "active"]]
  /\ tiersDirty' = [tiersDirty EXCEPT ![s] = TRUE]
  /\ index' = [index EXCEPT ![s] = NoIndex]
  /\ status' = MarkedDirty(status)
  /\ \/ /\ disk' = [disk EXCEPT !.lists.gran[a] = "active"]
        /\ build' = Bumped(s)
     \/ /\ "persist_error" \in Environment
        /\ UNCHANGED <<disk, build>>
  /\ UNCHANGED <<prints, crashes>>

(* ingest_asserted_facts up to the build it ends with.                     *)
IngestAsserted(c, a) ==
  LET s == Host[c] IN
  /\ LoopFree(s) /\ build[c].phase = "idle" /\ Unused(a)
  /\ mem' = [mem EXCEPT ![s].gran[a] = "active", ![s].asserted = @ \cup {a}]
  /\ tiersDirty' = [tiersDirty EXCEPT ![s] = FALSE]
  /\ \/ /\ disk' = Saved(mem'[s], prints[s])
        /\ build' = [Bumped(s) EXCEPT ![c].phase = "ask"]
     \/ /\ "persist_error" \in Environment
        /\ build' = Bumped(s)
        /\ UNCHANGED disk
  /\ UNCHANGED <<index, prints, status, crashes>>

(* retract(): statuses change, texts do not; the tiers are not marked.     *)
Retract(s, a) ==
  /\ "retract" \in Environment
  /\ LoopFree(s) /\ a \in Held(mem[s])
  /\ mem' = [mem EXCEPT ![s].gran[a] = IF @ = "redacted" THEN @ ELSE "retracted"]
  /\ index' = [index EXCEPT ![s] = NoIndex]
  /\ status' = MarkedDirty(status)
  /\ build' = Bumped(s)
  /\ SaveCache(mem'[s], prints[s])
  /\ UNCHANGED <<tiersDirty, prints, crashes>>

(* purge(): the artifact leaves every list.                                *)
Purge(s, a) ==
  /\ "purge" \in Environment
  /\ LoopFree(s) /\ a \in Held(mem[s])
  /\ mem' = [mem EXCEPT ![s] =
               [Underived(mem[s]) EXCEPT !.gran[a] = "purged", !.asserted = @ \ {a}]]
  /\ tiersDirty' = [tiersDirty EXCEPT ![s] = TRUE]
  /\ index' = [index EXCEPT ![s] = NoIndex]
  /\ status' = MarkedDirty(status)
  /\ build' = Bumped(s)
  /\ SaveCache(mem'[s], prints[s])
  /\ UNCHANGED <<prints, crashes>>

(* redact(): texts change in place; neither marked dirty nor versioned.    *)
Redact(s, a) ==
  /\ "redact" \in Environment
  /\ LoopFree(s) /\ a \in Held(mem[s])
  /\ mem' = [mem EXCEPT ![s].gran[a] = "redacted"]
  /\ index' = [index EXCEPT ![s] = NoIndex]
  /\ SaveCache(mem'[s], prints[s])
  /\ UNCHANGED <<tiersDirty, prints, build, status, crashes>>

(* _schedule_full_index_after_recall_if_needed.                            *)
RecallSchedules(s) ==
  /\ LoopFree(s)
  /\ status.lease # "live" /\ ~status.backoff
  /\ index[s] = NoIndex \/ status.dirty
  /\ Held(mem[s]) # {}
  /\ status' = MarkedDirty(status)
  /\ UNCHANGED <<mem, tiersDirty, index, prints, build, disk, crashes>>

(* memory_build_index, memory_flush.                                       *)
BuildRequested(c) ==
  /\ LoopFree(Host[c]) /\ build[c].phase = "idle"
  /\ build' = [build EXCEPT ![c].phase = "ask"]
  /\ UNCHANGED <<mem, tiersDirty, index, prints, disk, status, crashes>>
-----------------------------------------------------------------------------
(* build_index. *)

(* acquire_index_build_lease refuses a live lease and a backoff.           *)
Acquire(c) ==
  /\ build[c].phase = "ask"
  /\ status.lease # "live" /\ ~status.backoff
  /\ status' = [status EXCEPT !.owner = Host[c], !.lease = "live"]
  /\ build' = [build EXCEPT ![c].phase = "top", ![c].leased = TRUE]
  /\ UNCHANGED <<mem, tiersDirty, index, prints, disk, crashes>>

Skipped(c) ==
  /\ build[c].phase = "ask"
  /\ status.lease = "live" \/ status.backoff
  /\ build' = [build EXCEPT ![c] = NoBuild]
  /\ UNCHANGED <<mem, tiersDirty, index, prints, disk, status, crashes>>

(* _rebuild_tiers up to its first await: the facts to aggregate and the    *)
(* asserted facts to keep are collected now.                               *)
StartAggregation(c) ==
  LET s == Host[c] IN
  /\ build[c].phase = "top"
  /\ tiersDirty[s] /\ Held(mem[s]) # {}
  /\ build' = [build EXCEPT ![c].phase = "aggregate", ![c].inputs = Held(mem[s]),
                            ![c].kept = mem[s].asserted]
  /\ UNCHANGED <<mem, tiersDirty, index, prints, disk, status, crashes>>

(* The tiers are clean, or there is nothing to derive them from.  Empty    *)
(* lists are read again from the store; if they stay empty the build fails.*)
UseTiers(c) ==
  LET s == Host[c]
      L == IF Held(mem[s]) = {} THEN disk.lists ELSE mem[s] IN
  /\ build[c].phase = "top"
  /\ ~tiersDirty[s] \/ Held(mem[s]) = {}
  /\ tiersDirty' = [tiersDirty EXCEPT ![s] = FALSE]
  /\ mem' = [mem EXCEPT ![s] = L]
  /\ build' = [(IF Held(mem[s]) = {} THEN Bumped(s) ELSE build) EXCEPT
                 ![c].phase = IF Held(L) = {} THEN "fail" ELSE "snap"]
  /\ UNCHANGED <<index, prints, disk, status, crashes>>

(* The rest of _rebuild_tiers, and the clearing of the flag.               *)
Aggregated(c) ==
  LET s == Host[c] IN
  /\ LoopFree(s) /\ build[c].phase = "aggregate"
  /\ mem' = [mem EXCEPT ![s].asserted = build[c].kept, ![s].derived = build[c].inputs]
  /\ \/ /\ disk' = Saved(mem'[s], prints[s])
        /\ index' = [index EXCEPT ![s] = NoIndex]
        /\ tiersDirty' = [tiersDirty EXCEPT ![s] = FALSE]
        /\ build' = [Bumped(s) EXCEPT ![c].phase = "snap"]
     \/ /\ "persist_error" \in Environment
        /\ build' = [Bumped(s) EXCEPT ![c].phase = "fail"]
        /\ UNCHANGED <<disk, index, tiersDirty>>
  /\ UNCHANGED <<prints, status, crashes>>

(* Slip: as many vectors as facts is taken for a match.                    *)
CacheHitSlip(s) ==
  /\ disk.embs # NoPrint
  /\ Counts(disk.embs) = Counts(PrintOf(mem[s]))

(* The saved vectors belong to the texts of the snapshot.                  *)
CacheHit(s) ==
  /\ disk.embs # NoPrint
  /\ prints[s] = PrintOf(mem[s])
  /\ Counts(disk.embs) = Counts(PrintOf(mem[s]))

UseCache(c) ==
  LET s == Host[c] IN
  /\ build[c].phase = "snap"
  /\ CacheHit(s)
  /\ build' = [build EXCEPT ![c].phase = "commit", ![c].moved = FALSE,
                            ![c].snap = PrintOf(mem[s]), ![c].vectors = disk.embs]
  /\ UNCHANGED <<mem, tiersDirty, index, prints, disk, status, crashes>>

(* The stored facts are refreshed if they differ, then texts are embedded. *)
StartEmbedding(c) ==
  LET s == Host[c] IN
  /\ build[c].phase = "snap"
  /\ ~CacheHit(s)
  /\ \/ /\ disk' = IF disk.lists = mem[s] THEN disk ELSE Saved(mem[s], prints[s])
        /\ build' = [build EXCEPT ![c].phase = "embed", ![c].moved = FALSE,
                       ![c].snap = PrintOf(mem[s]), ![c].vectors = PrintOf(mem[s])]
     \/ /\ "persist_error" \in Environment /\ disk.lists # mem[s]
        /\ build' = [build EXCEPT ![c].phase = "fail"]
        /\ UNCHANGED disk
  /\ UNCHANGED <<mem, tiersDirty, index, prints, status, crashes>>

(* save_embeddings counts the stored facts: a mismatch is a retry.         *)
Embedded(c) ==
  /\ LoopFree(Host[c]) /\ build[c].phase = "embed"
  /\ LET matches == Counts(PrintOf(disk.lists)) = Counts(build[c].vectors) IN
     \/ /\ Stale(c) \/ ~matches
        /\ build' = [build EXCEPT ![c].phase = "retry"]
        /\ UNCHANGED disk
     \/ /\ ~Stale(c) /\ matches
        /\ disk' = [disk EXCEPT !.embs = build[c].vectors]
        /\ build' = [build EXCEPT ![c].phase = "commit"]
     \/ /\ "persist_error" \in Environment /\ ~Stale(c)
        /\ build' = [build EXCEPT ![c].phase = "fail"]
        /\ UNCHANGED disk
  /\ UNCHANGED <<mem, tiersDirty, index, prints, status, crashes>>

(* The facts of the snapshot are shared with the lists: a redaction since  *)
(* shows in them.                                                          *)
SnapshotNow(c) ==
  [build[c].snap EXCEPT !.texts = [a \in Artifacts |->
     IF @[a] = "none" THEN "none" ELSE Text(mem[Host[c]].gran[a])]]

Commit(c) ==
  LET s == Host[c] IN
  /\ build[c].phase = "commit"
  /\ index' = [index EXCEPT ![s] = [of |-> SnapshotNow(c), vectors |-> build[c].vectors]]
  /\ prints' = [prints EXCEPT ![s] = build[c].snap]
  /\ \/ /\ disk' = Saved(mem[s], build[c].snap)
        /\ build' = [build EXCEPT ![c].phase = "release"]
     \/ /\ "persist_error" \in Environment
        /\ build' = [build EXCEPT ![c].phase = "fail"]
        /\ UNCHANGED disk
  /\ UNCHANGED <<mem, tiersDirty, status, crashes>>

(* Slip: an attempt starts from the first again. *)
RetryAnew(c) ==
  /\ LoopFree(Host[c]) /\ build[c].phase = "retry"
  /\ build' = [build EXCEPT ![c] =
       [NoBuild EXCEPT !.phase = "top", !.leased = build[c].leased]]
  /\ UNCHANGED <<mem, tiersDirty, index, prints, disk, status, crashes>>

(* await asyncio.sleep(0) and the next attempt, or the last one is over.   *)
Retry(c) ==
  /\ LoopFree(Host[c]) /\ build[c].phase = "retry"
  /\ build' = [build EXCEPT ![c] =
       IF @.try < MaxTries
       THEN [NoBuild EXCEPT !.phase = "top", !.try = build[c].try + 1,
                            !.leased = build[c].leased]
       ELSE [@ EXCEPT !.phase = "fail"]]
  /\ UNCHANGED <<mem, tiersDirty, index, prints, disk, status, crashes>>

(* A model call raises, or an aggregated fact is invalid.                  *)
AwaitRaises(c) ==
  /\ "raise" \in Environment
  /\ LoopFree(Host[c]) /\ build[c].phase \in {"aggregate", "embed"}
  /\ build' = [build EXCEPT ![c].phase = "fail"]
  /\ UNCHANGED <<mem, tiersDirty, index, prints, disk, status, crashes>>

(* Slip: a late release ends the lease of whoever has it.                  *)
ReleasedSlip(st, s, next) ==
  [next EXCEPT !.owner = Nobody, !.lease = "none", !.again = FALSE]

(* release_index_build_lease does nothing for another owner.               *)
Released(st, s, next) ==
  IF st.owner # s THEN st
  ELSE [next EXCEPT !.owner = Nobody, !.lease = "none", !.again = FALSE]

Release(c) ==
  /\ build[c].phase = "release"
  /\ status' = Released(status, Host[c],
                        [status EXCEPT !.dirty = status.again, !.backoff = FALSE])
  /\ build' = [build EXCEPT ![c] = NoBuild]
  /\ UNCHANGED <<mem, tiersDirty, index, prints, disk, crashes>>

(* Slip: a failed build gives the key back as a finished one does.         *)
ReleaseFailedSlip(c) ==
  /\ build[c].phase = "fail"
  /\ status' = Released(status, Host[c],
                        [status EXCEPT !.dirty = status.again, !.backoff = TRUE])
  /\ build' = [build EXCEPT ![c] = NoBuild]
  /\ UNCHANGED <<mem, tiersDirty, index, prints, disk, crashes>>

ReleaseFailed(c) ==
  /\ build[c].phase = "fail"
  /\ status' = Released(status, Host[c],
                        [status EXCEPT !.dirty = TRUE, !.backoff = TRUE])
  /\ build' = [build EXCEPT ![c] = NoBuild]
  /\ UNCHANGED <<mem, tiersDirty, index, prints, disk, crashes>>

BuildStep(c) ==
  \/ Acquire(c) \/ Skipped(c)
  \/ StartAggregation(c) \/ UseTiers(c) \/ Aggregated(c)
  \/ UseCache(c) \/ StartEmbedding(c) \/ Embedded(c)
  \/ Commit(c) \/ Retry(c) \/ AwaitRaises(c)
  \/ Release(c) \/ ReleaseFailed(c)
-----------------------------------------------------------------------------
(* The rest of the server and of the world. *)

(* now_ms passes index_build_lease_expires_at_ms: the builder died, or its *)
(* build takes longer than the half hour of the lease.                     *)
LeaseExpires ==
  /\ status.lease = "live"
  /\ status.owner = Nobody \/ "slow_build" \in Environment
  /\ status' = [status EXCEPT !.lease = "expired"]
  /\ build' = [c \in Calls |-> IF Host[c] = status.owner
                               THEN [build[c] EXCEPT !.leased = FALSE] ELSE build[c]]
  /\ UNCHANGED <<mem, tiersDirty, index, prints, disk, crashes>>

(* now_ms passes next_index_retry_after_ms.                                *)
BackoffEnds ==
  /\ status.backoff
  /\ status' = [status EXCEPT !.backoff = FALSE]
  /\ UNCHANGED <<mem, tiersDirty, index, prints, build, disk, crashes>>

(* _reload_runtime_from_storage.                                           *)
Reload(s) ==
  /\ "reload" \in Environment
  /\ LoopFree(s)
  /\ mem' = [mem EXCEPT ![s] = Underived(disk.lists)]
  /\ index' = [index EXCEPT ![s] = NoIndex]
  /\ prints' = [prints EXCEPT ![s] = disk.prints]
  /\ build' = Bumped(s)
  /\ UNCHANGED <<tiersDirty, disk, status, crashes>>

(* What a new MemoryServer preloads: the saved vectors, if the saved       *)
(* fingerprint is that of the loaded facts.                                *)
Preloads(L) ==
  /\ disk.embs # NoPrint
  /\ disk.prints = PrintOf(L)
  /\ Counts(disk.embs) = Counts(PrintOf(L))

(* The process dies, at any point of a build, and is started again.  Its   *)
(* worker id is new, so a lease it held is nobody's until it runs out.     *)
Restart(s) ==
  LET L == Underived(disk.lists) IN
  /\ "crash" \in Environment
  /\ crashes < MaxCrashes
  /\ crashes' = crashes + 1
  /\ mem' = [mem EXCEPT ![s] = L]
  /\ tiersDirty' = [tiersDirty EXCEPT ![s] = FALSE]
  /\ index' = [index EXCEPT ![s] =
       IF Preloads(L) THEN [of |-> PrintOf(L), vectors |-> disk.embs] ELSE NoIndex]
  /\ prints' = [prints EXCEPT ![s] =
       IF Preloads(L) \/ disk.embs = NoPrint THEN disk.prints ELSE NoPrint]
  /\ build' = [c \in Calls |-> IF Host[c] = s THEN NoBuild ELSE build[c]]
  /\ status' = IF status.owner = s THEN [status EXCEPT !.owner = Nobody] ELSE status
  /\ UNCHANGED disk
-----------------------------------------------------------------------------
Init ==
  /\ mem = [s \in Servers |-> NoLists]
  /\ tiersDirty = [s \in Servers |-> FALSE]
  /\ index = [s \in Servers |-> NoIndex]
  /\ prints = [s \in Servers |-> NoPrint]
  /\ build = [c \in Calls |-> NoBuild]
  /\ disk = [lists |-> NoLists, prints |-> NoPrint, embs |-> NoPrint]
  /\ status = [dirty |-> FALSE, again |-> FALSE, backoff |-> FALSE,
               owner |-> Nobody, lease |-> "none"]
  /\ crashes = 0

ServerStep(s) ==
  \/ \E a \in Artifacts : Store(s, a) \/ Retract(s, a) \/ Purge(s, a) \/ Redact(s, a)
  \/ RecallSchedules(s)
  \/ Reload(s)
  \/ Restart(s)

Next ==
  \/ \E s \in Servers : ServerStep(s)
  \/ \E c \in Calls : \/ \E a \in Artifacts : IngestAsserted(c, a)
                      \/ BuildRequested(c)
                      \/ BuildStep(c)
  \/ LeaseExpires
  \/ BackoffEnds

Spec == Init /\ [][Next]_vars

(* asyncio resumes a runnable task again and again, model calls return.    *)
Fairness == \A c \in Calls : SF_vars(BuildStep(c))

FairSpec == Spec /\ Fairness
-----------------------------------------------------------------------------
(* Properties. *)

(* The lists, indexes, builds and the status row keep their types; in      *)
(* particular no build makes more attempts than max_attempts.              *)
TypeOK ==
  /\ mem \in [Servers -> Lists]
  /\ tiersDirty \in [Servers -> BOOLEAN]
  /\ index \in [Servers -> Indexes]
  /\ prints \in [Servers -> Prints]
  /\ build \in [Calls -> Builds]
  /\ disk \in [lists : Lists, prints : Prints, embs : Prints]
  /\ status \in Statuses
  /\ crashes \in 0..MaxCrashes

(* Every fact is searched by the vector of its own text, whatever was      *)
(* written while the vectors were computed, whether they come from a model *)
(* or from the store, and wherever between saving vectors, fingerprints    *)
(* and facts the process died.                                             *)
VectorsMatch == \A s \in Servers : index[s].of = index[s].vectors

(* The build lease admits one build: a second one, of any process, starts  *)
(* only after the lease of the first ran out, and the late release of the  *)
(* first does not end the lease of the second.                             *)
SingleFlight ==
  \A c, d \in Calls :
    Running(c) /\ Running(d) /\ build[c].leased /\ build[d].leased => c = d

(* What index_state "ready" says: the index covers exactly the facts there *)
(* are.                                                                    *)
Ready == status.lease # "live" /\ ~status.backoff /\ ~status.dirty

ReadyIsCurrent ==
  \A s \in Servers :
    (Ready /\ \A c \in CallsOf(s) : build[c].phase = "idle") =>
      index[s].of = PrintOf(mem[s])

(* An index that does not match the facts any more is being rebuilt or is  *)
(* marked to be.                                                           *)
OutdatedIsOwed ==
  \A s \in Servers :
    (index[s] # NoIndex /\ index[s].of # PrintOf(mem[s])) =>
      status.dirty \/ \E c \in CallsOf(s) : build[c].phase # "idle"

(* Nothing derived from purged content, and nothing asserted with it, is   *)
(* in any list after the purge.                                            *)
PurgedStaysGone ==
  \A s \in Servers : \A a \in Artifacts :
    mem[s].gran[a] = "purged" => a \notin mem[s].asserted \cup mem[s].derived

(* An asserted derived fact leaves the lists of a running process only by  *)
(* a purge.                                                                *)
AssertedIsKept ==
  [][\A s \in Servers : \A a \in mem[s].asserted :
       a \in mem'[s].asserted \/ mem'[s].gran[a] = "purged"]_vars

(* A finished build leaves an index whose aggregated facts cover every     *)
(* source but those that were asserted with derived facts of their own.    *)
BuiltIsAggregated ==
  \A c \in Calls : LET L == mem[Host[c]] IN
    build[c].phase = "release" => Held(L) \ L.asserted \subseteq L.derived

(* A restart keeps the aggregated facts that were saved.                   *)
DerivedSurvivesRestart ==
  [][crashes' # crashes =>
       \A s \in Servers : mem'[s] = disk.lists \/ mem'[s] = mem[s]]_vars

(* Every build ends.                                                       *)
BuildsEnd == \A c \in Calls : Running(c) ~> ~Running(c)
=============================================================================
