------------------------ MODULE IndexLifecycleProofs ------------------------
(***************************************************************************)
(* Theorems about IndexLifecycle, for any artifacts, calls and number of   *)
(* attempts.                                                               *)
(*                                                                         *)
(*   LeaseInv   the lease is with a build that runs, and the status row    *)
(*              names its process;                                         *)
(*   ReadyInv   what a build has read is what there is, or it knows that   *)
(*              it is not; between builds an outdated index is marked;     *)
(*   VectorInv  what the saved fingerprints mention is in the lists or was *)
(*              purged.  So one of as many facts as there are vectors is   *)
(*              that of the vectors, or of lists that held something       *)
(*              purged since and will not be those of a build again.       *)
(*                                                                         *)
(* ReadyInv and VectorInv are about one process, and both use that only    *)
(* one build runs.  Each theorem names the events that break it.           *)
(***************************************************************************)
EXTENDS IndexLifecycle, FiniteSetTheorems, TLAPS
-----------------------------------------------------------------------------
LEMMA ListsAre ==
  ASSUME NEW L \in Lists
  PROVE  /\ Underived(L) \in Lists /\ Underived(L).gran = L.gran
         /\ Underived(L).asserted = L.asserted /\ Underived(L).derived = {}
         /\ Held(L) \subseteq Artifacts /\ PrintOf(L) \in Prints
<1>1. /\ Underived(L) \in Lists /\ Underived(L).gran = L.gran
      /\ Underived(L).asserted = L.asserted /\ Underived(L).derived = {}
  BY DEF Lists, Underived
<1>2. PrintOf(L) \in Prints
  <2>1. \A a \in Artifacts : L.gran[a] \in FactKinds
    BY DEF Lists
  <2>2. \A kind \in FactKinds : Text(kind) \in {"none", "text", "redacted"}
    BY DEF FactKinds, Text
  <2>. QED  BY <2>1, <2>2 DEF PrintOf, Prints, Lists
<1>. QED  BY <1>1, <1>2 DEF Held

LEMMA NoneAre ==
  NoLists \in Lists /\ NoPrint \in Prints /\ NoIndex \in Indexes /\ NoBuild \in Builds
<1>1. NoLists \in Lists
  BY DEF NoLists, Lists, FactKinds
<1>2. NoPrint \in Prints
  BY <1>1, ListsAre DEF NoPrint
<1>3. 1 \in 1..MaxTries
  BY IndexAssumption
<1>. QED  BY <1>1, <1>2, <1>3 DEF NoIndex, Indexes, NoBuild, Builds, Phases

(* A build, with some of its fields changed. *)
LEMMA BuildWith ==
  ASSUME NEW b \in Builds
  PROVE  /\ \A ph \in Phases : [b EXCEPT !.phase = ph] \in Builds
         /\ [b EXCEPT !.moved = TRUE] \in Builds
         /\ [b EXCEPT !.leased = FALSE] \in Builds
         /\ \A ph \in Phases : [b EXCEPT !.phase = ph, !.leased = TRUE] \in Builds
         /\ \A ph \in Phases : \A P, V \in Prints :
              [b EXCEPT !.phase = ph, !.moved = FALSE, !.snap = P, !.vectors = V] \in Builds
         /\ \A ph \in Phases : \A I, K \in SUBSET Artifacts :
              [b EXCEPT !.phase = ph, !.inputs = I, !.kept = K] \in Builds
BY DEF Builds

LEMMA BumpedIs ==
  ASSUME build \in [Calls -> Builds], NEW s
  PROVE  /\ Bumped(s) \in [Calls -> Builds]
         /\ \A c \in Calls : Bumped(s)[c] \in {build[c], [build[c] EXCEPT !.moved = TRUE]}
         /\ \A c \in Calls : build[c].phase # "embed" \/ Host[c] # s => Bumped(s)[c] = build[c]
         /\ \A c \in Calls : build[c].phase = "embed" /\ Host[c] = s => Bumped(s)[c].moved
         /\ \A c \in Calls : /\ Bumped(s)[c].phase = build[c].phase
                             /\ Bumped(s)[c].leased = build[c].leased
                             /\ Bumped(s)[c].snap = build[c].snap
                             /\ Bumped(s)[c].vectors = build[c].vectors
                             /\ Bumped(s)[c].kept = build[c].kept
                             /\ Bumped(s)[c].inputs = build[c].inputs
<1>1. \A c \in Calls : /\ build[c] \in Builds
                       /\ [build[c] EXCEPT !.moved = TRUE].phase = build[c].phase
                       /\ [build[c] EXCEPT !.moved = TRUE].leased = build[c].leased
                       /\ [build[c] EXCEPT !.moved = TRUE].snap = build[c].snap
                       /\ [build[c] EXCEPT !.moved = TRUE].vectors = build[c].vectors
                       /\ [build[c] EXCEPT !.moved = TRUE].kept = build[c].kept
                       /\ [build[c] EXCEPT !.moved = TRUE].inputs = build[c].inputs
  BY DEF Builds
<1>2. \A c \in Calls : Bumped(s)[c] \in {build[c], [build[c] EXCEPT !.moved = TRUE]}
  BY DEF Bumped
<1>3. Bumped(s) \in [Calls -> Builds]
  BY <1>1, BuildWith DEF Bumped
<1>4. \A c \in Calls : build[c].phase # "embed" \/ Host[c] # s => Bumped(s)[c] = build[c]
  BY DEF Bumped
<1>5. \A c \in Calls : build[c].phase = "embed" /\ Host[c] = s => Bumped(s)[c].moved
  BY <1>1 DEF Bumped, Builds
<1>. QED  BY <1>1, <1>2, <1>3, <1>4, <1>5

LEMMA StatusWith ==
  ASSUME NEW st \in Statuses
  PROVE  /\ MarkedDirty(st) \in Statuses
         /\ \A s \in Servers : [st EXCEPT !.owner = s, !.lease = "live"] \in Statuses
         /\ [st EXCEPT !.lease = "expired"] \in Statuses
         /\ [st EXCEPT !.owner = Nobody] \in Statuses
         /\ [st EXCEPT !.backoff = FALSE] \in Statuses
         /\ [st EXCEPT !.dirty = st.again, !.backoff = FALSE] \in Statuses
         /\ [st EXCEPT !.dirty = TRUE, !.backoff = TRUE] \in Statuses
         /\ \A s : \A next \in Statuses : Released(st, s, next) \in Statuses
BY DEF Statuses, MarkedDirty, Released

Disks == [lists : Lists, prints : Prints, embs : Prints]

LEMMA DiskWith ==
  ASSUME disk \in Disks
  PROVE  /\ \A L \in Lists, P \in Prints : Saved(L, P) \in Disks
         /\ \A P \in Prints : [disk EXCEPT !.embs = P] \in Disks
         /\ \A a \in Artifacts : [disk EXCEPT !.lists.gran[a] = "active"] \in Disks
<1>1. \A a \in Artifacts : [disk.lists EXCEPT !.gran[a] = "active"] \in Lists
  BY DEF Disks, Lists, FactKinds
<1>2. \A a \in Artifacts : [disk EXCEPT !.lists.gran[a] = "active"]
                          = [disk EXCEPT !.lists = [disk.lists EXCEPT !.gran[a] = "active"]]
  BY DEF Disks
<1>. QED  BY <1>1, <1>2 DEF Disks, Saved

LEMMA TypeStep == ASSUME TypeOK, [Next]_vars PROVE TypeOK'
<1>. USE NoneAre
<1>. DEFINE Goal == TypeOK'
<1>1. disk \in Disks /\ status \in Statuses /\ Host \in [Calls -> Servers]
  BY IndexAssumption DEF TypeOK, Disks
<1>2. \A s \in Servers : Underived(mem[s]) \in Lists /\ Held(mem[s]) \subseteq Artifacts
                        /\ PrintOf(mem[s]) \in Prints
  BY ListsAre DEF TypeOK
<1>3. \A c \in Calls : build[c] \in Builds
  BY DEF TypeOK
<1>4. \A s : Bumped(s) \in [Calls -> Builds]
  BY BumpedIs DEF TypeOK
<1>5. ASSUME NEW s \in Servers, NEW a \in Artifacts, Store(s, a) PROVE Goal
  <2>1. [Underived(mem[s]) EXCEPT !.gran[a] = "active"] \in Lists
    BY <1>2 DEF Lists, FactKinds
  <2>2. mem' \in [Servers -> Lists] /\ tiersDirty' \in [Servers -> BOOLEAN] /\ index' \in [Servers -> Indexes]
    BY <1>5, <2>1 DEF Store, TypeOK
  <2>3. status' \in Statuses
    BY <1>1, <1>5, StatusWith DEF Store
  <2>4. disk' \in Disks /\ build' \in [Calls -> Builds]
    BY <1>1, <1>4, <1>5, DiskWith DEF Store, TypeOK
  <2>. QED  BY <1>5, <2>2, <2>3, <2>4 DEF Store, TypeOK, Disks
<1>6. ASSUME NEW c \in Calls, NEW a \in Artifacts, IngestAsserted(c, a) PROVE Goal
  <2>. DEFINE s == Host[c]
  <2>1. s \in Servers
    BY <1>1
  <2>2. [mem[s] EXCEPT !.gran[a] = "active", !.asserted = @ \cup {a}] \in Lists
    BY <2>1 DEF TypeOK, Lists, FactKinds
  <2>3. mem' = [mem EXCEPT ![s] = [mem[s] EXCEPT !.gran[a] = "active", !.asserted = @ \cup {a}]]
    BY <1>6, <2>1 DEF IngestAsserted, TypeOK
  <2>4. mem' \in [Servers -> Lists] /\ tiersDirty' \in [Servers -> BOOLEAN]
    BY <1>6, <2>1, <2>2, <2>3 DEF IngestAsserted, TypeOK
  <2>5. disk' \in Disks
    BY <1>1, <1>6, <2>1, <2>4, DiskWith DEF IngestAsserted, TypeOK
  <2>6. build' \in [Calls -> Builds]
    <3>1. [Bumped(s) EXCEPT ![c].phase = "ask"] \in [Calls -> Builds]
      BY <1>4, BuildWith DEF Phases, SyncPhases
    <3>. QED  BY <1>4, <1>6, <3>1 DEF IngestAsserted
  <2>. QED  BY <1>6, <2>4, <2>5, <2>6 DEF IngestAsserted, TypeOK, Disks
<1>7. ASSUME NEW s \in Servers, NEW a \in Artifacts, NEW kind \in FactKinds,
             mem' = [mem EXCEPT ![s].gran[a] = kind],
             index' = [index EXCEPT ![s] = NoIndex], SaveCache(mem'[s], prints[s]),
             status' = status \/ status' = MarkedDirty(status),
             build' = build \/ build' = Bumped(s), UNCHANGED <<tiersDirty, prints, crashes>>
      PROVE  Goal
  <2>1. [mem[s] EXCEPT !.gran[a] = kind] \in Lists
    BY DEF TypeOK, Lists
  <2>2. mem' \in [Servers -> Lists] /\ index' \in [Servers -> Indexes]
    BY <1>7, <2>1 DEF TypeOK
  <2>3. disk' \in Disks
    BY <1>1, <1>7, <2>2, DiskWith DEF SaveCache, TypeOK
  <2>4. status' \in Statuses /\ build' \in [Calls -> Builds]
    BY <1>1, <1>4, <1>7, StatusWith DEF TypeOK
  <2>. QED  BY <1>7, <2>2, <2>3, <2>4 DEF TypeOK, Disks
<1>8. ASSUME NEW s \in Servers, NEW a \in Artifacts, Retract(s, a) PROVE Goal
  <2>1. PICK kind \in FactKinds : mem' = [mem EXCEPT ![s].gran[a] = kind]
    BY <1>8 DEF Retract, FactKinds
  <2>. QED  BY <1>7, <1>8, <2>1 DEF Retract
<1>9. ASSUME NEW s \in Servers, NEW a \in Artifacts, Redact(s, a) PROVE Goal
  BY <1>7, <1>9 DEF Redact, FactKinds
<1>10. ASSUME NEW s \in Servers, NEW a \in Artifacts, Purge(s, a) PROVE Goal
  <2>1. [Underived(mem[s]) EXCEPT !.gran[a] = "purged", !.asserted = @ \ {a}] \in Lists
    BY <1>2 DEF Lists, FactKinds
  <2>2. mem' = [mem EXCEPT ![s] = [Underived(mem[s]) EXCEPT !.gran[a] = "purged", !.asserted = @ \ {a}]]
    BY <1>10 DEF Purge
  <2>3. mem' \in [Servers -> Lists]
    BY <2>1, <2>2 DEF TypeOK
  <2>4. index' \in [Servers -> Indexes] /\ tiersDirty' \in [Servers -> BOOLEAN]
    BY <1>10 DEF Purge, TypeOK
  <2>5. disk' \in Disks
    <3>1. disk' = Saved(mem'[s], prints[s]) \/ disk' = disk
      BY <1>10 DEF Purge, SaveCache
    <3>2. mem'[s] \in Lists /\ prints[s] \in Prints
      BY <2>3 DEF TypeOK
    <3>. QED  BY <1>1, <3>1, <3>2, DiskWith
  <2>6. status' \in Statuses /\ build' \in [Calls -> Builds]
    BY <1>1, <1>4, <1>10, StatusWith DEF Purge
  <2>. QED  BY <1>10, <2>3, <2>4, <2>5, <2>6 DEF Purge, TypeOK, Disks
<1>11. ASSUME NEW s \in Servers, RecallSchedules(s) PROVE Goal
  BY <1>1, <1>11, StatusWith DEF RecallSchedules, TypeOK
<1>12. ASSUME NEW s \in Servers, Reload(s) PROVE Goal
  <2>1. Underived(disk.lists) \in Lists
    BY <1>1, ListsAre DEF Disks
  <2>. QED  BY <1>1, <1>4, <1>12, <2>1 DEF Reload, TypeOK, Disks
<1>13. ASSUME NEW s \in Servers, Restart(s) PROVE Goal
  <2>. DEFINE L == Underived(disk.lists)
  <2>1. L \in Lists /\ PrintOf(L) \in Prints
    BY <1>1, ListsAre DEF Disks
  <2>. HIDE DEF L
  <2>2. mem' = [mem EXCEPT ![s] = L] /\ tiersDirty' = [tiersDirty EXCEPT ![s] = FALSE]
        /\ index' = [index EXCEPT ![s] = IF Preloads(L) THEN [of |-> PrintOf(L), vectors |-> disk.embs] ELSE NoIndex]
        /\ prints' = [prints EXCEPT ![s] = IF Preloads(L) \/ disk.embs = NoPrint THEN disk.prints ELSE NoPrint]
        /\ build' = [c \in Calls |-> IF Host[c] = s THEN NoBuild ELSE build[c]]
        /\ status' = (IF status.owner = s THEN [status EXCEPT !.owner = Nobody] ELSE status)
        /\ crashes < MaxCrashes /\ crashes' = crashes + 1 /\ disk' = disk
    BY <1>13 DEF Restart, L
  <2>3. [of |-> PrintOf(L), vectors |-> disk.embs] \in Indexes
    BY <1>1, <2>1 DEF Indexes, Disks
  <2>4. index' \in [Servers -> Indexes] /\ prints' \in [Servers -> Prints]
    BY <1>1, <2>2, <2>3 DEF TypeOK, Disks
  <2>5. status' \in Statuses
    BY <1>1, <2>2, StatusWith
  <2>6. crashes' \in 0..MaxCrashes
    BY <2>2, IndexAssumption DEF TypeOK
  <2>7. build' \in [Calls -> Builds]
    BY <1>3, <2>2
  <2>8. mem' \in [Servers -> Lists] /\ tiersDirty' \in [Servers -> BOOLEAN]
    BY <2>1, <2>2 DEF TypeOK
  <2>. QED  BY <2>2, <2>4, <2>5, <2>6, <2>7, <2>8 DEF TypeOK
<1>14. ASSUME LeaseExpires \/ BackoffEnds PROVE Goal
  <2>1. status' \in Statuses
    BY <1>1, <1>14, StatusWith DEF LeaseExpires, BackoffEnds
  <2>2. build' \in [Calls -> Builds]
    BY <1>3, <1>14, BuildWith DEF LeaseExpires, BackoffEnds, TypeOK
  <2>. QED  BY <1>14, <2>1, <2>2 DEF LeaseExpires, BackoffEnds, TypeOK
(* Steps that change the build and, if at all, the status. *)
<1>15. ASSUME build' \in [Calls -> Builds], status' \in Statuses,
              UNCHANGED <<mem, tiersDirty, index, prints, disk, crashes>>
       PROVE  Goal
  BY <1>15 DEF TypeOK
<1>16. ASSUME NEW c \in Calls, BuildRequested(c) \/ AwaitRaises(c) PROVE Goal
  <2>1. build' \in [Calls -> Builds]
    <3>1. [build EXCEPT ![c].phase = "ask"] \in [Calls -> Builds]
          /\ [build EXCEPT ![c].phase = "fail"] \in [Calls -> Builds]
      BY <1>3, BuildWith DEF TypeOK, Phases, SyncPhases
    <3>. QED  BY <1>16, <3>1 DEF BuildRequested, AwaitRaises
  <2>. QED  BY <1>1, <1>15, <1>16, <2>1 DEF BuildRequested, AwaitRaises
<1>17. ASSUME NEW c \in Calls, Acquire(c) \/ Skipped(c) PROVE Goal
  <2>1. build' \in [Calls -> Builds]
    <3>1. [build[c] EXCEPT !.phase = "top", !.leased = TRUE] \in Builds
      BY <1>3, BuildWith DEF Phases, SyncPhases
    <3>2. [build EXCEPT ![c].phase = "top", ![c].leased = TRUE]
            = [build EXCEPT ![c] = [build[c] EXCEPT !.phase = "top", !.leased = TRUE]]
      BY DEF TypeOK
    <3>. QED  BY <1>17, <3>1, <3>2 DEF Acquire, Skipped, TypeOK
  <2>2. status' \in Statuses
    <3>1. [status EXCEPT !.owner = Host[c], !.lease = "live"] \in Statuses
      BY <1>1, StatusWith
    <3>. QED  BY <1>1, <1>17, <3>1 DEF Acquire, Skipped
  <2>. QED  BY <1>15, <1>17, <2>1, <2>2 DEF Acquire, Skipped
<1>18. ASSUME NEW c \in Calls, StartAggregation(c) PROVE Goal
  <2>1. mem[Host[c]].asserted \in SUBSET Artifacts /\ Held(mem[Host[c]]) \in SUBSET Artifacts
    BY <1>1, <1>2 DEF TypeOK, Lists
  <2>2. [build[c] EXCEPT !.phase = "aggregate", !.inputs = Held(mem[Host[c]]), !.kept = mem[Host[c]].asserted] \in Builds
    BY <1>3, <2>1, BuildWith DEF Phases
  <2>3. build' = [build EXCEPT ![c] = [build[c] EXCEPT !.phase = "aggregate", !.inputs = Held(mem[Host[c]]),
                                                       !.kept = mem[Host[c]].asserted]]
    BY <1>18 DEF StartAggregation, TypeOK
  <2>. QED  BY <1>1, <1>15, <1>18, <2>2, <2>3 DEF StartAggregation, TypeOK
<1>19. ASSUME NEW c \in Calls, UseTiers(c) PROVE Goal
  <2>. DEFINE s == Host[c]
              L == IF Held(mem[s]) = {} THEN disk.lists ELSE mem[s]
              B == IF Held(mem[s]) = {} THEN Bumped(s) ELSE build
  <2>1. s \in Servers /\ L \in Lists /\ B \in [Calls -> Builds]
    BY <1>1, <1>4 DEF TypeOK, Disks
  <2>2. build' \in [Calls -> Builds]
    <3>1. build' = [B EXCEPT ![c].phase = IF Held(L) = {} THEN "fail" ELSE "snap"]
      BY <1>19 DEF UseTiers
    <3>. HIDE DEF B
    <3>. QED  BY <2>1, <3>1, BuildWith DEF Phases, SyncPhases
  <2>. QED  BY <1>19, <2>1, <2>2 DEF UseTiers, TypeOK
<1>20. ASSUME NEW c \in Calls, Aggregated(c) PROVE Goal
  <2>. DEFINE s == Host[c]
  <2>1. s \in Servers /\ build[c].kept \in SUBSET Artifacts /\ build[c].inputs \in SUBSET Artifacts
    BY <1>1, <1>3 DEF Builds
  <2>2. [mem[s] EXCEPT !.asserted = build[c].kept, !.derived = build[c].inputs] \in Lists
    BY <2>1 DEF TypeOK, Lists
  <2>3. mem' = [mem EXCEPT ![s] = [mem[s] EXCEPT !.asserted = build[c].kept, !.derived = build[c].inputs]]
    BY <1>20, <2>1 DEF Aggregated, TypeOK
  <2>4. mem' \in [Servers -> Lists]
    BY <2>2, <2>3 DEF TypeOK
  <2>5. disk' \in Disks
    <3>1. disk' = Saved(mem'[s], prints[s]) \/ disk' = disk
      BY <1>20 DEF Aggregated
    <3>2. mem'[s] \in Lists /\ prints[s] \in Prints
      BY <2>1, <2>4 DEF TypeOK
    <3>. QED  BY <1>1, <3>1, <3>2, DiskWith
  <2>7. index' \in [Servers -> Indexes] /\ tiersDirty' \in [Servers -> BOOLEAN]
    <3>1. /\ index' = [index EXCEPT ![s] = NoIndex] \/ index' = index
          /\ tiersDirty' = [tiersDirty EXCEPT ![s] = FALSE] \/ tiersDirty' = tiersDirty
      BY <1>20 DEF Aggregated
    <3>. QED  BY <3>1 DEF TypeOK
  <2>6. build' \in [Calls -> Builds]
    <3>1. \A ph \in Phases : [Bumped(s) EXCEPT ![c].phase = ph] \in [Calls -> Builds]
      BY <1>4, BuildWith
    <3>. QED  BY <1>20, <3>1 DEF Aggregated, Phases, SyncPhases
  <2>. QED  BY <1>20, <2>4, <2>5, <2>6, <2>7 DEF Aggregated, TypeOK, Disks
<1>21. ASSUME NEW c \in Calls, UseCache(c) PROVE Goal
  <2>. DEFINE b == [build[c] EXCEPT !.phase = "commit", !.moved = FALSE,
                                    !.snap = PrintOf(mem[Host[c]]), !.vectors = disk.embs]
  <2>1. b \in Builds
    BY <1>1, <1>2, <1>3, BuildWith DEF Phases, SyncPhases, Disks
  <2>2. build' = [build EXCEPT ![c] = b]
    BY <1>21 DEF UseCache, TypeOK
  <2>. HIDE DEF b
  <2>3. build' \in [Calls -> Builds]
    BY <2>1, <2>2 DEF TypeOK
  <2>. QED  BY <1>1, <1>15, <1>21, <2>3 DEF UseCache
<1>22. ASSUME NEW c \in Calls, StartEmbedding(c) PROVE Goal
  <2>. DEFINE s == Host[c]
              b == [build[c] EXCEPT !.phase = "embed", !.moved = FALSE,
                                    !.snap = PrintOf(mem[s]), !.vectors = PrintOf(mem[s])]
  <2>1. b \in Builds /\ [build[c] EXCEPT !.phase = "fail"] \in Builds
    BY <1>1, <1>2, <1>3, BuildWith DEF Phases, SyncPhases
  <2>2. build' = [build EXCEPT ![c] = b] \/ build' = [build EXCEPT ![c] = [build[c] EXCEPT !.phase = "fail"]]
    BY <1>22 DEF StartEmbedding, TypeOK
  <2>3. disk' \in Disks
    BY <1>1, <1>22, DiskWith DEF StartEmbedding, TypeOK
  <2>. HIDE DEF b
  <2>. QED  BY <1>22, <2>1, <2>2, <2>3 DEF StartEmbedding, TypeOK, Disks
<1>23. ASSUME NEW c \in Calls, Embedded(c) PROVE Goal
  <2>1. \A ph \in Phases : [build EXCEPT ![c].phase = ph] \in [Calls -> Builds]
    BY <1>3, BuildWith DEF TypeOK
  <2>2. build' \in [Calls -> Builds]
    BY <1>23, <2>1 DEF Embedded, Phases, SyncPhases
  <2>3. build[c].vectors \in Prints
    BY <1>3 DEF Builds
  <2>4. disk' \in Disks
    BY <1>1, <1>23, <2>3, DiskWith DEF Embedded
  <2>. QED  BY <1>23, <2>2, <2>4 DEF Embedded, TypeOK, Disks
<1>24. ASSUME NEW c \in Calls, Commit(c) PROVE Goal
  <2>. DEFINE s == Host[c]
  <2>1. s \in Servers /\ build[c].snap \in Prints /\ build[c].vectors \in Prints
    BY <1>1, <1>3 DEF Builds
  <2>2. SnapshotNow(c) \in Prints
    <3>1. \A a \in Artifacts : Text(mem[s].gran[a]) \in {"none", "text", "redacted"}
      BY <2>1 DEF TypeOK, Lists, FactKinds, Text
    <3>. QED  BY <2>1, <3>1 DEF SnapshotNow, Prints
  <2>3. [of |-> SnapshotNow(c), vectors |-> build[c].vectors] \in Indexes
    BY <2>1, <2>2 DEF Indexes
  <2>4. index' \in [Servers -> Indexes] /\ prints' \in [Servers -> Prints]
    BY <1>24, <2>1, <2>3 DEF Commit, TypeOK
  <2>5. disk' \in Disks
    BY <1>1, <1>24, <2>1, DiskWith DEF Commit, TypeOK
  <2>6. build' \in [Calls -> Builds]
    <3>1. \A ph \in Phases : [build EXCEPT ![c].phase = ph] \in [Calls -> Builds]
      BY <1>3, BuildWith DEF TypeOK
    <3>. QED  BY <1>24, <3>1 DEF Commit, Phases, SyncPhases
  <2>. QED  BY <1>24, <2>4, <2>5, <2>6 DEF Commit, TypeOK, Disks
<1>25. ASSUME NEW c \in Calls, Retry(c) PROVE Goal
  <2>. DEFINE b == IF build[c].try < MaxTries
                   THEN [NoBuild EXCEPT !.phase = "top", !.try = build[c].try + 1, !.leased = build[c].leased]
                   ELSE [build[c] EXCEPT !.phase = "fail"]
  <2>1. b \in Builds
    <3>1. CASE build[c].try < MaxTries
      <4>1. build[c].try + 1 \in 1..MaxTries /\ build[c].leased \in BOOLEAN
        BY <1>3, <3>1, IndexAssumption DEF Builds
      <4>. QED  BY <3>1, <4>1 DEF Builds, Phases, SyncPhases
    <3>2. CASE ~(build[c].try < MaxTries)
      BY <1>3, <3>2, BuildWith DEF Phases, SyncPhases
    <3>. QED  BY <3>1, <3>2
  <2>2. build' = [build EXCEPT ![c] = b]
    BY <1>25 DEF Retry, TypeOK
  <2>. HIDE DEF b
  <2>. QED  BY <1>1, <1>15, <1>25, <2>1, <2>2 DEF Retry, TypeOK
<1>26. ASSUME NEW c \in Calls, Release(c) \/ ReleaseFailed(c) PROVE Goal
  <2>1. status' \in Statuses
    <3>1. [status EXCEPT !.dirty = status.again, !.backoff = FALSE] \in Statuses
          /\ [status EXCEPT !.dirty = TRUE, !.backoff = TRUE] \in Statuses
      BY <1>1, StatusWith
    <3>2. \A next \in Statuses : Released(status, Host[c], next) \in Statuses
      BY <1>1, StatusWith
    <3>. QED  BY <1>26, <3>1, <3>2 DEF Release, ReleaseFailed
  <2>2. build' \in [Calls -> Builds]
    BY <1>26 DEF Release, ReleaseFailed, TypeOK
  <2>. QED  BY <1>15, <1>26, <2>1, <2>2 DEF Release, ReleaseFailed
<1>27. ASSUME UNCHANGED vars PROVE Goal
  BY <1>27 DEF vars, TypeOK
<1>. HIDE DEF Goal
<1>28. Goal
  BY <1>5, <1>6, <1>8, <1>9, <1>10, <1>11, <1>12, <1>13, <1>14, <1>16, <1>17, <1>18, <1>19, <1>20,
     <1>21, <1>22, <1>23, <1>24, <1>25, <1>26, <1>27 DEF Next, ServerStep, BuildStep
<1>. QED  BY <1>28 DEF Goal

(* The types of the lists, the indexes, the builds and the status row; and *)
(* a build stops after max_attempts.                                       *)
THEOREM IndexTypeCorrect == Spec => []TypeOK
<1>1. Init => TypeOK
  BY NoneAre, IndexAssumption DEF Init, TypeOK, Statuses
<1>2. TypeOK /\ [Next]_vars => TypeOK'
  BY TypeStep
<1>. QED  BY <1>1, <1>2, PTL DEF Spec
-----------------------------------------------------------------------------
(* Two builds of one process are told apart by the lease only as long as   *)
(* no lease runs out under a build: the owner of a lease is a process.     *)
OneCallEach ==
  "slow_build" \notin Environment \/ \A c, d \in Calls : Host[c] = Host[d] => c = d

(* Whoever has the lease is running and named in the status row.           *)
LeaseInv ==
  /\ \A c \in Calls : build[c].leased =>
       Running(c) /\ status.lease = "live" /\ status.owner = Host[c]
  /\ \A c, d \in Calls : build[c].leased /\ build[d].leased => c = d
  /\ "slow_build" \notin Environment => \A c \in Calls : Running(c) => build[c].leased

(* The call goes on, or does not run, as before.                           *)
SameRun(B, c) ==
  /\ B[c].leased = build[c].leased
  /\ B[c].phase \in {"idle", "ask"} <=> build[c].phase \in {"idle", "ask"}

LEMMA LeaseKept ==
  ASSUME LeaseInv, \A c \in Calls : SameRun(build', c),
         status'.lease = status.lease, status'.owner = status.owner
  PROVE  LeaseInv'
BY DEF LeaseInv, SameRun, Running

LEMMA LeaseStep ==
  ASSUME OneCallEach, TypeOK, LeaseInv, [Next]_vars
  PROVE  LeaseInv'
<1>. DEFINE Goal == LeaseInv'
            Same == \A c \in Calls : SameRun(build', c)
            SameLease == status'.lease = status.lease /\ status'.owner = status.owner
<1>1. /\ \A c \in Calls : build[c] \in Builds /\ Host[c] \in Servers
      /\ status \in Statuses
      /\ Nobody \notin Servers
  BY IndexAssumption DEF TypeOK
<1>2. \A s : \A c \in Calls : SameRun(Bumped(s), c)
  BY BumpedIs DEF TypeOK, SameRun
<1>3. MarkedDirty(status).lease = status.lease /\ MarkedDirty(status).owner = status.owner
  BY <1>1 DEF Statuses, MarkedDirty
<1>4. \A c \in Calls : SameRun(build, c)
  BY DEF SameRun
<1>5. ASSUME Same, SameLease PROVE Goal
  BY <1>5, LeaseKept
(* A call of which only the phase changes. *)
<1>6. ASSUME NEW c \in Calls, NEW s, NEW ph,
             ph \in {"idle", "ask"} <=> build[c].phase \in {"idle", "ask"},
             \/ build' = [Bumped(s) EXCEPT ![c].phase = ph]
             \/ build' = [build EXCEPT ![c].phase = ph]
      PROVE  Same
  <2>1. PICK B \in [Calls -> Builds] : /\ \A d \in Calls : SameRun(B, d)
                                       /\ build' = [B EXCEPT ![c].phase = ph]
    BY <1>2, <1>4, <1>6, BumpedIs DEF TypeOK
  <2>2. build'[c].phase = ph /\ build'[c].leased = B[c].leased
    BY <2>1 DEF Builds
  <2>3. \A d \in Calls \ {c} : build'[d] = B[d]
    BY <2>1
  <2>. QED  BY <1>6, <2>1, <2>2, <2>3 DEF SameRun
(* A call that has other fields. *)
<1>7. ASSUME NEW c \in Calls, NEW b, build' = [build EXCEPT ![c] = b],
             b.leased = build[c].leased,
             b.phase \in {"idle", "ask"} <=> build[c].phase \in {"idle", "ask"}
      PROVE  Same
  <2>1. build'[c] = b /\ \A d \in Calls \ {c} : build'[d] = build[d]
    BY <1>7 DEF TypeOK
  <2>. QED  BY <1>7, <2>1 DEF SameRun
<1>. HIDE DEF Same
<1>8. ASSUME NEW s \in Servers, NEW a \in Artifacts, Store(s, a) \/ Retract(s, a) \/ Purge(s, a) \/ Redact(s, a)
      PROVE  Goal
  <2>1. SameLease
    BY <1>3, <1>8 DEF Store, Retract, Purge, Redact
  <2>2. build' = build \/ build' = Bumped(s)
    BY <1>8 DEF Store, Retract, Purge, Redact
  <2>. QED  BY <1>2, <1>4, <1>5, <2>1, <2>2 DEF Same
<1>9. ASSUME NEW c \in Calls, NEW a \in Artifacts, IngestAsserted(c, a) PROVE Goal
  <2>1. \/ build' = Bumped(Host[c])
        \/ build' = [Bumped(Host[c]) EXCEPT ![c].phase = "ask"]
    BY <1>9 DEF IngestAsserted
  <2>2. build[c].phase = "idle" /\ status' = status
    BY <1>9 DEF IngestAsserted
  <2>3. CASE build' = Bumped(Host[c])
    BY <1>2, <1>5, <2>2, <2>3 DEF Same
  <2>4. CASE build' = [Bumped(Host[c]) EXCEPT ![c].phase = "ask"]
    BY <1>5, <1>6, <2>2, <2>4
  <2>. QED  BY <2>1, <2>3, <2>4
<1>10. ASSUME NEW s \in Servers, RecallSchedules(s) \/ Reload(s) PROVE Goal
  <2>1. SameLease
    BY <1>3, <1>10 DEF RecallSchedules, Reload
  <2>2. build' = build \/ build' = Bumped(s)
    BY <1>10 DEF RecallSchedules, Reload
  <2>. QED  BY <1>2, <1>4, <1>5, <2>1, <2>2 DEF Same
<1>11. ASSUME NEW s \in Servers, Restart(s) PROVE Goal
  <2>1. \A c \in Calls : build'[c] = IF Host[c] = s THEN NoBuild ELSE build[c]
    BY <1>11 DEF Restart
  <2>2. ~NoBuild.leased /\ NoBuild.phase = "idle"
    BY DEF NoBuild
  <2>3. status'.lease = status.lease /\ (status.owner # s => status' = status)
    BY <1>1, <1>11 DEF Restart, Statuses
  <2>. QED  BY <2>1, <2>2, <2>3 DEF LeaseInv, Running
<1>12. ASSUME NEW c \in Calls, BuildRequested(c) PROVE Goal
  BY <1>5, <1>6, <1>12 DEF BuildRequested
<1>13. ASSUME NEW c \in Calls, Acquire(c) PROVE Goal
  <2>1. \A d \in Calls : ~build[d].leased
    BY <1>13 DEF Acquire, LeaseInv
  <2>2. /\ build'[c].phase = "top" /\ build'[c].leased
        /\ \A d \in Calls \ {c} : build'[d] = build[d]
    BY <1>1, <1>13 DEF Acquire, TypeOK, Builds
  <2>3. status'.lease = "live" /\ status'.owner = Host[c]
    BY <1>1, <1>13 DEF Acquire, Statuses
  <2>. QED  BY <2>1, <2>2, <2>3 DEF LeaseInv, Running
<1>14. ASSUME NEW c \in Calls, Skipped(c) PROVE Goal
  <2>1. build[c].phase = "ask" /\ ~build[c].leased /\ status' = status
    BY <1>14 DEF Skipped, LeaseInv, Running
  <2>2. build[c].leased \in BOOLEAN /\ NoBuild.leased = FALSE /\ NoBuild.phase = "idle"
    BY <1>1 DEF Builds, NoBuild
  <2>3. build' = [build EXCEPT ![c] = NoBuild]
    BY <1>14 DEF Skipped
  <2>. QED  BY <1>5, <1>7, <2>1, <2>2, <2>3
<1>15. ASSUME NEW c \in Calls, StartAggregation(c) PROVE Goal
  <2>. DEFINE b == [build[c] EXCEPT !.phase = "aggregate", !.inputs = Held(mem[Host[c]]),
                                    !.kept = mem[Host[c]].asserted]
  <2>1. build' = [build EXCEPT ![c] = b] /\ build[c].phase = "top" /\ status' = status
    BY <1>15 DEF StartAggregation, TypeOK
  <2>2. b.leased = build[c].leased /\ b.phase = "aggregate"
    BY <1>1 DEF Builds
  <2>. HIDE DEF b
  <2>. QED  BY <1>5, <1>7, <2>1, <2>2
<1>16. ASSUME NEW c \in Calls, UseTiers(c) PROVE Goal
  <2>1. PICK ph \in {"fail", "snap"} : \/ build' = [Bumped(Host[c]) EXCEPT ![c].phase = ph]
                                       \/ build' = [build EXCEPT ![c].phase = ph]
    BY <1>16 DEF UseTiers
  <2>2. build[c].phase = "top" /\ status' = status
    BY <1>16 DEF UseTiers
  <2>. QED  BY <1>5, <1>6, <2>1, <2>2
<1>17. ASSUME NEW c \in Calls, Aggregated(c) PROVE Goal
  <2>1. PICK ph \in {"fail", "snap"} : build' = [Bumped(Host[c]) EXCEPT ![c].phase = ph]
    BY <1>17 DEF Aggregated
  <2>2. build[c].phase = "aggregate" /\ status' = status
    BY <1>17 DEF Aggregated
  <2>. QED  BY <1>5, <1>6, <2>1, <2>2
<1>18. ASSUME NEW c \in Calls, UseCache(c) PROVE Goal
  <2>. DEFINE b == [build[c] EXCEPT !.phase = "commit", !.moved = FALSE,
                                    !.snap = PrintOf(mem[Host[c]]), !.vectors = disk.embs]
  <2>1. build' = [build EXCEPT ![c] = b] /\ build[c].phase = "snap" /\ status' = status
    BY <1>18 DEF UseCache, TypeOK
  <2>2. b.leased = build[c].leased /\ b.phase = "commit"
    BY <1>1 DEF Builds
  <2>. HIDE DEF b
  <2>. QED  BY <1>5, <1>7, <2>1, <2>2
<1>19. ASSUME NEW c \in Calls, StartEmbedding(c) PROVE Goal
  <2>. DEFINE P == PrintOf(mem[Host[c]])
              b == [build[c] EXCEPT !.phase = "embed", !.moved = FALSE, !.snap = P, !.vectors = P]
  <2>1. \/ build' = [build EXCEPT ![c] = b]
        \/ build' = [build EXCEPT ![c].phase = "fail"]
    BY <1>19 DEF StartEmbedding, TypeOK
  <2>2. b.leased = build[c].leased /\ b.phase = "embed"
    BY <1>1 DEF Builds
  <2>3. build[c].phase = "snap" /\ status' = status
    BY <1>19 DEF StartEmbedding
  <2>. HIDE DEF b
  <2>. QED  BY <1>5, <1>6, <1>7, <2>1, <2>2, <2>3
<1>20. ASSUME NEW c \in Calls, Embedded(c) \/ Commit(c) \/ AwaitRaises(c) PROVE Goal
  <2>1. PICK ph \in {"retry", "commit", "fail", "release"} : build' = [build EXCEPT ![c].phase = ph]
    BY <1>20 DEF Embedded, Commit, AwaitRaises
  <2>2. build[c].phase \in {"embed", "commit", "aggregate"} /\ status' = status
    BY <1>20 DEF Embedded, Commit, AwaitRaises
  <2>. QED  BY <1>5, <1>6, <2>1, <2>2
<1>21. ASSUME NEW c \in Calls, Retry(c) PROVE Goal
  <2>. DEFINE b == IF build[c].try < MaxTries
                   THEN [NoBuild EXCEPT !.phase = "top", !.try = build[c].try + 1, !.leased = build[c].leased]
                   ELSE [build[c] EXCEPT !.phase = "fail"]
  <2>1. build' = [build EXCEPT ![c] = b] /\ build[c].phase = "retry" /\ status' = status
    BY <1>21 DEF Retry, TypeOK
  <2>2. b.leased = build[c].leased /\ b.phase \in {"top", "fail"}
    BY <1>1 DEF Builds, NoBuild
  <2>. HIDE DEF b
  <2>. QED  BY <1>5, <1>7, <2>1, <2>2
<1>22. ASSUME NEW c \in Calls, Release(c) \/ ReleaseFailed(c) PROVE Goal
  <2>1. build[c].phase \in {"release", "fail"} /\ build' = [build EXCEPT ![c] = NoBuild]
    BY <1>22 DEF Release, ReleaseFailed
  <2>2. /\ build'[c] = NoBuild /\ ~NoBuild.leased /\ NoBuild.phase = "idle"
        /\ \A d \in Calls \ {c} : build'[d] = build[d]
    BY <2>1 DEF TypeOK, NoBuild
  <2>3. status.owner # Host[c] => status' = status
    BY <1>22 DEF Release, ReleaseFailed, Released
  <2>4. CASE status.owner # Host[c]
    BY <2>2, <2>3, <2>4 DEF LeaseInv, Running
  <2>5. CASE status.owner = Host[c]
    <3>1. Running(c)
      BY <2>1 DEF Running
    <3>2. \A d \in Calls : build[d].leased => d = c
      BY <2>5, <3>1 DEF LeaseInv, OneCallEach
    <3>. QED  BY <2>2, <3>2 DEF LeaseInv, Running
  <2>. QED  BY <2>4, <2>5
<1>23. ASSUME LeaseExpires PROVE Goal
  <2>1. \A c \in Calls : build'[c] = IF Host[c] = status.owner THEN [build[c] EXCEPT !.leased = FALSE]
                                                               ELSE build[c]
    BY <1>23 DEF LeaseExpires
  <2>2. \A c \in Calls : ~build'[c].leased /\ build'[c].phase = build[c].phase
    BY <1>1, <2>1 DEF Builds, LeaseInv
  <2>3. "slow_build" \notin Environment => \A c \in Calls : ~Running(c)
    BY <1>1, <1>23 DEF LeaseExpires, LeaseInv
  <2>. QED  BY <2>2, <2>3 DEF LeaseInv, Running
<1>24. ASSUME BackoffEnds PROVE Goal
  <2>1. SameLease
    BY <1>1, <1>24 DEF BackoffEnds, Statuses
  <2>. QED  BY <1>4, <1>5, <1>24, <2>1 DEF BackoffEnds, Same
<1>25. ASSUME UNCHANGED vars PROVE Goal
  BY <1>4, <1>5, <1>25 DEF vars, Same
<1>. HIDE DEF Goal
<1>26. Goal
  BY <1>8, <1>9, <1>10, <1>11, <1>12, <1>13, <1>14, <1>15, <1>16, <1>17, <1>18, <1>19, <1>20,
     <1>21, <1>22, <1>23, <1>24, <1>25 DEF Next, ServerStep, BuildStep
<1>. QED  BY <1>26 DEF Goal

(* The build lease admits one build: a second one, of any process, starts  *)
(* only after the lease of the first ran out, and the late release of the  *)
(* first does not end the lease of the second.                             *)
THEOREM OneBuildAtATime == ASSUME OneCallEach PROVE Spec => []SingleFlight
<1>1. Init => LeaseInv
  BY DEF Init, LeaseInv, NoBuild, Running
<1>2. OneCallEach /\ TypeOK /\ LeaseInv /\ [Next]_vars => LeaseInv'
  BY LeaseStep
<1>3. LeaseInv => SingleFlight
  BY DEF LeaseInv, SingleFlight
<1>. QED  BY <1>1, <1>2, <1>3, IndexTypeCorrect, OneCallEach, PTL DEF Spec
-----------------------------------------------------------------------------
(* One process in which only a model call fails.  A second process does    *)
(* not see what the first one wrote; a write, a reload, a redaction and a  *)
(* crash leave an index that nobody marked as outdated.                    *)
ModelFailuresOnly ==
  /\ \A s, t \in Servers : s = t
  /\ Environment \subseteq {"raise", "retract", "purge"}

(* What a running build has of the facts is what they are, or it knows     *)
(* that they changed.                                                      *)
Follows(c) ==
  /\ build[c].phase = "embed" => Stale(c) \/ build[c].snap = PrintOf(mem[Host[c]])
  /\ build[c].phase = "commit" => build[c].snap = PrintOf(mem[Host[c]])
  /\ build[c].phase = "release" => index[Host[c]].of = PrintOf(mem[Host[c]])

(* Between builds an index that does not cover the facts is marked, or     *)
(* somebody is about to ask for a build.                                   *)
Owed(s) ==
  status.lease # "live" =>
    \/ status.dirty
    \/ index[s].of = PrintOf(mem[s])
    \/ \E c \in CallsOf(s) : build[c].phase = "ask"

NoneRedacted ==
  /\ \A s \in Servers : \A a \in Artifacts : mem[s].gran[a] # "redacted"
  /\ \A a \in Artifacts : disk.lists.gran[a] # "redacted"

ReadyInv ==
  /\ status.backoff => status.dirty
  /\ status.lease = "live" => status.owner # Nobody
  /\ \A s \in Servers : Owed(s)
  /\ \A c \in Calls : Follows(c)
  /\ NoneRedacted

LEMMA ReadyStep ==
  ASSUME ModelFailuresOnly, TypeOK, LeaseInv, ReadyInv, [Next]_vars
  PROVE  ReadyInv'
<1>. DEFINE Goal == ReadyInv'
<1>1. /\ \A c \in Calls : build[c] \in Builds /\ Host[c] \in Servers
      /\ \A s \in Servers : mem[s] \in Lists /\ Underived(mem[s]) \in Lists
                            /\ Underived(mem[s]).gran = mem[s].gran
      /\ status \in Statuses
      /\ disk \in Disks
      /\ Nobody \notin Servers
  BY IndexAssumption, ListsAre DEF TypeOK, Disks
<1>2. /\ \A s, t \in Servers : s = t
      /\ "crash" \notin Environment /\ "persist_error" \notin Environment /\ "slow_build" \notin Environment
      /\ "redact" \notin Environment /\ "reload" \notin Environment
  BY DEF ModelFailuresOnly
<1>3. /\ MarkedDirty(status).lease = status.lease /\ MarkedDirty(status).owner = status.owner
      /\ MarkedDirty(status).backoff = status.backoff /\ MarkedDirty(status).dirty
  BY <1>1 DEF Statuses, MarkedDirty
(* A step of a running build: the others do not run. *)
<1>4. ASSUME NEW c \in Calls, Running(c), status' = status,
             \A d \in Calls \ {c} : build'[d].phase = build[d].phase,
             Follows(c)', NoneRedacted'
      PROVE  Goal
  <2>1. status.lease = "live"
    BY <1>2, <1>4 DEF LeaseInv
  <2>2. \A d \in Calls \ {c} : ~Running(d)
    BY <1>2, <1>4 DEF LeaseInv
  <2>3. \A d \in Calls \ {c} : Follows(d)'
    BY <1>4, <2>2 DEF Follows, Running
  <2>. QED  BY <1>4, <2>1, <2>3 DEF ReadyInv, Owed
(* A change of the facts between the callbacks: the builds are told. *)
<1>5. ASSUME NEW s \in Servers, LoopFree(s), NEW B \in [Calls -> Builds], B = Bumped(s),
             \A c \in Calls : build'[c] = B[c] \/ build'[c].phase = "ask"
      PROVE  \A c \in Calls : Follows(c)'
  <2>1. SUFFICES ASSUME NEW c \in Calls, build'[c] = B[c] PROVE Follows(c)'
    BY <1>5 DEF Follows
  <2>2. Host[c] = s /\ build'[c].phase = build[c].phase
    BY <1>1, <1>2, <1>5, <2>1, BumpedIs DEF TypeOK
  <2>3. build[c].phase \notin SyncPhases
    BY <1>5, <2>2 DEF LoopFree, CallsOf
  <2>4. build[c].phase = "embed" => build'[c].moved
    BY <1>5, <2>1, <2>2, BumpedIs DEF TypeOK
  <2>. QED  BY <2>2, <2>3, <2>4 DEF Follows, SyncPhases, Stale
<1>6. ASSUME NEW s \in Servers, NEW a \in Artifacts, Store(s, a) \/ Retract(s, a) \/ Purge(s, a)
      PROVE  Goal
  <2>1. status' = MarkedDirty(status) /\ build' = Bumped(s) /\ LoopFree(s)
    BY <1>2, <1>6 DEF Store, Retract, Purge
  <2>2. \A c \in Calls : Follows(c)'
    BY <1>5, <2>1, BumpedIs DEF TypeOK
  <2>3. PICK kind \in {"active", "retracted", "purged"} :
          /\ \A t \in Servers : mem'[t].gran = [mem[t].gran EXCEPT ![a] = kind] \/ mem'[t] = mem[t]
          /\ disk'.lists.gran = [disk.lists.gran EXCEPT ![a] = kind] \/ disk'.lists = mem'[s]
    <3>1. CASE Store(s, a)
      <4>1. mem' = [mem EXCEPT ![s] = [Underived(mem[s]) EXCEPT !.gran[a] = "active"]]
            /\ disk' = [disk EXCEPT !.lists.gran[a] = "active"]
        BY <1>2, <3>1 DEF Store
      <4>2. \A t \in Servers \ {s} : mem'[t] = mem[t]
        BY <4>1 DEF TypeOK
      <4>3. mem'[s].gran = [mem[s].gran EXCEPT ![a] = "active"]
        BY <1>1, <4>1 DEF TypeOK, Lists
      <4>4. disk'.lists.gran = [disk.lists.gran EXCEPT ![a] = "active"]
        BY <1>1, <4>1 DEF Disks, Lists
      <4>. QED  BY <4>2, <4>3, <4>4
    <3>2. CASE Retract(s, a)
      <4>1. mem' = [mem EXCEPT ![s].gran[a] = IF @ = "redacted" THEN @ ELSE "retracted"]
            /\ disk' = Saved(mem'[s], prints[s])
        BY <1>2, <3>2 DEF Retract, SaveCache
      <4>2. mem[s].gran[a] # "redacted"
        BY DEF ReadyInv, NoneRedacted
      <4>3. mem'[s].gran = [mem[s].gran EXCEPT ![a] = "retracted"] /\ \A t \in Servers \ {s} : mem'[t] = mem[t]
        BY <1>1, <4>1, <4>2 DEF TypeOK, Lists
      <4>4. disk'.lists = mem'[s]
        BY <1>1, <4>1 DEF Disks, Saved
      <4>. QED  BY <4>3, <4>4
    <3>3. CASE Purge(s, a)
      <4>1. mem' = [mem EXCEPT ![s] = [Underived(mem[s]) EXCEPT !.gran[a] = "purged", !.asserted = @ \ {a}]]
            /\ disk' = Saved(mem'[s], prints[s])
        BY <1>2, <3>3 DEF Purge, SaveCache
      <4>2. \A t \in Servers \ {s} : mem'[t] = mem[t]
        BY <4>1 DEF TypeOK
      <4>3. mem'[s].gran = [mem[s].gran EXCEPT ![a] = "purged"]
        BY <1>1, <4>1 DEF TypeOK, Lists
      <4>4. disk'.lists = mem'[s]
        BY <1>1, <4>1 DEF Disks, Saved
      <4>. QED  BY <4>2, <4>3, <4>4
    <3>. QED  BY <1>6, <3>1, <3>2, <3>3
  <2>4. NoneRedacted'
    <3>. DEFINE Clean(gran) == \A x \in Artifacts : gran[x] # "redacted"
    <3>1. \A g \in [Artifacts -> FactKinds] : Clean(g) => Clean([g EXCEPT ![a] = kind])
      OBVIOUS
    <3>2. /\ \A t \in Servers : mem[t].gran \in [Artifacts -> FactKinds] /\ Clean(mem[t].gran)
          /\ disk.lists.gran \in [Artifacts -> FactKinds] /\ Clean(disk.lists.gran)
      BY <1>1 DEF ReadyInv, NoneRedacted, Disks, Lists
    <3>. HIDE DEF Clean
    <3>3. \A t \in Servers : Clean(mem'[t].gran)
      BY <2>3, <3>1, <3>2
    <3>4. Clean(disk'.lists.gran)
      BY <2>3, <3>1, <3>2, <3>3
    <3>. QED  BY <3>3, <3>4 DEF NoneRedacted, Clean
  <2>. QED  BY <1>3, <2>1, <2>2, <2>4 DEF ReadyInv, Owed
<1>7. ASSUME NEW c \in Calls, NEW a \in Artifacts, IngestAsserted(c, a) PROVE Goal
  <2>. DEFINE s == Host[c]
              L == [mem[s] EXCEPT !.gran[a] = "active", !.asserted = @ \cup {a}]
  <2>1. /\ mem' = [mem EXCEPT ![s].gran[a] = "active", ![s].asserted = @ \cup {a}]
        /\ disk' = Saved(mem'[s], prints[s])
        /\ build' = [Bumped(s) EXCEPT ![c].phase = "ask"]
        /\ status' = status /\ LoopFree(s)
    BY <1>2, <1>7 DEF IngestAsserted
  <2>2. s \in Servers /\ Bumped(s) \in [Calls -> Builds]
    BY <1>1, BumpedIs DEF TypeOK
  <2>3. build'[c].phase = "ask" /\ \A d \in Calls \ {c} : build'[d] = Bumped(s)[d]
    BY <2>1, <2>2 DEF Builds
  <2>4. \A d \in Calls : Follows(d)'
    BY <1>5, <2>1, <2>2, <2>3
  <2>5. mem' = [mem EXCEPT ![s] = L]
    BY <2>1, <2>2 DEF TypeOK
  <2>6. /\ mem'[s].gran = [mem[s].gran EXCEPT ![a] = "active"] /\ disk'.lists = mem'[s]
        /\ \A t \in Servers \ {s} : mem'[t] = mem[t]
    BY <1>1, <2>1, <2>2, <2>5 DEF TypeOK, Lists, Disks, Saved
  <2>7. NoneRedacted'
    <3>1. mem[s].gran \in [Artifacts -> FactKinds] /\ \A x \in Artifacts : mem[s].gran[x] # "redacted"
      BY <1>1, <2>2 DEF ReadyInv, NoneRedacted, Lists
    <3>2. \A x \in Artifacts : mem'[s].gran[x] # "redacted"
      BY <2>6, <3>1
    <3>3. \A t \in Servers \ {s} : \A x \in Artifacts : mem'[t].gran[x] # "redacted"
      BY <2>6 DEF ReadyInv, NoneRedacted
    <3>4. \A x \in Artifacts : disk'.lists.gran[x] # "redacted"
      BY <2>6, <3>2
    <3>. HIDE DEF s
    <3>. QED  BY <3>2, <3>3, <3>4 DEF NoneRedacted
  <2>8. \A t \in Servers : Owed(t)'
    BY <1>2, <2>2, <2>3 DEF Owed, CallsOf
  <2>. QED  BY <2>1, <2>4, <2>7, <2>8 DEF ReadyInv
<1>8. ASSUME NEW s \in Servers, RecallSchedules(s) PROVE Goal
  <2>1. status' = MarkedDirty(status) /\ UNCHANGED <<mem, index, build, disk, tiersDirty>>
    BY <1>8 DEF RecallSchedules
  <2>2. \A c \in Calls : Follows(c)'
    BY <2>1 DEF ReadyInv, Follows, Stale
  <2>. QED  BY <1>3, <2>1, <2>2 DEF ReadyInv, Owed, NoneRedacted
<1>9. ASSUME NEW s \in Servers, Reload(s) \/ Restart(s) \/ \E a \in Artifacts : Redact(s, a)
      PROVE  Goal
  BY <1>2, <1>9 DEF Redact, Reload, Restart
<1>10. ASSUME NEW c \in Calls, BuildRequested(c) \/ Acquire(c) \/ Skipped(c) PROVE Goal
  <2>1. PICK b \in Builds : build' = [build EXCEPT ![c] = b] /\ b.phase \in {"idle", "ask", "top"}
    <3>1. [build[c] EXCEPT !.phase = "ask"].phase = "ask"
          /\ [build[c] EXCEPT !.phase = "top", !.leased = TRUE].phase = "top"
      BY <1>1 DEF Builds
    <3>2. [build[c] EXCEPT !.phase = "ask"] \in Builds
          /\ [build[c] EXCEPT !.phase = "top", !.leased = TRUE] \in Builds
      BY <1>1, BuildWith DEF Phases, SyncPhases
    <3>3. [build EXCEPT ![c].phase = "ask"] = [build EXCEPT ![c] = [build[c] EXCEPT !.phase = "ask"]]
          /\ [build EXCEPT ![c].phase = "top", ![c].leased = TRUE]
               = [build EXCEPT ![c] = [build[c] EXCEPT !.phase = "top", !.leased = TRUE]]
      BY DEF TypeOK
    <3>4. NoBuild \in Builds /\ NoBuild.phase = "idle"
      BY NoneAre DEF NoBuild
    <3>. QED  BY <1>10, <3>1, <3>2, <3>3, <3>4 DEF BuildRequested, Acquire, Skipped
  <2>2. build'[c] = b /\ \A d \in Calls \ {c} : build'[d] = build[d]
    BY <2>1 DEF TypeOK
  <2>3. UNCHANGED <<mem, index, disk, tiersDirty>>
    BY <1>10 DEF BuildRequested, Acquire, Skipped
  <2>4. \A d \in Calls : Follows(d)'
    <3>1. Follows(c)'
      BY <2>1, <2>2 DEF Follows
    <3>2. \A d \in Calls \ {c} : Follows(d)'
      BY <2>2, <2>3 DEF ReadyInv, Follows, Stale
    <3>. QED  BY <3>1, <3>2
  <2>5. NoneRedacted'
    BY <2>3 DEF ReadyInv, NoneRedacted
  <2>6. CASE BuildRequested(c)
    <3>1. build'[c].phase = "ask" /\ status' = status
      BY <1>1, <2>6 DEF BuildRequested, TypeOK, Builds
    <3>2. \A s \in Servers : Owed(s)'
      BY <1>1, <1>2, <3>1 DEF Owed, CallsOf
    <3>. QED  BY <2>4, <2>5, <3>1, <3>2 DEF ReadyInv
  <2>7. CASE Acquire(c)
    <3>1. status'.lease = "live" /\ status'.owner = Host[c]
          /\ status'.backoff = status.backoff /\ status'.dirty = status.dirty
      BY <1>1, <2>7 DEF Acquire, Statuses
    <3>. QED  BY <1>1, <2>4, <2>5, <3>1 DEF ReadyInv, Owed
  <2>8. CASE Skipped(c)
    <3>1. status' = status /\ (status.lease = "live" \/ status.dirty)
      BY <2>8 DEF Skipped, ReadyInv
    <3>. QED  BY <2>4, <2>5, <3>1 DEF ReadyInv, Owed
  <2>. QED  BY <1>10, <2>6, <2>7, <2>8
<1>11. ASSUME NEW c \in Calls, StartAggregation(c) PROVE Goal
  <2>1. /\ \A d \in Calls \ {c} : build'[d].phase = build[d].phase
        /\ build'[c].phase = "aggregate"
        /\ status' = status /\ build[c].phase = "top" /\ UNCHANGED <<mem, disk>>
    BY <1>1, <1>11 DEF StartAggregation, TypeOK, Builds
  <2>. QED  BY <1>4, <2>1 DEF Running, Follows, ReadyInv, NoneRedacted
<1>12. ASSUME NEW c \in Calls, UseTiers(c) PROVE Goal
  <2>. DEFINE s == Host[c]
  <2>1. /\ mem' = [mem EXCEPT ![s] = mem[s]] \/ mem' = [mem EXCEPT ![s] = disk.lists]
        /\ status' = status /\ disk' = disk /\ build[c].phase = "top"
    BY <1>12 DEF UseTiers
  <2>2. NoneRedacted'
    BY <1>1, <2>1 DEF ReadyInv, NoneRedacted, TypeOK
  <2>3. PICK B \in [Calls -> Builds], ph \in {"fail", "snap"} :
          /\ B = build \/ B = Bumped(s)
          /\ build' = [B EXCEPT ![c].phase = ph]
    <3>1. build \in [Calls -> Builds] /\ Bumped(s) \in [Calls -> Builds]
      BY BumpedIs DEF TypeOK
    <3>. QED  BY <1>12, <3>1 DEF UseTiers
  <2>4. build'[c].phase = ph /\ \A d \in Calls \ {c} : build'[d].phase = build[d].phase
    BY <1>1, <2>3, BumpedIs DEF TypeOK, Builds
  <2>5. Follows(c)'
    BY <2>4 DEF Follows
  <2>. QED  BY <1>4, <2>1, <2>2, <2>4, <2>5 DEF Running
<1>13. ASSUME NEW c \in Calls, Aggregated(c) PROVE Goal
  <2>. DEFINE s == Host[c]
  <2>1. /\ mem' = [mem EXCEPT ![s].asserted = build[c].kept, ![s].derived = build[c].inputs]
        /\ disk' = Saved(mem'[s], prints[s])
        /\ build' = [Bumped(s) EXCEPT ![c].phase = "snap"]
        /\ status' = status /\ build[c].phase = "aggregate"
    BY <1>2, <1>13 DEF Aggregated
  <2>2. /\ s \in Servers /\ Bumped(s) \in [Calls -> Builds]
        /\ \A d \in Calls : Bumped(s)[d].phase = build[d].phase
    BY <1>1, BumpedIs DEF TypeOK
  <2>3. \A t \in Servers : mem'[t].gran = mem[t].gran
    BY <1>1, <2>1, <2>2 DEF TypeOK, Lists
  <2>4. disk'.lists = mem'[s]
    BY <1>1, <2>1 DEF Disks, Saved
  <2>5. NoneRedacted'
    BY <2>2, <2>3, <2>4 DEF ReadyInv, NoneRedacted
  <2>6. build'[c].phase = "snap" /\ \A d \in Calls \ {c} : build'[d].phase = build[d].phase
    BY <2>1, <2>2 DEF Builds
  <2>7. Follows(c)'
    BY <2>6 DEF Follows
  <2>. QED  BY <1>4, <2>1, <2>5, <2>6, <2>7 DEF Running
<1>14. ASSUME NEW c \in Calls, UseCache(c) PROVE Goal
  <2>. DEFINE b == [build[c] EXCEPT !.phase = "commit", !.moved = FALSE,
                                    !.snap = PrintOf(mem[Host[c]]), !.vectors = disk.embs]
  <2>1. build' = [build EXCEPT ![c] = b] /\ build[c].phase = "snap" /\ UNCHANGED <<status, mem, disk>>
    BY <1>14 DEF UseCache, TypeOK
  <2>2. b.snap = PrintOf(mem[Host[c]]) /\ b.phase = "commit"
    BY <1>1 DEF Builds
  <2>. HIDE DEF b
  <2>3. build'[c] = b /\ \A d \in Calls \ {c} : build'[d] = build[d]
    BY <2>1 DEF TypeOK
  <2>4. PrintOf(mem[Host[c]])' = PrintOf(mem[Host[c]])
    BY <2>1 DEF PrintOf
  <2>5. Follows(c)'
    BY <2>2, <2>3, <2>4 DEF Follows
  <2>. QED  BY <1>4, <2>1, <2>3, <2>5 DEF Running, ReadyInv, NoneRedacted
<1>15. ASSUME NEW c \in Calls, StartEmbedding(c) PROVE Goal
  <2>. DEFINE P == PrintOf(mem[Host[c]])
              b == [build[c] EXCEPT !.phase = "embed", !.moved = FALSE, !.snap = P, !.vectors = P]
  <2>1. /\ build' = [build EXCEPT ![c] = b] /\ build[c].phase = "snap"
        /\ disk' = disk \/ disk' = Saved(mem[Host[c]], prints[Host[c]])
        /\ UNCHANGED <<status, mem>>
    BY <1>2, <1>15 DEF StartEmbedding, TypeOK
  <2>2. b.snap = P /\ b.phase = "embed"
    BY <1>1 DEF Builds
  <2>. HIDE DEF b
  <2>3. build'[c] = b /\ \A d \in Calls \ {c} : build'[d] = build[d]
    BY <2>1 DEF TypeOK
  <2>4. PrintOf(mem[Host[c]])' = P
    BY <2>1 DEF PrintOf
  <2>5. Follows(c)'
    BY <2>2, <2>3, <2>4 DEF Follows
  <2>6. disk'.lists = disk.lists \/ disk'.lists = mem[Host[c]]
    BY <1>1, <2>1 DEF Disks, Saved
  <2>7. NoneRedacted'
    BY <1>1, <2>1, <2>6 DEF ReadyInv, NoneRedacted
  <2>. QED  BY <1>4, <2>1, <2>3, <2>5, <2>7 DEF Running
(* Steps of which the phase is all that concerns the facts. *)
<1>16. ASSUME NEW c \in Calls, NEW ph, Running(c),
              build' = [build EXCEPT ![c].phase = ph], UNCHANGED <<status, mem, tiersDirty>>,
              disk'.lists = disk.lists \/ disk'.lists = mem[Host[c]],
              ph # "embed",
              ph = "commit" => build[c].snap = PrintOf(mem[Host[c]]),
              ph = "release" => index'[Host[c]].of = PrintOf(mem[Host[c]])
       PROVE  Goal
  <2>1. /\ build'[c].phase = ph /\ build'[c].snap = build[c].snap
        /\ \A d \in Calls \ {c} : build'[d] = build[d]
    BY <1>1, <1>16 DEF TypeOK, Builds
  <2>2. PrintOf(mem[Host[c]])' = PrintOf(mem[Host[c]])
    BY <1>16 DEF PrintOf
  <2>3. Follows(c)'
    BY <1>16, <2>1, <2>2 DEF Follows
  <2>4. NoneRedacted'
    BY <1>1, <1>16 DEF ReadyInv, NoneRedacted
  <2>. QED  BY <1>4, <1>16, <2>1, <2>3, <2>4
<1>17. ASSUME NEW c \in Calls, Embedded(c) PROVE Goal
  <2>1. PICK ph \in {"retry", "commit"} :
          /\ build' = [build EXCEPT ![c].phase = ph]
          /\ disk' = disk \/ disk' = [disk EXCEPT !.embs = build[c].vectors]
          /\ ph = "commit" => ~Stale(c)
    BY <1>2, <1>17 DEF Embedded
  <2>2. build[c].phase = "embed" /\ UNCHANGED <<status, mem, tiersDirty>>
    BY <1>17 DEF Embedded
  <2>3. ph = "commit" => build[c].snap = PrintOf(mem[Host[c]])
    BY <2>1, <2>2 DEF ReadyInv, Follows
  <2>4. disk'.lists = disk.lists
    BY <1>1, <2>1 DEF Disks
  <2>. QED  BY <1>16, <2>1, <2>2, <2>3, <2>4 DEF Running
<1>18. ASSUME NEW c \in Calls, Commit(c) PROVE Goal
  <2>1. /\ build' = [build EXCEPT ![c].phase = "release"] /\ build[c].phase = "commit"
        /\ disk' = Saved(mem[Host[c]], build[c].snap)
        /\ index' = [index EXCEPT ![Host[c]] = [of |-> SnapshotNow(c), vectors |-> build[c].vectors]]
        /\ UNCHANGED <<status, mem, tiersDirty>>
    BY <1>2, <1>18 DEF Commit
  <2>2. build[c].snap = PrintOf(mem[Host[c]])
    BY <2>1 DEF ReadyInv, Follows
  <2>3. SnapshotNow(c) = PrintOf(mem[Host[c]])
    <3>1. [a \in Artifacts |-> IF build[c].snap.texts[a] = "none" THEN "none" ELSE Text(mem[Host[c]].gran[a])]
            = [a \in Artifacts |-> Text(mem[Host[c]].gran[a])]
      BY <2>2 DEF PrintOf
    <3>2. build[c].snap = [texts |-> [a \in Artifacts |-> Text(mem[Host[c]].gran[a])],
                           asserted |-> build[c].snap.asserted, derived |-> build[c].snap.derived]
      BY <2>2 DEF PrintOf
    <3>3. SnapshotNow(c) = [build[c].snap EXCEPT !.texts =
             [a \in Artifacts |-> IF build[c].snap.texts[a] = "none" THEN "none" ELSE Text(mem[Host[c]].gran[a])]]
      BY DEF SnapshotNow
    <3>. QED  BY <2>2, <3>1, <3>2, <3>3
  <2>4. index'[Host[c]].of = PrintOf(mem[Host[c]])
    BY <1>1, <2>1, <2>3 DEF TypeOK
  <2>5. disk'.lists = mem[Host[c]]
    BY <1>1, <2>1 DEF Disks, Saved
  <2>. QED  BY <1>16, <2>1, <2>4, <2>5 DEF Running
<1>19. ASSUME NEW c \in Calls, AwaitRaises(c) PROVE Goal
  BY <1>16, <1>19 DEF AwaitRaises, Running
<1>20. ASSUME NEW c \in Calls, Retry(c) PROVE Goal
  <2>. DEFINE b == IF build[c].try < MaxTries
                   THEN [NoBuild EXCEPT !.phase = "top", !.try = build[c].try + 1, !.leased = build[c].leased]
                   ELSE [build[c] EXCEPT !.phase = "fail"]
  <2>1. build' = [build EXCEPT ![c] = b] /\ build[c].phase = "retry" /\ UNCHANGED <<status, mem, disk>>
    BY <1>20 DEF Retry, TypeOK
  <2>2. b.phase \in {"top", "fail"}
    BY <1>1 DEF Builds, NoBuild
  <2>. HIDE DEF b
  <2>3. build'[c] = b /\ \A d \in Calls \ {c} : build'[d] = build[d]
    BY <2>1 DEF TypeOK
  <2>4. Follows(c)'
    BY <2>2, <2>3 DEF Follows
  <2>. QED  BY <1>4, <2>1, <2>3, <2>4 DEF Running, ReadyInv, NoneRedacted
<1>21. ASSUME NEW c \in Calls, Release(c) \/ ReleaseFailed(c) PROVE Goal
  <2>1. build[c].phase \in {"release", "fail"} /\ build' = [build EXCEPT ![c] = NoBuild]
        /\ UNCHANGED <<mem, index, disk, tiersDirty>>
    BY <1>21 DEF Release, ReleaseFailed
  <2>2. build'[c].phase = "idle" /\ \A d \in Calls \ {c} : build'[d] = build[d]
    BY <2>1 DEF TypeOK, NoBuild
  <2>3. status.owner = Host[c]
    BY <1>2, <2>1 DEF LeaseInv, Running
  <2>4. \A d \in Calls : Follows(d)'
    <3>1. Follows(c)'
      BY <2>2 DEF Follows
    <3>2. \A d \in Calls \ {c} : Follows(d)'
      BY <2>1, <2>2 DEF ReadyInv, Follows, Stale
    <3>. QED  BY <3>1, <3>2
  <2>5. status'.lease = "none" /\ ~(status'.backoff /\ ~status'.dirty)
    BY <1>1, <1>21, <2>3 DEF Release, ReleaseFailed, Released, Statuses
  <2>6. \A s \in Servers : Owed(s)'
    <3>1. CASE Release(c)
      <4>1. index[Host[c]].of = PrintOf(mem[Host[c]])
        BY <3>1 DEF Release, ReadyInv, Follows
      <4>2. \A s \in Servers : PrintOf(mem[s])' = PrintOf(mem[s])
        BY <2>1 DEF PrintOf
      <4>. QED  BY <1>1, <1>2, <2>1, <4>1, <4>2 DEF Owed
    <3>2. CASE ReleaseFailed(c)
      <4>1. status'.dirty
        BY <1>1, <2>3, <3>2 DEF ReleaseFailed, Released, Statuses
      <4>. QED  BY <4>1 DEF Owed
    <3>. QED  BY <1>21, <3>1, <3>2
  <2>. QED  BY <2>1, <2>4, <2>5, <2>6 DEF ReadyInv, NoneRedacted
<1>22. ~LeaseExpires
  BY <1>2 DEF LeaseExpires, ReadyInv
<1>23. ASSUME BackoffEnds PROVE Goal
  <2>1. /\ status'.lease = status.lease /\ status'.owner = status.owner /\ ~status'.backoff
        /\ status'.dirty = status.dirty /\ UNCHANGED <<mem, index, disk, tiersDirty, build>>
    BY <1>1, <1>23 DEF BackoffEnds, Statuses
  <2>2. \A c \in Calls : Follows(c)'
    BY <2>1 DEF ReadyInv, Follows, Stale
  <2>3. \A s \in Servers : Owed(s)'
    BY <2>1 DEF ReadyInv, Owed
  <2>. QED  BY <2>1, <2>2, <2>3 DEF ReadyInv, NoneRedacted
<1>24. ASSUME UNCHANGED vars PROVE Goal
  BY <1>24 DEF vars, ReadyInv, Owed, Follows, Stale, NoneRedacted
<1>. HIDE DEF Goal
<1>25. Goal
  BY <1>6, <1>7, <1>8, <1>9, <1>10, <1>11, <1>12, <1>13, <1>14, <1>15, <1>17, <1>18, <1>19, <1>20,
     <1>21, <1>22, <1>23, <1>24 DEF Next, ServerStep, BuildStep
<1>. QED  BY <1>25 DEF Goal

(* What index_state "ready" says: the index covers exactly the facts there *)
(* are, however writes and failed model calls meet the builds.             *)
THEOREM ReadyCoversTheFacts == ASSUME ModelFailuresOnly PROVE Spec => []ReadyIsCurrent
<1>1. Init => LeaseInv
  BY DEF Init, LeaseInv, NoBuild, Running
<1>2. Init => ReadyInv
  <2>. SUFFICES ASSUME Init PROVE ReadyInv
    OBVIOUS
  <2>1. \A c \in Calls : build[c].phase = "idle"
    BY DEF Init, NoBuild
  <2>2. \A s \in Servers : index[s].of = PrintOf(mem[s])
    BY DEF Init, NoIndex, NoPrint
  <2>3. NoneRedacted
    BY DEF Init, NoneRedacted, NoLists
  <2>4. ~status.backoff /\ status.lease = "none"
    BY DEF Init
  <2>. QED  BY <2>1, <2>2, <2>3, <2>4 DEF ReadyInv, Owed, Follows
<1>3. TypeOK /\ LeaseInv /\ [Next]_vars => LeaseInv'
  BY LeaseStep DEF OneCallEach, ModelFailuresOnly
<1>4. TypeOK /\ LeaseInv /\ ReadyInv /\ [Next]_vars => ReadyInv'
  BY ReadyStep
<1>5. ReadyInv => ReadyIsCurrent
  BY DEF ReadyInv, ReadyIsCurrent, Ready, Owed
<1>. QED  BY <1>1, <1>2, <1>3, <1>4, <1>5, IndexTypeCorrect, PTL DEF Spec
-----------------------------------------------------------------------------
(* One process that may die and whose writes may fail, in which no content *)
(* is redacted: a redacted fact keeps the vector of the text it had.       *)
VectorsKept ==
  /\ \A s, t \in Servers : s = t
  /\ Environment \subseteq {"crash", "persist_error", "raise", "retract", "purge"}

Known(L)  == {a \in Artifacts : L.gran[a] # "none"}
Purged(L) == {a \in Artifacts : L.gran[a] = "purged"}
Worded(P) == {a \in Artifacts : P.texts[a] # "none"}

CleanLists(L) == \A a \in Artifacts : L.gran[a] # "redacted"
CleanPrint(P) == \A a \in Artifacts : P.texts[a] # "redacted"

(* P is the fingerprint of lists that L has come from: what it mentions is *)
(* in L or was purged.  Derived facts are dropped and collected anew.      *)
Older(P, L) ==
  /\ Worded(P) \subseteq Known(L)
  /\ P.derived \subseteq Known(L)
  /\ P.asserted \subseteq L.asserted \cup Purged(L)
  /\ L.derived = {} \/ P.derived \subseteq L.derived \cup Purged(L)

(* What clients, aggregations and restarts make of the lists.              *)
Grown(L, N) ==
  /\ Known(L) \subseteq Known(N)
  /\ Purged(L) \subseteq Purged(N)
  /\ L.asserted \subseteq N.asserted \cup Purged(N)
  /\ (N.asserted \ L.asserted) \cap Purged(L) = {}
  /\ N.derived \in {{}, L.derived, Known(N) \ Purged(N)}

(* The fingerprint P mentions an artifact that L has purged, and lacks.    *)
Lost(P, L, a) ==
  /\ a \in Purged(L)
  /\ \/ a \in Worded(P)
     \/ a \in P.asserted \ L.asserted
     \/ a \in P.derived \ L.derived

LEMMA SameCounts ==
  ASSUME NEW P \in Prints, NEW Q \in Prints, CleanPrint(P), CleanPrint(Q), Counts(P) = Counts(Q),
         Worded(P) \subseteq Worded(Q), P.asserted \subseteq Q.asserted, P.derived \subseteq Q.derived
  PROVE  P = Q
<1>1. \A A, B \in SUBSET Artifacts : A \subseteq B /\ Cardinality(A) = Cardinality(B) => A = B
  BY IndexAssumption, FS_Subset
<1>2. /\ Worded(P) \in SUBSET Artifacts /\ Worded(Q) \in SUBSET Artifacts
      /\ P.asserted \in SUBSET Artifacts /\ Q.asserted \in SUBSET Artifacts
      /\ P.derived \in SUBSET Artifacts /\ Q.derived \in SUBSET Artifacts
  BY DEF Worded, Prints
<1>3. /\ Cardinality(Worded(P)) = Cardinality(Worded(Q))
      /\ Cardinality(P.asserted) = Cardinality(Q.asserted)
      /\ Cardinality(P.derived) = Cardinality(Q.derived)
  BY DEF Counts, Worded
<1>4. Worded(P) = Worded(Q) /\ P.asserted = Q.asserted /\ P.derived = Q.derived
  BY <1>1, <1>2, <1>3
<1>5. \A a \in Artifacts : P.texts[a] = Q.texts[a]
  <2>. TAKE a \in Artifacts
  <2>1. P.texts[a] \in {"none", "text"} /\ Q.texts[a] \in {"none", "text"}
    BY DEF Prints, CleanPrint
  <2>. QED  BY <1>4, <2>1 DEF Worded
<1>6. P.texts = Q.texts
  BY <1>5 DEF Prints
<1>. QED  BY <1>4, <1>6 DEF Prints

LEMMA PrintFields ==
  ASSUME NEW L \in Lists, CleanLists(L)
  PROVE  /\ PrintOf(L) \in Prints /\ CleanPrint(PrintOf(L))
         /\ Worded(PrintOf(L)) = Known(L) \ Purged(L)
         /\ PrintOf(L).asserted = L.asserted /\ PrintOf(L).derived = L.derived
<1>1. \A a \in Artifacts : L.gran[a] \in FactKinds
  BY DEF Lists
<1>2. \A a \in Artifacts : PrintOf(L).texts[a] = Text(L.gran[a])
  BY DEF PrintOf
<1>3. \A a \in Artifacts : Text(L.gran[a]) = IF L.gran[a] \in {"none", "purged"} THEN "none" ELSE "text"
  BY <1>1 DEF Text, CleanLists, FactKinds
<1>4. PrintOf(L).asserted = L.asserted /\ PrintOf(L).derived = L.derived
  BY DEF PrintOf
<1>. QED  BY <1>2, <1>3, <1>4, ListsAre DEF CleanPrint, Worded, Known, Purged

(* An older fingerprint with as many vectors is the present one, or of     *)
(* lists that have held something purged since.                            *)
LEMMA SameOrLost ==
  ASSUME NEW L \in Lists, CleanLists(L), NEW P \in Prints, CleanPrint(P), Older(P, L),
         Counts(P) = Counts(PrintOf(L))
  PROVE  P = PrintOf(L) \/ \E a \in Artifacts : Lost(P, L, a)
<1>. SUFFICES ASSUME \A a \in Artifacts : ~Lost(P, L, a) PROVE P = PrintOf(L)
  OBVIOUS
<1>1. Worded(P) \subseteq Worded(PrintOf(L))
  BY PrintFields DEF Older, Lost, Worded
<1>2. P.asserted \subseteq PrintOf(L).asserted
  BY PrintFields DEF Older, Lost, Purged
<1>3. P.derived \subseteq PrintOf(L).derived
  <2>1. CASE L.derived = {}
    <3>1. Cardinality(P.derived) = Cardinality({})
      BY <2>1, PrintFields DEF Counts
    <3>2. P.derived \in SUBSET Artifacts
      BY DEF Prints
    <3>3. IsFiniteSet(P.derived) /\ {} \subseteq P.derived
      BY <3>2, IndexAssumption, FS_Subset
    <3>. QED  BY <3>1, <3>3, FS_Subset
  <2>2. CASE P.derived \subseteq L.derived \cup Purged(L)
    BY <2>2, PrintFields DEF Lost, Purged
  <2>. QED  BY <2>1, <2>2 DEF Older
<1>. QED  BY <1>1, <1>2, <1>3, PrintFields, SameCounts

LEMMA GrownIsNewer ==
  ASSUME NEW L, NEW N, NEW P, Older(P, L), Grown(L, N)
  PROVE  Older(P, N)
BY DEF Older, Grown

LEMMA GrownStaysLost ==
  ASSUME NEW L, NEW N, NEW P, NEW a, Lost(P, L, a), Grown(L, N)
  PROVE  Lost(P, N, a)
BY DEF Lost, Grown

LEMMA GrownItself == \A L : Grown(L, L)
BY DEF Grown

-----------------------------------------------------------------------------
(* What an aggregation makes of the lists of its server when it is done.   *)
Gathered(c) == [mem[Host[c]] EXCEPT !.asserted = build[c].kept, !.derived = build[c].inputs]

(* The lists there are, or that somebody is about to make.                 *)
Currents(s) == {mem[s], disk.lists} \cup {Gathered(c) : c \in {d \in CallsOf(s) : build[d].phase = "aggregate"}}

Saveds(s) == {prints[s], disk.prints, disk.embs}

ListsGrew(s) ==
  \A L \in Currents(s) : /\ CleanLists(L)
                         /\ L.derived \subseteq Known(L)
                         /\ \A P \in Saveds(s) : Older(P, L)

(* As many vectors as a saved fingerprint has facts are its own vectors,   *)
(* or the fingerprint is of lists that will never be again.                *)
CountsTell(s) ==
  \A P \in {prints[s], disk.prints} :
    Counts(P) = Counts(disk.embs) =>
      P = disk.embs \/ \E a \in Artifacts : \A L \in Currents(s) : Lost(P, L, a)

(* A build embeds what it has taken, and commits to the vectors it saved.  *)
Consistent(c) ==
  LET s == Host[c] IN
  /\ build[c].phase = "embed" =>
       /\ build[c].vectors = build[c].snap
       /\ Stale(c) \/ (build[c].snap = PrintOf(mem[s]) /\ disk.lists = mem[s])
  /\ build[c].phase = "commit" =>
       build[c].snap = PrintOf(mem[s]) /\ build[c].vectors = build[c].snap /\ disk.embs = build[c].snap

VectorInv ==
  /\ \A s \in Servers : /\ ListsGrew(s)
                        /\ \A P \in Saveds(s) : CleanPrint(P)
                        /\ CountsTell(s)
  /\ \A c \in Calls : Consistent(c)
  /\ VectorsMatch

LEMMA GatheredIs ==
  ASSUME TypeOK
  PROVE  \A c \in Calls : /\ Gathered(c) \in Lists
                          /\ Gathered(c).gran = mem[Host[c]].gran
                          /\ Gathered(c).asserted = build[c].kept
                          /\ Gathered(c).derived = build[c].inputs
<1>1. \A c \in Calls : /\ Host[c] \in Servers /\ mem[Host[c]] \in Lists
                       /\ build[c].kept \in SUBSET Artifacts /\ build[c].inputs \in SUBSET Artifacts
  BY IndexAssumption DEF TypeOK, Builds
<1>. QED  BY <1>1 DEF Gathered, Lists

LEMMA CurrentTypes ==
  ASSUME TypeOK, NEW s \in Servers
  PROVE  /\ \A L \in Currents(s) : L \in Lists
         /\ \A P \in Saveds(s) : P \in Prints
<1>1. mem[s] \in Lists /\ disk.lists \in Lists /\ \A c \in CallsOf(s) : Gathered(c) \in Lists
  BY GatheredIs DEF TypeOK, CallsOf
<1>. QED  BY <1>1 DEF TypeOK, Currents, Saveds

LEMMA NoneIsOld ==
  /\ CleanPrint(NoPrint) /\ Worded(NoPrint) = {} /\ NoPrint.asserted = {} /\ NoPrint.derived = {}
  /\ \A L : Older(NoPrint, L)
<1>1. CleanPrint(NoPrint) /\ Worded(NoPrint) = {} /\ NoPrint.asserted = {} /\ NoPrint.derived = {}
  BY DEF CleanPrint, Worded, NoPrint, PrintOf, NoLists, Text
<1>. QED  BY <1>1 DEF Older

(* A lost fingerprint is not that of any lists.                            *)
LEMMA LostIsNot ==
  ASSUME NEW L \in Lists, CleanLists(L), NEW a \in Artifacts, NEW P, Lost(P, L, a)
  PROVE  P # PrintOf(L)
BY PrintFields DEF Lost

(* Lists that have grown from those there were, and fingerprints copied.   *)
LEMMA Copied ==
  ASSUME TypeOK, TypeOK', VectorInv, NEW s \in Servers,
         \A N \in Currents(s)' : CleanLists(N) /\ \E L \in Currents(s) : Grown(L, N),
         prints'[s] \in {prints[s], disk.prints, NoPrint},
         disk'.prints \in {prints[s], disk.prints, NoPrint},
         disk'.embs = disk.embs
  PROVE  ListsGrew(s)' /\ (\A P \in Saveds(s)' : CleanPrint(P)) /\ CountsTell(s)'
<1>1. \A P \in Saveds(s)' : P = NoPrint \/ P \in Saveds(s)
  BY DEF Saveds
<1>2. \A P \in Saveds(s)' : CleanPrint(P)
  BY <1>1, NoneIsOld DEF VectorInv
<1>3. ASSUME NEW N \in Currents(s)', NEW L \in Currents(s), Grown(L, N)
      PROVE  N.derived \subseteq Known(N) /\ \A P \in Saveds(s)' : Older(P, N)
  <2>1. L.derived \subseteq Known(L) /\ \A P \in Saveds(s) : Older(P, L)
    BY DEF VectorInv, ListsGrew
  <2>2. \A P \in Saveds(s)' : Older(P, N)
    BY <1>1, <1>3, <2>1, NoneIsOld, GrownIsNewer
  <2>. QED  BY <1>3, <2>1, <2>2 DEF Grown
<1>4. ListsGrew(s)'
  <2>. SUFFICES \A N \in Currents(s)' : /\ CleanLists(N)
                                        /\ N.derived \subseteq Known(N)
                                        /\ \A P \in Saveds(s)' : Older(P, N)
    BY DEF ListsGrew
  <2>. QED  BY <1>3
<1>5. CountsTell(s)'
  <2>. SUFFICES ASSUME NEW P \in {prints'[s], disk'.prints}, Counts(P) = Counts(disk.embs), P # disk.embs
                PROVE  \E a \in Artifacts : \A N \in Currents(s)' : Lost(P, N, a)
    BY DEF CountsTell
  <2>1. CASE P = NoPrint
    <3>1. disk.embs \in Prints /\ CleanPrint(disk.embs) /\ NoPrint \in Prints
      BY NoneAre, CurrentTypes DEF Saveds, VectorInv
    <3>2. NoPrint = disk.embs
      BY <2>1, <3>1, NoneIsOld, SameCounts
    <3>. QED  BY <2>1, <3>2
  <2>2. CASE P # NoPrint
    <3>1. P \in {prints[s], disk.prints}
      BY <2>2
    <3>2. PICK a \in Artifacts : \A L \in Currents(s) : Lost(P, L, a)
      BY <3>1 DEF VectorInv, CountsTell
    <3>3. \A N \in Currents(s)' : Lost(P, N, a)
      BY <3>2, GrownStaysLost
    <3>. QED  BY <3>3
  <2>. QED  BY <2>1, <2>2
<1>. QED  BY <1>2, <1>4, <1>5

LEMMA SnapshotIsCurrent ==
  ASSUME NEW c, build[c].snap = PrintOf(mem[Host[c]])
  PROVE  SnapshotNow(c) = build[c].snap
<1>. DEFINE gran == mem[Host[c]].gran
<1>1. [a \in Artifacts |-> IF build[c].snap.texts[a] = "none" THEN "none" ELSE Text(gran[a])]
        = [a \in Artifacts |-> Text(gran[a])]
  BY DEF PrintOf
<1>2. build[c].snap = [texts |-> [a \in Artifacts |-> Text(gran[a])],
                       asserted |-> build[c].snap.asserted, derived |-> build[c].snap.derived]
  BY DEF PrintOf
<1>3. SnapshotNow(c) = [build[c].snap EXCEPT !.texts =
         [a \in Artifacts |-> IF build[c].snap.texts[a] = "none" THEN "none" ELSE Text(gran[a])]]
  BY DEF SnapshotNow
<1>. QED  BY <1>1, <1>2, <1>3

LEMMA VectorStep ==
  ASSUME VectorsKept, TypeOK, LeaseInv, VectorInv, [Next]_vars
  PROVE  VectorInv'
<1>. DEFINE Goal == VectorInv'
<1>. USE NoneAre
<1>1. /\ \A c \in Calls : build[c] \in Builds /\ Host[c] \in Servers
      /\ \A s \in Servers : /\ mem[s] \in Lists /\ Underived(mem[s]) \in Lists
                            /\ Underived(mem[s]).gran = mem[s].gran
                            /\ Underived(mem[s]).asserted = mem[s].asserted
                            /\ Underived(mem[s]).derived = {}
      /\ disk \in Disks
  BY IndexAssumption, ListsAre DEF TypeOK, Disks
<1>2. /\ \A s, t \in Servers : s = t
      /\ "slow_build" \notin Environment /\ "redact" \notin Environment /\ "reload" \notin Environment
  BY DEF VectorsKept
<1>3. TypeOK'
  BY TypeStep
<1>4. \A c \in Calls : /\ Gathered(c).gran = mem[Host[c]].gran
                       /\ Gathered(c).asserted = build[c].kept
                       /\ Gathered(c).derived = build[c].inputs
  BY GatheredIs
<1>5. \A c \in Calls : /\ Gathered(c)'.gran = mem'[Host[c]].gran
                       /\ Gathered(c)'.asserted = build'[c].kept
                       /\ Gathered(c)'.derived = build'[c].inputs
  <2>1. \A c \in Calls : /\ mem'[Host[c]] \in Lists
                         /\ build'[c].kept \in SUBSET Artifacts /\ build'[c].inputs \in SUBSET Artifacts
    BY <1>1, <1>3 DEF TypeOK, Builds
  <2>. QED  BY <2>1 DEF Gathered, Lists
<1>6. ASSUME NEW s \in Servers, ListsGrew(s)', \A P \in Saveds(s)' : CleanPrint(P), CountsTell(s)',
             \A c \in Calls : Consistent(c)', index'[s].of = index'[s].vectors
      PROVE  Goal
  <2>1. Servers = {s}
    BY <1>2
  <2>. QED  BY <1>6, <2>1 DEF VectorInv, VectorsMatch
<1>7. \A s \in Servers : index'[s] \in {index[s], NoIndex} => index'[s].of = index'[s].vectors
  BY DEF VectorInv, VectorsMatch, NoIndex
<1>8. \A s \in Servers : /\ mem[s] \in Currents(s) /\ disk.lists \in Currents(s)
                         /\ CleanLists(mem[s]) /\ CleanLists(disk.lists)
  BY DEF Currents, VectorInv, ListsGrew
(* What a client does to the lists; the builds are told. *)
<1>9. ASSUME NEW s \in Servers, LoopFree(s),
             Grown(mem[s], mem'[s]), CleanLists(mem'[s]),
             disk'.lists = mem'[s] \/ (Grown(disk.lists, disk'.lists) /\ CleanLists(disk'.lists)),
             prints'[s] = prints[s], disk'.prints \in {disk.prints, prints[s]}, disk'.embs = disk.embs,
             index'[s] \in {index[s], NoIndex},
             \A c \in Calls :
               \/ build'[c].phase = "ask"
               \/ /\ build'[c].phase = build[c].phase
                  /\ build'[c].kept = build[c].kept /\ build'[c].inputs = build[c].inputs
                  /\ build'[c].snap = build[c].snap /\ build'[c].vectors = build[c].vectors
                  /\ build'[c].phase = "embed" => Stale(c)'
      PROVE  Goal
  <2>1. \A c \in Calls : Host[c] = s /\ build[c].phase # "commit"
    BY <1>1, <1>2, <1>9 DEF LoopFree, CallsOf, SyncPhases
  <2>2. ASSUME NEW c \in Calls, build'[c].phase = "aggregate"
        PROVE  CleanLists(Gathered(c)') /\ Gathered(c) \in Currents(s) /\ Grown(Gathered(c), Gathered(c)')
    <3>1. build[c].phase = "aggregate" /\ build'[c].kept = build[c].kept /\ build'[c].inputs = build[c].inputs
      BY <1>9, <2>2
    <3>2. Gathered(c) \in Currents(s)
      BY <2>1, <3>1 DEF Currents, CallsOf
    <3>3. Gathered(c)'.gran = mem'[s].gran /\ Gathered(c).gran = mem[s].gran
      BY <1>4, <1>5, <2>1
    <3>4. Gathered(c)'.asserted = Gathered(c).asserted /\ Gathered(c)'.derived = Gathered(c).derived
      BY <1>4, <1>5, <3>1
    <3>5. Grown(Gathered(c), Gathered(c)')
      BY <1>9, <3>3, <3>4 DEF Grown, Known, Purged
    <3>. QED  BY <1>9, <3>2, <3>3, <3>5 DEF CleanLists
  <2>3. \A N \in Currents(s)' : CleanLists(N) /\ \E L \in Currents(s) : Grown(L, N)
    <3>1. \A N \in Currents(s)' : \/ N = mem'[s] \/ N = disk'.lists
                                  \/ \E c \in Calls : build'[c].phase = "aggregate" /\ N = Gathered(c)'
      BY DEF Currents, CallsOf
    <3>. QED  BY <1>8, <1>9, <2>2, <3>1
  <2>4. \A c \in Calls : Consistent(c)'
    <3>. TAKE c \in Calls
    <3>1. build'[c].phase # "commit"
      BY <1>9, <2>1
    <3>2. build'[c].phase = "embed" => build'[c].vectors = build'[c].snap /\ Stale(c)'
      BY <1>9 DEF VectorInv, Consistent
    <3>. QED  BY <3>1, <3>2 DEF Consistent
  <2>. QED  BY <1>3, <1>6, <1>7, <1>9, <2>3, <2>4, Copied
(* A step of a running build. *)
<1>10. ASSUME NEW c \in Calls, Running(c), \A d \in Calls \ {c} : build'[d].phase = build[d].phase
       PROVE  /\ \A d \in Calls \ {c} : build'[d].phase \in {"idle", "ask"} /\ Consistent(d)'
              /\ \A N \in Currents(Host[c])' :
                   \/ N = mem'[Host[c]] \/ N = disk'.lists
                   \/ build'[c].phase = "aggregate" /\ N = Gathered(c)'
  <2>1. \A d \in Calls \ {c} : build'[d].phase \in {"idle", "ask"}
    BY <1>2, <1>10 DEF LeaseInv, Running
  <2>2. \A d \in Calls \ {c} : Consistent(d)'
    BY <2>1 DEF Consistent
  <2>. QED  BY <2>1, <2>2 DEF Currents, CallsOf
<1>11. ASSUME NEW c \in Calls, NEW s, s = Host[c], Running(c),
              \A d \in Calls \ {c} : build'[d].phase = build[d].phase,
              CleanLists(mem'[s]), \E L \in Currents(s) : Grown(L, mem'[s]),
              CleanLists(disk'.lists), \E L \in Currents(s) : Grown(L, disk'.lists),
              build'[c].phase = "aggregate" =>
                CleanLists(Gathered(c)') /\ \E L \in Currents(s) : Grown(L, Gathered(c)'),
              prints'[s] = prints[s], disk'.prints \in {disk.prints, prints[s]}, disk'.embs = disk.embs,
              index'[s] \in {index[s], NoIndex}, Consistent(c)'
       PROVE  Goal
  <2>1. \A N \in Currents(s)' : CleanLists(N) /\ \E L \in Currents(s) : Grown(L, N)
    BY <1>10, <1>11
  <2>2. \A d \in Calls : Consistent(d)'
    BY <1>10, <1>11
  <2>. QED  BY <1>1, <1>3, <1>6, <1>7, <1>11, <2>1, <2>2, Copied
(* A step that leaves the data alone. *)
<1>12. ASSUME UNCHANGED <<mem, disk, prints, index, tiersDirty>>,
              \A c \in Calls : \/ build'[c].phase \notin {"aggregate", "embed", "commit"}
                               \/ /\ build'[c].phase = build[c].phase /\ build'[c].moved = build[c].moved
                                  /\ build'[c].kept = build[c].kept /\ build'[c].inputs = build[c].inputs
                                  /\ build'[c].snap = build[c].snap /\ build'[c].vectors = build[c].vectors
       PROVE  Goal
  <2>1. ASSUME NEW s \in Servers
        PROVE  ListsGrew(s)' /\ (\A P \in Saveds(s)' : CleanPrint(P)) /\ CountsTell(s)'
    <3>1. ASSUME NEW c \in CallsOf(s), build'[c].phase = "aggregate"
          PROVE  Gathered(c)' \in Currents(s)
      <4>1. /\ build[c].phase = "aggregate" /\ build'[c].kept = build[c].kept
            /\ build'[c].inputs = build[c].inputs
        BY <1>12, <3>1 DEF CallsOf
      <4>2. Gathered(c)' = Gathered(c)
        BY <1>12, <4>1 DEF Gathered
      <4>. QED  BY <4>1, <4>2 DEF Currents
    <3>2. \A N \in Currents(s)' : N \in Currents(s)
      BY <1>8, <1>12, <3>1 DEF Currents, CallsOf
    <3>3. \A N \in Currents(s)' : CleanLists(N) /\ \E L \in Currents(s) : Grown(L, N)
      BY <3>2, GrownItself DEF VectorInv, ListsGrew
    <3>. QED  BY <1>3, <1>12, <3>3, Copied
  <2>2. \A c \in Calls : Consistent(c)'
    <3>1. \A s \in Servers : PrintOf(mem[s])' = PrintOf(mem[s])
      BY <1>12 DEF PrintOf
    <3>. QED  BY <1>1, <1>12, <3>1 DEF VectorInv, Consistent, Stale
  <2>. QED  BY <1>12, <2>1, <2>2 DEF VectorInv, VectorsMatch
<1>13. ASSUME NEW s \in Servers, NEW a \in Artifacts, Store(s, a) PROVE Goal
  <2>1. /\ mem' = [mem EXCEPT ![s] = [Underived(mem[s]) EXCEPT !.gran[a] = "active"]]
        /\ tiersDirty'[s] /\ index' = [index EXCEPT ![s] = NoIndex] /\ prints' = prints
        /\ mem[s].gran[a] = "none" /\ disk.lists.gran[a] = "none" /\ LoopFree(s)
    BY <1>13 DEF Store, Unused, TypeOK
  <2>2. /\ disk' = disk \/ disk' = [disk EXCEPT !.lists.gran[a] = "active"]
        /\ build' = build \/ build' = Bumped(s)
    BY <1>13 DEF Store
  <2>3. /\ mem'[s].gran = [mem[s].gran EXCEPT ![a] = "active"] /\ mem'[s].asserted = mem[s].asserted
        /\ mem'[s].derived = {} /\ mem[s].gran \in [Artifacts -> FactKinds]
    BY <1>1, <2>1 DEF TypeOK, Lists
  <2>4. Grown(mem[s], mem'[s]) /\ CleanLists(mem'[s])
    BY <1>8, <2>1, <2>3 DEF Grown, Known, Purged, CleanLists
  <2>5. disk'.prints = disk.prints /\ disk'.embs = disk.embs
    BY <1>1, <2>2 DEF Disks
  <2>6. Grown(disk.lists, disk'.lists) /\ CleanLists(disk'.lists)
    <3>1. CASE disk' = disk
      BY <1>8, <3>1, GrownItself
    <3>2. CASE disk' = [disk EXCEPT !.lists.gran[a] = "active"]
      <4>1. /\ disk'.lists.gran = [disk.lists.gran EXCEPT ![a] = "active"]
            /\ disk'.lists.asserted = disk.lists.asserted /\ disk'.lists.derived = disk.lists.derived
            /\ disk.lists.gran \in [Artifacts -> FactKinds]
        BY <1>1, <3>2 DEF Disks, Lists
      <4>. QED  BY <1>8, <2>1, <4>1 DEF Grown, Known, Purged, CleanLists
    <3>. QED  BY <2>2, <3>1, <3>2
  <2>7. \A c \in Calls : Stale(c)'
    BY <1>1, <1>2, <2>1 DEF Stale
  <2>8. index'[s] = NoIndex
    BY <2>1 DEF TypeOK
  <2>. QED  BY <1>9, <2>1, <2>2, <2>4, <2>5, <2>6, <2>7, <2>8, BumpedIs DEF TypeOK
<1>14. ASSUME NEW s \in Servers, NEW B \in [Calls -> Builds], B = Bumped(s) PROVE
          \A c \in Calls : /\ B[c].phase = build[c].phase
                           /\ B[c].kept = build[c].kept /\ B[c].inputs = build[c].inputs
                           /\ B[c].snap = build[c].snap /\ B[c].vectors = build[c].vectors
                           /\ B[c].phase = "embed" => B[c].moved
  BY <1>1, <1>2, <1>14, BumpedIs DEF TypeOK
<1>15. ASSUME NEW c \in Calls, NEW a \in Artifacts, IngestAsserted(c, a) PROVE Goal
  <2>. DEFINE s == Host[c]
              N == [mem[s] EXCEPT !.gran[a] = "active", !.asserted = @ \cup {a}]
  <2>1. /\ mem' = [mem EXCEPT ![s].gran[a] = "active", ![s].asserted = @ \cup {a}]
        /\ UNCHANGED <<index, prints>> /\ LoopFree(s)
        /\ disk' = disk \/ disk' = Saved(mem'[s], prints[s])
        /\ build' = Bumped(s) \/ build' = [Bumped(s) EXCEPT ![c].phase = "ask"]
        /\ mem[s].gran[a] = "none"
    BY <1>1, <1>15 DEF IngestAsserted, Unused
  <2>2. s \in Servers /\ Bumped(s) \in [Calls -> Builds]
    BY <1>1, BumpedIs DEF TypeOK
  <2>3. mem' = [mem EXCEPT ![s] = N]
    BY <2>1, <2>2 DEF TypeOK
  <2>4. /\ mem'[s].gran = [mem[s].gran EXCEPT ![a] = "active"]
        /\ mem'[s].asserted = mem[s].asserted \cup {a}
        /\ mem'[s].derived = mem[s].derived /\ mem[s].gran \in [Artifacts -> FactKinds]
    BY <1>1, <2>2, <2>3 DEF TypeOK, Lists
  <2>5. Grown(mem[s], mem'[s])
    <3>1. Known(mem[s]) \subseteq Known(mem'[s])
      BY <2>4 DEF Known
    <3>2. Purged(mem[s]) \subseteq Purged(mem'[s]) /\ a \notin Purged(mem[s])
      BY <2>1, <2>4 DEF Purged
    <3>. HIDE DEF s
    <3>. QED  BY <2>4, <3>1, <3>2 DEF Grown
  <2>6. CleanLists(mem'[s])
    BY <1>8, <2>2, <2>4 DEF CleanLists
  <2>7. /\ disk'.lists = mem'[s] \/ disk'.lists = disk.lists
        /\ disk'.prints \in {disk.prints, prints[s]} /\ disk'.embs = disk.embs
    BY <1>1, <2>1 DEF Disks, Saved
  <2>8. \A d \in Calls : build'[d].phase = "ask" \/ build'[d] = Bumped(s)[d]
    BY <2>1, <2>2 DEF Builds
  <2>9. \A d \in Calls :
          \/ build'[d].phase = "ask"
          \/ /\ build'[d].phase = build[d].phase
             /\ build'[d].kept = build[d].kept /\ build'[d].inputs = build[d].inputs
             /\ build'[d].snap = build[d].snap /\ build'[d].vectors = build[d].vectors
             /\ build'[d].phase = "embed" => Stale(d)'
    BY <1>14, <2>2, <2>8 DEF Stale
  <2>. HIDE DEF s
  <2>. QED  BY <1>8, <1>9, <2>1, <2>2, <2>5, <2>6, <2>7, <2>9, GrownItself
<1>16. ASSUME NEW s \in Servers, NEW a \in Artifacts, Retract(s, a) \/ Purge(s, a) PROVE Goal
  <2>1. /\ index' = [index EXCEPT ![s] = NoIndex] /\ prints' = prints
        /\ disk' = disk \/ disk' = Saved(mem'[s], prints[s])
        /\ build' = Bumped(s) /\ LoopFree(s) /\ a \in Held(mem[s])
    BY <1>16 DEF Retract, Purge, SaveCache
  <2>2. mem[s].gran \in [Artifacts -> FactKinds] /\ mem[s].gran[a] \notin {"none", "purged"}
    BY <1>1, <2>1 DEF Lists, Held
  <2>3. Grown(mem[s], mem'[s]) /\ CleanLists(mem'[s])
    <3>1. CASE Retract(s, a)
      <4>1. mem' = [mem EXCEPT ![s].gran[a] = IF @ = "redacted" THEN @ ELSE "retracted"]
        BY <3>1 DEF Retract
      <4>2. mem[s].gran[a] # "redacted"
        BY <1>8 DEF CleanLists
      <4>3. mem'[s].gran = [mem[s].gran EXCEPT ![a] = "retracted"]
            /\ mem'[s].asserted = mem[s].asserted /\ mem'[s].derived = mem[s].derived
        BY <1>1, <4>1, <4>2 DEF TypeOK, Lists
      <4>. QED  BY <1>8, <2>2, <4>3 DEF Grown, Known, Purged, CleanLists
    <3>2. CASE Purge(s, a)
      <4>1. mem' = [mem EXCEPT ![s] = [Underived(mem[s]) EXCEPT !.gran[a] = "purged", !.asserted = @ \ {a}]]
        BY <3>2 DEF Purge
      <4>2. mem'[s].gran = [mem[s].gran EXCEPT ![a] = "purged"]
            /\ mem'[s].asserted = mem[s].asserted \ {a} /\ mem'[s].derived = {}
        BY <1>1, <4>1 DEF TypeOK, Lists
      <4>. QED  BY <1>8, <2>2, <4>2 DEF Grown, Known, Purged, CleanLists
    <3>. QED  BY <1>16, <3>1, <3>2
  <2>4. /\ disk'.lists = mem'[s] \/ disk'.lists = disk.lists
        /\ disk'.prints \in {disk.prints, prints[s]} /\ disk'.embs = disk.embs
    BY <1>1, <2>1 DEF Disks, Saved
  <2>5. \A d \in Calls :
          /\ build'[d].phase = build[d].phase
          /\ build'[d].kept = build[d].kept /\ build'[d].inputs = build[d].inputs
          /\ build'[d].snap = build[d].snap /\ build'[d].vectors = build[d].vectors
          /\ build'[d].phase = "embed" => Stale(d)'
    BY <1>14, <2>1, BumpedIs DEF Stale, TypeOK
  <2>6. index'[s] = NoIndex /\ prints'[s] = prints[s]
    BY <2>1 DEF TypeOK
  <2>. QED  BY <1>8, <1>9, <2>1, <2>3, <2>4, <2>5, <2>6, GrownItself
<1>17. ASSUME NEW s \in Servers, Restart(s) PROVE Goal
  <2>. DEFINE L == Underived(disk.lists)
  <2>1. /\ L \in Lists /\ L.gran = disk.lists.gran /\ L.asserted = disk.lists.asserted /\ L.derived = {}
        /\ CleanLists(L) /\ Grown(disk.lists, L)
    <3>1. L \in Lists /\ L.gran = disk.lists.gran /\ L.asserted = disk.lists.asserted /\ L.derived = {}
      BY <1>1, ListsAre DEF Disks
    <3>. HIDE DEF L
    <3>. QED  BY <1>8, <3>1 DEF CleanLists, Grown, Known, Purged
  <2>. HIDE DEF L
  <2>2. /\ mem'[s] = L /\ disk' = disk
        /\ index'[s] = IF Preloads(L) THEN [of |-> PrintOf(L), vectors |-> disk.embs] ELSE NoIndex
        /\ prints'[s] \in {disk.prints, NoPrint}
        /\ \A c \in Calls : build'[c] = NoBuild
    BY <1>1, <1>2, <1>17 DEF Restart, TypeOK, L
  <2>3. \A c \in Calls : build'[c].phase = "idle"
    BY <2>2 DEF NoBuild
  <2>4. \A N \in Currents(s)' : N = L \/ N = disk.lists
    BY <2>2, <2>3 DEF Currents, CallsOf
  <2>5. ListsGrew(s)' /\ (\A P \in Saveds(s)' : CleanPrint(P)) /\ CountsTell(s)'
    BY <1>3, <1>8, <2>1, <2>2, <2>4, Copied, GrownItself
  <2>6. \A c \in Calls : Consistent(c)'
    BY <2>3 DEF Consistent
  <2>7. Preloads(L) => disk.embs = PrintOf(L)
    <3>. SUFFICES ASSUME Preloads(L) PROVE disk.embs = PrintOf(L)
      OBVIOUS
    <3>1. disk.prints = PrintOf(L) /\ Counts(disk.prints) = Counts(disk.embs)
      BY DEF Preloads
    <3>2. disk.prints = disk.embs \/ \E a \in Artifacts : Lost(disk.prints, disk.lists, a)
      BY <1>8, <3>1 DEF VectorInv, CountsTell
    <3>3. \A a \in Artifacts : ~Lost(disk.prints, disk.lists, a)
      BY <2>1, <3>1, GrownStaysLost, LostIsNot
    <3>. QED  BY <3>1, <3>2, <3>3
  <2>8. index'[s].of = index'[s].vectors
    BY <2>2, <2>7 DEF NoIndex
  <2>. QED  BY <1>6, <2>5, <2>6, <2>8
<1>18. ASSUME NEW c \in Calls, NEW b, b.phase \notin {"aggregate", "embed", "commit"},
              build' = [build EXCEPT ![c] = b], UNCHANGED <<mem, disk, prints, index, tiersDirty>>
       PROVE  Goal
  <2>1. build'[c] = b /\ \A d \in Calls \ {c} : build'[d] = build[d]
    BY <1>18 DEF TypeOK
  <2>. QED  BY <1>12, <1>18, <2>1
<1>19. ASSUME NEW c \in Calls, NEW ph, ph \notin {"aggregate", "embed", "commit"},
              build' = [build EXCEPT ![c].phase = ph], UNCHANGED <<mem, disk, prints, index, tiersDirty>>
       PROVE  Goal
  <2>1. build' = [build EXCEPT ![c] = [build[c] EXCEPT !.phase = ph]]
    BY <1>19 DEF TypeOK
  <2>2. [build[c] EXCEPT !.phase = ph].phase = ph
    BY <1>1 DEF Builds
  <2>. QED  BY <1>18, <1>19, <2>1, <2>2
<1>20. ASSUME NEW c \in Calls, BuildRequested(c) \/ AwaitRaises(c) PROVE Goal
  BY <1>19, <1>20 DEF BuildRequested, AwaitRaises
<1>21. ASSUME NEW c \in Calls, Skipped(c) \/ Release(c) \/ ReleaseFailed(c) PROVE Goal
  <2>1. NoBuild.phase = "idle"
    BY DEF NoBuild
  <2>. QED  BY <1>18, <1>21, <2>1 DEF Skipped, Release, ReleaseFailed
<1>22. ASSUME NEW c \in Calls, Acquire(c) PROVE Goal
  <2>1. build' = [build EXCEPT ![c] = [build[c] EXCEPT !.phase = "top", !.leased = TRUE]]
    BY <1>22 DEF Acquire, TypeOK
  <2>2. [build[c] EXCEPT !.phase = "top", !.leased = TRUE].phase = "top"
    BY <1>1 DEF Builds
  <2>. QED  BY <1>18, <1>22, <2>1, <2>2 DEF Acquire
<1>23. ASSUME NEW c \in Calls, Retry(c) PROVE Goal
  <2>. DEFINE b == IF build[c].try < MaxTries
                   THEN [NoBuild EXCEPT !.phase = "top", !.try = build[c].try + 1, !.leased = build[c].leased]
                   ELSE [build[c] EXCEPT !.phase = "fail"]
  <2>1. build' = [build EXCEPT ![c] = b] /\ UNCHANGED <<mem, disk, prints, index, tiersDirty>>
    BY <1>23 DEF Retry, TypeOK
  <2>2. b.phase \in {"top", "fail"}
    BY <1>1 DEF Builds, NoBuild
  <2>. HIDE DEF b
  <2>. QED  BY <1>18, <2>1, <2>2
<1>24. ASSUME LeaseExpires PROVE Goal
  <2>1. \A c \in Calls : build'[c] \in {build[c], [build[c] EXCEPT !.leased = FALSE]}
    BY <1>24 DEF LeaseExpires
  <2>2. \A c \in Calls : /\ build'[c].phase = build[c].phase /\ build'[c].moved = build[c].moved
                         /\ build'[c].kept = build[c].kept /\ build'[c].inputs = build[c].inputs
                         /\ build'[c].snap = build[c].snap /\ build'[c].vectors = build[c].vectors
    BY <1>1, <2>1 DEF Builds
  <2>. QED  BY <1>12, <1>24, <2>2 DEF LeaseExpires
<1>25. ASSUME BackoffEnds \/ UNCHANGED vars \/ \E s \in Servers : RecallSchedules(s) PROVE Goal
  BY <1>12, <1>25 DEF BackoffEnds, RecallSchedules, vars
<1>26. ASSUME NEW c \in Calls, StartAggregation(c) PROVE Goal
  <2>. DEFINE s == Host[c]
              b == [build[c] EXCEPT !.phase = "aggregate", !.inputs = Held(mem[s]), !.kept = mem[s].asserted]
  <2>1. /\ build' = [build EXCEPT ![c] = b]
        /\ build[c].phase = "top" /\ UNCHANGED <<mem, disk, prints, index, tiersDirty>>
    BY <1>26 DEF StartAggregation, TypeOK
  <2>2. b.phase = "aggregate" /\ b.inputs = Held(mem[s]) /\ b.kept = mem[s].asserted
    BY <1>1 DEF Builds
  <2>. HIDE DEF b
  <2>3. build'[c] = b /\ \A d \in Calls \ {c} : build'[d] = build[d]
    BY <2>1 DEF TypeOK
  <2>4. /\ Gathered(c)'.gran = mem[s].gran /\ Gathered(c)'.asserted = mem[s].asserted
        /\ Gathered(c)'.derived = Held(mem[s])
    BY <1>5, <2>1, <2>2, <2>3
  <2>5. s \in Servers
    BY <1>1
  <2>. HIDE DEF s
  <2>6. Held(mem[s]) = Known(mem[s]) \ Purged(mem[s])
    BY DEF Held, Known, Purged
  <2>7. CleanLists(Gathered(c)') /\ Grown(mem[s], Gathered(c)')
    BY <1>8, <2>4, <2>5, <2>6 DEF CleanLists, Grown, Known, Purged
  <2>8. Consistent(c)'
    BY <2>2, <2>3 DEF Consistent
  <2>9. s = Host[c] /\ Running(c)
    BY <2>1 DEF s, Running
  <2>. QED  BY <1>8, <1>11, <2>1, <2>3, <2>5, <2>7, <2>8, <2>9, GrownItself
<1>27. ASSUME NEW c \in Calls, UseTiers(c) PROVE Goal
  <2>. DEFINE s == Host[c]
  <2>1. /\ mem' = [mem EXCEPT ![s] = mem[s]] \/ mem' = [mem EXCEPT ![s] = disk.lists]
        /\ UNCHANGED <<index, prints, disk>> /\ build[c].phase = "top"
    BY <1>27 DEF UseTiers
  <2>2. PICK B \in [Calls -> Builds], ph \in {"fail", "snap"} :
          /\ B = build \/ B = Bumped(s)
          /\ build' = [B EXCEPT ![c].phase = ph]
    <3>1. build \in [Calls -> Builds] /\ Bumped(s) \in [Calls -> Builds]
      BY BumpedIs DEF TypeOK
    <3>. QED  BY <1>27, <3>1 DEF UseTiers
  <2>3. build'[c].phase = ph /\ \A d \in Calls \ {c} : build'[d].phase = build[d].phase
    BY <1>1, <2>2, BumpedIs DEF TypeOK, Builds
  <2>4. Consistent(c)'
    BY <2>3 DEF Consistent
  <2>5. s \in Servers /\ mem'[s] \in {mem[s], disk.lists}
    BY <1>1, <2>1 DEF TypeOK
  <2>6. Running(c) /\ s = Host[c]
    BY <2>1 DEF Running
  <2>. HIDE DEF s
  <2>. QED  BY <1>8, <1>11, <2>1, <2>3, <2>4, <2>5, <2>6, GrownItself
<1>28. ASSUME NEW c \in Calls, Aggregated(c) PROVE Goal
  <2>. DEFINE s == Host[c]
  <2>1. /\ mem' = [mem EXCEPT ![s].asserted = build[c].kept, ![s].derived = build[c].inputs]
        /\ disk' = disk \/ disk' = Saved(mem'[s], prints[s])
        /\ index' = index \/ index' = [index EXCEPT ![s] = NoIndex]
        /\ prints' = prints /\ build[c].phase = "aggregate"
    BY <1>28 DEF Aggregated
  <2>2. PICK ph \in {"fail", "snap"} : build' = [Bumped(s) EXCEPT ![c].phase = ph]
    BY <1>28 DEF Aggregated
  <2>3. Bumped(s) \in [Calls -> Builds] /\ \A d \in Calls : Bumped(s)[d].phase = build[d].phase
    BY BumpedIs DEF TypeOK
  <2>4. build'[c].phase = ph /\ \A d \in Calls \ {c} : build'[d].phase = build[d].phase
    BY <2>2, <2>3 DEF Builds
  <2>5. Consistent(c)'
    BY <2>4 DEF Consistent
  <2>6. s \in Servers /\ c \in CallsOf(s)
    BY <1>1 DEF CallsOf
  <2>7. mem'[s] = Gathered(c)
    BY <2>1, <2>6 DEF Gathered, TypeOK
  <2>8. Gathered(c) \in Currents(s) /\ CleanLists(Gathered(c))
    BY <2>1, <2>6 DEF Currents, VectorInv, ListsGrew
  <2>9. /\ disk'.lists = mem'[s] \/ disk'.lists = disk.lists
        /\ disk'.prints \in {disk.prints, prints[s]} /\ disk'.embs = disk.embs
    BY <1>1, <2>1 DEF Disks, Saved
  <2>10. index'[s] \in {index[s], NoIndex} /\ prints'[s] = prints[s]
    BY <2>1, <2>6 DEF TypeOK
  <2>11. Running(c) /\ s = Host[c]
    BY <2>1 DEF Running
  <2>. HIDE DEF s
  <2>. QED  BY <1>8, <1>11, <2>4, <2>5, <2>6, <2>7, <2>8, <2>9, <2>10, <2>11, GrownItself
<1>29. ASSUME NEW c \in Calls, UseCache(c) PROVE Goal
  <2>. DEFINE s == Host[c]
              P == PrintOf(mem[s])
              b == [build[c] EXCEPT !.phase = "commit", !.moved = FALSE, !.snap = P, !.vectors = disk.embs]
  <2>1. /\ build' = [build EXCEPT ![c] = b] /\ build[c].phase = "snap" /\ CacheHit(s)
        /\ UNCHANGED <<mem, disk, prints, index>>
    BY <1>29 DEF UseCache, TypeOK
  <2>2. b.phase = "commit" /\ b.snap = P /\ b.vectors = disk.embs
    BY <1>1 DEF Builds
  <2>. HIDE DEF b
  <2>3. build'[c] = b /\ \A d \in Calls \ {c} : build'[d] = build[d]
    BY <2>1 DEF TypeOK
  <2>4. s \in Servers
    BY <1>1
  <2>5. disk.embs = P
    <3>1. prints[s] = P /\ Counts(prints[s]) = Counts(disk.embs)
      BY <2>1 DEF CacheHit
    <3>2. \A a \in Artifacts : ~Lost(prints[s], mem[s], a)
      BY <1>1, <1>8, <2>4, <3>1, LostIsNot
    <3>3. prints[s] = disk.embs \/ \E a \in Artifacts : Lost(prints[s], mem[s], a)
      BY <1>8, <2>4, <3>1 DEF VectorInv, CountsTell
    <3>. QED  BY <3>1, <3>2, <3>3
  <2>6. P' = P
    BY <2>1 DEF PrintOf
  <2>7. Consistent(c)'
    BY <2>1, <2>2, <2>3, <2>5, <2>6 DEF Consistent
  <2>8. Running(c) /\ s = Host[c]
    BY <2>1 DEF Running
  <2>. HIDE DEF s
  <2>. QED  BY <1>8, <1>11, <2>1, <2>2, <2>3, <2>4, <2>7, <2>8, GrownItself
<1>30. ASSUME NEW c \in Calls, StartEmbedding(c) PROVE Goal
  <2>. DEFINE s == Host[c]
              P == PrintOf(mem[s])
              b == [build[c] EXCEPT !.phase = "embed", !.moved = FALSE, !.snap = P, !.vectors = P]
  <2>1. /\ build' = [build EXCEPT ![c] = b] /\ disk'.lists = mem[s]
        \/ build' = [build EXCEPT ![c] = [build[c] EXCEPT !.phase = "fail"]]
    BY <1>1, <1>30 DEF StartEmbedding, TypeOK, Saved, Disks
  <2>2. /\ disk' = disk \/ disk' = Saved(mem[s], prints[s])
        /\ build[c].phase = "snap" /\ UNCHANGED <<mem, prints, index>>
    BY <1>30 DEF StartEmbedding
  <2>3. b.phase = "embed" /\ b.snap = P /\ b.vectors = P /\ [build[c] EXCEPT !.phase = "fail"].phase = "fail"
    BY <1>1 DEF Builds
  <2>. HIDE DEF b
  <2>4. build'[c] \in {b, [build[c] EXCEPT !.phase = "fail"]} /\ \A d \in Calls \ {c} : build'[d] = build[d]
    BY <2>1 DEF TypeOK
  <2>5. P' = P
    BY <2>2 DEF PrintOf
  <2>6. Consistent(c)'
    <3>1. CASE build' = [build EXCEPT ![c] = b] /\ disk'.lists = mem[s]
      <4>1. build'[c] = b
        BY <3>1 DEF TypeOK
      <4>. QED  BY <2>2, <2>3, <2>5, <3>1, <4>1 DEF Consistent
    <3>2. CASE build' = [build EXCEPT ![c] = [build[c] EXCEPT !.phase = "fail"]]
      <4>1. build'[c].phase = "fail"
        BY <2>3, <3>2 DEF TypeOK
      <4>. QED  BY <4>1 DEF Consistent
    <3>. QED  BY <2>1, <3>1, <3>2
  <2>7. /\ disk'.lists \in {disk.lists, mem[s]}
        /\ disk'.prints \in {disk.prints, prints[s]} /\ disk'.embs = disk.embs
    BY <1>1, <2>2 DEF Disks, Saved
  <2>8. Running(c) /\ s = Host[c] /\ s \in Servers
    BY <1>1, <2>2 DEF Running
  <2>. HIDE DEF s
  <2>. QED  BY <1>8, <1>11, <2>2, <2>3, <2>4, <2>6, <2>7, <2>8, GrownItself
<1>31. ASSUME NEW c \in Calls, Embedded(c) PROVE Goal
  <2>. DEFINE s == Host[c]
              P == PrintOf(mem[s])
  <2>1. build[c].phase = "embed" /\ UNCHANGED <<mem, prints, index, tiersDirty>>
    BY <1>31 DEF Embedded
  <2>2. Running(c) /\ s = Host[c] /\ s \in Servers
    BY <1>1, <2>1 DEF Running
  <2>3. P' = P
    BY <2>1 DEF PrintOf
  <2>4. CASE \E ph \in {"retry", "fail"} : build' = [build EXCEPT ![c].phase = ph] /\ disk' = disk
    <3>1. PICK ph \in {"retry", "fail"} : build' = [build EXCEPT ![c].phase = ph] /\ disk' = disk
      BY <2>4
    <3>2. build'[c].phase = ph /\ \A d \in Calls \ {c} : build'[d] = build[d]
      BY <1>1, <3>1 DEF TypeOK, Builds
    <3>3. Consistent(c)'
      BY <3>2 DEF Consistent
    <3>. HIDE DEF s
    <3>. QED  BY <1>8, <1>11, <2>1, <2>2, <3>1, <3>2, <3>3, GrownItself
  <2>5. CASE /\ ~Stale(c)
             /\ disk' = [disk EXCEPT !.embs = build[c].vectors]
             /\ build' = [build EXCEPT ![c].phase = "commit"]
    <3>1. build[c].snap = P /\ build[c].vectors = P /\ disk.lists = mem[s]
      BY <2>1, <2>5 DEF VectorInv, Consistent
    <3>2. disk'.lists = mem[s] /\ disk'.prints = disk.prints /\ disk'.embs = P
      BY <1>1, <2>5, <3>1 DEF Disks
    <3>3. /\ build'[c].phase = "commit" /\ build'[c].snap = P /\ build'[c].vectors = P
          /\ \A d \in Calls \ {c} : build'[d] = build[d]
      BY <1>1, <2>5, <3>1 DEF TypeOK, Builds
    <3>4. \A N \in Currents(s)' : N = mem[s]
      BY <1>10, <2>1, <2>2, <3>2, <3>3
    <3>5. /\ CleanPrint(P) /\ Worded(P) = Known(mem[s]) \ Purged(mem[s])
          /\ P.asserted = mem[s].asserted /\ P.derived = mem[s].derived
      BY <1>1, <1>8, <2>2, PrintFields
    <3>6. mem[s] \in Currents(s) /\ mem[s] \in Lists /\ CleanLists(mem[s])
      BY <1>1, <1>8, <2>2
    <3>7. mem[s].derived \subseteq Known(mem[s]) /\ \A Q \in Saveds(s) : Older(Q, mem[s])
      BY <2>2, <3>6 DEF VectorInv, ListsGrew
    <3>8. Older(P, mem[s])
      BY <3>5, <3>7 DEF Older
    <3>9. \A Q \in Saveds(s)' : Q = P \/ Q \in {prints[s], disk.prints}
      BY <2>1, <3>2 DEF Saveds
    <3>10. \A Q \in {prints[s], disk.prints} : Q \in Prints /\ CleanPrint(Q) /\ Older(Q, mem[s])
      BY <2>2, <3>7, CurrentTypes DEF VectorInv, Saveds
    <3>. HIDE DEF s, P
    <3>11. ListsGrew(s)'
      <4>. SUFFICES \A N \in Currents(s)' : /\ CleanLists(N)
                                            /\ N.derived \subseteq Known(N)
                                            /\ \A Q \in Saveds(s)' : Older(Q, N)
        BY DEF ListsGrew
      <4>. QED  BY <3>4, <3>6, <3>7, <3>8, <3>9, <3>10
    <3>12. \A Q \in Saveds(s)' : CleanPrint(Q)
      BY <3>5, <3>9, <3>10
    <3>13. CountsTell(s)'
      <4>. SUFFICES ASSUME NEW Q \in {prints[s], disk.prints}, Counts(Q) = Counts(P)
                    PROVE  Q = P \/ \E a \in Artifacts : \A N \in Currents(s)' : Lost(Q, N, a)
        BY <2>1, <3>2 DEF CountsTell
      <4>1. P = PrintOf(mem[s])
        BY DEF P, s
      <4>2. Q = P \/ \E a \in Artifacts : Lost(Q, mem[s], a)
        BY <3>6, <3>10, <4>1, SameOrLost
      <4>. QED  BY <3>4, <4>2
    <3>14. Consistent(c)'
      BY <2>2, <2>3, <3>2, <3>3 DEF Consistent, P
    <3>15. \A d \in Calls : Consistent(d)'
      BY <1>10, <2>2, <3>3, <3>14
    <3>. QED  BY <1>6, <1>7, <2>1, <2>2, <3>11, <3>12, <3>13, <3>15
  <2>. QED  BY <1>31, <2>4, <2>5 DEF Embedded
<1>32. ASSUME NEW c \in Calls, Commit(c) PROVE Goal
  <2>. DEFINE s == Host[c]
              P == build[c].snap
  <2>1. /\ build[c].phase = "commit" /\ mem' = mem
        /\ index' = [index EXCEPT ![s] = [of |-> SnapshotNow(c), vectors |-> build[c].vectors]]
        /\ prints' = [prints EXCEPT ![s] = P]
        /\ disk' = disk \/ disk' = Saved(mem[s], P)
    BY <1>32 DEF Commit
  <2>2. PICK ph \in {"release", "fail"} : build' = [build EXCEPT ![c].phase = ph]
    BY <1>32 DEF Commit
  <2>3. P = PrintOf(mem[s]) /\ build[c].vectors = P /\ disk.embs = P
    BY <2>1 DEF VectorInv, Consistent
  <2>4. Running(c) /\ s = Host[c] /\ s \in Servers
    BY <1>1, <2>1 DEF Running
  <2>5. build'[c].phase = ph /\ \A d \in Calls \ {c} : build'[d] = build[d]
    BY <1>1, <2>2 DEF TypeOK, Builds
  <2>6. index'[s] = [of |-> P, vectors |-> P] /\ prints'[s] = P
    BY <2>1, <2>3, <2>4, SnapshotIsCurrent DEF TypeOK
  <2>7. disk'.lists \in {disk.lists, mem[s]} /\ disk'.prints \in {disk.prints, P} /\ disk'.embs = P
    BY <1>1, <2>1, <2>3 DEF Disks, Saved
  <2>8. \A N \in Currents(s)' : N \in Currents(s)
    BY <1>8, <1>10, <2>1, <2>4, <2>5, <2>7
  <2>. HIDE DEF s, P
  <2>9. \A Q \in Saveds(s)' : Q \in Saveds(s)
    BY <2>3, <2>6, <2>7 DEF Saveds
  <2>10. ListsGrew(s)'
    <3>. SUFFICES \A N \in Currents(s)' : /\ CleanLists(N)
                                          /\ N.derived \subseteq Known(N)
                                          /\ \A Q \in Saveds(s)' : Older(Q, N)
      BY DEF ListsGrew
    <3>. QED  BY <2>4, <2>8, <2>9 DEF VectorInv, ListsGrew
  <2>11. \A Q \in Saveds(s)' : CleanPrint(Q)
    BY <2>4, <2>9 DEF VectorInv
  <2>12. CountsTell(s)'
    <3>. SUFFICES ASSUME NEW Q \in {P, disk.prints}, Counts(Q) = Counts(P), Q # P
                  PROVE  \E a \in Artifacts : \A N \in Currents(s)' : Lost(Q, N, a)
      BY <2>6, <2>7 DEF CountsTell
    <3>1. PICK a \in Artifacts : \A L \in Currents(s) : Lost(Q, L, a)
      BY <2>3, <2>4 DEF VectorInv, CountsTell
    <3>. QED  BY <2>8, <3>1
  <2>13. Consistent(c)'
    BY <2>5 DEF Consistent
  <2>14. \A d \in Calls : Consistent(d)'
    BY <1>10, <2>4, <2>5, <2>13
  <2>. QED  BY <1>6, <2>4, <2>6, <2>10, <2>11, <2>12, <2>14
<1>33. ASSUME NEW s \in Servers, Reload(s) \/ \E a \in Artifacts : Redact(s, a) PROVE Goal
  BY <1>2, <1>33 DEF Redact, Reload
<1>. HIDE DEF Goal
<1>34. Goal
  BY <1>13, <1>15, <1>16, <1>17, <1>20, <1>21, <1>22, <1>23, <1>24, <1>25, <1>26, <1>27, <1>28, <1>29,
     <1>30, <1>31, <1>32, <1>33 DEF Next, ServerStep, BuildStep
<1>. QED  BY <1>34 DEF Goal

(* Every fact is searched by the vector of its own text, whatever was      *)
(* written while the vectors were computed, whether they come from a model *)
(* or from the store, and wherever between saving vectors, fingerprints    *)
(* and facts the process died: equal numbers of vectors and facts, and an  *)
(* equal fingerprint, are enough to take saved vectors.                    *)
THEOREM VectorsBelong == ASSUME VectorsKept PROVE Spec => []VectorsMatch
<1>1. Init => LeaseInv
  BY DEF Init, LeaseInv, NoBuild, Running
<1>2. Init => VectorInv
  <2>. SUFFICES ASSUME Init PROVE VectorInv
    OBVIOUS
  <2>1. \A c \in Calls : build[c].phase = "idle"
    BY DEF Init, NoBuild
  <2>2. \A s \in Servers : /\ mem[s] = NoLists /\ prints[s] = NoPrint /\ index[s] = NoIndex
                           /\ disk.lists = NoLists /\ disk.prints = NoPrint /\ disk.embs = NoPrint
    BY DEF Init
  <2>3. \A s \in Servers : /\ \A L \in Currents(s) : L = NoLists
                           /\ \A P \in Saveds(s) : P = NoPrint
    BY <2>1, <2>2 DEF Currents, Saveds, CallsOf
  <2>4. CleanLists(NoLists) /\ NoLists.derived = {}
    BY DEF CleanLists, NoLists
  <2>5. \A s \in Servers : ListsGrew(s) /\ CountsTell(s) /\ \A P \in Saveds(s) : CleanPrint(P)
    BY <2>2, <2>3, <2>4, NoneIsOld DEF ListsGrew, CountsTell
  <2>6. VectorsMatch
    BY <2>2 DEF VectorsMatch, NoIndex
  <2>. QED  BY <2>1, <2>5, <2>6 DEF VectorInv, Consistent
<1>3. TypeOK /\ LeaseInv /\ [Next]_vars => LeaseInv'
  BY LeaseStep DEF OneCallEach, VectorsKept
<1>4. TypeOK /\ LeaseInv /\ VectorInv /\ [Next]_vars => VectorInv'
  BY VectorStep
<1>5. VectorInv => VectorsMatch
  BY DEF VectorInv
<1>. QED  BY <1>1, <1>2, <1>3, <1>4, <1>5, IndexTypeCorrect, PTL DEF Spec
=============================================================================
