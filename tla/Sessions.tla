------------------------------ MODULE Sessions ------------------------------
(***************************************************************************)
(* The conversation sessions of one memory key in one process: what        *)
(* store() makes of a session number that has a version already and of a   *)
(* key that names a session already (upsert_by_key), what edit(),          *)
(* retract(), purge() and redact() do to the versions, and what a restart  *)
(* finds on disk.                                                          *)
(*                                                                         *)
(* Granularity.  A store() takes its version number, the artifact and the  *)
(* version it is to replace when it is called, waits for the lock of its   *)
(* key, and suspends on the canonicalizer and on the extraction; all it    *)
(* changes it changes in one step, with its transaction, because no holder *)
(* of _file_lock ever suspends.  So does an operation of the lifecycle     *)
(* with its snapshot.                                                      *)
(*                                                                         *)
(* Abstractions.  One source and one scope.  Every call brings a text of   *)
(* its own, so the duplicate checks find nothing.  A version stands for    *)
(* its call: its message, its raw session and its timestamps, which are in *)
(* the order of the versions where calls for one number do not overlap; so *)
(* a restart, which compares them, is modelled for such calls only.        *)
(* The facts of an extraction are numbered from 1, as merge_blocks does,   *)
(* so versions of one session reuse the ids.  The queue, transactions that *)
(* fail and derived facts are in WriteLog and IndexLifecycle.              *)
(***************************************************************************)
EXTENDS Naturals, Sequences, SequencesExt, FiniteSets, FiniteSetsExt

CONSTANTS
  Nums,        \* session numbers
  Keys,        \* values of upsert_by_key
  NoKey,
  Uses,        \* which numbers clients store under which keys, or none
  Calls,       \* slots for store() calls in flight
  MaxVersions, \* bound of the model: stores and edits
  Sizes,       \* how many facts an extraction may find
  Events       \* which of "unready", "timeout", "empty", "edit", "retract",
               \* "purge", "redact", "restart", "overlap" happen

ASSUME SessionAssumption ==
  /\ Nums \subseteq Nat /\ IsFiniteSet(Nums) /\ Uses \subseteq Nums \X Keys
  /\ MaxVersions \in Nat /\ Sizes \subseteq Nat
  /\ "overlap" \in Events => "restart" \notin Events

VARIABLES
  raws,    \* _raw_sessions
  facts,   \* _all_granular
  current, \* _dedup_index: artifact and version of each number
  rows,    \* the table raw_sessions, by its primary key
  saved,   \* the table facts, in the order of sort_order
  calls,   \* the store() calls in flight
  last     \* the last version number given

sessionVars == <<raws, facts, current, rows, saved, calls, last>>
-----------------------------------------------------------------------------
None == [ver |-> 0]

NoCall == [phase |-> "idle"]

InFlight(c) == calls[c] # NoCall

RawOf(call, status) ==
  [ver |-> call.ver, art |-> call.art, num |-> call.num, key |-> call.key, status |-> status]

(* Extracted facts, as store() tags them.                                  *)
FactOf(call, k) ==
  [id |-> <<call.num, k>>, ver |-> call.ver, art |-> call.art, num |-> call.num,
   raw |-> call.ver, status |-> "active"]

NewFacts(call, size) == [k \in 1..size |-> FactOf(call, k)]

(* Every member of a list that is in a set changes its status.             *)
Marked(list, S, status) ==
  [i \in DOMAIN list |->
     IF list[i] \in S THEN [list[i] EXCEPT !.status = status] ELSE list[i]]

(* What a list, or a table, has at some of its positions.                  *)
Sublist(list, I) ==
  LET Nth(k) == CHOOSE i \in I : Cardinality({j \in I : j <= i}) = k
  IN [k \in 1..Cardinality(I) |-> list[Nth(k)]]

OfVersion(list, ver) == Sublist(list, {i \in DOMAIN list : list[i].ver = ver})

(* The version before, in facts and in raw sessions. *)
Superseded(list, old) == Marked(list, {e \in ToSet(list) : e.ver = old}, "superseded")

(* An id that a list has already is made another by the position.          *)
Distinct(list) ==
  LET done[k \in 0..Len(list)] ==
        IF k = 0 THEN <<>>
        ELSE LET before == done[k - 1]
                 id     == list[k].id
             IN Append(before, IF \E j \in DOMAIN before : before[j].id = id
                               THEN [list[k] EXCEPT !.id = Append(id, k - 1)]
                               ELSE list[k])
  IN done[Len(list)]

(* Slip: every row is a new one. *)
Inserted(table, row) == Append(table, row)

(* A row of the same id keeps its place. *)
Upserted(table, row) ==
  LET i == SelectInSeq(table, LAMBDA e : e.id = row.id)
  IN IF i = 0 THEN Append(table, row) ELSE [table EXCEPT ![i] = row]

(* _upsert_fact_projection_rows. *)
FactRows(table, list) ==
  LET new == Distinct(list)
      done[k \in 0..Len(new)] == IF k = 0 THEN table ELSE Upserted(done[k - 1], new[k])
  IN done[Len(new)]

Deleted(table, ids) == Sublist(table, {i \in DOMAIN table : table[i].id \notin ids})

(* Slip: the deletes come last. *)
WrittenFirst(table, ids, list) == Deleted(FactRows(table, list), ids)

(* The facts of persist_projection_delta. *)
Written(table, ids, list) == FactRows(Deleted(table, ids), list)

(* _sync_raw_session_projection_from_snapshot: one row of each number, of  *)
(* the best status and the latest of these.                                *)
Rank(status) ==
  CASE status = "active" -> 3
    [] status = "superseded" -> 2
    [] status = "retracted" -> 1
    [] OTHER -> 0

RawSnapshot(list) ==
  [n \in Nums |->
     LET I    == {i \in DOMAIN list : list[i].num = n}
         best == {i \in I : \A j \in I : Rank(list[j].status) <= Rank(list[i].status)}
     IN IF I = {} THEN None ELSE list[Max(best)]]

(* The ids of a snapshot collide when one that was made another meets one  *)
(* that is so already; the transaction is then rolled back.                *)
Unique(list) == Cardinality({list[i].id : i \in DOMAIN list}) = Len(list)

(* _save_cache, after the lists changed.                                   *)
Snapshot ==
  IF Unique(Distinct(facts'))
  THEN rows' = RawSnapshot(raws') /\ saved' = Distinct(facts')
  ELSE UNCHANGED <<rows, saved>>

-----------------------------------------------------------------------------
Free(c) == calls' = [calls EXCEPT ![c] = NoCall]

(* Clients send what is of one number in turn, or they do not: store()     *)
(* takes no lock on a number.                                              *)
Quiet(n) == "overlap" \in Events \/ \A c \in Calls : InFlight(c) => calls[c].num # n

(* store(), up to its lock.                                                *)
Store(c, n, k) ==
  /\ ~InFlight(c) /\ Quiet(n) /\ last < MaxVersions
  /\ last' = last + 1
  /\ calls' = [calls EXCEPT ![c] =
       [num |-> n, key |-> k, ver |-> last', old |-> current[n].ver,
        art |-> IF current[n] = None THEN last' ELSE current[n].art,
        phase |-> IF k = NoKey THEN "extract" ELSE "lock"]]
  /\ UNCHANGED <<raws, facts, current, rows, saved>>

(* _upsert_locks. *)
Locked(c) ==
  /\ calls[c].phase = "lock"
  /\ \A d \in Calls : ~(calls[d].phase = "extract" /\ calls[d].key = calls[c].key)
  /\ calls' = [calls EXCEPT ![c].phase = "extract"]
  /\ UNCHANGED <<raws, facts, current, rows, saved, last>>

(* The text could not be canonicalized: nothing is replaced.               *)
Unready(c) ==
  /\ calls[c].phase = "extract"
  /\ LET raw == RawOf(calls[c], "canonicalization_failed") IN
     /\ raws' = Append(raws, raw)
     /\ rows' = [rows EXCEPT ![raw.num] = raw]
  /\ Free(c)
  /\ UNCHANGED <<facts, current, saved, last>>

(* Slip: looks among the sessions of its number only. *)
HolderHere(call) ==
  IF call.key = NoKey THEN 0
  ELSE SelectInSeq(raws, LAMBDA r : r.key = call.key /\ r.num = call.num)

(* The session that a call replaces: the first of its key.                 *)
Holder(call) == IF call.key = NoKey THEN 0 ELSE SelectInSeq(raws, LAMBDA r : r.key = call.key)

(* What is left of the lists when it is popped, the ids of the facts that  *)
(* went with it, and the rows of raw_sessions: its own is not deleted if   *)
(* the new session takes its place.                                        *)
Kept(call) ==
  LET i == Holder(call) IN
  IF i = 0 THEN [raws |-> raws, facts |-> facts, gone |-> {}, rows |-> rows]
  ELSE LET stale == {j \in DOMAIN facts : facts[j].raw = raws[i].ver}
       IN [raws  |-> Sublist(raws, DOMAIN raws \ {i}),
           facts |-> Sublist(facts, DOMAIN facts \ stale),
           gone  |-> {facts[j].id : j \in stale},
           rows  |-> [rows EXCEPT ![raws[i].num] = IF raws[i].num = call.num THEN @ ELSE None]]

(* The extraction timed out, or found nothing.  The version before stays   *)
(* the current one.                                                        *)
Ends(c, status) ==
  /\ calls[c].phase = "extract"
  /\ LET kept == Kept(calls[c])
         raw  == RawOf(calls[c], status)
     IN /\ raws'  = Append(kept.raws, raw)
        /\ facts' = kept.facts
        /\ rows'  = [kept.rows EXCEPT ![raw.num] = raw]
        /\ saved' = Written(saved, kept.gone, <<>>)
  /\ Free(c)
  /\ UNCHANGED <<current, last>>

TimedOut(c) == Ends(c, "extraction_failed")
FoundNothing(c) == Ends(c, "active")

Found(c, size) ==
  /\ calls[c].phase = "extract"
  /\ LET call   == calls[c]
         kept   == Kept(call)
         raw    == RawOf(call, "active")
         before == Superseded(kept.facts, call.old)
         new    == NewFacts(call, size)
     IN /\ raws'    = Append(Superseded(kept.raws, call.old), raw)
        /\ facts'   = before \o new
        /\ current' = [current EXCEPT ![call.num] = [art |-> call.art, ver |-> call.ver]]
        /\ rows'    = [kept.rows EXCEPT ![call.num] = raw]
        /\ saved'   = Written(saved, kept.gone, OfVersion(before, call.old) \o new)
  /\ Free(c)
  /\ UNCHANGED last

-----------------------------------------------------------------------------
HeldArtifacts == {facts[i].art : i \in DOMAIN facts} \cup {raws[i].art : i \in DOMAIN raws}

(* Nor do the operations below wait for a store() in flight.               *)
Alone(a) == "overlap" \in Events \/ \A c \in Calls : InFlight(c) => calls[c].art # a

Without(a) == [n \in Nums |-> IF current[n] # None /\ current[n].art = a THEN None ELSE current[n]]

Of(list, a) == {e \in ToSet(list) : e.art = a}

Edit(a) ==
  LET Current(list) == {e \in Of(list, a) : e.status = "active"}
      i             == SelectInSeq(facts, LAMBDA f : f \in Current(facts))
  IN
  /\ i # 0 /\ Alone(a) /\ last < MaxVersions
  /\ last' = last + 1
  /\ facts' = Append(Marked(facts, Current(facts), "superseded"),
                     [facts[i] EXCEPT !.id = <<0, last'>>, !.ver = last'])
  /\ raws' = Marked(raws, Current(raws), "superseded")
  /\ current' = [current EXCEPT ![facts[i].num] = [art |-> a, ver |-> last']]
  /\ Snapshot
  /\ UNCHANGED calls

Retract(a) ==
  /\ Alone(a)
  /\ facts' = Marked(facts, Of(facts, a), "retracted")
  /\ raws' = Marked(raws, Of(raws, a), "retracted")
  /\ current' = Without(a)
  /\ Snapshot
  /\ UNCHANGED <<calls, last>>

Purge(a) ==
  LET Others(list) == Sublist(list, {i \in DOMAIN list : list[i].art # a}) IN
  /\ Alone(a)
  /\ facts' = Others(facts)
  /\ raws' = Others(raws)
  /\ current' = Without(a)
  /\ Snapshot
  /\ UNCHANGED <<calls, last>>

(* The version index keeps what was redacted.                              *)
Redact(a) ==
  /\ Alone(a)
  /\ facts' = Marked(facts, Of(facts, a), "redacted")
  /\ raws' = Marked(raws, Of(raws, a), "redacted")
  /\ Snapshot
  /\ UNCHANGED <<current, calls, last>>

(* Slip: superseded facts count too, by the oldest version. *)
RebuiltFromAll(list) ==
  [n \in Nums |->
     LET A == {i \in DOMAIN list : list[i].num = n}
         v == Min({list[i].ver : i \in A})
     IN IF A = {} THEN None
        ELSE [art |-> list[CHOOSE i \in A : list[i].ver = v].art, ver |-> v]]

(* _rebuild_source_version_index: the newest version with active facts.    *)
(* A raw session counts only if it has such facts, and is never newer.     *)
Rebuilt(list) ==
  [n \in Nums |->
     LET A == {i \in DOMAIN list : list[i].num = n /\ list[i].status = "active"}
         v == Max({list[i].ver : i \in A})
     IN IF A = {} THEN None
        ELSE [art |-> list[CHOOSE i \in A : list[i].ver = v].art, ver |-> v]]

(* The process ends and another one opens the key.                         *)
Restart ==
  /\ raws' = Sublist(rows, {n \in Nums : rows[n] # None})
  /\ facts' = saved
  /\ current' = Rebuilt(saved)
  /\ calls' = [c \in Calls |-> NoCall]
  /\ UNCHANGED <<rows, saved, last>>

SessionInit ==
  /\ raws = <<>> /\ facts = <<>> /\ saved = <<>>
  /\ current = [n \in Nums |-> None]
  /\ rows = [n \in Nums |-> None]
  /\ calls = [c \in Calls |-> NoCall]
  /\ last = 0

SessionNext ==
  \/ \E c \in Calls :
       \/ \E n \in Nums, k \in Keys : <<n, k>> \in Uses /\ Store(c, n, k)
       \/ Locked(c)
       \/ "unready" \in Events /\ Unready(c)
       \/ "timeout" \in Events /\ TimedOut(c)
       \/ "empty" \in Events /\ FoundNothing(c)
       \/ \E size \in Sizes : Found(c, size)
  \/ \E a \in HeldArtifacts :
       \/ "edit" \in Events /\ Edit(a)
       \/ "retract" \in Events /\ Retract(a)
       \/ "purge" \in Events /\ Purge(a)
       \/ "redact" \in Events /\ Redact(a)
  \/ "restart" \in Events /\ Restart

SessionSpec == SessionInit /\ [][SessionNext]_sessionVars
-----------------------------------------------------------------------------
Statuses == {"active", "superseded", "retracted", "redacted", "extraction_failed",
             "canonicalization_failed"}

Versions == 1..MaxVersions

RawRecords == [ver : Versions, art : Versions, num : Nums, key : Keys,
               status : Statuses]

FactRecords == [id : Seq(Nat), ver : Versions, art : Versions, num : Nums, raw : Versions,
                status : Statuses]

CallRecords == [num : Nums, key : Keys, ver : Versions, old : {0} \cup Versions, art : Versions,
                phase : {"lock", "extract"}]

(* The lists and the tables hold what the code puts there; no session is   *)
(* listed twice, no row of facts has the id of another, and the row of a   *)
(* number is a session of this number.                                     *)
SessionTypeOK ==
  /\ raws \in Seq(RawRecords) /\ IsInjective([i \in DOMAIN raws |-> raws[i].ver])
  /\ facts \in Seq(FactRecords)
  /\ saved \in Seq(FactRecords) /\ Unique(saved)
  /\ current \in [Nums -> {None} \cup [art : Versions, ver : Versions]]
  /\ rows \in [Nums -> {None} \cup RawRecords]
  /\ \A n \in Nums : rows[n] # None => rows[n].num = n
  /\ calls \in [Calls -> {NoCall} \cup CallRecords]
  /\ last \in 0..MaxVersions

Active(list) == {i \in DOMAIN list : list[i].status = "active"}

(* One version of a session is current: whatever was stored, edited,       *)
(* replaced by its key, withdrawn or read back before, the facts of a      *)
(* number that a recall may use are all of the version the index knows of. *)
(* With "overlap" it fails: two calls replace the same version.            *)
OneActive == \A i \in Active(facts) : facts[i].ver = current[facts[i].num].ver

(* An upsert replaces the session of its key wherever that is numbered     *)
(* (memory_store): no two sessions of a key are left in memory.            *)
OnePerKey ==
  \A i, j \in DOMAIN raws : raws[i].key = raws[j].key /\ raws[i].key # NoKey => i = j

(* A fact a recall may use, whatever suffix its row has got.               *)
Content(list) == {<<SubSeq(list[i].id, 1, 2), list[i].ver>> : i \in Active(list)}

(* What a recall may use is what a restart will find: the same facts are   *)
(* active in memory and on disk, though the rows are written one call at a *)
(* time, under ids that versions share (persist_projection_delta).         *)
ActiveIsSaved == Content(facts) = Content(saved)

(* Half of it, which also calls without keys keep: no fact that is active  *)
(* in memory has lost its row to another version, or its status on disk.   *)
ActiveIsKept == Content(facts) \subseteq Content(saved)
=============================================================================
