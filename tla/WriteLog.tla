------------------------------ MODULE WriteLog ------------------------------
(***************************************************************************)
(* The ingress queue of one memory key: the write_log table of the key's   *)
(* SQLite store, the MemoryServer processes that share that store, the     *)
(* write-log worker of each server, and the store() calls their clients    *)
(* run directly.                                                           *)
(*                                                                         *)
(* Granularity.  A server is one asyncio loop: code between two awaits is  *)
(* one step of that server.  A step that commits two SQLite transactions   *)
(* (store() persisting its projections, then the worker marking the row)   *)
(* is two actions, because another process or a crash can fall between     *)
(* them; LoopFree keeps the other tasks of the same server out.            *)
(*                                                                         *)
(* Abstractions.  A message stands for its row, its raw session and the    *)
(* facts extracted from it, of which only the outcome is kept.  Messages   *)
(* are conversation turns with distinct turn numbers, so a raw session is  *)
(* addressed by its message and no message is a new version of another.    *)
(* The exact-dedup index is derived from the active facts of a server,     *)
(* which is what it is while one process uses the key and no two messages  *)
(* of one content are active.  Of time only what the code reads it for is  *)
(* left: a lease that ran out.  The retry backoff of failed rows is not    *)
(* waited for: such a row is eligible at once.                             *)
(***************************************************************************)
EXTENDS Naturals, FiniteSets

CONSTANTS
  Messages,     \* message ids
  SyncMsgs,     \* those a client stores with store(); the rest come by write()
  Content,      \* message -> what its text normalises to (exact dedup)
  Servers,      \* the processes that opened this memory key
  MaxAttempts,  \* max_attempts of a claim, and the "failed" threshold
  BatchSize,    \* rows one claim may take
  Environment,  \* which of Events this deployment is exposed to
  MaxCrashes,   \* bound of the model: how many times a process dies
  NoMsg

Events == {"crash", "persist_error", "cli_timeout", "raise",
           "canonicalization_error", "snapshot", "retract", "purge", "reload"}

ASSUME ConfigAssumption ==
  /\ SyncMsgs \subseteq Messages
  /\ NoMsg \notin Messages
  /\ MaxAttempts \in Nat \ {0}
  /\ BatchSize \in Nat \ {0}
  /\ MaxCrashes \in Nat
  /\ Environment \subseteq Events

VARIABLES
  row,      \* write_log: extraction_state, extraction_attempts, lease per message
  durable,  \* raw_sessions and facts in SQLite: what the key's store holds
  mem,      \* _raw_sessions and _all_granular of each server
  jobs,     \* store() coroutines suspended in each server
  batch,    \* claimed entries a worker still has to mark, with their attempts
  verdict,  \* the result a worker is about to write back
  crashes

vars == <<row, durable, mem, jobs, batch, verdict, crashes>>

-----------------------------------------------------------------------------
(* What a raw session can be.  "facts" and "empty" are both status active. *)
Kinds == {"none", "facts", "empty", "extraction_failed",
          "canonicalization_failed", "retracted"}
ActiveKinds == {"facts", "empty"}

Rows == [state    : {"absent", "pending", "in_progress", "complete", "failed"},
         attempts : 0..MaxAttempts,
         lease    : {"none", "live", "expired"}]

(* A store() is canonicalizing its text, extracting facts from it, or about *)
(* to record that it could not be canonicalized (semantic_ready is false).  *)
(* Before the last two it has logged its message.                           *)
LoggedPhases == {"extract", "unready"}

Jobs == [msg : Messages, by : {"client", "worker"}, phase : {"canon"} \cup LoggedPhases]

NoVerdict == [msg |-> NoMsg, result |-> "none"]
Verdicts  == [msg : Messages, result : {"stored", "terminal", "error"}] \cup {NoVerdict}

AbsentRow == [state |-> "absent", attempts |-> 0, lease |-> "none"]
NewRow    == [state |-> "pending", attempts |-> 0, lease |-> "none"]

(* Slip: the counter is never bounded.                                     *)
BumpedForEver(n) == n + 1

(* Nothing reads attempts beyond the threshold: the counter saturates.     *)
Bumped(n) == IF n < MaxAttempts THEN n + 1 ELSE n

(* append_write_log: INSERT unless the message id is already there.        *)
Appended(r) == IF r.state = "absent" THEN NewRow ELSE r

(* Slip: only a completed row gives its lease back.                        *)
MarkedKeepingLease(r, state) ==
  IF r.state = "absent" THEN r
  ELSE [r EXCEPT !.state = state, !.lease = IF state = "complete" THEN "none" ELSE @]

(* mark_write_state: any state but in_progress drops the lease; an UPDATE  *)
(* of a deleted row changes nothing.  No lease owner is compared.          *)
Marked(r, state) ==
  IF r.state = "absent" THEN r
  ELSE [r EXCEPT !.state = state, !.lease = "none"]

(* complete_message_ids of persist_projection_delta: the state alone.      *)
Completed(r) == IF r.state = "absent" THEN r ELSE [r EXCEPT !.state = "complete"]

(* Slip: rows in progress are left to their owner for ever.                *)
EligibleIfUntouched(m) ==
  /\ \/ row[m].state = "pending"
     \/ row[m].state = "failed" /\ row[m].attempts < MaxAttempts
  /\ row[m].lease # "live"

(* The WHERE clause of claim_write_log_entries.                            *)
Eligible(m) ==
  /\ \/ row[m].state = "pending"
     \/ row[m].state = "failed" /\ row[m].attempts < MaxAttempts
     \/ row[m].state = "in_progress" /\ row[m].lease = "expired"
  /\ row[m].lease # "live"

ActiveIds(s) == {j.msg : j \in {k \in jobs[s] : k.phase # "canon"}}

WorkerJobs(s) == {j \in jobs[s] : j.by = "worker"}

(* Slip: only the same message counts as a duplicate.                      *)
DuplicateOfSameId(s, m) == {n \in {m} : mem[s][n] = "facts"}

(* _find_exact_duplicate: another message of this server, same content,    *)
(* whose facts are active.                                                 *)
DuplicateOf(s, m) ==
  {n \in Messages \ {m} : Content[n] = Content[m] /\ mem[s][n] = "facts"}

(* No callback of this server is between two of its transactions.          *)
LoopFree(s) == verdict[s] = NoVerdict

WorkerFree(s) == LoopFree(s) /\ WorkerJobs(s) = {}
-----------------------------------------------------------------------------
(* Clients. *)

(* memory_write: the row and nothing else.                                 *)
Write(m) ==
  /\ m \notin SyncMsgs
  /\ row[m].state = "absent"
  /\ row' = [row EXCEPT ![m] = Appended(@)]
  /\ UNCHANGED <<durable, mem, jobs, batch, verdict, crashes>>

(* store() up to its first await.  The id is fresh ("raw:" and a uuid), so *)
(* nothing in the system mentions it yet.  A duplicate returns at once.    *)
StoreBegin(s, m) ==
  /\ m \in SyncMsgs
  /\ LoopFree(s)
  /\ row[m].state = "absent" /\ durable[m] = "none"
  /\ \A t \in Servers : /\ mem[t][m] = "none" /\ batch[t][m] = 0
                        /\ \A j \in jobs[t] : j.msg # m
                        /\ verdict[t].msg # m
  /\ DuplicateOf(s, m) = {}
  /\ jobs' = [jobs EXCEPT ![s] = @ \cup {[msg |-> m, by |-> "client", phase |-> "canon"]}]
  /\ UNCHANGED <<row, durable, mem, batch, verdict, crashes>>

-----------------------------------------------------------------------------
(* A store() coroutine, run for a client or by the worker. *)

(* The coroutine ends; if the worker awaits it, its result comes next.     *)
JobEnds(s, j, result) ==
  /\ jobs' = [jobs EXCEPT ![s] = @ \ {j}]
  /\ verdict' = IF j.by = "worker"
                  THEN [verdict EXCEPT ![s] = [msg |-> j.msg, result |-> result]]
                  ELSE verdict

Canonicalized(s, j, phase) ==
  /\ phase = "unready" => "canonicalization_error" \in Environment
  /\ LoopFree(s) /\ j \in jobs[s] /\ j.phase = "canon"
  /\ row' = [row EXCEPT ![j.msg] = Appended(@)]
  /\ jobs' = [jobs EXCEPT ![s] = (@ \ {j}) \cup {[j EXCEPT !.phase = phase]}]
  /\ UNCHANGED <<durable, mem, batch, verdict, crashes>>

(* The text was not canonicalized: its raw session is kept, the row is     *)
(* completed.                                                              *)
CanonicalizationFails(s, j) ==
  /\ LoopFree(s) /\ j \in jobs[s] /\ j.phase = "unready"
  /\ row' = [row EXCEPT ![j.msg] = Completed(@)]
  /\ mem' = [mem EXCEPT ![s][j.msg] = "canonicalization_failed"]
  /\ durable' = [durable EXCEPT ![j.msg] = "canonicalization_failed"]
  /\ JobEnds(s, j, "terminal")
  /\ UNCHANGED <<batch, crashes>>

(* Facts, or none after the retry: an active raw session, its projections  *)
(* and the completed row in one transaction.                               *)
Commit(s, j, kind) ==
  /\ LoopFree(s) /\ j \in jobs[s] /\ j.phase = "extract"
  /\ mem' = [mem EXCEPT ![s][j.msg] = kind]
  /\ durable' = [durable EXCEPT ![j.msg] = kind]
  /\ row' = [row EXCEPT ![j.msg] = Completed(@)]
  /\ JobEnds(s, j, "stored")
  /\ UNCHANGED <<batch, crashes>>

(* LocalCliTimeoutError: the raw session is kept as extraction_failed and  *)
(* the row is left as it is, for the worker.                               *)
CliTimeout(s, j) ==
  /\ "cli_timeout" \in Environment
  /\ LoopFree(s) /\ j \in jobs[s] /\ j.phase = "extract"
  /\ mem' = [mem EXCEPT ![s][j.msg] = "extraction_failed"]
  /\ durable' = [durable EXCEPT ![j.msg] = "extraction_failed"]
  /\ JobEnds(s, j, "error")
  /\ UNCHANGED <<row, batch, crashes>>

(* Slip: the row is completed in a finally clause.                         *)
JobRaisesCompleted(s, j) ==
  /\ "raise" \in Environment
  /\ LoopFree(s) /\ j \in jobs[s]
  /\ row' = [row EXCEPT ![j.msg] = Completed(@)]
  /\ JobEnds(s, j, "error")
  /\ UNCHANGED <<durable, mem, batch, crashes>>

(* An exception before anything was changed: the canonicalizer, an invalid *)
(* extracted fact, or the cancellation of the client's call.               *)
JobRaises(s, j) ==
  /\ "raise" \in Environment
  /\ LoopFree(s) /\ j \in jobs[s]
  /\ JobEnds(s, j, "error")
  /\ UNCHANGED <<row, durable, mem, batch, crashes>>

(* What a store() hands to persist_projection_delta at the end of a phase. *)
Outcomes(phase) ==
  CASE phase = "canon"   -> {}
    [] phase = "unready" -> {"canonicalization_failed"}
    [] phase = "extract" ->
         ActiveKinds \cup (IF "cli_timeout" \in Environment THEN {"extraction_failed"} ELSE {})

(* persist_projection_delta raises: memory was changed first and keeps the *)
(* change, SQLite rolls back.                                              *)
PersistFails(s, j, kind) ==
  /\ "persist_error" \in Environment
  /\ LoopFree(s) /\ j \in jobs[s] /\ kind \in Outcomes(j.phase)
  /\ mem' = [mem EXCEPT ![s][j.msg] = kind]
  /\ JobEnds(s, j, "error")
  /\ UNCHANGED <<row, durable, batch, crashes>>

JobStep(s, j) ==
  \/ \E phase \in LoggedPhases : Canonicalized(s, j, phase)
  \/ CanonicalizationFails(s, j)
  \/ \E kind \in ActiveKinds : Commit(s, j, kind)
  \/ CliTimeout(s, j)
  \/ JobRaises(s, j)
  \/ \E kind \in Kinds : PersistFails(s, j, kind)

-----------------------------------------------------------------------------
(* The write-log worker: process_write_log_once. *)

(* claim_write_log_entries takes min(BatchSize, eligible rows) rows; which *)
(* ones depends on arrival order, and the order they are handled in on     *)
(* timestamps: both are left open.                                         *)
Claim(s) ==
  /\ WorkerFree(s)
  /\ \A m \in Messages : batch[s][m] = 0
  /\ \E B \in SUBSET {m \in Messages : Eligible(m)} :
       /\ B # {}
       /\ \/ Cardinality(B) = BatchSize
          \/ Cardinality(B) < BatchSize /\ B = {m \in Messages : Eligible(m)}
       /\ row' = [m \in Messages |->
                    IF m \in B THEN [state    |-> "in_progress",
                                     attempts |-> Bumped(row[m].attempts),
                                     lease    |-> "live"]
                    ELSE row[m]]
       /\ batch' = [batch EXCEPT ![s] = [m \in Messages |->
                      IF m \in B THEN Bumped(row[m].attempts) ELSE 0]]
  /\ UNCHANGED <<durable, mem, jobs, verdict, crashes>>

(* A store() of this process has the message in flight: put the row back.  *)
SkipActive(s, m) ==
  /\ WorkerFree(s) /\ batch[s][m] # 0
  /\ m \in ActiveIds(s)
  /\ row' = [row EXCEPT ![m] = Marked(@, "pending")]
  /\ batch' = [batch EXCEPT ![s][m] = 0]
  /\ UNCHANGED <<durable, mem, jobs, verdict, crashes>>

(* This server already holds an active raw session of the message.         *)
AlreadyStored(s, m) ==
  /\ WorkerFree(s) /\ batch[s][m] # 0
  /\ m \notin ActiveIds(s) /\ mem[s][m] \in ActiveKinds
  /\ row' = [row EXCEPT ![m] = Marked(@, "complete")]
  /\ batch' = [batch EXCEPT ![s][m] = 0]
  /\ UNCHANGED <<durable, mem, jobs, verdict, crashes>>

(* Slips: the entries of a batch are extracted concurrently; the active    *)
(* ids are not consulted; the raw sessions are not consulted.              *)
StartExtractionTogether(s, m) ==
  /\ LoopFree(s) /\ batch[s][m] # 0
  /\ m \notin ActiveIds(s) /\ mem[s][m] \notin ActiveKinds
  /\ jobs' = [jobs EXCEPT ![s] =
                @ \cup {[msg |-> m, by |-> "worker", phase |-> "canon"]}]
  /\ UNCHANGED <<row, durable, mem, batch, verdict, crashes>>

StartExtractionUnchecked(s, m) ==
  /\ WorkerFree(s) /\ batch[s][m] # 0
  /\ mem[s][m] \notin ActiveKinds
  /\ jobs' = [jobs EXCEPT ![s] =
                @ \cup {[msg |-> m, by |-> "worker", phase |-> "canon"]}]
  /\ UNCHANGED <<row, durable, mem, batch, verdict, crashes>>

StartExtractionAgain(s, m) ==
  /\ WorkerFree(s) /\ batch[s][m] # 0
  /\ m \notin ActiveIds(s)
  /\ jobs' = [jobs EXCEPT ![s] =
                @ \cup {[msg |-> m, by |-> "worker", phase |-> "canon"]}]
  /\ UNCHANGED <<row, durable, mem, batch, verdict, crashes>>

(* _extract_write_log_entry calls store(), which returns without an await  *)
(* when the content is a duplicate.                                        *)
StartExtraction(s, m) ==
  /\ WorkerFree(s) /\ batch[s][m] # 0
  /\ m \notin ActiveIds(s) /\ mem[s][m] \notin ActiveKinds
  /\ \/ /\ DuplicateOf(s, m) # {}
        /\ verdict' = [verdict EXCEPT ![s] = [msg |-> m, result |-> "stored"]]
        /\ jobs' = jobs
     \/ /\ DuplicateOf(s, m) = {}
        /\ jobs' = [jobs EXCEPT ![s] =
                      @ \cup {[msg |-> m, by |-> "worker", phase |-> "canon"]}]
        /\ verdict' = verdict
  /\ UNCHANGED <<row, durable, mem, batch, crashes>>

(* Slips: an attempt is counted by the claim and by the worker; an error   *)
(* result is taken for a success.                                          *)
NextStateCountingTwice(result, attempts) ==
  IF result \in {"stored", "terminal"} THEN "complete"
  ELSE IF attempts + 1 >= MaxAttempts THEN "failed" ELSE "pending"

NextStateIgnoringErrors(result, attempts) == "complete"

(* The state the result leads to, by the attempts of the claimed entry.    *)
NextState(result, attempts) ==
  IF result \in {"stored", "terminal"} THEN "complete"
  ELSE IF attempts >= MaxAttempts THEN "failed" ELSE "pending"

MarkResult(s) ==
  /\ ~LoopFree(s)
  /\ LET m == verdict[s].msg IN
       /\ row' = [row EXCEPT ![m] =
                    Marked(@, NextState(verdict[s].result, batch[s][m]))]
       /\ batch' = [batch EXCEPT ![s][m] = 0]
  /\ verdict' = [verdict EXCEPT ![s] = NoVerdict]
  /\ UNCHANGED <<durable, mem, jobs, crashes>>

-----------------------------------------------------------------------------
(* The rest of the server and of the world. *)

(* Slip: every row of a message not held is deleted.                       *)
SaveFactsPruningAll(held) ==
  /\ durable' = held
  /\ row' = [m \in Messages |->
       IF held[m] # "none" THEN [row[m] EXCEPT !.state = "complete"] ELSE AbsentRow]

(* save_facts with `held` as the server's raw sessions: raw_sessions is    *)
(* made equal to it, the row of every held message is (re)written as       *)
(* complete, and complete rows of messages not held are deleted.           *)
SaveFacts(held) ==
  /\ durable' = held
  /\ row' = [m \in Messages |->
       IF held[m] # "none" THEN [row[m] EXCEPT !.state = "complete"]
       ELSE IF row[m].state = "complete" THEN AbsentRow
       ELSE row[m]]

(* _save_cache, which may raise and leave SQLite as it was.                *)
SaveCache(held) ==
  \/ SaveFacts(held)
  \/ "persist_error" \in Environment /\ UNCHANGED <<row, durable>>

(* build_index, consolidation and configuration changes save the cache.    *)
Snapshot(s) ==
  /\ "snapshot" \in Environment
  /\ LoopFree(s)
  /\ SaveCache(mem[s])
  /\ UNCHANGED <<mem, jobs, batch, verdict, crashes>>

(* retract(): the raw session and its facts become inactive.               *)
Retract(s, m) ==
  /\ "retract" \in Environment
  /\ LoopFree(s)
  /\ mem[s][m] # "none"
  /\ mem' = [mem EXCEPT ![s][m] = "retracted"]
  /\ SaveCache(mem'[s])
  /\ UNCHANGED <<jobs, batch, verdict, crashes>>

(* purge(): the raw session and its facts are dropped from every list.     *)
Purge(s, m) ==
  /\ "purge" \in Environment
  /\ LoopFree(s)
  /\ mem[s][m] # "none"
  /\ mem' = [mem EXCEPT ![s][m] = "none"]
  /\ SaveCache(mem'[s])
  /\ UNCHANGED <<jobs, batch, verdict, crashes>>

(* The admin reload endpoint: the lists are read again, running store()    *)
(* calls and the worker go on.                                             *)
Reload(s) ==
  /\ "reload" \in Environment
  /\ LoopFree(s)
  /\ mem' = [mem EXCEPT ![s] = durable]
  /\ UNCHANGED <<row, durable, jobs, batch, verdict, crashes>>

(* now_ms passes lease_expires_at_ms.                                      *)
LeaseExpires(m) ==
  /\ row[m].lease = "live"
  /\ row' = [row EXCEPT ![m].lease = "expired"]
  /\ UNCHANGED <<durable, mem, jobs, batch, verdict, crashes>>

(* The process dies and is started again: a new MemoryServer loads the     *)
(* store; coroutines, the claimed batch and the result are gone.           *)
Restart(s) ==
  /\ "crash" \in Environment
  /\ crashes < MaxCrashes
  /\ crashes' = crashes + 1
  /\ mem' = [mem EXCEPT ![s] = durable]
  /\ jobs' = [jobs EXCEPT ![s] = {}]
  /\ batch' = [batch EXCEPT ![s] = [m \in Messages |-> 0]]
  /\ verdict' = [verdict EXCEPT ![s] = NoVerdict]
  /\ UNCHANGED <<row, durable>>

-----------------------------------------------------------------------------
Init ==
  /\ row = [m \in Messages |-> AbsentRow]
  /\ durable = [m \in Messages |-> "none"]
  /\ mem = [s \in Servers |-> [m \in Messages |-> "none"]]
  /\ jobs = [s \in Servers |-> {}]
  /\ batch = [s \in Servers |-> [m \in Messages |-> 0]]
  /\ verdict = [s \in Servers |-> NoVerdict]
  /\ crashes = 0

WorkerStep(s) ==
  \/ Claim(s)
  \/ \E m \in Messages : SkipActive(s, m) \/ AlreadyStored(s, m) \/ StartExtraction(s, m)
  \/ MarkResult(s)

ServerStep(s) ==
  \/ \E m \in Messages : StoreBegin(s, m)
  \/ \E j \in jobs[s] : JobStep(s, j)
  \/ WorkerStep(s)
  \/ Snapshot(s)
  \/ \E m \in Messages : Retract(s, m) \/ Purge(s, m)
  \/ Reload(s)
  \/ Restart(s)

Next ==
  \/ \E m \in Messages : Write(m) \/ LeaseExpires(m)
  \/ \E s \in Servers : ServerStep(s)

Spec == Init /\ [][Next]_vars

(* The loop of every server keeps running: _run_write_log_workers polls    *)
(* for ever and an extraction call returns or raises; the FIFO ready queue *)
(* of asyncio resumes a task that is runnable again and again.             *)
Fairness ==
  /\ \A s \in Servers : WF_vars(WorkerStep(s))
  /\ \A s \in Servers, m \in Messages :
       SF_vars(\E j \in jobs[s] : j.msg = m /\ JobStep(s, j))
  /\ \A m \in Messages : WF_vars(LeaseExpires(m))

FairSpec == Spec /\ Fairness
-----------------------------------------------------------------------------
(* Properties. *)

TypeOK ==
  /\ row \in [Messages -> Rows]
  /\ durable \in [Messages -> Kinds]
  /\ mem \in [Servers -> [Messages -> Kinds]]
  /\ jobs \in [Servers -> SUBSET Jobs]
  /\ batch \in [Servers -> [Messages -> 0..MaxAttempts]]
  /\ verdict \in [Servers -> Verdicts]
  /\ crashes \in 0..MaxCrashes

(* An unsettled row can always be claimed again, at the latest when its    *)
(* lease runs out: no order of crashes, unfenced marks, skips and          *)
(* snapshots strands a row in in_progress without a lease (the claim query *)
(* never takes such a row) or under a lease nobody will give back.         *)
Reclaimable ==
  \A m \in Messages :
    /\ row[m].state = "in_progress" => row[m].lease # "none"
    /\ row[m].state = "pending" => row[m].lease = "none"

(* A row is failed only when its attempts are used up, so the branch of    *)
(* the claim that retries failed rows after a backoff never takes one.     *)
FailedIsExhausted ==
  \A m \in Messages : row[m].state = "failed" => row[m].attempts = MaxAttempts

(* Within one process a message is in one store() at a time, although      *)
(* store() calls of clients and the worker run concurrently: what          *)
(* _active_sync_message_ids and the recovery check are for.                *)
OneExtractionPerServer ==
  \A s \in Servers : \A j, k \in jobs[s] : j.msg = k.msg => j = k

(* A process that holds an active raw session of a message is not          *)
(* extracting the message again.                                           *)
StoredNotInFlight ==
  \A s \in Servers : \A j \in jobs[s] : mem[s][j.msg] \notin ActiveKinds

(* The worker never starts a second entry before the first is marked, and  *)
(* every result it writes back belongs to an entry of its batch.           *)
WorkerSequential ==
  \A s \in Servers :
    /\ \A j, k \in WorkerJobs(s) : j = k
    /\ \A j \in WorkerJobs(s) : batch[s][j.msg] # 0 /\ LoopFree(s)
    /\ ~LoopFree(s) => batch[s][verdict[s].msg] # 0

(* A row says complete only if something of the message is left: a raw     *)
(* session of a message of the same content, in the store or in a server   *)
(* that can still save it.  It ends with a process that had the session in *)
(* memory only, after a transaction that failed.                           *)
CompleteIsBacked ==
  crashes = 0 => \A m \in Messages :
    row[m].state = "complete" =>
      \E n \in Messages :
        /\ Content[n] = Content[m]
        /\ durable[n] # "none" \/ \E s \in Servers : mem[s][n] # "none"

(* A message that was accepted is never dropped from the log before it is *)
(* extracted: the pruning of a snapshot, also one taken by a process that  *)
(* knows nothing of the message, spares it.                                *)
OwedStays ==
  \A m \in Messages :
    row[m].state \in {"pending", "in_progress"} => row'[m].state # "absent"

OwedIsKept == [][OwedStays]_vars

(* Exact dedup: two messages of the same content never both end up with    *)
(* active facts in one process.                                            *)
SameContentOnce ==
  \A s \in Servers : \A m, n \in Messages :
    m # n /\ Content[m] = Content[n] => ~(mem[s][m] = "facts" /\ mem[s][n] = "facts")

(* A store() that timed out in the local CLI is not reported complete      *)
(* while its extraction is still owed.                                     *)
TimedOutStaysOwed ==
  \A m \in Messages : durable[m] = "extraction_failed" => row[m].state # "complete"

(* Only an explicit re-ingest, under a new message id, brings retracted    *)
(* content back.                                                           *)
RetractionIsFinal ==
  [][\A s \in Servers : \A m \in Messages :
       mem[s][m] = "retracted" => mem'[s][m] = "retracted"]_vars

(* No two processes extract the same message at the same time.             *)
SingleExtraction ==
  \A s, t \in Servers : \A j \in jobs[s] : \A k \in jobs[t] :
    (s # t /\ j.phase = "extract" /\ k.phase = "extract") => j.msg # k.msg

(* Whatever was accepted is eventually settled: extracted, recorded as a   *)
(* duplicate or as a terminal error, or given up after MaxAttempts.        *)
Settles ==
  \A m \in Messages :
    row[m].state \in {"pending", "in_progress"} ~> row[m].state \in {"complete", "failed"}
=============================================================================
