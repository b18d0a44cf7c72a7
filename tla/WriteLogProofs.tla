--------------------------- MODULE WriteLogProofs ---------------------------
(***************************************************************************)
(* Theorems about WriteLog, for any messages, servers, limits and          *)
(* environment, up to the refinement of IngressContract.                   *)
(*                                                                         *)
(* The inductive invariant of the queue, IInv.  That a message is in one   *)
(* store() per process (OneExtractionPerServer) rests on two facts about   *)
(* earlier steps.  The worker looks only at the calls that reached         *)
(* extraction (ActiveIds), so a client's call that has not must be about a *)
(* message no batch contains: FreshUntilLogged.  And the worker must run   *)
(* no call of its own, or be about to write a result back, when it takes   *)
(* the next entry: WorkerSequential.                                       *)
(*                                                                         *)
(* What the queue reports to its clients rests besides on                  *)
(*   BackedInv    what is stored or reported complete is in some memory;   *)
(*   ChargeInv    a worker's attempts are attempts its row has counted, so *)
(*                the row must not be deleted under the worker;            *)
(*   InStep       one process holds what is stored, and a worker starts    *)
(*                (NoneBefore) only texts of which nothing is held;        *)
(*   ContractInv  of a message of memory_write nothing is stored before    *)
(*                its row is complete, and its row is owed while a worker  *)
(*                works on it.                                             *)
(* Each of these theorems says in its assumptions which events break it.   *)
(***************************************************************************)
EXTENDS IngressRefinement, TLAPS

(* Nothing in the log, the store, a memory or a worker mentions m.         *)
Fresh(m) ==
  /\ row[m].state = "absent"
  /\ durable[m] = "none"
  /\ \A t \in Servers : mem[t][m] = "none" /\ batch[t][m] = 0 /\ verdict[t].msg # m

(* Until a store() has logged its message the message is known to nobody   *)
(* else: a worker cannot claim it, no other call is about it.              *)
FreshUntilLogged ==
  \A s \in Servers : \A j \in jobs[s] :
    (j.by = "client" /\ j.phase = "canon") =>
      /\ j.msg \in SyncMsgs
      /\ Fresh(j.msg)
      /\ \A t \in Servers : \A k \in jobs[t] : k.msg = j.msg => t = s /\ k = j

IInv ==
  /\ TypeOK
  /\ OneExtractionPerServer
  /\ WorkerSequential
  /\ FreshUntilLogged

-----------------------------------------------------------------------------
(* The first step of every proof: types.                                   *)
LEMMA TypeInit == Init => TypeOK
  BY ConfigAssumption
  DEF Init, TypeOK, Rows, AbsentRow, Kinds, Jobs, Verdicts, NoVerdict

(* What the helpers do to a row, a counter and a list of raw sessions.     *)
LEMMA BumpedType == \A n \in 0..MaxAttempts : Bumped(n) \in 0..MaxAttempts /\ Bumped(n) # 0
  BY ConfigAssumption DEF Bumped

LEMMA RowTypes ==
  ASSUME NEW r \in Rows
  PROVE  /\ Appended(r) \in Rows
         /\ Completed(r) \in Rows
         /\ \A st \in {"pending", "complete", "failed"} : Marked(r, st) \in Rows
<1>1. NewRow \in Rows
  BY ConfigAssumption DEF NewRow, Rows
<1>2. Appended(r) \in Rows
  BY <1>1 DEF Appended
<1>3. \A q \in Rows : Completed(q) \in Rows
  BY DEF Completed, Rows
<1>4. \A st \in {"pending", "complete", "failed"} : Marked(r, st) \in Rows
  BY DEF Marked, Rows
<1>. QED  BY <1>2, <1>3, <1>4

LEMMA SaveCacheType ==
  ASSUME TypeOK, NEW held \in [Messages -> Kinds], SaveCache(held)
  PROVE  row' \in [Messages -> Rows] /\ durable' \in [Messages -> Kinds]
<1>1. CASE UNCHANGED <<row, durable>>
  BY <1>1 DEF TypeOK
<1>2. CASE SaveFacts(held)
  <2>1. durable' \in [Messages -> Kinds]
    BY <1>2 DEF SaveFacts
  <2>2. \A m \in Messages : [row[m] EXCEPT !.state = "complete"] \in Rows
    BY DEF TypeOK, Rows
  <2>3. AbsentRow \in Rows
    BY ConfigAssumption DEF AbsentRow, Rows
  <2>4. row' \in [Messages -> Rows]
    BY <1>2, <2>2, <2>3 DEF SaveFacts, TypeOK
  <2>. QED  BY <2>1, <2>4
<1>. QED  BY <1>1, <1>2 DEF SaveCache

LEMMA JobEndsType ==
  ASSUME TypeOK, NEW s \in Servers, NEW j \in jobs[s],
         NEW result \in {"stored", "terminal", "error"}, JobEnds(s, j, result)
  PROVE  jobs' \in [Servers -> SUBSET Jobs] /\ verdict' \in [Servers -> Verdicts]
<1>1. j \in Jobs
  BY DEF TypeOK
<1>2. jobs[s] \ {j} \in SUBSET Jobs
  BY DEF TypeOK
<1>3. [msg |-> j.msg, result |-> result] \in Verdicts
  BY <1>1 DEF Jobs, Verdicts
<1>. QED  BY <1>2, <1>3 DEF JobEnds, TypeOK

(* Every step keeps the types.                                             *)
LEMMA TypeNext == TypeOK /\ [Next]_vars => TypeOK'
<1>. SUFFICES ASSUME TypeOK, [Next]_vars PROVE TypeOK'
  OBVIOUS
<1>. USE ConfigAssumption
<1>1. ASSUME NEW m \in Messages, Write(m) PROVE TypeOK'
  <2>1. Appended(row[m]) \in Rows
    BY RowTypes DEF TypeOK
  <2>. QED  BY <1>1, <2>1 DEF Write, TypeOK
<1>2. ASSUME NEW m \in Messages, LeaseExpires(m) PROVE TypeOK'
  <2>1. [row[m] EXCEPT !.lease = "expired"] \in Rows
    BY DEF TypeOK, Rows
  <2>. QED  BY <1>2, <2>1 DEF LeaseExpires, TypeOK
<1>3. ASSUME NEW s \in Servers, NEW m \in Messages, StoreBegin(s, m) PROVE TypeOK'
  <2>1. [msg |-> m, by |-> "client", phase |-> "canon"] \in Jobs
    BY DEF Jobs
  <2>. QED  BY <1>3, <2>1 DEF StoreBegin, TypeOK
<1>4. ASSUME NEW s \in Servers, NEW j \in jobs[s], JobStep(s, j) PROVE TypeOK'
  <2>. j \in Jobs /\ j.msg \in Messages
    BY DEF TypeOK, Jobs
  <2>. row[j.msg] \in Rows
    BY DEF TypeOK
  <2>1. ASSUME NEW phase \in LoggedPhases, Canonicalized(s, j, phase) PROVE TypeOK'
    <3>1. Appended(row[j.msg]) \in Rows
      BY RowTypes
    <3>2. [j EXCEPT !.phase = phase] \in Jobs
      BY DEF Jobs
    <3>. QED  BY <2>1, <3>1, <3>2 DEF Canonicalized, TypeOK
  <2>2. CASE CanonicalizationFails(s, j)
    <3>1. Completed(row[j.msg]) \in Rows
      BY RowTypes
    <3>2. jobs' \in [Servers -> SUBSET Jobs] /\ verdict' \in [Servers -> Verdicts]
      BY <2>2, JobEndsType DEF CanonicalizationFails
    <3>. QED  BY <2>2, <3>1, <3>2 DEF CanonicalizationFails, TypeOK, Kinds
  <2>3. ASSUME NEW kind \in ActiveKinds, Commit(s, j, kind) PROVE TypeOK'
    <3>1. Completed(row[j.msg]) \in Rows
      BY RowTypes
    <3>2. jobs' \in [Servers -> SUBSET Jobs] /\ verdict' \in [Servers -> Verdicts]
      BY <2>3, JobEndsType DEF Commit
    <3>. QED  BY <2>3, <3>1, <3>2 DEF Commit, TypeOK, ActiveKinds, Kinds
  <2>4. CASE CliTimeout(s, j)
    <3>1. jobs' \in [Servers -> SUBSET Jobs] /\ verdict' \in [Servers -> Verdicts]
      BY <2>4, JobEndsType DEF CliTimeout
    <3>. QED  BY <2>4, <3>1 DEF CliTimeout, TypeOK, Kinds
  <2>5. CASE JobRaises(s, j)
    <3>1. jobs' \in [Servers -> SUBSET Jobs] /\ verdict' \in [Servers -> Verdicts]
      BY <2>5, JobEndsType DEF JobRaises
    <3>. QED  BY <2>5, <3>1 DEF JobRaises, TypeOK
  <2>6. ASSUME NEW kind \in Kinds, PersistFails(s, j, kind) PROVE TypeOK'
    <3>1. jobs' \in [Servers -> SUBSET Jobs] /\ verdict' \in [Servers -> Verdicts]
      BY <2>6, JobEndsType DEF PersistFails
    <3>. QED  BY <2>6, <3>1 DEF PersistFails, TypeOK
  <2>. QED  BY <1>4, <2>1, <2>2, <2>3, <2>4, <2>5, <2>6 DEF JobStep
<1>5. ASSUME NEW s \in Servers, Claim(s) PROVE TypeOK'
  <2>1. PICK B \in SUBSET Messages :
          /\ row' = [m \in Messages |->
                       IF m \in B THEN [state    |-> "in_progress",
                                        attempts |-> Bumped(row[m].attempts),
                                        lease    |-> "live"]
                       ELSE row[m]]
          /\ batch' = [batch EXCEPT ![s] = [m \in Messages |->
                         IF m \in B THEN Bumped(row[m].attempts) ELSE 0]]
    BY <1>5 DEF Claim
  <2>2. \A m \in Messages : Bumped(row[m].attempts) \in 0..MaxAttempts
    BY BumpedType DEF TypeOK, Rows
  <2>3. row' \in [Messages -> Rows]
    BY <2>1, <2>2 DEF TypeOK, Rows
  <2>4. [m \in Messages |-> IF m \in B THEN Bumped(row[m].attempts) ELSE 0]
          \in [Messages -> 0..MaxAttempts]
    BY <2>2
  <2>5. batch' \in [Servers -> [Messages -> 0..MaxAttempts]]
    BY <2>1, <2>4 DEF TypeOK
  <2>. QED  BY <1>5, <2>3, <2>5 DEF Claim, TypeOK
<1>6. ASSUME NEW s \in Servers, NEW m \in Messages,
             SkipActive(s, m) \/ AlreadyStored(s, m)
      PROVE  TypeOK'
  <2>1. Marked(row[m], "pending") \in Rows /\ Marked(row[m], "complete") \in Rows
    BY RowTypes DEF TypeOK
  <2>2. batch' \in [Servers -> [Messages -> 0..MaxAttempts]]
    <3>1. batch' = [batch EXCEPT ![s][m] = 0]
      BY <1>6 DEF SkipActive, AlreadyStored
    <3>. QED  BY <3>1 DEF TypeOK
  <2>3. row' \in [Messages -> Rows]
    BY <1>6, <2>1 DEF SkipActive, AlreadyStored, TypeOK
  <2>4. UNCHANGED <<durable, mem, jobs, verdict, crashes>>
    BY <1>6 DEF SkipActive, AlreadyStored
  <2>. QED  BY <2>2, <2>3, <2>4 DEF TypeOK
<1>7. ASSUME NEW s \in Servers, NEW m \in Messages, StartExtraction(s, m) PROVE TypeOK'
  <2>1. [msg |-> m, by |-> "worker", phase |-> "canon"] \in Jobs
    BY DEF Jobs
  <2>2. [msg |-> m, result |-> "stored"] \in Verdicts
    BY DEF Verdicts
  <2>3. jobs' \in [Servers -> SUBSET Jobs]
    BY <1>7, <2>1 DEF StartExtraction, TypeOK
  <2>4. verdict' \in [Servers -> Verdicts]
    BY <1>7, <2>2 DEF StartExtraction, TypeOK
  <2>. QED  BY <1>7, <2>3, <2>4 DEF StartExtraction, TypeOK
<1>8. ASSUME NEW s \in Servers, MarkResult(s) PROVE TypeOK'
  <2>1. verdict[s].msg \in Messages
    BY <1>8 DEF MarkResult, LoopFree, TypeOK, Verdicts
  <2>2. \A result, n : NextState(result, n) \in {"pending", "complete", "failed"}
    BY DEF NextState
  <2>3. Marked(row[verdict[s].msg], NextState(verdict[s].result, batch[s][verdict[s].msg])) \in Rows
    BY <2>1, <2>2, RowTypes DEF TypeOK
  <2>4. NoVerdict \in Verdicts
    BY DEF Verdicts
  <2>5. row' \in [Messages -> Rows]
    BY <1>8, <2>1, <2>3 DEF MarkResult, TypeOK
  <2>6. batch' \in [Servers -> [Messages -> 0..MaxAttempts]]
    BY <1>8, <2>1 DEF MarkResult, TypeOK
  <2>. QED  BY <1>8, <2>4, <2>5, <2>6 DEF MarkResult, TypeOK
<1>9. ASSUME NEW s \in Servers, Snapshot(s) PROVE TypeOK'
  <2>1. row' \in [Messages -> Rows] /\ durable' \in [Messages -> Kinds]
    BY <1>9, SaveCacheType DEF Snapshot, TypeOK
  <2>. QED  BY <1>9, <2>1 DEF Snapshot, TypeOK
<1>10. ASSUME NEW s \in Servers, NEW m \in Messages, Retract(s, m) \/ Purge(s, m)
       PROVE  TypeOK'
  <2>1. mem' \in [Servers -> [Messages -> Kinds]]
    <3>1. \E kind \in Kinds : mem' = [mem EXCEPT ![s][m] = kind]
      BY <1>10 DEF Retract, Purge, Kinds
    <3>. QED  BY <3>1 DEF TypeOK
  <2>2. row' \in [Messages -> Rows] /\ durable' \in [Messages -> Kinds]
    BY <1>10, <2>1, SaveCacheType DEF Retract, Purge
  <2>. QED  BY <1>10, <2>1, <2>2 DEF Retract, Purge, TypeOK
<1>11. ASSUME NEW s \in Servers, Reload(s) PROVE TypeOK'
  BY <1>11 DEF Reload, TypeOK
<1>12. ASSUME NEW s \in Servers, Restart(s) PROVE TypeOK'
  <2>1. NoVerdict \in Verdicts /\ {} \in SUBSET Jobs
    BY DEF Verdicts
  <2>2. crashes' \in 0..MaxCrashes
    BY <1>12 DEF Restart, TypeOK
  <2>3. batch' \in [Servers -> [Messages -> 0..MaxAttempts]]
    BY <1>12 DEF Restart, TypeOK
  <2>. QED  BY <1>12, <2>1, <2>2, <2>3 DEF Restart, TypeOK
<1>13. CASE UNCHANGED vars
  BY <1>13 DEF vars, TypeOK
<1>. QED
  BY <1>1, <1>2, <1>3, <1>4, <1>5, <1>6, <1>7, <1>8, <1>9, <1>10, <1>11, <1>12, <1>13
  DEF Next, ServerStep, WorkerStep

(* Every variable keeps its type, whatever the deployment.                 *)
THEOREM TypeCorrect == Spec => []TypeOK
  BY TypeInit, TypeNext, PTL DEF Spec

-----------------------------------------------------------------------------
(* All that can happen to a row: an insertion, the completion a store() or *)
(* a snapshot records, a mark of the worker, a claim, a pruning, and time. *)
RowChange(r, q) ==
  \/ q \in {r, Appended(r), Completed(r), [r EXCEPT !.state = "complete"]}
  \/ \E st \in {"pending", "complete", "failed"} : q = Marked(r, st)
  \/ /\ r.state # "absent"
     /\ q = [state |-> "in_progress", attempts |-> Bumped(r.attempts), lease |-> "live"]
  \/ r.state = "complete" /\ q = AbsentRow
  \/ r.lease = "live" /\ q = [r EXCEPT !.lease = "expired"]

LEMMA SaveCacheRows ==
  ASSUME TypeOK, NEW held, SaveCache(held), NEW m \in Messages
  PROVE  RowChange(row[m], row'[m])
  BY DEF SaveCache, SaveFacts, RowChange

(* Every step changes each row in one of these ways.                       *)
LEMMA RowSteps == TypeOK /\ [Next]_vars => \A m \in Messages : RowChange(row[m], row'[m])
<1>. SUFFICES ASSUME TypeOK, [Next]_vars, NEW n \in Messages
              PROVE  RowChange(row[n], row'[n])
  OBVIOUS
<1>. row \in [Messages -> Rows]
  BY DEF TypeOK
<1>1. ASSUME NEW m \in Messages, Write(m) \/ LeaseExpires(m)
      PROVE  RowChange(row[n], row'[n])
  BY <1>1 DEF Write, LeaseExpires, RowChange
<1>2. ASSUME NEW s \in Servers, NEW j \in jobs[s], JobStep(s, j)
      PROVE  RowChange(row[n], row'[n])
  BY <1>2 DEF JobStep, Canonicalized, CanonicalizationFails, Commit, CliTimeout,
              JobRaises, PersistFails, RowChange
<1>3. ASSUME NEW s \in Servers, Claim(s) PROVE RowChange(row[n], row'[n])
  <2>1. PICK B \in SUBSET {m \in Messages : Eligible(m)} :
          row' = [m \in Messages |->
                   IF m \in B THEN [state    |-> "in_progress",
                                    attempts |-> Bumped(row[m].attempts),
                                    lease    |-> "live"]
                   ELSE row[m]]
    BY <1>3 DEF Claim
  <2>2. CASE n \in B
    <3>1. row[n].state # "absent"
      BY <2>2 DEF Eligible
    <3>. QED  BY <2>1, <2>2, <3>1 DEF RowChange
  <2>3. CASE n \notin B
    BY <2>1, <2>3 DEF RowChange
  <2>. QED  BY <2>2, <2>3
<1>4. ASSUME NEW s \in Servers, NEW m \in Messages,
             SkipActive(s, m) \/ AlreadyStored(s, m) \/ StartExtraction(s, m)
      PROVE  RowChange(row[n], row'[n])
  BY <1>4 DEF SkipActive, AlreadyStored, StartExtraction, RowChange
<1>5. ASSUME NEW s \in Servers, MarkResult(s) PROVE RowChange(row[n], row'[n])
  <2>1. NextState(verdict[s].result, batch[s][verdict[s].msg]) \in {"pending", "complete", "failed"}
    BY DEF NextState
  <2>. QED  BY <1>5, <2>1 DEF MarkResult, RowChange
<1>6. ASSUME NEW s \in Servers, NEW m \in Messages,
             Snapshot(s) \/ Retract(s, m) \/ Purge(s, m)
      PROVE  RowChange(row[n], row'[n])
  BY <1>6, SaveCacheRows DEF Snapshot, Retract, Purge
<1>7. ASSUME NEW s \in Servers, NEW m \in Messages,
             StoreBegin(s, m) \/ Reload(s) \/ Restart(s)
      PROVE  RowChange(row[n], row'[n])
  BY <1>7 DEF StoreBegin, Reload, Restart, RowChange
<1>8. CASE UNCHANGED vars
  BY <1>8 DEF vars, RowChange
<1>. QED
  BY <1>1, <1>2, <1>3, <1>4, <1>5, <1>6, <1>7, <1>8 DEF Next, ServerStep, WorkerStep

(* No order of crashes, unfenced marks, skips, snapshots and leases that   *)
(* run out leaves a row in a state the claim query will never take.        *)
THEOREM NothingStranded == Spec => []Reclaimable
<1>1. Init => Reclaimable
  BY DEF Init, Reclaimable, AbsentRow
<1>2. TypeOK /\ Reclaimable /\ [Next]_vars => Reclaimable'
  <2>. SUFFICES ASSUME TypeOK, Reclaimable, [Next]_vars, NEW m \in Messages
                PROVE  /\ row'[m].state = "in_progress" => row'[m].lease # "none"
                       /\ row'[m].state = "pending" => row'[m].lease = "none"
    BY DEF Reclaimable
  <2>1. row[m] \in Rows /\ RowChange(row[m], row'[m])
    BY RowSteps DEF TypeOK
  <2>2. /\ row[m].state = "in_progress" => row[m].lease # "none"
        /\ row[m].state = "pending" => row[m].lease = "none"
    BY DEF Reclaimable
  <2>. DEFINE Good(r) ==
         /\ r.state = "in_progress" => r.lease # "none"
         /\ r.state = "pending" => r.lease = "none"
  <2>3. /\ Good(Appended(row[m])) /\ Good(Completed(row[m]))
        /\ Good([row[m] EXCEPT !.state = "complete"])
    BY <2>1, <2>2 DEF Rows, Appended, Completed, NewRow
  <2>4. \A st \in {"pending", "complete", "failed"} : Good(Marked(row[m], st))
    BY <2>1, <2>2 DEF Rows, Marked
  <2>5. Good(AbsentRow)
    BY DEF AbsentRow
  <2>6. row[m].lease = "live" => Good([row[m] EXCEPT !.lease = "expired"])
    BY <2>1, <2>2 DEF Rows
  <2>7. Good(row[m])
    BY <2>2
  <2>8. row'[m].state = "in_progress" /\ row'[m].lease = "live" => Good(row'[m])
    OBVIOUS
  <2>. HIDE DEF Good
  <2>9. Good(row'[m])
    BY <2>1, <2>3, <2>4, <2>5, <2>6, <2>7, <2>8 DEF RowChange
  <2>. QED  BY <2>9 DEF Good
<1>. QED  BY <1>1, <1>2, TypeCorrect, PTL DEF Spec

(* An accepted message stays in the log until it is extracted.             *)
THEOREM OwedKept == Spec => OwedIsKept
<1>1. TypeOK /\ [Next]_vars =>
        \A m \in Messages :
          row[m].state \in {"pending", "in_progress"} => row'[m].state # "absent"
  <2>. SUFFICES ASSUME TypeOK, [Next]_vars, NEW m \in Messages,
                       row[m].state \in {"pending", "in_progress"}
                PROVE  row'[m].state # "absent"
    OBVIOUS
  <2>1. row[m] \in Rows /\ RowChange(row[m], row'[m])
    BY RowSteps DEF TypeOK
  <2>2. \A st \in {"pending", "complete", "failed"} : Marked(row[m], st).state # "absent"
    BY <2>1 DEF Marked, Rows
  <2>3. /\ Appended(row[m]).state # "absent" /\ Completed(row[m]).state # "absent"
        /\ [row[m] EXCEPT !.state = "complete"].state # "absent"
        /\ [row[m] EXCEPT !.lease = "expired"].state # "absent"
    BY <2>1 DEF Appended, Completed, NewRow, Rows
  <2>4. CASE row'[m] = [state    |-> "in_progress",
                        attempts |-> Bumped(row[m].attempts),
                        lease    |-> "live"]
    BY <2>4
  <2>. QED  BY <2>1, <2>2, <2>3, <2>4 DEF RowChange
<1>2. TypeOK /\ [Next]_vars => [OwedStays]_vars
  BY <1>1 DEF OwedStays
<1>. QED  BY <1>2, TypeCorrect, PTL DEF Spec, OwedIsKept

-----------------------------------------------------------------------------
(* A running call touches its own message and its own server only, and     *)
(* either reaches its next phase or ends.                                  *)
LEMMA JobFootprint ==
  ASSUME TypeOK, NEW s \in Servers, NEW j \in jobs[s], JobStep(s, j)
  PROVE  /\ \E r : row' = [row EXCEPT ![j.msg] = r]
         /\ \E d : durable' = [durable EXCEPT ![j.msg] = d]
         /\ \E d : mem' = [mem EXCEPT ![s][j.msg] = d]
         /\ batch' = batch
         /\ \/ \E phase \in LoggedPhases :
                 /\ jobs' = [jobs EXCEPT ![s] = (@ \ {j}) \cup {[j EXCEPT !.phase = phase]}]
                 /\ verdict' = verdict /\ j.phase = "canon"
            \/ \E result \in {"stored", "terminal", "error"} : JobEnds(s, j, result)
<1>1. /\ row = [row EXCEPT ![j.msg] = row[j.msg]]
      /\ durable = [durable EXCEPT ![j.msg] = durable[j.msg]]
      /\ mem = [mem EXCEPT ![s][j.msg] = mem[s][j.msg]]
  BY DEF TypeOK
<1>2. CASE \E phase \in LoggedPhases : Canonicalized(s, j, phase)
  BY <1>1, <1>2 DEF Canonicalized
<1>3. CASE CanonicalizationFails(s, j)
  BY <1>3 DEF CanonicalizationFails
<1>4. CASE \E kind \in ActiveKinds : Commit(s, j, kind)
  BY <1>4 DEF Commit
<1>5. CASE CliTimeout(s, j)
  BY <1>1, <1>5 DEF CliTimeout
<1>6. CASE JobRaises(s, j)
  BY <1>1, <1>6 DEF JobRaises
<1>7. CASE \E kind \in Kinds : PersistFails(s, j, kind)
  BY <1>1, <1>7 DEF PersistFails
<1>. QED  BY <1>2, <1>3, <1>4, <1>5, <1>6, <1>7 DEF JobStep

(* A step of anyone else leaves the message of a call that is still to be  *)
(* logged as unknown as it was.                                            *)
LEMMA FreshStep ==
  ASSUME IInv, [Next]_vars, NEW s \in Servers, NEW j \in jobs[s], j \in jobs'[s],
         j.by = "client", j.phase = "canon", NEW m \in Messages, j.msg = m
  PROVE  Fresh(m)'
<1>1. /\ m \in SyncMsgs
      /\ row[m].state = "absent" /\ durable[m] = "none"
      /\ \A t \in Servers : mem[t][m] = "none" /\ batch[t][m] = 0 /\ verdict[t].msg # m
      /\ \A t \in Servers : \A k \in jobs[t] : k.msg = m => t = s /\ k = j
  BY DEF IInv, TypeOK, Jobs, FreshUntilLogged, Fresh
<1>2. /\ row \in [Messages -> Rows] /\ durable \in [Messages -> Kinds]
      /\ mem \in [Servers -> [Messages -> Kinds]] /\ jobs \in [Servers -> SUBSET Jobs]
      /\ batch \in [Servers -> [Messages -> 0..MaxAttempts]]
      /\ verdict \in [Servers -> Verdicts]
  BY DEF IInv, TypeOK
<1>3. ASSUME NEW n \in Messages, Write(n) \/ LeaseExpires(n) PROVE Fresh(m)'
  <2>1. CASE Write(n)
    <3>1. n # m /\ row' = [row EXCEPT ![n] = Appended(row[n])]
      BY <1>1, <2>1 DEF Write
    <3>. QED  BY <1>1, <2>1, <3>1 DEF Write, Fresh
  <2>2. CASE LeaseExpires(n)
    <3>1. [row[n] EXCEPT !.lease = "expired"].state = row[n].state
      BY <1>2 DEF Rows
    <3>2. row' = [row EXCEPT ![n] = [row[n] EXCEPT !.lease = "expired"]]
      BY <2>2 DEF LeaseExpires
    <3>3. row'[m].state = row[m].state
      BY <1>2, <3>1, <3>2
    <3>. QED  BY <1>1, <2>2, <3>3 DEF LeaseExpires, Fresh
  <2>. QED  BY <1>3, <2>1, <2>2
<1>4. ASSUME NEW t \in Servers, NEW n \in Messages, StoreBegin(t, n) PROVE Fresh(m)'
  BY <1>1, <1>4 DEF StoreBegin, Fresh
<1>5. ASSUME NEW t \in Servers, NEW k \in jobs[t], JobStep(t, k) PROVE Fresh(m)'
  <2>1. k.msg # m
    <3>. SUFFICES ASSUME k.msg = m PROVE FALSE
      OBVIOUS
    <3>1. t = s /\ k = j
      BY <1>1
    <3>2. j \in Jobs /\ \A phase \in LoggedPhases : [j EXCEPT !.phase = phase] # j
      BY <1>2 DEF Jobs, LoggedPhases
    <3>3. j \notin jobs'[s]
      <4>1. ASSUME NEW phase \in LoggedPhases,
                   jobs' = [jobs EXCEPT ![s] = (@ \ {j}) \cup {[j EXCEPT !.phase = phase]}]
            PROVE  j \notin jobs'[s]
        BY <1>2, <3>2, <4>1
      <4>2. ASSUME NEW result, JobEnds(s, j, result) PROVE j \notin jobs'[s]
        BY <1>2, <4>2 DEF JobEnds
      <4>. QED  BY <1>5, <3>1, <4>1, <4>2, JobFootprint DEF IInv
    <3>. QED  BY <3>3
  <2>2. row'[m] = row[m] /\ durable'[m] = durable[m] /\ batch' = batch
    BY <1>2, <1>5, <2>1, JobFootprint DEF IInv
  <2>3. \A u \in Servers : mem'[u][m] = mem[u][m]
    <3>1. PICK d : mem' = [mem EXCEPT ![t][k.msg] = d]
      BY <1>5, JobFootprint DEF IInv
    <3>. QED  BY <1>2, <2>1, <3>1
  <2>4. \A u \in Servers : verdict'[u].msg # m
    <3>1. CASE verdict' = verdict
      BY <1>1, <3>1
    <3>2. ASSUME NEW result, verdict' = [verdict EXCEPT ![t] = [msg |-> k.msg, result |-> result]]
          PROVE  \A u \in Servers : verdict'[u].msg # m
      BY <1>1, <1>2, <2>1, <3>2
    <3>3. \/ verdict' = verdict
          \/ \E result : JobEnds(t, k, result)
      BY <1>5, JobFootprint DEF IInv
    <3>4. \/ verdict' = verdict
          \/ \E result : verdict' = [verdict EXCEPT ![t] = [msg |-> k.msg, result |-> result]]
      BY <3>3 DEF JobEnds
    <3>. QED  BY <3>1, <3>2, <3>4
  <2>. QED  BY <1>1, <2>2, <2>3, <2>4 DEF Fresh
<1>6. ASSUME NEW t \in Servers, Claim(t) PROVE Fresh(m)'
  <2>1. PICK B \in SUBSET {n \in Messages : Eligible(n)} :
          /\ row' = [n \in Messages |->
                       IF n \in B THEN [state    |-> "in_progress",
                                        attempts |-> Bumped(row[n].attempts),
                                        lease    |-> "live"]
                       ELSE row[n]]
          /\ batch' = [batch EXCEPT ![t] = [n \in Messages |->
                         IF n \in B THEN Bumped(row[n].attempts) ELSE 0]]
    BY <1>6 DEF Claim
  <2>2. m \notin B
    BY <1>1 DEF Eligible
  <2>3. row'[m] = row[m]
    BY <1>1, <2>1, <2>2
  <2>4. \A u \in Servers : batch'[u][m] = 0
    BY <1>1, <1>2, <2>1, <2>2
  <2>. QED  BY <1>1, <1>6, <2>3, <2>4 DEF Claim, Fresh
<1>7. ASSUME NEW t \in Servers, NEW n \in Messages,
             SkipActive(t, n) \/ AlreadyStored(t, n)
      PROVE  Fresh(m)'
  <2>1. batch[t][n] # 0 /\ batch' = [batch EXCEPT ![t][n] = 0]
    BY <1>7 DEF SkipActive, AlreadyStored
  <2>2. n # m
    BY <1>1, <2>1
  <2>3. row'[m] = row[m]
    BY <1>1, <1>2, <1>7, <2>2 DEF SkipActive, AlreadyStored
  <2>4. \A u \in Servers : batch'[u][m] = 0
    BY <1>1, <1>2, <2>1, <2>2
  <2>. QED  BY <1>1, <1>7, <2>3, <2>4 DEF SkipActive, AlreadyStored, Fresh
<1>8. ASSUME NEW t \in Servers, NEW n \in Messages, StartExtraction(t, n) PROVE Fresh(m)'
  <2>1. n # m
    BY <1>1, <1>8 DEF StartExtraction
  <2>2. \A u \in Servers : verdict'[u].msg # m
    <3>1. \/ verdict' = verdict
          \/ verdict' = [verdict EXCEPT ![t] = [msg |-> n, result |-> "stored"]]
      BY <1>8 DEF StartExtraction
    <3>. QED  BY <1>1, <1>2, <2>1, <3>1
  <2>. QED  BY <1>1, <1>8, <2>2 DEF StartExtraction, Fresh
<1>9. ASSUME NEW t \in Servers, MarkResult(t) PROVE Fresh(m)'
  <2>1. verdict[t].msg # m
    BY <1>1
  <2>2. row'[m] = row[m]
    BY <1>1, <1>2, <1>9, <2>1 DEF MarkResult
  <2>3. \A u \in Servers : batch'[u][m] = 0
    BY <1>1, <1>2, <1>9, <2>1 DEF MarkResult
  <2>4. \A u \in Servers : verdict'[u].msg # m
    BY <1>1, <1>2, <1>9, ConfigAssumption DEF MarkResult, NoVerdict
  <2>. QED  BY <1>1, <1>9, <2>2, <2>3, <2>4 DEF MarkResult, Fresh
<1>10. ASSUME NEW t \in Servers, NEW n \in Messages,
              Snapshot(t) \/ Retract(t, n) \/ Purge(t, n)
       PROVE  Fresh(m)'
  <2>1. \A u \in Servers : mem'[u][m] = "none"
    BY <1>1, <1>2, <1>10 DEF Snapshot, Retract, Purge
  <2>2. SaveCache(mem[t]) \/ SaveCache(mem'[t])
    BY <1>10 DEF Snapshot, Retract, Purge
  <2>3. row'[m] = row[m] /\ durable'[m] = "none"
    BY <1>1, <2>1, <2>2 DEF SaveCache, SaveFacts
  <2>. QED  BY <1>1, <1>10, <2>1, <2>3 DEF Snapshot, Retract, Purge, Fresh
<1>11. ASSUME NEW t \in Servers, Reload(t) PROVE Fresh(m)'
  BY <1>1, <1>2, <1>11 DEF Reload, Fresh
<1>12. ASSUME NEW t \in Servers, Restart(t) PROVE Fresh(m)'
  BY <1>1, <1>2, <1>12, ConfigAssumption DEF Restart, Fresh, NoVerdict
<1>13. CASE UNCHANGED vars
  BY <1>1, <1>13 DEF vars, Fresh
<1>. QED
  BY <1>3, <1>4, <1>5, <1>6, <1>7, <1>8, <1>9, <1>10, <1>11, <1>12, <1>13
  DEF Next, ServerStep, WorkerStep

(* How the set of running calls changes: a new one, a call that reaches    *)
(* its second phase, calls that end.                                       *)
JobChange(s) ==
  \/ jobs'[s] \subseteq jobs[s]
  \/ \E m \in Messages : /\ StoreBegin(s, m)
                         /\ jobs'[s] = jobs[s] \cup {[msg |-> m, by |-> "client", phase |-> "canon"]}
  \/ \E m \in Messages : /\ StartExtraction(s, m)
                         /\ jobs'[s] = jobs[s] \cup {[msg |-> m, by |-> "worker", phase |-> "canon"]}
  \/ \E j \in jobs[s], phase \in LoggedPhases :
       jobs'[s] = (jobs[s] \ {j}) \cup {[j EXCEPT !.phase = phase]}

LEMMA JobSteps == TypeOK /\ [Next]_vars => \A s \in Servers : JobChange(s)
<1>. SUFFICES ASSUME TypeOK, [Next]_vars, NEW s \in Servers PROVE JobChange(s)
  OBVIOUS
<1>. jobs \in [Servers -> SUBSET Jobs]
  BY DEF TypeOK
<1>1. ASSUME NEW t \in Servers, NEW m \in Messages, StoreBegin(t, m) PROVE JobChange(s)
  BY <1>1 DEF StoreBegin, JobChange
<1>2. ASSUME NEW t \in Servers, NEW m \in Messages, StartExtraction(t, m) PROVE JobChange(s)
  BY <1>2 DEF StartExtraction, JobChange
<1>3. ASSUME NEW t \in Servers, NEW j \in jobs[t], JobStep(t, j) PROVE JobChange(s)
  BY <1>3, JobFootprint DEF JobEnds, JobChange
<1>4. ASSUME NEW t \in Servers, Restart(t) PROVE JobChange(s)
  BY <1>4 DEF Restart, JobChange
<1>5. CASE UNCHANGED jobs
  BY <1>5 DEF JobChange
<1>. QED
  BY <1>1, <1>2, <1>3, <1>4, <1>5
  DEF Next, ServerStep, WorkerStep, Write, LeaseExpires, Claim, SkipActive, AlreadyStored,
      MarkResult, Snapshot, Retract, Purge, Reload, vars

LEMMA OneExtractionStep == IInv /\ [Next]_vars => OneExtractionPerServer'
<1>. SUFFICES ASSUME IInv, [Next]_vars, NEW s \in Servers, NEW j \in jobs'[s], NEW k \in jobs'[s],
                     j.msg = k.msg
              PROVE  j = k
  BY DEF OneExtractionPerServer
<1>1. /\ \A a, b \in jobs[s] : a.msg = b.msg => a = b
      /\ jobs[s] \subseteq Jobs
  BY DEF IInv, OneExtractionPerServer, TypeOK
<1>2. CASE jobs'[s] \subseteq jobs[s]
  BY <1>1, <1>2
<1>3. ASSUME NEW m \in Messages, StoreBegin(s, m),
             jobs'[s] = jobs[s] \cup {[msg |-> m, by |-> "client", phase |-> "canon"]}
      PROVE  j = k
  <2>1. \A a \in jobs[s] : a.msg # m
    BY <1>3 DEF StoreBegin
  <2>. QED  BY <1>1, <1>3, <2>1
<1>4. ASSUME NEW m \in Messages, StartExtraction(s, m),
             jobs'[s] = jobs[s] \cup {[msg |-> m, by |-> "worker", phase |-> "canon"]}
      PROVE  j = k
  <2>1. \A a \in jobs[s] : a.msg # m
    <3>. SUFFICES ASSUME NEW a \in jobs[s], a.msg = m PROVE FALSE
      OBVIOUS
    <3>1. a.by = "client" /\ a.phase = "canon"
      BY <1>1, <1>4 DEF StartExtraction, WorkerFree, WorkerJobs, ActiveIds, Jobs
    <3>2. batch[s][m] = 0
      BY <3>1 DEF IInv, FreshUntilLogged, Fresh
    <3>. QED  BY <1>4, <3>2 DEF StartExtraction
  <2>. QED  BY <1>1, <1>4, <2>1
<1>5. ASSUME NEW i \in jobs[s], NEW phase \in LoggedPhases,
             jobs'[s] = (jobs[s] \ {i}) \cup {[i EXCEPT !.phase = phase]}
      PROVE  j = k
  <2>1. [i EXCEPT !.phase = phase].msg = i.msg
    BY <1>1 DEF Jobs
  <2>. QED  BY <1>1, <1>5, <2>1
<1>. QED  BY <1>2, <1>3, <1>4, <1>5, JobSteps DEF JobChange, IInv

LEMMA FreshUntilLoggedStep == IInv /\ [Next]_vars => FreshUntilLogged'
<1>. SUFFICES ASSUME IInv, [Next]_vars, NEW s \in Servers, NEW j \in jobs'[s],
                     j.by = "client", j.phase = "canon"
              PROVE  /\ j.msg \in SyncMsgs
                     /\ Fresh(j.msg)'
                     /\ \A t \in Servers : \A k \in jobs'[t] : k.msg = j.msg => t = s /\ k = j
  BY DEF FreshUntilLogged
<1>1. \A t \in Servers : JobChange(t) /\ jobs[t] \subseteq Jobs
  BY JobSteps DEF IInv, TypeOK
<1>2. CASE j \in jobs[s]
  <2>1. /\ j.msg \in Messages /\ j.msg \in SyncMsgs
        /\ \A t \in Servers : batch[t][j.msg] = 0
        /\ \A t \in Servers : \A k \in jobs[t] : k.msg = j.msg => t = s /\ k = j
    BY <1>1, <1>2 DEF IInv, FreshUntilLogged, Fresh, Jobs
  <2>2. Fresh(j.msg)'
    BY <1>2, <2>1, FreshStep
  <2>3. ASSUME NEW t \in Servers, NEW k \in jobs'[t], k.msg = j.msg
        PROVE  t = s /\ k = j
    <3>1. CASE k \in jobs[t]
      BY <2>1, <2>3, <3>1
    <3>2. ASSUME NEW m \in Messages, StoreBegin(t, m), k.msg = m PROVE FALSE
      BY <1>2, <2>3, <3>2 DEF StoreBegin
    <3>3. ASSUME NEW m \in Messages, StartExtraction(t, m), k.msg = m PROVE FALSE
      BY <2>1, <2>3, <3>3 DEF StartExtraction
    <3>4. ASSUME NEW i \in jobs[t], NEW phase \in LoggedPhases,
                 k = [i EXCEPT !.phase = phase],
                 jobs'[t] = (jobs[t] \ {i}) \cup {k}
          PROVE  FALSE
      <4>1. k.msg = i.msg /\ k.phase # "canon"
        BY <1>1, <3>4 DEF Jobs, LoggedPhases
      <4>2. t = s /\ i = j
        BY <2>1, <2>3, <4>1
      <4>. QED  BY <3>4, <4>1, <4>2
    <3>. QED  BY <1>1, <3>1, <3>2, <3>3, <3>4 DEF JobChange
  <2>. QED  BY <2>1, <2>2, <2>3
<1>3. CASE j \notin jobs[s]
  <2>1. PICK m \in Messages :
          StoreBegin(s, m) /\ j = [msg |-> m, by |-> "client", phase |-> "canon"]
    <3>1. \A i \in jobs[s], phase \in LoggedPhases :
            [i EXCEPT !.phase = phase].phase # "canon"
      BY <1>1 DEF Jobs, LoggedPhases
    <3>2. ~ (jobs'[s] \subseteq jobs[s])
      BY <1>3
    <3>3. ASSUME NEW i \in jobs[s], NEW phase \in LoggedPhases,
                 jobs'[s] = (jobs[s] \ {i}) \cup {[i EXCEPT !.phase = phase]}
          PROVE  FALSE
      <4>1. j = [i EXCEPT !.phase = phase]
        BY <1>3, <3>3
      <4>. QED  BY <3>1, <4>1
    <3>4. ASSUME NEW m \in Messages,
                 jobs'[s] = jobs[s] \cup {[msg |-> m, by |-> "worker", phase |-> "canon"]}
          PROVE  FALSE
      <4>1. j = [msg |-> m, by |-> "worker", phase |-> "canon"]
        BY <1>3, <3>4
      <4>. QED  BY <4>1
    <3>5. PICK m \in Messages :
            /\ StoreBegin(s, m)
            /\ jobs'[s] = jobs[s] \cup {[msg |-> m, by |-> "client", phase |-> "canon"]}
      BY <1>1, <3>2, <3>3, <3>4, Zenon DEF JobChange
    <3>6. j = [msg |-> m, by |-> "client", phase |-> "canon"]
      BY <1>3, <3>5
    <3>. QED  BY <3>5, <3>6
  <2>2. j.msg = m /\ m \in SyncMsgs
    BY <2>1 DEF StoreBegin
  <2>3. Fresh(m)'
    BY <2>1 DEF StoreBegin, Fresh
  <2>4. \A t \in Servers : \A k \in jobs'[t] : k.msg = m => t = s /\ k = j
    BY <2>1 DEF StoreBegin, IInv, TypeOK
  <2>. QED  BY <2>2, <2>3, <2>4
<1>. QED  BY <1>2, <1>3

(* The part of WorkerSequential that is about one server.                  *)
OneAtATime(u) ==
  /\ \A j, k \in WorkerJobs(u) : j = k
  /\ \A j \in WorkerJobs(u) : batch[u][j.msg] # 0 /\ LoopFree(u)
  /\ ~LoopFree(u) => batch[u][verdict[u].msg] # 0

LEMMA WorkerSequentialStep == IInv /\ [Next]_vars => WorkerSequential'
<1>. SUFFICES ASSUME IInv, [Next]_vars, NEW u \in Servers PROVE OneAtATime(u)'
  BY DEF WorkerSequential, OneAtATime
<1>1. /\ OneAtATime(u)
      /\ jobs \in [Servers -> SUBSET Jobs]
      /\ batch \in [Servers -> [Messages -> 0..MaxAttempts]]
      /\ verdict \in [Servers -> Verdicts]
  BY DEF IInv, TypeOK, WorkerSequential, OneAtATime
<1>2. CASE WorkerJobs(u)' = {} /\ verdict'[u] = NoVerdict
  BY <1>2 DEF OneAtATime, LoopFree
<1>3. CASE jobs'[u] = jobs[u] /\ batch'[u] = batch[u] /\ verdict'[u] = verdict[u]
  BY <1>1, <1>3 DEF OneAtATime, LoopFree, WorkerJobs
<1>4. ASSUME NEW s \in Servers, NEW m \in Messages, StoreBegin(s, m) PROVE OneAtATime(u)'
  <2>1. WorkerJobs(u)' = WorkerJobs(u)
    BY <1>1, <1>4 DEF StoreBegin, WorkerJobs
  <2>. QED  BY <1>1, <1>4, <2>1 DEF StoreBegin, OneAtATime, LoopFree
<1>5. ASSUME NEW s \in Servers, NEW j \in jobs[s], JobStep(s, j) PROVE OneAtATime(u)'
  <2>1. batch' = batch
    BY <1>5, JobFootprint DEF IInv
  <2>2. CASE u # s
    <3>1. jobs'[u] = jobs[u] /\ verdict'[u] = verdict[u]
      BY <1>1, <1>5, <2>2, JobFootprint DEF IInv, JobEnds
    <3>. QED  BY <1>3, <2>1, <3>1
  <2>3. ASSUME u = s, NEW phase \in LoggedPhases, verdict' = verdict,
               jobs' = [jobs EXCEPT ![s] = (@ \ {j}) \cup {[j EXCEPT !.phase = phase]}]
        PROVE  OneAtATime(u)'
    <3>1. \A k \in WorkerJobs(u)' :
            k \in WorkerJobs(u) \ {j} \/ (k = [j EXCEPT !.phase = phase] /\ j \in WorkerJobs(u))
      BY <1>1, <2>3 DEF WorkerJobs, Jobs
    <3>2. [j EXCEPT !.phase = phase].msg = j.msg
      BY <1>1 DEF Jobs
    <3>. QED  BY <1>1, <2>1, <2>3, <3>1, <3>2 DEF OneAtATime, LoopFree
  <2>4. ASSUME u = s, NEW result, JobEnds(s, j, result) PROVE OneAtATime(u)'
    <3>1. WorkerJobs(u)' = WorkerJobs(u) \ {j}
      BY <1>1, <2>4 DEF JobEnds, WorkerJobs
    <3>2. CASE j.by = "worker"
      <4>1. j \in WorkerJobs(u)
        BY <2>4, <3>2 DEF WorkerJobs
      <4>2. WorkerJobs(u)' = {} /\ batch[u][j.msg] # 0
        BY <1>1, <3>1, <4>1 DEF OneAtATime
      <4>3. verdict'[u].msg = j.msg
        BY <1>1, <2>4, <3>2 DEF JobEnds
      <4>. QED  BY <2>1, <4>2, <4>3 DEF OneAtATime
    <3>3. CASE j.by # "worker"
      <4>1. verdict' = verdict
        BY <2>4, <3>3 DEF JobEnds
      <4>. QED  BY <1>1, <2>1, <3>1, <4>1 DEF OneAtATime, LoopFree
    <3>. QED  BY <3>2, <3>3
  <2>. QED  BY <1>5, <2>2, <2>3, <2>4, JobFootprint DEF IInv
<1>6. ASSUME NEW s \in Servers, NEW m \in Messages, StartExtraction(s, m)
      PROVE  OneAtATime(u)'
  <2>1. CASE u # s
    <3>1. jobs'[u] = jobs[u] /\ batch'[u] = batch[u] /\ verdict'[u] = verdict[u]
      BY <1>1, <1>6, <2>1 DEF StartExtraction
    <3>. QED  BY <1>3, <3>1
  <2>2. CASE u = s
    <3>1. WorkerJobs(u) = {} /\ verdict[u] = NoVerdict /\ batch'[u][m] # 0
      BY <1>6, <2>2 DEF StartExtraction, WorkerFree, LoopFree
    <3>2. CASE jobs' = jobs /\ verdict' = [verdict EXCEPT ![s] = [msg |-> m, result |-> "stored"]]
      <4>1. WorkerJobs(u)' = {} /\ verdict'[u].msg = m
        BY <1>1, <2>2, <3>1, <3>2 DEF WorkerJobs
      <4>. QED  BY <3>1, <4>1 DEF OneAtATime
    <3>3. CASE /\ verdict' = verdict
               /\ jobs' = [jobs EXCEPT ![s] =
                             @ \cup {[msg |-> m, by |-> "worker", phase |-> "canon"]}]
      <4>1. WorkerJobs(u)' = {[msg |-> m, by |-> "worker", phase |-> "canon"]}
        BY <1>1, <2>2, <3>1, <3>3 DEF WorkerJobs
      <4>. QED  BY <3>1, <3>3, <4>1 DEF OneAtATime, LoopFree
    <3>. QED  BY <1>6, <3>2, <3>3 DEF StartExtraction
  <2>. QED  BY <2>1, <2>2
<1>7. ASSUME NEW s \in Servers, NEW m \in Messages,
             SkipActive(s, m) \/ AlreadyStored(s, m)
      PROVE  OneAtATime(u)'
  <2>1. /\ WorkerJobs(s) = {} /\ verdict[s] = NoVerdict
        /\ jobs' = jobs /\ verdict' = verdict
        /\ u # s => batch'[u] = batch[u]
    BY <1>1, <1>7 DEF SkipActive, AlreadyStored, WorkerFree, LoopFree
  <2>2. CASE u = s
    BY <1>2, <2>1, <2>2 DEF WorkerJobs
  <2>. QED  BY <1>3, <2>1, <2>2
<1>8. ASSUME NEW s \in Servers, MarkResult(s) PROVE OneAtATime(u)'
  <2>1. CASE u # s
    <3>1. jobs'[u] = jobs[u] /\ batch'[u] = batch[u] /\ verdict'[u] = verdict[u]
      BY <1>1, <1>8, <2>1 DEF MarkResult
    <3>. QED  BY <1>3, <3>1
  <2>2. CASE u = s
    <3>1. WorkerJobs(u)' = {} /\ verdict'[u] = NoVerdict
      BY <1>1, <1>8, <2>2 DEF MarkResult, OneAtATime, WorkerJobs
    <3>. QED  BY <1>2, <3>1
  <2>. QED  BY <2>1, <2>2
<1>9. ASSUME NEW s \in Servers, Restart(s) PROVE OneAtATime(u)'
  <2>1. CASE u # s
    <3>1. jobs'[u] = jobs[u] /\ batch'[u] = batch[u] /\ verdict'[u] = verdict[u]
      BY <1>1, <1>9, <2>1 DEF Restart
    <3>. QED  BY <1>3, <3>1
  <2>2. CASE u = s
    <3>1. WorkerJobs(u)' = {} /\ verdict'[u] = NoVerdict
      BY <1>1, <1>9, <2>2 DEF Restart, WorkerJobs
    <3>. QED  BY <1>2, <3>1
  <2>. QED  BY <2>1, <2>2
<1>10. CASE UNCHANGED <<jobs, batch, verdict>>
  BY <1>3, <1>10
<1>11. ASSUME NEW s \in Servers, Claim(s) PROVE OneAtATime(u)'
  <2>1. /\ WorkerJobs(s) = {} /\ verdict[s] = NoVerdict
        /\ jobs' = jobs /\ verdict' = verdict
        /\ u # s => batch'[u] = batch[u]
    BY <1>1, <1>11 DEF Claim, WorkerFree, LoopFree
  <2>2. CASE u = s
    BY <1>2, <2>1, <2>2 DEF WorkerJobs
  <2>. QED  BY <1>3, <2>1, <2>2
<1>. QED
  BY <1>4, <1>5, <1>6, <1>7, <1>8, <1>9, <1>10, <1>11
  DEF Next, ServerStep, WorkerStep, Write, LeaseExpires, Snapshot, Retract, Purge, Reload, vars

(* Why each process works on a message once at a time, and its worker on   *)
(* one entry at a time.                                                    *)
LEMMA InvHolds == Spec => []IInv
<1>1. Init => IInv
  <2>1. Init => OneExtractionPerServer /\ WorkerSequential /\ FreshUntilLogged
    BY DEF Init, OneExtractionPerServer, WorkerSequential, WorkerJobs, LoopFree, FreshUntilLogged
  <2>. QED  BY <2>1, TypeInit DEF IInv
<1>2. IInv /\ [Next]_vars => IInv'
  BY TypeNext, OneExtractionStep, WorkerSequentialStep, FreshUntilLoggedStep DEF IInv
<1>. QED  BY <1>1, <1>2, PTL DEF Spec

(* However store() calls of clients, the worker, crashes and reloads       *)
(* interleave, no process has two calls for one message: the check the     *)
(* worker makes against _active_sync_message_ids is enough.                *)
THEOREM OneCallPerMessage == Spec => []OneExtractionPerServer
<1>1. IInv => OneExtractionPerServer
  BY DEF IInv
<1>. QED  BY <1>1, InvHolds, PTL

(* The worker of a process takes its entries strictly one after another,   *)
(* and writes back results of its own batch only.                          *)
THEOREM OneEntryAtATime == Spec => []WorkerSequential
<1>1. IInv => WorkerSequential
  BY DEF IInv
<1>. QED  BY <1>1, InvHolds, PTL

-----------------------------------------------------------------------------
(* A process extracts nothing it already holds the facts of, as long as    *)
(* nobody reloads its lists from the store under a running call.           *)
THEOREM NothingExtractedTwice ==
  ASSUME "reload" \notin Environment
  PROVE  Spec => []StoredNotInFlight
<1>1. Init => StoredNotInFlight
  BY DEF Init, StoredNotInFlight
<1>2. IInv /\ StoredNotInFlight /\ [Next]_vars => StoredNotInFlight'
  <2>. SUFFICES ASSUME IInv, StoredNotInFlight, [Next]_vars,
                       NEW u \in Servers, NEW k \in jobs'[u]
                PROVE  mem'[u][k.msg] \notin ActiveKinds
    BY DEF StoredNotInFlight
  <2>1. /\ jobs \in [Servers -> SUBSET Jobs]
        /\ mem \in [Servers -> [Messages -> Kinds]]
        /\ \A j, i \in jobs[u] : j.msg = i.msg => j = i
        /\ \A j \in jobs[u] : mem[u][j.msg] \notin ActiveKinds
    BY DEF IInv, TypeOK, OneExtractionPerServer, StoredNotInFlight
  <2>2. CASE jobs'[u] \subseteq jobs[u] /\ mem'[u] = mem[u]
    BY <2>1, <2>2
  <2>3. ASSUME NEW s \in Servers, NEW m \in Messages,
               StoreBegin(s, m) \/ StartExtraction(s, m)
        PROVE  mem'[u][k.msg] \notin ActiveKinds
    <3>1. mem' = mem /\ mem[s][m] \notin ActiveKinds
      BY <2>3 DEF StoreBegin, StartExtraction, ActiveKinds
    <3>2. k \in jobs[u] \/ (u = s /\ k.msg = m)
      <4>1. CASE StoreBegin(s, m)
        BY <2>1, <4>1 DEF StoreBegin
      <4>2. CASE StartExtraction(s, m)
        BY <2>1, <4>2 DEF StartExtraction
      <4>. QED  BY <2>3, <4>1, <4>2
    <3>. QED  BY <2>1, <3>1, <3>2
  <2>4. ASSUME NEW s \in Servers, NEW j \in jobs[s], JobStep(s, j)
        PROVE  mem'[u][k.msg] \notin ActiveKinds
    <3>1. PICK d : mem' = [mem EXCEPT ![s][j.msg] = d]
      BY <2>4, JobFootprint DEF IInv
    <3>2. j \in Jobs /\ j.msg \in Messages
      BY <2>1 DEF Jobs
    <3>3. CASE u # s
      <4>1. jobs'[u] = jobs[u]
        BY <2>1, <2>4, <3>3, JobFootprint DEF IInv, JobEnds
      <4>. QED  BY <2>1, <2>2, <3>1, <3>3, <4>1
    <3>4. ASSUME u = s, NEW phase \in LoggedPhases, Canonicalized(s, j, phase)
          PROVE  mem'[u][k.msg] \notin ActiveKinds
      <4>1. mem' = mem /\ [j EXCEPT !.phase = phase].msg = j.msg
        BY <3>2, <3>4 DEF Canonicalized, Jobs
      <4>2. k \in jobs[u] \/ k = [j EXCEPT !.phase = phase]
        BY <2>1, <3>4 DEF Canonicalized
      <4>. QED  BY <2>1, <3>4, <4>1, <4>2
    <3>5. ASSUME u = s, NEW result, JobEnds(s, j, result)
          PROVE  mem'[u][k.msg] \notin ActiveKinds
      <4>1. k \in jobs[u] /\ k # j
        BY <2>1, <3>5 DEF JobEnds
      <4>2. k.msg # j.msg /\ k.msg \in Messages
        BY <2>1, <3>5, <4>1 DEF Jobs
      <4>. QED  BY <2>1, <3>1, <4>1, <4>2
    <3>6. \/ \E phase \in LoggedPhases : Canonicalized(s, j, phase)
          \/ \E result : JobEnds(s, j, result)
      BY <2>4 DEF JobStep, CanonicalizationFails, Commit, CliTimeout, JobRaises, PersistFails
    <3>. QED  BY <3>3, <3>4, <3>5, <3>6
  <2>5. ASSUME NEW s \in Servers, NEW m \in Messages, Retract(s, m) \/ Purge(s, m)
        PROVE  mem'[u][k.msg] \notin ActiveKinds
    <3>1. jobs' = jobs /\ \E d \in {"retracted", "none"} : mem' = [mem EXCEPT ![s][m] = d]
      BY <2>5 DEF Retract, Purge
    <3>2. k \in jobs[u] /\ k.msg \in Messages
      BY <2>1, <3>1 DEF Jobs
    <3>. QED  BY <2>1, <3>1, <3>2 DEF ActiveKinds
  <2>6. ASSUME NEW s \in Servers, Restart(s) PROVE mem'[u][k.msg] \notin ActiveKinds
    <3>1. u # s
      BY <2>1, <2>6 DEF Restart
    <3>. QED  BY <2>1, <2>6, <3>1 DEF Restart
  <2>7. CASE UNCHANGED <<mem, jobs>>
    BY <2>2, <2>7
  <2>8. \A s \in Servers : ~Reload(s)
    BY DEF Reload
  <2>. QED
    BY <2>3, <2>4, <2>5, <2>6, <2>7, <2>8
    DEF Next, ServerStep, WorkerStep, Write, LeaseExpires, Claim, SkipActive, AlreadyStored,
        MarkResult, Snapshot, vars
<1>. QED  BY <1>1, <1>2, InvHolds, PTL DEF Spec
-----------------------------------------------------------------------------
OneProcess == \A s, t \in Servers : s = t

GoodNews == {"stored", "terminal"}

-----------------------------------------------------------------------------
(* What a running call writes: the row of its message, what is stored of   *)
(* it, and what its process holds of it.  A row is completed, and good     *)
(* news returned, only together with something that is stored; a call that *)
(* goes on or ends in an error leaves both copies as they are, except for  *)
(* a timeout, which is stored too, and a transaction that failed.          *)
JobWrites(s, j, r, d, k) ==
  /\ row' = [row EXCEPT ![j.msg] = r]
  /\ durable' = [durable EXCEPT ![j.msg] = d]
  /\ mem' = [mem EXCEPT ![s][j.msg] = k]
  /\ \/ /\ \E phase \in LoggedPhases :
              jobs' = [jobs EXCEPT ![s] = (@ \ {j}) \cup {[j EXCEPT !.phase = phase]}]
        /\ verdict' = verdict /\ r = Appended(row[j.msg])
        /\ d = durable[j.msg] /\ k = mem[s][j.msg]
     \/ /\ JobEnds(s, j, "error") /\ r = row[j.msg]
        /\ \/ d = durable[j.msg] /\ k = mem[s][j.msg]
           \/ "cli_timeout" \in Environment /\ d = "extraction_failed" /\ k = d
           \/ "persist_error" \in Environment /\ d = durable[j.msg] /\ k # "none"
     \/ /\ \E result \in GoodNews : JobEnds(s, j, result)
        /\ r = Completed(row[j.msg]) /\ d # "none" /\ d = k
  /\ UNCHANGED <<batch, crashes>>

LEMMA JobStepWrites ==
  ASSUME TypeOK, NEW s \in Servers, NEW j \in jobs[s], JobStep(s, j)
  PROVE  \E r, d, k : JobWrites(s, j, r, d, k)
<1>. j.msg \in Messages /\ j.phase \in {"canon"} \cup LoggedPhases
  BY DEF TypeOK, Jobs
<1>1. /\ row = [row EXCEPT ![j.msg] = row[j.msg]]
      /\ durable = [durable EXCEPT ![j.msg] = durable[j.msg]]
      /\ mem = [mem EXCEPT ![s][j.msg] = mem[s][j.msg]]
  BY DEF TypeOK
<1>2. ASSUME NEW phase \in LoggedPhases, Canonicalized(s, j, phase)
      PROVE  JobWrites(s, j, Appended(row[j.msg]), durable[j.msg], mem[s][j.msg])
  BY <1>1, <1>2 DEF Canonicalized, JobWrites
<1>3. CASE CanonicalizationFails(s, j)
  BY <1>3 DEF CanonicalizationFails, GoodNews, JobWrites
<1>4. CASE \E kind \in ActiveKinds : Commit(s, j, kind)
  BY <1>4 DEF Commit, ActiveKinds, GoodNews, JobWrites
<1>5. CASE CliTimeout(s, j)
  BY <1>1, <1>5 DEF CliTimeout, JobWrites
<1>6. CASE JobRaises(s, j)
  BY <1>1, <1>6 DEF JobRaises, JobWrites
<1>7. ASSUME NEW kind \in Kinds, PersistFails(s, j, kind)
      PROVE  \E r, d, k : JobWrites(s, j, r, d, k)
  <2>1. kind # "none"
    BY <1>7 DEF PersistFails, Outcomes, ActiveKinds, LoggedPhases
  <2>. QED  BY <1>1, <1>7, <2>1 DEF PersistFails, JobWrites
<1>. QED  BY <1>2, <1>3, <1>4, <1>5, <1>6, <1>7 DEF JobStep

-----------------------------------------------------------------------------
(* Some process holds something of the text of m.                          *)
Remembered(m) ==
  \E n \in Messages : Content[n] = Content[m] /\ \E s \in Servers : mem[s][n] # "none"

(* What is stored, reported or about to be reported complete is also in    *)
(* some memory, as long as no process has died.                            *)
BackedInv ==
  crashes = 0 =>
    /\ \A m \in Messages : durable[m] # "none" => \E s \in Servers : mem[s][m] # "none"
    /\ \A m \in Messages : row[m].state = "complete" => Remembered(m)
    /\ \A s \in Servers : verdict[s].result \in GoodNews => Remembered(verdict[s].msg)

(* What a step may do to it. *)
StepBacks ==
  /\ \A s \in Servers, n \in Messages : mem[s][n] # "none" => mem'[s][n] # "none"
  /\ \A m \in Messages : durable'[m] # "none" =>
       durable[m] # "none" \/ \E s \in Servers : mem'[s][m] # "none"
  /\ \A m \in Messages : row'[m].state = "complete" =>
       \/ row[m].state = "complete"
       \/ \E s \in Servers : mem'[s][m] # "none"
       \/ \E s \in Servers : verdict[s].msg = m /\ verdict[s].result \in GoodNews
  /\ \A s \in Servers : verdict'[s].result \in GoodNews =>
       \/ verdict'[s] = verdict[s]
       \/ verdict'[s].msg \in Messages /\ Remembered(verdict[s].msg)'

LEMMA SaveCacheBacks ==
  ASSUME TypeOK, NEW s \in Servers, SaveCache(mem'[s]), mem' \in [Servers -> [Messages -> Kinds]],
         \A t \in Servers, n \in Messages : mem[t][n] # "none" => mem'[t][n] # "none",
         verdict' = verdict
  PROVE  StepBacks
<1>1. ASSUME NEW m \in Messages, durable'[m] # "none"
      PROVE  durable[m] # "none" \/ mem'[s][m] # "none"
  BY <1>1 DEF SaveCache, SaveFacts
<1>2. ASSUME NEW m \in Messages, row'[m].state = "complete"
      PROVE  row[m].state = "complete" \/ mem'[s][m] # "none"
  BY <1>2 DEF SaveCache, SaveFacts, AbsentRow
<1>. QED  BY <1>1, <1>2 DEF StepBacks

LEMMA JobStepBacks ==
  ASSUME TypeOK, NEW s \in Servers, NEW j \in jobs[s], JobStep(s, j)
  PROVE  StepBacks
<1>. /\ row \in [Messages -> Rows]
     /\ durable \in [Messages -> Kinds]
     /\ mem \in [Servers -> [Messages -> Kinds]]
     /\ verdict \in [Servers -> Verdicts]
     /\ j.msg \in Messages
  BY DEF TypeOK, Jobs
<1>1. PICK r, d, k : JobWrites(s, j, r, d, k)
  BY JobStepWrites
<1>2. /\ \A t \in Servers, n \in Messages : mem[t][n] # "none" => mem'[t][n] # "none"
      /\ \A n \in Messages : durable'[n] # "none" => durable[n] # "none" \/ mem'[s][n] # "none"
  BY <1>1 DEF JobWrites
<1>3. CASE d # "none" /\ d = k
  <2>1. Remembered(j.msg)' /\ mem'[s][j.msg] # "none"
    BY <1>1, <1>3 DEF JobWrites, Remembered
  <2>2. \A n \in Messages : row'[n] # row[n] => n = j.msg
    BY <1>1 DEF JobWrites
  <2>3. \A t \in Servers : verdict'[t] = verdict[t] \/ verdict'[t].msg = j.msg
    BY <1>1 DEF JobWrites, JobEnds
  <2>. QED  BY <1>2, <2>1, <2>2, <2>3 DEF StepBacks
<1>4. CASE ~(d # "none" /\ d = k)
  <2>1. \A n \in Messages : row'[n].state = "complete" => row[n].state = "complete"
    BY <1>1, <1>4 DEF JobWrites, Appended, NewRow
  <2>2. \A t \in Servers : verdict'[t] = verdict[t] \/ verdict'[t].result \notin GoodNews
    BY <1>1, <1>4 DEF JobWrites, JobEnds, GoodNews
  <2>. QED  BY <1>2, <2>1, <2>2 DEF StepBacks
<1>. QED  BY <1>3, <1>4

LEMMA NextBacks ==
  ASSUME TypeOK, [Next]_vars, crashes' = crashes, "purge" \notin Environment, "reload" \notin Environment
  PROVE  StepBacks
<1>. /\ row \in [Messages -> Rows]
     /\ durable \in [Messages -> Kinds]
     /\ mem \in [Servers -> [Messages -> Kinds]]
     /\ verdict \in [Servers -> Verdicts]
     /\ batch \in [Servers -> [Messages -> 0..MaxAttempts]]
  BY DEF TypeOK
<1>. crashes \in Nat
  BY ConfigAssumption DEF TypeOK
<1>1. ASSUME NEW m \in Messages, Write(m) \/ LeaseExpires(m) PROVE StepBacks
  <2>1. \A n \in Messages : row'[n].state = "complete" => row[n].state = "complete"
    <3>1. CASE Write(m)
      BY <3>1 DEF Write, Appended, NewRow
    <3>2. CASE LeaseExpires(m)
      <4>1. [row[m] EXCEPT !.lease = "expired"].state = row[m].state
        BY DEF Rows
      <4>. QED  BY <3>2, <4>1 DEF LeaseExpires
    <3>. QED  BY <1>1, <3>1, <3>2
  <2>. QED  BY <1>1, <2>1 DEF Write, LeaseExpires, StepBacks
<1>2. ASSUME NEW s \in Servers, NEW j \in jobs[s], JobStep(s, j) PROVE StepBacks
  BY <1>2, JobStepBacks
<1>3. ASSUME NEW s \in Servers, NEW m \in Messages, StoreBegin(s, m) PROVE StepBacks
  BY <1>3 DEF StoreBegin, StepBacks
<1>4. ASSUME NEW s \in Servers, Claim(s) PROVE StepBacks
  BY <1>4 DEF Claim, StepBacks
<1>5. ASSUME NEW s \in Servers, NEW m \in Messages, SkipActive(s, m) PROVE StepBacks
  BY <1>5 DEF SkipActive, Marked, StepBacks
<1>6. ASSUME NEW s \in Servers, NEW m \in Messages, AlreadyStored(s, m) PROVE StepBacks
  BY <1>6 DEF AlreadyStored, Marked, ActiveKinds, StepBacks
<1>7. ASSUME NEW s \in Servers, NEW m \in Messages, StartExtraction(s, m) PROVE StepBacks
  <2>1. DuplicateOf(s, m) # {} => Remembered(m)
    BY DEF DuplicateOf, Remembered
  <2>2. mem' = mem /\ durable' = durable /\ row' = row
    BY <1>7 DEF StartExtraction
  <2>3. Remembered(m)' <=> Remembered(m)
    BY <2>2 DEF Remembered
  <2>4. \A t \in Servers : verdict'[t] = verdict[t] \/ (verdict'[t].msg = m /\ Remembered(m)')
    BY <1>7, <2>1, <2>3 DEF StartExtraction
  <2>. QED  BY <2>2, <2>4 DEF StepBacks
<1>8. ASSUME NEW s \in Servers, MarkResult(s) PROVE StepBacks
  <2>1. \A m \in Messages : row'[m].state = "complete" =>
          row[m].state = "complete" \/ (verdict[s].msg = m /\ verdict[s].result \in GoodNews)
    BY <1>8 DEF MarkResult, Marked, NextState, GoodNews
  <2>. QED  BY <1>8, <2>1 DEF MarkResult, NoVerdict, GoodNews, StepBacks
<1>9. ASSUME NEW s \in Servers, Snapshot(s) PROVE StepBacks
  BY <1>9, SaveCacheBacks DEF Snapshot
<1>10. ASSUME NEW s \in Servers, NEW m \in Messages, Retract(s, m) PROVE StepBacks
  <2>1. mem' \in [Servers -> [Messages -> Kinds]]
    BY <1>10 DEF Retract, Kinds
  <2>. QED  BY <1>10, <2>1, SaveCacheBacks DEF Retract
<1>11. CASE UNCHANGED vars
  BY <1>11 DEF vars, StepBacks
<1>12. \A s \in Servers : ~Restart(s) /\ ~Reload(s) /\ \A m \in Messages : ~Purge(s, m)
  BY DEF Restart, Reload, Purge
<1>. QED
  BY <1>1, <1>2, <1>3, <1>4, <1>5, <1>6, <1>7, <1>8, <1>9, <1>10, <1>11, <1>12
  DEF Next, ServerStep, WorkerStep

(* A row says complete only if something of its text is left, unless       *)
(* somebody purged it, or memory was lost in a crash or a reload after a   *)
(* transaction that failed.                                                *)
THEOREM CompletedIsBacked ==
  ASSUME "purge" \notin Environment, "reload" \notin Environment
  PROVE  Spec => []CompleteIsBacked
<1>1. Init => BackedInv
  BY DEF Init, BackedInv, AbsentRow, NoVerdict, GoodNews
<1>2. TypeOK /\ BackedInv /\ [Next]_vars => BackedInv'
  <2>. SUFFICES ASSUME TypeOK, BackedInv, [Next]_vars, crashes' = 0 PROVE BackedInv'
    BY DEF BackedInv
  <2>1. crashes' = crashes \/ crashes' = crashes + 1
    BY DEF Next, ServerStep, WorkerStep, JobStep, Write, LeaseExpires, StoreBegin, Canonicalized,
           CanonicalizationFails, Commit, CliTimeout, JobRaises, PersistFails, Claim, SkipActive,
           AlreadyStored, StartExtraction, MarkResult, Snapshot, Retract, Purge, Reload, Restart, vars
  <2>2. crashes = 0 /\ crashes' = crashes
    BY <2>1, ConfigAssumption DEF TypeOK
  <2>3. StepBacks
    BY <2>2, NextBacks
  <2>4. \A m \in Messages : Remembered(m) => Remembered(m)'
    BY <2>3 DEF StepBacks, Remembered
  <2>5. \A s \in Servers : verdict[s].result \in GoodNews => verdict[s].msg \in Messages
    BY DEF TypeOK, Verdicts, NoVerdict, GoodNews
  <2>6. ASSUME NEW m \in Messages, row'[m].state = "complete" PROVE Remembered(m)'
    BY <2>2, <2>3, <2>4, <2>6 DEF BackedInv, StepBacks, Remembered
  <2>7. ASSUME NEW s \in Servers, verdict'[s].result \in GoodNews PROVE Remembered(verdict[s].msg)'
    BY <2>2, <2>3, <2>4, <2>5, <2>7 DEF BackedInv, StepBacks
  <2>8. ASSUME NEW m \in Messages, durable'[m] # "none" PROVE \E s \in Servers : mem'[s][m] # "none"
    BY <2>2, <2>3, <2>8 DEF BackedInv, StepBacks
  <2>. QED  BY <2>6, <2>7, <2>8 DEF BackedInv
<1>3. BackedInv => CompleteIsBacked
  BY DEF BackedInv, Remembered, CompleteIsBacked
<1>. QED  BY <1>1, <1>2, <1>3, TypeCorrect, PTL DEF Spec

-----------------------------------------------------------------------------
(* The attempts a worker was given with a claimed entry are attempts the   *)
(* row counted; the row stays in the log while it is being worked on.      *)
Charged ==
  \A s \in Servers, m \in Messages :
    batch[s][m] # 0 => row[m].state # "absent" /\ batch[s][m] <= row[m].attempts

(* What keeps it there when the process is alone: its snapshots hold all   *)
(* that is stored, and a completed row it still works on is stored.        *)
HeldWhileWorking ==
  \A s \in Servers, m \in Messages :
    /\ durable[m] # "none" => mem[s][m] # "none"
    /\ batch[s][m] # 0 /\ row[m].state = "complete" => durable[m] # "none"

ChargeInv ==
  /\ Charged
  /\ FailedIsExhausted
  /\ OneProcess => HeldWhileWorking

LEMMA AttemptsGrow ==
  ASSUME NEW r \in Rows, NEW q, RowChange(r, q), r.state # "absent", q.state # "absent"
  PROVE  r.attempts <= q.attempts
<1>1. \A n \in 0..MaxAttempts : n <= n /\ n <= Bumped(n)
  BY ConfigAssumption DEF Bumped
<1>2. r.attempts \in 0..MaxAttempts
  BY DEF Rows
<1>3. CASE \E st \in {"pending", "complete", "failed"} : q = Marked(r, st)
  BY <1>1, <1>2, <1>3 DEF Marked, Rows
<1>4. CASE q \in {r, Appended(r), Completed(r), [r EXCEPT !.state = "complete"]}
  BY <1>1, <1>2, <1>4 DEF Appended, Completed, Rows
<1>5. CASE q = [r EXCEPT !.lease = "expired"]
  BY <1>1, <1>2, <1>5 DEF Rows
<1>6. CASE q = [state |-> "in_progress", attempts |-> Bumped(r.attempts), lease |-> "live"]
  BY <1>1, <1>2, <1>6
<1>. QED  BY <1>3, <1>4, <1>5, <1>6 DEF RowChange, AbsentRow

(* What a batch holds comes from a claim, at the attempts of that claim.   *)
LEMMA BatchSteps ==
  ASSUME TypeOK, [Next]_vars, NEW t \in Servers, NEW n \in Messages, batch'[t][n] # 0
  PROVE  \/ batch'[t][n] = batch[t][n]
         \/ row'[n].state = "in_progress" /\ batch'[t][n] = row'[n].attempts
<1>. batch \in [Servers -> [Messages -> 0..MaxAttempts]]
  BY DEF TypeOK
<1>1. CASE batch' = batch
  BY <1>1
<1>2. ASSUME NEW s \in Servers, Claim(s)
      PROVE  \/ batch'[t][n] = batch[t][n]
             \/ row'[n].state = "in_progress" /\ batch'[t][n] = row'[n].attempts
  <2>1. PICK B : /\ row' = [m \in Messages |->
                       IF m \in B THEN [state    |-> "in_progress",
                                        attempts |-> Bumped(row[m].attempts),
                                        lease    |-> "live"]
                       ELSE row[m]]
                 /\ batch' = [batch EXCEPT ![s] = [m \in Messages |->
                         IF m \in B THEN Bumped(row[m].attempts) ELSE 0]]
    BY <1>2 DEF Claim
  <2>2. CASE t = s
    BY <2>1, <2>2
  <2>3. CASE t # s
    BY <2>1, <2>3
  <2>. QED  BY <2>2, <2>3
<1>3. ASSUME NEW s \in Servers, NEW m, batch' = [batch EXCEPT ![s][m] = 0]
      PROVE  batch'[t][n] = batch[t][n]
  BY <1>3
<1>4. ASSUME NEW s \in Servers, batch' = [batch EXCEPT ![s] = [m \in Messages |-> 0]]
      PROVE  batch'[t][n] = batch[t][n]
  BY <1>4
<1>5. \A s \in Servers, m \in Messages :
        /\ SkipActive(s, m) \/ AlreadyStored(s, m) => batch' = [batch EXCEPT ![s][m] = 0]
        /\ MarkResult(s) => batch' = [batch EXCEPT ![s][verdict[s].msg] = 0]
        /\ Restart(s) => batch' = [batch EXCEPT ![s] = [k \in Messages |-> 0]]
        /\ StartExtraction(s, m) \/ StoreBegin(s, m) => batch' = batch
        /\ Snapshot(s) \/ Retract(s, m) \/ Purge(s, m) \/ Reload(s) => batch' = batch
        /\ Write(m) \/ LeaseExpires(m) => batch' = batch
  BY DEF SkipActive, AlreadyStored, MarkResult, Restart, StartExtraction, StoreBegin, Snapshot,
         Retract, Purge, Reload, Write, LeaseExpires
<1>6. \A s \in Servers : \A j \in jobs[s] : JobStep(s, j) => batch' = batch
  BY DEF JobStep, Canonicalized, CanonicalizationFails, Commit, CliTimeout, JobRaises, PersistFails
<1>. QED  BY <1>1, <1>2, <1>3, <1>4, <1>5, <1>6, ZenonT(60) DEF Next, ServerStep, WorkerStep, vars

(* Only a snapshot deletes rows, and only a worker that used the last      *)
(* attempt of its batch up gives a message up.                             *)
LEMMA RowEnds ==
  ASSUME TypeOK, [Next]_vars, NEW n \in Messages
  PROVE  /\ row[n].state # "absent" /\ row'[n].state = "absent" =>
              \E s \in Servers :
                /\ SaveFacts(mem'[s]) /\ mem'[s][n] = "none"
                /\ Snapshot(s) \/ \E m \in Messages : Retract(s, m) \/ Purge(s, m)
         /\ row'[n].state = "failed" /\ row[n].state # "failed" =>
              row[n].state # "absent" /\ \E s \in Servers : batch[s][n] >= MaxAttempts
<1>. /\ row \in [Messages -> Rows]
     /\ verdict \in [Servers -> Verdicts]
     /\ batch \in [Servers -> [Messages -> 0..MaxAttempts]]
  BY DEF TypeOK
<1>. DEFINE Goal ==
         /\ row[n].state # "absent" /\ row'[n].state = "absent" =>
              \E s \in Servers :
                /\ SaveFacts(mem'[s]) /\ mem'[s][n] = "none"
                /\ Snapshot(s) \/ \E m \in Messages : Retract(s, m) \/ Purge(s, m)
         /\ row'[n].state = "failed" /\ row[n].state # "failed" =>
              row[n].state # "absent" /\ \E s \in Servers : batch[s][n] >= MaxAttempts
<1>1. ASSUME row'[n] = row[n] PROVE Goal
  BY <1>1
<1>2. ASSUME NEW m \in Messages, NEW r, row' = [row EXCEPT ![m] = r],
             row[m].state # "absent" => r.state # "absent",
             r.state = "failed" => row[m].state = "failed"
      PROVE  Goal
  BY <1>1, <1>2
<1>. HIDE DEF Goal
<1>3. ASSUME NEW m \in Messages
      PROVE  /\ row[m].state # "absent" => /\ Appended(row[m]).state # "absent"
                                           /\ Completed(row[m]).state # "absent"
             /\ Appended(row[m]).state = "failed" => row[m].state = "failed"
             /\ Completed(row[m]).state # "failed"
             /\ [row[m] EXCEPT !.lease = "expired"].state = row[m].state
             /\ \A st \in {"pending", "complete", "failed"} :
                  /\ row[m].state # "absent" => Marked(row[m], st).state = st
                  /\ row[m].state = "absent" => Marked(row[m], st) = row[m]
  <2>1. row[m] \in Rows
    OBVIOUS
  <2>. QED  BY <2>1 DEF Rows, Appended, Completed, Marked, NewRow
<1>4. ASSUME NEW m \in Messages, Write(m) \/ LeaseExpires(m) PROVE Goal
  <2>1. PICK r \in {Appended(row[m]), [row[m] EXCEPT !.lease = "expired"]} :
          row' = [row EXCEPT ![m] = r]
    BY <1>4 DEF Write, LeaseExpires
  <2>2. /\ row[m].state # "absent" => r.state # "absent"
        /\ r.state = "failed" => row[m].state = "failed"
    BY <1>3, <2>1
  <2>. QED  BY <1>2, <2>1, <2>2
<1>5. ASSUME NEW s \in Servers, NEW j \in jobs[s], JobStep(s, j) PROVE Goal
  <2>1. j.msg \in Messages
    BY DEF TypeOK, Jobs
  <2>2. PICK r, d, k : JobWrites(s, j, r, d, k)
    BY <1>5, JobStepWrites
  <2>3. r \in {row[j.msg], Appended(row[j.msg]), Completed(row[j.msg])}
    BY <2>2 DEF JobWrites
  <2>. QED  BY <1>2, <1>3, <2>1, <2>2, <2>3 DEF JobWrites
<1>6. ASSUME NEW s \in Servers, Claim(s) PROVE Goal
  <2>1. row'[n] = row[n] \/ row'[n].state = "in_progress"
    BY <1>6 DEF Claim
  <2>. QED  BY <2>1 DEF Goal
<1>7. ASSUME NEW s \in Servers, NEW m \in Messages,
             SkipActive(s, m) \/ AlreadyStored(s, m)
      PROVE  Goal
  <2>1. PICK st \in {"pending", "complete"} : row' = [row EXCEPT ![m] = Marked(row[m], st)]
    BY <1>7 DEF SkipActive, AlreadyStored
  <2>2. /\ row[m].state # "absent" => Marked(row[m], st).state = st
        /\ row[m].state = "absent" => Marked(row[m], st) = row[m]
    BY <1>3, <2>1
  <2>. QED  BY <1>2, <2>1, <2>2
<1>8. ASSUME NEW s \in Servers, MarkResult(s) PROVE Goal
  <2>1. verdict[s].msg \in Messages
    BY <1>8 DEF MarkResult, LoopFree, Verdicts
  <2>2. PICK st \in {"pending", "complete", "failed"} :
          /\ st = NextState(verdict[s].result, batch[s][verdict[s].msg])
          /\ row' = [row EXCEPT ![verdict[s].msg] = Marked(row[verdict[s].msg], st)]
    BY <1>8 DEF MarkResult, NextState
  <2>3. st = "failed" => batch[s][verdict[s].msg] >= MaxAttempts
    BY <2>2 DEF NextState
  <2>4. CASE n = verdict[s].msg
    BY <1>3, <2>1, <2>2, <2>3, <2>4 DEF Goal
  <2>5. CASE n # verdict[s].msg
    BY <1>1, <2>1, <2>2, <2>5
  <2>. QED  BY <2>4, <2>5
<1>9. ASSUME NEW s \in Servers,
             Snapshot(s) \/ \E m \in Messages : Retract(s, m) \/ Purge(s, m)
      PROVE  Goal
  <2>1. CASE row' = row
    BY <1>1, <2>1
  <2>2. CASE SaveFacts(mem'[s])
    <3>1. [row[n] EXCEPT !.state = "complete"].state = "complete"
      BY DEF Rows
    <3>2. /\ row'[n].state = "absent" /\ row[n].state # "absent" => mem'[s][n] = "none"
          /\ row'[n].state = "failed" => row[n].state = "failed"
      BY <2>2, <3>1 DEF SaveFacts, AbsentRow
    <3>. QED  BY <1>9, <2>2, <3>2 DEF Goal
  <2>3. SaveCache(mem'[s])
    BY <1>9 DEF Snapshot, Retract, Purge
  <2>. QED  BY <2>1, <2>2, <2>3 DEF SaveCache
<1>10. ASSUME NEW s \in Servers,
              \/ \E m \in Messages : StoreBegin(s, m) \/ StartExtraction(s, m)
              \/ Reload(s) \/ Restart(s)
       PROVE  Goal
  BY <1>1, <1>10 DEF StoreBegin, StartExtraction, Reload, Restart
<1>11. ASSUME UNCHANGED vars PROVE Goal
  BY <1>1, <1>11 DEF vars
<1>12. Goal
  BY <1>4, <1>5, <1>6, <1>7, <1>8, <1>9, <1>10, <1>11 DEF Next, ServerStep, WorkerStep
<1>. QED  BY <1>12 DEF Goal

(* Without purges: something held is forgotten only by reading the store   *)
(* again; what is new in the store is in a memory; what leaves the store   *)
(* is not in the memory the snapshot was taken of; and a row is completed  *)
(* with something stored of its message or by the worker that had it.      *)
StoreChange(n) ==
  /\ \A t \in Servers : mem[t][n] # "none" /\ mem'[t][n] = "none" =>
       durable'[n] = "none" /\ durable' = durable
  /\ durable[n] = "none" /\ durable'[n] # "none" => \E s \in Servers : mem'[s][n] # "none"
  /\ durable[n] # "none" /\ durable'[n] = "none" => \E s \in Servers : mem[s][n] = "none"
  /\ row[n].state # "complete" /\ row'[n].state = "complete" =>
       durable'[n] # "none" \/ \E s \in Servers : batch'[s][n] = 0

LEMMA StoreSteps ==
  ASSUME TypeOK, [Next]_vars, "purge" \notin Environment, NEW n \in Messages
  PROVE  StoreChange(n)
<1>. /\ row \in [Messages -> Rows]
     /\ durable \in [Messages -> Kinds]
     /\ mem \in [Servers -> [Messages -> Kinds]]
     /\ verdict \in [Servers -> Verdicts]
     /\ batch \in [Servers -> [Messages -> 0..MaxAttempts]]
  BY DEF TypeOK
<1>1. ASSUME mem' = mem, durable' = durable,
             row'[n].state = "complete" =>
               row[n].state = "complete" \/ \E s \in Servers : batch'[s][n] = 0
      PROVE  StoreChange(n)
  BY <1>1 DEF StoreChange
<1>2. ASSUME NEW m \in Messages, Write(m) \/ LeaseExpires(m) PROVE StoreChange(n)
  <2>1. PICK r \in {Appended(row[m]), [row[m] EXCEPT !.lease = "expired"]} :
          row' = [row EXCEPT ![m] = r]
    BY <1>2 DEF Write, LeaseExpires
  <2>2. r.state = "complete" => row[m].state = "complete"
    <3>1. [row[m] EXCEPT !.lease = "expired"].state = row[m].state
      BY DEF Rows
    <3>2. Appended(row[m]).state = "complete" => row[m].state = "complete"
      BY DEF Appended, NewRow
    <3>. QED  BY <2>1, <3>1, <3>2
  <2>3. row'[n].state = "complete" => row[n].state = "complete"
    BY <2>1, <2>2
  <2>. QED  BY <1>1, <1>2, <2>3 DEF Write, LeaseExpires
<1>3. ASSUME NEW s \in Servers, NEW j \in jobs[s], JobStep(s, j) PROVE StoreChange(n)
  <2>1. j.msg \in Messages
    BY DEF TypeOK, Jobs
  <2>2. PICK r, d, k : JobWrites(s, j, r, d, k)
    BY <1>3, JobStepWrites
  <2>3. r.state = "complete" => row[j.msg].state = "complete" \/ d # "none"
    BY <2>2 DEF JobWrites, Appended, NewRow
  <2>4. CASE n # j.msg
    BY <2>1, <2>2, <2>4 DEF JobWrites, StoreChange
  <2>5. CASE n = j.msg
    <3>1. row'[n] = r /\ durable'[n] = d /\ mem'[s][n] = k
      BY <2>1, <2>2, <2>5 DEF JobWrites
    <3>2. \A t \in Servers : mem[t][n] # "none" => mem'[t][n] # "none"
      BY <2>1, <2>2, <2>5 DEF JobWrites
    <3>3. d = "none" => durable[n] = "none"
      BY <2>2, <2>5 DEF JobWrites
    <3>. QED  BY <2>2, <2>3, <2>5, <3>1, <3>2, <3>3 DEF JobWrites, StoreChange
  <2>. QED  BY <2>4, <2>5
<1>4. ASSUME NEW s \in Servers, Claim(s) PROVE StoreChange(n)
  BY <1>1, <1>4 DEF Claim
<1>5. ASSUME NEW s \in Servers, NEW m \in Messages,
             SkipActive(s, m) \/ AlreadyStored(s, m)
      PROVE  StoreChange(n)
  <2>1. batch'[s][m] = 0 /\ (n # m => row'[n] = row[n])
    BY <1>5 DEF SkipActive, AlreadyStored
  <2>. QED  BY <1>1, <1>5, <2>1 DEF SkipActive, AlreadyStored
<1>6. ASSUME NEW s \in Servers, MarkResult(s) PROVE StoreChange(n)
  <2>1. verdict[s].msg \in Messages
    BY <1>6 DEF MarkResult, LoopFree, Verdicts
  <2>2. batch'[s][verdict[s].msg] = 0 /\ (n # verdict[s].msg => row'[n] = row[n])
    BY <1>6, <2>1 DEF MarkResult
  <2>. QED  BY <1>1, <1>6, <2>2 DEF MarkResult
<1>7. ASSUME NEW s \in Servers, SaveCache(mem'[s]), mem'[s][n] # "none" <=> mem[s][n] # "none",
             \A t \in Servers \ {s} : mem'[t] = mem[t]
      PROVE  StoreChange(n)
  BY <1>7 DEF SaveCache, SaveFacts, AbsentRow, StoreChange
<1>8. ASSUME NEW s \in Servers,
             Snapshot(s) \/ \E m \in Messages : Retract(s, m)
      PROVE  StoreChange(n)
  BY <1>7, <1>8 DEF Snapshot, Retract
<1>9. ASSUME NEW s \in Servers, Reload(s) \/ Restart(s)
      PROVE  StoreChange(n)
  BY <1>9 DEF Reload, Restart, StoreChange
<1>10. ASSUME NEW s \in Servers, NEW m \in Messages, StoreBegin(s, m) \/ StartExtraction(s, m)
       PROVE  StoreChange(n)
  BY <1>1, <1>10 DEF StoreBegin, StartExtraction
<1>11. CASE UNCHANGED vars
  BY <1>1, <1>11 DEF vars
<1>12. \A s \in Servers, m \in Messages : ~Purge(s, m)
  BY DEF Purge
<1>. QED
  BY <1>2, <1>3, <1>4, <1>5, <1>6, <1>8, <1>9, <1>10, <1>11, <1>12
  DEF Next, ServerStep, WorkerStep

(* A message is given up only after MaxAttempts claims, counted in its     *)
(* row: by the only process of a memory, or by several as long as none     *)
(* prunes the rows the others work on.                                     *)
THEOREM GivenUpIsExhausted ==
  ASSUME "purge" \notin Environment,
         OneProcess \/ ("snapshot" \notin Environment /\ "retract" \notin Environment)
  PROVE  Spec => []FailedIsExhausted
<1>1. Init => ChargeInv
  BY DEF Init, ChargeInv, Charged, FailedIsExhausted, HeldWhileWorking, AbsentRow
<1>2. TypeOK /\ ChargeInv /\ [Next]_vars => ChargeInv'
  <2>. SUFFICES ASSUME TypeOK, ChargeInv, [Next]_vars PROVE ChargeInv'
    OBVIOUS
  <2>. /\ row \in [Messages -> Rows] /\ TypeOK'
       /\ \A n \in Messages : row[n] \in Rows /\ row'[n] \in Rows
       /\ batch \in [Servers -> [Messages -> 0..MaxAttempts]]
    BY TypeNext DEF TypeOK
  <2>1. \A n \in Messages : RowChange(row[n], row'[n]) /\ StoreChange(n)
    BY RowSteps, StoreSteps
  <2>2. OneProcess => HeldWhileWorking'
    <3>. SUFFICES ASSUME OneProcess, NEW s \in Servers, NEW n \in Messages
                  PROVE  /\ durable'[n] # "none" => mem'[s][n] # "none"
                         /\ batch'[s][n] # 0 /\ row'[n].state = "complete" => durable'[n] # "none"
      BY DEF HeldWhileWorking
    <3>1. /\ durable[n] # "none" => mem[s][n] # "none"
          /\ batch[s][n] # 0 /\ row[n].state = "complete" => durable[n] # "none"
          /\ \A t \in Servers : t = s
      BY DEF ChargeInv, HeldWhileWorking, OneProcess
    <3>2. durable'[n] # "none" => mem'[s][n] # "none"
      BY <2>1, <3>1 DEF StoreChange
    <3>3. ASSUME batch'[s][n] # 0, row'[n].state = "complete" PROVE durable'[n] # "none"
      BY <2>1, <3>1, <3>3, BatchSteps DEF StoreChange
    <3>. QED  BY <3>2, <3>3
  <2>3. ASSUME NEW s \in Servers, NEW n \in Messages, batch[s][n] # 0
        PROVE  row'[n].state # "absent" /\ batch[s][n] <= row'[n].attempts
    <3>1. row[n].state # "absent" /\ batch[s][n] <= row[n].attempts
      BY <2>3 DEF ChargeInv, Charged
    <3>2. row'[n].state # "absent"
      <4>. SUFFICES ASSUME row'[n].state = "absent" PROVE FALSE
        OBVIOUS
      <4>1. PICK t \in Servers :
              /\ SaveFacts(mem'[t]) /\ mem'[t][n] = "none"
              /\ Snapshot(t) \/ \E m \in Messages : Retract(t, m) \/ Purge(t, m)
        BY <3>1, RowEnds
      <4>2. OneProcess
        BY <4>1 DEF Snapshot, Retract, Purge
      <4>3. row[n].state = "complete" /\ durable'[n] = "none"
        BY <2>1, <3>1, <4>1 DEF RowChange, SaveFacts, Appended, Completed, Marked, Rows
      <4>4. durable[n] # "none" /\ mem[s][n] # "none" /\ \A u \in Servers : u = s
        BY <2>3, <4>2, <4>3 DEF ChargeInv, HeldWhileWorking, OneProcess
      <4>. QED  BY <2>1, <4>3, <4>4 DEF StoreChange
    <3>3. row[n].attempts <= row'[n].attempts
      BY <2>1, <3>1, <3>2, AttemptsGrow
    <3>. QED  BY <3>1, <3>2, <3>3 DEF Rows
  <2>4. Charged'
    <3>. SUFFICES ASSUME NEW s \in Servers, NEW n \in Messages, batch'[s][n] # 0
                  PROVE  row'[n].state # "absent" /\ batch'[s][n] <= row'[n].attempts
      BY DEF Charged
    <3>1. CASE batch'[s][n] = batch[s][n]
      BY <2>3, <3>1
    <3>2. CASE row'[n].state = "in_progress" /\ batch'[s][n] = row'[n].attempts
      BY <3>2 DEF Rows
    <3>. QED  BY <3>1, <3>2, BatchSteps
  <2>5. FailedIsExhausted'
    <3>. SUFFICES ASSUME NEW n \in Messages, row'[n].state = "failed"
                  PROVE  row'[n].attempts = MaxAttempts
      BY DEF FailedIsExhausted
    <3>. /\ row'[n].attempts \in 0..MaxAttempts
         /\ row[n].attempts \in 0..MaxAttempts
         /\ MaxAttempts \in Nat
      BY ConfigAssumption DEF Rows
    <3>1. CASE row[n].state = "failed"
      <4>1. row[n].attempts = MaxAttempts /\ row[n].attempts <= row'[n].attempts
        BY <2>1, <3>1, AttemptsGrow DEF ChargeInv, FailedIsExhausted
      <4>. QED  BY <4>1
    <3>2. CASE row[n].state # "failed"
      <4>1. PICK s \in Servers : batch[s][n] >= MaxAttempts
        BY <3>2, RowEnds
      <4>2. batch[s][n] <= row'[n].attempts /\ batch[s][n] \in 0..MaxAttempts
        BY <2>3, <4>1, ConfigAssumption
      <4>. QED  BY <4>1, <4>2
    <3>. QED  BY <3>1, <3>2
  <2>. QED  BY <2>2, <2>4, <2>5 DEF ChargeInv
<1>3. ChargeInv => FailedIsExhausted
  BY DEF ChargeInv
<1>. QED  BY <1>1, <1>2, <1>3, TypeCorrect, PTL DEF Spec

-----------------------------------------------------------------------------
(* While no transaction fails, the lists of the only process are what is   *)
(* stored, so that reading the store again brings nothing back.            *)
InStep == \A s \in Servers : mem[s] = durable

LEMMA InStepHolds ==
  ASSUME OneProcess, "persist_error" \notin Environment
  PROVE  Spec => []InStep
<1>1. Init => InStep
  BY DEF Init, InStep
<1>2. TypeOK /\ InStep /\ [Next]_vars => InStep'
  <2>. SUFFICES ASSUME TypeOK, InStep, [Next]_vars, NEW t \in Servers PROVE mem'[t] = durable'
    BY DEF InStep
  <2>. /\ durable \in [Messages -> Kinds] /\ mem \in [Servers -> [Messages -> Kinds]]
       /\ mem[t] = durable /\ \A s \in Servers : s = t
    BY DEF TypeOK, InStep, OneProcess
  <2>1. ASSUME NEW s \in Servers, NEW j \in jobs[s], JobStep(s, j) PROVE mem'[t] = durable'
    <3>1. PICK r, d, k : JobWrites(s, j, r, d, k)
      BY <2>1, JobStepWrites
    <3>2. s = t /\ j.msg \in Messages /\ d = k
      BY <3>1 DEF JobWrites, TypeOK, Jobs
    <3>. QED  BY <3>1, <3>2 DEF JobWrites
  <2>2. ASSUME NEW s \in Servers, SaveCache(mem'[s]) PROVE mem'[t] = durable'
    BY <2>2 DEF SaveCache, SaveFacts
  <2>3. ASSUME NEW s \in Servers, Reload(s) \/ Restart(s) PROVE mem'[t] = durable'
    BY <2>3 DEF Reload, Restart
  <2>4. CASE UNCHANGED <<mem, durable>>
    BY <2>4
  <2>. QED
    BY <2>1, <2>2, <2>3, <2>4
    DEF Next, ServerStep, WorkerStep, Write, LeaseExpires, StoreBegin, Claim, SkipActive,
        AlreadyStored, StartExtraction, MarkResult, Snapshot, Retract, Purge, vars
<1>. QED  BY <1>1, <1>2, TypeCorrect, PTL DEF Spec

(* A client's store() is about a message of its own.                       *)
ClientsOwn == \A s \in Servers : \A j \in jobs[s] : j.by = "client" => j.msg \in SyncMsgs

LEMMA ClientsOwnHolds == Spec => []ClientsOwn
<1>1. Init => ClientsOwn
  BY DEF Init, ClientsOwn
<1>2. TypeOK /\ ClientsOwn /\ [Next]_vars => ClientsOwn'
  <2>. SUFFICES ASSUME TypeOK, ClientsOwn, [Next]_vars, NEW s \in Servers, NEW j \in jobs'[s],
                       j.by = "client"
                PROVE  j.msg \in SyncMsgs
    BY DEF ClientsOwn
  <2>1. CASE j \in jobs[s]
    BY <2>1 DEF ClientsOwn
  <2>2. ASSUME NEW m \in Messages, StoreBegin(s, m), j.msg = m PROVE j.msg \in SyncMsgs
    BY <2>2 DEF StoreBegin
  <2>3. ASSUME NEW i \in jobs[s], NEW phase \in LoggedPhases, j = [i EXCEPT !.phase = phase]
        PROVE  j.msg \in SyncMsgs
    <3>1. i \in Jobs
      BY DEF TypeOK
    <3>. QED  BY <2>3, <3>1 DEF ClientsOwn, Jobs
  <2>. QED  BY <2>1, <2>2, <2>3, JobSteps DEF JobChange
<1>. QED  BY <1>1, <1>2, TypeCorrect, PTL DEF Spec

(* Only the asynchronous messages repeat each other's text.                *)
RepeatsAreQueued ==
  \A m, n \in Messages : m # n /\ Content[m] = Content[n] => m \notin SyncMsgs /\ n \notin SyncMsgs

(* The worker extracts a text of which no facts are held.                  *)
NoneBefore == \A s \in Servers : \A j \in WorkerJobs(s) : DuplicateOf(s, j.msg) = {}

(* New facts come from a call that ends with them.                         *)
LEMMA FactsSteps ==
  ASSUME TypeOK, InStep, OneProcess, [Next]_vars, NEW s \in Servers, NEW n \in Messages,
         mem[s][n] # "facts", mem'[s][n] = "facts", "persist_error" \notin Environment
  PROVE  \E j \in jobs[s] : /\ j.msg = n
                            /\ jobs'[s] = jobs[s] \ {j}
                            /\ \A m \in Messages \ {n} : mem'[s][m] = mem[s][m]
<1>. /\ mem \in [Servers -> [Messages -> Kinds]]
     /\ jobs \in [Servers -> SUBSET Jobs]
     /\ mem[s] = durable /\ \A t \in Servers : t = s
  BY DEF TypeOK, InStep, OneProcess
<1>1. PICK j \in jobs[s] : JobStep(s, j)
  <2>1. mem'[s] # mem[s] /\ mem' # mem
    OBVIOUS
  <2>2. \A t \in Servers, m \in Messages : ~Retract(t, m) /\ ~Purge(t, m)
    BY DEF Retract, Purge
  <2>3. \A t \in Servers : ~Reload(t) /\ ~Restart(t)
    BY <2>1 DEF Reload, Restart
  <2>. QED
    BY <2>1, <2>2, <2>3
    DEF Next, ServerStep, WorkerStep, Write, LeaseExpires, StoreBegin, Claim, SkipActive,
        AlreadyStored, StartExtraction, MarkResult, Snapshot, vars
<1>2. PICK r, d, k : JobWrites(s, j, r, d, k)
  BY <1>1, JobStepWrites
<1>3. j.msg \in Messages
  BY DEF Jobs
<1>4. n = j.msg /\ k = "facts"
  BY <1>2, <1>3 DEF JobWrites
<1>5. jobs'[s] = jobs[s] \ {j}
  BY <1>2, <1>3, <1>4 DEF JobWrites, JobEnds
<1>. QED  BY <1>2, <1>3, <1>4, <1>5 DEF JobWrites

(* Exact dedup holds: of the messages of one text the worker turns at most *)
(* one into facts, through crashes, reloads, retractions and purges.       *)
THEOREM OneOfEachText ==
  ASSUME OneProcess, RepeatsAreQueued, "persist_error" \notin Environment
  PROVE  Spec => []SameContentOnce
<1>1. Init => NoneBefore /\ SameContentOnce
  BY DEF Init, NoneBefore, WorkerJobs, SameContentOnce
<1>2. /\ IInv /\ InStep /\ ClientsOwn /\ NoneBefore /\ SameContentOnce /\ [Next]_vars
      => NoneBefore' /\ SameContentOnce'
  <2>. SUFFICES ASSUME IInv, InStep, ClientsOwn, NoneBefore, SameContentOnce, [Next]_vars,
                       NEW s \in Servers
                PROVE  /\ \A k \in WorkerJobs(s)' : DuplicateOf(s, k.msg)' = {}
                       /\ \A m, n \in Messages :
                            m # n /\ Content[m] = Content[n] =>
                              ~(mem'[s][m] = "facts" /\ mem'[s][n] = "facts")
    BY DEF NoneBefore, SameContentOnce
  <2>. TypeOK /\ jobs[s] \subseteq Jobs
    BY DEF IInv, TypeOK
  <2>1. CASE \A n \in Messages : mem'[s][n] = "facts" => mem[s][n] = "facts"
    <3>1. \A m : DuplicateOf(s, m)' \subseteq DuplicateOf(s, m)
      BY <2>1 DEF DuplicateOf
    <3>2. ASSUME NEW k \in WorkerJobs(s)' PROVE DuplicateOf(s, k.msg) = {}
      <4>1. CASE k \in jobs[s]
        BY <4>1 DEF NoneBefore, WorkerJobs
      <4>2. ASSUME NEW i \in jobs[s], NEW phase \in LoggedPhases, k = [i EXCEPT !.phase = phase]
            PROVE  DuplicateOf(s, k.msg) = {}
        <5>1. k.msg = i.msg /\ i \in WorkerJobs(s)
          BY <4>2 DEF WorkerJobs, Jobs
        <5>. QED  BY <5>1 DEF NoneBefore
      <4>3. ASSUME NEW m \in Messages, StartExtraction(s, m),
                   jobs'[s] = jobs[s] \cup {[msg |-> m, by |-> "worker", phase |-> "canon"]},
                   k \notin jobs[s]
            PROVE  DuplicateOf(s, k.msg) = {}
        <5>1. k.msg = m /\ jobs' # jobs
          BY <4>3 DEF WorkerJobs
        <5>. QED  BY <4>3, <5>1 DEF StartExtraction
      <4>4. ASSUME NEW m \in Messages,
                   jobs'[s] = jobs[s] \cup {[msg |-> m, by |-> "client", phase |-> "canon"]}
            PROVE  k \in jobs[s]
        BY <4>4 DEF WorkerJobs
      <4>. QED  BY <4>1, <4>2, <4>3, <4>4, JobSteps DEF JobChange, WorkerJobs
    <3>. QED  BY <2>1, <3>1, <3>2 DEF SameContentOnce
  <2>2. ASSUME NEW n \in Messages, mem[s][n] # "facts", mem'[s][n] = "facts"
        PROVE  /\ \A k \in WorkerJobs(s)' : DuplicateOf(s, k.msg)' = {}
               /\ \A m, q \in Messages :
                    m # q /\ Content[m] = Content[q] =>
                      ~(mem'[s][m] = "facts" /\ mem'[s][q] = "facts")
    <3>1. PICK j \in jobs[s] : /\ j.msg = n
                               /\ jobs'[s] = jobs[s] \ {j}
                               /\ \A m \in Messages \ {n} : mem'[s][m] = mem[s][m]
      BY <2>2, FactsSteps
    <3>2. ASSUME NEW m \in Messages, m # n, Content[m] = Content[n]
          PROVE  /\ mem'[s][m] # "facts"
                 /\ \A k \in WorkerJobs(s) : k.msg = m => k = j
      <4>1. j.by = "worker"
        BY <3>1, <3>2 DEF ClientsOwn, RepeatsAreQueued, Jobs
      <4>2. DuplicateOf(s, n) = {} /\ \A k \in WorkerJobs(s) : k = j
        BY <3>1, <4>1 DEF NoneBefore, IInv, WorkerSequential, WorkerJobs
      <4>. QED  BY <3>1, <3>2, <4>2 DEF DuplicateOf
    <3>3. ASSUME NEW k \in WorkerJobs(s)' PROVE DuplicateOf(s, k.msg)' = {}
      <4>1. k \in WorkerJobs(s) /\ k # j /\ k.msg \in Messages
        BY <3>1 DEF WorkerJobs, Jobs
      <4>2. DuplicateOf(s, k.msg) = {}
        BY <4>1 DEF NoneBefore
      <4>3. Content[n] = Content[k.msg] => k.msg = n
        BY <3>2, <4>1
      <4>. QED  BY <3>1, <4>2, <4>3 DEF DuplicateOf
    <3>. QED  BY <3>1, <3>2, <3>3 DEF SameContentOnce
  <2>. QED  BY <2>1, <2>2
<1>. QED  BY <1>1, <1>2, InvHolds, InStepHolds, ClientsOwnHolds, PTL DEF Spec

-----------------------------------------------------------------------------
(* What links the queue to its contract: something is stored of a message  *)
(* of memory_write only when its row is complete, and a worker works only  *)
(* on rows that are owed until it knows their result.  Its row then counts *)
(* the attempt, so that a message given up is never claimed again.         *)
Queued == Messages \ SyncMsgs

Stored(m) == \E n \in Messages : Content[n] = Content[m] /\ durable[n] # "none"

Kept(s, m) ==
  /\ durable[m] # "none" => row[m].state = "complete"
  /\ batch[s][m] # 0 => /\ batch[s][m] <= row[m].attempts
                        /\ verdict[s].msg = m \/ row[m].state = "in_progress"
  /\ row[m].state = "failed" => row[m].attempts = MaxAttempts
  /\ verdict[s].msg = m => /\ \/ row[m].state = "in_progress"
                              \/ row[m].state = "complete" /\ verdict[s].result \in GoodNews
                           /\ verdict[s].result \in GoodNews => Stored(m)

ContractInv ==
  /\ IInv /\ InStep /\ ClientsOwn
  /\ \A s \in Servers, m \in Queued : Kept(s, m)

(* A call about a queued message is the worker's, and its row is owed.     *)
LEMMA QueuedJob ==
  ASSUME ContractInv, NEW s \in Servers, NEW j \in jobs[s], j.msg \in Queued
  PROVE  /\ j.by = "worker" /\ row[j.msg].state = "in_progress"
         /\ batch[s][j.msg] # 0 /\ durable[j.msg] = "none" /\ verdict[s] = NoVerdict
<1>1. j.by = "worker"
  BY DEF ContractInv, IInv, TypeOK, Jobs, ClientsOwn, Queued
<1>2. batch[s][j.msg] # 0 /\ verdict[s] = NoVerdict
  BY <1>1 DEF ContractInv, IInv, WorkerSequential, WorkerJobs, LoopFree
<1>3. verdict[s].msg # j.msg
  BY <1>2, ConfigAssumption DEF NoVerdict, Queued
<1>. QED  BY <1>1, <1>2, <1>3 DEF ContractInv, Kept

(* An entry of a queued message is always extracted, never skipped.        *)
LEMMA QueuedIsExtracted ==
  ASSUME ContractInv, NEW s \in Servers, NEW m \in Queued
  PROVE  ~SkipActive(s, m) /\ ~AlreadyStored(s, m)
<1>1. ~SkipActive(s, m)
  <2>1. \A j \in jobs[s] : j.msg = m => j.by = "worker"
    BY QueuedJob
  <2>. QED  BY <2>1 DEF SkipActive, WorkerFree, WorkerJobs, ActiveIds
<1>2. ~AlreadyStored(s, m)
  <2>. SUFFICES ASSUME AlreadyStored(s, m) PROVE FALSE
    OBVIOUS
  <2>1. verdict[s].msg # m /\ batch[s][m] # 0 /\ mem[s][m] # "none"
    BY ConfigAssumption DEF AlreadyStored, WorkerFree, LoopFree, NoVerdict, Queued, ActiveKinds
  <2>2. durable[m] # "none" /\ Kept(s, m)
    BY <2>1 DEF ContractInv, InStep
  <2>. QED  BY <2>1, <2>2 DEF Kept
<1>. QED  BY <1>1, <1>2

(* Snapshots leave queued rows alone or, when nothing is held of the       *)
(* message, delete a complete one.                                         *)
LEMMA QueuedSave ==
  ASSUME ContractInv, NEW s \in Servers, SaveCache(mem'[s]), "persist_error" \notin Environment,
         \A n \in Messages : mem[s][n] = "none" => mem'[s][n] = "none"
  PROVE  /\ durable' = mem'[s]
         /\ \A n \in Messages : durable[n] = "none" => durable'[n] = "none"
         /\ \A m \in Queued : \/ row'[m] = row[m] /\ (row[m].state = "complete" => durable'[m] # "none")
                              \/ /\ row[m].state = "complete" /\ row'[m] = AbsentRow
                                 /\ durable'[m] = "none"
<1>1. /\ row \in [Messages -> Rows] /\ mem[s] = durable
      /\ Queued \subseteq Messages /\ \A m \in Queued : Kept(s, m)
  BY DEF ContractInv, IInv, TypeOK, InStep, Queued
<1>2. \A r \in Rows : r.state = "complete" => [r EXCEPT !.state = "complete"] = r
  BY DEF Rows
<1>. QED  BY <1>1, <1>2 DEF SaveCache, SaveFacts, Kept

LEMMA KeptStep ==
  ASSUME ContractInv, [Next]_vars, OneProcess, NEW t \in Servers, NEW m \in Queued,
         "persist_error" \notin Environment, "cli_timeout" \notin Environment
  PROVE  Kept(t, m)'
<1>. /\ row \in [Messages -> Rows] /\ durable \in [Messages -> Kinds]
     /\ mem \in [Servers -> [Messages -> Kinds]]
     /\ jobs \in [Servers -> SUBSET Jobs]
     /\ batch \in [Servers -> [Messages -> 0..MaxAttempts]]
     /\ verdict \in [Servers -> Verdicts]
     /\ m \in Messages /\ m \notin SyncMsgs /\ m # NoMsg
     /\ Kept(t, m) /\ \A s \in Servers : s = t
  BY ConfigAssumption DEF ContractInv, IInv, TypeOK, Queued, OneProcess
<1>1. ASSUME UNCHANGED <<durable, batch, verdict>>, row'[m] = row[m] PROVE Kept(t, m)'
  BY <1>1 DEF Kept, Stored
<1>2. ASSUME NEW n \in Messages, Write(n) \/ LeaseExpires(n) PROVE Kept(t, m)'
  <2>1. CASE n # m
    BY <1>1, <1>2, <2>1 DEF Write, LeaseExpires
  <2>2. CASE Write(m)
    <3>1. batch[t][m] = 0 /\ verdict[t].msg # m /\ durable[m] = "none"
      BY <2>2 DEF Kept, Write
    <3>2. row'[m] = NewRow /\ UNCHANGED <<durable, batch, verdict>>
      BY <2>2 DEF Write, Appended
    <3>. QED  BY <3>1, <3>2 DEF Kept, NewRow
  <2>3. CASE LeaseExpires(m)
    <3>1. row'[m].state = row[m].state /\ row'[m].attempts = row[m].attempts
      BY <2>3 DEF LeaseExpires, Rows
    <3>. QED  BY <2>3, <3>1 DEF LeaseExpires, Kept, Stored
  <2>. QED  BY <1>2, <2>1, <2>2, <2>3
<1>3. ASSUME NEW s \in Servers, NEW j \in jobs[s], JobStep(s, j) PROVE Kept(t, m)'
  <2>1. PICK r, d, k : JobWrites(s, j, r, d, k)
    BY <1>3, JobStepWrites DEF ContractInv, IInv
  <2>2. j.msg \in Messages /\ s = t
    BY DEF Jobs
  <2>3. \A n \in Messages : durable[n] # "none" => durable'[n] # "none"
    BY <2>1, <2>2 DEF JobWrites
  <2>4. verdict[t] = NoVerdict
    BY <1>3 DEF JobStep, Canonicalized, CanonicalizationFails, Commit, CliTimeout, JobRaises,
                PersistFails, LoopFree
  <2>5. CASE j.msg # m
    <3>1. durable'[m] = durable[m] /\ row'[m] = row[m] /\ batch' = batch
      BY <2>1, <2>2, <2>5 DEF JobWrites
    <3>2. verdict'[t].msg # m
      BY <2>1, <2>4, <2>5 DEF JobWrites, JobEnds, NoVerdict
    <3>. QED  BY <2>4, <3>1, <3>2 DEF Kept, NoVerdict
  <2>6. CASE j.msg = m
    <3>1. /\ j.by = "worker" /\ row[m].state = "in_progress"
          /\ batch[t][m] # 0 /\ durable[m] = "none"
      BY <2>2, <2>6, QueuedJob
    <3>2. batch[t][m] <= row[m].attempts /\ batch' = batch
      BY <2>1, <3>1 DEF Kept, JobWrites
    <3>3. CASE r = Appended(row[m]) /\ d = "none" /\ verdict' = verdict
      BY <2>1, <2>4, <2>6, <3>1, <3>2, <3>3 DEF JobWrites, Appended, Kept, NoVerdict
    <3>4. CASE r = row[m] /\ d = "none" /\ JobEnds(s, j, "error")
      <4>1. verdict'[t] = [msg |-> m, result |-> "error"]
        BY <2>2, <2>6, <3>1, <3>4 DEF JobEnds
      <4>. QED  BY <2>1, <2>6, <3>1, <3>2, <3>4, <4>1 DEF JobWrites, Kept, GoodNews
    <3>5. ASSUME NEW result \in GoodNews, JobEnds(s, j, result), r = Completed(row[m]), d # "none"
          PROVE  Kept(t, m)'
      <4>1. verdict'[t] = [msg |-> m, result |-> result]
        BY <2>2, <2>6, <3>1, <3>5 DEF JobEnds
      <4>2. row'[m].state = "complete" /\ row'[m].attempts = row[m].attempts /\ durable'[m] # "none"
        BY <2>1, <2>6, <3>1, <3>5 DEF JobWrites, Completed, Rows
      <4>. QED  BY <3>2, <4>1, <4>2 DEF Kept, Stored
    <3>. QED  BY <2>1, <2>6, <3>1, <3>3, <3>4, <3>5 DEF JobWrites
  <2>. QED  BY <2>5, <2>6
<1>4. ASSUME NEW s \in Servers, NEW n \in Messages, SkipActive(s, n) \/ AlreadyStored(s, n)
      PROVE  Kept(t, m)'
  <2>1. n # m
    BY <1>4, QueuedIsExtracted
  <2>2. row'[m] = row[m] /\ batch'[t][m] = batch[t][m] /\ UNCHANGED <<durable, verdict>>
    BY <1>4, <2>1 DEF SkipActive, AlreadyStored
  <2>. QED  BY <2>2 DEF Kept, Stored
<1>5. ASSUME NEW s \in Servers, Claim(s) PROVE Kept(t, m)'
  <2>1. PICK B \in SUBSET {n \in Messages : Eligible(n)} :
          /\ row' = [n \in Messages |->
                       IF n \in B THEN [state    |-> "in_progress",
                                        attempts |-> Bumped(row[n].attempts),
                                        lease    |-> "live"]
                       ELSE row[n]]
          /\ batch' = [batch EXCEPT ![s] = [n \in Messages |->
                         IF n \in B THEN Bumped(row[n].attempts) ELSE 0]]
    BY <1>5 DEF Claim
  <2>2. verdict[t].msg # m /\ UNCHANGED <<durable, verdict>> /\ s = t
    BY <1>5 DEF Claim, WorkerFree, LoopFree, NoVerdict
  <2>3. CASE m \notin B
    <3>1. row'[m] = row[m] /\ batch'[t][m] = 0
      BY <2>1, <2>2, <2>3
    <3>. QED  BY <2>2, <3>1 DEF Kept
  <2>4. CASE m \in B
    <3>1. /\ row'[m].state = "in_progress" /\ batch'[t][m] = row'[m].attempts
          /\ row'[m].attempts = Bumped(row[m].attempts) /\ row[m].attempts \in 0..MaxAttempts
      BY <2>1, <2>2, <2>4 DEF Rows
    <3>2. row[m].state # "complete"
      BY <2>4 DEF Eligible
    <3>3. row'[m].attempts \in 0..MaxAttempts
      BY <3>1, BumpedType
    <3>. QED  BY <2>2, <3>1, <3>2, <3>3, ConfigAssumption DEF Kept
  <2>. QED  BY <2>3, <2>4
<1>6. ASSUME NEW s \in Servers, NEW n \in Messages, StartExtraction(s, n) PROVE Kept(t, m)'
  <2>1. s = t /\ verdict[s] = NoVerdict /\ batch[s][n] # 0 /\ UNCHANGED <<row, durable, batch>>
    BY <1>6 DEF StartExtraction, WorkerFree, LoopFree
  <2>2. CASE verdict' = verdict
    BY <1>1, <2>1, <2>2
  <2>3. CASE verdict' = [verdict EXCEPT ![s] = [msg |-> n, result |-> "stored"]] /\ n # m
    BY <2>1, <2>3 DEF Kept, NoVerdict
  <2>4. CASE /\ verdict' = [verdict EXCEPT ![s] = [msg |-> n, result |-> "stored"]]
             /\ n = m /\ DuplicateOf(s, m) # {}
    <3>1. Stored(m)' /\ row[m].state = "in_progress"
      BY <2>1, <2>4 DEF DuplicateOf, Stored, ContractInv, InStep, Kept, NoVerdict
    <3>. QED  BY <2>1, <2>4, <3>1 DEF Kept, NoVerdict
  <2>. QED  BY <1>6, <2>2, <2>3, <2>4 DEF StartExtraction
<1>7. ASSUME NEW s \in Servers, MarkResult(s) PROVE Kept(t, m)'
  <2>1. /\ s = t /\ verdict[t].msg \in Messages /\ verdict'[t].msg # m
        /\ durable' = durable
        /\ batch' = [batch EXCEPT ![t][verdict[t].msg] = 0]
        /\ row' = [row EXCEPT ![verdict[t].msg] =
                     Marked(@, NextState(verdict[t].result, batch[t][verdict[t].msg]))]
    BY <1>7 DEF MarkResult, LoopFree, Verdicts, NoVerdict
  <2>2. CASE verdict[t].msg # m
    BY <2>1, <2>2 DEF Kept
  <2>3. CASE verdict[t].msg = m
    <3>1. row'[m] = Marked(row[m], NextState(verdict[t].result, batch[t][m])) /\ batch'[t][m] = 0
      BY <2>1, <2>3
    <3>2. row[m].state \in {"in_progress", "complete"} /\ row[m].attempts \in 0..MaxAttempts
      BY <2>3 DEF Kept, Rows
    <3>3. /\ row'[m].state = NextState(verdict[t].result, batch[t][m])
          /\ row'[m].attempts = row[m].attempts
      BY <3>1, <3>2 DEF Marked, Rows
    <3>4. durable[m] # "none" => NextState(verdict[t].result, batch[t][m]) = "complete"
      BY <2>3 DEF Kept, NextState, GoodNews
    <3>5. NextState(verdict[t].result, batch[t][m]) = "failed" => row[m].attempts = MaxAttempts
      <4>1. WorkerSequential
        BY DEF ContractInv, IInv
      <4>2. batch[t][m] # 0
        BY <1>7, <2>1, <2>3, <4>1 DEF MarkResult, WorkerSequential
      <4>3. batch[t][m] <= row[m].attempts /\ batch[t][m] \in 0..MaxAttempts
        BY <4>2 DEF Kept
      <4>. QED  BY <3>2, <4>3, ConfigAssumption DEF NextState
    <3>. QED  BY <2>1, <3>1, <3>3, <3>4, <3>5 DEF Kept
  <2>. QED  BY <2>2, <2>3
<1>8. ASSUME NEW s \in Servers,
             Snapshot(s) \/ \E n \in Messages : Retract(s, n) \/ Purge(s, n)
      PROVE  Kept(t, m)'
  <2>1. s = t /\ verdict[t].msg # m /\ UNCHANGED <<batch, verdict>>
    BY <1>8 DEF Snapshot, Retract, Purge, LoopFree, NoVerdict
  <2>2. SaveCache(mem'[s]) /\ \A n \in Messages : mem[s][n] = "none" => mem'[s][n] = "none"
    BY <1>8 DEF Snapshot, Retract, Purge
  <2>3. \/ row'[m] = row[m] /\ (durable[m] = "none" => durable'[m] = "none")
        \/ row[m].state = "complete" /\ row'[m] = AbsentRow /\ durable'[m] = "none"
    BY <2>2, QueuedSave
  <2>. QED  BY <2>1, <2>3 DEF Kept, AbsentRow
<1>9. ASSUME NEW s \in Servers, Restart(s) PROVE Kept(t, m)'
  <2>1. row' = row /\ durable' = durable /\ batch'[t][m] = 0 /\ verdict'[t].msg # m
    BY <1>9 DEF Restart, NoVerdict
  <2>. QED  BY <2>1 DEF Kept
<1>10. CASE UNCHANGED <<row, durable, batch, verdict>>
  BY <1>1, <1>10
<1>. QED
  BY <1>2, <1>3, <1>4, <1>5, <1>6, <1>7, <1>8, <1>9, <1>10
  DEF Next, ServerStep, WorkerStep, StoreBegin, Reload, vars

-----------------------------------------------------------------------------
(* The variables of the contract, and its actions in their terms.          *)
StatusBar == [m \in Queued |-> StatusOf(row[m])]
HeldBar   == {m \in Messages : durable[m] # "none"}

LEMMA Statuses ==
  ASSUME NEW r \in Rows
  PROVE  /\ r.state = "absent" <=> StatusOf(r) = "unknown"
         /\ r.state \in {"pending", "in_progress"} <=> StatusOf(r) = "owed"
         /\ r.state = "complete" <=> StatusOf(r) = "done"
         /\ r.state = "failed" <=> StatusOf(r) = "given_up"
  BY DEF StatusOf, Rows

(* A step that changes the status of at most the queued message m.         *)
Told(m, st) ==
  /\ StatusOf(row'[m]) = st
  /\ \A n \in Queued \ {m} : StatusOf(row'[n]) = StatusOf(row[n])

LEMMA PromiseStep ==
  ASSUME \/ StatusBar' = StatusBar /\ HeldBar' = HeldBar
         \/ \E m \in Queued :
              \/ StatusBar[m] = "unknown" /\ Told(m, "owed") /\ HeldBar' = HeldBar
              \/ StatusBar[m] = "owed" /\ Told(m, "given_up") /\ HeldBar' = HeldBar
              \/ /\ StatusBar[m] = "owed" /\ Told(m, "done")
                 /\ HeldBar' \in {HeldBar, HeldBar \cup {m}} /\ Stored(m)'
         \/ \E m \in SyncMsgs : StatusBar' = StatusBar /\ HeldBar' = HeldBar \cup {m}
         \/ /\ HeldBar' \subseteq HeldBar
            /\ \A m \in Queued :
                 \/ StatusBar'[m] = StatusBar[m] /\ (StatusBar'[m] = "done" => m \in HeldBar')
                 \/ StatusBar[m] = "done" /\ StatusBar'[m] = "unknown"
  PROVE  [Promise!Next]_(Promise!vars)
<1>1. CASE StatusBar' = StatusBar /\ HeldBar' = HeldBar
  BY <1>1 DEF Promise!vars, StatusBar, HeldBar, Queued
<1>2. ASSUME NEW m \in Queued, NEW st, Told(m, st)
      PROVE  StatusBar' = [StatusBar EXCEPT ![m] = st]
  BY <1>2 DEF StatusBar, Told
<1>3. ASSUME NEW m \in Queued, StatusBar[m] = "unknown", Told(m, "owed"), HeldBar' = HeldBar
      PROVE  Promise!Accept(m)
  BY <1>2, <1>3 DEF Promise!Accept, StatusBar, HeldBar, Queued
<1>4. ASSUME NEW m \in Queued, StatusBar[m] = "owed", Told(m, "given_up"), HeldBar' = HeldBar
      PROVE  Promise!GiveUp(m)
  BY <1>2, <1>4 DEF Promise!GiveUp, StatusBar, HeldBar, Queued
<1>5. ASSUME NEW m \in Queued, StatusBar[m] = "owed", Told(m, "done"), Stored(m)',
             HeldBar' \in {HeldBar, HeldBar \cup {m}}
      PROVE  Promise!Settle(m)
  BY <1>2, <1>5 DEF Promise!Settle, Promise!Backed, Stored, StatusBar, HeldBar, Queued
<1>6. ASSUME NEW m \in SyncMsgs, StatusBar' = StatusBar, HeldBar' = HeldBar \cup {m}
      PROVE  Promise!Keep(m)
  BY <1>6 DEF Promise!Keep, StatusBar, HeldBar, Queued
<1>7. ASSUME HeldBar' \subseteq HeldBar,
             \A m \in Queued :
               \/ StatusBar'[m] = StatusBar[m] /\ (StatusBar'[m] = "done" => m \in HeldBar')
               \/ StatusBar[m] = "done" /\ StatusBar'[m] = "unknown"
      PROVE  Promise!Forget
  <2>. DEFINE F == {m \in Queued : StatusBar[m] = "done" /\ StatusBar'[m] = "unknown"}
  <2>1. /\ F \in SUBSET {m \in Queued : StatusBar[m] = "done"}
        /\ StatusBar' = [m \in Queued |-> IF m \in F THEN "unknown" ELSE StatusBar[m]]
    BY <1>7 DEF StatusBar
  <2>2. \A m \in Queued : StatusBar'[m] = "done" =>
          \E n \in HeldBar' : Content[n] = Content[m]
    BY <1>7
  <2>. QED  BY <1>7, <2>1, <2>2 DEF Promise!Forget, Promise!Backed, StatusBar, HeldBar, Queued
<1>. QED
  BY <1>1, <1>3, <1>4, <1>5, <1>6, <1>7 DEF Promise!Next, Queued

LEMMA ContractStep ==
  ASSUME ContractInv, [Next]_vars, OneProcess,
         "persist_error" \notin Environment, "cli_timeout" \notin Environment
  PROVE  [Promise!Next]_(Promise!vars)
<1>. /\ row \in [Messages -> Rows] /\ row' \in [Messages -> Rows]
     /\ durable \in [Messages -> Kinds]
     /\ verdict \in [Servers -> Verdicts]
     /\ batch \in [Servers -> [Messages -> 0..MaxAttempts]]
     /\ Queued \subseteq Messages /\ NoMsg \notin Queued /\ Messages \ Queued \subseteq SyncMsgs
     /\ \A s \in Servers, m \in Queued : Kept(s, m)
  BY TypeNext, ConfigAssumption DEF ContractInv, IInv, TypeOK, Queued
<1>1. \A m \in Queued : StatusBar[m] = StatusOf(row[m]) /\ StatusBar'[m] = StatusOf(row'[m])
  BY DEF StatusBar
<1>2. ASSUME \A m \in Queued : StatusOf(row'[m]) = StatusOf(row[m])
      PROVE  StatusBar' = StatusBar
  BY <1>2 DEF StatusBar
<1>3. ASSUME durable' = durable, \A m \in Queued : StatusOf(row'[m]) = StatusOf(row[m])
      PROVE  [Promise!Next]_(Promise!vars)
  BY <1>2, <1>3, PromiseStep DEF HeldBar
<1>4. ASSUME NEW m \in Messages, Write(m) PROVE [Promise!Next]_(Promise!vars)
  <2>1. m \in Queued /\ HeldBar' = HeldBar
    BY <1>4 DEF Write, Queued, HeldBar
  <2>2. StatusOf(row[m]) = "unknown" /\ StatusOf(row'[m]) = "owed"
    BY <1>4 DEF Write, Appended, NewRow, StatusOf
  <2>3. Told(m, "owed")
    BY <1>4, <2>2 DEF Write, Told
  <2>. QED  BY <1>1, <2>1, <2>2, <2>3, PromiseStep
<1>5. ASSUME NEW m \in Messages, LeaseExpires(m) PROVE [Promise!Next]_(Promise!vars)
  <2>1. [row[m] EXCEPT !.lease = "expired"].state = row[m].state
    BY DEF Rows
  <2>2. \A n \in Queued : row'[n].state = row[n].state
    BY <1>5, <2>1 DEF LeaseExpires
  <2>. QED  BY <1>3, <1>5, <2>2 DEF LeaseExpires, StatusOf
<1>6. ASSUME NEW s \in Servers, NEW j \in jobs[s], JobStep(s, j)
      PROVE  [Promise!Next]_(Promise!vars)
  <2>1. PICK r, d, k : JobWrites(s, j, r, d, k)
    BY <1>6, JobStepWrites DEF ContractInv, IInv
  <2>2. j.msg \in Messages
    BY DEF ContractInv, IInv, TypeOK, Jobs
  <2>3. \A m \in Queued \ {j.msg} : row'[m] = row[m]
    BY <2>1 DEF JobWrites
  <2>4. CASE j.msg \in Queued
    <3>1. row[j.msg].state = "in_progress"
      BY <2>4, QueuedJob
    <3>2. CASE d = durable[j.msg] /\ r \in {row[j.msg], Appended(row[j.msg])}
      <4>1. durable' = durable /\ row' = row
        BY <2>1, <2>2, <3>1, <3>2 DEF JobWrites, Appended
      <4>. QED  BY <1>3, <4>1
    <3>3. CASE d # "none" /\ r = Completed(row[j.msg])
      <4>1. row'[j.msg].state = "complete"
        BY <2>1, <2>2, <3>1, <3>3 DEF JobWrites, Completed
      <4>2. StatusOf(row[j.msg]) = "owed" /\ StatusOf(row'[j.msg]) = "done"
        BY <3>1, <4>1 DEF StatusOf
      <4>3. Told(j.msg, "done")
        BY <2>3, <4>2 DEF Told
      <4>4. HeldBar' = HeldBar \cup {j.msg} /\ Stored(j.msg)'
        BY <2>1, <2>2, <3>3 DEF JobWrites, HeldBar, Stored
      <4>. QED  BY <1>1, <2>4, <4>2, <4>3, <4>4, PromiseStep
    <3>. QED  BY <2>1, <3>2, <3>3 DEF JobWrites
  <2>5. CASE j.msg \notin Queued
    <3>1. StatusBar' = StatusBar
      BY <1>2, <2>3, <2>5
    <3>2. CASE d = durable[j.msg]
      <4>1. HeldBar' = HeldBar
        BY <2>1, <2>2, <3>2 DEF JobWrites, HeldBar
      <4>. QED  BY <3>1, <4>1, PromiseStep
    <3>3. CASE d # "none"
      <4>1. HeldBar' = HeldBar \cup {j.msg} /\ j.msg \in SyncMsgs
        BY <2>1, <2>2, <2>5, <3>3 DEF JobWrites, HeldBar
      <4>. QED  BY <3>1, <4>1, PromiseStep
    <3>. QED  BY <2>1, <3>2, <3>3 DEF JobWrites
  <2>. QED  BY <2>4, <2>5
<1>7. ASSUME NEW s \in Servers, NEW n \in Messages, SkipActive(s, n) \/ AlreadyStored(s, n)
      PROVE  [Promise!Next]_(Promise!vars)
  <2>1. \A m \in Queued : row'[m] = row[m]
    BY <1>7, QueuedIsExtracted DEF SkipActive, AlreadyStored
  <2>. QED  BY <1>3, <1>7, <2>1 DEF SkipActive, AlreadyStored
<1>8. ASSUME NEW s \in Servers, Claim(s) PROVE [Promise!Next]_(Promise!vars)
  <2>1. PICK B \in SUBSET {n \in Messages : Eligible(n)} :
          row' = [n \in Messages |->
                   IF n \in B THEN [state    |-> "in_progress",
                                    attempts |-> Bumped(row[n].attempts),
                                    lease    |-> "live"]
                   ELSE row[n]]
    BY <1>8 DEF Claim
  <2>2. ASSUME NEW m \in Queued PROVE StatusOf(row'[m]) = StatusOf(row[m])
    <3>1. CASE m \notin B
      BY <2>1, <3>1
    <3>2. CASE m \in B
      <4>1. row'[m].state = "in_progress"
        BY <2>1, <3>2
      <4>2. row[m].state \in {"pending", "in_progress"}
        BY <3>2, ConfigAssumption DEF Eligible, Kept
      <4>. QED  BY <4>1, <4>2, Statuses
    <3>. QED  BY <3>1, <3>2
  <2>. QED  BY <1>3, <1>8, <2>2 DEF Claim
<1>9. ASSUME NEW s \in Servers, MarkResult(s) PROVE [Promise!Next]_(Promise!vars)
  <2>1. PICK m \in Messages, st \in {"pending", "complete", "failed"} :
          /\ m = verdict[s].msg /\ st = NextState(verdict[s].result, batch[s][m])
          /\ row' = [row EXCEPT ![m] = Marked(row[m], st)]
          /\ durable' = durable /\ HeldBar' = HeldBar
    BY <1>9 DEF MarkResult, LoopFree, Verdicts, HeldBar, NextState
  <2>2. CASE m \notin Queued
    BY <1>3, <2>1, <2>2
  <2>3. CASE m \in Queued
    <3>1. /\ row[m].state \in {"in_progress", "complete"}
          /\ row[m].state = "complete" => st = "complete"
          /\ st = "complete" => Stored(m)
      BY <2>1, <2>3 DEF Kept, NextState, GoodNews
    <3>2. row'[m].state = st
      BY <2>1, <3>1 DEF Marked, Rows
    <3>3. \A n \in Queued \ {m} : row'[n] = row[n]
      BY <2>1
    <3>4. Stored(m)' <=> Stored(m)
      BY <2>1 DEF Stored
    <3>5. CASE StatusOf(row'[m]) = StatusOf(row[m])
      BY <1>3, <2>1, <3>3, <3>5
    <3>6. CASE StatusOf(row[m]) = "owed" /\ StatusOf(row'[m]) = "done" /\ Stored(m)'
      <4>1. Told(m, "done")
        BY <3>3, <3>6 DEF Told
      <4>. QED  BY <1>1, <2>1, <2>3, <3>6, <4>1, PromiseStep
    <3>7. CASE StatusOf(row[m]) = "owed" /\ StatusOf(row'[m]) = "given_up"
      <4>1. Told(m, "given_up")
        BY <3>3, <3>7 DEF Told
      <4>. QED  BY <1>1, <2>1, <2>3, <3>7, <4>1, PromiseStep
    <3>. QED  BY <3>1, <3>2, <3>4, <3>5, <3>6, <3>7 DEF StatusOf
  <2>. QED  BY <2>2, <2>3
<1>10. ASSUME NEW s \in Servers,
              Snapshot(s) \/ \E n \in Messages : Retract(s, n) \/ Purge(s, n)
       PROVE  [Promise!Next]_(Promise!vars)
  <2>1. SaveCache(mem'[s]) /\ \A n \in Messages : mem[s][n] = "none" => mem'[s][n] = "none"
    BY <1>10 DEF Snapshot, Retract, Purge, ContractInv, IInv, TypeOK
  <2>2. /\ \A n \in Messages : durable[n] = "none" => durable'[n] = "none"
        /\ \A m \in Queued : \/ row'[m] = row[m] /\ (row[m].state = "complete" => durable'[m] # "none")
                             \/ row[m].state = "complete" /\ row'[m] = AbsentRow
    BY <2>1, QueuedSave
  <2>3. HeldBar' \subseteq HeldBar
    BY <2>2 DEF HeldBar
  <2>4. ASSUME NEW m \in Queued
        PROVE  \/ StatusBar'[m] = StatusBar[m] /\ (StatusBar'[m] = "done" => m \in HeldBar')
               \/ StatusBar[m] = "done" /\ StatusBar'[m] = "unknown"
    BY <1>1, <2>2, Statuses DEF HeldBar, AbsentRow
  <2>. QED  BY <2>3, <2>4, PromiseStep
<1>11. CASE UNCHANGED <<row, durable>>
  BY <1>3, <1>11
<1>. QED
  BY <1>4, <1>5, <1>6, <1>7, <1>8, <1>9, <1>10, <1>11
  DEF Next, ServerStep, WorkerStep, StoreBegin, StartExtraction, Reload, Restart, vars

(* One process keeps the promise of memory_write and memory_write_status   *)
(* through crashes, retries, reloads, snapshots, retractions and purges,   *)
(* as long as no transaction fails and no local CLI times out.             *)
THEOREM ContractKept ==
  ASSUME OneProcess, "persist_error" \notin Environment, "cli_timeout" \notin Environment
  PROVE  Spec => KeepsContract
<1>. DEFINE QInv == \A s \in Servers, m \in Queued : Kept(s, m)
<1>1. Init => Promise!Init
  BY DEF Init, Promise!Init, AbsentRow, StatusOf
<1>2. Init => QInv
  BY ConfigAssumption DEF Init, Kept, AbsentRow, NoVerdict, Queued
<1>3. IInv /\ InStep /\ ClientsOwn /\ QInv /\ [Next]_vars => QInv'
  BY KeptStep DEF ContractInv
<1>4. IInv /\ InStep /\ ClientsOwn /\ QInv /\ [Next]_vars => [Promise!Next]_(Promise!vars)
  BY ContractStep DEF ContractInv
<1>. QED
  BY <1>1, <1>2, <1>3, <1>4, InvHolds, InStepHolds, ClientsOwnHolds, PTL
  DEF Spec, KeepsContract, Promise!Spec
=============================================================================
