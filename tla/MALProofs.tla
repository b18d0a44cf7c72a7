------------------------------ MODULE MALProofs ------------------------------
(***************************************************************************)
(* Theorems about MAL, for any events and limits, whatever dies or raises  *)
(* when.                                                                   *)
(*                                                                         *)
(* Each rests on what a job says about the files while it runs.            *)
(*   JobInv       a job that applies a change works for the artifact it    *)
(*                has created last.                                        *)
(*   EventsInv    the events a job has reserved and not yet settled are    *)
(*                reserved by it, and no applied change rests on them; the *)
(*                events of an applied change are never queued again.      *)
(*   FilesInv     what is staged, promoted and pointed at is the target of *)
(*                the job, and that was decided on.                        *)
(***************************************************************************)
EXTENDS MAL, SequenceTheorems, TLAPS

(* The bounds of the model and the convergence limit are numbers.          *)
Limits == StreakLimit \in Nat /\ MaxRuns \in Nat /\ MaxGens \in Nat

Artifacts == [config : Configs, status : {"accepted", "applied", "rolled_back"},
              ids : SUBSET Feedback]

Applying == {"build", "rename", "point", "status"}

JobInv ==
  /\ job.todo \subseteq job.ids
  /\ IsRun => runs # 0
  /\ job.phase \in {"reserve", "execute", "settle", "failed", "outcome"} => IsRun
  /\ job.phase = "idle" => job = Idle
  /\ job.phase \in {"status", "settle", "outcome"} => job.result # "none"
  /\ job.phase \in Applying /\ IsRun =>
       /\ artifacts # <<>>
       /\ artifacts[Len(artifacts)].ids = job.ids
       /\ artifacts[Len(artifacts)].status = "accepted"

(* The events a job would have to give back. *)
HeldByJob ==
  CASE job.phase = "reserve" -> job.ids \ job.todo
    [] job.phase \in {"settle", "failed", "outcome"} -> job.todo
    [] OTHER -> job.ids

Serves(e) ==
  \E i \in DOMAIN artifacts : artifacts[i].status = "applied" /\ e \in artifacts[i].ids

EventsInv ==
  /\ \A e \in HeldByJob : events[e] = [is |-> "reserved", by |-> runs]
  /\ \A e \in Feedback : Serves(e) => events[e].is \in {"reserved", "consumed"}
  /\ ~(job.phase \in {"settle", "outcome"} /\ job.result = "accepted") =>
       \A e \in HeldByJob : ~Serves(e)

TypeInv ==
  /\ MALTypeOK
  /\ events \in [Feedback -> [is : {"none", "queued", "reserved", "consumed"}, by : 0..MaxRuns]]
  /\ artifacts \in Seq(Artifacts)

RunInv == TypeInv /\ JobInv /\ EventsInv

(* A configuration someone decided on, as far as the server reads it.      *)
Decided(c) ==
  \E config \in {Defaults} \cup {artifacts[i].config : i \in DOMAIN artifacts} :
    c.settings = config.settings /\ c.model = config.model

FilesInv ==
  /\ job.phase \in {"build", "rename"} => Decided(job.target)
  /\ job.phase = "rename" => workspace # NoConfig /\ Decided(workspace)
  /\ job.phase = "point" => Decided(gens[job.gen])
  /\ pointer # 0 => Decided(gens[pointer])

-----------------------------------------------------------------------------
LEMMA ConfigTypes ==
  ASSUME Limits, RunInv
  PROVE  /\ Defaults \in Configs /\ LatestConfig \in Configs /\ Live \in Configs
         /\ \A k \in Changes : \A kind : Materialized(kind, k) \in Configs
         /\ \A target \in Configs : Staged(target) \in Configs
<1>1. Defaults \in Configs
  BY DEF Defaults, Configs, Limits
<1>2. LatestConfig \in Configs
  <2>1. CASE artifacts = <<>>
    BY <1>1, <2>1 DEF LatestConfig
  <2>2. CASE artifacts # <<>>
    <3>1. artifacts[Len(artifacts)] \in Artifacts
      BY <2>2 DEF RunInv, TypeInv
    <3>. QED  BY <2>2, <3>1 DEF LatestConfig, Artifacts
  <2>. QED  BY <2>1, <2>2
<1>3. Live \in Configs
  BY <1>1 DEF Live, RunInv, TypeInv, MALTypeOK
<1>4. \A k \in Changes : \A kind : Materialized(kind, k) \in Configs
  BY <1>2 DEF Materialized, Configs
<1>5. \A target \in Configs : Staged(target) \in Configs
  <2>. SUFFICES ASSUME NEW target \in Configs PROVE Staged(target) \in Configs
    OBVIOUS
  <2>1. workspace # NoConfig => workspace \in Configs
    BY DEF RunInv, TypeInv, MALTypeOK
  <2>. QED  BY <1>3, <2>1 DEF Staged, Configs
<1>. QED  BY <1>1, <1>2, <1>3, <1>4, <1>5

LEMMA JobTypes == ASSUME Limits PROVE Idle \in Jobs /\ Idle.phase = "idle" /\ Idle.ids = {}
<1>1. Defaults \in Configs
  BY DEF Defaults, Configs
<1>. QED  BY <1>1 DEF Limits, Idle, Jobs, JobPhases

LEMMA JobUpdates ==
  ASSUME NEW j \in Jobs
  PROVE  /\ \A phase \in JobPhases : [j EXCEPT !.phase = phase] \in Jobs
         /\ \A phase \in JobPhases, todo \in SUBSET Feedback :
              /\ [j EXCEPT !.todo = todo, !.phase = phase] \in Jobs
              /\ [j EXCEPT !.todo = todo] \in Jobs
              /\ \A ids \in SUBSET Feedback : [j EXCEPT !.phase = phase, !.todo = todo, !.ids = ids] \in Jobs
              /\ [j EXCEPT !.phase = phase, !.todo = todo] \in Jobs
              /\ \A result \in {"none", "accepted", "rejected", "transient"} :
                   [j EXCEPT !.phase = phase, !.todo = todo, !.result = result] \in Jobs
         /\ \A phase \in JobPhases, g \in 0..MaxGens : [j EXCEPT !.phase = phase, !.gen = g] \in Jobs
  BY DEF Jobs

LEMMA MALTypeStep ==
  ASSUME Limits, RunInv, [MALNext]_malVars
  PROVE  TypeInv'
<1>. /\ events \in [Feedback -> [is : {"none", "queued", "reserved", "consumed"}, by : 0..MaxRuns]]
     /\ \A e \in Feedback : events[e].by = 0 <=> events[e].is \in {"none", "queued"}
     /\ artifacts \in Seq(Artifacts) /\ job \in Jobs /\ runs \in 0..MaxRuns
     /\ enabled \in BOOLEAN /\ lock \in BOOLEAN /\ streak \in 0..StreakLimit
     /\ gens \in [0..MaxGens -> Configs \cup {NoConfig}] /\ pointer \in 0..MaxGens
     /\ workspace \in Configs \cup {NoConfig}
     /\ Idle \in Jobs
  BY JobTypes DEF RunInv, TypeInv, MALTypeOK
<1>1. CASE UNCHANGED malVars
  BY <1>1 DEF malVars, RunInv, TypeInv, MALTypeOK
<1>2. ASSUME NEW on \in BOOLEAN, Configure(on) PROVE TypeInv'
  BY <1>2 DEF Configure, RunInv, TypeInv, MALTypeOK
<1>3. ASSUME NEW e \in Feedback, Submit(e) PROVE TypeInv'
  <2>1. events[e].by = 0 /\ events' = [events EXCEPT ![e].is = "queued"]
    BY <1>3 DEF Submit, NoEvent
  <2>. QED  BY <1>3, <2>1 DEF Submit, RunInv, TypeInv, MALTypeOK
<1>4. ASSUME NEW e \in Feedback, Reserve(e) PROVE TypeInv'
  <2>1. runs # 0
    BY <1>4 DEF Reserve, RunInv, JobInv
  <2>2. job' \in Jobs
    <3>1. job.todo \ {e} \in SUBSET Feedback /\ job.phase \in JobPhases /\ "execute" \in JobPhases
      BY DEF Jobs, JobPhases
    <3>2. (IF job.todo = {e} THEN "execute" ELSE job.phase) \in JobPhases
      BY <3>1
    <3>3. [job EXCEPT !.todo = job.todo \ {e},
                      !.phase = IF job.todo = {e} THEN "execute" ELSE job.phase] \in Jobs
      BY <3>1, <3>2, JobUpdates
    <3>. QED  BY <1>4, <3>3 DEF Reserve
  <2>3. events' = [events EXCEPT ![e] = [is |-> "reserved", by |-> runs]] \/ events' = events
    BY <1>4 DEF Reserve
  <2>4. /\ events' \in [Feedback -> [is : {"none", "queued", "reserved", "consumed"}, by : 0..MaxRuns]]
        /\ \A d \in Feedback : events'[d].by = 0 <=> events'[d].is \in {"none", "queued"}
    <3>1. [is |-> "reserved", by |-> runs] \in
            [is : {"none", "queued", "reserved", "consumed"}, by : 0..MaxRuns]
      OBVIOUS
    <3>2. CASE events' = [events EXCEPT ![e] = [is |-> "reserved", by |-> runs]]
      BY <2>1, <3>1, <3>2
    <3>. QED  BY <2>3, <3>2
  <2>. QED  BY <1>4, <2>2, <2>4 DEF Reserve, RunInv, TypeInv, MALTypeOK
<1>5. ASSUME NEW e \in Feedback, Settle(e) \/ Failed(e) PROVE TypeInv'
  <2>1. e \in job.todo /\ job.phase \in {"settle", "failed"}
    BY <1>5 DEF Settle, Failed
  <2>2. events[e].is = "reserved" /\ events[e].by # 0
    BY <2>1 DEF RunInv, JobInv, EventsInv, HeldByJob
  <2>3. events' \in {Consumed(e), PutBack(e)}
    BY <1>5 DEF Settle, Failed, Settled
  <2>4. job' \in Jobs /\ lock' \in BOOLEAN
    <3>1. job.todo \ {e} \in SUBSET Feedback /\ job.phase \in JobPhases /\ "outcome" \in JobPhases
      BY DEF Jobs, JobPhases
    <3>2. (IF job.todo = {e} THEN "outcome" ELSE job.phase) \in JobPhases
      BY <3>1
    <3>3. CASE Settle(e)
      BY <3>1, <3>2, <3>3, JobUpdates DEF Settle
    <3>4. CASE Failed(e)
      <4>1. [job EXCEPT !.todo = job.todo \ {e}] \in Jobs
        BY <3>1, JobUpdates
      <4>. QED  BY <3>4, <4>1 DEF Failed
    <3>. QED  BY <1>5, <3>3, <3>4
  <2>5. /\ events' \in [Feedback -> [is : {"none", "queued", "reserved", "consumed"}, by : 0..MaxRuns]]
        /\ \A d \in Feedback : events'[d].by = 0 <=> events'[d].is \in {"none", "queued"}
    <3>1. 0 \in 0..MaxRuns
      BY DEF Limits
    <3>2. CASE events' = PutBack(e)
      BY <3>1, <3>2 DEF PutBack
    <3>3. CASE events' = Consumed(e)
      BY <2>2, <3>3 DEF Consumed
    <3>. QED  BY <2>3, <3>2, <3>3
  <2>. QED  BY <1>5, <2>4, <2>5 DEF Settle, Failed, RunInv, TypeInv, MALTypeOK
<1>6. ASSUME NEW ids \in SUBSET Feedback, NEW force \in BOOLEAN, Trigger(ids, force) PROVE TypeInv'
  <2>1. job' \in Jobs
    BY <1>6, JobUpdates DEF Trigger, JobPhases
  <2>2. runs' \in 0..MaxRuns
    BY <1>6 DEF Trigger, Limits
  <2>. QED  BY <1>6, <2>1, <2>2 DEF Trigger, RunInv, TypeInv, MALTypeOK
<1>7. ASSUME NEW result \in {"rejected", "transient"}, NothingToApply(result) PROVE TypeInv'
  <2>1. job' \in Jobs
    BY <1>7 DEF NothingToApply, Returns, Jobs, JobPhases
  <2>. QED  BY <1>7, <2>1 DEF NothingToApply, RunInv, TypeInv, MALTypeOK
<1>8. ASSUME NEW kind, Propose(kind) PROVE TypeInv'
  <2>1. runs \in Changes
    BY <1>8 DEF Propose, RunInv, JobInv, Changes, Limits
  <2>2. Materialized(kind, runs) \in Configs
    BY <2>1, ConfigTypes
  <2>3. job' \in Jobs /\ job.ids \in SUBSET Feedback
    BY <1>8, <2>2 DEF Propose, Jobs, JobPhases
  <2>4. [config |-> Materialized(kind, runs), status |-> "accepted", ids |-> job.ids] \in Artifacts
    BY <2>2, <2>3 DEF Artifacts
  <2>5. artifacts' \in Seq(Artifacts)
    BY <1>8, <2>4 DEF Propose
  <2>. QED  BY <1>8, <2>3, <2>5 DEF Propose, RunInv, TypeInv, MALTypeOK
<1>9. ASSUME NEW config \in Configs, Rollback(config) PROVE TypeInv'
  <2>1. job' \in Jobs
    BY <1>9 DEF Rollback, Jobs, JobPhases
  <2>. QED  BY <1>9, <2>1 DEF Rollback, RunInv, TypeInv, MALTypeOK
<1>10. ASSUME Build PROVE TypeInv'
  <2>1. Staged(job.target) \in Configs
    BY ConfigTypes DEF Jobs
  <2>2. job' \in Jobs
    <3>1. pointer + 1 \in 0..MaxGens /\ Following("build") \in JobPhases
      BY <1>10 DEF Build, Following, JobPhases, Limits
    <3>. QED  BY <1>10, <3>1, JobUpdates DEF Build
  <2>. QED  BY <1>10, <2>1, <2>2 DEF Build, RunInv, TypeInv, MALTypeOK
<1>11. ASSUME Rename PROVE TypeInv'
  <2>1. job' \in Jobs
    BY <1>11 DEF Rename, Following, Goto, Jobs, JobPhases
  <2>2. gens' \in [0..MaxGens -> Configs \cup {NoConfig}]
    BY <1>11 DEF Rename, Jobs
  <2>. QED  BY <1>11, <2>1, <2>2 DEF Rename, RunInv, TypeInv, MALTypeOK
<1>12. ASSUME Point PROVE TypeInv'
  <2>1. job' \in Jobs /\ pointer' \in 0..MaxGens
    BY <1>12 DEF Point, Following, Jobs, JobPhases
  <2>. QED  BY <1>12, <2>1 DEF Point, RunInv, TypeInv, MALTypeOK
<1>13. ASSUME Status PROVE TypeInv'
  <2>1. job' \in Jobs
    BY <1>13 DEF Status, Returns, Jobs, JobPhases
  <2>2. artifacts' \in Seq(Artifacts)
    <3>1. CASE ~IsRun
      BY <1>13, <3>1 DEF Status
    <3>2. CASE IsRun
      <4>1. Len(artifacts) \in DOMAIN artifacts /\ artifacts[Len(artifacts)] \in Artifacts
        BY <1>13, <3>2 DEF Status, RunInv, JobInv, Applying
      <4>2. \A st \in {"applied", "rolled_back"} :
              [artifacts[Len(artifacts)] EXCEPT !.status = st] \in Artifacts
        BY <4>1 DEF Artifacts
      <4>3. PICK a \in Artifacts : artifacts' = [artifacts EXCEPT ![Len(artifacts)] = a]
        BY <1>13, <3>2, <4>1, <4>2 DEF Status
      <4>. QED  BY <4>1, <4>3, ExceptSeq
    <3>. QED  BY <3>1, <3>2
  <2>. QED  BY <1>13, <2>1, <2>2 DEF Status, RunInv, TypeInv, MALTypeOK
<1>14. ASSUME Outcome PROVE TypeInv'
  <2>1. streak' \in 0..StreakLimit
    BY <1>14 DEF Outcome, Limits
  <2>. QED  BY <1>14, <2>1 DEF Outcome, RunInv, TypeInv, MALTypeOK
<1>15. ASSUME WriteRaises PROVE TypeInv'
  <2>1. job' \in Jobs
    BY <1>15 DEF WriteRaises, Raises, Jobs, JobPhases
  <2>2. workspace' \in Configs \cup {NoConfig}
    BY <1>15 DEF WriteRaises
  <2>. QED  BY <1>15, <2>1, <2>2 DEF WriteRaises, RunInv, TypeInv, MALTypeOK
<1>16. ASSUME Crash PROVE TypeInv'
  BY <1>16 DEF Crash, RunInv, TypeInv, MALTypeOK
<1>. QED
  BY <1>1, <1>2, <1>3, <1>4, <1>5, <1>6, <1>7, <1>8, <1>9, <1>10, <1>11, <1>12, <1>13, <1>14,
     <1>15, <1>16 DEF MALNext

LEMMA JobStep ==
  ASSUME Limits, RunInv, [MALNext]_malVars
  PROVE  JobInv'
<1>. /\ artifacts \in Seq(Artifacts) /\ job \in Jobs /\ runs \in 0..MaxRuns
     /\ JobInv
     /\ Idle \in Jobs /\ Idle.phase = "idle" /\ Idle.ids = {} /\ Idle.todo = {}
  BY JobTypes DEF RunInv, TypeInv, MALTypeOK, Idle
<1>1. ASSUME job' = Idle PROVE JobInv'
  BY <1>1 DEF JobInv, IsRun, Applying
<1>2. ASSUME UNCHANGED <<job, artifacts, runs>> PROVE JobInv'
  BY <1>2 DEF JobInv, IsRun, Applying
<1>3. ASSUME NEW e \in Feedback, Reserve(e) \/ Settle(e) \/ Failed(e) PROVE JobInv'
  <2>1. CASE job' # Idle
    <3>1. /\ job'.todo = job.todo \ {e} /\ job'.ids = job.ids /\ job'.result = job.result
          /\ job'.phase \in {job.phase, "execute", "outcome"}
          /\ job'.phase = "outcome" => job.phase \in {"settle", "outcome"}
          /\ job.phase \in {"reserve", "settle", "failed"}
          /\ UNCHANGED <<artifacts, runs>>
      BY <1>3, <2>1 DEF Reserve, Settle, Failed, Jobs
    <3>. QED  BY <3>1 DEF JobInv, IsRun, Applying
  <2>. QED  BY <1>1, <2>1
<1>4. ASSUME NEW ids \in SUBSET Feedback, NEW force, Trigger(ids, force) PROVE JobInv'
  <2>1. /\ job'.todo = ids /\ job'.ids = ids /\ job'.phase = "reserve" /\ runs' # 0 /\ ids # {}
    BY <1>4 DEF Trigger, Jobs, Limits
  <2>. QED  BY <2>1 DEF JobInv, IsRun, Applying
<1>5. ASSUME NEW result \in {"rejected", "transient"}, NothingToApply(result) PROVE JobInv'
  <2>1. /\ job'.todo = job.ids /\ job'.ids = job.ids /\ job'.phase = "settle"
        /\ job'.result # "none" /\ job.phase = "execute" /\ runs' = runs
    BY <1>5 DEF NothingToApply, Returns, Jobs
  <2>. QED  BY <2>1 DEF JobInv, IsRun, Applying
<1>6. ASSUME NEW kind, Propose(kind) PROVE JobInv'
  <2>1. PICK a : a.status = "accepted" /\ a.ids = job.ids /\ artifacts' = Append(artifacts, a)
    BY <1>6 DEF Propose
  <2>2. artifacts' # <<>> /\ artifacts'[Len(artifacts')] = a
    BY <2>1
  <2>3. /\ job'.todo = job.todo /\ job'.ids = job.ids /\ job'.phase = "build" /\ runs' = runs
    BY <1>6 DEF Propose, Jobs
  <2>. QED  BY <2>1, <2>2, <2>3 DEF JobInv, IsRun, Applying
<1>7. ASSUME NEW config, Rollback(config) PROVE JobInv'
  <2>1. job'.todo = {} /\ job'.ids = {} /\ job'.phase = "build"
    BY <1>7 DEF Rollback, Jobs
  <2>. QED  BY <2>1 DEF JobInv, IsRun, Applying
<1>8. ASSUME Build \/ Rename \/ Point PROVE JobInv'
  <2>1. /\ job'.todo = job.todo /\ job'.ids = job.ids
        /\ job'.phase = "status" => job'.result # "none"
        /\ job.phase \in Applying /\ job'.phase \in Applying
        /\ UNCHANGED <<artifacts, runs>>
    BY <1>8 DEF Build, Rename, Point, Goto, Following, Jobs, Applying
  <2>. QED  BY <2>1 DEF JobInv, IsRun, Applying
<1>9. ASSUME Status, IsRun PROVE JobInv'
  <2>1. /\ job'.todo = job.ids /\ job'.ids = job.ids /\ job'.phase = "settle"
        /\ job'.result # "none" /\ runs' = runs
    BY <1>9 DEF Status, Returns, Jobs, JobInv
  <2>. QED  BY <1>9, <2>1 DEF JobInv, IsRun, Applying, Status
<1>10. ASSUME WriteRaises PROVE JobInv'
  <2>1. CASE job' # Idle
    <3>1. /\ job'.ids = job.ids /\ job'.todo \in {job.todo, job.ids}
          /\ \/ job'.phase = "failed" /\ IsRun
             \/ job'.phase = "status" /\ job'.result # "none" /\ job.phase \in Applying
          /\ UNCHANGED <<artifacts, runs>>
      BY <1>10, <2>1 DEF WriteRaises, Raises, Jobs, Applying, JobInv
    <3>. QED  BY <3>1 DEF JobInv, IsRun, Applying
  <2>. QED  BY <1>1, <2>1
<1>. QED
  BY <1>1, <1>2, <1>3, <1>4, <1>5, <1>6, <1>7, <1>8, <1>9, <1>10
  DEF MALNext, Configure, Submit, Status, Outcome, Crash, malVars

-----------------------------------------------------------------------------
(* A change becomes an applied one at the end of a run that applied it:    *)
(* only then do more events serve.                                         *)
Applies == job.phase = "status" /\ IsRun /\ job.result = "accepted"

LEMMA ServesStep ==
  ASSUME Limits, RunInv, [MALNext]_malVars, NEW e, Serves(e)'
  PROVE  \/ Serves(e)
         \/ Applies /\ Status /\ e \in job.ids
<1>. /\ artifacts \in Seq(Artifacts) /\ JobInv
  BY DEF RunInv, TypeInv
<1>1. CASE artifacts' = artifacts
  BY <1>1 DEF Serves
<1>2. ASSUME NEW kind, Propose(kind) PROVE Serves(e)
  <2>1. PICK a : a.status = "accepted" /\ artifacts' = Append(artifacts, a)
    BY <1>2 DEF Propose
  <2>2. PICK i \in DOMAIN artifacts' : artifacts'[i].status = "applied" /\ e \in artifacts'[i].ids
    BY DEF Serves
  <2>3. i \in DOMAIN artifacts /\ artifacts'[i] = artifacts[i]
    BY <2>1, <2>2
  <2>. QED  BY <2>2, <2>3 DEF Serves
<1>3. ASSUME Status, IsRun PROVE Serves(e) \/ (Applies /\ e \in job.ids)
  <2>. DEFINE n == Len(artifacts)
  <2>1. n \in DOMAIN artifacts /\ artifacts[n] \in Artifacts /\ artifacts[n].ids = job.ids
    BY <1>3 DEF Status, JobInv, Applying
  <2>2. PICK st : /\ st = IF job.result = "accepted" THEN "applied" ELSE "rolled_back"
                  /\ artifacts' = [artifacts EXCEPT ![n] = [artifacts[n] EXCEPT !.status = st]]
    BY <1>3 DEF Status
  <2>3. [artifacts[n] EXCEPT !.status = st].status = st /\ [artifacts[n] EXCEPT !.status = st].ids = job.ids
    BY <2>1 DEF Artifacts
  <2>4. PICK i \in DOMAIN artifacts' : artifacts'[i].status = "applied" /\ e \in artifacts'[i].ids
    BY DEF Serves
  <2>5. i \in DOMAIN artifacts
    BY <2>2, <2>4
  <2>6. CASE i = n
    <3>1. artifacts'[n].status = st /\ artifacts'[n].ids = job.ids
      BY <2>1, <2>2, <2>3
    <3>. QED  BY <1>3, <2>2, <2>4, <2>6, <3>1 DEF Applies, Status
  <2>7. CASE i # n
    BY <2>2, <2>4, <2>5, <2>7 DEF Serves
  <2>. QED  BY <2>6, <2>7
<1>. QED
  BY <1>1, <1>2, <1>3
  DEF MALNext, Configure, Submit, Reserve, Settle, Failed, Trigger, NothingToApply, Rollback,
      Build, Rename, Point, Status, Outcome, WriteRaises, Crash, malVars

LEMMA EventsStep ==
  ASSUME Limits, RunInv, [MALNext]_malVars
  PROVE  EventsInv'
<1>. /\ events \in [Feedback -> [is : {"none", "queued", "reserved", "consumed"}, by : 0..MaxRuns]]
     /\ job \in Jobs /\ JobInv /\ EventsInv
     /\ Idle \in Jobs /\ Idle.phase = "idle" /\ Idle.ids = {} /\ Idle.todo = {}
  BY JobTypes DEF RunInv, TypeInv, MALTypeOK, Idle
<1>. /\ job.ids \subseteq Feedback /\ job.todo \subseteq Feedback
  BY DEF Jobs
<1>1. ASSUME ~(Applies /\ Status) PROVE \A e : Serves(e)' => Serves(e)
  BY <1>1, ServesStep
<1>2. ASSUME events' = events, ~Applies \/ ~Status, HeldByJob' = {} PROVE EventsInv'
  BY <1>1, <1>2 DEF EventsInv
<1>3. ASSUME job' = Idle PROVE HeldByJob' = {}
  BY <1>3 DEF HeldByJob
<1>4. ASSUME UNCHANGED <<events, runs>>, ~Applies \/ ~Status, HeldByJob' \subseteq HeldByJob,
             job.phase \notin {"settle", "outcome"} \/ (job'.phase = job.phase /\ job'.result = job.result)
      PROVE  EventsInv'
  BY <1>1, <1>4 DEF EventsInv
<1>5. ASSUME NEW on, Configure(on) PROVE EventsInv'
  BY <1>4, <1>5 DEF Configure, HeldByJob, Applies, Idle
<1>6. ASSUME NEW e \in Feedback, Submit(e) PROVE EventsInv'
  <2>1. HeldByJob' = {} /\ ~Applies
    BY <1>3, <1>6 DEF Submit, Applies, Idle
  <2>2. events' = [events EXCEPT ![e].is = "queued"] /\ ~Serves(e)
    BY <1>6 DEF Submit, EventsInv, NoEvent
  <2>. QED  BY <1>1, <2>1, <2>2 DEF EventsInv
<1>7. ASSUME NEW e \in Feedback, Reserve(e) PROVE EventsInv'
  <2>0. ~Applies
    BY <1>7 DEF Reserve, Applies
  <2>1. CASE job' = Idle
    BY <1>2, <1>3, <1>7, <2>0, <2>1 DEF Reserve, EventsInv, Idle
  <2>2. CASE events[e].is = "queued"
    <3>1. HeldByJob' \subseteq HeldByJob \cup {e} /\ job'.phase \in {"reserve", "execute"}
      <4>1. /\ job'.ids = job.ids /\ job'.todo = job.todo \ {e} /\ job.phase = "reserve"
            /\ job'.phase = IF job.todo = {e} THEN "execute" ELSE "reserve"
        BY <1>7, <2>2 DEF Reserve, Jobs
      <4>2. CASE job.todo = {e}
        BY <4>1, <4>2 DEF HeldByJob
      <4>3. CASE job.todo # {e}
        BY <4>1, <4>3 DEF HeldByJob
      <4>. QED  BY <4>1, <4>2, <4>3
    <3>2. /\ events' = [events EXCEPT ![e] = [is |-> "reserved", by |-> runs]]
          /\ ~Serves(e) /\ runs' = runs /\ job.phase = "reserve"
      BY <1>7, <2>2 DEF Reserve, EventsInv
    <3>. QED  BY <1>1, <2>0, <3>1, <3>2 DEF EventsInv
  <2>. QED  BY <1>7, <2>1, <2>2 DEF Reserve
<1>8. ASSUME NEW e \in Feedback, Settle(e) PROVE EventsInv'
  <2>1. /\ HeldByJob' \subseteq HeldByJob \ {e} /\ e \in HeldByJob /\ ~Applies /\ runs' = runs
        /\ job'.phase \in {"settle", "outcome"} /\ job'.result = job.result /\ job.phase = "settle"
    BY <1>8 DEF Settle, HeldByJob, Jobs, Applies
  <2>2. CASE job.result = "transient"
    <3>1. events' = PutBack(e) /\ ~Serves(e)
      BY <1>8, <2>1, <2>2 DEF Settle, Settled, EventsInv
    <3>. QED  BY <1>1, <2>1, <2>2, <3>1 DEF EventsInv, PutBack
  <2>3. CASE job.result # "transient"
    <3>1. events' = [events EXCEPT ![e].is = "consumed"]
      BY <1>8, <2>3 DEF Settle, Settled, Consumed
    <3>. QED  BY <1>1, <2>1, <3>1 DEF EventsInv
  <2>. QED  BY <2>2, <2>3
<1>9. ASSUME NEW e \in Feedback, Failed(e) PROVE EventsInv'
  <2>1. /\ HeldByJob' \subseteq HeldByJob \ {e} /\ e \in HeldByJob /\ ~Applies /\ runs' = runs
        /\ job.phase = "failed" /\ job'.phase \in {"idle", "failed"}
    BY <1>9 DEF Failed, HeldByJob, Jobs, Applies
  <2>2. events' = PutBack(e) /\ ~Serves(e)
    BY <1>9, <2>1 DEF Failed, EventsInv
  <2>. QED  BY <1>1, <2>1, <2>2 DEF EventsInv, PutBack
<1>10. ASSUME NEW ids, NEW force, Trigger(ids, force) PROVE EventsInv'
  <2>1. HeldByJob' = {} /\ ~Applies
    BY <1>10 DEF Trigger, HeldByJob, Applies, Jobs, Idle
  <2>. QED  BY <1>2, <1>10, <2>1 DEF Trigger
<1>11. ASSUME NEW result, NothingToApply(result) PROVE EventsInv'
  <2>1. HeldByJob' = HeldByJob
    BY <1>11 DEF NothingToApply, Returns, HeldByJob, Jobs
  <2>. QED  BY <1>4, <1>11, <2>1 DEF NothingToApply, Applies
<1>12. ASSUME NEW kind, Propose(kind) PROVE EventsInv'
  <2>1. HeldByJob' = HeldByJob
    BY <1>12 DEF Propose, HeldByJob, Jobs
  <2>. QED  BY <1>4, <1>12, <2>1 DEF Propose, Applies
<1>13. ASSUME NEW config, Rollback(config) PROVE EventsInv'
  <2>1. HeldByJob' = {} /\ ~Applies
    BY <1>13 DEF Rollback, HeldByJob, Jobs, Applies, Idle
  <2>. QED  BY <1>2, <1>13, <2>1 DEF Rollback
<1>14. ASSUME Build \/ Rename \/ Point PROVE EventsInv'
  <2>1. /\ job'.ids = job.ids /\ job.phase \in {"build", "rename", "point"}
        /\ job'.phase \in {"rename", "point", "status"} /\ UNCHANGED <<events, runs>>
    BY <1>14 DEF Build, Rename, Point, Goto, Following, Jobs
  <2>2. HeldByJob' = HeldByJob
    BY <2>1 DEF HeldByJob
  <2>. QED  BY <1>4, <2>1, <2>2 DEF Applies
<1>15. ASSUME Status PROVE EventsInv'
  <2>1. CASE ~IsRun
    BY <1>2, <1>3, <1>15, <2>1 DEF Status, Applies
  <2>2. CASE IsRun
    <3>1. /\ HeldByJob' = job.ids /\ HeldByJob = job.ids /\ job'.phase = "settle"
          /\ job'.result = job.result /\ UNCHANGED <<events, runs>> /\ job.phase = "status"
      BY <1>15, <2>2 DEF Status, Returns, HeldByJob, Jobs
    <3>2. CASE ~Applies
      BY <1>4, <3>1, <3>2
    <3>3. CASE Applies
      <4>1. \A e : Serves(e)' => Serves(e) \/ e \in job.ids
        BY ServesStep
      <4>2. job'.result = "accepted"
        BY <3>1, <3>3 DEF Applies
      <4>. QED  BY <3>1, <4>1, <4>2 DEF EventsInv
    <3>. QED  BY <3>2, <3>3
  <2>. QED  BY <2>1, <2>2
<1>16. ASSUME Outcome \/ Crash PROVE EventsInv'
  <2>1. HeldByJob' = {} /\ events' = events
    BY <1>3, <1>16 DEF Outcome, Crash
  <2>2. ~Applies \/ ~Status
    BY <1>16 DEF Applies, Outcome, Crash, Status, Returns, IsRun, Jobs, JobInv
  <2>. QED  BY <1>2, <2>1, <2>2
<1>17. ASSUME WriteRaises PROVE EventsInv'
  <2>1. UNCHANGED <<events, runs, artifacts>>
    BY <1>17 DEF WriteRaises
  <2>2. \A e : Serves(e)' <=> Serves(e)
    BY <2>1 DEF Serves
  <2>3. CASE job' = Idle
    BY <1>3, <2>1, <2>2, <2>3 DEF EventsInv
  <2>4. CASE job' # Idle
    <3>1. /\ job.phase \in {"execute", "status", "build", "rename", "point"}
          /\ job'.phase \in {"failed", "status"} /\ job'.ids = job.ids
          /\ job'.phase = "failed" => job'.todo = job.ids
      BY <1>17, <2>4 DEF WriteRaises, Raises, Jobs
    <3>2. HeldByJob' = HeldByJob
      BY <3>1 DEF HeldByJob
    <3>. QED  BY <2>1, <2>2, <3>1, <3>2 DEF EventsInv
  <2>. QED  BY <2>3, <2>4
<1>18. CASE UNCHANGED malVars
  <2>1. HeldByJob' = HeldByJob /\ UNCHANGED <<events, runs, job>> /\ \A e : Serves(e)' <=> Serves(e)
    BY <1>18 DEF malVars, HeldByJob, Serves
  <2>. QED  BY <2>1 DEF EventsInv
<1>. QED
  BY <1>5, <1>6, <1>7, <1>8, <1>9, <1>10, <1>11, <1>12, <1>13, <1>14, <1>15, <1>16, <1>17, <1>18
  DEF MALNext

LEMMA RunHolds == ASSUME Limits PROVE MALSpec => []RunInv
<1>1. MALInit => RunInv
  <2>. SUFFICES ASSUME MALInit PROVE RunInv
    OBVIOUS
  <2>1. TypeInv
    <3>1. NoEvent \in [is : {"none", "queued", "reserved", "consumed"}, by : 0..MaxRuns]
      BY DEF NoEvent, Limits
    <3>2. events = [e \in Feedback |-> NoEvent] /\ NoEvent.by = 0 /\ NoEvent.is = "none"
      BY DEF MALInit, NoEvent
    <3>3. /\ enabled \in BOOLEAN /\ lock \in BOOLEAN /\ streak \in 0..StreakLimit
          /\ pointer \in 0..MaxGens /\ runs \in 0..MaxRuns
          /\ workspace \in Configs \cup {NoConfig}
      BY DEF MALInit, Limits
    <3>4. gens \in [0..MaxGens -> Configs \cup {NoConfig}]
      BY DEF MALInit
    <3>5. job \in Jobs
      BY JobTypes DEF MALInit
    <3>6. artifacts \in Seq(Artifacts)
      BY DEF MALInit
    <3>. QED  BY <3>1, <3>2, <3>3, <3>4, <3>5, <3>6 DEF TypeInv, MALTypeOK
  <2>2. JobInv /\ HeldByJob = {}
    BY DEF MALInit, JobInv, HeldByJob, IsRun, Idle, Applying
  <2>3. EventsInv
    BY <2>2 DEF MALInit, EventsInv, Serves
  <2>. QED  BY <2>1, <2>2, <2>3 DEF RunInv
<1>2. RunInv /\ [MALNext]_malVars => RunInv'
  BY MALTypeStep, JobStep, EventsStep DEF RunInv
<1>. QED  BY <1>1, <1>2, PTL DEF MALSpec

(* Every file and every job keeps its type, and an event carries the run   *)
(* that reserved it from the reservation on and no other.                  *)
THEOREM MALTypeCorrect == ASSUME Limits PROVE MALSpec => []MALTypeOK
<1>1. RunInv => MALTypeOK
  BY DEF RunInv, TypeInv
<1>. QED  BY <1>1, RunHolds, PTL

(* However runs are refused, rejected, interrupted or fail, no feedback    *)
(* event is behind two applied changes: an event of an applied change is   *)
(* never queued again, and a run applies what it could reserve.            *)
THEOREM EvidenceUsedOnce == ASSUME Limits PROVE MALSpec => []UsedOnce
<1>1. MALInit => UsedOnce
  BY DEF MALInit, UsedOnce
<1>2. RunInv /\ UsedOnce /\ [MALNext]_malVars => UsedOnce'
  <2>. SUFFICES ASSUME RunInv, UsedOnce, [MALNext]_malVars,
                       NEW i \in DOMAIN artifacts', NEW j \in DOMAIN artifacts', i # j,
                       artifacts'[i].status = "applied", artifacts'[j].status = "applied",
                       NEW e, e \in artifacts'[i].ids, e \in artifacts'[j].ids
                PROVE  FALSE
    BY DEF UsedOnce
  <2>. artifacts \in Seq(Artifacts) /\ JobInv /\ job \in Jobs
    BY DEF RunInv, TypeInv, MALTypeOK
  <2>1. CASE artifacts' = artifacts
    BY <2>1 DEF UsedOnce
  <2>2. ASSUME NEW kind, Propose(kind) PROVE FALSE
    <3>1. PICK a : a.status = "accepted" /\ artifacts' = Append(artifacts, a)
      BY <2>2 DEF Propose
    <3>2. /\ i \in DOMAIN artifacts /\ artifacts'[i] = artifacts[i]
          /\ j \in DOMAIN artifacts /\ artifacts'[j] = artifacts[j]
      BY <3>1
    <3>. QED  BY <3>2 DEF UsedOnce
  <2>3. ASSUME Status, IsRun PROVE FALSE
    <3>. DEFINE n == Len(artifacts)
    <3>1. n \in DOMAIN artifacts /\ artifacts[n] \in Artifacts /\ artifacts[n].ids = job.ids
      BY <2>3 DEF Status, JobInv, Applying
    <3>2. PICK st : /\ st = IF job.result = "accepted" THEN "applied" ELSE "rolled_back"
                    /\ artifacts' = [artifacts EXCEPT ![n] = [artifacts[n] EXCEPT !.status = st]]
      BY <2>3 DEF Status
    <3>3. [artifacts[n] EXCEPT !.status = st].status = st /\ [artifacts[n] EXCEPT !.status = st].ids = job.ids
      BY <3>1 DEF Artifacts
    <3>4. artifacts'[n].status = st /\ artifacts'[n].ids = job.ids
      BY <3>1, <3>2, <3>3
    <3>5. \A k \in DOMAIN artifacts \ {n} : artifacts'[k] = artifacts[k]
      BY <3>2
    <3>6. i \in DOMAIN artifacts /\ j \in DOMAIN artifacts
      BY <3>2
    <3>7. \A d \in job.ids : ~Serves(d)
      <4>1. HeldByJob = job.ids
        BY <2>3 DEF Status, HeldByJob
      <4>. QED  BY <2>3, <4>1 DEF RunInv, EventsInv, Status
    <3>8. CASE i # n /\ j # n
      BY <3>5, <3>6, <3>8 DEF UsedOnce
    <3>9. CASE i = n
      BY <3>4, <3>5, <3>6, <3>7, <3>9 DEF Serves
    <3>10. CASE j = n
      BY <3>4, <3>5, <3>6, <3>7, <3>10 DEF Serves
    <3>. QED  BY <3>8, <3>9, <3>10
  <2>. QED
    BY <2>1, <2>2, <2>3
    DEF MALNext, Configure, Submit, Reserve, Settle, Failed, Trigger, NothingToApply, Rollback,
        Build, Rename, Point, Status, Outcome, WriteRaises, Crash, malVars
<1>. QED  BY <1>1, <1>2, RunHolds, PTL DEF MALSpec

-----------------------------------------------------------------------------
(* What was decided on stays so: artifacts are only added, and keep their  *)
(* configurations.                                                         *)
LEMMA DecidedStays ==
  ASSUME Limits, RunInv, [MALNext]_malVars, NEW c, Decided(c)
  PROVE  \E config \in {Defaults} \cup {artifacts'[i].config : i \in DOMAIN artifacts'} :
           c.settings = config.settings /\ c.model = config.model
<1>. artifacts \in Seq(Artifacts) /\ JobInv
  BY DEF RunInv, TypeInv
<1>1. DOMAIN artifacts \subseteq DOMAIN artifacts' /\
      \A i \in DOMAIN artifacts : artifacts'[i].config = artifacts[i].config
  <2>1. CASE artifacts' = artifacts
    BY <2>1
  <2>2. ASSUME NEW kind, Propose(kind)
        PROVE  /\ DOMAIN artifacts \subseteq DOMAIN artifacts'
               /\ \A i \in DOMAIN artifacts : artifacts'[i].config = artifacts[i].config
    BY <2>2 DEF Propose
  <2>3. ASSUME Status, IsRun
        PROVE  /\ DOMAIN artifacts \subseteq DOMAIN artifacts'
               /\ \A i \in DOMAIN artifacts : artifacts'[i].config = artifacts[i].config
    <3>. DEFINE n == Len(artifacts)
    <3>1. PICK st : artifacts' = [artifacts EXCEPT ![n] = [artifacts[n] EXCEPT !.status = st]]
      BY <2>3 DEF Status
    <3>2. n \in DOMAIN artifacts /\ artifacts[n] \in Artifacts
      BY <2>3 DEF Status, JobInv, Applying
    <3>3. [artifacts[n] EXCEPT !.status = st].config = artifacts[n].config
      BY <3>2 DEF Artifacts
    <3>. QED  BY <3>1, <3>2, <3>3
  <2>. QED
    BY <2>1, <2>2, <2>3
    DEF MALNext, Configure, Submit, Reserve, Settle, Failed, Trigger, NothingToApply, Rollback,
        Build, Rename, Point, Status, Outcome, WriteRaises, Crash, malVars
<1>2. PICK config \in {Defaults} \cup {artifacts[i].config : i \in DOMAIN artifacts} :
        c.settings = config.settings /\ c.model = config.model
  BY DEF Decided
<1>. QED  BY <1>1, <1>2

(* A promotion moves the pointer only to a generation it has put there,    *)
(* and this holds a configuration that was decided on, wherever a run or a *)
(* rollback died or failed: the directory is renamed before the pointer is *)
(* written.                                                                *)
THEOREM PointerStaysLive == ASSUME Limits PROVE MALSpec => []PointerIsLive
<1>1. MALInit => FilesInv
  BY DEF MALInit, FilesInv, Idle
<1>2. RunInv /\ FilesInv /\ [MALNext]_malVars => FilesInv'
  <2>. SUFFICES ASSUME RunInv, FilesInv, [MALNext]_malVars PROVE FilesInv'
    OBVIOUS
  <2>. /\ artifacts \in Seq(Artifacts) /\ job \in Jobs /\ JobInv
       /\ gens \in [0..MaxGens -> Configs \cup {NoConfig}]
       /\ Idle.phase = "idle"
    BY DEF RunInv, TypeInv, MALTypeOK, Idle
  <2>. DEFINE DecidedNow(c) ==
         \E config \in {Defaults} \cup {artifacts'[i].config : i \in DOMAIN artifacts'} :
           c.settings = config.settings /\ c.model = config.model
  <2>1. \A c : Decided(c) => DecidedNow(c)
    BY DecidedStays
  <2>. DEFINE Goal ==
         /\ job'.phase \in {"build", "rename"} => DecidedNow(job'.target)
         /\ job'.phase = "rename" => workspace' # NoConfig /\ DecidedNow(workspace')
         /\ job'.phase = "point" => DecidedNow(gens'[job'.gen])
         /\ pointer' # 0 => DecidedNow(gens'[pointer'])
  <2>2. Goal => FilesInv'
    BY DEF FilesInv, Decided
  <2>. HIDE DEF DecidedNow
  <2>3. ASSUME job'.phase \notin {"build", "rename", "point"}, UNCHANGED <<gens, pointer>>
        PROVE  Goal
    BY <2>1, <2>3 DEF FilesInv
  <2>4. ASSUME NEW kind, Propose(kind) PROVE Goal
    <3>1. PICK a : artifacts' = Append(artifacts, a) /\ job'.target = a.config
      BY <2>4 DEF Propose, Jobs
    <3>2. DecidedNow(a.config)
      <4>1. Len(artifacts') \in DOMAIN artifacts' /\ artifacts'[Len(artifacts')] = a
        BY <3>1
      <4>. QED  BY <4>1 DEF DecidedNow
    <3>3. job'.phase = "build" /\ UNCHANGED <<gens, pointer>>
      BY <2>4 DEF Propose, Jobs
    <3>. QED  BY <2>1, <3>1, <3>2, <3>3 DEF FilesInv
  <2>5. ASSUME NEW config, Rollback(config) PROVE Goal
    <3>1. job'.phase = "build" /\ job'.target = config /\ UNCHANGED <<gens, pointer>>
      BY <2>5 DEF Rollback, Idle
    <3>2. Decided(config)
      BY <2>5 DEF Rollback, Decided
    <3>. QED  BY <2>1, <3>1, <3>2 DEF FilesInv
  <2>6. ASSUME Build PROVE Goal
    <3>1. /\ job'.phase = "rename" /\ job'.target = job.target /\ job.phase = "build"
          /\ UNCHANGED <<gens, pointer>>
      BY <2>6 DEF Build, Following, Jobs
    <3>2. job.target \in Configs /\ Staged(job.target) \in Configs
      BY ConfigTypes DEF Jobs
    <3>3. /\ Staged(job.target).settings = job.target.settings
          /\ Staged(job.target).model = job.target.model
      BY <3>2 DEF Staged, Configs
    <3>4. workspace' = Staged(job.target) /\ Staged(job.target) # NoConfig
      <4>1. 0 \in NoConfig.settings /\ Staged(job.target).settings \subseteq 1..MaxRuns
        BY <3>2 DEF Configs, NoConfig, Changes
      <4>2. 0 \notin Staged(job.target).settings
        BY <4>1 DEF Limits
      <4>3. Staged(job.target) # NoConfig
        BY <4>1, <4>2
      <4>4. workspace' = Staged(job.target)
        BY <2>6 DEF Build
      <4>. QED  BY <4>3, <4>4
    <3>5. DecidedNow(job.target)
      BY <2>1, <3>1 DEF FilesInv
    <3>6. DecidedNow(workspace')
      BY <3>3, <3>4, <3>5 DEF DecidedNow
    <3>. QED  BY <2>1, <3>1, <3>4, <3>5, <3>6 DEF FilesInv
  <2>7. ASSUME Rename PROVE Goal
    <3>1. job.phase = "rename" /\ pointer' = pointer /\ job.gen \in 0..MaxGens
      BY <2>7 DEF Rename, Jobs
    <3>2. CASE gens[job.gen] # NoConfig
      BY <2>3, <2>7, <3>1, <3>2 DEF Rename, Jobs
    <3>3. CASE gens[job.gen] = NoConfig
      <4>1. /\ job'.phase = "point" /\ job'.gen = job.gen
            /\ gens' = [gens EXCEPT ![job.gen] = workspace]
        BY <2>7, <3>3 DEF Rename, Following, Goto, Jobs
      <4>2. DecidedNow(workspace)
        BY <2>1, <3>1 DEF FilesInv
      <4>. QED  BY <2>1, <3>1, <4>1, <4>2 DEF FilesInv
    <3>. QED  BY <3>2, <3>3
  <2>8. ASSUME Point PROVE Goal
    BY <2>1, <2>8 DEF Point, Following, FilesInv, Jobs
  <2>9. ASSUME UNCHANGED <<job, gens, pointer, workspace>> PROVE Goal
    BY <2>1, <2>9 DEF FilesInv
  <2>10. ASSUME NEW e \in Feedback, Reserve(e) \/ Settle(e) \/ Failed(e)
         PROVE  job'.phase \notin {"build", "rename", "point"} /\ UNCHANGED <<gens, pointer>>
    BY <2>10 DEF Reserve, Settle, Failed, Jobs
  <2>11. ASSUME NEW ids, NEW force, NEW result, Trigger(ids, force) \/ NothingToApply(result)
         PROVE  job'.phase \notin {"build", "rename", "point"} /\ UNCHANGED <<gens, pointer>>
    BY <2>11 DEF Trigger, NothingToApply, Returns, Jobs, Idle
  <2>12. ASSUME Status \/ Outcome \/ Crash \/ WriteRaises
         PROVE  job'.phase \notin {"build", "rename", "point"} /\ UNCHANGED <<gens, pointer>>
    BY <2>12 DEF Status, Outcome, Crash, WriteRaises, Returns, Raises, Jobs
  <2>. QED
    BY <2>2, <2>3, <2>4, <2>5, <2>6, <2>7, <2>8, <2>9, <2>10, <2>11, <2>12
    DEF MALNext, Configure, Submit, malVars
<1>3. FilesInv => PointerIsLive
  BY DEF FilesInv, PointerIsLive, Decided
<1>. QED  BY <1>1, <1>2, <1>3, RunHolds, PTL DEF MALSpec
=============================================================================
