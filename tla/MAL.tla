--------------------------------- MODULE MAL ---------------------------------
(***************************************************************************)
(* The self-tuning of one binding: feedback events are collected, a run    *)
(* reserves some of them, proposes a change, evaluates it and applies it   *)
(* as a new generation; a rollback applies an older state.                 *)
(*                                                                         *)
(* Granularity.  A run and a rollback never suspend, so the calls of one   *)
(* process follow one another.  Each file they write is a step, at which   *)
(* the process may die or the write may raise.                             *)
(*                                                                         *)
(* Abstractions.  The k-th run proposes the change k, to a setting or a    *)
(* leaf of its own, to the extraction model, or to the one prompt; so a    *)
(* configuration is a set of changes of each kind.  Diagnosis, evaluation  *)
(* and the gates before the lock may decide anything.  A file is replaced  *)
(* at once.                                                                *)
(* Several processes on one directory and the write queue, which nothing   *)
(* uses, are left out.                                                     *)
(***************************************************************************)
EXTENDS Naturals, Sequences

CONSTANTS
  Feedback,     \* feedback events
  StreakLimit,  \* rejected runs in a row after which a binding has converged
  MaxRuns,      \* bound of the model: runs that get past the lock
  MaxGens,      \* bound of the model: generations
  Incidents,    \* which of "crash", "io_error" may happen
  MaxFaults     \* bound of the model: how many of them do

VARIABLES
  events,     \* status and reserved_by_run_id of each event
  enabled,    \* control.json
  streak,     \* rejected_streak of convergence.json
  artifacts,  \* the artifacts, in the order of their versions
  gens,       \* the directories gen_1, gen_2, ...
  pointer,    \* current_gen
  workspace,  \* apply_workspace
  lock,       \* _locks of the apply engine, in memory
  job,        \* what the process is doing
  runs,       \* runs that were begun
  faults      \* faults that happened

malVars == <<events, enabled, streak, artifacts, gens, pointer, workspace, lock, job,
             runs, faults>>
-----------------------------------------------------------------------------
Changes == 1..MaxRuns
Configs == [settings : SUBSET Changes, model : {0} \cup Changes, prompts : SUBSET Changes]
Defaults == [settings |-> {}, model |-> 0, prompts |-> {}]
NoConfig == [settings |-> {0}]   \* of a directory that does not exist

NoEvent == [is |-> "none", by |-> 0]

JobPhases == {"idle", "reserve", "execute", "build", "rename", "point", "status",
              "settle", "failed", "outcome"}

(* A rollback is a job without events.                                     *)
Jobs == [phase : JobPhases, todo : SUBSET Feedback, ids : SUBSET Feedback,
         target : Configs, gen : 0..MaxGens, result : {"none", "accepted", "rejected", "transient"}]

Idle == [phase |-> "idle", todo |-> {}, ids |-> {}, target |-> Defaults, gen |-> 0,
         result |-> "none"]

IsRun == job.ids # {}

(* Slip: the pointer before the directory. *)
PointerFirst(phase) ==
  CASE phase = "build" -> "point" [] phase = "point" -> "rename" [] OTHER -> "status"

(* The order of promote and of what surrounds it.                          *)
Following(phase) ==
  CASE phase = "build" -> "rename" [] phase = "rename" -> "point" [] OTHER -> "status"

Goto(phase) == job' = [job EXCEPT !.phase = phase]

(* _execute_run returns: the events are settled one by one.                *)
Returns(result) ==
  job' = [job EXCEPT !.phase = "settle", !.todo = job.ids, !.result = result]

(* It raises: trigger releases the events.                                 *)
Raises == job' = [job EXCEPT !.phase = "failed", !.todo = job.ids]

(* The files of the generation that is live. *)
Live == IF gens[pointer] = NoConfig THEN Defaults ELSE gens[pointer]

(* What the server takes from a generation: active_config.json, which does *)
(* not name the prompts.                                                   *)
Read(config) == config.settings \cup ({config.model} \ {0})

(* _previous_materialized_state. *)
LatestConfig == IF artifacts = <<>> THEN Defaults ELSE artifacts[Len(artifacts)].config

(* _compute_materialized_state of a change k: the extraction model of the  *)
(* state before is not taken over.                                         *)
Materialized(kind, k) ==
  LET before == [LatestConfig EXCEPT !.model = 0]
  IN CASE kind = "setting" -> [before EXCEPT !.settings = @ \cup {k}]
       [] kind = "prompt" -> [before EXCEPT !.prompts = @ \cup {k}]
       [] OTHER -> [before EXCEPT !.model = k]

(* The workspace of a generation: the prompts of the target replace those  *)
(* copied from the live one, and these what a dead run left; no prompt is  *)
(* removed.                                                                *)
Staged(target) ==
  [target EXCEPT !.prompts =
     CASE @ # {} -> @
       [] @ = {} /\ Live.prompts # {} -> Live.prompts
       [] OTHER -> IF workspace = NoConfig THEN {} ELSE workspace.prompts]

Queued == {e \in Feedback : events[e].is = "queued"}
-----------------------------------------------------------------------------
(* memory_mal_configure. *)
Configure(on) ==
  /\ job = Idle
  /\ enabled' = on
  /\ UNCHANGED <<events, streak, artifacts, gens, pointer, workspace, lock, job, runs, faults>>

(* memory_mal_feedback. *)
Submit(e) ==
  /\ job = Idle /\ enabled /\ events[e] = NoEvent
  /\ events' = [events EXCEPT ![e].is = "queued"]
  /\ UNCHANGED <<enabled, streak, artifacts, gens, pointer, workspace, lock, job, runs, faults>>

(* trigger up to the lock, for the events that are eligible or for those   *)
(* that the caller names.                                                  *)
Trigger(ids, force) ==
  /\ job = Idle /\ enabled
  /\ force \/ streak < StreakLimit
  /\ ids # {} /\ (ids = Queued \/ \A e \in ids : events[e] # NoEvent)
  /\ ~lock /\ runs < MaxRuns
  /\ lock' = TRUE
  /\ runs' = runs + 1
  /\ job' = [Idle EXCEPT !.phase = "reserve", !.todo = ids, !.ids = ids]
  /\ UNCHANGED <<events, enabled, streak, artifacts, gens, pointer, workspace, faults>>

(* reserve, outside of the try block: an event that is not queued ends the *)
(* call, and leaves the lock taken and the earlier events reserved.        *)
Reserve(e) ==
  /\ job.phase = "reserve" /\ e \in job.todo
  /\ IF events[e].is = "queued"
     THEN /\ events' = [events EXCEPT ![e] = [is |-> "reserved", by |-> runs]]
          /\ job' = [job EXCEPT !.todo = @ \ {e},
                                !.phase = IF job.todo = {e} THEN "execute" ELSE @]
     ELSE job' = Idle /\ UNCHANGED events
  /\ UNCHANGED <<enabled, streak, artifacts, gens, pointer, workspace, lock, runs, faults>>

(* _execute_run without a change to apply: an evaluation that rejects it,  *)
(* or one of the outcomes that decide nothing.                             *)
NothingToApply(result) ==
  /\ job.phase = "execute"
  /\ Returns(result)
  /\ UNCHANGED <<events, enabled, streak, artifacts, gens, pointer, workspace, lock, runs, faults>>

(* ArtifactStore.create: the change on top of the latest artifact.         *)
Propose(kind) ==
  /\ job.phase = "execute"
  /\ LET config == Materialized(kind, runs)
     IN /\ artifacts' = Append(artifacts, [config |-> config, status |-> "accepted", ids |-> job.ids])
        /\ job' = [job EXCEPT !.phase = "build", !.target = config]
  /\ UNCHANGED <<events, enabled, streak, gens, pointer, workspace, lock, runs, faults>>

(* memory_mal_rollback, confirmed, to an artifact or to the defaults.  It  *)
(* makes an engine of its own and does not take the lock.                  *)
Rollback(config) ==
  /\ job = Idle /\ artifacts # <<>>
  /\ config = Defaults \/ \E i \in DOMAIN artifacts : artifacts[i].config = config
  /\ job' = [Idle EXCEPT !.phase = "build", !.target = config]
  /\ UNCHANGED <<events, enabled, streak, artifacts, gens, pointer, workspace, lock, runs, faults>>

(* build_workspace_from_current, _write_active_config, _write_prompts.     *)
Build ==
  /\ job.phase = "build" /\ pointer < MaxGens
  /\ workspace' = Staged(job.target)
  /\ job' = [job EXCEPT !.phase = Following("build"), !.gen = pointer + 1]
  /\ UNCHANGED <<events, enabled, streak, artifacts, gens, pointer, lock, runs, faults>>

(* The first half of promote.  A directory that is there already makes it  *)
(* raise; apply_generation then removes the workspace.                     *)
Rename ==
  /\ job.phase = "rename"
  /\ workspace' = NoConfig
  /\ IF gens[job.gen] = NoConfig
     THEN gens' = [gens EXCEPT ![job.gen] = workspace] /\ Goto(Following("rename"))
     ELSE UNCHANGED gens /\ job' = [job EXCEPT !.phase = "status", !.result = "transient"]
  /\ UNCHANGED <<events, enabled, streak, artifacts, pointer, lock, runs, faults>>

(* The second half. *)
Point ==
  /\ job.phase = "point"
  /\ pointer' = job.gen
  /\ job' = [job EXCEPT !.phase = Following("point"), !.result = "accepted"]
  /\ UNCHANGED <<events, enabled, streak, artifacts, gens, workspace, lock, runs, faults>>

(* update_status, and the end of a rollback. *)
Status ==
  /\ job.phase = "status"
  /\ IF IsRun
     THEN /\ artifacts' = [artifacts EXCEPT ![Len(artifacts)].status =
                             IF job.result = "accepted" THEN "applied" ELSE "rolled_back"]
          /\ Returns(job.result)
     ELSE job' = Idle /\ UNCHANGED artifacts
  /\ UNCHANGED <<events, enabled, streak, gens, pointer, workspace, lock, runs, faults>>

(* consume. *)
Consumed(e) == [events EXCEPT ![e].is = "consumed"]

(* Slip: reserved_by_run_id stays. *)
ReleasedButOwned(e) == [events EXCEPT ![e].is = "queued"]

(* release. *)
PutBack(e) == [events EXCEPT ![e] = [is |-> "queued", by |-> 0]]

(* Slip: the events of an accepted run may serve again. *)
SettledIfRejected(e) == IF job.result = "rejected" THEN Consumed(e) ELSE PutBack(e)

(* consume after accepted and rejected, release after any other outcome.   *)
Settled(e) == IF job.result = "transient" THEN PutBack(e) ELSE Consumed(e)

Settle(e) ==
  /\ job.phase = "settle" /\ e \in job.todo
  /\ events' = Settled(e)
  /\ job' = [job EXCEPT !.todo = @ \ {e}, !.phase = IF job.todo = {e} THEN "outcome" ELSE @]
  /\ UNCHANGED <<enabled, streak, artifacts, gens, pointer, workspace, lock, runs, faults>>

(* record_outcome, release_lock and _save_run. *)
Outcome ==
  /\ job.phase = "outcome"
  /\ streak' = CASE job.result = "accepted" -> 0
                 [] job.result = "rejected" /\ streak < StreakLimit -> streak + 1
                 [] OTHER -> streak
  /\ lock' = FALSE
  /\ job' = Idle
  /\ UNCHANGED <<events, enabled, artifacts, gens, pointer, workspace, runs, faults>>

(* The handler of trigger: release and unlock. *)
Failed(e) ==
  /\ job.phase = "failed" /\ e \in job.todo
  /\ events' = PutBack(e)
  /\ job' = IF job.todo = {e} THEN Idle ELSE [job EXCEPT !.todo = @ \ {e}]
  /\ lock' = (job.todo # {e})
  /\ UNCHANGED <<enabled, streak, artifacts, gens, pointer, workspace, runs, faults>>

-----------------------------------------------------------------------------
(* A write raises.  In _execute_run the handler of trigger catches it; in  *)
(* apply_generation the handler there, which removes the workspace but not *)
(* a generation without a pointer; elsewhere nothing does.                 *)
WriteRaises ==
  /\ "io_error" \in Incidents /\ faults < MaxFaults
  /\ \/ job.phase = "execute" /\ Raises /\ UNCHANGED workspace
     \/ job.phase = "status" /\ IsRun /\ Raises /\ UNCHANGED workspace
     \/ /\ job.phase \in {"build", "rename", "point"}
        /\ workspace' = NoConfig
        /\ job' = [job EXCEPT !.phase = "status", !.result = "transient"]
     \/ job.phase \in {"reserve", "settle", "failed", "outcome"} /\ job' = Idle /\ UNCHANGED workspace
  /\ faults' = faults + 1
  /\ UNCHANGED <<events, enabled, streak, artifacts, gens, pointer, lock, runs>>

Crash ==
  /\ "crash" \in Incidents /\ faults < MaxFaults
  /\ job # Idle \/ lock
  /\ job' = Idle
  /\ lock' = FALSE
  /\ faults' = faults + 1
  /\ UNCHANGED <<events, enabled, streak, artifacts, gens, pointer, workspace, runs>>

MALInit ==
  /\ events = [e \in Feedback |-> NoEvent]
  /\ enabled = FALSE
  /\ streak = 0
  /\ artifacts = <<>>
  /\ gens = [g \in 0..MaxGens |-> NoConfig]
  /\ pointer = 0
  /\ workspace = NoConfig
  /\ lock = FALSE
  /\ job = Idle
  /\ runs = 0 /\ faults = 0

MALNext ==
  \/ \E on \in BOOLEAN : Configure(on)
  \/ \E e \in Feedback : Submit(e) \/ Reserve(e) \/ Settle(e) \/ Failed(e)
  \/ \E ids \in SUBSET Feedback, force \in BOOLEAN : Trigger(ids, force)
  \/ \E result \in {"rejected", "transient"} : NothingToApply(result)
  \/ \E kind \in {"setting", "prompt", "model"} : Propose(kind)
  \/ \E config \in Configs : Rollback(config)
  \/ Build
  \/ Rename
  \/ Point
  \/ Status
  \/ Outcome
  \/ WriteRaises
  \/ Crash

MALSpec == MALInit /\ [][MALNext]_malVars
-----------------------------------------------------------------------------
(* Types, and that an event belongs to a run from its reservation on.      *)
MALTypeOK ==
  /\ \A e \in Feedback :
       /\ events[e] \in [is : {"none", "queued", "reserved", "consumed"}, by : 0..MaxRuns]
       /\ events[e].by = 0 <=> events[e].is \in {"none", "queued"}
  /\ enabled \in BOOLEAN /\ lock \in BOOLEAN
  /\ streak \in 0..StreakLimit
  /\ gens \in [0..MaxGens -> Configs \cup {NoConfig}]
  /\ pointer \in 0..MaxGens
  /\ workspace \in Configs \cup {NoConfig}
  /\ job \in Jobs
  /\ runs \in 0..MaxRuns

(* The pointer names a generation that is there, and what the server reads *)
(* in it is one configuration that was decided on - an artifact's, or that *)
(* of a rollback to the defaults - wherever a run died or failed.          *)
(* (promote renames before it writes the pointer.)                         *)
PointerIsLive ==
  pointer # 0 =>
    \E config \in {Defaults} \cup {artifacts[i].config : i \in DOMAIN artifacts} :
      /\ gens[pointer].settings = config.settings
      /\ gens[pointer].model = config.model

(* No two changes that were applied rest on the same feedback event, also  *)
(* when a run died before it consumed its events or could not write them.  *)
(* (reserve, consume, and the status of the artifact, which comes first.)  *)
UsedOnce ==
  \A i, j \in DOMAIN artifacts :
    i # j /\ artifacts[i].status = "applied" /\ artifacts[j].status = "applied"
    => artifacts[i].ids \cap artifacts[j].ids = {}

(* A change that was applied is one the server reads: "MAL source          *)
(* aggregation prompt overrides" (memory.py) are read from the extraction  *)
(* prompts of active_config.json.  It does not hold: apply_generation      *)
(* never writes them there.                                                *)
AppliedIsRead ==
  [][IsRun /\ pointer' # pointer => runs \in Read(gens'[pointer'])]_malVars

(* A trigger that has ended holds no lock: "lock -> reserve -> execute ->  *)
(* consume/release -> unlock" (mal/scheduler.py).  It does not hold.       *)
UnlockedAtTheEnd == job = Idle => ~lock
=============================================================================
