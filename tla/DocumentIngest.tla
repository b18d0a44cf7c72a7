--------------------------- MODULE DocumentIngest ---------------------------
(***************************************************************************)
(* The ingestion of documents that arrive in parts, by the tools and by    *)
(* the queue worker of one process, on the SQLite store.                   *)
(*                                                                         *)
(* Granularity.  An ingest suspends while its text is canonicalized and    *)
(* grouped, while its episodes are extracted, and while the source is      *)
(* aggregated; what it does between two of these is one step, because no   *)
(* holder of _file_lock ever suspends.  A commit is one transaction.       *)
(*                                                                         *)
(* Abstractions.  Every run brings a text of its own, so the duplicate     *)
(* checks find nothing; a run is also the version that it makes.  The      *)
(* facts of an episode are one fact.  Leases, attempts and their limit are *)
(* those of WriteLog and left out here, as are derived facts, the source   *)
(* records, and documents without parts, whose episodes start again at 1.  *)
(***************************************************************************)
EXTENDS Naturals, FiniteSets, FiniteSetsExt

CONSTANTS
  Sources,
  Parts,
  Runs,        \* calls of ingest_document, never reused
  MaxEpisodes, \* bound of the model: episodes of a part
  Overlap,     \* which runs may be in flight together, see MayOverlap
  Faults       \* which of "canon", "extract", "aggregate", "crash" happen

VARIABLES
  run,      \* each run: what it is for and where it is
  doc,      \* _episode_corpus: the episodes of each source
  text,     \* raw_source_parts: the run whose text is stored, per part
  sessions, \* _raw_sessions
  facts,    \* _all_granular
  current,  \* _dedup_index: the version of each part
  tables,   \* the tables of the same
  log,      \* write_log: the state of each message
  active,   \* _active_sync_message_ids
  worker    \* the run of the queue worker

docVars == <<run, doc, text, sessions, facts, current, tables, log, active, worker>>
-----------------------------------------------------------------------------
NoRun == "none"

RunPhases == {"new", "queued", "canon", "extract", "aggregate", "over"}

Episodes == [index : Nat, num : Nat, part : Parts, of : Runs]

(* A run: its message is the run that first brought it. *)
Fresh == [phase |-> "new"]

InFlight(r) == run[r].phase \in {"canon", "extract", "aggregate"}

(* Which messages are worked on at the same time: any, those of different  *)
(* parts, or one.                                                          *)
MayOverlap(s, p, m) ==
  \A r \in Runs : InFlight(r) /\ run[r].msg # m =>
    CASE Overlap = "any" -> TRUE
      [] Overlap = "parts" -> <<run[r].source, run[r].part>> # <<s, p>>
      [] OTHER -> FALSE

(* Slip: from the number of episodes. *)
NextIndexByCount(s) == 1 + Cardinality(doc[s])

(* _next_document_episode_index. *)
NextIndex(s) == 1 + Max({0} \cup {e.index : e \in doc[s]})

(* Slip: the episodes that are only reserved do not count. *)
NextNumOfRows(s) == 1 + Max({0} \cup {row.num : row \in sessions} \cup {f.num : f \in facts})

(* _next_document_session_num. *)
NextNum(s) ==
  1 + Max({0} \cup {row.num : row \in sessions} \cup {e.num : e \in doc[s]}
              \cup {f.num : f \in facts})

(* Slip: the whole document is replaced. *)
ReplacedWhole(s, p, new) == [doc EXCEPT ![s] = new]

(* _upsert_episode_document with a part key. *)
Replaced(s, p, new) == [doc EXCEPT ![s] = {e \in @ : e.part # p} \cup new]

(* _upsert_raw_session_projection_row: the number is the primary key.      *)
SessionRows(table, new) ==
  {row \in table : row.num \notin {n.num : n \in new}} \cup new

(* _upsert_fact_projection_rows, by tier and id; the id of a fact begins   *)
(* with the source and the index of its episode.                           *)
FactRows(table, new) ==
  {f \in table : <<f.source, f.index>> \notin {<<n.source, n.index>> : n \in new}} \cup new

Superseded(rows, old) ==
  {[row EXCEPT !.status = "superseded"] : row \in {r \in rows : r.of = old}}

Supersede(rows, old) == {r \in rows : r.of # old} \cup Superseded(rows, old)

Phase(r, phase) == run' = [run EXCEPT ![r].phase = phase]

(* Slip: a call that fails stays the worker's. *)
LeavesButWorker(r) == Phase(r, "over") /\ UNCHANGED worker

(* The call returns or raises; the worker goes on to its next message.     *)
Leaves(r) == Phase(r, "over") /\ worker' = IF worker = r THEN NoRun ELSE worker

-----------------------------------------------------------------------------
Begin(r, s, p, msg) ==
  /\ run' = [run EXCEPT ![r] = [phase |-> "canon", source |-> s, part |-> p,
                                msg |-> msg, old |-> current[s][p]]]
  /\ log' = [log EXCEPT ![msg] = "pending"]
  /\ active' = active \cup {msg}

(* memory_ingest_document, up to the canonicalizer.                        *)
Ingest(r, s, p) ==
  /\ run[r] = Fresh /\ MayOverlap(s, p, r)
  /\ Begin(r, s, p, r)
  /\ UNCHANGED <<doc, text, sessions, facts, current, tables, worker>>

(* memory_write. *)
Enqueue(r, s, p) ==
  /\ run[r] = Fresh
  /\ run' = [run EXCEPT ![r] = [phase |-> "queued", source |-> s, part |-> p, msg |-> r]]
  /\ log' = [log EXCEPT ![r] = "pending"]
  /\ UNCHANGED <<doc, text, sessions, facts, current, tables, active, worker>>

(* Slip: the worker does not look for calls in flight. *)
ClaimsAny(m) == log[m] = "pending"

(* process_write_log_once takes a message that no call is known to work on. *)
Claims(m) == log[m] = "pending" /\ m \notin active

(* The worker ingests a message for the first time, or again after a run   *)
(* of it failed or died.                                                   *)
Work(r, m) ==
  /\ worker = NoRun /\ Claims(m)
  /\ IF run[m].phase = "queued" THEN r = m ELSE run[r] = Fresh
  /\ MayOverlap(run[m].source, run[m].part, m)
  /\ Begin(r, run[m].source, run[m].part, m)
  /\ worker' = r
  /\ UNCHANGED <<doc, text, sessions, facts, current, tables>>

(* The canonicalizer gives up: the text is kept and the message complete.  *)
Unready(r) ==
  LET s == run[r].source
      row == [num |-> NextNum(s), of |-> r, status |-> "canonicalization_failed"]
  IN /\ "canon" \in Faults /\ run[r].phase = "canon"
     /\ sessions' = sessions \cup {row}
     /\ text' = [text EXCEPT ![s][run[r].part] = r]
     /\ tables' = [tables EXCEPT !.sessions = SessionRows(@, {row}), !.text = [@ EXCEPT ![s] = text'[s]]]
     /\ log' = [log EXCEPT ![run[r].msg] = "complete"]
     /\ Leaves(r)
     /\ UNCHANGED <<doc, facts, current, active>>

(* The episodes are grouped, numbered and reserved.                        *)
ReserveIds(r, n) ==
  LET s == run[r].source
      new == {[index |-> NextIndex(s) + i - 1, num |-> NextNum(s) + i - 1,
               part |-> run[r].part, of |-> r] : i \in 1..n}
  IN /\ run[r].phase = "canon"
     /\ run' = [run EXCEPT ![r] =
                  [phase |-> "extract", source |-> s, part |-> @.part, msg |-> @.msg,
                   old |-> @.old, episodes |-> new,
                   saved |-> [doc |-> doc[s], text |-> text[s]]]]
     /\ doc' = Replaced(s, run[r].part, new)
     /\ UNCHANGED <<text, sessions, facts, current, tables, log, active, worker>>

(* Every episode has been extracted. *)
Extracted(r) ==
  /\ run[r].phase = "extract"
  /\ Phase(r, "aggregate")
  /\ UNCHANGED <<doc, text, sessions, facts, current, tables, log, active, worker>>

(* Slip: the reservation is kept. *)
ReservationKept(r) == doc

(* _restore_document_projection_state: as it was when this run reserved.   *)
Restored(r) == [doc EXCEPT ![run[r].source] = run[r].saved.doc]

(* The extraction of an episode raises: _rollback_failed_document_ingest.  *)
ExtractionRaises(r) ==
  /\ "extract" \in Faults /\ run[r].phase = "extract"
  /\ doc' = Restored(r)
  /\ text' = [text EXCEPT ![run[r].source] = run[r].saved.text]
  /\ Leaves(r)
  /\ UNCHANGED <<sessions, facts, current, tables, log, active>>

(* The aggregation raises: nothing is rolled back.                         *)
AggregationRaises(r) ==
  /\ "aggregate" \in Faults /\ run[r].phase = "aggregate"
  /\ Leaves(r)
  /\ UNCHANGED <<doc, text, sessions, facts, current, tables, log, active>>

(* The end of the ingest.  A run without facts supersedes the sessions of  *)
(* the version before and nothing else.                                    *)
CommitRun(r, found) ==
  LET s == run[r].source
      p == run[r].part
      old == run[r].old
      rows == {[num |-> e.num, of |-> r, status |-> "active"] : e \in run[r].episodes}
      news == {[source |-> s, index |-> e.index, num |-> e.num, of |-> r,
                status |-> "active"] : e \in run[r].episodes}
  IN /\ run[r].phase = "aggregate"
     /\ sessions' = Supersede(sessions, old) \cup rows
     /\ doc' = Replaced(s, p, run[r].episodes)
     /\ text' = [text EXCEPT ![s][p] = r]
     /\ IF found
        THEN /\ facts' = Supersede(facts, old) \cup news
             /\ current' = [current EXCEPT ![s][p] = r]
        ELSE UNCHANGED <<facts, current>>
     /\ tables' = [tables EXCEPT
          !.sessions = SessionRows(@, Superseded(sessions, old) \cup rows),
          !.doc = [@ EXCEPT ![s] = doc'[s]],
          !.text = [@ EXCEPT ![s] = text'[s]],
          !.facts = IF found THEN FactRows(@, Superseded(facts, old) \cup news) ELSE @]
     /\ log' = [log EXCEPT ![run[r].msg] = "complete"]
     /\ active' = active \ {run[r].msg}
     /\ Leaves(r)

(* The process dies and another one loads the store.  The version index is *)
(* rebuilt from the facts.                                                 *)
ProcessDies ==
  /\ "crash" \in Faults /\ \E r \in Runs : run[r].phase # "new"
  /\ run' = [r \in Runs |-> IF run[r].phase \in {"new", "queued"} THEN run[r] ELSE [run[r] EXCEPT !.phase = "over"]]
  /\ doc' = tables.doc /\ text' = tables.text
  /\ sessions' = tables.sessions /\ facts' = tables.facts
  /\ current' \in [Sources -> [Parts -> Runs \cup {NoRun}]]
  /\ \A s \in Sources, p \in Parts :
       LET versions == {r \in Runs : \E f \in tables.facts : /\ f.of = r /\ f.status = "active"
                                                           /\ run[r].source = s /\ run[r].part = p}
       IN current'[s][p] \in IF versions = {} THEN {NoRun} ELSE versions
  /\ active' = {} /\ worker' = NoRun
  /\ UNCHANGED <<tables, log>>

DocInit ==
  /\ run = [r \in Runs |-> Fresh]
  /\ doc = [s \in Sources |-> {}]
  /\ text = [s \in Sources |-> [p \in Parts |-> NoRun]]
  /\ sessions = {} /\ facts = {}
  /\ current = [s \in Sources |-> [p \in Parts |-> NoRun]]
  /\ tables = [doc |-> doc, text |-> text, sessions |-> {}, facts |-> {}]
  /\ log = [m \in Runs |-> "none"]
  /\ active = {} /\ worker = NoRun

DocNext ==
  \/ \E r \in Runs :
       \/ \E s \in Sources, p \in Parts : Ingest(r, s, p) \/ Enqueue(r, s, p)
       \/ \E m \in Runs : Work(r, m)
       \/ Unready(r)
       \/ \E n \in 1..MaxEpisodes : ReserveIds(r, n)
       \/ Extracted(r)
       \/ ExtractionRaises(r)
       \/ AggregationRaises(r)
       \/ \E found \in BOOLEAN : CommitRun(r, found)
  \/ ProcessDies

DocSpec == DocInit /\ [][DocNext]_docVars
-----------------------------------------------------------------------------
(* The types; the worker is at one of the runs in flight. *)
DocTypeOK ==
  /\ \A r \in Runs : run[r].phase \in RunPhases
  /\ \A s \in Sources : doc[s] \subseteq Episodes
  /\ text \in [Sources -> [Parts -> Runs \cup {NoRun}]]
  /\ current \in [Sources -> [Parts -> Runs \cup {NoRun}]]
  /\ log \in [Runs -> {"none", "pending", "complete"}]
  /\ active \subseteq Runs
  /\ worker \in {NoRun} \cup {r \in Runs : InFlight(r)}

(* "Reserve multipart episode ids immediately so concurrent parts cannot   *)
(* allocate the same suffixes" (memory.py): the episodes of two runs, in   *)
(* the corpus, in flight or behind a fact, never have one id.              *)
EpisodeIdsDiffer ==
  LET taken(r) ==
        (UNION {{<<s, e.index>> : e \in {x \in doc[s] : x.of = r}} : s \in Sources})
        \cup (IF InFlight(r) /\ run[r].phase # "canon"
              THEN {<<run[r].source, e.index>> : e \in run[r].episodes} ELSE {})
        \cup {<<f.source, f.index>> : f \in {x \in facts : x.of = r}}
  IN \A r, q \in Runs : r # q => taken(r) \cap taken(q) = {}

(* What a committed part says is what the document says: the version that  *)
(* counts as current has its episodes in the corpus and its text stored,   *)
(* or a later run of that part has, and its facts are the active ones.     *)
CommittedStays ==
  \A s \in Sources, p \in Parts :
    LET r == current[s][p]
    IN r # NoRun =>
         /\ text[s][p] # NoRun
         /\ \E e \in doc[s] : e.part = p
         /\ {f.of : f \in {x \in facts : x.status = "active" /\ x.source = s
                                          /\ run[x.of].part = p}} = {r}

(* A restart loses nothing that was committed: the rows of the store are   *)
(* those of the process.                                                   *)
RowsOfEveryCommit ==
  /\ sessions = tables.sessions
  /\ facts = tables.facts
  /\ text = tables.text

(* One call works on a message at a time. *)
OneRunPerMessage ==
  \A r, q \in Runs : InFlight(r) /\ InFlight(q) /\ run[r].msg = run[q].msg => r = q

(* An episode of the corpus is one that a run in flight has reserved, or   *)
(* its session is stored: a failed ingest takes its reservation back.  It  *)
(* is not so when an aggregation fails, which rolls nothing back, or when  *)
(* a part is committed, and with it the reservations of the others, and    *)
(* the process dies.                                                       *)
ReservedOrStored ==
  \A e \in UNION {doc[s] : s \in Sources} :
    \/ InFlight(e.of) /\ e \in run[e.of].episodes
    \/ \E row \in sessions : row.num = e.num /\ row.of = e.of
=============================================================================
