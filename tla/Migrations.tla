----------------------------- MODULE Migrations -----------------------------
(***************************************************************************)
(* How one memory key gets to its present store: the import of the legacy  *)
(* JSON and NPZ files into SQLite (memory_migrate_jsonnpz), and the change *)
(* of an SQLite store of the first schema, when it is opened, to the one   *)
(* of today.                                                               *)
(*                                                                         *)
(* Granularity.  A step is one transaction, or one file that is renamed or *)
(* removed; a process may die between any two.  The change of the schema   *)
(* has two steps, because executescript commits the transaction that was   *)
(* begun before it.                                                        *)
(*                                                                         *)
(* Abstractions.  Of what a store holds, the model knows from which file   *)
(* it came; of a raw session of the first schema, its number.  A key with  *)
(* legacy files has no store of the first schema.  The temporal file is    *)
(* renamed only.  Encryption and secrets are left out.                     *)
(***************************************************************************)
EXTENDS Naturals, Sequences, SequencesExt, FiniteSetsExt

CONSTANTS
  OldNums,     \* lists of session numbers a store of the first schema has, 0 if none
  Incidents    \* which of "crash", "raise", "early" happen

ASSUME MigrationAssumption == OldNums \subseteq Seq(Nat)

VARIABLES
  files,   \* the legacy files: live, kept as .bak, or none
  db,      \* the store of the key
  tmp,     \* <key>.sqlite3.tmp
  job,     \* the import, or the opening, that is going on
  server,  \* what the process that has the key open holds in memory
  answer   \* what the last call of the tool has reported

migrationVars == <<files, db, tmp, job, server, answer>>
-----------------------------------------------------------------------------
(* _legacy_storage_paths, in its order. *)
Files == <<"json", "embs", "corpus">>

Names == ToSet(Files)

Live == {f \in Names : files[f] = "live"}

Contents == Names \cup {"own"}

NoStore == [schema |-> "none", holds |-> {}, nums |-> <<>>]

Empty == [NoStore EXCEPT !.schema = "new"]

Idle == [at |-> "idle"]

Closed == {"closed"}

(* Slip: any store will do. *)
IsThere == db.schema # "none"

HasPayload == db.holds # {}

(* save_facts: the store is made equal to a snapshot, but for the vectors. *)
WithSnapshot(store, snapshot) ==
  [store EXCEPT !.holds = (@ \cap {"embs"}) \cup (snapshot \ {"embs"})]

-----------------------------------------------------------------------------
(* migrate_jsonnpz_to_sqlite, up to its first transaction.                 *)
Already ==
  /\ job = Idle /\ db.schema = "new"
  /\ HasPayload \/ files["json"] # "live"
  /\ answer' = "already"
  /\ UNCHANGED <<files, db, tmp, job, server>>

BeginImport ==
  /\ job = Idle /\ files["json"] = "live" /\ ~HasPayload
  /\ job' = [at |-> "save", read |-> Live, into |-> IF db.schema = "none" THEN "tmp" ELSE "final"]
  /\ tmp' = IF db.schema = "none" THEN Empty ELSE tmp
  /\ answer' = "none"
  /\ UNCHANGED <<files, db, server>>

(* Slip: the files go before the store has its name. *)
RenamedFirst == [save |-> "embed", embed |-> "verify", verify |-> "rename", rename |-> "install", install |-> "end"]

Order == [save |-> "embed", embed |-> "verify", verify |-> "install", install |-> "rename", rename |-> "end"]

Goes == job' = [job EXCEPT !.at = Order[job.at]]

Into(store) ==
  IF job.into = "tmp" THEN tmp' = store /\ UNCHANGED db ELSE db' = store /\ UNCHANGED tmp

Target == IF job.into = "tmp" THEN tmp ELSE db

SaveFacts ==
  /\ job.at = "save"
  /\ Into(WithSnapshot(Target, job.read))
  /\ Goes
  /\ UNCHANGED <<files, server, answer>>

SaveEmbeddings ==
  /\ job.at = "embed"
  /\ Into([Target EXCEPT !.holds = @ \cup (job.read \cap {"embs"})])
  /\ Goes
  /\ UNCHANGED <<files, server, answer>>

(* _verify_sqlite_payload. *)
Verify ==
  /\ job.at = "verify"
  /\ Target.holds = job.read
  /\ Goes
  /\ UNCHANGED <<files, db, tmp, server, answer>>

(* A transaction or the verification raises. *)
Raises ==
  /\ job.at \in {"save", "embed", "verify"}
  /\ tmp' = IF job.into = "tmp" THEN NoStore ELSE tmp
  /\ job' = Idle
  /\ UNCHANGED <<files, db, server, answer>>

Install ==
  /\ job.at = "install"
  /\ IF job.into = "tmp" THEN db' = tmp /\ tmp' = NoStore ELSE UNCHANGED <<db, tmp>>
  /\ Goes
  /\ UNCHANGED <<files, server, answer>>

Rename ==
  /\ job.at = "rename"
  /\ LET i == SelectInSeq(Files, LAMBDA f : files[f] = "live") IN
     IF i = 0 THEN Goes /\ UNCHANGED files
     ELSE files' = [files EXCEPT ![Files[i]] = "kept"] /\ UNCHANGED job
  /\ UNCHANGED <<db, tmp, server, answer>>

Reply ==
  /\ job.at = "end"
  /\ job' = Idle
  /\ answer' = "migrated"
  /\ UNCHANGED <<files, db, tmp, server>>

Import ==
  \/ Already \/ BeginImport \/ SaveFacts \/ SaveEmbeddings \/ Verify \/ Install \/ Rename \/ Reply
  \/ "raise" \in Incidents /\ Raises

-----------------------------------------------------------------------------
(* Slip: the next number, whoever has it. *)
NextOnly(list) == [i \in DOMAIN list |-> IF list[i] > 0 THEN list[i] ELSE i]

(* The numbers that the raw sessions get, now that they are the key: a     *)
(* number that is missing or taken becomes the position, or the next that  *)
(* is free.                                                                *)
Renumbered(list) ==
  LET done[i \in 0..Len(list)] ==
        IF i = 0 THEN <<>>
        ELSE LET taken == ToSet(done[i - 1])
             IN Append(done[i - 1], IF list[i] > 0 /\ list[i] \notin taken THEN list[i]
                                    ELSE Min((i..2 * Len(list)) \ taken))
  IN done[Len(list)]

(* A process opens the key, of which the store is made if there is none.   *)
Open ==
  /\ job = Idle /\ server = Closed
  /\ db.schema \in {"none", "new"}
  /\ files["json"] = "live" => "early" \in Incidents
  /\ db' = IF db.schema = "none" THEN Empty ELSE db
  /\ server' = db'.holds
  /\ UNCHANGED <<files, tmp, job, answer>>

(* _migrate_schema_to_v2: the new tables, committed; then the rows, the    *)
(* counts and the names in a second transaction.  Where the new tables are *)
(* already, the first step raises, and the key is not opened.              *)
NewTables ==
  /\ job = Idle /\ server = Closed /\ db.schema = "old"
  /\ db' = [db EXCEPT !.schema = "half"]
  /\ job' = [at |-> "copy"]
  /\ UNCHANGED <<files, tmp, server, answer>>

Copy ==
  /\ job.at = "copy"
  /\ db' = [db EXCEPT !.schema = "new", !.nums = Renumbered(@)]
  /\ job' = Idle
  /\ server' = db.holds
  /\ UNCHANGED <<files, tmp, answer>>

CopyRaises ==
  /\ job.at = "copy"
  /\ job' = Idle
  /\ UNCHANGED <<files, db, tmp, server, answer>>

(* What the server does with its memory: store() adds, a snapshot makes    *)
(* the store equal to it.                                                  *)
StoreOwn ==
  /\ server # Closed
  /\ server' = server \cup {"own"}
  /\ db' = [db EXCEPT !.holds = @ \cup {"own"}]
  /\ UNCHANGED <<files, tmp, job, answer>>

SaveSnapshot ==
  /\ server # Closed
  /\ db' = WithSnapshot(db, server)
  /\ UNCHANGED <<files, tmp, job, server, answer>>

(* The import runs in the process that serves the key. *)
Dies ==
  /\ job' = Idle /\ server' = Closed
  /\ UNCHANGED <<files, db, tmp, answer>>

Serve ==
  \/ Open \/ NewTables \/ Copy
  \/ job = Idle /\ (StoreOwn \/ SaveSnapshot)
  \/ "raise" \in Incidents /\ CopyRaises
  \/ "crash" \in Incidents /\ Dies

(* A key with legacy files, perhaps opened once; or one with a store of    *)
(* the first schema.                                                       *)
MigrationInit ==
  /\ \/ /\ files \in [Names -> {"live", "none"}] /\ files["json"] = "live"
        /\ db \in {NoStore, Empty}
     \/ /\ files = [f \in Names |-> "none"]
        /\ \E list \in OldNums : db = [schema |-> "old", holds |-> {"own"}, nums |-> list]
  /\ tmp = NoStore /\ job = Idle /\ server = Closed /\ answer = "none"

MigrationNext == Import \/ Serve

MigrationSpec == MigrationInit /\ [][MigrationNext]_migrationVars
-----------------------------------------------------------------------------
Stores(schemas) == [schema : schemas, holds : SUBSET Contents, nums : Seq(Nat)]

(* Every variable has its type, and the session numbers of a store of      *)
(* today are the key of its table: positive and distinct.                  *)
MigrationTypeOK ==
  /\ files \in [Names -> {"live", "kept", "none"}]
  /\ db \in Stores({"none", "old", "half", "new"})
  /\ db.schema = "new" => IsInjective(db.nums) /\ 0 \notin ToSet(db.nums)
  /\ tmp \in Stores({"none", "new"})
  /\ job.at \in {"idle", "copy", "end"} \cup DOMAIN Order
  /\ server = Closed \/ server \subseteq Contents
  /\ answer \in {"none", "migrated", "already"}

(* The tool says that a key is migrated, or was before, only if what was   *)
(* in its legacy files is in its store.                                    *)
MigratedIsStored ==
  answer # "none" =>
    \A f \in {"json", "corpus"} : files[f] # "none" => f \in db.holds

(* Whenever an import dies or fails, what is in the legacy files is in the *)
(* store already, or the next import will find it: no file is put aside    *)
(* before the store has its name, and half a store is never taken for one. *)
Importable ==
  \A f \in {"json", "corpus"} :
    files[f] # "none" =>
      \/ f \in db.holds
      \/ files[f] = "live" /\ files["json"] = "live" /\ ~HasPayload

(* A session whose number no other has keeps it.                           *)
NumbersStay ==
  [][\A i \in DOMAIN db.nums :
       (\A j \in DOMAIN db.nums : db.nums[j] = db.nums[i] <=> j = i) /\ db.nums[i] > 0
       => db'.nums[i] = db.nums[i]]_migrationVars

(* What is not opened yet can be.                                          *)
CanBeOpened == db.schema = "half" => job.at = "copy"
=============================================================================
