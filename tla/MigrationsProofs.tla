-------------------------- MODULE MigrationsProofs --------------------------
(***************************************************************************)
(* Theorems about Migrations, for any old stores, whatever dies or raises  *)
(* when; those about the import, as long as no process opens a key before  *)
(* its import.                                                             *)
(*                                                                         *)
(* MigrationInv is inductive then.  It says what the store that is being   *)
(* made holds before each step of an import (ImportInv), that the main     *)
(* file is put aside first, and only when the store holds everything       *)
(* (FilesInv), and that a process has in memory what it found in the       *)
(* store, so that no snapshot of it takes back what was imported           *)
(* (ServerInv).                                                            *)
(*                                                                         *)
(* NumsInv, which the type needs, is inductive whatever happens.  That the *)
(* numbers of a new store are a key rests on RenumberedIs: by induction on *)
(* the positions of the list, the numbers given so far are positive and    *)
(* distinct, and as there are fewer of them than numbers to choose from,   *)
(* the next position finds a free one.                                     *)
(***************************************************************************)
EXTENDS Migrations, InductionLemmas, FiniteSetTheorems, TLAPS

(* The steps of an import that make the store, and those behind them.      *)
Making == {"save", "embed", "verify", "install"}
Ending == {"rename", "end"}

(* What there is to import, whether it was put aside or not.               *)
Legacy == {f \in Names : files[f] # "none"}

IsStore(s) ==
  /\ s = [schema |-> s.schema, holds |-> s.holds, nums |-> s.nums]
  /\ s.schema \in {"none", "old", "half", "new"} /\ s.holds \subseteq Contents
  /\ s.schema = "none" => s.holds = {}

TypeInv ==
  /\ files \in [Names -> {"live", "kept", "none"}]
  /\ IsStore(db) /\ IsStore(tmp)
  /\ \/ job = Idle
     \/ job = [at |-> "copy"]
     \/ job \in [at : Making \cup Ending, read : SUBSET Names, into : {"tmp", "final"}]
  /\ server = Closed \/ server \subseteq Contents

(* What the tool reports of a key. *)
Stored == \A f \in {"json", "corpus"} : files[f] # "none" => f \in db.holds

FilesInv ==
  /\ files["json"] = "live" => Live = Legacy
  /\ Stored \/ (files["json"] = "live" /\ db.holds = {})
  /\ db.schema \in {"old", "half"} => Legacy = {}
  /\ answer # "none" => Stored

ImportInv ==
  /\ job.at = "copy" => server = Closed /\ db.schema = "half"
  /\ job.at \in Making \cup Ending =>
       server = Closed /\ answer = "none" /\ job.read = Legacy
  /\ job.at \in Making =>
       /\ files["json"] = "live"
       /\ IF job.into = "tmp" THEN db.schema = "none" /\ tmp.schema = "new"
                              ELSE db.schema = "new"
  /\ job.at = "save" => Target.holds = {}
  /\ job.at = "embed" => Target.holds = Legacy \ {"embs"}
  /\ job.at \in {"verify", "install"} => Target.holds = Legacy
  /\ job.at \in Ending => db.holds = Legacy

ServerInv ==
  server # Closed =>
    /\ files["json"] # "live" /\ db.schema = "new"
    /\ db.holds \cap {"json", "corpus"} \subseteq server

MigrationInv == TypeInv /\ FilesInv /\ ImportInv /\ ServerInv
-----------------------------------------------------------------------------
LEMMA NamesAre == Names = {"json", "embs", "corpus"}
  BY DEF Names, Files, ToSet

LEMMA RecordsAre ==
  /\ NoStore = [schema |-> "none", holds |-> {}, nums |-> <<>>] /\ NoStore.nums = <<>>
  /\ Empty = [schema |-> "new", holds |-> {}, nums |-> <<>>] /\ Empty.nums = <<>>
<1>1. Empty = [schema |-> "new", holds |-> {}, nums |-> <<>>]
  <2>. DEFINE store(nums) == [schema |-> "none", holds |-> {}, nums |-> nums]
  <2>1. \A nums : [store(nums) EXCEPT !.schema = "new"]
                   = [schema |-> "new", holds |-> {}, nums |-> nums]
    OBVIOUS
  <2>2. Empty = [store(<<>>) EXCEPT !.schema = "new"]
    BY DEF Empty, NoStore
  <2>. HIDE DEF store
  <2>. QED  BY <2>1, <2>2
<1>. QED  BY <1>1 DEF NoStore

LEMMA StoresAre ==
  /\ IsStore(NoStore) /\ NoStore.schema = "none" /\ NoStore.holds = {}
  /\ IsStore(Empty) /\ Empty.schema = "new" /\ Empty.holds = {}
  BY RecordsAre DEF IsStore

LEMMA MigrationInitially == MigrationInit => MigrationInv
<1>. SUFFICES ASSUME MigrationInit PROVE MigrationInv
  OBVIOUS
<1>1. job = Idle /\ server = Closed /\ answer = "none" /\ tmp = NoStore
  BY DEF MigrationInit
<1>2. CASE /\ files \in [Names -> {"live", "none"}] /\ files["json"] = "live"
           /\ db \in {NoStore, Empty}
  BY <1>1, <1>2, StoresAre, NamesAre
     DEF MigrationInv, TypeInv, FilesInv, ImportInv, ServerInv, Live, Legacy, Idle, Making, Ending
<1>3. CASE /\ files = [f \in Names |-> "none"]
           /\ \E list \in OldNums : db = [schema |-> "old", holds |-> {"own"}, nums |-> list]
  <2>1. IsStore(db) /\ db.schema = "old"
    BY <1>3 DEF IsStore, Contents
  <2>. QED  BY <1>1, <1>3, <2>1, StoresAre, NamesAre
            DEF MigrationInv, TypeInv, FilesInv, ImportInv, ServerInv, Live, Legacy, Idle, Making,
                Ending, Stored
<1>. QED  BY <1>1, <1>2, <1>3 DEF MigrationInit

(* A store of which only what it holds changes.                            *)
LEMMA HoldsChange ==
  ASSUME NEW store, IsStore(store), store.schema # "none", NEW S \in SUBSET Contents,
         NEW new, new = [store EXCEPT !.holds = S]
  PROVE  IsStore(new) /\ new.schema = store.schema /\ new.holds = S
<1>1. new = [schema |-> store.schema, holds |-> S, nums |-> store.nums]
  BY DEF IsStore
<1>. QED  BY <1>1 DEF IsStore

(* The next step of an import. *)
LEMMA JobGoes ==
  ASSUME MigrationInv, NEW at \in Making \cup {"rename"}, job.at = at, Goes
  PROVE  /\ job' \in [at : Making \cup Ending, read : SUBSET Names, into : {"tmp", "final"}]
         /\ job'.read = job.read /\ job'.into = job.into /\ job'.at = Order[at]
<1>1. job \in [at : Making \cup Ending, read : SUBSET Names, into : {"tmp", "final"}]
  BY DEF MigrationInv, TypeInv, Idle, Making
<1>2. Order[at] \in Making \cup Ending
  BY DEF Order, Making, Ending
<1>3. job' = [at |-> Order[at], read |-> job.read, into |-> job.into]
  BY <1>1 DEF Goes
<1>. QED  BY <1>1, <1>2, <1>3

(* What an import writes reaches the store that it makes, and only that.   *)
LEMMA IntoTarget ==
  ASSUME MigrationInv, job.at \in Making, NEW S \in SUBSET Contents, {"json", "corpus"} \cap Legacy \subseteq S,
         NEW store, store = [Target EXCEPT !.holds = S], Into(store), Goes,
         UNCHANGED <<files, server, answer>>
  PROVE  TypeInv' /\ FilesInv' /\ ServerInv' /\ Target'.holds = S
         /\ (job.into = "tmp" => db'.schema = "none" /\ tmp'.schema = "new")
         /\ (job.into # "tmp" => db'.schema = "new")
<1>1. /\ job' \in [at : Making \cup Ending, read : SUBSET Names, into : {"tmp", "final"}]
      /\ job'.into = job.into
  BY JobGoes DEF Making
<1>2. IsStore(Target) /\ Target.schema = "new" /\ server = Closed /\ server' = Closed
      /\ answer' = "none" /\ files["json"] = "live"
  BY DEF MigrationInv, TypeInv, ImportInv, Target
<1>3. IsStore(store) /\ store.schema = "new" /\ store.holds = S
  BY <1>2, HoldsChange
<1>4. CASE job.into = "tmp"
  <2>1. tmp' = store /\ db' = db /\ Target' = store
    BY <1>1, <1>4 DEF Into, Target
  <2>. QED
    BY <1>1, <1>2, <1>3, <1>4, <2>1
    DEF MigrationInv, TypeInv, FilesInv, ImportInv, ServerInv, Live, Legacy, Stored
<1>5. CASE job.into # "tmp"
  <2>1. db' = store /\ tmp' = tmp /\ Target' = store
    BY <1>1, <1>5 DEF Into, Target
  <2>2. Stored'
    BY <1>3, <2>1, NamesAre DEF Stored, Legacy
  <2>. QED
    BY <1>1, <1>2, <1>3, <1>5, <2>1, <2>2
    DEF MigrationInv, TypeInv, FilesInv, ImportInv, ServerInv, Live, Legacy
<1>. QED  BY <1>4, <1>5

LEMMA SaveFactsStep == MigrationInv /\ SaveFacts => MigrationInv'
<1>. SUFFICES ASSUME MigrationInv, SaveFacts PROVE MigrationInv'
  OBVIOUS
<1>. DEFINE S == Legacy \ {"embs"}
<1>1. /\ job.at = "save" /\ job.read = Legacy /\ Target.holds = {} /\ Legacy' = Legacy
      /\ server = Closed /\ answer = "none" /\ Goes /\ UNCHANGED <<files, server, answer>>
  BY DEF SaveFacts, MigrationInv, ImportInv, Making, Legacy
<1>2. S \in SUBSET Contents /\ {"json", "corpus"} \cap Legacy \subseteq S
  BY NamesAre DEF Legacy, Contents
<1>3. WithSnapshot(Target, job.read) = [Target EXCEPT !.holds = S]
  BY <1>1 DEF WithSnapshot
<1>4. /\ TypeInv' /\ FilesInv' /\ ServerInv' /\ Target'.holds = S
      /\ job.into = "tmp" => db'.schema = "none" /\ tmp'.schema = "new"
      /\ job.into # "tmp" => db'.schema = "new"
  <2>. HIDE DEF S
  <2>. QED  BY <1>1, <1>2, <1>3, IntoTarget DEF SaveFacts, Making
<1>5. job'.read = job.read /\ job'.into = job.into /\ job'.at = "embed"
  BY <1>1, JobGoes DEF Making, Order
<1>. QED
  BY <1>1, <1>4, <1>5 DEF MigrationInv, ImportInv, Making, Ending

LEMMA SaveEmbeddingsStep == MigrationInv /\ SaveEmbeddings => MigrationInv'
<1>. SUFFICES ASSUME MigrationInv, SaveEmbeddings PROVE MigrationInv'
  OBVIOUS
<1>1. /\ job.at = "embed" /\ job.read = Legacy /\ Target.holds = Legacy \ {"embs"}
      /\ Legacy' = Legacy /\ server = Closed /\ answer = "none" /\ Goes
      /\ UNCHANGED <<files, server, answer>>
  BY DEF SaveEmbeddings, MigrationInv, ImportInv, Making, Legacy
<1>2. Legacy \in SUBSET Contents
  BY NamesAre DEF Legacy, Contents
<1>3. [Target EXCEPT !.holds = @ \cup (job.read \cap {"embs"})] = [Target EXCEPT !.holds = Legacy]
  <2>1. Target.holds \cup (job.read \cap {"embs"}) = Legacy
    BY <1>1
  <2>. QED  BY <2>1
<1>4. /\ TypeInv' /\ FilesInv' /\ ServerInv' /\ Target'.holds = Legacy
      /\ job.into = "tmp" => db'.schema = "none" /\ tmp'.schema = "new"
      /\ job.into # "tmp" => db'.schema = "new"
  BY <1>1, <1>2, <1>3, IntoTarget DEF SaveEmbeddings, Making
<1>5. job'.read = job.read /\ job'.into = job.into /\ job'.at = "verify"
  BY <1>1, JobGoes DEF Making, Order
<1>. QED
  BY <1>1, <1>4, <1>5 DEF MigrationInv, ImportInv, Making, Ending

(* The steps of the tool that write no store.                              *)
LEMMA ToolStep ==
  ASSUME MigrationInv, Already \/ BeginImport \/ Verify \/ Raises \/ Reply
  PROVE  MigrationInv'
<1>1. CASE Already
  <2>1. UNCHANGED <<files, db, tmp, job, server>> /\ job = Idle /\ Stored
    BY <1>1 DEF Already, MigrationInv, FilesInv, HasPayload
  <2>. QED  BY <2>1 DEF MigrationInv, TypeInv, FilesInv, ImportInv, ServerInv, Live, Legacy, Stored,
                        Target, Idle, Making, Ending, IsStore
<1>2. CASE BeginImport
  <2>1. /\ job' = [at |-> "save", read |-> Live, into |-> IF db.schema = "none" THEN "tmp" ELSE "final"]
        /\ tmp' = (IF db.schema = "none" THEN Empty ELSE tmp) /\ files["json"] = "live"
        /\ db.holds = {} /\ answer' = "none" /\ UNCHANGED <<files, db, server>>
    BY <1>2 DEF BeginImport, HasPayload
  <2>2. Live = Legacy /\ Legacy # {} /\ Legacy' = Legacy /\ Live' = Live /\ server = Closed
    BY <2>1, NamesAre DEF MigrationInv, FilesInv, ServerInv, Legacy, Live
  <2>3. IsStore(tmp') /\ (db.schema = "none" => tmp'.schema = "new" /\ tmp'.holds = {})
    BY <2>1, StoresAre DEF MigrationInv, TypeInv
  <2>4. job' \in [at : Making \cup Ending, read : SUBSET Names, into : {"tmp", "final"}]
    BY <2>1 DEF Making, Live
  <2>5. TypeInv' /\ FilesInv' /\ ServerInv'
    BY <2>1, <2>2, <2>3, <2>4 DEF MigrationInv, TypeInv, FilesInv, ServerInv, Stored, IsStore
  <2>6. db.schema \in {"none", "new"}
    BY <2>2 DEF MigrationInv, FilesInv, TypeInv, IsStore
  <2>7. ImportInv'
    BY <2>1, <2>2, <2>3, <2>6 DEF ImportInv, Target, Making, Ending
  <2>. QED  BY <2>5, <2>7 DEF MigrationInv
<1>3. CASE Verify
  <2>1. /\ job.at = "verify" /\ Goes /\ UNCHANGED <<files, db, tmp, server, answer>>
        /\ Legacy' = Legacy /\ Live' = Live
    BY <1>3 DEF Verify, Legacy, Live
  <2>2. /\ job' \in [at : Making \cup Ending, read : SUBSET Names, into : {"tmp", "final"}]
        /\ job'.read = job.read /\ job'.into = job.into /\ job'.at = "install"
    BY <2>1, JobGoes DEF Making, Order
  <2>. QED  BY <2>1, <2>2 DEF MigrationInv, TypeInv, FilesInv, ImportInv, ServerInv, Stored, Target,
                              Making, Ending, IsStore
<1>4. CASE Raises
  <2>1. /\ job' = Idle /\ IsStore(tmp') /\ UNCHANGED <<files, db, server, answer>>
        /\ Legacy' = Legacy /\ Live' = Live
    BY <1>4, StoresAre DEF Raises, MigrationInv, TypeInv, Legacy, Live
  <2>. QED  BY <2>1 DEF MigrationInv, TypeInv, FilesInv, ImportInv, ServerInv, Stored, Idle,
                        Making, Ending, IsStore
<1>5. CASE Reply
  <2>1. /\ job' = Idle /\ job.at = "end" /\ UNCHANGED <<files, db, tmp, server>>
        /\ Legacy' = Legacy /\ Live' = Live
    BY <1>5 DEF Reply, Legacy, Live
  <2>2. Stored
    BY <2>1, NamesAre DEF MigrationInv, ImportInv, Ending, Stored, Legacy
  <2>. QED  BY <2>1, <2>2 DEF MigrationInv, TypeInv, FilesInv, ImportInv, ServerInv, Stored, Idle,
                              Making, Ending, IsStore
<1>. QED  BY <1>1, <1>2, <1>3, <1>4, <1>5

LEMMA InstallStep == MigrationInv /\ Install => MigrationInv'
<1>. SUFFICES ASSUME MigrationInv, Install PROVE MigrationInv'
  OBVIOUS
<1>1. /\ job.at = "install" /\ Goes /\ UNCHANGED <<files, server, answer>>
      /\ Legacy' = Legacy /\ Live' = Live
  BY DEF Install, Legacy, Live
<1>2. /\ job' \in [at : Making \cup Ending, read : SUBSET Names, into : {"tmp", "final"}]
      /\ job'.read = job.read /\ job'.into = job.into /\ job'.at = "rename"
  BY <1>1, JobGoes DEF Making, Order
<1>3. IsStore(db') /\ IsStore(tmp') /\ db'.schema = "new" /\ db'.holds = Legacy
  BY <1>1, StoresAre DEF Install, MigrationInv, TypeInv, ImportInv, Target, Making
<1>4. Stored' /\ server = Closed /\ answer = "none" /\ job.read = Legacy
  BY <1>1, <1>3, NamesAre DEF Stored, Legacy, MigrationInv, ImportInv, Making
<1>. QED  BY <1>1, <1>2, <1>3, <1>4 DEF MigrationInv, TypeInv, FilesInv, ImportInv, ServerInv,
                                        Making, Ending

(* The main file is the first that is put aside.                           *)
LEMMA RenameStep == MigrationInv /\ Rename => MigrationInv'
<1>. SUFFICES ASSUME MigrationInv, Rename PROVE MigrationInv'
  OBVIOUS
<1>1. /\ job.at = "rename" /\ UNCHANGED <<db, tmp, server, answer>>
      /\ server = Closed /\ answer = "none" /\ job.read = Legacy /\ db.holds = Legacy
  BY DEF Rename, MigrationInv, ImportInv, Ending
<1>2. CASE Goes /\ UNCHANGED files
  <2>1. /\ job' \in [at : Making \cup Ending, read : SUBSET Names, into : {"tmp", "final"}]
        /\ job'.read = job.read /\ job'.into = job.into /\ job'.at = "end"
    BY <1>1, <1>2, JobGoes DEF Order
  <2>2. Legacy' = Legacy /\ Live' = Live
    BY <1>2 DEF Legacy, Live
  <2>. QED  BY <1>1, <1>2, <2>1, <2>2 DEF MigrationInv, TypeInv, FilesInv, ImportInv, ServerInv,
                                          Stored, Making, Ending, IsStore
<1>3. ASSUME NEW f \in Names, files' = [files EXCEPT ![f] = "kept"], UNCHANGED job,
             files[f] = "live", files["json"] = "live" => f = "json"
      PROVE  MigrationInv'
  <2>1. /\ files' \in [Names -> {"live", "kept", "none"}] /\ Legacy' = Legacy
        /\ files'["json"] # "live"
    BY <1>3, NamesAre DEF MigrationInv, TypeInv, Legacy
  <2>2. Stored'
    BY <1>1, <2>1, NamesAre DEF Stored, Legacy
  <2>. QED  BY <1>1, <1>3, <2>1, <2>2 DEF MigrationInv, TypeInv, FilesInv, ImportInv, ServerInv,
                                          Making, Ending, IsStore
<1>. DEFINE I == {i \in 1..Len(Files) : files[Files[i]] = "live"}
            i == SelectInSeq(Files, LAMBDA f : files[f] = "live")
<1>4. i = IF I # {} THEN Min(I) ELSE 0
  BY DEF SelectInSeq
<1>5. /\ Len(Files) = 3 /\ Files[1] = "json" /\ \A k \in 1..3 : Files[k] \in Names
  BY NamesAre DEF Files
<1>6. CASE i # 0
  <2>1. I # {} /\ i \in I /\ \A k \in I : i <= k
    <3>1. I # {} /\ i = Min(I)
      BY <1>4, <1>6
    <3>2. \E k \in I : \A l \in I : k <= l
      <4>1. I \subseteq {1, 2, 3}
        BY <1>5
      <4>. HIDE DEF I
      <4>2. CASE 1 \in I
        BY <4>1, <4>2
      <4>3. CASE 1 \notin I /\ 2 \in I
        BY <4>1, <4>3
      <4>4. CASE 1 \notin I /\ 2 \notin I
        BY <3>1, <4>1, <4>4
      <4>. QED  BY <4>2, <4>3, <4>4
    <3>. HIDE DEF I, i
    <3>. QED  BY <3>1, <3>2 DEF Min
  <2>2. i \in 1..3 /\ files[Files[i]] = "live" /\ Files[i] \in Names
    BY <1>5, <2>1
  <2>3. files["json"] = "live" => Files[i] = "json"
    <3>1. files["json"] = "live" => 1 \in I
      BY <1>5
    <3>. HIDE DEF I, i
    <3>. QED  BY <1>5, <2>1, <2>2, <3>1
  <2>4. files' = [files EXCEPT ![Files[i]] = "kept"] /\ UNCHANGED job
    BY <1>6 DEF Rename
  <2>. HIDE DEF i
  <2>. QED  BY <1>3, <2>2, <2>3, <2>4
<1>7. CASE i = 0
  BY <1>2, <1>7 DEF Rename
<1>. QED  BY <1>6, <1>7

(* The processes, none of which opens the key before its import.           *)
LEMMA ServeStep ==
  ASSUME MigrationInv, "early" \notin Incidents, Serve
  PROVE  MigrationInv'
<1>1. CASE Open
  <2>1. /\ job = Idle /\ files["json"] # "live" /\ server' = db'.holds
        /\ db.schema \in {"none", "new"} /\ db' = (IF db.schema = "none" THEN Empty ELSE db)
        /\ UNCHANGED <<files, tmp, job, answer>>
    BY <1>1 DEF Open
  <2>2. /\ IsStore(db') /\ db'.schema = "new" /\ db'.holds = db.holds
        /\ Legacy' = Legacy /\ Live' = Live /\ db'.holds \subseteq Contents
    BY <2>1, StoresAre DEF MigrationInv, TypeInv, IsStore, Legacy, Live
  <2>3. TypeInv' /\ FilesInv'
    BY <2>1, <2>2 DEF MigrationInv, TypeInv, FilesInv, Stored, IsStore
  <2>. QED  BY <2>1, <2>2, <2>3 DEF MigrationInv, ImportInv, ServerInv, Idle, Making, Ending
<1>2. CASE NewTables
  <2>1. /\ job' = [at |-> "copy"] /\ server = Closed /\ db.schema = "old"
        /\ db' = [db EXCEPT !.schema = "half"] /\ UNCHANGED <<files, tmp, server, answer>>
        /\ Legacy' = Legacy /\ Live' = Live
    BY <1>2 DEF NewTables, Legacy, Live
  <2>2. db' = [schema |-> "half", holds |-> db.holds, nums |-> db.nums] /\ db.holds \subseteq Contents
    BY <2>1 DEF MigrationInv, TypeInv, IsStore
  <2>3. IsStore(db') /\ db'.schema = "half" /\ db'.holds = db.holds
    BY <2>2 DEF IsStore
  <2>4. TypeInv' /\ FilesInv'
    BY <2>1, <2>3 DEF MigrationInv, TypeInv, FilesInv, Stored, IsStore
  <2>. QED  BY <2>1, <2>3, <2>4 DEF MigrationInv, ImportInv, ServerInv, Making, Ending
<1>3. CASE Copy
  <2>1. /\ job' = Idle /\ server' = db.holds /\ db.schema = "half"
        /\ db' = [db EXCEPT !.schema = "new", !.nums = Renumbered(@)]
        /\ UNCHANGED <<files, tmp, answer>> /\ Legacy' = Legacy /\ Live' = Live /\ Legacy = {}
    BY <1>3 DEF Copy, MigrationInv, ImportInv, FilesInv, Legacy, Live
  <2>2. /\ db' = [schema |-> "new", holds |-> db.holds, nums |-> Renumbered(db.nums)]
        /\ db.holds \subseteq Contents
    BY <2>1 DEF MigrationInv, TypeInv, IsStore
  <2>3. IsStore(db') /\ db'.schema = "new" /\ db'.holds = db.holds
    BY <2>2 DEF IsStore
  <2>4. files["json"] # "live"
    BY <2>1, NamesAre DEF Legacy
  <2>5. TypeInv' /\ FilesInv'
    BY <2>1, <2>2, <2>3, <2>4 DEF MigrationInv, TypeInv, FilesInv, Stored, IsStore
  <2>. QED  BY <2>1, <2>3, <2>4, <2>5 DEF MigrationInv, ImportInv, ServerInv, Idle, Making, Ending
<1>4. ASSUME job = Idle, server # Closed, NEW S \in SUBSET Contents,
             db' = [db EXCEPT !.holds = S], db.holds \cap {"json", "corpus"} \subseteq S,
             server' \subseteq Contents, S \cap {"json", "corpus"} \subseteq server',
             UNCHANGED <<files, tmp, job, answer>>
      PROVE  MigrationInv'
  <2>1. /\ IsStore(db') /\ db'.schema = "new" /\ db'.holds = S /\ files["json"] # "live"
        /\ Legacy' = Legacy /\ Live' = Live
    BY <1>4, HoldsChange DEF MigrationInv, TypeInv, ServerInv, Legacy, Live
  <2>2. TypeInv' /\ FilesInv'
    BY <1>4, <2>1 DEF MigrationInv, TypeInv, FilesInv, Stored, IsStore
  <2>. QED  BY <1>4, <2>1, <2>2 DEF MigrationInv, ImportInv, ServerInv, Idle, Making, Ending
<1>5. CASE job = Idle /\ StoreOwn
  <2>1. /\ server # Closed /\ server \subseteq Contents /\ db.holds \subseteq Contents
        /\ db.holds \cap {"json", "corpus"} \subseteq server
    BY <1>5 DEF StoreOwn, MigrationInv, TypeInv, ServerInv, IsStore
  <2>. QED  BY <1>4, <1>5, <2>1 DEF StoreOwn, Contents
<1>6. CASE job = Idle /\ SaveSnapshot
  <2>. DEFINE S == (db.holds \cap {"embs"}) \cup (server \ {"embs"})
  <2>1. /\ server # Closed /\ server \subseteq Contents /\ db.holds \subseteq Contents
        /\ db.holds \cap {"json", "corpus"} \subseteq server
    BY <1>6 DEF SaveSnapshot, MigrationInv, TypeInv, ServerInv, IsStore
  <2>2. /\ S \in SUBSET Contents /\ db.holds \cap {"json", "corpus"} \subseteq S
        /\ S \cap {"json", "corpus"} \subseteq server
    BY <2>1
  <2>3. db' = [db EXCEPT !.holds = S] /\ UNCHANGED <<files, tmp, job, server, answer>>
    BY <1>6 DEF SaveSnapshot, WithSnapshot
  <2>. HIDE DEF S
  <2>. QED  BY <1>4, <1>6, <2>1, <2>2, <2>3
<1>7. CASE CopyRaises \/ Dies
  <2>1. /\ job' = Idle /\ UNCHANGED <<files, db, tmp, answer>> /\ (server' = Closed \/ server' = server)
        /\ Legacy' = Legacy /\ Live' = Live
    BY <1>7 DEF CopyRaises, Dies, Legacy, Live
  <2>2. TypeInv' /\ FilesInv'
    BY <2>1 DEF MigrationInv, TypeInv, FilesInv, Stored, IsStore
  <2>. QED  BY <2>1, <2>2 DEF MigrationInv, ImportInv, ServerInv, Idle, Making, Ending
<1>. QED  BY <1>1, <1>2, <1>3, <1>5, <1>6, <1>7 DEF Serve

LEMMA MigrationHolds ==
  ASSUME "early" \notin Incidents
  PROVE  MigrationSpec => []MigrationInv
<1>1. MigrationInv /\ [MigrationNext]_migrationVars => MigrationInv'
  <2>. SUFFICES ASSUME MigrationInv, [MigrationNext]_migrationVars PROVE MigrationInv'
    OBVIOUS
  <2>1. CASE Import
    BY <2>1, SaveFactsStep, SaveEmbeddingsStep, ToolStep, InstallStep, RenameStep DEF Import
  <2>2. CASE Serve
    BY <2>2, ServeStep
  <2>3. CASE UNCHANGED migrationVars
    BY <2>3 DEF migrationVars, MigrationInv, TypeInv, FilesInv, ImportInv, ServerInv, Live, Legacy,
                Stored, Target, IsStore
  <2>. QED  BY <2>1, <2>2, <2>3 DEF MigrationNext
<1>. QED  BY <1>1, MigrationInitially, PTL DEF MigrationSpec
-----------------------------------------------------------------------------
(* What the tool reports is so and stays so, through the snapshots of the  *)
(* processes that open the key afterwards.                                 *)
THEOREM ReportedIsStored ==
  ASSUME "early" \notin Incidents
  PROVE  MigrationSpec => []MigratedIsStored
<1>1. MigrationInv => MigratedIsStored
  BY DEF MigrationInv, FilesInv, Stored, MigratedIsStored
<1>. QED  BY <1>1, MigrationHolds, PTL

(* An import that died or failed anywhere has stored what there is, or the *)
(* next one finds all of it.                                               *)
THEOREM ImportedOrImportable ==
  ASSUME "early" \notin Incidents
  PROVE  MigrationSpec => []Importable
<1>1. MigrationInv => Importable
  BY NamesAre DEF MigrationInv, FilesInv, Stored, Importable, HasPayload, Live, Legacy
<1>. QED  BY <1>1, MigrationHolds, PTL
-----------------------------------------------------------------------------
(* Numbers that can be the key of a table. *)
Good(list) == list \in Seq(Nat) /\ IsInjective(list) /\ 0 \notin ToSet(list)

(* A list is longer than it has numbers, if anything.                      *)
LEMMA TakenAre ==
  ASSUME NEW s \in Seq(Nat)
  PROVE  IsFiniteSet(ToSet(s)) /\ Cardinality(ToSet(s)) \in Nat /\ Cardinality(ToSet(s)) <= Len(s)
<1>1. IsFiniteSet(1..Len(s)) /\ Cardinality(1..Len(s)) = Len(s)
  <2>1. ASSUME NEW n \in Nat PROVE IsFiniteSet(1..n) /\ Cardinality(1..n) = n
    BY FS_Interval
  <2>2. Len(s) \in Nat
    OBVIOUS
  <2>. QED  BY <2>1, <2>2
<1>2. [i \in 1..Len(s) |-> s[i]] \in Surjection(1..Len(s), ToSet(s))
  <2>. DEFINE f == [i \in 1..Len(s) |-> s[i]]
  <2>1. f \in [1..Len(s) -> ToSet(s)] /\ \A t \in ToSet(s) : \E i \in 1..Len(s) : f[i] = t
    BY DEF ToSet
  <2>. QED  BY <2>1 DEF Surjection
<1>3. IsFiniteSet(ToSet(s)) /\ Cardinality(ToSet(s)) <= Len(s)
  BY <1>1, <1>2, FS_Surjection
<1>. QED  BY <1>3, FS_CardinalityType

(* There is a free number, and the least of those is positive.             *)
LEMMA FreeIs ==
  ASSUME NEW N \in Nat, NEW i \in 1..N, NEW s \in Seq(Nat), Len(s) = i - 1
  PROVE  Min((i..2 * N) \ ToSet(s)) \in Nat \ ({0} \cup ToSet(s))
<1>. DEFINE free == (i..2 * N) \ ToSet(s)
<1>1. IsFiniteSet(ToSet(s)) /\ Cardinality(ToSet(s)) \in Nat /\ Cardinality(ToSet(s)) <= i - 1
  BY TakenAre
<1>2. free # {}
  <2>. SUFFICES ASSUME free = {} PROVE FALSE
    OBVIOUS
  <2>1. i..2 * N \subseteq ToSet(s)
    OBVIOUS
  <2>2. i \in Int /\ 2 * N \in Int /\ i <= 2 * N
    OBVIOUS
  <2>3. Cardinality(i..2 * N) = 2 * N - i + 1
    BY <2>2, FS_Interval
  <2>4. Cardinality(i..2 * N) <= Cardinality(ToSet(s))
    BY <1>1, <2>1, FS_Subset
  <2>. QED  BY <1>1, <2>3, <2>4
<1>3. free \in SUBSET Nat
  OBVIOUS
<1>4. Min(free) \in free
  <2>. HIDE DEF free
  <2>. QED  BY <1>2, <1>3, MinIs
<1>. QED  BY <1>4

LEMMA AppendGood ==
  ASSUME NEW s, Good(s), NEW n \in Nat \ ({0} \cup ToSet(s))
  PROVE  Good(Append(s, n)) /\ Len(Append(s, n)) = Len(s) + 1
<1>1. s \in Seq(Nat) /\ IsInjective(s) /\ 0 \notin ToSet(s)
  BY DEF Good
<1>2. /\ Append(s, n) \in Seq(Nat) /\ Len(Append(s, n)) = Len(s) + 1
      /\ \A i \in 1..Len(s) : Append(s, n)[i] = s[i] /\ s[i] \in ToSet(s)
      /\ Append(s, n)[Len(s) + 1] = n
  BY <1>1 DEF ToSet
<1>3. \A i, j \in 1..Len(s) : s[i] = s[j] => i = j
  BY <1>1 DEF IsInjective
<1>4. \A i \in 1..Len(s) + 1 : i \in 1..Len(s) \/ i = Len(s) + 1
  BY <1>1
<1>5. IsInjective(Append(s, n))
  <2>1. DOMAIN Append(s, n) = 1..Len(s) + 1
    BY <1>1, <1>2
  <2>. QED  BY <1>2, <1>3, <1>4, <2>1 DEF IsInjective
<1>6. 0 \notin ToSet(Append(s, n))
  <2>1. DOMAIN Append(s, n) = 1..Len(s) + 1
    BY <1>1, <1>2
  <2>. QED  BY <1>1, <1>2, <1>4, <2>1 DEF ToSet
<1>. QED  BY <1>2, <1>5, <1>6 DEF Good

(* The numbers that raw sessions get are a key of their table.             *)
LEMMA RenumberedIs ==
  ASSUME NEW list \in Seq(Nat)
  PROVE  Good(Renumbered(list))
<1>. DEFINE N == Len(list)
            V == {s \in Seq(Nat) : Good(s)}
            Next(i, s) ==
              Append(s, IF list[i] > 0 /\ list[i] \notin ToSet(s) THEN list[i]
                        ELSE Min((i..2 * N) \ ToSet(s)))
            step == [i \in 1..N |-> [s \in V |-> IF Len(s) = i - 1 THEN Next(i, s) ELSE s]]
            Def(d) == [i \in 0..N |-> IF i = 0 THEN <<>> ELSE Next(i, d[i - 1])]
            done == CHOOSE d : d = Def(d)
            Fine(d, i) == d[i] \in V /\ Len(d[i]) = i
<1>1. N \in Nat /\ <<>> \in V
  BY DEF Good, IsInjective, ToSet
<1>2. ASSUME NEW i \in 1..N, NEW s \in V, Len(s) = i - 1
      PROVE  Next(i, s) \in V /\ Len(Next(i, s)) = i
  <2>. DEFINE n == IF list[i] > 0 /\ list[i] \notin ToSet(s) THEN list[i]
                   ELSE Min((i..2 * N) \ ToSet(s))
  <2>1. n \in Nat \ ({0} \cup ToSet(s))
    <3>1. Min((i..2 * N) \ ToSet(s)) \in Nat \ ({0} \cup ToSet(s))
      <4>. HIDE DEF N
      <4>. QED  BY <1>1, <1>2, FreeIs
    <3>2. list[i] \in Nat
      OBVIOUS
    <3>. QED  BY <3>1, <3>2
  <2>2. Next(i, s) = Append(s, n) /\ Good(s)
    OBVIOUS
  <2>3. Good(Append(s, n)) /\ Len(Append(s, n)) = Len(s) + 1
    <3>. HIDE DEF n
    <3>. QED  BY <2>1, <2>2, AppendGood
  <2>4. Len(s) + 1 = i
    BY <1>2
  <2>. HIDE DEF n, Next
  <2>. QED  BY <2>2, <2>3, <2>4 DEF Good
<1>3. ASSUME NEW d, d[0] = <<>>,
             \A i \in 1..N : Fine(d, i - 1) => d[i] = Next(i, d[i - 1])
      PROVE  \A i \in 0..N : Fine(d, i)
  <2>. DEFINE S == {i \in 0..N : Fine(d, i)}
  <2>1. 0 \in S
    <3>. HIDE DEF V, N
    <3>. QED  BY <1>1, <1>3
  <2>2. ASSUME NEW i \in 0..N, i \in S, i < N PROVE i + 1 \in S
    <3>1. i + 1 \in 1..N /\ (i + 1) - 1 = i
      BY <1>1, <2>2
    <3>. HIDE DEF Next, V, N
    <3>2. d[i + 1] = Next(i + 1, d[i]) /\ d[i] \in V /\ Len(d[i]) = (i + 1) - 1
      BY <1>3, <2>2, <3>1
    <3>3. Next(i + 1, d[i]) \in V /\ Len(Next(i + 1, d[i])) = i + 1
      BY <1>2, <3>1, <3>2
    <3>. QED  BY <3>1, <3>2, <3>3
  <2>3. 0..N \subseteq S
    <3>. HIDE DEF S, N
    <3>. QED  BY <1>1, <2>1, <2>2, SetInductionTo
  <2>. QED  BY <2>3
<1>4. \E d : d = Def(d)
  <2>1. step \in [1..N -> [V -> V]]
    <3>. HIDE DEF Next, N, V
    <3>. QED  BY <1>2
  <2>2. PICK d : Recursive(d, N, V, <<>>, step)
    <3>. HIDE DEF step, N, V
    <3>. QED  BY <1>1, <2>1, Recursion
  <2>3. d \in [0..N -> V] /\ d[0] = <<>>
    <3>. HIDE DEF step, N, V
    <3>. QED  BY <2>2 DEF Recursive
  <2>4. \A i \in 1..N : /\ i - 1 \in 0..N
                        /\ d[i] = IF Len(d[i - 1]) = i - 1 THEN Next(i, d[i - 1]) ELSE d[i - 1]
    <3>1. \A i \in 1..N : d[i] = step[i][d[i - 1]]
      <4>. HIDE DEF step, V
      <4>. QED  BY <2>2 DEF Recursive
    <3>2. \A i \in 1..N : i - 1 \in 0..N /\ d[i - 1] \in V
      <4>. HIDE DEF V
      <4>. QED  BY <1>1, <2>3
    <3>. HIDE DEF Next, V, N
    <3>. QED  BY <3>1, <3>2
  <2>5. \A i \in 0..N : Fine(d, i)
    <3>1. \A i \in 1..N : Fine(d, i - 1) => d[i] = Next(i, d[i - 1])
      <4>. HIDE DEF Next, V, N
      <4>. QED  BY <2>4
    <3>. HIDE DEF Next, V, N, Fine
    <3>. QED  BY <1>3, <2>3, <3>1
  <2>6. \A i \in 1..N : d[i] = Next(i, d[i - 1])
    <3>. HIDE DEF Next, V, N
    <3>. QED  BY <2>4, <2>5
  <2>7. d = Def(d)
    <3>. HIDE DEF Next, V
    <3>. QED  BY <1>1, <2>3, <2>6
  <2>. QED  BY <2>7
<1>5. done = Def(done)
  <2>. HIDE DEF Def
  <2>. QED  BY <1>4
<1>6. Renumbered(list) = done[N]
  BY DEF Renumbered
<1>. HIDE DEF done
<1>7. done[0] = <<>> /\ \A i \in 1..N : done[i] = Next(i, done[i - 1])
  <2>1. 0 \in 0..N /\ \A i \in 1..N : i \in 0..N /\ i # 0
    BY <1>1
  <2>. HIDE DEF Next, V, N
  <2>. QED  BY <1>5, <2>1
<1>8. \A i \in 0..N : Fine(done, i)
  <2>. HIDE DEF Next, V, N, Fine
  <2>. QED  BY <1>3, <1>7
<1>9. N \in 0..N
  BY <1>1
<1>. HIDE DEF N, Next
<1>. QED  BY <1>6, <1>8, <1>9

(* What a store is at any time: inductive whatever happens, an early       *)
(* opening included, for an import writes no numbers.                      *)
Jobs == [at : Making \cup Ending, read : SUBSET Names, into : {"tmp", "final"}]

NumsInv ==
  /\ files \in [Names -> {"live", "kept", "none"}]
  /\ db \in Stores({"none", "old", "half", "new"})
  /\ db.schema = "new" => Good(db.nums)
  /\ tmp \in Stores({"none", "new"}) /\ tmp.nums = <<>>
  /\ job \in {Idle, [at |-> "copy"]} \cup Jobs
  /\ server = Closed \/ server \subseteq Contents
  /\ answer \in {"none", "migrated", "already"}

LEMMA NoneGood == Good(<<>>)
  BY DEF Good, IsInjective, ToSet

LEMMA NumsInitially == MigrationInit => NumsInv
<1>. SUFFICES ASSUME MigrationInit PROVE NumsInv
  OBVIOUS
<1>1. /\ job = Idle /\ server = Closed /\ answer = "none"
      /\ tmp \in Stores({"none", "new"}) /\ tmp.nums = <<>>
  BY RecordsAre DEF MigrationInit, Stores
<1>2. /\ files \in [Names -> {"live", "kept", "none"}]
      /\ db \in Stores({"none", "old", "new"}) /\ (db.schema \in {"none", "new"} => db.nums = <<>>)
  <2>1. CASE /\ files \in [Names -> {"live", "none"}] /\ files["json"] = "live"
             /\ db \in {NoStore, Empty}
    <3>1. files \in [Names -> {"live", "kept", "none"}]
      BY <2>1
    <3>2. NoStore \in Stores({"none", "old", "new"}) /\ NoStore.nums = <<>>
      BY RecordsAre DEF Stores
    <3>3. Empty \in Stores({"none", "old", "new"}) /\ Empty.nums = <<>>
      BY RecordsAre DEF Stores
    <3>. QED  BY <2>1, <3>1, <3>2, <3>3
  <2>2. CASE /\ files = [f \in Names |-> "none"]
             /\ \E list \in OldNums : db = [schema |-> "old", holds |-> {"own"}, nums |-> list]
    BY <2>2, MigrationAssumption DEF Stores, Contents
  <2>. QED  BY <2>1, <2>2 DEF MigrationInit
<1>. QED  BY <1>1, <1>2, NoneGood DEF NumsInv, Stores, Idle, Making

(* Only what a store holds changes. *)
LEMMA HoldsOnly ==
  ASSUME NEW schemas, NEW store \in Stores(schemas), NEW S \in SUBSET Contents
  PROVE  /\ [store EXCEPT !.holds = S] \in Stores(schemas)
         /\ [store EXCEPT !.holds = S].schema = store.schema
         /\ [store EXCEPT !.holds = S].nums = store.nums
  BY DEF Stores

LEMMA JobMoves ==
  ASSUME NumsInv, NEW at \in Making \cup {"rename"}, job.at = at
  PROVE  job \in Jobs /\ (Goes => job' \in Jobs /\ job'.into = job.into)
<1>1. job \in Jobs
  BY DEF NumsInv, Idle, Making
<1>2. Order[at] \in Making \cup Ending
  BY DEF Order, Making, Ending
<1>3. Goes => job' = [at |-> Order[at], read |-> job.read, into |-> job.into]
  BY <1>1 DEF Goes, Jobs
<1>. QED  BY <1>1, <1>2, <1>3 DEF Jobs

LEMMA IntoKeeps ==
  ASSUME NumsInv, job.at \in Making, Goes, UNCHANGED <<files, server, answer>>,
         NEW S \in SUBSET Contents, Into([Target EXCEPT !.holds = S])
  PROVE  NumsInv'
<1>1. job \in Jobs /\ job' \in Jobs
  BY JobMoves DEF Jobs, Making
<1>2. CASE job.into = "tmp"
  <2>1. db' = db /\ tmp' = [tmp EXCEPT !.holds = S]
    BY <1>2 DEF Into, Target
  <2>2. tmp' \in Stores({"none", "new"}) /\ tmp'.nums = <<>>
    BY <2>1, HoldsOnly DEF NumsInv
  <2>. QED  BY <1>1, <1>2, <2>1, <2>2 DEF NumsInv
<1>3. CASE job.into # "tmp"
  <2>1. tmp' = tmp /\ db' = [db EXCEPT !.holds = S]
    BY <1>3 DEF Into, Target
  <2>2. /\ db' \in Stores({"none", "old", "half", "new"}) /\ db'.schema = db.schema
        /\ db'.nums = db.nums
    BY <2>1, HoldsOnly DEF NumsInv
  <2>. QED  BY <1>1, <1>3, <2>1, <2>2 DEF NumsInv
<1>. QED  BY <1>2, <1>3

LEMMA TargetIs == NumsInv => Target.holds \subseteq Contents
  BY DEF NumsInv, Target, Stores

LEMMA ImportNums == NumsInv /\ Import => NumsInv'
<1>. SUFFICES ASSUME NumsInv, Import PROVE NumsInv'
  OBVIOUS
<1>1. CASE Already
  BY <1>1 DEF Already, NumsInv
<1>2. CASE BeginImport
  <2>1. job' \in Jobs
    BY <1>2 DEF BeginImport, Making, Live, Jobs
  <2>2. tmp' \in Stores({"none", "new"}) /\ tmp'.nums = <<>>
    BY <1>2, RecordsAre DEF BeginImport, NumsInv, Stores
  <2>. QED  BY <1>2, <2>1, <2>2 DEF BeginImport, NumsInv
<1>3. CASE SaveFacts
  <2>. DEFINE S == (Target.holds \cap {"embs"}) \cup (job.read \ {"embs"})
  <2>1. job.at = "save" /\ Goes /\ UNCHANGED <<files, server, answer>>
    BY <1>3 DEF SaveFacts
  <2>2. job \in Jobs
    BY <2>1, JobMoves DEF Making
  <2>3. S \in SUBSET Contents
    BY <2>2, TargetIs DEF Jobs, Contents
  <2>4. Into([Target EXCEPT !.holds = S])
    BY <1>3 DEF SaveFacts, WithSnapshot
  <2>. HIDE DEF S
  <2>. QED  BY <2>1, <2>3, <2>4, IntoKeeps DEF Making
<1>4. CASE SaveEmbeddings
  <2>. DEFINE S == Target.holds \cup (job.read \cap {"embs"})
  <2>1. job.at = "embed" /\ Goes /\ UNCHANGED <<files, server, answer>>
    BY <1>4 DEF SaveEmbeddings
  <2>2. job \in Jobs
    BY <2>1, JobMoves DEF Making
  <2>3. S \in SUBSET Contents
    BY <2>2, TargetIs DEF Jobs, Contents
  <2>4. Into([Target EXCEPT !.holds = S])
    BY <1>4 DEF SaveEmbeddings
  <2>. HIDE DEF S
  <2>. QED  BY <2>1, <2>3, <2>4, IntoKeeps DEF Making
<1>5. CASE Verify
  <2>1. job' \in Jobs
    BY <1>5, JobMoves DEF Verify, Making
  <2>. QED  BY <1>5, <2>1 DEF Verify, NumsInv
<1>6. CASE Install
  <2>1. job' \in Jobs
    BY <1>6, JobMoves DEF Install, Making
  <2>2. /\ db' \in Stores({"none", "old", "half", "new"}) /\ (db'.schema = "new" => Good(db'.nums))
        /\ tmp' \in Stores({"none", "new"}) /\ tmp'.nums = <<>>
    BY <1>6, RecordsAre, NoneGood DEF Install, NumsInv, Stores
  <2>. QED  BY <1>6, <2>1, <2>2 DEF Install, NumsInv
<1>7. CASE Rename
  <2>1. job' \in {Idle, [at |-> "copy"]} \cup Jobs
    BY <1>7, JobMoves DEF Rename, NumsInv
  <2>2. files' \in [Names -> {"live", "kept", "none"}]
    BY <1>7 DEF Rename, NumsInv
  <2>. QED  BY <1>7, <2>1, <2>2 DEF Rename, NumsInv
<1>8. CASE Reply \/ Raises
  <2>1. tmp' \in Stores({"none", "new"}) /\ tmp'.nums = <<>>
    BY <1>8, RecordsAre DEF Reply, Raises, NumsInv, Stores
  <2>. QED  BY <1>8, <2>1 DEF Reply, Raises, NumsInv
<1>. QED  BY <1>1, <1>2, <1>3, <1>4, <1>5, <1>6, <1>7, <1>8 DEF Import

LEMMA ServeNums == NumsInv /\ Serve => NumsInv'
<1>. SUFFICES ASSUME NumsInv, Serve PROVE NumsInv'
  OBVIOUS
<1>1. CASE Open
  <2>1. /\ db' \in Stores({"none", "old", "half", "new"}) /\ (db'.schema = "new" => Good(db'.nums))
        /\ server' \subseteq Contents
    BY <1>1, RecordsAre, NoneGood DEF Open, NumsInv, Stores
  <2>. QED  BY <1>1, <2>1 DEF Open, NumsInv
<1>2. CASE NewTables
  <2>1. db' \in Stores({"none", "old", "half", "new"}) /\ db'.schema = "half"
    BY <1>2 DEF NewTables, NumsInv, Stores
  <2>. QED  BY <1>2, <2>1 DEF NewTables, NumsInv
<1>3. CASE Copy
  <2>1. db' = [schema |-> "new", holds |-> db.holds, nums |-> Renumbered(db.nums)]
    BY <1>3 DEF Copy, NumsInv, Stores
  <2>2. db.nums \in Seq(Nat) /\ db.holds \subseteq Contents
    BY DEF NumsInv, Stores
  <2>3. Good(Renumbered(db.nums)) /\ Renumbered(db.nums) \in Seq(Nat)
    BY <2>2, RenumberedIs DEF Good
  <2>4. /\ db' \in Stores({"none", "old", "half", "new"}) /\ Good(db'.nums)
    BY <2>1, <2>2, <2>3 DEF Stores
  <2>. QED  BY <1>3, <2>2, <2>4 DEF Copy, NumsInv
<1>4. CASE StoreOwn \/ SaveSnapshot
  <2>1. PICK S \in SUBSET Contents : db' = [db EXCEPT !.holds = S]
    <3>1. server \subseteq Contents /\ db.holds \subseteq Contents
      BY <1>4 DEF StoreOwn, SaveSnapshot, NumsInv, Stores
    <3>2. CASE StoreOwn
      <4>1. db.holds \cup {"own"} \in SUBSET Contents
        BY <3>1 DEF Contents
      <4>. QED  BY <3>2, <4>1 DEF StoreOwn
    <3>3. CASE SaveSnapshot
      <4>1. (db.holds \cap {"embs"}) \cup (server \ {"embs"}) \in SUBSET Contents
        BY <3>1
      <4>. QED  BY <3>3, <4>1 DEF SaveSnapshot, WithSnapshot
    <3>. QED  BY <1>4, <3>2, <3>3
  <2>2. /\ db' \in Stores({"none", "old", "half", "new"}) /\ db'.schema = db.schema
        /\ db'.nums = db.nums
    BY <2>1, HoldsOnly DEF NumsInv
  <2>3. server' = Closed \/ server' \subseteq Contents
    BY <1>4 DEF StoreOwn, SaveSnapshot, NumsInv, Contents
  <2>. QED  BY <1>4, <2>2, <2>3 DEF StoreOwn, SaveSnapshot, NumsInv
<1>5. CASE CopyRaises \/ Dies
  BY <1>5 DEF CopyRaises, Dies, NumsInv
<1>. QED  BY <1>1, <1>2, <1>3, <1>4, <1>5 DEF Serve

LEMMA NumsHold == MigrationSpec => []NumsInv
<1>1. NumsInv /\ [MigrationNext]_migrationVars => NumsInv'
  <2>1. NumsInv /\ UNCHANGED migrationVars => NumsInv'
    BY DEF migrationVars, NumsInv
  <2>. QED  BY <2>1, ImportNums, ServeNums DEF MigrationNext
<1>. QED  BY <1>1, NumsInitially, PTL DEF MigrationSpec

(* Every variable has its type, and the session numbers of a store of      *)
(* today are positive and distinct, whatever numbers the first schema had  *)
(* and whatever happens.                                                   *)
THEOREM MigrationTypeCorrect == MigrationSpec => []MigrationTypeOK
<1>1. NumsInv => MigrationTypeOK
  <2>. SUFFICES ASSUME NumsInv PROVE MigrationTypeOK
    OBVIOUS
  <2>1. job.at \in {"idle", "copy", "end"} \cup DOMAIN Order
    BY DEF NumsInv, Idle, Jobs, Making, Ending, Order
  <2>. QED  BY <2>1 DEF NumsInv, Good, MigrationTypeOK
<1>. QED  BY <1>1, NumsHold, PTL
=============================================================================
