------------------------ MODULE DocumentIngestProofs ------------------------
(***************************************************************************)
(* What DocumentIngest promises, for any sources, parts, runs and bound of *)
(* episodes, and the inductive invariants it rests on, each on those       *)
(* before it:                                                              *)
(*                                                                         *)
(*   TablesInv    the types, and that the numbers in use have a bound;     *)
(*   MessageInv   which messages are known to be worked on;                *)
(*   CorpusInv    that the corpus, the facts, the texts and the versions   *)
(*                say the same of every part, in the process and on disk;  *)
(*   SessionsInv  that no two sessions have or will have one number;       *)
(*   StoredInv    that what a failed run goes back to has been stored.     *)
(*                                                                         *)
(* CorpusInv fails where a run that rolls the whole document back is in    *)
(* flight with another part of it, SessionsInv where two sources are in    *)
(* flight together, as the number of a session is not reserved across      *)
(* sources: hence PartsApart and SameSource.                               *)
(***************************************************************************)
EXTENDS DocumentIngest, WellFoundedInduction, TLAPS

(* NoRun stands for the absence of a run. *)
Assumptions == MaxEpisodes \in Nat /\ NoRun \notin Runs

(* The runs that may be in flight together are for different parts, and    *)
(* then none of them rolls the document back.                              *)
PartsApart == Overlap = "none" \/ (Overlap = "parts" /\ "extract" \notin Faults)

-----------------------------------------------------------------------------
Versions == [Parts -> Runs \cup {NoRun}]

Queued == [phase : {"queued"}, source : Sources, part : Parts, msg : Runs]
Begun == [phase : {"canon", "over"}, source : Sources, part : Parts, msg : Runs,
          old : Runs \cup {NoRun}]
Ingesting == [phase : {"extract", "aggregate", "over"}, source : Sources, part : Parts,
              msg : Runs, old : Runs \cup {NoRun}, episodes : SUBSET Episodes,
              saved : [doc : SUBSET Episodes, text : Versions]]

AnyRun == {Fresh} \cup Queued \cup Begun \cup Ingesting

Rows == [num : Nat, of : Runs, status : {"active", "superseded", "canonicalization_failed"}]
FactsOf == [source : Sources, index : Nat, num : Nat, of : Runs, status : {"active", "superseded"}]

TypeInv ==
  /\ run \in [Runs -> AnyRun]
  /\ doc \in [Sources -> SUBSET Episodes]
  /\ text \in [Sources -> Versions]
  /\ sessions \subseteq Rows
  /\ facts \subseteq FactsOf
  /\ current \in [Sources -> Versions]
  /\ tables \in [doc : [Sources -> SUBSET Episodes], text : [Sources -> Versions],
               sessions : SUBSET Rows, facts : SUBSET FactsOf]
  /\ log \in [Runs -> {"none", "pending", "complete"}]
  /\ active \subseteq Runs
  /\ worker \in {NoRun} \cup {r \in Runs : InFlight(r)}

(* A message belongs to the run that brought it, and while a run ingests   *)
(* it, it is known to.                                                     *)
MessageInv ==
  /\ \A m \in Runs : log[m] = "pending" => run[m] # Fresh
  /\ \A r \in Runs : run[r] # Fresh => run[run[r].msg] # Fresh
  /\ \A r \in Runs : InFlight(r) => run[r].msg \in active
  /\ OneRunPerMessage

Past(r) == run[r].phase \in {"extract", "aggregate"}

(* Numbers have a bound, so that they have a greatest one.                 *)
Within(b, episodes) == \A e \in episodes : e.index <= b /\ e.num <= b

BoundedBy(b) ==
  /\ \A s \in Sources : Within(b, doc[s]) /\ Within(b, tables.doc[s])
  /\ \A row \in sessions \cup tables.sessions : row.num <= b
  /\ Within(b, facts) /\ Within(b, tables.facts)
  /\ \A r \in Runs : Past(r) => Within(b, run[r].episodes) /\ Within(b, run[r].saved.doc)

TablesInv == TypeInv /\ \E b \in Nat : BoundedBy(b)

(* Runs in flight together are for different parts. *)
Apart ==
  \A r, q \in Runs : InFlight(r) /\ InFlight(q) /\ r # q =>
    Overlap = "parts" /\ <<run[r].source, run[r].part>> # <<run[q].source, run[q].part>>

(* What the corpus of a source is good for: its episodes have ids and      *)
(* numbers of their own, no fact of another run has an id of theirs, an id *)
(* behind the last one was never used, and every current version has       *)
(* episodes there.                                                         *)
Good(s, episodes) ==
  /\ \A e, f \in episodes : e.index = f.index \/ e.num = f.num => e = f
  /\ \A f \in facts : f.source = s =>
       /\ \A e \in episodes : e.index = f.index => e.of = f.of
       /\ \E e \in episodes : f.index <= e.index
  /\ \A p \in Parts : current[s][p] # NoRun => \E e \in episodes : e.part = p

ActiveOf(s, p) == {f.of : f \in {x \in facts : x.status = "active" /\ x.source = s /\ run[x.of].part = p}}

OldIsCurrent ==
  \A r \in Runs : InFlight(r) => run[r].old = current[run[r].source][run[r].part]

(* The episodes a run has reserved are those of its part. *)
ReservedInCorpus ==
  \A r \in Runs : Past(r) =>
    /\ {e \in doc[run[r].source] : e.part = run[r].part} = run[r].episodes
    /\ run[r].episodes # {}
    /\ \A e \in run[r].episodes : e.of = r

(* What a failing run goes back to. *)
SavedGood ==
  \A r \in Runs : Past(r) /\ Overlap = "none" =>
    /\ Good(run[r].source, run[r].saved.doc)
    /\ run[r].saved.text = text[run[r].source]

CorpusGood == \A s \in Sources : Good(s, doc[s]) /\ Good(s, tables.doc[s])

FactsStored == facts = tables.facts /\ text = tables.text

FactsOwned ==
  /\ \A f, g \in facts : f.source = g.source /\ f.index = g.index => f = g
  /\ \A f \in facts : run[f.of].phase = "over" /\ run[f.of].source = f.source

CurrentIsActive ==
  \A s \in Sources, p \in Parts :
    /\ ActiveOf(s, p) = {current[s][p]} \ {NoRun}
    /\ current[s][p] # NoRun => text[s][p] # NoRun

CorpusInv ==
  /\ Apart
  /\ OldIsCurrent
  /\ ReservedInCorpus
  /\ SavedGood
  /\ CorpusGood
  /\ FactsStored
  /\ FactsOwned
  /\ CurrentIsActive

(* The runs that may be in flight together are for one source. *)
SameSource == Overlap = "none" \/ \E s \in Sources : Sources = {s}

(* Sessions are stored, and have numbers of their own, which no run has    *)
(* reserved.                                                               *)
SessionsInv ==
  /\ sessions = tables.sessions
  /\ \A x, y \in sessions : x.num = y.num => x = y
  /\ \A r \in Runs : Past(r) =>
       \A e \in run[r].episodes, row \in sessions : e.num # row.num

(* The session of an episode is stored. *)
StoredRow(e) == \E row \in sessions : row.num = e.num /\ row.of = e.of

(* A run in flight has reserved it. *)
Reserved(s, e) == Past(e.of) /\ run[e.of].source = s /\ e \in run[e.of].episodes

(* What is on disk, or gone back to, has its sessions stored.              *)
StoredInv ==
  /\ \A s \in Sources : \A e \in tables.doc[s] : StoredRow(e)
  /\ \A r \in Runs : Past(r) => \A e \in run[r].saved.doc : StoredRow(e)
  /\ \A s \in Sources : \A e \in doc[s] : Reserved(s, e) \/ StoredRow(e)
-----------------------------------------------------------------------------
(* The least of a set of numbers, and the greatest of one with a bound.    *)
LEMMA LeastOf ==
  ASSUME NEW T, T \subseteq Nat, T # {}
  PROVE  \E m \in T : \A x \in T : m <= x
<1>. DEFINE R == OpToRel(<, Nat)
<1>1. IsWellFoundedOn(R, Nat)
  BY NatLessThanWellFounded
<1>2. \A x, y \in Nat : x < y => <<x, y>> \in R
  BY DEF OpToRel
<1>. HIDE DEF R
<1>3. PICK m \in T : \A x \in T : ~(<<x, m>> \in R)
  BY <1>1, WFMin
<1>4. \A x \in T : ~(x < m)
  BY <1>2, <1>3
<1>. QED  BY <1>3, <1>4

LEMMA MaxIs ==
  ASSUME NEW T, T \subseteq Nat, T # {}, NEW b \in Nat, \A x \in T : x <= b
  PROVE  Max(T) \in T /\ \A x \in T : x <= Max(T)
<1>. DEFINE gaps == {b - x : x \in T}
<1>1. gaps \subseteq Nat
  <2>1. \A x \in T : b - x \in Nat
    OBVIOUS
  <2>. QED  BY <2>1
<1>2. gaps # {}
  OBVIOUS
<1>3. PICK g \in gaps : \A y \in gaps : g <= y
  <2>. HIDE DEF gaps
  <2>. QED  BY <1>1, <1>2, LeastOf
<1>4. PICK m \in T : g = b - m
  BY <1>3
<1>5. \A x \in T : m >= x
  <2>. SUFFICES ASSUME NEW x \in T PROVE m >= x
    OBVIOUS
  <2>1. g <= b - x
    BY <1>3
  <2>2. x \in Nat /\ m \in Nat
    OBVIOUS
  <2>. HIDE DEF gaps
  <2>. QED  BY <1>4, <2>1, <2>2
<1>6. \E y \in T : \A x \in T : y >= x
  BY <1>5
<1>. QED  BY <1>6 DEF Max

(* What a source is given next is behind all that it has. *)
LEMMA NextIs ==
  ASSUME TypeInv, NEW b \in Nat, BoundedBy(b), NEW s \in Sources
  PROVE  /\ NextIndex(s) \in 1..(b + 1) /\ NextNum(s) \in 1..(b + 1)
         /\ \A e \in doc[s] : e.index < NextIndex(s) /\ e.num < NextNum(s)
         /\ \A row \in sessions : row.num < NextNum(s)
<1>. DEFINE I == {0} \cup {e.index : e \in doc[s]}
            N == {0} \cup {row.num : row \in sessions} \cup {e.num : e \in doc[s]}
                     \cup {f.num : f \in facts}
<1>1. \A e \in doc[s] : e.index \in Nat /\ e.num \in Nat /\ e.index <= b /\ e.num <= b
  BY DEF TypeInv, BoundedBy, Within, Episodes
<1>2. \A row \in sessions : row.num \in Nat /\ row.num <= b
  BY DEF TypeInv, BoundedBy, Rows
<1>3. \A f \in facts : f.num \in Nat /\ f.num <= b
  BY DEF TypeInv, BoundedBy, Within, FactsOf
<1>4. I \subseteq Nat /\ I # {} /\ \A x \in I : x <= b
  BY <1>1
<1>5. N \subseteq Nat /\ N # {} /\ \A x \in N : x <= b
  BY <1>1, <1>2, <1>3
<1>6. /\ \A e \in doc[s] : e.index \in I /\ e.num \in N
      /\ \A row \in sessions : row.num \in N
  OBVIOUS
<1>7. NextIndex(s) = 1 + Max(I) /\ NextNum(s) = 1 + Max(N)
  BY DEF NextIndex, NextNum
<1>. HIDE DEF I, N
<1>8. Max(I) \in I /\ \A x \in I : x <= Max(I)
  BY <1>4, MaxIs
<1>9. Max(N) \in N /\ \A x \in N : x <= Max(N)
  BY <1>5, MaxIs
<1>10. Max(I) \in 0..b /\ Max(N) \in 0..b
  <2>1. Max(I) \in Nat /\ Max(I) <= b
    BY <1>4, <1>8
  <2>2. Max(N) \in Nat /\ Max(N) <= b
    BY <1>5, <1>9
  <2>. QED  BY <2>1, <2>2
<1>11. NextIndex(s) \in 1..(b + 1) /\ NextNum(s) \in 1..(b + 1)
  BY <1>7, <1>10
<1>12. \A e \in doc[s] : e.index < NextIndex(s) /\ e.num < NextNum(s)
  BY <1>1, <1>6, <1>7, <1>8, <1>9, <1>10
<1>13. \A row \in sessions : row.num < NextNum(s)
  BY <1>2, <1>6, <1>7, <1>9, <1>10
<1>. QED  BY <1>11, <1>12, <1>13

(* The episodes that a run reserves. *)
New(r, n) ==
  {[index |-> NextIndex(run[r].source) + i - 1, num |-> NextNum(run[r].source) + i - 1,
    part |-> run[r].part, of |-> r] : i \in 1..n}

LEMMA NewAre ==
  ASSUME Assumptions, TypeInv, NEW b \in Nat, BoundedBy(b), NEW r \in Runs,
         run[r].source \in Sources, run[r].part \in Parts, NEW n \in 1..MaxEpisodes
  PROVE  /\ New(r, n) \subseteq Episodes /\ New(r, n) # {}
         /\ Within(b + MaxEpisodes, New(r, n))
         /\ \A e \in New(r, n) :
              /\ e.part = run[r].part /\ e.of = r
              /\ e.index >= NextIndex(run[r].source) /\ e.num >= NextNum(run[r].source)
         /\ \A e, f \in New(r, n) : e.index = f.index \/ e.num = f.num => e = f
<1>. DEFINE I == NextIndex(run[r].source)
            N == NextNum(run[r].source)
            E(i) == [index |-> I + i - 1, num |-> N + i - 1, part |-> run[r].part, of |-> r]
<1>1. I \in 1..(b + 1) /\ N \in 1..(b + 1) /\ n \in 1..MaxEpisodes /\ MaxEpisodes \in Nat
  BY NextIs DEF Assumptions
<1>2. New(r, n) = {E(i) : i \in 1..n}
  BY DEF New
<1>. HIDE DEF I, N
<1>3. \A i \in 1..n : /\ E(i) \in Episodes /\ E(i).index <= b + MaxEpisodes
                      /\ E(i).num <= b + MaxEpisodes
                      /\ E(i).part = run[r].part /\ E(i).of = r
                      /\ E(i).index >= I /\ E(i).num >= N
  BY <1>1 DEF Episodes
<1>4. \A i, j \in 1..n : E(i).index = E(j).index \/ E(i).num = E(j).num => i = j
  <2>1. \A i \in 1..n : E(i).index = I + i - 1 /\ E(i).num = N + i - 1
    OBVIOUS
  <2>. HIDE DEF E
  <2>. QED  BY <1>1, <2>1
<1>5. E(1) \in New(r, n)
  BY <1>1, <1>2
<1>. HIDE DEF E
<1>. QED  BY <1>2, <1>3, <1>4, <1>5 DEF Within, I, N
-----------------------------------------------------------------------------
LEMMA RunIs ==
  ASSUME TypeInv, NEW r \in Runs
  PROVE  /\ run[r] = Fresh <=> run[r].phase = "new"
         /\ run[r] # Fresh => run[r].source \in Sources /\ run[r].part \in Parts /\ run[r].msg \in Runs
         /\ run[r].phase = "queued" => run[r] \in Queued
         /\ run[r].phase = "canon" => run[r] \in Begun
         /\ Past(r) => run[r] \in Ingesting
         /\ InFlight(r) <=> run[r].phase = "canon" \/ Past(r)
<1>1. run[r] \in {Fresh} \cup Queued \cup Begun \cup Ingesting
  BY DEF TypeInv, AnyRun
<1>2. Fresh.phase = "new"
  BY DEF Fresh
<1>. QED  BY <1>1, <1>2 DEF Queued, Begun, Ingesting, Past, InFlight

(* A run that goes on or ends keeps all but its phase. *)
Goes(r, phase) ==
  /\ run' \in [Runs -> AnyRun]
  /\ run'[r].phase = phase
  /\ run'[r].source = run[r].source /\ run'[r].part = run[r].part
  /\ run'[r].msg = run[r].msg /\ run'[r].old = run[r].old
  /\ Past(r) => run'[r].episodes = run[r].episodes /\ run'[r].saved = run[r].saved
  /\ \A q \in Runs \ {r} : run'[q] = run[q]

LEMMA GoesOn ==
  ASSUME TypeInv, NEW r \in Runs, NEW phase,
         InFlight(r), phase = "over" \/ (Past(r) /\ phase = "aggregate"), Phase(r, phase)
  PROVE  Goes(r, phase)
<1>1. run' = [run EXCEPT ![r] = [run[r] EXCEPT !.phase = phase]]
  BY DEF Phase
<1>2. DOMAIN run = Runs
  BY DEF TypeInv
<1>3. CASE run[r].phase = "canon"
  <2>1. run[r] \in Begun /\ ~Past(r)
    BY <1>3, RunIs DEF Past
  <2>2. /\ [run[r] EXCEPT !.phase = "over"] \in Begun
        /\ [run[r] EXCEPT !.phase = "over"].phase = "over"
        /\ [run[r] EXCEPT !.phase = "over"].source = run[r].source
        /\ [run[r] EXCEPT !.phase = "over"].part = run[r].part
        /\ [run[r] EXCEPT !.phase = "over"].msg = run[r].msg
        /\ [run[r] EXCEPT !.phase = "over"].old = run[r].old
    BY <2>1 DEF Begun
  <2>3. [run[r] EXCEPT !.phase = "over"] \in AnyRun
    BY <2>2 DEF AnyRun
  <2>4. run' \in [Runs -> AnyRun]
    BY <1>1, <1>3, <2>1, <2>3 DEF TypeInv
  <2>. QED  BY <1>1, <1>2, <2>1, <2>2, <2>4 DEF Goes
<1>4. CASE Past(r)
  <2>1. run[r] \in Ingesting
    BY <1>4, RunIs
  <2>2. /\ [run[r] EXCEPT !.phase = phase] \in Ingesting
        /\ [run[r] EXCEPT !.phase = phase].phase = phase
        /\ [run[r] EXCEPT !.phase = phase].source = run[r].source
        /\ [run[r] EXCEPT !.phase = phase].part = run[r].part
        /\ [run[r] EXCEPT !.phase = phase].msg = run[r].msg
        /\ [run[r] EXCEPT !.phase = phase].old = run[r].old
        /\ [run[r] EXCEPT !.phase = phase].episodes = run[r].episodes
        /\ [run[r] EXCEPT !.phase = phase].saved = run[r].saved
    BY <2>1 DEF Ingesting
  <2>3. [run[r] EXCEPT !.phase = phase] \in AnyRun
    BY <2>2 DEF AnyRun
  <2>4. run' \in [Runs -> AnyRun]
    BY <1>1, <2>3 DEF TypeInv
  <2>. QED  BY <1>1, <1>2, <2>2, <2>4 DEF Goes
<1>. QED  BY <1>3, <1>4, RunIs

Frees(r) == worker' = IF worker = r THEN NoRun ELSE worker

(* A run begins, for a message that no other ingests. *)
Starts(r, s, p, m) ==
  /\ run' \in [Runs -> AnyRun] /\ run'[r].phase = "canon"
  /\ run'[r].source = s /\ run'[r].part = p /\ run'[r].msg = m /\ run'[r].old = current[s][p]
  /\ \A q \in Runs \ {r} : run'[q] = run[q]

LEMMA StartsOn ==
  ASSUME TypeInv, NEW r \in Runs, NEW s \in Sources, NEW p \in Parts, NEW m \in Runs,
         Begin(r, s, p, m)
  PROVE  Starts(r, s, p, m)
<1>1. current[s][p] \in Runs \cup {NoRun} /\ DOMAIN run = Runs
  BY DEF TypeInv, Versions
<1>2. [phase |-> "canon", source |-> s, part |-> p, msg |-> m, old |-> current[s][p]] \in AnyRun
  BY <1>1 DEF Begun, AnyRun
<1>3. run' = [run EXCEPT ![r] = [phase |-> "canon", source |-> s, part |-> p, msg |-> m,
                                 old |-> current[s][p]]]
  BY DEF Begin
<1>4. run' \in [Runs -> AnyRun]
  BY <1>2, <1>3 DEF TypeInv
<1>. QED  BY <1>1, <1>3, <1>4 DEF Starts

(* What a run that has reserved keeps for its failure. *)
Reserves(r, n) ==
  /\ run' \in [Runs -> AnyRun] /\ run'[r].phase = "extract"
  /\ run'[r].source = run[r].source /\ run'[r].part = run[r].part
  /\ run'[r].msg = run[r].msg /\ run'[r].old = run[r].old
  /\ run'[r].episodes = New(r, n)
  /\ run'[r].saved.doc = doc[run[r].source] /\ run'[r].saved.text = text[run[r].source]
  /\ \A q \in Runs \ {r} : run'[q] = run[q]

LEMMA ReservesOn ==
  ASSUME Assumptions, TablesInv, NEW r \in Runs, NEW n \in 1..MaxEpisodes, ReserveIds(r, n)
  PROVE  Reserves(r, n)
<1>1. run[r].phase = "canon" /\ run[r] \in Begun
  BY RunIs DEF ReserveIds, TablesInv
<1>2. New(r, n) \in SUBSET Episodes
  BY <1>1, NewAre DEF TablesInv, Begun
<1>3. /\ run[r].source \in Sources /\ run[r].part \in Parts /\ run[r].msg \in Runs
      /\ run[r].old \in Runs \cup {NoRun}
  BY <1>1 DEF Begun
<1>4. doc[run[r].source] \in SUBSET Episodes /\ text[run[r].source] \in Versions /\ DOMAIN run = Runs
  BY <1>3 DEF TablesInv, TypeInv
<1>5. run' = [run EXCEPT ![r] =
                [phase |-> "extract", source |-> run[r].source, part |-> run[r].part,
                 msg |-> run[r].msg, old |-> run[r].old, episodes |-> New(r, n),
                 saved |-> [doc |-> doc[run[r].source], text |-> text[run[r].source]]]]
  BY DEF ReserveIds, New
<1>6. run'[r] = [phase |-> "extract", source |-> run[r].source, part |-> run[r].part,
                 msg |-> run[r].msg, old |-> run[r].old, episodes |-> New(r, n),
                 saved |-> [doc |-> doc[run[r].source], text |-> text[run[r].source]]]
  BY <1>4, <1>5
<1>7. run' \in [Runs -> AnyRun]
  <2>1. [phase |-> "extract", source |-> run[r].source, part |-> run[r].part,
         msg |-> run[r].msg, old |-> run[r].old, episodes |-> New(r, n),
         saved |-> [doc |-> doc[run[r].source], text |-> text[run[r].source]]] \in AnyRun
    BY <1>2, <1>3, <1>4 DEF Ingesting, AnyRun
  <2>. QED  BY <1>5, <2>1 DEF TablesInv, TypeInv
<1>8. \A q \in Runs \ {r} : run'[q] = run[q]
  BY <1>5
<1>. QED  BY <1>6, <1>7, <1>8 DEF Reserves

-----------------------------------------------------------------------------
LEMMA SupersededRows ==
  ASSUME NEW T, T \subseteq Rows, NEW old
  PROVE  /\ Superseded(T, old) \subseteq Rows
         /\ \A x \in Superseded(T, old) :
              \E y \in T : x.num = y.num /\ x.of = y.of /\ y.of = old
         /\ \A y \in T : y.of = old =>
              \E x \in Superseded(T, old) : x.num = y.num /\ x.of = y.of
<1>1. \A y \in T : LET x == [y EXCEPT !.status = "superseded"]
                   IN x \in Rows /\ x.num = y.num /\ x.of = y.of
  BY DEF Rows
<1>2. \A x \in Superseded(T, old) :
        \E y \in T : y.of = old /\ x = [y EXCEPT !.status = "superseded"]
  BY DEF Superseded
<1>3. \A y \in T : y.of = old => [y EXCEPT !.status = "superseded"] \in Superseded(T, old)
  BY DEF Superseded
<1>. QED  BY <1>1, <1>2, <1>3

LEMMA SupersededFacts ==
  ASSUME NEW T, T \subseteq FactsOf, NEW old
  PROVE  /\ Superseded(T, old) \subseteq FactsOf
         /\ \A x \in Superseded(T, old) :
              /\ x.status = "superseded"
              /\ \E y \in T : /\ x.source = y.source /\ x.index = y.index /\ x.num = y.num
                              /\ x.of = y.of /\ y.of = old
                              /\ x = [y EXCEPT !.status = "superseded"]
         /\ \A y \in T : y.of = old =>
              \E x \in Superseded(T, old) : x.source = y.source /\ x.index = y.index /\ x.of = y.of
<1>1. \A y \in T : LET x == [y EXCEPT !.status = "superseded"]
                   IN /\ x \in FactsOf /\ x.num = y.num /\ x.of = y.of /\ x.source = y.source
                      /\ x.index = y.index /\ x.status = "superseded"
  BY DEF FactsOf
<1>2. \A x \in Superseded(T, old) :
        \E y \in T : y.of = old /\ x = [y EXCEPT !.status = "superseded"]
  BY DEF Superseded
<1>3. \A y \in T : y.of = old => [y EXCEPT !.status = "superseded"] \in Superseded(T, old)
  BY DEF Superseded
<1>. QED  BY <1>1, <1>2, <1>3

(* What a commit writes. *)
RowsOf(r) == {[num |-> e.num, of |-> r, status |-> "active"] : e \in run[r].episodes}
NewsOf(r) == {[source |-> run[r].source, index |-> e.index, num |-> e.num, of |-> r,
               status |-> "active"] : e \in run[r].episodes}

LEMMA WrittenAre ==
  ASSUME TypeInv, NEW r \in Runs, Past(r)
  PROVE  /\ RowsOf(r) \subseteq Rows /\ NewsOf(r) \subseteq FactsOf
         /\ \A x \in RowsOf(r) : x.of = r /\ \E e \in run[r].episodes : x.num = e.num
         /\ \A f \in NewsOf(r) :
              /\ f.of = r /\ f.source = run[r].source /\ f.status = "active"
              /\ \E e \in run[r].episodes :
                   /\ f = [source |-> run[r].source, index |-> e.index, num |-> e.num, of |-> r,
                           status |-> "active"]
                   /\ f.index = e.index /\ f.num = e.num
         /\ \A e \in run[r].episodes : \E x \in RowsOf(r) : x.num = e.num /\ x.of = r
         /\ \A e \in run[r].episodes : \E f \in NewsOf(r) : f.index = e.index /\ f.of = r
<1>1. run[r] \in Ingesting
  BY RunIs
<1>2. run[r].source \in Sources /\ \A e \in run[r].episodes : e.num \in Nat /\ e.index \in Nat
  BY <1>1 DEF Ingesting, Episodes
<1>. DEFINE X(e) == [num |-> e.num, of |-> r, status |-> "active"]
            F(e) == [source |-> run[r].source, index |-> e.index, num |-> e.num, of |-> r,
                     status |-> "active"]
<1>3. \A e \in run[r].episodes :
        /\ X(e) \in Rows /\ X(e).num = e.num /\ X(e).of = r
        /\ F(e) \in FactsOf /\ F(e).source = run[r].source /\ F(e).index = e.index
        /\ F(e).num = e.num /\ F(e).of = r /\ F(e).status = "active"
  BY <1>2 DEF Rows, FactsOf
<1>4. /\ RowsOf(r) = {X(e) : e \in run[r].episodes}
      /\ NewsOf(r) = {F(e) : e \in run[r].episodes}
  BY DEF RowsOf, NewsOf
<1>5. \A f \in NewsOf(r) : \E e \in run[r].episodes :
        f = [source |-> run[r].source, index |-> e.index, num |-> e.num, of |-> r,
             status |-> "active"] /\ f = F(e)
  BY DEF NewsOf
<1>. HIDE DEF X, F
<1>. QED  BY <1>3, <1>4, <1>5

Disks == [doc : [Sources -> SUBSET Episodes], text : [Sources -> Versions],
          sessions : SUBSET Rows, facts : SUBSET FactsOf]

LEMMA Commits ==
  ASSUME TypeInv, NEW r \in Runs, NEW found \in BOOLEAN, CommitRun(r, found)
  PROVE  /\ run[r].phase = "aggregate" /\ Past(r) /\ run[r] \in Ingesting
         /\ Goes(r, "over")
         /\ sessions' = Supersede(sessions, run[r].old) \cup RowsOf(r)
         /\ doc' = Replaced(run[r].source, run[r].part, run[r].episodes)
         /\ text' = [text EXCEPT ![run[r].source][run[r].part] = r]
         /\ found => /\ facts' = Supersede(facts, run[r].old) \cup NewsOf(r)
                     /\ current' = [current EXCEPT ![run[r].source][run[r].part] = r]
                     /\ tables'.facts = FactRows(tables.facts, Superseded(facts, run[r].old) \cup NewsOf(r))
         /\ ~found => UNCHANGED <<facts, current>> /\ tables'.facts = tables.facts
         /\ tables'.sessions = SessionRows(tables.sessions, Superseded(sessions, run[r].old) \cup RowsOf(r))
         /\ tables'.doc = [tables.doc EXCEPT ![run[r].source] = doc'[run[r].source]]
         /\ tables'.text = [tables.text EXCEPT ![run[r].source] = text'[run[r].source]]
         /\ tables' = [doc |-> tables'.doc, text |-> tables'.text, sessions |-> tables'.sessions,
                     facts |-> tables'.facts]
<1>1. run[r].phase = "aggregate" /\ Past(r) /\ InFlight(r) /\ Phase(r, "over")
  BY DEF CommitRun, Past, InFlight, Leaves
<1>2. run[r] \in Ingesting /\ Goes(r, "over")
  BY <1>1, RunIs, GoesOn
<1>3. /\ sessions' = Supersede(sessions, run[r].old) \cup RowsOf(r)
      /\ doc' = Replaced(run[r].source, run[r].part, run[r].episodes)
      /\ text' = [text EXCEPT ![run[r].source][run[r].part] = r]
      /\ found => /\ facts' = Supersede(facts, run[r].old) \cup NewsOf(r)
                  /\ current' = [current EXCEPT ![run[r].source][run[r].part] = r]
      /\ ~found => UNCHANGED <<facts, current>>
  BY DEF CommitRun, RowsOf, NewsOf
<1>4. PICK x, d, t, f :
        /\ tables' = [tables EXCEPT !.sessions = x, !.doc = d, !.text = t, !.facts = f]
        /\ x = SessionRows(tables.sessions, Superseded(sessions, run[r].old) \cup RowsOf(r))
        /\ d = [tables.doc EXCEPT ![run[r].source] = doc'[run[r].source]]
        /\ t = [tables.text EXCEPT ![run[r].source] = text'[run[r].source]]
        /\ f = IF found THEN FactRows(tables.facts, Superseded(facts, run[r].old) \cup NewsOf(r))
                        ELSE tables.facts
  BY DEF CommitRun, RowsOf, NewsOf
<1>5. tables \in Disks
  BY DEF TypeInv, Disks
<1>6. tables' = [doc |-> d, text |-> t, sessions |-> x, facts |-> f]
  BY <1>4, <1>5 DEF Disks
<1>. QED  BY <1>1, <1>2, <1>3, <1>4, <1>6

(* After a restart nothing is in flight, and every run is still for what it *)
(* was for.                                                                *)
LEMMA Restarts ==
  ASSUME TypeInv, ProcessDies
  PROVE  /\ run' \in [Runs -> AnyRun]
         /\ \A r \in Runs : /\ ~InFlight(r)' /\ ~Past(r)'
                            /\ run'[r].phase = "new" <=> run[r].phase = "new"
                            /\ run[r].phase = "over" => run'[r].phase = "over"
                            /\ run[r] # Fresh => /\ run'[r].source = run[r].source
                                                 /\ run'[r].part = run[r].part
                                                 /\ run'[r].msg = run[r].msg
<1>1. \A r \in Runs : run'[r] = IF run[r].phase \in {"new", "queued"} THEN run[r]
                                ELSE [run[r] EXCEPT !.phase = "over"]
  BY DEF ProcessDies
<1>2. ASSUME NEW r \in Runs
      PROVE  /\ run'[r] \in AnyRun
             /\ run'[r].phase \in {"new", "queued", "over"}
             /\ run'[r].phase = "new" <=> run[r].phase = "new"
             /\ run[r].phase = "over" => run'[r].phase = "over"
             /\ run[r] # Fresh => /\ run'[r].source = run[r].source
                                  /\ run'[r].part = run[r].part
                                  /\ run'[r].msg = run[r].msg
  <2>1. CASE run[r].phase \in {"new", "queued"}
    BY <1>1, <2>1 DEF TypeInv
  <2>2. CASE run[r].phase \notin {"new", "queued"}
    <3>1. run'[r] = [run[r] EXCEPT !.phase = "over"]
      BY <1>1, <2>2
    <3>2. run[r] \in Begun \cup Ingesting
      BY <2>2 DEF TypeInv, AnyRun, Queued, Fresh
    <3>3. CASE run[r] \in Begun
      BY <2>2, <3>1, <3>3 DEF Begun, AnyRun
    <3>4. CASE run[r] \in Ingesting
      BY <2>2, <3>1, <3>4 DEF Ingesting, AnyRun
    <3>. QED  BY <3>2, <3>3, <3>4
  <2>. QED  BY <2>1, <2>2
<1>3. run' \in [Runs -> AnyRun]
  BY <1>2 DEF ProcessDies
<1>. QED  BY <1>2, <1>3 DEF InFlight, Past

LEMMA BoundMore ==
  ASSUME TypeInv, NEW b \in Nat, BoundedBy(b), NEW c \in Nat, b <= c
  PROVE  BoundedBy(c)
<1>1. ASSUME NEW D, \A e \in D : e.index \in Nat /\ e.num \in Nat, Within(b, D)
      PROVE  Within(c, D)
  BY <1>1 DEF Within
<1>2. \A e \in Episodes : e.index \in Nat /\ e.num \in Nat
  BY DEF Episodes
<1>3. \A f \in FactsOf : f.index \in Nat /\ f.num \in Nat
  BY DEF FactsOf
<1>4. \A s \in Sources : Within(c, doc[s]) /\ Within(c, tables.doc[s])
  <2>1. \A s \in Sources : doc[s] \subseteq Episodes /\ tables.doc[s] \subseteq Episodes
    BY DEF TypeInv
  <2>. QED  BY <1>1, <1>2, <2>1 DEF BoundedBy
<1>5. \A row \in sessions \cup tables.sessions : row.num <= c
  <2>1. \A row \in sessions \cup tables.sessions : row.num \in Nat
    BY DEF TypeInv, Rows
  <2>. QED  BY <2>1 DEF BoundedBy
<1>6. Within(c, facts) /\ Within(c, tables.facts)
  <2>1. facts \subseteq FactsOf /\ tables.facts \subseteq FactsOf
    BY DEF TypeInv
  <2>. QED  BY <1>1, <1>3, <2>1 DEF BoundedBy
<1>7. \A r \in Runs : Past(r) => Within(c, run[r].episodes) /\ Within(c, run[r].saved.doc)
  <2>1. \A r \in Runs : Past(r) => run[r].episodes \subseteq Episodes /\ run[r].saved.doc \subseteq Episodes
    BY RunIs DEF Ingesting
  <2>. QED  BY <1>1, <1>2, <2>1 DEF BoundedBy
<1>. QED  BY <1>4, <1>5, <1>6, <1>7 DEF BoundedBy

LEMMA TablesStep ==
  ASSUME Assumptions, TablesInv, MessageInv, [DocNext]_docVars
  PROVE  TablesInv'
<1>. TypeInv
  BY DEF TablesInv
<1>1. PICK b \in Nat : BoundedBy(b)
  BY DEF TablesInv
<1>2. tables \in Disks
  BY DEF TypeInv, Disks
<1>3. ASSUME NEW r \in Runs, NEW s \in Sources, NEW p \in Parts, NEW m \in Runs, Starts(r, s, p, m),
             UNCHANGED <<doc, text, sessions, facts, current, tables>>,
             log' \in [Runs -> {"none", "pending", "complete"}], active' \subseteq Runs,
             (worker' = worker /\ ~InFlight(r)) \/ worker' = r
      PROVE  TablesInv'
  <2>1. InFlight(r)' /\ \A q \in Runs \ {r} : InFlight(q)' <=> InFlight(q)
    BY <1>3 DEF Starts, InFlight
  <2>2. worker' \in {NoRun} \cup {q \in Runs : InFlight(q)'}
    BY <1>3, <2>1 DEF TypeInv
  <2>3. TypeInv'
    BY <1>3, <2>2 DEF TypeInv, Starts
  <2>4. \A q \in Runs : Past(q)' => Past(q) /\ run'[q] = run[q]
    BY <1>3 DEF Past, Starts
  <2>5. BoundedBy(b)'
    BY <1>1, <1>3, <2>4 DEF BoundedBy, Within
  <2>. QED  BY <2>3, <2>5 DEF TablesInv
<1>4. ASSUME NEW r \in Runs, NEW s \in Sources, NEW p \in Parts, Ingest(r, s, p) PROVE TablesInv'
  <2>1. Starts(r, s, p, r)
    BY <1>4, StartsOn DEF Ingest
  <2>2. ~InFlight(r)
    BY <1>4 DEF Ingest, InFlight, Fresh
  <2>3. log' \in [Runs -> {"none", "pending", "complete"}] /\ active' \subseteq Runs
    BY <1>4 DEF Ingest, Begin, TypeInv
  <2>. QED  BY <1>3, <1>4, <2>1, <2>2, <2>3 DEF Ingest
<1>5. ASSUME NEW r \in Runs, NEW m \in Runs, Work(r, m) PROVE TablesInv'
  <2>1. log[m] = "pending" /\ run[m] # Fresh
    BY <1>5 DEF Work, Claims, MessageInv
  <2>2. run[m].source \in Sources /\ run[m].part \in Parts
    BY <2>1, RunIs
  <2>3. Starts(r, run[m].source, run[m].part, m)
    BY <1>5, <2>2, StartsOn DEF Work
  <2>4. log' \in [Runs -> {"none", "pending", "complete"}] /\ active' \subseteq Runs
    BY <1>5 DEF Work, Begin, TypeInv
  <2>. QED  BY <1>3, <1>5, <2>2, <2>3, <2>4 DEF Work
<1>6. ASSUME NEW r \in Runs, NEW s \in Sources, NEW p \in Parts, Enqueue(r, s, p) PROVE TablesInv'
  <2>1. run[r] = Fresh /\ run' = [run EXCEPT ![r] = [phase |-> "queued", source |-> s, part |-> p, msg |-> r]]
    BY <1>6 DEF Enqueue
  <2>2. [phase |-> "queued", source |-> s, part |-> p, msg |-> r] \in AnyRun
    BY DEF Queued, AnyRun
  <2>3. run' \in [Runs -> AnyRun] /\ run'[r].phase = "queued" /\ \A q \in Runs \ {r} : run'[q] = run[q]
    BY <2>1, <2>2 DEF TypeInv
  <2>4. \A q \in Runs : InFlight(q)' <=> InFlight(q)
    BY <2>1, <2>3 DEF InFlight, Fresh
  <2>5. \A q \in Runs : Past(q)' => Past(q) /\ run'[q] = run[q]
    BY <2>3 DEF Past
  <2>6. log' \in [Runs -> {"none", "pending", "complete"}]
    BY <1>6 DEF Enqueue, TypeInv
  <2>7. TypeInv'
    BY <1>6, <2>3, <2>4, <2>6 DEF TypeInv, Enqueue
  <2>8. BoundedBy(b)'
    BY <1>1, <1>6, <2>5 DEF BoundedBy, Within, Enqueue
  <2>. QED  BY <2>7, <2>8 DEF TablesInv
<1>7. ASSUME NEW r \in Runs, InFlight(r), Goes(r, "over"), Frees(r)
      PROVE  /\ worker' \in {NoRun} \cup {q \in Runs : InFlight(q)'}
             /\ \A q \in Runs : Past(q)' => /\ Past(q)
                                            /\ run'[q].episodes = run[q].episodes
                                            /\ run'[q].saved = run[q].saved
  <2>1. \A q \in Runs \ {r} : InFlight(q)' <=> InFlight(q)
    BY <1>7 DEF Goes, InFlight
  <2>2. worker' \in {NoRun} \cup {q \in Runs : InFlight(q)'}
    BY <1>7, <2>1 DEF TypeInv, Frees
  <2>. QED  BY <1>7, <2>2 DEF Goes, Past
<1>8. ASSUME NEW r \in Runs, Unready(r) PROVE TablesInv'
  <2>. DEFINE s == run[r].source
              row == [num |-> NextNum(s), of |-> r, status |-> "canonicalization_failed"]
  <2>1. run[r].phase = "canon" /\ InFlight(r) /\ run[r] \in Begun /\ Goes(r, "over")
    <3>1. run[r].phase = "canon" /\ InFlight(r) /\ Phase(r, "over")
      BY <1>8 DEF Unready, InFlight, Leaves
    <3>. QED  BY <3>1, RunIs, GoesOn
  <2>2. s \in Sources /\ run[r].part \in Parts /\ run[r].msg \in Runs
    BY <2>1 DEF Begun
  <2>3. NextNum(s) \in 1..(b + 1)
    BY <1>1, <2>2, NextIs
  <2>4. row \in Rows /\ row.num <= b + 1
    BY <2>3 DEF Rows
  <2>. HIDE DEF row
  <2>5. /\ sessions' = sessions \cup {row} /\ text' = [text EXCEPT ![s][run[r].part] = r]
        /\ tables' = [tables EXCEPT !.sessions = SessionRows(@, {row}), !.text = [@ EXCEPT ![s] = text'[s]]]
        /\ log' = [log EXCEPT ![run[r].msg] = "complete"]
        /\ Frees(r)
        /\ UNCHANGED <<doc, facts, current, active>>
    BY <1>8 DEF Unready, Leaves, Frees, row
  <2>6. text' \in [Sources -> Versions]
    BY <2>2, <2>5 DEF TypeInv, Versions
  <2>7. /\ tables'.doc = tables.doc /\ tables'.facts = tables.facts
        /\ tables'.sessions = SessionRows(tables.sessions, {row})
        /\ tables'.text = [tables.text EXCEPT ![s] = text'[s]]
        /\ tables' = [doc |-> tables'.doc, text |-> tables'.text, sessions |-> tables'.sessions,
                    facts |-> tables'.facts]
    BY <1>2, <2>5 DEF Disks
  <2>8. SessionRows(tables.sessions, {row}) \subseteq tables.sessions \cup {row}
    BY DEF SessionRows
  <2>9. tables' \in Disks
    <3>1. tables'.text \in [Sources -> Versions]
      BY <1>2, <2>2, <2>6, <2>7 DEF Disks
    <3>2. tables'.sessions \in SUBSET Rows
      BY <1>2, <2>4, <2>7, <2>8 DEF Disks
    <3>3. tables.doc \in [Sources -> SUBSET Episodes] /\ tables.facts \in SUBSET FactsOf
      BY <1>2 DEF Disks
    <3>. QED  BY <2>7, <3>1, <3>2, <3>3 DEF Disks
  <2>10. TypeInv'
    <3>1. log' \in [Runs -> {"none", "pending", "complete"}]
      BY <2>2, <2>5 DEF TypeInv
    <3>2. worker' \in {NoRun} \cup {q \in Runs : InFlight(q)'}
      BY <1>7, <2>1, <2>5
    <3>3. run' \in [Runs -> AnyRun]
      BY <2>1 DEF Goes
    <3>. QED  BY <2>4, <2>5, <2>6, <2>9, <3>1, <3>2, <3>3 DEF TypeInv, Disks
  <2>11. BoundedBy(b + 1)'
    <3>1. \A q \in Runs : Past(q)' => /\ Past(q) /\ run'[q].episodes = run[q].episodes
                                      /\ run'[q].saved = run[q].saved
      BY <1>7, <2>1, <2>5
    <3>2. BoundedBy(b + 1)
      BY <1>1, BoundMore
    <3>. QED  BY <2>4, <2>5, <2>7, <2>8, <3>1, <3>2 DEF BoundedBy, Within
  <2>. QED  BY <2>10, <2>11 DEF TablesInv
<1>9. ASSUME NEW r \in Runs, NEW n \in 1..MaxEpisodes, ReserveIds(r, n) PROVE TablesInv'
  <2>. DEFINE s == run[r].source
              c == b + MaxEpisodes
  <2>1. Reserves(r, n)
    BY <1>9, ReservesOn
  <2>2. run[r].phase = "canon" /\ s \in Sources /\ run[r].part \in Parts
    BY <1>9, RunIs DEF ReserveIds, Begun
  <2>3. New(r, n) \subseteq Episodes /\ Within(c, New(r, n))
    BY <1>1, <2>2, NewAre
  <2>4. /\ doc' = [doc EXCEPT ![s] = {e \in doc[s] : e.part # run[r].part} \cup New(r, n)]
        /\ UNCHANGED <<text, sessions, facts, current, tables, log, active, worker>>
    BY <1>9 DEF ReserveIds, New, Replaced
  <2>5. doc' \in [Sources -> SUBSET Episodes]
    BY <2>2, <2>3, <2>4 DEF TypeInv
  <2>6. \A q \in Runs : InFlight(q) => InFlight(q)'
    BY <2>1 DEF Reserves, InFlight
  <2>7. TypeInv'
    BY <2>1, <2>4, <2>5, <2>6 DEF TypeInv, Reserves
  <2>8. c \in Nat /\ BoundedBy(c)
    BY <1>1, BoundMore DEF Assumptions
  <2>9. BoundedBy(c)'
    <3>1. \A z \in Sources : Within(c, doc'[z])
      BY <2>3, <2>4, <2>5, <2>8 DEF BoundedBy, Within, TypeInv
    <3>2. \A q \in Runs : Past(q)' => Within(c, run'[q].episodes) /\ Within(c, run'[q].saved.doc)
      <4>1. Within(c, run'[r].episodes) /\ Within(c, run'[r].saved.doc)
        BY <2>1, <2>2, <2>3, <2>8 DEF Reserves, BoundedBy
      <4>2. \A q \in Runs \ {r} : Past(q)' => Past(q) /\ run'[q] = run[q]
        BY <2>1 DEF Reserves, Past
      <4>. QED  BY <2>8, <4>1, <4>2 DEF BoundedBy
    <3>3. /\ \A z \in Sources : Within(c, tables'.doc[z])
          /\ \A row \in sessions' \cup tables'.sessions : row.num <= c
          /\ Within(c, facts') /\ Within(c, tables'.facts)
      BY <2>4, <2>8 DEF BoundedBy
    <3>. QED  BY <3>1, <3>2, <3>3 DEF BoundedBy, Within
  <2>. QED  BY <2>7, <2>8, <2>9 DEF TablesInv
<1>10. ASSUME NEW r \in Runs, Extracted(r) \/ AggregationRaises(r) PROVE TablesInv'
  <2>1. UNCHANGED <<doc, text, sessions, facts, current, tables, log, active>>
    BY <1>10 DEF Extracted, AggregationRaises
  <2>2. /\ run' \in [Runs -> AnyRun]
        /\ worker' \in {NoRun} \cup {q \in Runs : InFlight(q)'}
        /\ \A q \in Runs : Past(q)' => /\ Past(q) /\ run'[q].episodes = run[q].episodes
                                       /\ run'[q].saved = run[q].saved
    <3>1. CASE Extracted(r)
      <4>1. Past(r) /\ worker' = worker /\ Goes(r, "aggregate")
        <5>1. InFlight(r) /\ Past(r) /\ Phase(r, "aggregate") /\ worker' = worker
          BY <3>1 DEF Extracted, InFlight, Past
        <5>. QED  BY <5>1, GoesOn
      <4>2. \A q \in Runs : InFlight(q) => InFlight(q)'
        BY <4>1 DEF Goes, InFlight
      <4>. QED  BY <4>1, <4>2 DEF Goes, Past, TypeInv
    <3>2. CASE AggregationRaises(r)
      <4>1. InFlight(r) /\ Frees(r) /\ Goes(r, "over")
        <5>1. InFlight(r) /\ Phase(r, "over") /\ Frees(r)
          BY <3>2 DEF AggregationRaises, InFlight, Leaves, Frees
        <5>. QED  BY <5>1, GoesOn
      <4>2. run' \in [Runs -> AnyRun]
        BY <4>1 DEF Goes
      <4>. QED  BY <1>7, <4>1, <4>2
    <3>. QED  BY <1>10, <3>1, <3>2
  <2>3. TypeInv'
    BY <2>1, <2>2 DEF TypeInv
  <2>4. BoundedBy(b)'
    BY <1>1, <2>1, <2>2 DEF BoundedBy, Within
  <2>. QED  BY <2>3, <2>4 DEF TablesInv
<1>11. ASSUME NEW r \in Runs, ExtractionRaises(r) PROVE TablesInv'
  <2>. DEFINE s == run[r].source
  <2>1. Past(r) /\ InFlight(r) /\ Goes(r, "over") /\ run[r] \in Ingesting
    <3>1. Past(r) /\ InFlight(r) /\ Phase(r, "over")
      BY <1>11 DEF ExtractionRaises, InFlight, Past, Leaves
    <3>. QED  BY <3>1, GoesOn, RunIs
  <2>2. /\ doc' = [doc EXCEPT ![s] = run[r].saved.doc]
        /\ text' = [text EXCEPT ![s] = run[r].saved.text]
        /\ Frees(r)
        /\ UNCHANGED <<sessions, facts, current, tables, log, active>>
    BY <1>11 DEF ExtractionRaises, Restored, Leaves, Frees
  <2>3. s \in Sources /\ run[r].saved.doc \in SUBSET Episodes /\ run[r].saved.text \in Versions
    BY <2>1 DEF Ingesting
  <2>4. doc' \in [Sources -> SUBSET Episodes] /\ text' \in [Sources -> Versions]
    BY <2>2, <2>3 DEF TypeInv
  <2>5. /\ worker' \in {NoRun} \cup {q \in Runs : InFlight(q)'}
        /\ \A q \in Runs : Past(q)' => /\ Past(q) /\ run'[q].episodes = run[q].episodes
                                       /\ run'[q].saved = run[q].saved
    BY <1>7, <2>1, <2>2
  <2>6. TypeInv'
    BY <2>1, <2>2, <2>4, <2>5 DEF TypeInv, Goes
  <2>7. \A z \in Sources : Within(b, doc'[z])
    BY <1>1, <2>1, <2>2 DEF BoundedBy, TypeInv
  <2>8. BoundedBy(b)'
    BY <1>1, <2>2, <2>5, <2>7 DEF BoundedBy, Within
  <2>. QED  BY <2>6, <2>8 DEF TablesInv
<1>12. ASSUME NEW r \in Runs, NEW found \in BOOLEAN, CommitRun(r, found) PROVE TablesInv'
  <2>. DEFINE s == run[r].source
              p == run[r].part
              old == run[r].old
  <2>1. /\ Past(r) /\ run[r] \in Ingesting /\ Goes(r, "over") /\ InFlight(r)
        /\ sessions' = Supersede(sessions, old) \cup RowsOf(r)
        /\ doc' = Replaced(s, p, run[r].episodes)
        /\ text' = [text EXCEPT ![s][p] = r]
        /\ tables'.doc = [tables.doc EXCEPT ![s] = doc'[s]]
        /\ tables'.text = [tables.text EXCEPT ![s] = text'[s]]
        /\ tables'.sessions = SessionRows(tables.sessions, Superseded(sessions, old) \cup RowsOf(r))
        /\ tables' = [doc |-> tables'.doc, text |-> tables'.text, sessions |-> tables'.sessions,
                    facts |-> tables'.facts]
    BY <1>12, Commits DEF Past, InFlight
  <2>2. /\ facts' \subseteq facts \cup Superseded(facts, old) \cup NewsOf(r)
        /\ tables'.facts \subseteq tables.facts \cup Superseded(facts, old) \cup NewsOf(r)
        /\ current' = [current EXCEPT ![s][p] = r] \/ current' = current
    BY <1>12, Commits DEF Supersede, FactRows
  <2>3. /\ sessions' \subseteq sessions \cup Superseded(sessions, old) \cup RowsOf(r)
        /\ tables'.sessions \subseteq tables.sessions \cup Superseded(sessions, old) \cup RowsOf(r)
    BY <2>1 DEF Supersede, SessionRows
  <2>4. s \in Sources /\ p \in Parts /\ run[r].episodes \subseteq Episodes /\ run[r].msg \in Runs
    BY <2>1 DEF Ingesting
  <2>5. /\ log' = [log EXCEPT ![run[r].msg] = "complete"] /\ active' \subseteq active
        /\ Frees(r)
    BY <1>12 DEF CommitRun, Leaves, Frees
  <2>6. /\ worker' \in {NoRun} \cup {q \in Runs : InFlight(q)'}
        /\ \A q \in Runs : Past(q)' => /\ Past(q) /\ run'[q].episodes = run[q].episodes
                                       /\ run'[q].saved = run[q].saved
    BY <1>7, <2>1, <2>5
  <2>7. doc' \in [Sources -> SUBSET Episodes] /\ text' \in [Sources -> Versions]
    BY <2>1, <2>4 DEF TypeInv, Replaced, Versions
  <2>8. /\ Superseded(facts, old) \subseteq FactsOf /\ NewsOf(r) \subseteq FactsOf
        /\ Superseded(sessions, old) \subseteq Rows /\ RowsOf(r) \subseteq Rows
        /\ \A x \in Superseded(sessions, old) : \E y \in sessions : x.num = y.num
        /\ \A x \in Superseded(facts, old) : \E y \in facts : x.index = y.index /\ x.num = y.num
        /\ \A x \in RowsOf(r) : \E e \in run[r].episodes : x.num = e.num
        /\ \A x \in NewsOf(r) : \E e \in run[r].episodes : x.index = e.index /\ x.num = e.num
    <3>1. sessions \subseteq Rows /\ facts \subseteq FactsOf
      BY DEF TypeInv
    <3>2. /\ Superseded(facts, old) \subseteq FactsOf
          /\ \A x \in Superseded(facts, old) : \E y \in facts : x.index = y.index /\ x.num = y.num
      BY <3>1, SupersededFacts
    <3>3. /\ Superseded(sessions, old) \subseteq Rows
          /\ \A x \in Superseded(sessions, old) : \E y \in sessions : x.num = y.num
      BY <3>1, SupersededRows
    <3>4. /\ NewsOf(r) \subseteq FactsOf /\ RowsOf(r) \subseteq Rows
          /\ \A x \in RowsOf(r) : \E e \in run[r].episodes : x.num = e.num
          /\ \A x \in NewsOf(r) : \E e \in run[r].episodes : x.index = e.index /\ x.num = e.num
      BY <2>1, WrittenAre
    <3>. QED  BY <3>2, <3>3, <3>4
  <2>9. tables' \in Disks
    <3>1. tables'.doc \in [Sources -> SUBSET Episodes] /\ tables'.text \in [Sources -> Versions]
      BY <1>2, <2>1, <2>4, <2>7 DEF Disks
    <3>2. tables'.facts \in SUBSET FactsOf /\ tables'.sessions \in SUBSET Rows
      BY <1>2, <2>2, <2>3, <2>8 DEF Disks
    <3>. QED  BY <2>1, <3>1, <3>2 DEF Disks
  <2>10. TypeInv'
    <3>1. log' \in [Runs -> {"none", "pending", "complete"}] /\ active' \subseteq Runs
      BY <2>4, <2>5 DEF TypeInv
    <3>2. current' \in [Sources -> Versions]
      <4>1. CASE current' = current
        BY <4>1 DEF TypeInv
      <4>2. CASE current' = [current EXCEPT ![s][p] = r]
        BY <2>4, <4>2 DEF TypeInv, Versions
      <4>. QED  BY <2>2, <4>1, <4>2
    <3>3. facts' \subseteq FactsOf /\ sessions' \subseteq Rows
      BY <2>2, <2>3, <2>8 DEF TypeInv
    <3>4. run' \in [Runs -> AnyRun]
      BY <2>1 DEF Goes
    <3>. QED  BY <2>6, <2>7, <2>9, <3>1, <3>2, <3>3, <3>4 DEF TypeInv, Disks
  <2>11. BoundedBy(b)'
    <3>1. Within(b, run[r].episodes)
      BY <1>1, <2>1 DEF BoundedBy
    <3>2. \A z \in Sources : Within(b, doc'[z]) /\ Within(b, tables'.doc[z])
      <4>1. \A z \in Sources : Within(b, doc'[z])
        BY <1>1, <2>1, <2>4, <3>1 DEF BoundedBy, Within, Replaced, TypeInv
      <4>2. \A z \in Sources : tables'.doc[z] = IF z = s THEN doc'[s] ELSE tables.doc[z]
        BY <1>2, <2>1 DEF Disks
      <4>. QED  BY <1>1, <2>4, <4>1, <4>2 DEF BoundedBy
    <3>3. \A row \in sessions' \cup tables'.sessions : row.num <= b
      BY <1>1, <2>3, <2>8, <3>1 DEF BoundedBy, Within
    <3>4. Within(b, facts') /\ Within(b, tables'.facts)
      BY <1>1, <2>2, <2>8, <3>1 DEF BoundedBy, Within
    <3>. QED  BY <1>1, <2>6, <3>2, <3>3, <3>4 DEF BoundedBy, Within
  <2>. QED  BY <2>10, <2>11 DEF TablesInv
<1>13. ASSUME ProcessDies PROVE TablesInv'
  <2>1. /\ doc' = tables.doc /\ text' = tables.text /\ sessions' = tables.sessions /\ facts' = tables.facts
        /\ active' = {} /\ worker' = NoRun /\ UNCHANGED <<tables, log>>
        /\ current' \in [Sources -> [Parts -> Runs \cup {NoRun}]]
    BY <1>13 DEF ProcessDies
  <2>2. \A r \in Runs : ~Past(r)'
    BY <1>13, Restarts
  <2>3. run' \in [Runs -> AnyRun]
    BY <1>13, Restarts
  <2>4. TypeInv'
    BY <2>1, <2>3 DEF TypeInv, Versions
  <2>5. BoundedBy(b)'
    BY <1>1, <2>1, <2>2 DEF BoundedBy, Within
  <2>. QED  BY <2>4, <2>5 DEF TablesInv
<1>14. ASSUME UNCHANGED docVars PROVE TablesInv'
  <2>1. TypeInv'
    BY <1>14 DEF docVars, TypeInv, InFlight
  <2>2. BoundedBy(b)'
    BY <1>1, <1>14 DEF docVars, BoundedBy, Within, Past
  <2>. QED  BY <2>1, <2>2 DEF TablesInv
<1>. QED
  BY <1>4, <1>5, <1>6, <1>8, <1>9, <1>10, <1>11, <1>12, <1>13, <1>14 DEF DocNext

-----------------------------------------------------------------------------
LEMMA MessageStep ==
  ASSUME Assumptions, TablesInv, TablesInv', MessageInv, [DocNext]_docVars
  PROVE  MessageInv'
<1>. TypeInv /\ TypeInv'
  BY DEF TablesInv
<1>1. /\ \A q \in Runs : run[q] = Fresh <=> run[q].phase = "new"
      /\ \A q \in Runs : run'[q] = Fresh <=> run'[q].phase = "new"
      /\ \A q \in Runs : run[q] # Fresh => run[q].msg \in Runs
  <2>1. \A q \in Runs : run[q] = Fresh <=> run[q].phase = "new"
    BY RunIs
  <2>2. \A q \in Runs : run[q] # Fresh => run[q].msg \in Runs
    BY RunIs
  <2>3. \A q \in Runs : run'[q] \in {Fresh} \cup Queued \cup Begun \cup Ingesting
    BY DEF TypeInv, AnyRun
  <2>. QED  BY <2>1, <2>2, <2>3 DEF Queued, Begun, Ingesting, Fresh
<1>2. ASSUME NEW r \in Runs, NEW s, NEW p, NEW m \in Runs, Starts(r, s, p, m), ~InFlight(r),
             m = r \/ run[m] # Fresh, \A q \in Runs : InFlight(q) => run[q].msg # m,
             log' = [log EXCEPT ![m] = "pending"], active' = active \cup {m}
      PROVE  MessageInv'
  <2>1. run'[r] # Fresh /\ run'[m] # Fresh /\ \A q \in Runs : run[q] # Fresh => run'[q] # Fresh
    BY <1>1, <1>2 DEF Starts
  <2>2. \A q \in Runs \ {r} : InFlight(q)' <=> InFlight(q)
    BY <1>2 DEF Starts, InFlight
  <2>3. \A q \in Runs : log'[q] = "pending" => run'[q] # Fresh
    BY <1>2, <2>1 DEF MessageInv, TypeInv
  <2>4. \A q \in Runs : run'[q] # Fresh => run'[run'[q].msg] # Fresh
    BY <1>1, <1>2, <2>1 DEF MessageInv, Starts
  <2>5. \A q \in Runs : InFlight(q)' => run'[q].msg \in active'
    BY <1>2, <2>2 DEF MessageInv, Starts
  <2>6. OneRunPerMessage'
    BY <1>2, <2>2 DEF MessageInv, OneRunPerMessage, Starts
  <2>. QED  BY <2>3, <2>4, <2>5, <2>6 DEF MessageInv
<1>3. ASSUME NEW r \in Runs, NEW s \in Sources, NEW p \in Parts, Ingest(r, s, p) PROVE MessageInv'
  <2>1. run[r] = Fresh /\ Begin(r, s, p, r)
    BY <1>3 DEF Ingest
  <2>2. ~InFlight(r) /\ Starts(r, s, p, r)
    BY <2>1, StartsOn DEF InFlight, Fresh
  <2>3. \A q \in Runs : InFlight(q) => run[q].msg # r
    BY <1>1, <2>1 DEF MessageInv, InFlight
  <2>. QED  BY <1>2, <2>1, <2>2, <2>3 DEF Begin
<1>4. ASSUME NEW r \in Runs, NEW m \in Runs, Work(r, m) PROVE MessageInv'
  <2>1. /\ log[m] = "pending" /\ m \notin active /\ run[m] # Fresh
        /\ Begin(r, run[m].source, run[m].part, m)
        /\ run[r].phase \in {"queued", "new"}
    BY <1>1, <1>4 DEF Work, Claims, MessageInv
  <2>2. ~InFlight(r) /\ Starts(r, run[m].source, run[m].part, m)
    <3>1. run[m].source \in Sources /\ run[m].part \in Parts
      BY <2>1, RunIs
    <3>. QED  BY <2>1, <3>1, StartsOn DEF InFlight
  <2>3. \A q \in Runs : InFlight(q) => run[q].msg # m
    BY <2>1 DEF MessageInv
  <2>. QED  BY <1>2, <2>1, <2>2, <2>3 DEF Begin
<1>5. ASSUME NEW r \in Runs, NEW s \in Sources, NEW p \in Parts, Enqueue(r, s, p) PROVE MessageInv'
  <2>1. /\ run[r] = Fresh /\ log' = [log EXCEPT ![r] = "pending"] /\ active' = active
        /\ run' = [run EXCEPT ![r] = [phase |-> "queued", source |-> s, part |-> p, msg |-> r]]
    BY <1>5 DEF Enqueue
  <2>2. /\ run'[r].phase = "queued" /\ run'[r].msg = r
        /\ \A q \in Runs \ {r} : run'[q] = run[q]
    BY <2>1 DEF TypeInv
  <2>3. \A q \in Runs : run[q] # Fresh => run'[q] # Fresh
    BY <1>1, <2>2
  <2>4. \A q \in Runs : InFlight(q)' => InFlight(q) /\ run'[q] = run[q]
    BY <2>2 DEF InFlight
  <2>5. \A q \in Runs : log'[q] = "pending" => run'[q] # Fresh
    BY <1>1, <2>1, <2>2, <2>3 DEF MessageInv, TypeInv
  <2>6. \A q \in Runs : run'[q] # Fresh => run'[run'[q].msg] # Fresh
    BY <1>1, <2>2, <2>3 DEF MessageInv
  <2>7. OneRunPerMessage'
    BY <2>4 DEF MessageInv, OneRunPerMessage
  <2>. QED  BY <2>1, <2>4, <2>5, <2>6, <2>7 DEF MessageInv
<1>6. ASSUME NEW r \in Runs, NEW phase, phase # "new", InFlight(r), Goes(r, phase),
             \A m \in Runs : log'[m] = "pending" => log[m] = "pending",
             InFlight(r)' => active' = active, active \ {run[r].msg} \subseteq active'
      PROVE  MessageInv'
  <2>1. \A q \in Runs : /\ run[q] # Fresh <=> run'[q] # Fresh
                        /\ InFlight(q)' => InFlight(q)
                        /\ run'[q].msg = run[q].msg
    BY <1>1, <1>6 DEF Goes, InFlight
  <2>2. OneRunPerMessage'
    BY <2>1 DEF MessageInv, OneRunPerMessage
  <2>3. \A q \in Runs : InFlight(q)' => run'[q].msg \in active'
    BY <1>6, <2>1 DEF MessageInv, OneRunPerMessage
  <2>. QED  BY <1>1, <1>6, <2>1, <2>2, <2>3 DEF MessageInv
<1>7. ASSUME NEW r \in Runs, Unready(r) \/ ExtractionRaises(r) \/ AggregationRaises(r)
      PROVE  MessageInv'
  <2>1. InFlight(r) /\ Phase(r, "over") /\ active' = active
    BY <1>7 DEF Unready, ExtractionRaises, AggregationRaises, Leaves, InFlight
  <2>2. Goes(r, "over")
    BY <2>1, GoesOn
  <2>3. \A m \in Runs : log'[m] = "pending" => log[m] = "pending"
    BY <1>7 DEF Unready, ExtractionRaises, AggregationRaises, TypeInv
  <2>. QED  BY <1>6, <2>1, <2>2, <2>3
<1>8. ASSUME NEW r \in Runs, Extracted(r) PROVE MessageInv'
  <2>1. InFlight(r) /\ Past(r) /\ Phase(r, "aggregate") /\ active' = active /\ log' = log
    BY <1>8 DEF Extracted, InFlight, Past
  <2>2. Goes(r, "aggregate")
    BY <2>1, GoesOn
  <2>. QED  BY <1>6, <2>1, <2>2
<1>9. ASSUME NEW r \in Runs, NEW found \in BOOLEAN, CommitRun(r, found) PROVE MessageInv'
  <2>1. InFlight(r) /\ Goes(r, "over")
    BY <1>9, Commits DEF InFlight, Past
  <2>2. active' = active \ {run[r].msg} /\ log' = [log EXCEPT ![run[r].msg] = "complete"]
    BY <1>9 DEF CommitRun
  <2>3. ~InFlight(r)'
    BY <2>1 DEF Goes, InFlight
  <2>. QED  BY <1>6, <2>1, <2>2, <2>3 DEF TypeInv
<1>10. ASSUME NEW r \in Runs, NEW n \in 1..MaxEpisodes, ReserveIds(r, n) PROVE MessageInv'
  <2>1. Reserves(r, n)
    BY <1>10, ReservesOn
  <2>2. InFlight(r) /\ active' = active /\ log' = log
    BY <1>10 DEF ReserveIds, InFlight
  <2>3. \A q \in Runs : /\ run[q] # Fresh <=> run'[q] # Fresh
                        /\ InFlight(q)' => InFlight(q)
                        /\ run'[q].msg = run[q].msg
    BY <1>1, <2>1, <2>2 DEF Reserves, InFlight
  <2>4. OneRunPerMessage'
    BY <2>3 DEF MessageInv, OneRunPerMessage
  <2>. QED  BY <1>1, <2>2, <2>3, <2>4 DEF MessageInv
<1>11. ASSUME ProcessDies PROVE MessageInv'
  <2>1. \A q \in Runs : /\ ~InFlight(q)' /\ (run'[q] = Fresh <=> run[q] = Fresh)
                        /\ run[q] # Fresh => run'[q].msg = run[q].msg
    BY <1>1, <1>11, Restarts
  <2>2. log' = log
    BY <1>11 DEF ProcessDies
  <2>. QED  BY <1>1, <2>1, <2>2 DEF MessageInv, OneRunPerMessage
<1>12. ASSUME UNCHANGED docVars PROVE MessageInv'
  BY <1>12 DEF docVars, MessageInv, OneRunPerMessage, InFlight
<1>. QED
  BY <1>3, <1>4, <1>5, <1>7, <1>8, <1>9, <1>10, <1>11, <1>12 DEF DocNext

LEMMA MessagesHold == ASSUME Assumptions PROVE DocSpec => [](TablesInv /\ MessageInv)
<1>1. DocInit => TablesInv /\ MessageInv
  <2>. SUFFICES ASSUME DocInit PROVE TablesInv /\ MessageInv
    OBVIOUS
  <2>1. /\ run = [r \in Runs |-> Fresh] /\ Fresh \in AnyRun /\ Fresh.phase = "new"
        /\ doc = [s \in Sources |-> {}] /\ sessions = {} /\ facts = {} /\ active = {}
        /\ tables.doc = doc /\ tables.sessions = {} /\ tables.facts = {}
    BY DEF DocInit, AnyRun, Fresh
  <2>2. /\ text = [s \in Sources |-> [p \in Parts |-> NoRun]]
        /\ current = [s \in Sources |-> [p \in Parts |-> NoRun]]
        /\ tables = [doc |-> doc, text |-> text, sessions |-> {}, facts |-> {}]
        /\ log = [m \in Runs |-> "none"] /\ worker = NoRun
    BY DEF DocInit
  <2>3. \A r \in Runs : run[r].phase = "new"
    BY <2>1
  <2>4. /\ doc \in [Sources -> SUBSET Episodes] /\ text \in [Sources -> Versions]
        /\ current \in [Sources -> Versions]
    BY <2>1, <2>2 DEF Versions
  <2>5. TypeInv
    BY <2>1, <2>2, <2>4 DEF TypeInv
  <2>6. BoundedBy(0)
    BY <2>1, <2>3 DEF BoundedBy, Within, Past
  <2>7. MessageInv
    BY <2>1, <2>2, <2>3 DEF MessageInv, OneRunPerMessage, InFlight
  <2>. QED  BY <2>5, <2>6, <2>7 DEF TablesInv
<1>2. TablesInv /\ MessageInv /\ [DocNext]_docVars => (TablesInv /\ MessageInv)'
  BY TablesStep, MessageStep
<1>. QED  BY <1>1, <1>2, PTL DEF DocSpec

(* The types, and that the worker is at a run in flight.                   *)
THEOREM DocTypeCorrect == ASSUME Assumptions PROVE DocSpec => []DocTypeOK
<1>1. TablesInv => DocTypeOK
  <2>. SUFFICES ASSUME TypeInv PROVE DocTypeOK
    BY DEF TablesInv
  <2>1. \A r \in Runs : run[r].phase \in RunPhases
    BY DEF TypeInv, AnyRun, Fresh, Queued, Begun, Ingesting, RunPhases
  <2>. QED  BY <2>1 DEF TypeInv, DocTypeOK, Versions
<1>. QED  BY <1>1, MessagesHold, PTL

(* Whatever fails, dies or arrives again, one call works on a message at a *)
(* time.                                                                   *)
THEOREM OneCallPerMessage == ASSUME Assumptions PROVE DocSpec => []OneRunPerMessage
<1>1. MessageInv => OneRunPerMessage
  BY DEF MessageInv
<1>. QED  BY <1>1, MessagesHold, PTL

-----------------------------------------------------------------------------
(* Good, of the state after a step. *)
GoodAfter(s, episodes) ==
  /\ \A e, f \in episodes : e.index = f.index \/ e.num = f.num => e = f
  /\ \A f \in facts' : f.source = s =>
       /\ \A e \in episodes : e.index = f.index => e.of = f.of
       /\ \E e \in episodes : f.index <= e.index
  /\ \A p \in Parts : current'[s][p] # NoRun => \E e \in episodes : e.part = p

OverStays ==
  \A q \in Runs : run[q].phase = "over" =>
    /\ run'[q].phase = "over"
    /\ run'[q].source = run[q].source /\ run'[q].part = run[q].part

(* A step that leaves the tables alone. *)
LEMMA QuietStep ==
  ASSUME TypeInv, CorpusInv, UNCHANGED <<doc, text, facts, current, tables>>,
         OverStays, Apart', OldIsCurrent',
         \A q \in Runs : Past(q)' =>
           /\ Past(q) /\ run'[q].source = run[q].source /\ run'[q].part = run[q].part
           /\ run'[q].episodes = run[q].episodes /\ run'[q].saved = run[q].saved
  PROVE  CorpusInv'
<1>1. \A z, D : Good(z, D)' <=> Good(z, D)
  BY DEF Good
<1>2. ReservedInCorpus'
  BY DEF CorpusInv, ReservedInCorpus
<1>3. SavedGood'
  BY <1>1 DEF CorpusInv, SavedGood
<1>4. CorpusGood'
  BY <1>1 DEF CorpusInv, CorpusGood
<1>5. \A f \in facts : f.of \in Runs
  BY DEF TypeInv, FactsOf
<1>6. FactsOwned' /\ FactsStored'
  BY <1>5 DEF CorpusInv, FactsOwned, FactsStored, OverStays
<1>7. \A f \in facts : run'[f.of].part = run[f.of].part
  BY <1>5 DEF CorpusInv, FactsOwned, OverStays
<1>8. CurrentIsActive'
  <2>. SUFFICES ASSUME NEW z \in Sources, NEW p \in Parts PROVE ActiveOf(z, p)' = ActiveOf(z, p)
    BY DEF CorpusInv, CurrentIsActive
  <2>. QED  BY <1>7 DEF ActiveOf
<1>. QED  BY <1>2, <1>3, <1>4, <1>6, <1>8 DEF CorpusInv

LEMMA QuietActions ==
  ASSUME Assumptions, PartsApart, TablesInv, MessageInv, CorpusInv, NEW r \in Runs,
         \/ \E s \in Sources, p \in Parts : Ingest(r, s, p) \/ Enqueue(r, s, p)
         \/ \E m \in Runs : Work(r, m)
         \/ Extracted(r) \/ AggregationRaises(r)
  PROVE  CorpusInv'
<1>. TypeInv
  BY DEF TablesInv
<1>1. ASSUME NEW s \in Sources, NEW p \in Parts, NEW m \in Runs, Starts(r, s, p, m),
             run[r].phase \in {"new", "queued"}, MayOverlap(s, p, m),
             \A q \in Runs : InFlight(q) => run[q].msg # m,
             UNCHANGED <<doc, text, facts, current, tables>>
      PROVE  CorpusInv'
  <2>1. OverStays
    BY <1>1 DEF OverStays, Starts
  <2>2. \A q \in Runs \ {r} : run'[q] = run[q] /\ (InFlight(q)' <=> InFlight(q))
    BY <1>1 DEF Starts, InFlight
  <2>3. \A q \in Runs \ {r} : InFlight(q) =>
          Overlap = "parts" /\ <<run[q].source, run[q].part>> # <<s, p>>
    BY <1>1 DEF MayOverlap, PartsApart
  <2>4. Apart'
    BY <1>1, <2>2, <2>3 DEF CorpusInv, Apart, Starts
  <2>5. OldIsCurrent'
    BY <1>1, <2>2 DEF CorpusInv, OldIsCurrent, Starts
  <2>6. \A q \in Runs : Past(q)' => Past(q) /\ run'[q] = run[q]
    BY <1>1 DEF Past, Starts
  <2>. QED  BY <1>1, <2>1, <2>4, <2>5, <2>6, QuietStep
<1>2. ASSUME NEW s \in Sources, NEW p \in Parts, Ingest(r, s, p) PROVE CorpusInv'
  <2>1. run[r] = Fresh /\ Begin(r, s, p, r) /\ MayOverlap(s, p, r)
    BY <1>2 DEF Ingest
  <2>2. run[r].phase = "new" /\ Starts(r, s, p, r)
    BY <2>1, StartsOn DEF Fresh
  <2>3. \A q \in Runs : InFlight(q) => run[q].msg # r
    <3>1. \A q \in Runs : InFlight(q) => run[q] # Fresh
      BY RunIs DEF InFlight
    <3>. QED  BY <2>1, <3>1 DEF MessageInv
  <2>. QED  BY <1>1, <1>2, <2>1, <2>2, <2>3 DEF Ingest
<1>3. ASSUME NEW m \in Runs, Work(r, m) PROVE CorpusInv'
  <2>1. /\ log[m] = "pending" /\ m \notin active /\ run[m] # Fresh
        /\ Begin(r, run[m].source, run[m].part, m)
        /\ MayOverlap(run[m].source, run[m].part, m)
        /\ run[r].phase \in {"queued", "new"}
    BY <1>3 DEF Work, Claims, MessageInv, Fresh
  <2>2. run[m].source \in Sources /\ run[m].part \in Parts
    BY <2>1, RunIs
  <2>3. Starts(r, run[m].source, run[m].part, m)
    BY <2>1, <2>2, StartsOn
  <2>4. \A q \in Runs : InFlight(q) => run[q].msg # m
    BY <2>1 DEF MessageInv
  <2>. QED  BY <1>1, <1>3, <2>1, <2>2, <2>3, <2>4 DEF Work
<1>4. ASSUME NEW s \in Sources, NEW p \in Parts, Enqueue(r, s, p) PROVE CorpusInv'
  <2>1. /\ run[r] = Fresh /\ UNCHANGED <<doc, text, facts, current, tables>>
        /\ run' = [run EXCEPT ![r] = [phase |-> "queued", source |-> s, part |-> p, msg |-> r]]
    BY <1>4 DEF Enqueue
  <2>2. run'[r].phase = "queued" /\ run[r].phase = "new" /\ \A q \in Runs \ {r} : run'[q] = run[q]
    BY <2>1 DEF TypeInv, Fresh
  <2>3. OverStays /\ \A q \in Runs : InFlight(q)' => InFlight(q) /\ run'[q] = run[q]
    BY <2>2 DEF OverStays, InFlight
  <2>4. \A q \in Runs : Past(q)' => Past(q) /\ run'[q] = run[q]
    BY <2>2 DEF Past
  <2>5. Apart' /\ OldIsCurrent'
    BY <2>1, <2>3 DEF CorpusInv, Apart, OldIsCurrent
  <2>. QED  BY <2>1, <2>3, <2>4, <2>5, QuietStep
<1>5. ASSUME NEW phase, InFlight(r), Goes(r, phase), phase = "aggregate" => Past(r),
             phase \in {"aggregate", "over"}, UNCHANGED <<doc, text, facts, current, tables>>
      PROVE  CorpusInv'
  <2>1. \A q \in Runs : /\ InFlight(q)' => InFlight(q)
                        /\ run'[q].source = run[q].source /\ run'[q].part = run[q].part
                        /\ run'[q].old = run[q].old
    BY <1>5 DEF Goes, InFlight
  <2>2. OverStays
    BY <1>5 DEF Goes, OverStays, InFlight
  <2>3. Apart' /\ OldIsCurrent'
    BY <1>5, <2>1 DEF CorpusInv, Apart, OldIsCurrent
  <2>4. \A q \in Runs : Past(q)' =>
          /\ Past(q) /\ run'[q].episodes = run[q].episodes /\ run'[q].saved = run[q].saved
    BY <1>5 DEF Goes, Past
  <2>. QED  BY <1>5, <2>1, <2>2, <2>3, <2>4, QuietStep
<1>6. ASSUME Extracted(r) PROVE CorpusInv'
  <2>1. InFlight(r) /\ Past(r) /\ Phase(r, "aggregate")
    BY <1>6 DEF Extracted, InFlight, Past
  <2>2. Goes(r, "aggregate")
    BY <2>1, GoesOn
  <2>. QED  BY <1>5, <1>6, <2>1, <2>2 DEF Extracted
<1>7. ASSUME AggregationRaises(r) PROVE CorpusInv'
  <2>1. InFlight(r) /\ Phase(r, "over")
    BY <1>7 DEF AggregationRaises, InFlight, Leaves
  <2>2. Goes(r, "over")
    BY <2>1, GoesOn
  <2>. QED  BY <1>5, <1>7, <2>1, <2>2 DEF AggregationRaises
<1>. QED  BY <1>2, <1>3, <1>4, <1>6, <1>7

-----------------------------------------------------------------------------
(* Facts and versions that a step leaves alone are as good as before.      *)
LEMMA FactsStay ==
  ASSUME TypeInv, CorpusInv, facts' = facts, current' = current, OverStays
  PROVE  /\ FactsOwned'
         /\ \A z \in Sources, p \in Parts : ActiveOf(z, p)' = ActiveOf(z, p)
         /\ \A z, D : Good(z, D)' <=> Good(z, D)
<1>1. \A f \in facts : f.of \in Runs
  BY DEF TypeInv, FactsOf
<1>2. \A f \in facts : run'[f.of].part = run[f.of].part
  BY <1>1 DEF CorpusInv, FactsOwned, OverStays
<1>3. FactsOwned'
  BY <1>1 DEF CorpusInv, FactsOwned, OverStays
<1>. QED  BY <1>2, <1>3 DEF ActiveOf, Good

(* A run that ends leaves the others where they are. *)
LEMMA EndsOn ==
  ASSUME TypeInv, CorpusInv, NEW r \in Runs, InFlight(r), Goes(r, "over")
  PROVE  /\ OverStays /\ Apart' /\ ~InFlight(r)' /\ ~Past(r)'
         /\ \A q \in Runs : InFlight(q)' => InFlight(q) /\ q # r /\ run'[q] = run[q]
         /\ \A q \in Runs : Past(q)' => Past(q) /\ InFlight(q) /\ q # r /\ run'[q] = run[q]
         /\ Overlap = "none" => \A q \in Runs : ~InFlight(q)' /\ ~Past(q)'
<1>1. \A q \in Runs : InFlight(q)' => InFlight(q) /\ q # r /\ run'[q] = run[q]
  BY DEF Goes, InFlight
<1>2. \A q \in Runs : Past(q)' => Past(q) /\ InFlight(q) /\ q # r /\ run'[q] = run[q]
  BY DEF Goes, Past, InFlight
<1>3. OverStays
  BY DEF OverStays, Goes, InFlight
<1>4. Apart'
  BY <1>1 DEF CorpusInv, Apart
<1>5. Overlap = "none" => \A q \in Runs : ~InFlight(q)' /\ ~Past(q)'
  BY <1>1, <1>2 DEF CorpusInv, Apart
<1>. QED  BY <1>1, <1>2, <1>3, <1>4, <1>5

LEMMA UnreadyCorpus ==
  ASSUME Assumptions, TablesInv, CorpusInv, NEW r \in Runs, Unready(r)
  PROVE  CorpusInv'
<1>. DEFINE s == run[r].source
            p == run[r].part
<1>. TypeInv
  BY DEF TablesInv
<1>1. InFlight(r) /\ Goes(r, "over") /\ run[r] \in Begun
  <2>1. run[r].phase = "canon" /\ InFlight(r) /\ Phase(r, "over")
    BY DEF Unready, InFlight, Leaves
  <2>. QED  BY <2>1, RunIs, GoesOn
<1>2. s \in Sources /\ p \in Parts
  BY <1>1 DEF Begun
<1>3. /\ text' = [text EXCEPT ![s][p] = r]
      /\ UNCHANGED <<doc, facts, current>>
      /\ tables'.doc = tables.doc /\ tables'.facts = tables.facts
      /\ tables'.text = [tables.text EXCEPT ![s] = text'[s]]
  BY DEF Unready, TypeInv
<1>4. \A z \in Sources, q \in Parts : text'[z][q] = IF z = s /\ q = p THEN r ELSE text[z][q]
  BY <1>2, <1>3 DEF TypeInv, Versions
<1>5. OldIsCurrent' /\ ReservedInCorpus'
  BY <1>1, <1>3, EndsOn DEF CorpusInv, OldIsCurrent, ReservedInCorpus
<1>6. SavedGood'
  BY <1>1, EndsOn DEF SavedGood
<1>7. CorpusGood' /\ FactsOwned'
  BY <1>1, <1>3, EndsOn, FactsStay DEF CorpusInv, CorpusGood
<1>8. FactsStored'
  BY <1>2, <1>3 DEF CorpusInv, FactsStored, TypeInv
<1>9. CurrentIsActive'
  <2>1. \A z \in Sources, q \in Parts : ActiveOf(z, q)' = ActiveOf(z, q)
    BY <1>1, <1>3, EndsOn, FactsStay
  <2>2. r # NoRun
    BY DEF Assumptions
  <2>. QED  BY <1>3, <1>4, <2>1, <2>2 DEF CorpusInv, CurrentIsActive
<1>. QED  BY <1>1, <1>5, <1>6, <1>7, <1>8, <1>9, EndsOn DEF CorpusInv

LEMMA ReserveCorpus ==
  ASSUME Assumptions, TablesInv, CorpusInv, NEW r \in Runs, NEW n \in 1..MaxEpisodes, ReserveIds(r, n)
  PROVE  CorpusInv'
<1>. DEFINE s == run[r].source
            p == run[r].part
<1>. TypeInv
  BY DEF TablesInv
<1>1. PICK b \in Nat : BoundedBy(b)
  BY DEF TablesInv
<1>2. Reserves(r, n)
  BY ReservesOn
<1>3. run[r].phase = "canon" /\ InFlight(r) /\ s \in Sources /\ p \in Parts
  BY RunIs DEF ReserveIds, Begun
<1>4. /\ doc' = [doc EXCEPT ![s] = {e \in doc[s] : e.part # p} \cup New(r, n)]
      /\ UNCHANGED <<text, facts, current, tables>>
  BY DEF ReserveIds, New, Replaced
<1>5. /\ New(r, n) \subseteq Episodes /\ New(r, n) # {}
      /\ \A e \in New(r, n) : /\ e.part = p /\ e.of = r
                              /\ e.index >= NextIndex(s) /\ e.num >= NextNum(s)
      /\ \A e, f \in New(r, n) : e.index = f.index \/ e.num = f.num => e = f
  BY <1>1, <1>3, NewAre
<1>6. /\ NextIndex(s) \in Nat /\ NextNum(s) \in Nat
      /\ \A e \in doc[s] : e.index < NextIndex(s) /\ e.num < NextNum(s)
  BY <1>1, <1>3, NextIs
<1>7. /\ \A e \in doc[s] : e.index \in Nat /\ e.num \in Nat
      /\ \A e \in New(r, n) : e.index \in Nat /\ e.num \in Nat
      /\ \A f \in facts : f.index \in Nat
  BY <1>3, <1>5 DEF TypeInv, Episodes, FactsOf
<1>8. \A z \in Sources : doc'[z] = IF z = s THEN {e \in doc[s] : e.part # p} \cup New(r, n) ELSE doc[z]
  BY <1>3, <1>4 DEF TypeInv
<1>9. /\ \A q \in Runs \ {r} : run'[q] = run[q]
      /\ \A q \in Runs : /\ InFlight(q)' <=> InFlight(q)
                         /\ run'[q].source = run[q].source /\ run'[q].part = run[q].part
                         /\ run'[q].old = run[q].old
      /\ \A q \in Runs \ {r} : Past(q)' => Past(q) /\ InFlight(q)
      /\ OverStays
  BY <1>2, <1>3 DEF Reserves, InFlight, Past, OverStays
<1>10. Apart' /\ OldIsCurrent'
  BY <1>4, <1>9 DEF CorpusInv, Apart, OldIsCurrent
<1>11. ReservedInCorpus'
  <2>1. /\ {e \in doc'[s] : e.part = p} = run'[r].episodes /\ run'[r].episodes # {}
        /\ \A e \in run'[r].episodes : e.of = r
    BY <1>2, <1>3, <1>5, <1>8 DEF Reserves
  <2>2. ASSUME NEW q \in Runs \ {r}, Past(q)'
        PROVE  {e \in doc'[run[q].source] : e.part = run[q].part} = run[q].episodes
    <3>1. Past(q) /\ run[q].source \in Sources /\ (run[q].source = s => run[q].part # p)
      BY <1>3, <1>9, <2>2, RunIs DEF CorpusInv, Apart, Ingesting
    <3>2. {e \in doc'[run[q].source] : e.part = run[q].part}
            = {e \in doc[run[q].source] : e.part = run[q].part}
      BY <1>5, <1>8, <3>1
    <3>. QED  BY <3>1, <3>2 DEF CorpusInv, ReservedInCorpus
  <2>. QED  BY <1>2, <1>9, <2>1, <2>2 DEF CorpusInv, ReservedInCorpus, Reserves
<1>12. \A z, D : Good(z, D)' <=> Good(z, D)
  BY <1>4, <1>9, FactsStay
<1>13. SavedGood'
  <2>. SUFFICES ASSUME Overlap = "none", NEW q \in Runs, Past(q)'
                PROVE  Good(run[q].source, run'[q].saved.doc) /\ run'[q].saved.text = text[run[q].source]
    BY <1>4, <1>9, <1>12 DEF SavedGood
  <2>1. q = r
    BY <1>3, <1>9 DEF CorpusInv, Apart
  <2>. QED  BY <1>2, <1>3, <2>1 DEF Reserves, CorpusInv, CorpusGood
<1>14. Good(s, doc'[s])
  <2>1. Good(s, doc[s])
    BY <1>3 DEF CorpusInv, CorpusGood
  <2>2. ASSUME NEW e \in doc'[s], NEW f \in doc'[s], e.index = f.index \/ e.num = f.num PROVE e = f
    <3>1. CASE e \in doc[s] /\ f \in doc[s]
      BY <2>1, <2>2, <3>1 DEF Good
    <3>2. CASE e \in New(r, n) /\ f \in New(r, n)
      BY <1>5, <2>2, <3>2
    <3>3. ASSUME NEW x \in doc[s], NEW y \in New(r, n) PROVE x.index # y.index /\ x.num # y.num
      BY <1>5, <1>6, <1>7
    <3>. QED  BY <1>3, <1>8, <2>2, <3>1, <3>2, <3>3
  <2>3. ASSUME NEW f \in facts, f.source = s
        PROVE  /\ \A e \in doc'[s] : e.index = f.index => e.of = f.of
               /\ \E e \in doc'[s] : f.index <= e.index
    <3>1. PICK x \in doc[s] : f.index <= x.index
      BY <2>1, <2>3 DEF Good
    <3>2. \A e \in New(r, n) : f.index < e.index
      BY <1>5, <1>6, <1>7, <3>1
    <3>3. doc'[s] \subseteq doc[s] \cup New(r, n) /\ New(r, n) \subseteq doc'[s]
      BY <1>3, <1>8
    <3>4. \A e \in New(r, n) : f.index # e.index /\ f.index <= e.index
      BY <1>7, <3>2
    <3>5. \A e \in doc[s] : e.index = f.index => e.of = f.of
      BY <2>1, <2>3 DEF Good
    <3>. QED  BY <1>5, <3>3, <3>4, <3>5
  <2>4. \A q \in Parts : current[s][q] # NoRun => \E e \in doc'[s] : e.part = q
    BY <1>3, <1>5, <1>8, <2>1 DEF Good
  <2>. QED  BY <2>2, <2>3, <2>4 DEF Good
<1>15. CorpusGood'
  <2>1. \A z \in Sources : Good(z, doc'[z])
    BY <1>8, <1>14 DEF CorpusInv, CorpusGood
  <2>. QED  BY <1>4, <1>12, <2>1 DEF CorpusInv, CorpusGood
<1>16. FactsStored' /\ FactsOwned' /\ CurrentIsActive'
  BY <1>4, <1>9, FactsStay DEF CorpusInv, FactsStored, CurrentIsActive
<1>. QED  BY <1>10, <1>11, <1>13, <1>15, <1>16 DEF CorpusInv

LEMMA ExtractionRaisesCorpus ==
  ASSUME Assumptions, PartsApart, TablesInv, CorpusInv, NEW r \in Runs, ExtractionRaises(r)
  PROVE  CorpusInv'
<1>. DEFINE s == run[r].source
<1>. TypeInv
  BY DEF TablesInv
<1>1. Past(r) /\ InFlight(r) /\ Goes(r, "over") /\ s \in Sources /\ Overlap = "none"
  <2>1. Past(r) /\ InFlight(r) /\ Phase(r, "over") /\ Overlap = "none"
    BY DEF ExtractionRaises, InFlight, Past, Leaves, PartsApart
  <2>. QED  BY <2>1, GoesOn, RunIs DEF Ingesting
<1>2. /\ doc' = [doc EXCEPT ![s] = run[r].saved.doc]
      /\ text' = [text EXCEPT ![s] = run[r].saved.text]
      /\ UNCHANGED <<facts, current, tables>>
  BY DEF ExtractionRaises, Restored
<1>3. Good(s, run[r].saved.doc) /\ run[r].saved.text = text[s]
  BY <1>1 DEF CorpusInv, SavedGood
<1>4. text' = text
  BY <1>1, <1>2, <1>3 DEF TypeInv
<1>5. OverStays /\ Apart' /\ \A q \in Runs : ~InFlight(q)' /\ ~Past(q)'
  BY <1>1, EndsOn
<1>6. \A z \in Sources : Good(z, doc'[z])
  BY <1>1, <1>2, <1>3 DEF CorpusInv, CorpusGood, TypeInv
<1>7. CorpusGood'
  BY <1>2, <1>5, <1>6, FactsStay DEF CorpusInv, CorpusGood
<1>8. FactsStored' /\ FactsOwned' /\ CurrentIsActive'
  BY <1>2, <1>4, <1>5, FactsStay DEF CorpusInv, FactsStored, CurrentIsActive
<1>. QED  BY <1>5, <1>7, <1>8 DEF CorpusInv, OldIsCurrent, ReservedInCorpus, SavedGood

-----------------------------------------------------------------------------
(* The facts that a commit leaves: those of other runs, those of the       *)
(* version before as superseded, and its own; and no two have one id.      *)
LEMMA CommitFacts ==
  ASSUME TypeInv, CorpusInv, NEW r \in Runs, CommitRun(r, TRUE)
  PROVE  /\ \A f \in facts' :
              \/ f \in facts /\ f.of # run[r].old
              \/ /\ f.status = "superseded"
                 /\ \E y \in facts : /\ f.source = y.source /\ f.index = y.index /\ f.of = y.of
                                     /\ y.of = run[r].old
              \/ f \in NewsOf(r)
         /\ \A f \in facts : f.of # run[r].old => f \in facts'
         /\ NewsOf(r) \subseteq facts'
         /\ \A y \in facts, f \in NewsOf(r) : y.source = f.source => y.index # f.index
         /\ \A f, g \in facts' : f.source = g.source /\ f.index = g.index => f = g
         /\ tables'.facts = facts'
<1>. DEFINE s == run[r].source
            old == run[r].old
            S == Superseded(facts, old)
            N == NewsOf(r)
<1>1. /\ Past(r) /\ run[r] \in Ingesting /\ run[r].phase = "aggregate"
      /\ facts' = Supersede(facts, old) \cup N /\ tables'.facts = FactRows(tables.facts, S \cup N)
  BY Commits
<1>2. s \in Sources
  BY <1>1 DEF Ingesting
<1>3. facts \subseteq FactsOf /\ tables.facts = facts
  BY DEF TypeInv, CorpusInv, FactsStored
<1>4. /\ \A x \in S :
           /\ x.status = "superseded"
           /\ \E y \in facts : /\ x.source = y.source /\ x.index = y.index /\ x.of = y.of
                               /\ y.of = old /\ x = [y EXCEPT !.status = "superseded"]
      /\ \A y \in facts : y.of = old => \E x \in S : x.source = y.source /\ x.index = y.index
  BY <1>3, SupersededFacts
<1>5. \A f \in N :
        /\ f.of = r /\ f.source = s
        /\ \E e \in run[r].episodes :
             /\ f = [source |-> s, index |-> e.index, num |-> e.num, of |-> r, status |-> "active"]
             /\ f.index = e.index
  BY <1>1, WrittenAre
<1>6. facts' = {f \in facts : f.of # old} \cup S \cup N
  BY <1>1 DEF Supersede
<1>7. tables'.facts = {f \in facts : <<f.source, f.index>> \notin {<<n.source, n.index>> : n \in S \cup N}}
                     \cup S \cup N
  BY <1>1, <1>3 DEF FactRows
<1>8. /\ run[r].episodes \subseteq doc[s]
      /\ \A e \in run[r].episodes : e.of = r
      /\ Good(s, doc[s])
  BY <1>1, <1>2 DEF CorpusInv, ReservedInCorpus, CorpusGood
<1>. HIDE DEF S, N, s, old
<1>9. ASSUME NEW y \in facts, NEW f \in N, y.source = f.source PROVE y.index # f.index
  <2>1. PICK e \in run[r].episodes : f.index = e.index
    BY <1>5
  <2>2. y.source = s /\ e \in doc[s] /\ e.of = r
    BY <1>5, <1>8, <1>9
  <2>3. y.index = e.index => y.of = r
    BY <1>8, <2>2 DEF Good
  <2>4. y.of # r
    BY <1>1, <1>9 DEF CorpusInv, FactsOwned
  <2>. QED  BY <2>1, <2>3, <2>4
<1>10. \A f, g \in facts : f.source = g.source /\ f.index = g.index => f = g
  BY DEF CorpusInv, FactsOwned
<1>11. ASSUME NEW f \in facts', NEW g \in facts', f.source = g.source, f.index = g.index PROVE f = g
  <2>. DEFINE Old(y) == [y EXCEPT !.status = "superseded"]
  <2>1. ASSUME NEW x \in facts', x \notin N
        PROVE  \E y \in facts : /\ x.source = y.source /\ x.index = y.index
                                /\ y.of # old => x = y
                                /\ y.of = old => x = Old(y)
    BY <1>4, <1>6, <2>1
  <2>. HIDE DEF Old
  <2>2. CASE f \notin N /\ g \notin N
    <3>1. PICK y \in facts : /\ f.source = y.source /\ f.index = y.index
                             /\ y.of # old => f = y
                             /\ y.of = old => f = Old(y)
      BY <2>1, <2>2
    <3>2. PICK z \in facts : /\ g.source = z.source /\ g.index = z.index
                             /\ z.of # old => g = z
                             /\ z.of = old => g = Old(z)
      BY <2>1, <2>2
    <3>3. y = z
      BY <1>10, <1>11, <3>1, <3>2
    <3>. QED  BY <3>1, <3>2, <3>3
  <2>3. CASE f \in N /\ g \in N
    <3>1. PICK e \in run[r].episodes :
            /\ f = [source |-> s, index |-> e.index, num |-> e.num, of |-> r, status |-> "active"]
            /\ f.index = e.index
      BY <1>5, <2>3
    <3>2. PICK d \in run[r].episodes :
            /\ g = [source |-> s, index |-> d.index, num |-> d.num, of |-> r, status |-> "active"]
            /\ g.index = d.index
      BY <1>5, <2>3
    <3>3. e = d
      BY <1>8, <1>11, <3>1, <3>2 DEF Good
    <3>. QED  BY <3>1, <3>2, <3>3
  <2>4. ASSUME NEW x \in facts', NEW n \in N, x \notin N, x.source = n.source PROVE x.index # n.index
    <3>1. PICK y \in facts : x.source = y.source /\ x.index = y.index
      BY <2>1, <2>4
    <3>. QED  BY <1>9, <2>4, <3>1
  <2>. QED  BY <1>11, <2>2, <2>3, <2>4
<1>12. tables'.facts = facts'
  <2>1. ASSUME NEW y \in facts
        PROVE  <<y.source, y.index>> \in {<<n.source, n.index>> : n \in S \cup N} <=> y.of = old
    <3>1. ASSUME y.of = old PROVE <<y.source, y.index>> \in {<<n.source, n.index>> : n \in S \cup N}
      BY <1>4, <3>1
    <3>2. ASSUME NEW n \in S \cup N, <<y.source, y.index>> = <<n.source, n.index>> PROVE y.of = old
      <4>1. y.source = n.source /\ y.index = n.index
        BY <3>2
      <4>2. n \in S
        BY <1>9, <4>1
      <4>3. PICK x \in facts : n.source = x.source /\ n.index = x.index /\ x.of = old
        BY <1>4, <4>2
      <4>. QED  BY <1>10, <4>1, <4>3
    <3>. QED  BY <3>1, <3>2
  <2>. QED  BY <1>6, <1>7, <2>1
<1>13. \A f \in facts' :
         \/ f \in facts /\ f.of # old
         \/ /\ f.status = "superseded"
            /\ \E y \in facts : /\ f.source = y.source /\ f.index = y.index /\ f.of = y.of
                                /\ y.of = old
         \/ f \in N
  BY <1>4, <1>6
<1>14. (\A f \in facts : f.of # old => f \in facts') /\ N \subseteq facts'
  BY <1>6
<1>. QED  BY <1>9, <1>11, <1>12, <1>13, <1>14 DEF old, N

LEMMA CommitCorpus ==
  ASSUME Assumptions, TablesInv, CorpusInv, NEW r \in Runs, NEW found \in BOOLEAN, CommitRun(r, found)
  PROVE  CorpusInv'
<1>. DEFINE s == run[r].source
            p == run[r].part
            old == run[r].old
<1>. TypeInv
  BY DEF TablesInv
<1>1. /\ Past(r) /\ InFlight(r) /\ Goes(r, "over") /\ run[r] \in Ingesting
      /\ doc' = Replaced(s, p, run[r].episodes)
      /\ text' = [text EXCEPT ![s][p] = r]
      /\ tables'.doc = [tables.doc EXCEPT ![s] = doc'[s]]
      /\ tables'.text = [tables.text EXCEPT ![s] = text'[s]]
  BY Commits DEF Past, InFlight
<1>2. s \in Sources /\ p \in Parts
  BY <1>1 DEF Ingesting
<1>3. /\ {e \in doc[s] : e.part = p} = run[r].episodes /\ run[r].episodes # {}
      /\ \A e \in run[r].episodes : e.of = r
      /\ old = current[s][p]
  BY <1>1 DEF CorpusInv, ReservedInCorpus, OldIsCurrent
<1>4. doc' = doc
  BY <1>1, <1>2, <1>3 DEF Replaced, TypeInv
<1>5. \A z \in Sources, q \in Parts : text'[z][q] = IF z = s /\ q = p THEN r ELSE text[z][q]
  BY <1>1, <1>2 DEF TypeInv, Versions
<1>6. tables'.text = text'
  BY <1>1, <1>2 DEF CorpusInv, FactsStored, TypeInv
<1>7. \A z \in Sources : tables'.doc[z] = IF z = s THEN doc[s] ELSE tables.doc[z]
  BY <1>1, <1>2, <1>4 DEF TypeInv
<1>8. /\ OverStays /\ Apart'
      /\ \A q \in Runs : InFlight(q)' => InFlight(q) /\ q # r /\ run'[q] = run[q]
      /\ \A q \in Runs : Past(q)' => Past(q) /\ run'[q] = run[q]
      /\ SavedGood'
  BY <1>1, EndsOn DEF SavedGood
<1>9. ReservedInCorpus'
  BY <1>4, <1>8 DEF CorpusInv, ReservedInCorpus
<1>10. r # NoRun
  BY DEF Assumptions
<1>11. CASE ~found
  <2>1. facts' = facts /\ current' = current /\ tables'.facts = tables.facts
    BY <1>11, Commits
  <2>2. OldIsCurrent'
    BY <1>8, <2>1 DEF CorpusInv, OldIsCurrent
  <2>3. CorpusGood'
    BY <1>4, <1>7, <1>8, <2>1, FactsStay DEF CorpusInv, CorpusGood
  <2>4. FactsOwned' /\ FactsStored' /\ CurrentIsActive'
    BY <1>5, <1>6, <1>8, <1>10, <2>1, FactsStay DEF CorpusInv, FactsStored, CurrentIsActive
  <2>. QED  BY <1>8, <1>9, <2>2, <2>3, <2>4 DEF CorpusInv
<1>12. CASE found
  <2>. DEFINE N == NewsOf(r)
  <2>. CommitRun(r, TRUE)
    BY <1>12
  <2>1. /\ \A f \in facts' :
             \/ f \in facts /\ f.of # old
             \/ /\ f.status = "superseded"
                /\ \E y \in facts : /\ f.source = y.source /\ f.index = y.index /\ f.of = y.of
                                    /\ y.of = old
             \/ f \in N
        /\ \A f \in facts : f.of # old => f \in facts'
        /\ N \subseteq facts'
        /\ \A f, g \in facts' : f.source = g.source /\ f.index = g.index => f = g
        /\ tables'.facts = facts'
    BY CommitFacts
  <2>2. \A f \in N : /\ f.of = r /\ f.source = s /\ f.status = "active"
                     /\ \E e \in run[r].episodes : f.index = e.index
    BY <1>1, WrittenAre
  <2>3. \E f \in N : f.of = r
    BY <1>1, <1>3, WrittenAre
  <2>4. current' = [current EXCEPT ![s][p] = r]
    BY Commits
  <2>5. \A z \in Sources, q \in Parts : current'[z][q] = IF z = s /\ q = p THEN r ELSE current[z][q]
    BY <1>2, <2>4 DEF TypeInv, Versions
  <2>. HIDE DEF N
  <2>6. OldIsCurrent'
    <3>. SUFFICES ASSUME NEW q \in Runs, InFlight(q)'
                  PROVE  run[q].old = current'[run[q].source][run[q].part]
      BY <1>8 DEF OldIsCurrent
    <3>1. InFlight(q) /\ q # r /\ run[q].source \in Sources /\ run[q].part \in Parts
      BY <1>8, RunIs DEF InFlight, Fresh
    <3>2. <<run[q].source, run[q].part>> # <<s, p>>
      BY <1>1, <3>1 DEF CorpusInv, Apart
    <3>. QED  BY <2>5, <3>1, <3>2 DEF CorpusInv, OldIsCurrent
  <2>7. ASSUME NEW z \in Sources, NEW D, Good(z, D), z = s => D = doc[s] PROVE Good(z, D)'
    <3>1. ASSUME NEW f \in facts', f.source = z
          PROVE  /\ \A e \in D : e.index = f.index => e.of = f.of
                 /\ \E e \in D : f.index <= e.index
      <4>1. CASE f \in N
        <5>1. PICK d \in run[r].episodes : f.index = d.index
          BY <2>2, <4>1
        <5>2. d \in D /\ d.of = r /\ f.of = r
          BY <1>3, <2>2, <2>7, <3>1, <4>1, <5>1
        <5>3. d.index \in Nat
          <6>1. d \in Episodes
            BY <1>1, <5>1 DEF Ingesting
          <6>. QED  BY <6>1 DEF Episodes
        <5>4. \A e \in D : e.index = f.index => e = d
          BY <2>7, <5>1, <5>2 DEF Good
        <5>. QED  BY <5>1, <5>2, <5>3, <5>4
      <4>2. CASE f \notin N
        <5>1. PICK y \in facts : f.source = y.source /\ f.index = y.index /\ f.of = y.of
          BY <2>1, <4>2
        <5>. QED  BY <2>7, <3>1, <5>1 DEF Good
      <4>. QED  BY <4>1, <4>2
    <3>2. \A q \in Parts : current'[z][q] # NoRun => \E e \in D : e.part = q
      <4>1. z = s => \E e \in D : e.part = p
        BY <1>3, <2>7
      <4>. QED  BY <2>5, <2>7, <4>1 DEF Good
    <3>. QED  BY <2>7, <3>1, <3>2 DEF Good
  <2>8. CorpusGood'
    <3>1. \A z \in Sources : Good(z, doc[z])' 
      BY <1>4, <2>7 DEF CorpusInv, CorpusGood
    <3>2. ASSUME NEW z \in Sources PROVE Good(z, tables.doc[z])'
      <4>1. CASE z = s
        BY <1>4, <1>7, <3>1, <4>1
      <4>2. CASE z # s
        <5>1. tables'.doc[z] = tables.doc[z] /\ Good(z, tables.doc[z])
          BY <1>7, <4>2 DEF CorpusInv, CorpusGood
        <5>2. ASSUME NEW D, D = tables.doc[z] PROVE Good(z, D)'
          BY <2>7, <4>2, <5>1, <5>2
        <5>. QED  BY <5>1, <5>2
      <4>. QED  BY <4>1, <4>2
    <3>. QED  BY <3>1, <3>2 DEF CorpusGood
  <2>9. FactsOwned'
    <3>1. ASSUME NEW f \in facts' PROVE run'[f.of].phase = "over" /\ run'[f.of].source = f.source
      <4>1. CASE f \in N
        BY <1>1, <2>2, <4>1 DEF Goes
      <4>2. CASE f \notin N
        <5>1. PICK y \in facts : f.source = y.source /\ f.of = y.of
          BY <2>1, <4>2
        <5>2. y.of \in Runs
          BY DEF TypeInv, FactsOf
        <5>. QED  BY <1>8, <5>1, <5>2 DEF CorpusInv, FactsOwned, OverStays
      <4>. QED  BY <4>1, <4>2
    <3>. QED  BY <2>1, <3>1 DEF FactsOwned
  <2>10. FactsStored'
    BY <1>6, <2>1 DEF FactsStored
  <2>11. \A f \in facts : f.of \in Runs /\ run'[f.of].part = run[f.of].part
    <3>1. \A f \in facts : f.of \in Runs
      BY DEF TypeInv, FactsOf
    <3>. QED  BY <1>8, <3>1 DEF CorpusInv, FactsOwned, OverStays
  <2>12. ASSUME NEW z \in Sources, NEW q \in Parts, z = s, q = p PROVE ActiveOf(z, q)' = {r}
    <3>1. \A f \in facts : f.status = "active" /\ f.source = s /\ run[f.of].part = p => f.of = old
      <4>1. ActiveOf(s, p) = {old} \ {NoRun}
        BY <1>2, <1>3 DEF CorpusInv, CurrentIsActive
      <4>. HIDE DEF s, p, old
      <4>2. \A f \in facts : f.status = "active" /\ f.source = s /\ run[f.of].part = p => f.of \in ActiveOf(s, p)
        BY DEF ActiveOf
      <4>. QED  BY <4>1, <4>2
    <3>2. \A f \in facts' : f.status = "active" /\ f.source = s /\ run'[f.of].part = p => f.of = r
      BY <2>1, <2>2, <2>11, <3>1
    <3>3. run'[r].part = p
      BY <1>1 DEF Goes
    <3>4. \E f \in facts' : f.status = "active" /\ f.source = s /\ run'[f.of].part = p /\ f.of = r
      BY <2>1, <2>2, <2>3, <3>3
    <3>. DEFINE A == {x \in facts' : x.status = "active" /\ x.source = z /\ run'[x.of].part = q}
    <3>5. ActiveOf(z, q)' = {f.of : f \in A}
      BY DEF ActiveOf
    <3>6. (\A f \in A : f.of = r) /\ \E f \in A : f.of = r
      BY <2>12, <3>2, <3>4
    <3>. HIDE DEF A
    <3>. QED  BY <3>5, <3>6
  <2>13. ASSUME NEW z \in Sources, NEW q \in Parts, z # s \/ q # p
         PROVE  ActiveOf(z, q)' = ActiveOf(z, q)
    <3>1. ASSUME NEW f \in facts, f.of = old PROVE f.source = s /\ run[f.of].part = p
      <4>1. old \in ActiveOf(s, p)
        BY <1>2, <1>3, <2>11, <3>1 DEF CorpusInv, CurrentIsActive, Assumptions
      <4>2. PICK g \in facts : g.of = old /\ g.source = s /\ run[g.of].part = p
        BY <4>1 DEF ActiveOf
      <4>. QED  BY <3>1, <4>2 DEF CorpusInv, FactsOwned
    <3>2. run'[r].part = p
      BY <1>1 DEF Goes
    <3>3. \A f : (f \in facts' /\ f.status = "active" /\ f.source = z /\ run'[f.of].part = q)
               <=> (f \in facts /\ f.status = "active" /\ f.source = z /\ run[f.of].part = q)
      BY <2>1, <2>2, <2>11, <2>13, <3>1, <3>2
    <3>. QED  BY <3>3 DEF ActiveOf
  <2>14. CurrentIsActive'
    <3>. SUFFICES ASSUME NEW z \in Sources, NEW q \in Parts
                  PROVE  /\ ActiveOf(z, q)' = {current'[z][q]} \ {NoRun}
                         /\ current'[z][q] # NoRun => text'[z][q] # NoRun
      BY DEF CurrentIsActive
    <3>1. CASE z = s /\ q = p
      BY <1>5, <1>10, <2>5, <2>12, <3>1
    <3>2. CASE z # s \/ q # p
      <4>1. current'[z][q] = current[z][q] /\ text'[z][q] = text[z][q]
        BY <1>5, <2>5, <3>2
      <4>. QED  BY <2>13, <3>2, <4>1 DEF CorpusInv, CurrentIsActive
    <3>. QED  BY <3>1, <3>2
  <2>. QED  BY <1>8, <1>9, <2>6, <2>8, <2>9, <2>10, <2>14 DEF CorpusInv
<1>. QED  BY <1>11, <1>12

LEMMA RestartCorpus ==
  ASSUME Assumptions, TablesInv, CorpusInv, ProcessDies
  PROVE  CorpusInv'
<1>. TypeInv
  BY DEF TablesInv
<1>1. /\ doc' = tables.doc /\ text' = text /\ facts' = facts /\ tables' = tables
      /\ current' \in [Sources -> [Parts -> Runs \cup {NoRun}]]
  BY DEF ProcessDies, CorpusInv, FactsStored
<1>2. \A q \in Runs : ~InFlight(q)' /\ ~Past(q)'
  BY Restarts
<1>3. OverStays
  BY Restarts, RunIs DEF OverStays
<1>4. ASSUME NEW z \in Sources, NEW q \in Parts PROVE current'[z][q] = current[z][q]
  <2>. DEFINE versions == {r \in Runs : \E f \in tables.facts : /\ f.of = r /\ f.status = "active"
                                                              /\ run[r].source = z /\ run[r].part = q}
  <2>1. current'[z][q] \in IF versions = {} THEN {NoRun} ELSE versions
    <3>1. \A y \in Sources, p \in Parts :
            LET v == {r \in Runs : \E f \in tables.facts : /\ f.of = r /\ f.status = "active"
                                                         /\ run[r].source = y /\ run[r].part = p}
            IN current'[y][p] \in IF v = {} THEN {NoRun} ELSE v
      BY DEF ProcessDies
    <3>. QED  BY <3>1
  <2>2. \A f \in facts : f.of \in Runs /\ run[f.of].source = f.source
    BY DEF TypeInv, FactsOf, CorpusInv, FactsOwned
  <2>3. versions = ActiveOf(z, q)
    BY <2>2 DEF ActiveOf, CorpusInv, FactsStored
  <2>4. ActiveOf(z, q) = {current[z][q]} \ {NoRun}
    BY DEF CorpusInv, CurrentIsActive
  <2>. QED  BY <2>1, <2>3, <2>4
<1>5. current' = current
  BY <1>1, <1>4 DEF TypeInv, Versions
<1>6. CorpusGood'
  BY <1>1, <1>3, <1>5, FactsStay DEF CorpusInv, CorpusGood
<1>7. FactsStored' /\ FactsOwned' /\ CurrentIsActive'
  BY <1>1, <1>3, <1>5, FactsStay DEF CorpusInv, FactsStored, CurrentIsActive
<1>. QED  BY <1>2, <1>6, <1>7 DEF CorpusInv, Apart, OldIsCurrent, ReservedInCorpus, SavedGood

LEMMA CorpusHolds ==
  ASSUME Assumptions, PartsApart
  PROVE  DocSpec => [](TablesInv /\ MessageInv /\ CorpusInv)
<1>1. DocInit => CorpusInv
  <2>. SUFFICES ASSUME DocInit PROVE CorpusInv
    OBVIOUS
  <2>1. /\ doc = [s \in Sources |-> {}] /\ tables.doc = doc /\ facts = {} /\ tables.facts = {}
        /\ current = [s \in Sources |-> [p \in Parts |-> NoRun]] /\ tables.text = text
    BY DEF DocInit
  <2>2. \A r \in Runs : ~InFlight(r) /\ ~Past(r)
    BY DEF DocInit, Fresh, InFlight, Past
  <2>3. \A s \in Sources, p \in Parts : current[s][p] = NoRun /\ ActiveOf(s, p) = {}
    BY <2>1 DEF ActiveOf
  <2>4. CorpusGood
    BY <2>1, <2>3 DEF CorpusGood, Good
  <2>5. FactsStored /\ FactsOwned /\ CurrentIsActive
    BY <2>1, <2>3 DEF FactsStored, FactsOwned, CurrentIsActive
  <2>. QED  BY <2>2, <2>4, <2>5 DEF CorpusInv, Apart, OldIsCurrent, ReservedInCorpus, SavedGood
<1>2. ASSUME TablesInv, MessageInv, CorpusInv, [DocNext]_docVars PROVE CorpusInv'
  <2>1. ASSUME UNCHANGED docVars PROVE CorpusInv'
    <3>1. TypeInv /\ OverStays /\ Apart' /\ OldIsCurrent'
      BY <1>2, <2>1 DEF docVars, TablesInv, OverStays, CorpusInv, Apart, OldIsCurrent, InFlight
    <3>2. UNCHANGED <<doc, text, facts, current, tables>> /\ run' = run
      BY <2>1 DEF docVars
    <3>. QED  BY <1>2, <3>1, <3>2, QuietStep DEF Past
  <2>. QED
    BY <1>2, <2>1, QuietActions, UnreadyCorpus, ReserveCorpus, ExtractionRaisesCorpus,
       CommitCorpus, RestartCorpus DEF DocNext
<1>3. TablesInv /\ MessageInv /\ CorpusInv /\ [DocNext]_docVars => CorpusInv'
  BY <1>2
<1>. QED  BY <1>1, <1>3, MessagesHold, PTL DEF DocSpec

(* Parts ingested together never reserve one id twice: nor does a part     *)
(* that is ingested after others have failed, been replaced or died.       *)
THEOREM IdsNeverClash ==
  ASSUME Assumptions, PartsApart
  PROVE  DocSpec => []EpisodeIdsDiffer
<1>1. ASSUME TypeInv, CorpusInv PROVE EpisodeIdsDiffer
  <2>. DEFINE Corpus(r) == UNION {{<<s, e.index>> : e \in {x \in doc[s] : x.of = r}} : s \in Sources}
              Flying(r) == IF InFlight(r) /\ run[r].phase # "canon"
                           THEN {<<run[r].source, e.index>> : e \in run[r].episodes} ELSE {}
              Behind(r) == {<<f.source, f.index>> : f \in {x \in facts : x.of = r}}
  <2>1. ASSUME NEW r \in Runs, NEW k \in Corpus(r) \cup Flying(r) \cup Behind(r)
        PROVE  \E s \in Sources :
                 \/ \E e \in doc[s] : k = <<s, e.index>> /\ e.of = r
                 \/ \E f \in facts : k = <<s, f.index>> /\ f.source = s /\ f.of = r
    <3>1. ASSUME k \in Corpus(r)
          PROVE  \E s \in Sources : \E e \in doc[s] : k = <<s, e.index>> /\ e.of = r
      BY <3>1
    <3>2. ASSUME k \in Flying(r)
          PROVE  \E s \in Sources : \E e \in doc[s] : k = <<s, e.index>> /\ e.of = r
      <4>1. Past(r) /\ run[r].source \in Sources
        BY <1>1, <3>2, RunIs DEF Ingesting
      <4>2. PICK e \in run[r].episodes : k = <<run[r].source, e.index>>
        BY <3>2
      <4>3. e \in doc[run[r].source] /\ e.of = r
        BY <1>1, <4>1 DEF CorpusInv, ReservedInCorpus
      <4>. QED  BY <4>1, <4>2, <4>3
    <3>3. ASSUME k \in Behind(r)
          PROVE  \E s \in Sources : \E f \in facts : k = <<s, f.index>> /\ f.source = s /\ f.of = r
      <4>1. PICK f \in facts : k = <<f.source, f.index>> /\ f.of = r
        BY <3>3
      <4>2. f.source \in Sources
        BY <1>1 DEF TypeInv, FactsOf
      <4>. QED  BY <4>1, <4>2
    <3>. HIDE DEF Corpus, Flying, Behind
    <3>. QED  BY <2>1, <3>1, <3>2, <3>3
  <2>2. ASSUME NEW r \in Runs, NEW q \in Runs, NEW k,
               k \in Corpus(r) \cup Flying(r) \cup Behind(r),
               k \in Corpus(q) \cup Flying(q) \cup Behind(q)
        PROVE  r = q
    <3>. HIDE DEF Corpus, Flying, Behind
    <3>1. PICK s \in Sources :
                 \/ \E e \in doc[s] : k = <<s, e.index>> /\ e.of = r
                 \/ \E f \in facts : k = <<s, f.index>> /\ f.source = s /\ f.of = r
      BY <2>1, <2>2
    <3>2. PICK z \in Sources :
                 \/ \E e \in doc[z] : k = <<z, e.index>> /\ e.of = q
                 \/ \E f \in facts : k = <<z, f.index>> /\ f.source = z /\ f.of = q
      BY <2>1, <2>2
    <3>3. s = z
      BY <3>1, <3>2
    <3>4. /\ \A e, f \in doc[s] : e.index = f.index => e.of = f.of
          /\ \A f \in facts, e \in doc[s] : f.source = s /\ e.index = f.index => e.of = f.of
          /\ \A f, g \in facts : f.source = s /\ g.source = s /\ f.index = g.index => f.of = g.of
      BY <1>1 DEF CorpusInv, CorpusGood, Good, FactsOwned
    <3>. QED  BY <3>1, <3>2, <3>3, <3>4
  <2>3. \A r, q \in Runs : r # q =>
          (Corpus(r) \cup Flying(r) \cup Behind(r)) \cap (Corpus(q) \cup Flying(q) \cup Behind(q)) = {}
    <3>. HIDE DEF Corpus, Flying, Behind
    <3>. QED  BY <2>2
  <2>. QED  BY <2>3 DEF EpisodeIdsDiffer
<1>2. TablesInv /\ MessageInv /\ CorpusInv => EpisodeIdsDiffer
  BY <1>1 DEF TablesInv
<1>. QED  BY <1>2, CorpusHolds, PTL

(* What a commit has made of a part is not undone by the failure, the      *)
(* reservation or the commit of another, nor by a restart.                 *)
THEOREM CommittedPartsStay ==
  ASSUME Assumptions, PartsApart
  PROVE  DocSpec => []CommittedStays
<1>1. ASSUME CorpusInv PROVE CommittedStays
  <2>. SUFFICES ASSUME NEW s \in Sources, NEW p \in Parts, current[s][p] # NoRun
                PROVE  /\ text[s][p] # NoRun
                       /\ \E e \in doc[s] : e.part = p
                       /\ ActiveOf(s, p) = {current[s][p]}
    BY DEF CommittedStays, ActiveOf
  <2>. QED  BY <1>1 DEF CorpusInv, CurrentIsActive, CorpusGood, Good
<1>2. TablesInv /\ MessageInv /\ CorpusInv => CommittedStays
  BY <1>1
<1>. QED  BY <1>2, CorpusHolds, PTL

-----------------------------------------------------------------------------
LEMMA OthersOfSource ==
  ASSUME TypeInv, SameSource, CorpusInv, NEW r \in Runs, InFlight(r), NEW q \in Runs, q # r, Past(q)
  PROVE  /\ run[q].source = run[r].source /\ run[r].source \in Sources
         /\ run[q].episodes \subseteq doc[run[r].source]
         /\ \A e \in run[q].episodes : e.of = q
<1>1. run[r].source \in Sources /\ run[q].source \in Sources
  BY RunIs DEF InFlight, Fresh, Past
<1>2. InFlight(q)
  BY DEF InFlight, Past
<1>3. run[q].source = run[r].source
  BY <1>1, <1>2 DEF CorpusInv, Apart, SameSource
<1>. QED  BY <1>1, <1>3 DEF CorpusInv, ReservedInCorpus

LEMMA CommitSessions ==
  ASSUME TypeInv, SameSource, CorpusInv, SessionsInv,
         NEW r \in Runs, NEW found \in BOOLEAN, CommitRun(r, found)
  PROVE  SessionsInv'
<1>. DEFINE s == run[r].source
            old == run[r].old
            S == Superseded(sessions, old)
            R == RowsOf(r)
<1>1. /\ Past(r) /\ InFlight(r) /\ run[r] \in Ingesting /\ Goes(r, "over")
      /\ sessions' = Supersede(sessions, old) \cup R
      /\ tables'.sessions = SessionRows(tables.sessions, S \cup R)
  BY Commits DEF Past, InFlight
<1>2. s \in Sources
  BY <1>1 DEF Ingesting
<1>3. sessions \subseteq Rows /\ tables.sessions = sessions
  BY DEF TypeInv, SessionsInv
<1>4. /\ \A x \in S : \E y \in sessions :
           /\ x.num = y.num /\ y.of = old /\ x = [y EXCEPT !.status = "superseded"]
      /\ \A y \in sessions : y.of = old => \E x \in S : x.num = y.num
  <2>1. \A y \in sessions : LET x == [y EXCEPT !.status = "superseded"] IN x.num = y.num
    BY <1>3 DEF Rows
  <2>. QED  BY <2>1 DEF Superseded
<1>5. \A x \in R : \E e \in run[r].episodes :
        x = [num |-> e.num, of |-> r, status |-> "active"] /\ x.num = e.num
  BY DEF RowsOf
<1>6. sessions' = {x \in sessions : x.of # old} \cup S \cup R
  BY <1>1 DEF Supersede
<1>7. tables'.sessions = {x \in sessions : x.num \notin {n.num : n \in S \cup R}} \cup S \cup R
  BY <1>1, <1>3 DEF SessionRows
<1>8. run[r].episodes \subseteq doc[s] /\ Good(s, doc[s]) /\ \A e \in run[r].episodes : e.of = r
  BY <1>1, <1>2 DEF CorpusInv, ReservedInCorpus, CorpusGood
<1>9. /\ \A x, y \in sessions : x.num = y.num => x = y
      /\ \A e \in run[r].episodes, x \in sessions : e.num # x.num
  BY <1>1 DEF SessionsInv
<1>. HIDE DEF S, R, s, old
<1>10. \A x \in sessions, y \in R : x.num # y.num
  BY <1>5, <1>9
<1>11. \A x \in sessions : x.num \in {n.num : n \in S \cup R} <=> x.of = old
  <2>1. ASSUME NEW x \in sessions, x.of = old PROVE x.num \in {n.num : n \in S \cup R}
    BY <1>4, <2>1
  <2>2. ASSUME NEW x \in sessions, NEW n \in S \cup R, x.num = n.num PROVE x.of = old
    <3>1. n \in S
      BY <1>10, <2>2
    <3>2. PICK y \in sessions : n.num = y.num /\ y.of = old
      BY <1>4, <3>1
    <3>. QED  BY <1>9, <2>2, <3>2
  <2>. QED  BY <2>1, <2>2
<1>12. sessions' = tables'.sessions
  BY <1>6, <1>7, <1>11
<1>13. ASSUME NEW x \in sessions', NEW y \in sessions', x.num = y.num PROVE x = y
  <2>. DEFINE Old(z) == [z EXCEPT !.status = "superseded"]
  <2>1. ASSUME NEW z \in sessions', z \notin R
        PROVE  \E w \in sessions : z.num = w.num /\ z = (IF w.of = old THEN Old(w) ELSE w)
    BY <1>4, <1>6, <2>1
  <2>. HIDE DEF Old
  <2>2. CASE x \notin R /\ y \notin R
    <3>1. PICK v \in sessions : x.num = v.num /\ x = IF v.of = old THEN Old(v) ELSE v
      BY <2>1, <2>2
    <3>2. PICK w \in sessions : y.num = w.num /\ y = IF w.of = old THEN Old(w) ELSE w
      BY <2>1, <2>2
    <3>3. v = w
      BY <1>9, <1>13, <3>1, <3>2
    <3>. QED  BY <3>1, <3>2, <3>3
  <2>3. CASE x \in R /\ y \in R
    <3>1. PICK d \in run[r].episodes :
            x = [num |-> d.num, of |-> r, status |-> "active"] /\ x.num = d.num
      BY <1>5, <2>3
    <3>2. PICK e \in run[r].episodes :
            y = [num |-> e.num, of |-> r, status |-> "active"] /\ y.num = e.num
      BY <1>5, <2>3
    <3>. QED  BY <1>13, <3>1, <3>2
  <2>4. ASSUME NEW z \in sessions', NEW w \in R, z \notin R PROVE z.num # w.num
    <3>1. PICK v \in sessions : z.num = v.num
      BY <2>1, <2>4
    <3>. QED  BY <1>10, <2>4, <3>1
  <2>. QED  BY <1>13, <2>2, <2>3, <2>4
<1>14. ASSUME NEW q \in Runs, Past(q)', NEW e \in run'[q].episodes, NEW x \in sessions'
       PROVE  e.num # x.num
  <2>1. Past(q) /\ q # r /\ run'[q] = run[q]
    BY <1>1, <1>14, EndsOn
  <2>2. \A y \in sessions : e.num # y.num
    BY <1>14, <2>1 DEF SessionsInv
  <2>3. e \in doc[s] /\ e.of = q
    BY <1>1, <1>14, <2>1, OthersOfSource DEF s
  <2>4. CASE x \in R
    <3>1. PICK d \in run[r].episodes : x.num = d.num
      BY <1>5, <2>4
    <3>2. d \in doc[s] /\ d.of = r
      BY <1>8
    <3>. QED  BY <1>8, <2>1, <2>3, <3>1, <3>2 DEF Good
  <2>5. CASE x \notin R
    <3>1. PICK y \in sessions : x.num = y.num
      BY <1>4, <1>6, <2>5
    <3>. QED  BY <2>2, <3>1
  <2>. QED  BY <2>4, <2>5
<1>. QED  BY <1>12, <1>13, <1>14 DEF SessionsInv

LEMMA SessionsStep ==
  ASSUME Assumptions, SameSource, TablesInv, CorpusInv, SessionsInv, [DocNext]_docVars
  PROVE  SessionsInv'
<1>. TypeInv
  BY DEF TablesInv
<1>1. PICK b \in Nat : BoundedBy(b)
  BY DEF TablesInv
<1>2. ASSUME sessions' = sessions, tables'.sessions = tables.sessions,
             \A q \in Runs : Past(q)' => Past(q) /\ run'[q].episodes = run[q].episodes
      PROVE  SessionsInv'
  BY <1>2 DEF SessionsInv
<1>3. ASSUME NEW r \in Runs, NEW s \in Sources, NEW p \in Parts, Ingest(r, s, p) PROVE SessionsInv'
  <2>1. Starts(r, s, p, r)
    BY <1>3, StartsOn DEF Ingest
  <2>. QED  BY <1>2, <1>3, <2>1 DEF Ingest, Starts, Past
<1>4. ASSUME NEW r \in Runs, NEW s \in Sources, NEW p \in Parts, Enqueue(r, s, p) PROVE SessionsInv'
  <2>1. run'[r].phase = "queued" /\ \A q \in Runs \ {r} : run'[q] = run[q]
    BY <1>4 DEF Enqueue, TypeInv
  <2>. QED  BY <1>2, <1>4, <2>1 DEF Enqueue, Past
<1>5. ASSUME NEW r \in Runs, NEW m \in Runs, Work(r, m) PROVE SessionsInv'
  <2>1. /\ \A q \in Runs \ {r} : run'[q] = run[q]
        /\ run'[r].phase = "canon"
    BY <1>5 DEF Work, Begin, TypeInv
  <2>. QED  BY <1>2, <1>5, <2>1 DEF Work, Past
<1>6. ASSUME NEW r \in Runs, Unready(r) PROVE SessionsInv'
  <2>. DEFINE s == run[r].source
              row == [num |-> NextNum(s), of |-> r, status |-> "canonicalization_failed"]
  <2>1. InFlight(r) /\ run[r].phase = "canon" /\ s \in Sources /\ Goes(r, "over")
    <3>1. run[r].phase = "canon" /\ InFlight(r) /\ Phase(r, "over")
      BY <1>6 DEF Unready, InFlight, Leaves
    <3>. QED  BY <3>1, RunIs, GoesOn DEF Begun
  <2>2. /\ NextNum(s) \in Nat
        /\ \A e \in doc[s] : e.num < NextNum(s)
        /\ \A x \in sessions : x.num < NextNum(s)
    BY <1>1, <2>1, NextIs
  <2>3. /\ \A x \in sessions : x.num \in Nat
        /\ \A e \in doc[s] : e.num \in Nat
    BY <2>1 DEF TypeInv, Rows, Episodes
  <2>4. row.num = NextNum(s) /\ (\A x \in sessions : x.num # row.num)
                             /\ (\A e \in doc[s] : e.num # row.num)
    BY <2>2, <2>3
  <2>. HIDE DEF row
  <2>5. sessions' = sessions \cup {row} /\ tables'.sessions = SessionRows(tables.sessions, {row})
    BY <1>6 DEF Unready, TypeInv, row
  <2>6. sessions' = tables'.sessions
    BY <2>4, <2>5 DEF SessionsInv, SessionRows
  <2>7. ASSUME NEW q \in Runs, Past(q)' PROVE \A e \in run'[q].episodes, x \in sessions' : e.num # x.num
    <3>1. Past(q) /\ q # r /\ run'[q] = run[q]
      BY <2>1, <2>7, EndsOn
    <3>2. run[q].episodes \subseteq doc[s]
      BY <2>1, <3>1, OthersOfSource
    <3>. QED  BY <2>4, <2>5, <3>1, <3>2 DEF SessionsInv
  <2>. QED  BY <2>4, <2>5, <2>6, <2>7 DEF SessionsInv
<1>7. ASSUME NEW r \in Runs, NEW n \in 1..MaxEpisodes, ReserveIds(r, n) PROVE SessionsInv'
  <2>. DEFINE s == run[r].source
  <2>1. Reserves(r, n) /\ s \in Sources /\ run[r].part \in Parts
    BY <1>7, ReservesOn, RunIs DEF ReserveIds, Begun
  <2>2. sessions' = sessions /\ tables' = tables
    BY <1>7 DEF ReserveIds
  <2>3. NextNum(s) \in Nat /\ \A x \in sessions : x.num < NextNum(s)
    BY <1>1, <2>1, NextIs
  <2>4. New(r, n) \subseteq Episodes /\ \A e \in New(r, n) : e.num >= NextNum(s)
    BY <1>1, <2>1, NewAre
  <2>5. \A e \in New(r, n), x \in sessions : e.num # x.num
    <3>1. (\A x \in sessions : x.num \in Nat) /\ \A e \in New(r, n) : e.num \in Nat
      BY <2>4 DEF TypeInv, Rows, Episodes
    <3>. QED  BY <2>3, <2>4, <3>1
  <2>6. \A q \in Runs \ {r} : Past(q)' => Past(q) /\ run'[q] = run[q]
    BY <2>1 DEF Reserves, Past
  <2>. QED  BY <2>1, <2>2, <2>5, <2>6 DEF SessionsInv, Reserves
<1>8. ASSUME NEW r \in Runs, Extracted(r) PROVE SessionsInv'
  <2>1. Goes(r, "aggregate") /\ Past(r)
    <3>1. InFlight(r) /\ Past(r) /\ Phase(r, "aggregate")
      BY <1>8 DEF Extracted, InFlight, Past
    <3>. QED  BY <3>1, GoesOn
  <2>. QED  BY <1>2, <1>8, <2>1 DEF Extracted, Goes, Past
<1>9. ASSUME NEW r \in Runs, ExtractionRaises(r) \/ AggregationRaises(r) PROVE SessionsInv'
  <2>1. Goes(r, "over") /\ InFlight(r)
    <3>1. InFlight(r) /\ Phase(r, "over")
      BY <1>9 DEF ExtractionRaises, AggregationRaises, InFlight, Leaves
    <3>. QED  BY <3>1, GoesOn
  <2>. QED  BY <1>2, <1>9, <2>1, EndsOn DEF ExtractionRaises, AggregationRaises
<1>10. ASSUME ProcessDies PROVE SessionsInv'
  <2>1. sessions' = tables.sessions /\ tables' = tables /\ \A q \in Runs : ~Past(q)'
    BY <1>10, Restarts DEF ProcessDies
  <2>. QED  BY <2>1 DEF SessionsInv
<1>11. ASSUME UNCHANGED docVars PROVE SessionsInv'
  BY <1>2, <1>11 DEF docVars, Past
<1>. QED
  BY <1>3, <1>4, <1>5, <1>6, <1>7, <1>8, <1>9, <1>10, <1>11, CommitSessions DEF DocNext

LEMMA SessionsHold ==
  ASSUME Assumptions, PartsApart, SameSource
  PROVE  DocSpec => [](TablesInv /\ CorpusInv /\ SessionsInv)
<1>1. DocInit => SessionsInv
  <2>1. DocInit => sessions = {} /\ tables.sessions = {} /\ \A r \in Runs : ~Past(r)
    BY DEF DocInit, Fresh, Past
  <2>. QED  BY <2>1 DEF SessionsInv
<1>2. TablesInv /\ CorpusInv /\ SessionsInv /\ [DocNext]_docVars => SessionsInv'
  BY SessionsStep
<1>. QED  BY <1>1, <1>2, CorpusHolds, PTL DEF DocSpec

(* What has been committed or kept unready is in the store and a restart   *)
(* loses none of it: no row of a part takes the number of another's.       *)
THEOREM RestartLosesNothing ==
  ASSUME Assumptions, PartsApart, SameSource
  PROVE  DocSpec => []RowsOfEveryCommit
<1>1. CorpusInv /\ SessionsInv => RowsOfEveryCommit
  BY DEF CorpusInv, FactsStored, SessionsInv, RowsOfEveryCommit
<1>. QED  BY <1>1, SessionsHold, PTL

-----------------------------------------------------------------------------
LEMMA StoredStep ==
  ASSUME Assumptions, Overlap = "none", "aggregate" \notin Faults,
         TablesInv, CorpusInv, SessionsInv, StoredInv, [DocNext]_docVars
  PROVE  StoredInv'
<1>. TypeInv
  BY DEF TablesInv
<1>1. \A s \in Sources : \A e \in doc[s] : e.of \in Runs
  BY DEF TypeInv, Episodes
<1>2. ASSUME \A x \in sessions : \E y \in sessions' : x.num = y.num /\ x.of = y.of
      PROVE  \A e : StoredRow(e) => StoredRow(e)'
  BY <1>2 DEF StoredRow
(* A step that neither reserves nor ends one. *)
<1>3. ASSUME UNCHANGED <<doc, sessions, tables>>,
             \A q \in Runs : /\ Past(q)' <=> Past(q)
                             /\ Past(q) => /\ run'[q].source = run[q].source
                                           /\ run'[q].episodes = run[q].episodes
                                           /\ run'[q].saved = run[q].saved
      PROVE  StoredInv'
  <2>1. \A e : StoredRow(e)' <=> StoredRow(e)
    BY <1>3 DEF StoredRow
  <2>2. \A s \in Sources : \A e \in doc[s] : Reserved(s, e) => Reserved(s, e)'
    BY <1>1, <1>3 DEF Reserved
  <2>. QED  BY <1>3, <2>1, <2>2 DEF StoredInv
(* One that ends the only run there is, with the corpus stored. *)
<1>4. ASSUME NEW r \in Runs, InFlight(r), Goes(r, "over"),
             \A x \in sessions : \E y \in sessions' : x.num = y.num /\ x.of = y.of,
             \A s \in Sources : \A e \in doc'[s] : StoredRow(e)',
             \A s \in Sources : tables'.doc[s] = tables.doc[s] \/ tables'.doc[s] = doc'[s]
      PROVE  StoredInv'
  <2>1. \A q \in Runs : ~Past(q)'
    BY <1>4, EndsOn
  <2>2. \A s \in Sources : \A e \in tables.doc[s] : StoredRow(e)'
    BY <1>2, <1>4 DEF StoredInv
  <2>. QED  BY <1>4, <2>1, <2>2 DEF StoredInv
<1>5. ASSUME NEW r \in Runs, InFlight(r), NEW s \in Sources, NEW e \in doc[s], ~StoredRow(e)
      PROVE  e.of = r /\ Past(r) /\ run[r].source = s /\ e \in run[r].episodes
  <2>1. Past(e.of) /\ e.of \in Runs /\ run[e.of].source = s /\ e \in run[e.of].episodes
    BY <1>1, <1>5 DEF StoredInv, Reserved
  <2>2. e.of = r
    BY <1>5, <2>1 DEF CorpusInv, Apart, InFlight, Past
  <2>. QED  BY <2>1, <2>2
<1>6. ASSUME NEW r \in Runs, NEW s \in Sources, NEW p \in Parts, Ingest(r, s, p) \/ Enqueue(r, s, p)
      PROVE  StoredInv'
  <2>1. /\ run[r].phase = "new" /\ run'[r].phase \in {"canon", "queued"}
        /\ \A q \in Runs \ {r} : run'[q] = run[q]
    BY <1>6 DEF Ingest, Enqueue, Begin, TypeInv, Fresh
  <2>2. UNCHANGED <<doc, sessions, tables>>
    BY <1>6 DEF Ingest, Enqueue
  <2>. QED  BY <1>3, <2>1, <2>2 DEF Past
<1>7. ASSUME NEW r \in Runs, NEW m \in Runs, Work(r, m) PROVE StoredInv'
  <2>1. /\ run[r].phase \in {"new", "queued"} /\ run'[r].phase = "canon"
        /\ \A q \in Runs \ {r} : run'[q] = run[q]
    BY <1>7 DEF Work, Begin, TypeInv, Fresh
  <2>2. UNCHANGED <<doc, sessions, tables>>
    BY <1>7 DEF Work
  <2>. QED  BY <1>3, <2>1, <2>2 DEF Past
<1>8. ASSUME NEW r \in Runs, Unready(r) PROVE StoredInv'
  <2>1. run[r].phase = "canon" /\ InFlight(r) /\ Goes(r, "over") /\ ~Past(r)
    <3>1. run[r].phase = "canon" /\ InFlight(r) /\ Phase(r, "over") /\ ~Past(r)
      BY <1>8 DEF Unready, InFlight, Leaves, Past
    <3>. QED  BY <3>1, GoesOn
  <2>2. doc' = doc /\ tables'.doc = tables.doc /\ sessions \subseteq sessions'
    BY <1>8 DEF Unready, TypeInv
  <2>3. \A s \in Sources : \A e \in doc[s] : StoredRow(e)
    BY <1>5, <2>1
  <2>4. \A s \in Sources : \A e \in doc'[s] : StoredRow(e)'
    BY <1>2, <2>2, <2>3
  <2>. QED  BY <1>4, <2>1, <2>2, <2>4
<1>9. ASSUME NEW r \in Runs, NEW n \in 1..MaxEpisodes, ReserveIds(r, n) PROVE StoredInv'
  <2>. DEFINE s == run[r].source
  <2>1. /\ Reserves(r, n) /\ s \in Sources /\ run[r].part \in Parts
        /\ InFlight(r) /\ ~Past(r)
    BY <1>9, ReservesOn, RunIs DEF ReserveIds, Begun, InFlight, Past
  <2>2. /\ sessions' = sessions /\ tables' = tables
        /\ doc' = [doc EXCEPT ![s] = {e \in doc[s] : e.part # run[r].part} \cup New(r, n)]
    BY <1>9 DEF ReserveIds, New, Replaced
  <2>3. \A z \in Sources : \A e \in doc[z] : StoredRow(e)
    BY <1>5, <2>1
  <2>4. \A e : StoredRow(e)' <=> StoredRow(e)
    BY <2>2 DEF StoredRow
  <2>5. \A e \in New(r, n) : e.of = r
    BY DEF New
  <2>6. \A q \in Runs : Past(q)' => q = r
    BY <2>1 DEF Reserves, Past, CorpusInv, Apart, InFlight
  <2>7. \A q \in Runs : Past(q)' => \A e \in run'[q].saved.doc : StoredRow(e)'
    BY <2>1, <2>3, <2>4, <2>6 DEF Reserves
  <2>8. ASSUME NEW z \in Sources, NEW e \in doc'[z] PROVE Reserved(z, e)' \/ StoredRow(e)'
    <3>1. CASE e \in doc[z]
      BY <2>3, <2>4, <3>1
    <3>2. CASE e \notin doc[z]
      <4>1. z = s /\ e \in New(r, n)
        BY <2>1, <2>2, <2>8, <3>2 DEF TypeInv
      <4>2. e.of = r
        BY <2>5, <4>1
      <4>. QED  BY <2>1, <4>1, <4>2 DEF Reserved, Reserves, Past
    <3>. QED  BY <3>1, <3>2
  <2>. QED  BY <2>2, <2>4, <2>7, <2>8 DEF StoredInv
<1>10. ASSUME NEW r \in Runs, Extracted(r) PROVE StoredInv'
  <2>1. Goes(r, "aggregate") /\ Past(r)
    <3>1. InFlight(r) /\ Past(r) /\ Phase(r, "aggregate")
      BY <1>10 DEF Extracted, InFlight, Past
    <3>. QED  BY <3>1, GoesOn
  <2>2. UNCHANGED <<doc, sessions, tables>>
    BY <1>10 DEF Extracted
  <2>. QED  BY <1>3, <2>1, <2>2 DEF Goes, Past
<1>11. ASSUME NEW r \in Runs, ExtractionRaises(r) PROVE StoredInv'
  <2>1. Goes(r, "over") /\ InFlight(r) /\ Past(r) /\ run[r].source \in Sources
    <3>1. InFlight(r) /\ Phase(r, "over") /\ Past(r)
      BY <1>11 DEF ExtractionRaises, InFlight, Leaves, Past
    <3>. QED  BY <3>1, GoesOn, RunIs DEF Ingesting
  <2>2. /\ doc' = [doc EXCEPT ![run[r].source] = run[r].saved.doc]
        /\ sessions' = sessions /\ tables' = tables
    BY <1>11 DEF ExtractionRaises, Restored
  <2>3. \A e \in run[r].saved.doc : StoredRow(e)
    BY <2>1 DEF StoredInv
  <2>4. ASSUME NEW z \in Sources, NEW e \in doc'[z] PROVE StoredRow(e)
    <3>1. CASE z = run[r].source
      BY <2>1, <2>2, <2>3, <2>4, <3>1 DEF TypeInv
    <3>2. CASE z # run[r].source
      <4>1. e \in doc[z]
        BY <2>2, <2>4, <3>2 DEF TypeInv
      <4>. QED  BY <1>5, <2>1, <3>2, <4>1
    <3>. QED  BY <3>1, <3>2
  <2>5. \A e : StoredRow(e)' <=> StoredRow(e)
    BY <2>2 DEF StoredRow
  <2>. QED  BY <1>4, <2>1, <2>2, <2>4, <2>5
<1>12. ASSUME NEW r \in Runs, NEW found \in BOOLEAN, CommitRun(r, found) PROVE StoredInv'
  <2>. DEFINE s == run[r].source
              old == run[r].old
  <2>1. /\ Past(r) /\ InFlight(r) /\ run[r] \in Ingesting /\ Goes(r, "over")
        /\ sessions' = Supersede(sessions, old) \cup RowsOf(r)
        /\ doc' = Replaced(s, run[r].part, run[r].episodes)
        /\ tables'.doc = [tables.doc EXCEPT ![s] = doc'[s]]
    BY <1>12, Commits DEF Past, InFlight
  <2>2. s \in Sources
    BY <2>1 DEF Ingesting
  <2>3. {e \in doc[s] : e.part = run[r].part} = run[r].episodes
    BY <2>1 DEF CorpusInv, ReservedInCorpus
  <2>4. doc' = doc
    BY <2>1, <2>2, <2>3 DEF Replaced, TypeInv
  <2>5. \A x \in sessions : \E y \in sessions' : x.num = y.num /\ x.of = y.of
    <3>1. sessions \subseteq Rows
      BY DEF TypeInv
    <3>2. \A x \in sessions : x.of = old =>
            \E y \in Superseded(sessions, old) : y.num = x.num /\ y.of = x.of
      BY <3>1, SupersededRows
    <3>. QED  BY <2>1, <3>2 DEF Supersede
  <2>6. \A e \in run[r].episodes : \E x \in RowsOf(r) : x.num = e.num /\ x.of = r
    BY <2>1, WrittenAre
  <2>7. ASSUME NEW z \in Sources, NEW e \in doc[z] PROVE StoredRow(e)'
    <3>1. CASE StoredRow(e)
      BY <1>2, <2>5, <3>1
    <3>2. CASE ~StoredRow(e)
      <4>1. e.of = r /\ e \in run[r].episodes
        BY <1>5, <2>1, <2>7, <3>2
      <4>. QED  BY <2>1, <2>6, <4>1 DEF StoredRow
    <3>. QED  BY <3>1, <3>2
  <2>8. \A z \in Sources : tables'.doc[z] = tables.doc[z] \/ tables'.doc[z] = doc'[z]
    BY <2>1, <2>2 DEF TypeInv
  <2>. QED  BY <1>4, <2>1, <2>4, <2>5, <2>7, <2>8
<1>13. ASSUME ProcessDies PROVE StoredInv'
  <2>1. /\ doc' = tables.doc /\ sessions' = sessions /\ tables' = tables
        /\ \A q \in Runs : ~Past(q)'
    BY <1>13, Restarts DEF ProcessDies, SessionsInv
  <2>. QED  BY <2>1 DEF StoredInv, StoredRow
<1>14. ASSUME UNCHANGED docVars PROVE StoredInv'
  BY <1>3, <1>14 DEF docVars, Past
<1>15. ~ \E r \in Runs : AggregationRaises(r)
  BY DEF AggregationRaises
<1>. QED
  BY <1>6, <1>7, <1>8, <1>9, <1>10, <1>11, <1>12, <1>13, <1>14, <1>15 DEF DocNext

(* Documents ingested one after the other whose aggregation succeeds: an   *)
(* episode of the corpus is one that the run in flight has reserved, or    *)
(* its session is stored.  A failed ingest takes its reservation back.     *)
THEOREM ReservationsTakenBack ==
  ASSUME Assumptions, Overlap = "none", "aggregate" \notin Faults
  PROVE  DocSpec => []ReservedOrStored
<1>. PartsApart /\ SameSource
  BY DEF PartsApart, SameSource
<1>1. DocInit => StoredInv
  <2>1. DocInit => /\ doc = [s \in Sources |-> {}] /\ tables.doc = doc
                   /\ \A r \in Runs : ~Past(r)
    BY DEF DocInit, Fresh, Past
  <2>. QED  BY <2>1 DEF StoredInv
<1>2. TablesInv /\ CorpusInv /\ SessionsInv /\ StoredInv /\ [DocNext]_docVars => StoredInv'
  BY StoredStep
<1>3. StoredInv => ReservedOrStored
  BY DEF StoredInv, StoredRow, Reserved, Past, InFlight, ReservedOrStored
<1>. QED  BY <1>1, <1>2, <1>3, SessionsHold, PTL DEF DocSpec
=============================================================================
