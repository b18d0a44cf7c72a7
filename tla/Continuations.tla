--------------------------- MODULE Continuations ---------------------------
(***************************************************************************)
(* Recall continuations: a recall that found more than it returned leaves  *)
(* a handle, through which its caller reads the rest page by page.         *)
(*                                                                         *)
(* Granularity.  recall_continuation_page and the end of a recall do not   *)
(* suspend; between two of them anything may happen, and a reply may be    *)
(* lost on its way to the reader.                                          *)
(*                                                                         *)
(* Abstractions.  A candidate is its rank.  The clock is left out: any     *)
(* handle may expire before the next call.  The identities of a reader are *)
(* those its token resolves to over time.  What a page says of a candidate *)
(* is left out, its cut at 6000 characters included.                       *)
(***************************************************************************)
EXTENDS Naturals, Sequences, SequencesExt, FiniteSetsExt

CONSTANTS
  Handles,        \* continuation handles, never reused
  Readers,        \* principals
  Groups,         \* what the memberships of a principal may be
  PageSize,
  MaxPages,
  MaxCandidates   \* bound of the model: candidates of one recall

ASSUME PageAssumption ==
  PageSize \in Nat \ {0} /\ MaxPages \in Nat \ {0} /\ MaxCandidates \in Nat

VARIABLES
  handles,     \* _recall_continuations
  memberships, \* of each principal, now
  reader       \* history: what a handle was made for, what was received

continuationVars == <<handles, memberships, reader>>
-----------------------------------------------------------------------------
NoHandle == [next |-> 0]

(* page="next" in a call. *)
TheNext == 0

(* acl_key; the role and the swarm do not change.                          *)
AclKey(r) == <<r, memberships[r]>>

(* Slip: the first page is taken for the one that the recall returned.     *)
ChunkBehind(n, i) ==
  SubSeq([k \in 1..n |-> k], i * PageSize + 1, Min({(i + 1) * PageSize, n}))

(* The i-th slice of n candidates.                                         *)
Chunk(n, i) ==
  SubSeq([k \in 1..n |-> k], (i - 1) * PageSize + 1, Min({i * PageSize, n}))

(* Slip: a slice that is full has one behind it. *)
MoreIfFull(n, i) == i * PageSize <= n /\ i < MaxPages

More(n, i) == i * PageSize < n /\ i < MaxPages

(* _attach_recall_continuation: pages are numbered from 2, and 0 stands    *)
(* for a next_page of None.                                                *)
Pages(n) ==
  {[page |-> i + 1, next |-> IF More(n, i) THEN i + 2 ELSE 0, entries |-> Chunk(n, i)] :
     i \in {j \in 1..MaxPages : (j - 1) * PageSize < n}}

NewReader == [by |-> <<>>, n |-> 0, got |-> <<>>, is |-> "reading", readBy |-> {}]

(* _remember_recall_continuation. *)
Recall(h, r, n) ==
  /\ reader[h] = NewReader /\ Pages(n) # {}
  /\ handles' = [handles EXCEPT ![h] = [next |-> 2, key |-> AclKey(r), pages |-> Pages(n)]]
  /\ reader' = [reader EXCEPT ![h].by = AclKey(r), ![h].n = n]
  /\ UNCHANGED memberships

(* Slip: whoever has the handle. *)
AnyFinds(h, r) == handles[h] # NoHandle

(* Otherwise the reply is RECALL_CONTINUATION_NOT_FOUND and nothing changes. *)
Finds(h, r) == handles[h] # NoHandle /\ handles[h].key = AclKey(r)

(* The state after page p was served. *)
Served(h, p) ==
  [handles EXCEPT ![h] = IF p.next = 0 THEN NoHandle ELSE [@ EXCEPT !.next = p.next]]

(* What the reader has in hand: the candidates it received while it only   *)
(* asked for the next page and no reply was lost, until it was told that   *)
(* they were all; and whoever read any page.                               *)
Heard(h, r, p, asked, arrives) ==
  LET straight == reader[h].is = "reading" /\ asked = TheNext /\ arrives
  IN [reader EXCEPT
        ![h].is = CASE ~straight -> "lost"
                    [] straight /\ p.next = 0 -> "told"
                    [] OTHER -> "reading",
        ![h].got = IF straight THEN @ \o p.entries ELSE <<>>,
        ![h].readBy = IF arrives THEN @ \cup {AclKey(r)} ELSE @]

(* recall_continuation_page for a page that exists. *)
Page(h, r, asked, arrives) ==
  /\ Finds(h, r)
  /\ \E p \in handles[h].pages :
       /\ p.page = IF asked = TheNext THEN handles[h].next ELSE asked
       /\ handles' = Served(h, p)
       /\ reader' = Heard(h, r, p, asked, arrives)
  /\ UNCHANGED memberships

(* For a number without a page: the handle is given up. *)
NoSuchPage(h, r, asked) ==
  /\ Finds(h, r)
  /\ asked \notin {p.page : p \in handles[h].pages}
  /\ handles' = [handles EXCEPT ![h] = NoHandle]
  /\ UNCHANGED <<memberships, reader>>

(* _prune_recall_continuations, which every call begins with.              *)
Expire(h) ==
  /\ handles[h] # NoHandle
  /\ handles' = [handles EXCEPT ![h] = NoHandle]
  /\ UNCHANGED <<memberships, reader>>

Regroup(r, m) ==
  /\ memberships[r] # m
  /\ memberships' = [memberships EXCEPT ![r] = m]
  /\ UNCHANGED <<handles, reader>>

(* The handles live in the memory of the process. *)
ProcessRestart ==
  /\ \E h \in Handles : handles[h] # NoHandle
  /\ handles' = [h \in Handles |-> NoHandle]
  /\ UNCHANGED <<memberships, reader>>

ContinuationInit ==
  /\ handles = [h \in Handles |-> NoHandle]
  /\ memberships \in [Readers -> Groups]
  /\ reader = [h \in Handles |-> NewReader]

ContinuationNext ==
  \/ \E h \in Handles, r \in Readers :
       \/ \E n \in 1..MaxCandidates : Recall(h, r, n)
       \/ \E asked \in {TheNext} \cup 1..MaxPages + 2, arrives \in BOOLEAN :
            Page(h, r, asked, arrives)
       \/ \E asked \in 1..MaxPages + 2 : NoSuchPage(h, r, asked)
  \/ \E h \in Handles : Expire(h)
  \/ \E r \in Readers, m \in Groups : Regroup(r, m)
  \/ ProcessRestart

ContinuationSpec == ContinuationInit /\ [][ContinuationNext]_continuationVars
-----------------------------------------------------------------------------
(* Types, and that a handle always has a page to give to its reader.       *)
ContinuationTypeOK ==
  /\ memberships \in [Readers -> Groups]
  /\ \A h \in Handles : handles[h] # NoHandle =>
       /\ handles[h].next \in {p.page : p \in handles[h].pages}
       /\ handles[h].key = reader[h].by

(* A reader that asks for "next" and receives every reply has read the     *)
(* candidates in their order, each once, and, when a page tells it that    *)
(* there are no more, all of them up to the limit of the pages.            *)
ReadInOrder ==
  \A h \in Handles : reader[h].is # "lost" =>
    LET got == reader[h].got
    IN /\ got = [i \in 1..Len(got) |-> i]
       /\ reader[h].is = "told" => Len(got) = Min({reader[h].n, PageSize * MaxPages})

(* What a recall found for an identity is read by that identity only,      *)
(* though memberships change between the recall and its pages.  (acl_key.) *)
ReadByItsCaller == \A h \in Handles : reader[h].readBy \subseteq {reader[h].by}
=============================================================================
