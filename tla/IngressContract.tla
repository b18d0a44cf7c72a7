--------------------------- MODULE IngressContract ---------------------------
(***************************************************************************)
(* What a client of memory_write and memory_write_status may rely on, with *)
(* no queue, lease, worker or process in sight: a status per message and   *)
(* the set of messages the memory holds something of.                      *)
(***************************************************************************)
CONSTANTS
  Messages,  \* messages of memory_write
  Direct,    \* messages other clients store at once, with store()
  Content

VARIABLES
  status,  \* what memory_write_status reports
  held     \* messages of which a raw session is stored

vars == <<status, held>>

Statuses == {"unknown", "owed", "done", "given_up"}

(* The memory holds the text of m, through m or a message of that text.    *)
Backed(m, H) == \E n \in H : Content[n] = Content[m]

Init ==
  /\ status = [m \in Messages |-> "unknown"]
  /\ held = {}

(* The receipt of memory_write.                                            *)
Accept(m) ==
  /\ status[m] = "unknown"
  /\ status' = [status EXCEPT ![m] = "owed"]
  /\ UNCHANGED held

(* Extraction is over: the message is stored, or was there already.        *)
Settle(m) ==
  /\ status[m] = "owed"
  /\ held' \in {held, held \cup {m}}
  /\ Backed(m, held')
  /\ status' = [status EXCEPT ![m] = "done"]

(* The last attempt failed.                                                *)
GiveUp(m) ==
  /\ status[m] = "owed"
  /\ status' = [status EXCEPT ![m] = "given_up"]
  /\ UNCHANGED held

(* A message that came without a receipt is kept.                          *)
Keep(m) ==
  /\ held' = held \cup {m}
  /\ UNCHANGED status

(* An administrator purges content; the log drops settled messages of      *)
(* which nothing is kept under their own id.                               *)
Forget ==
  /\ held' \subseteq held
  /\ \E F \in SUBSET {m \in Messages : status[m] = "done"} :
       status' = [m \in Messages |-> IF m \in F THEN "unknown" ELSE status[m]]
  /\ \A m \in Messages : status'[m] = "done" => Backed(m, held')

Next ==
  \/ \E m \in Messages : Accept(m) \/ Settle(m) \/ GiveUp(m)
  \/ \E m \in Direct : Keep(m)
  \/ Forget

Spec == Init /\ [][Next]_vars
-----------------------------------------------------------------------------
(* A message reported done is in the memory.                               *)
DoneIsBacked == \A m \in Messages : status[m] = "done" => Backed(m, held)
=============================================================================
