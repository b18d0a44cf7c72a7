------------------------------ MODULE Authority ------------------------------
(***************************************************************************)
(* The authority store of a data directory: principals, tokens, swarms and *)
(* memberships in one SQLite file, used by every server process that runs  *)
(* on the directory.                                                       *)
(*                                                                         *)
(* Granularity.  A tool of the authority has no await, so it is atomic in  *)
(* its process; each of its writes is a transaction of its own, between    *)
(* which another process may write and at which the process may die.  The  *)
(* reads that precede a write are one step; a call is the next write it    *)
(* owes.  bootstrap_admin_once holds the write lock from its first read.   *)
(*                                                                         *)
(* Abstractions.  A membership row is the number of its id; ended rows are *)
(* forgotten.  Any token and any row may turn out to have an expiry date.  *)
(* Names, descriptions, metadata and agent keys are left out, and so are   *)
(* swarms that are not active: nothing changes the status of a swarm.      *)
(***************************************************************************)
EXTENDS Naturals, FiniteSets

CONSTANTS
  Principals,
  Swarms,
  Tokens,    \* token ids, never reused
  Processes, \* the processes on this data directory
  Granted,   \* the roles that are asked for
  MaxRows    \* bound of the model: how many memberships are ever granted

Roles == {"owner", "manager", "member"}

VARIABLES
  seal,        \* authority_meta holds a bootstrap_state
  principals,  \* status of each principal, "none" before its creation
  tokens,      \* principal_tokens
  swarms,      \* the swarms that exist
  rows,        \* the active row of swarm_memberships, per swarm and principal
  lastRow,     \* number of rows inserted so far
  call         \* the write each process is about to do

authVars == <<seal, principals, tokens, swarms, rows, lastRow, call>>
-----------------------------------------------------------------------------
(* "over": revoked_at is set, or expires_at has passed; nothing tells them  *)
(* apart.  by: issued_by, "system" for the token of a bootstrap.            *)
TokenRows == [of : Principals, kind : {"admin", "user"},
              by : {"system", "actor"}, over : BOOLEAN]

NoToken == [kind |-> "none"]

Memberships == [id : 1..MaxRows, role : Roles, expired : BOOLEAN]

NoRow == [id |-> 0, role |-> "none", expired |-> FALSE]

(* A call and the fields its next write needs. *)
NoCall == [write |-> "none"]

PendingWrites ==
  {NoCall}
  \cup [write : {"principal", "disable"}, principal : Principals]
  \cup [write : {"token"}, principal : Principals, kind : {"admin", "user"}]
  \cup [write : {"revoke"}, token : Tokens]
  \cup [write : {"swarm", "owner"}, swarm : Swarms, principal : Principals]
  \cup [write : {"replace", "insert"}, swarm : Swarms, principal : Principals,
       role : Roles, row : 0..MaxRows]
  \cup [write : {"end"}, swarm : Swarms, principal : Principals, row : 0..MaxRows]

Begun(s, c) == call' = [call EXCEPT ![s] = c]

Done(s) == Begun(s, NoCall)

Free(s) == call[s] = NoCall
-----------------------------------------------------------------------------
(* resolve_token up to the memberships. *)
Resolves(t) ==
  /\ tokens[t] # NoToken
  /\ principals[tokens[t].of] = "active"
  /\ ~tokens[t].over

IsAdmin(t) == Resolves(t) /\ tokens[t].kind = "admin"

(* _membership_active: a row that has expired is no membership. *)
Active(w, p) == rows[w][p] # NoRow /\ ~rows[w][p].expired

RoleOf(w, p) == IF Active(w, p) THEN rows[w][p].role ELSE "none"

(* _assert_can_manage_membership. *)
MayManage(t, w, role) ==
  \/ IsAdmin(t)
  \/ RoleOf(w, tokens[t].of) = "owner" /\ role \in {"manager", "member"}
  \/ RoleOf(w, tokens[t].of) = "manager" /\ role = "member"

(* Slip: whichever row is active by now. *)
EndedWhoever(w, p, id) == [rows EXCEPT ![w][p] = NoRow]

(* membership_revoke of the row that was read, if it is still the active   *)
(* one.                                                                    *)
Ended(w, p, id) == IF rows[w][p].id = id THEN [rows EXCEPT ![w][p] = NoRow] ELSE rows

(* membership_insert, which the unique index admits only without an active *)
(* row; the exception ends the call.                                       *)
Insert(w, p, role) ==
  IF rows[w][p] = NoRow
  THEN /\ lastRow < MaxRows
       /\ rows' = [rows EXCEPT ![w][p] =
                     [id |-> lastRow + 1, role |-> role, expired |-> FALSE]]
       /\ lastRow' = lastRow + 1
  ELSE UNCHANGED <<rows, lastRow>>

-----------------------------------------------------------------------------
(* Tools: the checks, up to the first write. *)

(* Slip: the history of the store is not looked at. *)
NoAdminTokens == {}

(* _historical_admin_bootstrap_state. *)
AdminTokens == {t \in Tokens : tokens[t].kind = "admin"}

NewToken(p, kind, by) ==
  [of |-> p, kind |-> kind, by |-> by, over |-> FALSE]

(* The INSERT of a principal that does not exist. *)
Enrolled(p) == [principals EXCEPT ![p] = "active"]

(* auth_bootstrap_admin, with the token of the environment.  A store with  *)
(* an admin token in its history is sealed instead.                        *)
Bootstrap(p, t) ==
  /\ ~seal
  /\ IF AdminTokens # {}
     THEN seal' = TRUE /\ UNCHANGED <<principals, tokens>>
     ELSE /\ principals[p] # "disabled" /\ tokens[t] = NoToken
          /\ principals' = Enrolled(p)
          /\ tokens' = [tokens EXCEPT ![t] = NewToken(p, "admin", "system")]
          /\ seal' = TRUE
  /\ UNCHANGED <<swarms, rows, lastRow, call>>

(* principal_create. *)
CreatePrincipal(s, t, p) ==
  /\ Free(s) /\ IsAdmin(t)
  /\ principals[p] = "none"
  /\ Begun(s, [write |-> "principal", principal |-> p])
  /\ UNCHANGED <<seal, principals, tokens, swarms, rows, lastRow>>

(* principal_disable. *)
DisablePrincipal(s, t, p) ==
  /\ Free(s) /\ IsAdmin(t)
  /\ principals[p] = "active"
  /\ Begun(s, [write |-> "disable", principal |-> p])
  /\ UNCHANGED <<seal, principals, tokens, swarms, rows, lastRow>>

(* auth_token_issue. *)
IssueToken(s, t, p, kind) ==
  /\ Free(s) /\ IsAdmin(t)
  /\ principals[p] = "active"
  /\ Begun(s, [write |-> "token", principal |-> p, kind |-> kind])
  /\ UNCHANGED <<seal, principals, tokens, swarms, rows, lastRow>>

(* auth_token_revoke, of any token or of one's own. *)
RevokeToken(s, t, target) ==
  /\ Free(s) /\ Resolves(t)
  /\ tokens[target] # NoToken
  /\ IsAdmin(t) \/ tokens[target].of = tokens[t].of
  /\ Begun(s, [write |-> "revoke", token |-> target])
  /\ UNCHANGED <<seal, principals, tokens, swarms, rows, lastRow>>

(* swarm_create. *)
CreateSwarm(s, t, w, owner) ==
  /\ Free(s) /\ IsAdmin(t)
  /\ w \notin swarms /\ principals[owner] = "active"
  /\ Begun(s, [write |-> "swarm", swarm |-> w, principal |-> owner])
  /\ UNCHANGED <<seal, principals, tokens, swarms, rows, lastRow>>

(* membership_grant and membership_register.  A row that has expired or    *)
(* that says something else is ended first.                                *)
GrantMembership(s, t, w, p, role) ==
  /\ Free(s) /\ Resolves(t)
  /\ w \in swarms /\ principals[p] = "active"
  /\ MayManage(t, w, role)
  /\ Begun(s, [write |-> IF rows[w][p] = NoRow THEN "insert" ELSE "replace",
               swarm |-> w, principal |-> p, role |-> role, row |-> rows[w][p].id])
  /\ UNCHANGED <<seal, principals, tokens, swarms, rows, lastRow>>

(* membership_revoke and membership_unregister. *)
RevokeMembership(s, t, w, p) ==
  /\ Free(s) /\ Resolves(t)
  /\ Active(w, p) /\ MayManage(t, w, rows[w][p].role)
  /\ Begun(s, [write |-> "end", swarm |-> w, principal |-> p, row |-> rows[w][p].id])
  /\ UNCHANGED <<seal, principals, tokens, swarms, rows, lastRow>>

(* Whatever asks for the memberships of a principal - a token that is      *)
(* resolved, a list of swarms - finds an expired row and will end it.      *)
FindExpired(s, w, p) ==
  /\ Free(s) /\ rows[w][p].expired
  /\ Begun(s, [write |-> "end", swarm |-> w, principal |-> p, row |-> rows[w][p].id])
  /\ UNCHANGED <<seal, principals, tokens, swarms, rows, lastRow>>

-----------------------------------------------------------------------------
(* The writes. *)

(* principal_upsert: whoever created the principal first, it is active.    *)
WritePrincipal(s) ==
  /\ call[s].write = "principal"
  /\ principals' = [principals EXCEPT ![call[s].principal] = "active"]
  /\ Done(s)
  /\ UNCHANGED <<seal, tokens, swarms, rows, lastRow>>

(* principal_set_status. *)
WriteDisabled(s) ==
  /\ call[s].write = "disable"
  /\ principals' = [principals EXCEPT ![call[s].principal] = "disabled"]
  /\ Done(s)
  /\ UNCHANGED <<seal, tokens, swarms, rows, lastRow>>

(* token_insert. *)
WriteToken(s, new) ==
  /\ call[s].write = "token" /\ tokens[new] = NoToken
  /\ tokens' = [tokens EXCEPT ![new] = NewToken(call[s].principal, call[s].kind, "actor")]
  /\ Done(s)
  /\ UNCHANGED <<seal, principals, swarms, rows, lastRow>>

(* token_revoke. *)
WriteRevoked(s) ==
  /\ call[s].write = "revoke"
  /\ tokens' = [tokens EXCEPT ![call[s].token].over = TRUE]
  /\ Done(s)
  /\ UNCHANGED <<seal, principals, swarms, rows, lastRow>>

(* swarm_insert; the primary key refuses a swarm that exists by now.       *)
WriteSwarm(s) ==
  /\ call[s].write = "swarm"
  /\ IF call[s].swarm \in swarms THEN Done(s)
     ELSE Begun(s, [call[s] EXCEPT !.write = "owner"])
  /\ swarms' = swarms \cup {call[s].swarm}
  /\ UNCHANGED <<seal, principals, tokens, rows, lastRow>>

(* membership_insert of the owner of a new swarm. *)
WriteOwner(s) ==
  /\ call[s].write = "owner"
  /\ Insert(call[s].swarm, call[s].principal, "owner")
  /\ Done(s)
  /\ UNCHANGED <<seal, principals, tokens, swarms>>

(* membership_revoke of the row that a grant found. *)
WriteReplaced(s) ==
  /\ call[s].write = "replace"
  /\ rows' = Ended(call[s].swarm, call[s].principal, call[s].row)
  /\ Begun(s, [call[s] EXCEPT !.write = "insert"])
  /\ UNCHANGED <<seal, principals, tokens, swarms, lastRow>>

(* membership_insert. *)
WriteRow(s) ==
  /\ call[s].write = "insert"
  /\ Insert(call[s].swarm, call[s].principal, call[s].role)
  /\ Done(s)
  /\ UNCHANGED <<seal, principals, tokens, swarms>>

(* membership_revoke. *)
WriteEnded(s) ==
  /\ call[s].write = "end"
  /\ rows' = Ended(call[s].swarm, call[s].principal, call[s].row)
  /\ Done(s)
  /\ UNCHANGED <<seal, principals, tokens, swarms, lastRow>>

-----------------------------------------------------------------------------
(* The clock passes an expiry date. *)
TokenExpires(t) ==
  /\ tokens[t] # NoToken /\ ~tokens[t].over
  /\ tokens' = [tokens EXCEPT ![t].over = TRUE]
  /\ UNCHANGED <<seal, principals, swarms, rows, lastRow, call>>

RowExpires(w, p) ==
  /\ Active(w, p)
  /\ rows' = [rows EXCEPT ![w][p].expired = TRUE]
  /\ UNCHANGED <<seal, principals, tokens, swarms, lastRow, call>>

(* A process dies, or its next transaction raises. *)
CallLost(s) ==
  /\ ~Free(s)
  /\ Done(s)
  /\ UNCHANGED <<seal, principals, tokens, swarms, rows, lastRow>>

(* A new store, or one of the versions that had no seal.                   *)
AuthInit ==
  /\ seal = FALSE
  /\ \/ /\ principals = [p \in Principals |-> "none"]
        /\ tokens = [t \in Tokens |-> NoToken]
     \/ \E p \in Principals, t \in Tokens, over \in BOOLEAN :
          /\ principals = [q \in Principals |-> IF q = p THEN "active" ELSE "none"]
          /\ tokens = [u \in Tokens |->
               IF u = t THEN [NewToken(p, "admin", "system") EXCEPT !.over = over]
               ELSE NoToken]
  /\ swarms = {}
  /\ rows = [w \in Swarms |-> [p \in Principals |-> NoRow]]
  /\ lastRow = 0
  /\ call = [s \in Processes |-> NoCall]

AuthNext ==
  \/ \E p \in Principals, t \in Tokens : Bootstrap(p, t)
  \/ \E s \in Processes, t \in Tokens, p \in Principals :
       \/ CreatePrincipal(s, t, p)
       \/ DisablePrincipal(s, t, p)
       \/ \E kind \in {"admin", "user"} : IssueToken(s, t, p, kind)
       \/ \E w \in Swarms : CreateSwarm(s, t, w, p)
       \/ \E w \in Swarms, role \in Granted : GrantMembership(s, t, w, p, role)
       \/ \E w \in Swarms : RevokeMembership(s, t, w, p)
  \/ \E s \in Processes, t \in Tokens, u \in Tokens : RevokeToken(s, t, u)
  \/ \E s \in Processes, w \in Swarms, p \in Principals : FindExpired(s, w, p)
  \/ \E s \in Processes :
       \/ WritePrincipal(s)
       \/ WriteDisabled(s)
       \/ \E t \in Tokens : WriteToken(s, t)
       \/ WriteRevoked(s)
       \/ WriteSwarm(s)
       \/ WriteOwner(s)
       \/ WriteReplaced(s)
       \/ WriteRow(s)
       \/ WriteEnded(s)
       \/ CallLost(s)
  \/ \E t \in Tokens : TokenExpires(t)
  \/ \E w \in Swarms, p \in Principals : RowExpires(w, p)

AuthSpec == AuthInit /\ [][AuthNext]_authVars
-----------------------------------------------------------------------------
(* Types, and that every row refers to rows that exist: no write of any    *)
(* tool is one that a foreign key would refuse.                            *)
AuthTypeOK ==
  /\ seal \in BOOLEAN
  /\ principals \in [Principals -> {"none", "active", "disabled"}]
  /\ tokens \in [Tokens -> TokenRows \cup {NoToken}]
  /\ swarms \subseteq Swarms
  /\ rows \in [Swarms -> [Principals -> Memberships \cup {NoRow}]]
  /\ lastRow \in 0..MaxRows
  /\ call \in [Processes -> PendingWrites]
  /\ \A t \in Tokens : tokens[t] # NoToken => principals[tokens[t].of] # "none"
  /\ \A w \in Swarms, p \in Principals :
       rows[w][p] # NoRow => w \in swarms /\ principals[p] # "none"

(* One root: every store has at most one admin token that no admin issued, *)
(* however many processes are bootstrapped and whatever history the store  *)
(* was opened with.  (bootstrap_admin_once and its seal.)                  *)
OneRoot ==
  \A t, u \in Tokens :
    /\ tokens[t] # NoToken /\ tokens[t].by # "actor"
    /\ tokens[u] # NoToken /\ tokens[u].by # "actor"
    => t = u

(* A membership ends only by a call that read that very membership: a      *)
(* grant that replaces a row, a revocation, or the expiry of a row, when   *)
(* it is late, leaves alone the row that another process has put in its    *)
(* place.  (membership_revoke by id and status.)                           *)
EndsSeenRowsOnly ==
  \A w \in Swarms, p \in Principals :
    rows[w][p] # NoRow /\ rows'[w][p].id # rows[w][p].id =>
      \E s \in Processes : /\ call[s].write \in {"replace", "end"}
                         /\ call[s].row = rows[w][p].id

OnlySeenRowsEnd == [][EndsSeenRowsOnly]_authVars
=============================================================================
