--------------------------- MODULE ServicesProofs ---------------------------
(***************************************************************************)
(* Theorems about the authority store, the courier, and the handles of     *)
(* long recalls: Authority, Courier and Continuations, in this order.      *)
(***************************************************************************)
EXTENDS Authority, Courier, Continuations, SequenceTheorems, FiniteSetTheorems,
        InductionLemmas, TLAPS

(***************************************************************************)
(* Theorems about Authority, for any principals, swarms, tokens and        *)
(* processes.                                                              *)
(*                                                                         *)
(* The inductive invariant.  That every row refers to rows that exist      *)
(* needs the same of the writes that calls still owe, since their checks   *)
(* are older than the writes: CallsRefer.  That there is one root rests on *)
(* what a bootstrap looks at, the admin tokens ever issued, of which the   *)
(* root is one: RootIsAdmin.                                               *)
(***************************************************************************)

(* What a call is about to write refers to principals, swarms and tokens   *)
(* that exist.                                                             *)
CallsRefer ==
  \A s \in Processes :
    /\ call[s].write \in {"disable", "token", "swarm", "owner", "replace", "insert"}
         => principals[call[s].principal] # "none"
    /\ call[s].write \in {"owner", "replace", "insert"} => call[s].swarm \in swarms
    /\ call[s].write = "revoke" => tokens[call[s].token] # NoToken

RootIsAdmin ==
  \A t \in Tokens :
    tokens[t] # NoToken /\ tokens[t].by # "actor" => t \in AdminTokens

AuthInv == AuthTypeOK /\ CallsRefer

(* What the model asks of its constants. *)
AuthAssumption == Granted \subseteq Roles /\ MaxRows \in Nat
-----------------------------------------------------------------------------
(* The fields of a call. *)
LEMMA CallFields ==
  ASSUME NEW c \in PendingWrites
  PROVE  /\ c.write \in {"principal", "disable", "token", "swarm", "owner", "replace",
                         "insert", "end"} => c.principal \in Principals
         /\ c.write \in {"swarm", "owner", "replace", "insert", "end"} => c.swarm \in Swarms
         /\ c.write \in {"replace", "insert", "end"} => c.row \in 0..MaxRows
         /\ c.write \in {"replace", "insert"} => c.role \in Roles
         /\ c.write = "token" => c.kind \in {"admin", "user"}
         /\ c.write = "revoke" => c.token \in Tokens
<1>1. CASE c \in [write : {"principal", "disable"}, principal : Principals]
  BY <1>1
<1>2. CASE c \in [write : {"token"}, principal : Principals, kind : {"admin", "user"}]
  BY <1>2
<1>3. CASE c \in [write : {"revoke"}, token : Tokens]
  BY <1>3
<1>4. CASE c \in [write : {"swarm", "owner"}, swarm : Swarms, principal : Principals]
  BY <1>4
<1>5. CASE c \in [write : {"replace", "insert"}, swarm : Swarms, principal : Principals,
                  role : Roles, row : 0..MaxRows]
  BY <1>5
<1>6. CASE c \in [write : {"end"}, swarm : Swarms, principal : Principals, row : 0..MaxRows]
  BY <1>6
<1>7. CASE c = NoCall
  BY <1>7 DEF NoCall
<1>. QED  BY <1>1, <1>2, <1>3, <1>4, <1>5, <1>6, <1>7 DEF PendingWrites

(* A call that begins or goes on with a write whose references are good.   *)
Refers(c, known, existing, issued) ==
  /\ c.write \in {"disable", "token", "swarm", "owner", "replace", "insert"}
       => known[c.principal] # "none"
  /\ c.write \in {"owner", "replace", "insert"} => c.swarm \in existing
  /\ c.write = "revoke" => issued[c.token] # NoToken

LEMMA CallStep ==
  ASSUME AuthInv, NEW s \in Processes, NEW c \in PendingWrites, Begun(s, c),
         Refers(c, principals', swarms', tokens'),
         \A p \in Principals : principals[p] # "none" => principals'[p] # "none",
         swarms \subseteq swarms',
         \A t \in Tokens : tokens[t] # NoToken => tokens'[t] # NoToken
  PROVE  call' \in [Processes -> PendingWrites] /\ CallsRefer'
<1>1. call' \in [Processes -> PendingWrites]
  BY DEF Begun, AuthInv, AuthTypeOK
<1>2. ASSUME NEW t \in Processes PROVE Refers(call'[t], principals', swarms', tokens')
  <2>1. CASE t = s
    BY <2>1 DEF Begun, AuthInv, AuthTypeOK
  <2>2. CASE t # s
    <3>1. call'[t] = call[t] /\ call[t] \in PendingWrites
      BY <2>2 DEF Begun, AuthInv, AuthTypeOK
    <3>. QED  BY <3>1, CallFields DEF Refers, AuthInv, CallsRefer
  <2>. QED  BY <2>1, <2>2
<1>. QED  BY <1>1, <1>2 DEF CallsRefer, Refers

(* The end of a call. *)
LEMMA DoneStep ==
  ASSUME AuthInv, NEW s \in Processes, Done(s),
         \A p \in Principals : principals[p] # "none" => principals'[p] # "none",
         swarms \subseteq swarms',
         \A t \in Tokens : tokens[t] # NoToken => tokens'[t] # NoToken
  PROVE  call' \in [Processes -> PendingWrites] /\ CallsRefer'
<1>1. NoCall \in PendingWrites /\ Refers(NoCall, principals', swarms', tokens')
  BY DEF PendingWrites, NoCall, Refers
<1>. QED  BY <1>1, CallStep DEF Done

(* The checks of a tool change nothing but its call. *)
LEMMA CheckStep ==
  ASSUME AuthInv, NEW s \in Processes, NEW c \in PendingWrites, Begun(s, c),
         Refers(c, principals, swarms, tokens),
         UNCHANGED <<seal, principals, tokens, swarms, rows, lastRow>>
  PROVE  AuthInv'
<1>1. call' \in [Processes -> PendingWrites] /\ CallsRefer'
  BY CallStep
<1>. QED  BY <1>1 DEF AuthInv, AuthTypeOK

(* A membership that is ended, and one that is inserted. *)
LEMMA EndedType ==
  ASSUME AuthTypeOK, NEW w \in Swarms, NEW p \in Principals, NEW id \in 0..MaxRows,
         rows' = Ended(w, p, id)
  PROVE  /\ rows' \in [Swarms -> [Principals -> Memberships \cup {NoRow}]]
         /\ \A v \in Swarms, q \in Principals :
              rows'[v][q] # NoRow => rows[v][q] # NoRow /\ rows'[v][q] = rows[v][q]
  BY DEF AuthTypeOK, Ended

LEMMA InsertType ==
  ASSUME AuthAssumption, AuthTypeOK, NEW w \in Swarms, NEW p \in Principals,
         NEW role \in Roles, Insert(w, p, role)
  PROVE  /\ rows' \in [Swarms -> [Principals -> Memberships \cup {NoRow}]]
         /\ lastRow' \in 0..MaxRows
         /\ \A v \in Swarms, q \in Principals :
              (v = w /\ q = p) \/ rows'[v][q] = rows[v][q]
         /\ rows'[w][p] # rows[w][p] => rows[w][p] = NoRow
<1>1. CASE rows[w][p] = NoRow
  <2>1. lastRow \in 0..MaxRows /\ lastRow + 1 \in 1..MaxRows
    BY <1>1 DEF Insert, AuthTypeOK, AuthAssumption
  <2>2. [id |-> lastRow + 1, role |-> role, expired |-> FALSE] \in Memberships
    BY <2>1 DEF Memberships
  <2>. DEFINE new == [id |-> lastRow + 1, role |-> role, expired |-> FALSE]
  <2>3. rows' = [rows EXCEPT ![w][p] = new] /\ lastRow' = lastRow + 1
    BY <1>1 DEF Insert
  <2>4. new \in Memberships \cup {NoRow}
    BY <2>2
  <2>. HIDE DEF new
  <2>5. rows' \in [Swarms -> [Principals -> Memberships \cup {NoRow}]]
    BY <2>3, <2>4 DEF AuthTypeOK
  <2>6. \A v \in Swarms, q \in Principals : (v = w /\ q = p) \/ rows'[v][q] = rows[v][q]
    BY <2>3 DEF AuthTypeOK
  <2>7. lastRow' \in 0..MaxRows
    BY <2>1, <2>3 DEF AuthAssumption
  <2>. QED  BY <1>1, <2>5, <2>6, <2>7
<1>2. CASE rows[w][p] # NoRow
  BY <1>2 DEF Insert, AuthTypeOK
<1>. QED  BY <1>1, <1>2

LEMMA NewTokenType ==
  ASSUME NEW p \in Principals, NEW kind \in {"admin", "user"}, NEW by \in {"system", "actor"}
  PROVE  NewToken(p, kind, by) \in TokenRows /\ NewToken(p, kind, by) # NoToken
  BY DEF NewToken, TokenRows, NoToken

LEMMA OverType ==
  ASSUME NEW t \in TokenRows
  PROVE  [t EXCEPT !.over = TRUE] \in TokenRows /\ t # NoToken
<1>1. t # NoToken
  BY DEF TokenRows, NoToken
<1>2. [t EXCEPT !.over = TRUE] \in TokenRows
  BY Zenon DEF TokenRows
<1>. QED  BY <1>1, <1>2
-----------------------------------------------------------------------------
LEMMA AuthInvInit == AuthAssumption /\ AuthInit => AuthInv
<1>. SUFFICES ASSUME AuthAssumption, AuthInit PROVE AuthInv
  OBVIOUS
<1>1. call \in [Processes -> PendingWrites] /\ CallsRefer
  BY DEF AuthInit, CallsRefer, PendingWrites, NoCall
<1>2. lastRow \in 0..MaxRows
  BY DEF AuthInit, AuthAssumption
<1>3. \A w \in Swarms, p \in Principals : rows[w][p] = NoRow
  BY DEF AuthInit
<1>4. rows \in [Swarms -> [Principals -> Memberships \cup {NoRow}]]
  BY DEF AuthInit
<1>5. /\ principals \in [Principals -> {"none", "active", "disabled"}]
      /\ tokens \in [Tokens -> TokenRows \cup {NoToken}]
      /\ \A t \in Tokens : tokens[t] # NoToken => principals[tokens[t].of] # "none"
  <2>1. CASE /\ principals = [p \in Principals |-> "none"]
             /\ tokens = [t \in Tokens |-> NoToken]
    BY <2>1
  <2>2. ASSUME NEW p \in Principals, NEW t \in Tokens, NEW over \in BOOLEAN,
               principals = [q \in Principals |-> IF q = p THEN "active" ELSE "none"],
               tokens = [u \in Tokens |->
                 IF u = t THEN [NewToken(p, "admin", "system") EXCEPT !.over = over]
                 ELSE NoToken]
        PROVE  /\ principals \in [Principals -> {"none", "active", "disabled"}]
               /\ tokens \in [Tokens -> TokenRows \cup {NoToken}]
               /\ \A u \in Tokens : tokens[u] # NoToken => principals[tokens[u].of] # "none"
    <3>. DEFINE new == [NewToken(p, "admin", "system") EXCEPT !.over = over]
    <3>1. new = [of |-> p, kind |-> "admin", by |-> "system", over |-> over]
      BY DEF NewToken
    <3>2. new \in TokenRows /\ new.of = p
      BY Zenon, <3>1 DEF TokenRows
    <3>3. tokens = [u \in Tokens |-> IF u = t THEN new ELSE NoToken]
      BY Zenon, <2>2
    <3>4. principals = [q \in Principals |-> IF q = p THEN "active" ELSE "none"]
      BY Zenon, <2>2
    <3>. HIDE DEF new
    <3>. QED  BY <3>2, <3>3, <3>4
  <2>. QED  BY <2>1, <2>2 DEF AuthInit
<1>. QED  BY <1>1, <1>2, <1>3, <1>4, <1>5 DEF AuthInit, AuthInv, AuthTypeOK

LEMMA AuthInvNext == AuthAssumption /\ AuthInv /\ [AuthNext]_authVars => AuthInv'
<1>. SUFFICES ASSUME AuthAssumption, AuthInv, [AuthNext]_authVars PROVE AuthInv'
  OBVIOUS
<1>. USE DEF AuthInv
<1>1. ASSUME NEW p \in Principals, NEW t \in Tokens, Bootstrap(p, t) PROVE AuthInv'
  <2>1. CASE AdminTokens # {}
    BY <1>1, <2>1 DEF Bootstrap, AuthTypeOK, CallsRefer
  <2>2. CASE AdminTokens = {}
    <3>1. /\ principals' = [principals EXCEPT ![p] = "active"]
          /\ tokens' = [tokens EXCEPT ![t] = NewToken(p, "admin", "system")]
          /\ seal' = TRUE
          /\ UNCHANGED <<swarms, rows, lastRow, call>>
      BY <1>1, <2>2 DEF Bootstrap, Enrolled
    <3>2. NewToken(p, "admin", "system") \in TokenRows /\ NewToken(p, "admin", "system").of = p
      BY NewTokenType DEF NewToken
    <3>3. \A q \in Principals : principals[q] # "none" => principals'[q] # "none"
      BY <3>1 DEF AuthTypeOK
    <3>8. \A u \in Tokens : tokens'[u] # NoToken \/ tokens[u] = NoToken
      BY <3>1, NewTokenType DEF AuthTypeOK
    <3>4. CallsRefer'
      BY <3>1, <3>3, <3>8, CallFields DEF CallsRefer, AuthTypeOK
    <3>5. \A u \in Tokens : tokens'[u] # NoToken => principals'[tokens'[u].of] # "none"
      BY <3>1, <3>2, <3>3 DEF AuthTypeOK, TokenRows
    <3>6. tokens' \in [Tokens -> TokenRows \cup {NoToken}]
      BY <3>1, <3>2 DEF AuthTypeOK
    <3>7. principals' \in [Principals -> {"none", "active", "disabled"}]
      BY <3>1 DEF AuthTypeOK
    <3>. QED  BY <3>1, <3>3, <3>4, <3>5, <3>6, <3>7 DEF AuthTypeOK
  <2>. QED  BY <2>1, <2>2
<1>2. ASSUME NEW s \in Processes, NEW t \in Tokens, NEW p \in Principals,
             \/ CreatePrincipal(s, t, p)
             \/ DisablePrincipal(s, t, p)
             \/ \E kind \in {"admin", "user"} : IssueToken(s, t, p, kind)
             \/ \E w \in Swarms : CreateSwarm(s, t, w, p)
             \/ \E w \in Swarms, role \in Granted : GrantMembership(s, t, w, p, role)
             \/ \E w \in Swarms : RevokeMembership(s, t, w, p)
      PROVE  AuthInv'
  <2>1. CASE CreatePrincipal(s, t, p)
    <3>. DEFINE c == [write |-> "principal", principal |-> p]
    <3>1. c \in PendingWrites /\ Refers(c, principals, swarms, tokens)
      BY DEF PendingWrites, Refers
    <3>. QED  BY <2>1, <3>1, CheckStep DEF CreatePrincipal
  <2>2. CASE DisablePrincipal(s, t, p)
    <3>. DEFINE c == [write |-> "disable", principal |-> p]
    <3>1. c \in PendingWrites /\ Refers(c, principals, swarms, tokens)
      BY <2>2 DEF PendingWrites, Refers, DisablePrincipal
    <3>. QED  BY <2>2, <3>1, CheckStep DEF DisablePrincipal
  <2>3. ASSUME NEW kind \in {"admin", "user"}, IssueToken(s, t, p, kind) PROVE AuthInv'
    <3>. DEFINE c == [write |-> "token", principal |-> p, kind |-> kind]
    <3>1. c \in PendingWrites /\ Refers(c, principals, swarms, tokens)
      BY <2>3 DEF PendingWrites, Refers, IssueToken
    <3>. QED  BY <2>3, <3>1, CheckStep DEF IssueToken
  <2>4. ASSUME NEW w \in Swarms, CreateSwarm(s, t, w, p) PROVE AuthInv'
    <3>. DEFINE c == [write |-> "swarm", swarm |-> w, principal |-> p]
    <3>1. c \in PendingWrites /\ Refers(c, principals, swarms, tokens)
      BY <2>4 DEF PendingWrites, Refers, CreateSwarm
    <3>. QED  BY <2>4, <3>1, CheckStep DEF CreateSwarm
  <2>5. ASSUME NEW w \in Swarms, NEW role \in Granted, GrantMembership(s, t, w, p, role)
        PROVE  AuthInv'
    <3>. DEFINE write == IF rows[w][p] = NoRow THEN "insert" ELSE "replace"
                c == [write |-> write, swarm |-> w, principal |-> p, role |-> role,
                      row |-> rows[w][p].id]
    <3>1. rows[w][p].id \in 0..MaxRows /\ role \in Roles /\ write \in {"replace", "insert"}
      BY DEF AuthTypeOK, Memberships, NoRow, AuthAssumption
    <3>2. c \in PendingWrites
      <4>. HIDE DEF write
      <4>. QED  BY <3>1 DEF PendingWrites
    <3>3. principals[p] # "none" /\ w \in swarms
      BY <2>5 DEF GrantMembership
    <3>4. Refers(c, principals, swarms, tokens)
      BY <3>3 DEF Refers
    <3>. QED  BY <2>5, <3>2, <3>4, CheckStep DEF GrantMembership
  <2>6. ASSUME NEW w \in Swarms, RevokeMembership(s, t, w, p) PROVE AuthInv'
    <3>. DEFINE c == [write |-> "end", swarm |-> w, principal |-> p, row |-> rows[w][p].id]
    <3>1. rows[w][p].id \in 0..MaxRows
      BY DEF AuthTypeOK, Memberships, NoRow, AuthAssumption
    <3>2. c \in PendingWrites /\ Refers(c, principals, swarms, tokens)
      BY <3>1 DEF PendingWrites, Refers
    <3>. QED  BY <2>6, <3>2, CheckStep DEF RevokeMembership
  <2>. QED  BY <1>2, <2>1, <2>2, <2>3, <2>4, <2>5, <2>6
<1>3. ASSUME NEW s \in Processes, NEW t \in Tokens, NEW u \in Tokens, RevokeToken(s, t, u)
      PROVE  AuthInv'
  <2>. DEFINE c == [write |-> "revoke", token |-> u]
  <2>1. c \in PendingWrites /\ Refers(c, principals, swarms, tokens)
    BY <1>3 DEF PendingWrites, Refers, RevokeToken
  <2>. QED  BY <1>3, <2>1, CheckStep DEF RevokeToken
<1>4. ASSUME NEW s \in Processes, NEW w \in Swarms, NEW p \in Principals, FindExpired(s, w, p)
      PROVE  AuthInv'
  <2>. DEFINE c == [write |-> "end", swarm |-> w, principal |-> p, row |-> rows[w][p].id]
  <2>1. rows[w][p].id \in 0..MaxRows
    BY DEF AuthTypeOK, Memberships, NoRow, AuthAssumption
  <2>2. c \in PendingWrites /\ Refers(c, principals, swarms, tokens)
    BY <2>1 DEF PendingWrites, Refers
  <2>. QED  BY <1>4, <2>2, CheckStep DEF FindExpired
<1>5. ASSUME NEW s \in Processes,
             WritePrincipal(s) \/ WriteDisabled(s)
      PROVE  AuthInv'
  <2>1. call[s].principal \in Principals
    BY <1>5, CallFields DEF WritePrincipal, WriteDisabled, AuthTypeOK
  <2>2. PICK status \in {"active", "disabled"} :
          principals' = [principals EXCEPT ![call[s].principal] = status]
    BY <1>5 DEF WritePrincipal, WriteDisabled
  <2>3. Done(s) /\ UNCHANGED <<seal, tokens, swarms, rows, lastRow>>
    BY <1>5 DEF WritePrincipal, WriteDisabled
  <2>4. \A p \in Principals : principals[p] # "none" => principals'[p] # "none"
    BY <2>1, <2>2 DEF AuthTypeOK
  <2>5. principals' \in [Principals -> {"none", "active", "disabled"}]
    BY <2>1, <2>2 DEF AuthTypeOK
  <2>6. call' \in [Processes -> PendingWrites] /\ CallsRefer'
    BY <2>3, <2>4, DoneStep
  <2>7. \A t \in Tokens : tokens'[t] # NoToken => principals'[tokens'[t].of] # "none"
    BY <2>3, <2>4 DEF AuthTypeOK, TokenRows
  <2>. QED  BY <2>3, <2>4, <2>5, <2>6, <2>7 DEF AuthTypeOK
<1>6. ASSUME NEW s \in Processes, NEW new \in Tokens, WriteToken(s, new) PROVE AuthInv'
  <2>. DEFINE p == call[s].principal
              row == NewToken(p, call[s].kind, "actor")
  <2>1. p \in Principals /\ call[s].kind \in {"admin", "user"} /\ principals[p] # "none"
    BY <1>6, CallFields DEF WriteToken, AuthTypeOK, CallsRefer
  <2>2. row \in TokenRows /\ row.of = p
    BY <2>1, NewTokenType DEF NewToken
  <2>3. tokens' = [tokens EXCEPT ![new] = row] /\ Done(s)
        /\ UNCHANGED <<seal, principals, swarms, rows, lastRow>>
    BY <1>6 DEF WriteToken
  <2>. HIDE DEF row
  <2>4. tokens' \in [Tokens -> TokenRows \cup {NoToken}]
    BY <2>2, <2>3 DEF AuthTypeOK
  <2>5. \A t \in Tokens : tokens'[t] # NoToken => principals'[tokens'[t].of] # "none"
    BY <2>1, <2>2, <2>3 DEF AuthTypeOK
  <2>7. row # NoToken
    BY <2>1, NewTokenType DEF row
  <2>8. \A t \in Tokens : tokens[t] # NoToken => tokens'[t] # NoToken
    BY <2>3, <2>7 DEF AuthTypeOK
  <2>6. call' \in [Processes -> PendingWrites] /\ CallsRefer'
    BY <2>3, <2>8, DoneStep
  <2>. QED  BY <2>3, <2>4, <2>5, <2>6 DEF AuthTypeOK
<1>. DEFINE TokensOver ==
       /\ tokens' \in [Tokens -> TokenRows \cup {NoToken}]
       /\ \A u \in Tokens : tokens'[u] # NoToken <=> tokens[u] # NoToken
       /\ \A u \in Tokens : tokens'[u] # NoToken => principals'[tokens'[u].of] # "none"
<1>7. ASSUME NEW t \in Tokens, tokens[t] # NoToken,
             tokens' = [tokens EXCEPT ![t].over = TRUE],
             UNCHANGED <<principals, swarms>>
      PROVE  TokensOver
  <2>. DEFINE row == [tokens[t] EXCEPT !.over = TRUE]
  <2>1. tokens[t] \in TokenRows
    BY <1>7 DEF AuthTypeOK
  <2>2. row \in TokenRows
    BY <2>1, OverType
  <2>3. row.of = tokens[t].of /\ row # NoToken
    BY <2>1, <2>2, OverType DEF TokenRows
  <2>4. tokens' = [tokens EXCEPT ![t] = row]
    BY <1>7
  <2>. HIDE DEF row
  <2>. QED  BY <1>7, <2>1, <2>2, <2>3, <2>4 DEF AuthTypeOK
<1>8. ASSUME NEW s \in Processes, WriteRevoked(s) PROVE AuthInv'
  <2>1. call[s].token \in Tokens /\ tokens[call[s].token] # NoToken
    BY <1>8, CallFields DEF WriteRevoked, AuthTypeOK, CallsRefer
  <2>2. tokens' = [tokens EXCEPT ![call[s].token].over = TRUE]
    BY <1>8 DEF WriteRevoked
  <2>3. Done(s) /\ UNCHANGED <<seal, principals, swarms, rows, lastRow>>
    BY <1>8 DEF WriteRevoked
  <2>4. TokensOver
    BY <2>1, <2>2, <2>3, <1>7
  <2>5. call' \in [Processes -> PendingWrites] /\ CallsRefer'
    BY <2>3, <2>4, DoneStep
  <2>. QED  BY <2>3, <2>4, <2>5 DEF AuthTypeOK
<1>9. ASSUME NEW t \in Tokens, TokenExpires(t) PROVE AuthInv'
  <2>1. /\ tokens[t] # NoToken /\ tokens' = [tokens EXCEPT ![t].over = TRUE]
        /\ UNCHANGED <<seal, principals, swarms, rows, lastRow, call>>
    BY <1>9 DEF TokenExpires
  <2>2. TokensOver
    BY <2>1, <1>7
  <2>3. CallsRefer'
    BY <2>1, <2>2, CallFields DEF CallsRefer, AuthTypeOK
  <2>. QED  BY <2>1, <2>2, <2>3 DEF AuthTypeOK
<1>10. ASSUME NEW s \in Processes, WriteSwarm(s) PROVE AuthInv'
  <2>. DEFINE c == [call[s] EXCEPT !.write = "owner"]
  <2>1. /\ call[s] \in PendingWrites /\ call[s].write = "swarm"
        /\ call[s].swarm \in Swarms /\ call[s].principal \in Principals
        /\ principals[call[s].principal] # "none"
    BY <1>10, CallFields DEF WriteSwarm, AuthTypeOK, CallsRefer
  <2>2. swarms' = swarms \cup {call[s].swarm} /\ swarms' \subseteq Swarms
        /\ UNCHANGED <<seal, principals, tokens, rows, lastRow>>
    BY <1>10, <2>1 DEF WriteSwarm, AuthTypeOK
  <2>3. c = [write |-> "owner", swarm |-> call[s].swarm, principal |-> call[s].principal]
    BY <2>1 DEF PendingWrites, NoCall
  <2>4. c \in PendingWrites /\ Refers(c, principals', swarms', tokens')
    BY <2>1, <2>2, <2>3 DEF PendingWrites, Refers
  <2>5. Done(s) \/ Begun(s, c)
    BY <1>10 DEF WriteSwarm
  <2>6. call' \in [Processes -> PendingWrites] /\ CallsRefer'
    <3>. HIDE DEF c
    <3>. QED  BY <2>2, <2>4, <2>5, DoneStep, CallStep
  <2>. QED  BY <2>2, <2>6 DEF AuthTypeOK
<1>11. ASSUME NEW s \in Processes, WriteOwner(s) \/ WriteRow(s) PROVE AuthInv'
  <2>. DEFINE w == call[s].swarm
              p == call[s].principal
  <2>1. w \in Swarms /\ p \in Principals /\ w \in swarms /\ principals[p] # "none"
    BY <1>11, CallFields DEF WriteOwner, WriteRow, AuthTypeOK, CallsRefer
  <2>2. PICK role \in Roles : Insert(w, p, role)
    BY <1>11, CallFields DEF WriteOwner, WriteRow, AuthTypeOK, Roles
  <2>3. Done(s) /\ UNCHANGED <<seal, principals, tokens, swarms>>
    BY <1>11 DEF WriteOwner, WriteRow
  <2>. HIDE DEF w, p
  <2>4. /\ rows' \in [Swarms -> [Principals -> Memberships \cup {NoRow}]]
        /\ lastRow' \in 0..MaxRows
        /\ \A v \in Swarms, q \in Principals : (v = w /\ q = p) \/ rows'[v][q] = rows[v][q]
    BY <2>1, <2>2, InsertType
  <2>5. \A v \in Swarms, q \in Principals :
          rows'[v][q] # NoRow => v \in swarms' /\ principals'[q] # "none"
    BY <2>1, <2>3, <2>4 DEF AuthTypeOK
  <2>6. call' \in [Processes -> PendingWrites] /\ CallsRefer'
    BY <2>3, DoneStep
  <2>. QED  BY <2>3, <2>4, <2>5, <2>6 DEF AuthTypeOK
<1>12. ASSUME NEW s \in Processes, WriteReplaced(s) \/ WriteEnded(s) PROVE AuthInv'
  <2>. DEFINE w == call[s].swarm
              p == call[s].principal
              id == call[s].row
              c == [call[s] EXCEPT !.write = "insert"]
  <2>1. /\ w \in Swarms /\ p \in Principals /\ id \in 0..MaxRows
        /\ rows' = Ended(w, p, id)
        /\ UNCHANGED <<seal, principals, tokens, swarms, lastRow>>
    BY <1>12, CallFields DEF WriteReplaced, WriteEnded, AuthTypeOK
  <2>2. /\ rows' \in [Swarms -> [Principals -> Memberships \cup {NoRow}]]
        /\ \A v \in Swarms, q \in Principals :
             rows'[v][q] # NoRow => rows[v][q] # NoRow /\ rows'[v][q] = rows[v][q]
    BY <2>1, EndedType
  <2>3. CASE WriteReplaced(s)
    <3>1. /\ call[s] \in PendingWrites /\ call[s].write = "replace" /\ call[s].role \in Roles
          /\ principals[p] # "none" /\ w \in swarms
      BY <2>3, CallFields DEF WriteReplaced, AuthTypeOK, CallsRefer
    <3>2. c = [write |-> "insert", swarm |-> w, principal |-> p,
               role |-> call[s].role, row |-> id]
      BY <3>1 DEF PendingWrites, NoCall
    <3>3. c \in PendingWrites /\ Refers(c, principals', swarms', tokens')
      BY <2>1, <3>1, <3>2 DEF PendingWrites, Refers
    <3>4. Begun(s, c)
      BY <2>3 DEF WriteReplaced
    <3>. HIDE DEF c
    <3>5. call' \in [Processes -> PendingWrites] /\ CallsRefer'
      BY <2>1, <3>3, <3>4, CallStep
    <3>. QED  BY <2>1, <2>2, <3>5 DEF AuthTypeOK
  <2>4. CASE WriteEnded(s)
    <3>1. call' \in [Processes -> PendingWrites] /\ CallsRefer'
      BY <2>1, <2>4, DoneStep DEF WriteEnded
    <3>. QED  BY <2>1, <2>2, <3>1 DEF AuthTypeOK
  <2>. QED  BY <1>12, <2>3, <2>4
<1>13. ASSUME NEW s \in Processes, CallLost(s) PROVE AuthInv'
  <2>1. call' \in [Processes -> PendingWrites] /\ CallsRefer'
    BY <1>13, DoneStep DEF CallLost
  <2>. QED  BY <1>13, <2>1 DEF CallLost, AuthTypeOK
<1>14. ASSUME NEW w \in Swarms, NEW p \in Principals, RowExpires(w, p) PROVE AuthInv'
  <2>1. rows[w][p] \in Memberships
    BY <1>14 DEF RowExpires, Active, AuthTypeOK
  <2>. DEFINE row == [rows[w][p] EXCEPT !.expired = TRUE]
  <2>2. ASSUME NEW r \in Memberships PROVE [r EXCEPT !.expired = TRUE] \in Memberships
    BY Zenon DEF Memberships
  <2>3. row \in Memberships
    BY <2>1, <2>2
  <2>4. rows' = [rows EXCEPT ![w][p] = row]
    BY <1>14 DEF RowExpires
  <2>5. rows[w][p] # NoRow
    BY <1>14 DEF RowExpires, Active
  <2>. HIDE DEF row
  <2>6. rows' \in [Swarms -> [Principals -> Memberships \cup {NoRow}]]
    BY <2>3, <2>4 DEF AuthTypeOK
  <2>7. \A v \in Swarms, q \in Principals : rows'[v][q] # NoRow => rows[v][q] # NoRow
    BY <2>4, <2>5 DEF AuthTypeOK
  <2>8. CallsRefer'
    BY <1>14 DEF RowExpires, CallsRefer
  <2>. QED  BY <1>14, <2>6, <2>7, <2>8 DEF RowExpires, AuthTypeOK
<1>15. CASE UNCHANGED authVars
  BY <1>15 DEF authVars, AuthTypeOK, CallsRefer
<1>. QED  BY <1>1, <1>2, <1>3, <1>4, <1>5, <1>6, <1>8, <1>9, <1>10, <1>11, <1>12, <1>13,
             <1>14, <1>15 DEF AuthNext
-----------------------------------------------------------------------------
(* Every write of every tool keeps the types and refers to principals,     *)
(* swarms and tokens that exist, however old the checks of its call are.   *)
THEOREM AuthTypeCorrect == AuthAssumption => (AuthSpec => []AuthTypeOK)
<1>. SUFFICES ASSUME AuthAssumption PROVE AuthSpec => []AuthTypeOK
  OBVIOUS
<1>1. AuthInit => AuthInv
  BY AuthInvInit
<1>2. AuthInv /\ [AuthNext]_authVars => AuthInv'
  BY AuthInvNext
<1>3. AuthInv => AuthTypeOK
  BY DEF AuthInv
<1>. QED  BY <1>1, <1>2, <1>3, PTL DEF AuthSpec

(* The tokens that are written keep what they were issued as. *)
LEMMA TokensStep ==
  ASSUME AuthInv, [AuthNext]_authVars
  PROVE  \/ \E p \in Principals, t \in Tokens :
               /\ AdminTokens = {} /\ tokens[t] = NoToken
               /\ tokens' = [tokens EXCEPT ![t] = NewToken(p, "admin", "system")]
         \/ \E t \in Tokens, new \in TokenRows :
               new.by = "actor" /\ tokens' = [tokens EXCEPT ![t] = new]
         \/ \E t \in Tokens :
               tokens[t] # NoToken /\ tokens' = [tokens EXCEPT ![t].over = TRUE]
         \/ UNCHANGED tokens
<1>. USE DEF AuthInv
<1>1. ASSUME NEW p \in Principals, NEW t \in Tokens, Bootstrap(p, t)
      PROVE  \/ /\ AdminTokens = {} /\ tokens[t] = NoToken
                /\ tokens' = [tokens EXCEPT ![t] = NewToken(p, "admin", "system")]
             \/ UNCHANGED tokens
  BY <1>1 DEF Bootstrap
<1>2. ASSUME NEW s \in Processes, NEW t \in Tokens, NEW p \in Principals,
             \/ CreatePrincipal(s, t, p)
             \/ DisablePrincipal(s, t, p)
             \/ \E kind \in {"admin", "user"} : IssueToken(s, t, p, kind)
             \/ \E w \in Swarms : CreateSwarm(s, t, w, p)
             \/ \E w \in Swarms, role \in Granted : GrantMembership(s, t, w, p, role)
             \/ \E w \in Swarms : RevokeMembership(s, t, w, p)
      PROVE  UNCHANGED tokens
  BY <1>2 DEF CreatePrincipal, DisablePrincipal, IssueToken, CreateSwarm,
              GrantMembership, RevokeMembership
<1>3. ASSUME NEW s \in Processes,
             \/ \E t \in Tokens, u \in Tokens : RevokeToken(s, t, u)
             \/ \E w \in Swarms, p \in Principals : FindExpired(s, w, p) \/ RowExpires(w, p)
             \/ WritePrincipal(s) \/ WriteDisabled(s) \/ WriteSwarm(s) \/ WriteOwner(s)
             \/ WriteReplaced(s) \/ WriteRow(s) \/ WriteEnded(s) \/ CallLost(s)
      PROVE  UNCHANGED tokens
  BY <1>3 DEF RevokeToken, FindExpired, RowExpires, WritePrincipal, WriteDisabled,
              WriteSwarm, WriteOwner, WriteReplaced, WriteRow, WriteEnded, CallLost
<1>4. ASSUME NEW s \in Processes, NEW t \in Tokens, WriteToken(s, t)
      PROVE  \E new \in TokenRows : new.by = "actor" /\ tokens' = [tokens EXCEPT ![t] = new]
  <2>1. call[s].principal \in Principals /\ call[s].kind \in {"admin", "user"}
    BY <1>4, CallFields DEF WriteToken, AuthTypeOK
  <2>2. NewToken(call[s].principal, call[s].kind, "actor") \in TokenRows
    BY <2>1, NewTokenType
  <2>3. NewToken(call[s].principal, call[s].kind, "actor").by = "actor"
    BY DEF NewToken
  <2>. QED  BY <1>4, <2>2, <2>3 DEF WriteToken
<1>5. ASSUME NEW s \in Processes, WriteRevoked(s)
      PROVE  \E t \in Tokens : /\ tokens[t] # NoToken
                               /\ tokens' = [tokens EXCEPT ![t].over = TRUE]
  <2>1. call[s].token \in Tokens /\ tokens[call[s].token] # NoToken
    BY <1>5, CallFields DEF WriteRevoked, AuthTypeOK, CallsRefer
  <2>. QED  BY Zenon, <1>5, <2>1 DEF WriteRevoked
<1>6. ASSUME NEW t \in Tokens, TokenExpires(t)
      PROVE  tokens[t] # NoToken /\ tokens' = [tokens EXCEPT ![t].over = TRUE]
  BY Zenon, <1>6 DEF TokenExpires
<1>7. ASSUME NEW w \in Swarms, NEW p \in Principals, RowExpires(w, p) PROVE UNCHANGED tokens
  BY <1>7 DEF RowExpires
<1>8. CASE UNCHANGED authVars
  BY <1>8 DEF authVars
<1>. QED  BY Zenon, <1>1, <1>2, <1>3, <1>4, <1>5, <1>6, <1>7, <1>8 DEF AuthNext

(* One root, also when processes are bootstrapped at the same time: the    *)
(* token of a bootstrap is an admin token, and the next bootstrap, which   *)
(* holds the lock from its first read, finds it.                           *)
THEOREM RootIsOne == AuthAssumption => (AuthSpec => []OneRoot)
<1>. SUFFICES ASSUME AuthAssumption PROVE AuthSpec => []OneRoot
  OBVIOUS
<1>. DEFINE Inv == AuthInv /\ RootIsAdmin /\ OneRoot
<1>1. AuthInit => Inv
  <2>. SUFFICES ASSUME AuthInit PROVE RootIsAdmin /\ OneRoot
    BY AuthInvInit
  <2>1. CASE tokens = [t \in Tokens |-> NoToken]
    BY <2>1 DEF RootIsAdmin, OneRoot
  <2>2. ASSUME NEW p \in Principals, NEW t \in Tokens, NEW over \in BOOLEAN,
               tokens = [u \in Tokens |->
                 IF u = t THEN [NewToken(p, "admin", "system") EXCEPT !.over = over]
                 ELSE NoToken]
        PROVE  RootIsAdmin /\ OneRoot
    <3>. DEFINE new == [NewToken(p, "admin", "system") EXCEPT !.over = over]
    <3>1. new.kind = "admin"
      BY Zenon DEF NewToken
    <3>2. tokens = [u \in Tokens |-> IF u = t THEN new ELSE NoToken]
      BY Zenon, <2>2
    <3>. HIDE DEF new
    <3>. QED  BY <3>1, <3>2 DEF RootIsAdmin, OneRoot, AdminTokens
  <2>. QED  BY Zenon, <2>1, <2>2 DEF AuthInit
<1>2. Inv /\ [AuthNext]_authVars => Inv'
  <2>. SUFFICES ASSUME Inv, [AuthNext]_authVars PROVE RootIsAdmin' /\ OneRoot'
    BY AuthInvNext
  <2>0. tokens \in [Tokens -> TokenRows \cup {NoToken}]
    BY DEF AuthInv, AuthTypeOK
  <2>1. ASSUME NEW p \in Principals, NEW t \in Tokens, AdminTokens = {}, tokens[t] = NoToken,
               tokens' = [tokens EXCEPT ![t] = NewToken(p, "admin", "system")]
        PROVE  RootIsAdmin' /\ OneRoot'
    BY <2>0, <2>1 DEF RootIsAdmin, OneRoot, AdminTokens, NewToken
  <2>2. ASSUME NEW t \in Tokens, NEW new \in TokenRows, new.by = "actor",
               tokens' = [tokens EXCEPT ![t] = new]
        PROVE  RootIsAdmin' /\ OneRoot'
    BY <2>0, <2>2 DEF RootIsAdmin, OneRoot, AdminTokens
  <2>3. ASSUME NEW t \in Tokens, tokens[t] # NoToken,
               tokens' = [tokens EXCEPT ![t].over = TRUE]
        PROVE  RootIsAdmin' /\ OneRoot'
    <3>. DEFINE row == [tokens[t] EXCEPT !.over = TRUE]
    <3>1. tokens[t] \in TokenRows
      BY <2>0, <2>3
    <3>2. row.by = tokens[t].by /\ row.kind = tokens[t].kind
      BY Zenon, <3>1 DEF TokenRows
    <3>3. tokens' = [tokens EXCEPT ![t] = row]
      BY Zenon, <2>3
    <3>. HIDE DEF row
    <3>. QED  BY <2>0, <2>3, <3>2, <3>3 DEF RootIsAdmin, OneRoot, AdminTokens
  <2>4. CASE UNCHANGED tokens
    BY <2>4 DEF RootIsAdmin, OneRoot, AdminTokens
  <2>. QED  BY Zenon, TokensStep, <2>1, <2>2, <2>3, <2>4
<1>3. Inv => OneRoot
  OBVIOUS
<1>. QED  BY <1>1, <1>2, <1>3, PTL DEF AuthSpec

(* Whatever ends a membership, or puts another one in its place, has read  *)
(* that membership: a write that comes late never ends another's.          *)
THEOREM LateWritesEndNothing == AuthAssumption => (AuthSpec => OnlySeenRowsEnd)
<1>. SUFFICES ASSUME AuthAssumption PROVE AuthSpec => OnlySeenRowsEnd
  OBVIOUS
<1>1. AuthInit => AuthInv
  BY AuthInvInit
<1>2. AuthInv /\ [AuthNext]_authVars => AuthInv'
  BY AuthInvNext
<1>3. AuthInv /\ [AuthNext]_authVars => [EndsSeenRowsOnly]_authVars
  <2>. SUFFICES ASSUME AuthInv, [AuthNext]_authVars,
                       NEW w \in Swarms, NEW p \in Principals,
                       rows[w][p] # NoRow, rows'[w][p].id # rows[w][p].id
                PROVE  \E s \in Processes : /\ call[s].write \in {"replace", "end"}
                                          /\ call[s].row = rows[w][p].id
    BY DEF EndsSeenRowsOnly
  <2>. USE DEF AuthInv
  <2>0. rows \in [Swarms -> [Principals -> Memberships \cup {NoRow}]]
    BY DEF AuthTypeOK
  <2>1. ASSUME NEW s \in Processes, WriteReplaced(s) \/ WriteEnded(s)
        PROVE  /\ call[s].write \in {"replace", "end"}
               /\ call[s].row = rows[w][p].id
    <3>1. /\ call[s].write \in {"replace", "end"}
          /\ rows' = Ended(call[s].swarm, call[s].principal, call[s].row)
      BY <2>1 DEF WriteReplaced, WriteEnded
    <3>2. call[s].swarm \in Swarms /\ call[s].principal \in Principals
      BY <3>1, CallFields DEF AuthTypeOK
    <3>. QED  BY <2>0, <3>1, <3>2 DEF Ended
  <2>2. ASSUME NEW s \in Processes, WriteOwner(s) \/ WriteRow(s) PROVE FALSE
    <3>. DEFINE v == call[s].swarm
                q == call[s].principal
    <3>1. v \in Swarms /\ q \in Principals
      BY <2>2, CallFields DEF WriteOwner, WriteRow, AuthTypeOK
    <3>2. PICK role \in Roles : Insert(v, q, role)
      BY <2>2, CallFields DEF WriteOwner, WriteRow, AuthTypeOK, Roles
    <3>. HIDE DEF v, q
    <3>3. rows'[w][p] = rows[w][p]
      BY <3>1, <3>2, InsertType
    <3>. QED  BY <3>3
  <2>3. ASSUME NEW v \in Swarms, NEW q \in Principals, RowExpires(v, q) PROVE FALSE
    <3>1. rows[v][q] \in Memberships
      BY <2>0, <2>3 DEF RowExpires, Active
    <3>2. [rows[v][q] EXCEPT !.expired = TRUE].id = rows[v][q].id
      BY Zenon, <3>1 DEF Memberships
    <3>3. rows' = [rows EXCEPT ![v][q] = [rows[v][q] EXCEPT !.expired = TRUE]]
      BY Zenon, <2>3 DEF RowExpires
    <3>. DEFINE row == [rows[v][q] EXCEPT !.expired = TRUE]
    <3>4. rows' = [rows EXCEPT ![v][q] = row] /\ row.id = rows[v][q].id
      BY <3>2, <3>3
    <3>. HIDE DEF row
    <3>. QED  BY <2>0, <3>4
  <2>4. ASSUME UNCHANGED rows PROVE FALSE
    BY <2>4
  <2>5. ASSUME NEW s \in Processes, NEW t \in Tokens, NEW q \in Principals,
               \/ CreatePrincipal(s, t, q)
               \/ DisablePrincipal(s, t, q)
               \/ \E kind \in {"admin", "user"} : IssueToken(s, t, q, kind)
               \/ \E v \in Swarms : CreateSwarm(s, t, v, q)
               \/ \E v \in Swarms, role \in Granted : GrantMembership(s, t, v, q, role)
               \/ \E v \in Swarms : RevokeMembership(s, t, v, q)
        PROVE  UNCHANGED rows
    BY <2>5 DEF CreatePrincipal, DisablePrincipal, IssueToken, CreateSwarm,
                GrantMembership, RevokeMembership
  <2>6. ASSUME NEW s \in Processes,
               \/ \E t \in Tokens, u \in Tokens : RevokeToken(s, t, u)
               \/ \E v \in Swarms, q \in Principals : FindExpired(s, v, q)
               \/ WritePrincipal(s) \/ WriteDisabled(s) \/ WriteSwarm(s)
               \/ \E t \in Tokens : WriteToken(s, t)
               \/ WriteRevoked(s) \/ CallLost(s)
        PROVE  UNCHANGED rows
    BY <2>6 DEF RevokeToken, FindExpired, WritePrincipal, WriteDisabled, WriteSwarm,
                WriteToken, WriteRevoked, CallLost
  <2>7. ASSUME NEW t \in Tokens,
               TokenExpires(t) \/ \E q \in Principals : Bootstrap(q, t)
        PROVE  UNCHANGED rows
    BY <2>7 DEF TokenExpires, Bootstrap
  <2>8. CASE UNCHANGED authVars
    BY <2>4, <2>8 DEF authVars
  <2>. QED  BY Zenon, <2>1, <2>2, <2>3, <2>4, <2>5, <2>6, <2>7, <2>8 DEF AuthNext
<1>. QED  BY <1>1, <1>2, <1>3, PTL DEF AuthSpec, OnlySeenRowsEnd
-----------------------------------------------------------------------------
(***************************************************************************)
(* Theorems about Courier, for any facts, subscriptions and connections,   *)
(* however many of the facts are late.                                     *)
(*                                                                         *)
(* The inductive invariants.  A subscription that polls may still push to  *)
(* has seen every fact it was pushed, below the watermark, and a fact that *)
(* was pushed keeps its time stamp (Pushed).  The watermark never passes   *)
(* the clock, so that a fact stamped and saved in one step is above it     *)
(* (Stamps).  The clock has moved once for every stamped fact (Counted).   *)
(***************************************************************************)

Receives(sub) == subs[sub] \in {"member", "outsider"}

Stamps ==
  /\ stored \in [Facts -> [is : FactStates, at : Nat]]
  /\ clock \in Nat /\ watermark \in Nat /\ watermark <= clock
  /\ \A f \in Facts : stored[f].at <= clock
  /\ \A f \in Facts \ Late : stored[f].is # "stamped"

Fields ==
  /\ caller \in {"member", "outsider", "revoked"}
  /\ conns \in [Conns -> {"new", "open", "closed"}]
  /\ routes \in [Subs -> Conns \cup {NoConn, "none"}]
  /\ subs \in [Subs -> {"new", "member", "outsider", "over"}]

Pushed ==
  /\ polled \in [Subs -> [Facts -> Nat]]
  /\ loop = "none" => \A sub \in Subs : ~Receives(sub)
  /\ \A sub \in Subs, f \in Facts : polled[sub][f] # 0 =>
       /\ stored[f].is \in {"saved", "hidden", "gone"}
       /\ subs[sub] # "new"
       /\ Receives(sub) => stored[f].at <= watermark
-----------------------------------------------------------------------------
LEMMA MaxIsMax ==
  ASSUME NEW S \in SUBSET Nat, S # {}, NEW b \in Nat, \A x \in S : x <= b
  PROVE  Max(S) \in S /\ \A y \in S : y <= Max(S)
<1>1. S \in SUBSET (0..b)
  OBVIOUS
<1>. QED  BY <1>1, MaxIs

LEMMA NewestIsNewest ==
  ASSUME Stamps, NEW fs \in SUBSET Facts, NEW default \in Nat, default <= clock
  PROVE  /\ Newest(fs, default) \in Nat
         /\ Newest(fs, default) <= clock
         /\ default <= Newest(fs, default)
         /\ \A f \in fs : stored[f].at <= Newest(fs, default)
<1>. DEFINE S == {stored[f].at : f \in fs} \cup {default}
<1>1. S \subseteq Nat /\ S # {} /\ \A x \in S : x <= clock
  BY DEF Stamps
<1>2. Max(S) \in S /\ \A y \in S : y <= Max(S)
  <2>. HIDE DEF S
  <2>. QED  BY <1>1, MaxIsMax DEF Stamps
<1>3. Newest(fs, default) = Max(S)
  BY DEF Newest
<1>4. default \in S /\ \A f \in fs : stored[f].at \in S
  OBVIOUS
<1>. HIDE DEF S
<1>. QED  BY <1>1, <1>2, <1>3, <1>4
-----------------------------------------------------------------------------
(* What one step does to the facts and to the watermark. *)
Aged ==
  \A f \in Facts :
    \/ stored'[f] = stored[f]
    \/ stored[f].is = "none" /\ stored'[f].at = clock + 1
         /\ (f \in Late => stored'[f].is = "stamped")
    \/ stored[f].is # "none" /\ stored'[f].at = stored[f].at
         /\ (stored[f].is # "stamped" =>
               stored[f].is \in {"saved", "hidden"} /\ stored'[f].is \in {"hidden", "gone"})

LEMMA StampsInit == CourierInit => Stamps
  BY DEF CourierInit, Stamps, FactStates

(* The facts of a step that concerns one fact. *)
LEMMA FactStep ==
  ASSUME Stamps, NEW f \in Facts,
         \/ SaveAtOnce(f) \/ Stamp(f) \/ Save(f)
         \/ \E is \in {"hidden", "gone"} : Withdraw(f, is)
  PROVE  Stamps' /\ Aged /\ UNCHANGED <<subs, loop, watermark, polled, looked, routes, conns>>
<1>1. ASSUME NEW is \in {"saved", "stamped"}, Write(f, is), f \in Late <=> is = "stamped"
      PROVE  Stamps' /\ Aged
  <2>. DEFINE new == [is |-> is, at |-> clock + 1]
  <2>1. /\ stored[f].is = "none" /\ stored' = [stored EXCEPT ![f] = new]
        /\ clock' = clock + 1 /\ watermark' = watermark
    BY <1>1 DEF Write
  <2>2. new \in [is : FactStates, at : Nat] /\ new.at = clock + 1 /\ new.is = is
    BY DEF Stamps, FactStates
  <2>. HIDE DEF new
  <2>. QED  BY <1>1, <2>1, <2>2 DEF Stamps, Aged
<1>2. ASSUME NEW is \in {"saved", "hidden", "gone"}, stored[f].is # "none",
             stored[f].is # "stamped" =>
               stored[f].is \in {"saved", "hidden"} /\ is \in {"hidden", "gone"},
             stored' = [stored EXCEPT ![f].is = is], UNCHANGED <<clock, watermark>>
      PROVE  Stamps' /\ Aged
  <2>. DEFINE new == [stored[f] EXCEPT !.is = is]
  <2>1. new = [is |-> is, at |-> stored[f].at]
    BY DEF Stamps
  <2>2. new \in [is : FactStates, at : Nat] /\ new.at = stored[f].at /\ new.is = is
    BY <2>1 DEF Stamps, FactStates
  <2>3. stored' = [stored EXCEPT ![f] = new]
    BY <1>2
  <2>. HIDE DEF new
  <2>. QED  BY <1>2, <2>2, <2>3 DEF Stamps, Aged
<1>3. CASE SaveAtOnce(f) \/ Stamp(f)
  <2>1. Stamps' /\ Aged
    BY <1>1, <1>3 DEF SaveAtOnce, Stamp
  <2>. QED  BY <1>3, <2>1 DEF SaveAtOnce, Stamp, Write
<1>4. CASE Save(f)
  BY <1>2, <1>4 DEF Save
<1>5. ASSUME NEW is \in {"hidden", "gone"}, Withdraw(f, is)
      PROVE  Stamps' /\ Aged /\ UNCHANGED <<subs, loop, watermark, polled, looked, routes, conns>>
  <2>1. stored[f].is \in {"saved", "hidden"}
    BY <1>5 DEF Withdraw, OnDisk
  <2>. QED  BY <1>2, <1>5, <2>1 DEF Withdraw
<1>. QED  BY <1>3, <1>4, <1>5

(* The facts of a restart: what was only stamped is lost. *)
LEMMA RestartStamps == Stamps /\ CourierRestarts => Stamps'
<1>. SUFFICES ASSUME Stamps, CourierRestarts PROVE Stamps'
  OBVIOUS
<1>1. ASSUME NEW f \in Facts
      PROVE  /\ stored'[f] \in [is : FactStates, at : Nat]
             /\ stored'[f].at = stored[f].at
             /\ f \notin Late => stored'[f].is # "stamped"
  <2>1. stored[f] \in [is : FactStates, at : Nat]
    BY DEF Stamps
  <2>2. CASE stored[f].is = "stamped"
    <3>1. stored'[f] = [stored[f] EXCEPT !.is = "gone"]
      BY <2>2 DEF CourierRestarts
    <3>2. stored'[f] = [is |-> "gone", at |-> stored[f].at]
      BY <2>1, <3>1
    <3>. QED  BY <2>1, <3>2 DEF FactStates
  <2>3. CASE stored[f].is # "stamped"
    BY <2>1, <2>3 DEF CourierRestarts
  <2>. QED  BY <2>2, <2>3
<1>2. stored' = [f \in Facts |-> stored'[f]] /\ clock' = clock /\ watermark' = 0
  BY DEF CourierRestarts
<1>. QED  BY <1>1, <1>2 DEF Stamps

(* A poll moves the watermark past what it finds, never past the clock.    *)
LEMMA PollStamps ==
  ASSUME Stamps, Poll
  PROVE  /\ Stamps' /\ watermark <= watermark'
         /\ \A f \in NewFacts : stored[f].at <= watermark'
<1>1. NewFacts \in SUBSET Facts /\ watermark \in Nat /\ watermark <= clock
  BY DEF Stamps, NewFacts, OnDisk
<1>2. watermark' = Newest(NewFacts, watermark) /\ UNCHANGED <<stored, clock>>
  BY DEF Poll
<1>. QED  BY <1>1, <1>2, NewestIsNewest DEF Stamps

LEMMA SubscribeStamps ==
  ASSUME Stamps, NEW sub \in Subs, NEW c \in Conns \cup {NoConn}, Subscribe(sub, c)
  PROVE  Stamps'
<1>1. OnDisk \in SUBSET Facts /\ 0 \in Nat /\ 0 <= clock
  BY DEF Stamps, OnDisk
<1>2. (watermark' = watermark \/ watermark' = Newest(OnDisk, 0)) /\ UNCHANGED <<stored, clock>>
  BY DEF Subscribe
<1>. QED  BY <1>1, <1>2, NewestIsNewest DEF Stamps

(* Every step keeps the time stamps in order. *)
LEMMA StampsNext == Stamps /\ [CourierNext]_courierVars => Stamps'
<1>. SUFFICES ASSUME Stamps, [CourierNext]_courierVars PROVE Stamps'
  OBVIOUS
<1>1. ASSUME NEW f \in Facts,
             \/ SaveAtOnce(f) \/ Stamp(f) \/ Save(f)
             \/ \E is \in {"hidden", "gone"} : Withdraw(f, is)
      PROVE  Stamps'
  BY <1>1, FactStep
<1>2. ASSUME UNCHANGED <<stored, clock, watermark>>
      PROVE  Stamps'
  BY <1>2 DEF Stamps
<1>3. CASE \E who \in {"member", "outsider", "revoked"} : Identity(who)
  BY <1>2, <1>3 DEF Identity
<1>4. CASE \E c \in Conns : Connect(c) \/ Disconnect(c)
  BY <1>2, <1>4 DEF Connect, Disconnect
<1>5. CASE \E sub \in Subs, c \in Conns \cup {NoConn} : Subscribe(sub, c)
  BY <1>5, SubscribeStamps
<1>6. CASE \E sub \in Subs : Unsubscribe(sub)
  BY <1>2, <1>6 DEF Unsubscribe
<1>7. CASE Poll
  BY <1>7, PollStamps
<1>8. CASE PollRaises \/ courierVars' = courierVars
  BY <1>2, <1>8 DEF PollRaises, courierVars
<1>9. CASE CourierRestarts
  BY <1>9, RestartStamps
<1>. QED  BY <1>1, <1>3, <1>4, <1>5, <1>6, <1>7, <1>8, <1>9 DEF CourierNext
-----------------------------------------------------------------------------
(* No fact that is stamped and saved in one step slips under the watermark *)
(* of a courier, whatever is stored, removed or restarted meanwhile.       *)
THEOREM NothingSlipsBy == CourierSpec => []NothingSkipped
<1>1. CourierInit => NothingSkipped
  BY DEF CourierInit, NothingSkipped
<1>2. ASSUME Stamps, NothingSkipped, [CourierNext]_courierVars
      PROVE  NothingSkipped'
  <2>1. ASSUME NEW f \in Facts,
               \/ SaveAtOnce(f) \/ Stamp(f) \/ Save(f)
               \/ \E is \in {"hidden", "gone"} : Withdraw(f, is)
        PROVE  NothingSkipped'
    <3>1. Stamps' /\ Aged /\ UNCHANGED <<loop, watermark, looked>>
      BY <1>2, <2>1, FactStep
    <3>2. ASSUME NEW g \in Facts \ Late, g \in OnDisk', stored'[g].at <= watermark'
          PROVE  g \in OnDisk /\ stored[g].at <= watermark
      <4>1. stored'[g].at # clock + 1
        BY <1>2, <3>1, <3>2 DEF Stamps
      <4>2. stored[g].is # "stamped"
        BY <1>2 DEF Stamps
      <4>. QED  BY <3>1, <3>2, <4>1, <4>2 DEF Aged, OnDisk
    <3>. QED  BY <1>2, <3>1, <3>2 DEF NothingSkipped, OnDisk
  <2>2. ASSUME UNCHANGED <<stored, watermark, looked>>, loop # "none"
        PROVE  NothingSkipped'
    BY <1>2, <2>2 DEF NothingSkipped, OnDisk
  <2>3. ASSUME UNCHANGED <<stored, watermark, looked, loop>>
        PROVE  NothingSkipped'
    BY <1>2, <2>3 DEF NothingSkipped, OnDisk
  <2>4. CASE \E who \in {"member", "outsider", "revoked"} : Identity(who)
    BY <2>3, <2>4 DEF Identity
  <2>5. CASE \E c \in Conns : Connect(c) \/ Disconnect(c)
    BY <2>3, <2>5 DEF Connect, Disconnect
  <2>6. CASE \E sub \in Subs, c \in Conns \cup {NoConn} : Subscribe(sub, c)
    <3>1. stored' = stored /\ (UNCHANGED <<loop, looked, watermark>> \/ looked' = OnDisk)
      BY <2>6 DEF Subscribe
    <3>. QED  BY <2>3, <3>1 DEF NothingSkipped, OnDisk
  <2>7. CASE \E sub \in Subs : Unsubscribe(sub)
    BY <2>3, <2>7 DEF Unsubscribe
  <2>8. CASE Poll
    <3>1. loop # "none" /\ looked' = looked \cup NewFacts /\ stored' = stored
      BY <2>8 DEF Poll
    <3>2. \A f \in OnDisk : f \in NewFacts \/ stored[f].at <= watermark
      BY <1>2 DEF Stamps, NewFacts, OnDisk
    <3>. QED  BY <1>2, <3>1, <3>2 DEF NothingSkipped, OnDisk
  <2>9. CASE PollRaises
    BY <2>2, <2>9 DEF PollRaises
  <2>10. CASE CourierRestarts
    BY <2>10 DEF CourierRestarts, NothingSkipped
  <2>11. CASE courierVars' = courierVars
    BY <2>3, <2>11 DEF courierVars
  <2>. QED  BY <1>2, <2>1, <2>4, <2>5, <2>6, <2>7, <2>8, <2>9, <2>10, <2>11 DEF CourierNext
<1>3. CourierSpec => []Stamps
  BY StampsInit, StampsNext, PTL DEF CourierSpec
<1>. QED  BY <1>1, <1>2, <1>3, PTL DEF CourierSpec
-----------------------------------------------------------------------------
(* The fields of the subscriptions, through every step. *)
LEMMA FieldsNext ==
  ASSUME Fields, [CourierNext]_courierVars
  PROVE  Fields'
<1>1. ASSUME NEW f \in Facts,
             \/ SaveAtOnce(f) \/ Stamp(f) \/ Save(f)
             \/ \E is \in {"hidden", "gone"} : Withdraw(f, is)
      PROVE  Fields'
  BY <1>1 DEF Fields, SaveAtOnce, Stamp, Save, Write, Withdraw
<1>2. ASSUME NEW who \in {"member", "outsider", "revoked"}, Identity(who)
      PROVE  Fields'
  BY <1>2 DEF Fields, Identity
<1>3. ASSUME NEW c \in Conns, Connect(c) \/ Disconnect(c)
      PROVE  Fields'
  BY <1>3 DEF Fields, Connect, Disconnect
<1>4. ASSUME NEW sub \in Subs, NEW c \in Conns \cup {NoConn}, Subscribe(sub, c)
      PROVE  Fields'
  BY <1>4 DEF Fields, Subscribe
<1>5. ASSUME NEW sub \in Subs, Unsubscribe(sub)
      PROVE  Fields'
  BY <1>5 DEF Fields, Unsubscribe
<1>6. CASE Poll
  BY <1>6 DEF Fields, Poll
<1>7. CASE PollRaises \/ courierVars' = courierVars
  BY <1>7 DEF Fields, PollRaises, courierVars
<1>8. CASE CourierRestarts
  BY <1>8 DEF Fields, CourierRestarts
<1>. QED  BY <1>1, <1>2, <1>3, <1>4, <1>5, <1>6, <1>7, <1>8 DEF CourierNext

(* A subscription that may still be pushed to has an open connection, or   *)
(* was made without one, for any connections and subscriptions.            *)
THEOREM ClosingLeavesNothing == CourierSpec => []Routed
<1>1. CourierInit => Fields /\ Routed
  BY DEF CourierInit, Fields, Routed
<1>2. ASSUME Fields, Fields', Routed, [CourierNext]_courierVars
      PROVE  Routed'
  <2>1. ASSUME UNCHANGED <<conns, routes, subs>>
        PROVE  Routed'
    BY <1>2, <2>1 DEF Routed, Open
  <2>2. ASSUME NEW f \in Facts,
               \/ SaveAtOnce(f) \/ Stamp(f) \/ Save(f)
               \/ \E is \in {"hidden", "gone"} : Withdraw(f, is)
        PROVE  Routed'
    BY <2>1, <2>2 DEF SaveAtOnce, Stamp, Save, Write, Withdraw
  <2>3. ASSUME NEW who \in {"member", "outsider", "revoked"}, Identity(who)
        PROVE  Routed'
    BY <2>1, <2>3 DEF Identity
  <2>4. ASSUME NEW c \in Conns, Connect(c)
        PROVE  Routed'
    BY <1>2, <2>4 DEF Routed, Open, Connect, Fields
  <2>5. ASSUME NEW c \in Conns, Disconnect(c)
        PROVE  Routed'
    BY <1>2, <2>5 DEF Routed, Open, Disconnect, RoutedTo, Fields
  <2>6. ASSUME NEW sub \in Subs, NEW c \in Conns \cup {NoConn}, Subscribe(sub, c)
        PROVE  Routed'
    BY <1>2, <2>6 DEF Routed, Open, Subscribe, Fields
  <2>7. ASSUME NEW sub \in Subs, Unsubscribe(sub)
        PROVE  Routed'
    BY <1>2, <2>7 DEF Routed, Open, Unsubscribe, Fields
  <2>8. CASE Poll
    BY <1>2, <2>8 DEF Routed, Open, Poll, Fields
  <2>9. CASE PollRaises \/ courierVars' = courierVars
    BY <2>1, <2>9 DEF PollRaises, courierVars
  <2>10. CASE CourierRestarts
    BY <2>10 DEF Routed, CourierRestarts
  <2>. QED  BY <1>2, <2>2, <2>3, <2>4, <2>5, <2>6, <2>7, <2>8, <2>9, <2>10 DEF CourierNext
<1>. QED  BY <1>1, <1>2, FieldsNext, PTL DEF CourierSpec
-----------------------------------------------------------------------------
(* The clock has moved once for every fact that was stamped. *)
Given == {f \in Facts : stored[f].is # "none"}

Counted ==
  /\ clock = Cardinality(Given)
  /\ loop \in {"none", "running", "dead"}
  /\ looked \subseteq Facts

(* A step that stamps no fact leaves the same ones stamped.                *)
LEMMA GivenKept ==
  ASSUME Stamps, Counted, Stamps', UNCHANGED clock,
         \A f \in Facts : stored'[f].is = "none" <=> stored[f].is = "none",
         loop' \in {"none", "running", "dead"}, looked' \subseteq Facts
  PROVE  Counted'
<1>1. Given' = Given
  BY DEF Given
<1>. QED  BY <1>1 DEF Counted

(* The stamp of a fact adds it to them. *)
LEMMA GivenGrows ==
  ASSUME IsFiniteSet(Facts), Stamps, Counted, NEW f \in Facts, NEW is \in {"saved", "stamped"},
         Write(f, is)
  PROVE  Counted'
<1>. DEFINE new == [is |-> is, at |-> clock + 1]
<1>1. /\ stored[f].is = "none" /\ stored' = [stored EXCEPT ![f] = new]
      /\ clock' = clock + 1 /\ UNCHANGED <<loop, looked>>
  BY DEF Write
<1>2. new.is = is /\ is # "none"
  OBVIOUS
<1>. HIDE DEF new
<1>3. stored'[f].is # "none" /\ \A g \in Facts \ {f} : stored'[g] = stored[g]
  BY <1>1, <1>2 DEF Stamps
<1>4. Given' = Given \cup {f} /\ f \notin Given
  BY <1>1, <1>3 DEF Given
<1>5. IsFiniteSet(Given)
  <2>1. Given \subseteq Facts
    BY DEF Given
  <2>. QED  BY <2>1, FS_Subset
<1>6. Cardinality(Given') = Cardinality(Given) + 1
  BY <1>4, <1>5, FS_AddElement
<1>. QED  BY <1>1, <1>6 DEF Counted

(* Every step keeps the count. *)
LEMMA CountedNext ==
  ASSUME IsFiniteSet(Facts), Stamps, Stamps', Counted, [CourierNext]_courierVars
  PROVE  Counted'
<1>1. ASSUME NEW f \in Facts, SaveAtOnce(f) \/ Stamp(f)
      PROVE  Counted'
  BY <1>1, GivenGrows DEF SaveAtOnce, Stamp
<1>2. ASSUME NEW f \in Facts,
             Save(f) \/ \E is \in {"hidden", "gone"} : Withdraw(f, is)
      PROVE  Counted'
  <2>1. Aged /\ stored[f].is # "none" /\ UNCHANGED <<clock, loop, looked>>
    BY <1>2, FactStep DEF Save, Withdraw, OnDisk
  <2>2. \A g \in Facts \ {f} : stored'[g] = stored[g]
    BY <1>2 DEF Save, Withdraw, Stamps
  <2>3. stored'[f].is # "none"
    BY <1>2 DEF Save, Withdraw, Stamps
  <2>. QED  BY <2>1, <2>2, <2>3, GivenKept DEF Counted
<1>3. ASSUME UNCHANGED <<stored, clock>>,
             loop' \in {"none", "running", "dead"}, looked' \subseteq Facts
      PROVE  Counted'
  BY <1>3, GivenKept
<1>4. CASE \E who \in {"member", "outsider", "revoked"} : Identity(who)
  BY <1>3, <1>4 DEF Identity, Counted
<1>5. CASE \E c \in Conns : Connect(c) \/ Disconnect(c)
  BY <1>3, <1>5 DEF Connect, Disconnect, Counted
<1>6. CASE \E sub \in Subs, c \in Conns \cup {NoConn} : Subscribe(sub, c)
  <2>1. /\ UNCHANGED <<stored, clock>>
        /\ \/ loop' = "running" /\ looked' = OnDisk
           \/ UNCHANGED <<loop, looked>>
    BY <1>6 DEF Subscribe
  <2>. QED  BY <1>3, <2>1 DEF Counted, OnDisk
<1>7. CASE \E sub \in Subs : Unsubscribe(sub)
  BY <1>3, <1>7 DEF Unsubscribe, Counted
<1>8. CASE Poll
  BY <1>3, <1>8 DEF Poll, Counted, NewFacts, OnDisk
<1>9. CASE PollRaises \/ courierVars' = courierVars
  BY <1>3, <1>9 DEF PollRaises, courierVars, Counted
<1>10. CASE CourierRestarts
  <2>1. UNCHANGED clock /\ loop' = "none" /\ looked' = {}
    BY <1>10 DEF CourierRestarts
  <2>2. ASSUME NEW f \in Facts
        PROVE  stored'[f].is = "none" <=> stored[f].is = "none"
    BY <1>10 DEF CourierRestarts, Stamps
  <2>. QED  BY <2>1, <2>2, GivenKept
<1>. QED  BY <1>1, <1>2, <1>4, <1>5, <1>6, <1>7, <1>8, <1>9, <1>10 DEF CourierNext

(* Every variable keeps its type, and no stamp is later than the number of *)
(* facts, for any finite set of them.                                      *)
THEOREM CourierTypeCorrect == ASSUME IsFiniteSet(Facts) PROVE CourierSpec => []CourierTypeOK
<1>1. CourierInit => Stamps /\ Fields /\ Counted
  <2>. SUFFICES ASSUME CourierInit PROVE Stamps /\ Fields /\ Counted
    OBVIOUS
  <2>1. Given = {} /\ clock = 0
    BY DEF CourierInit, Given
  <2>. QED  BY <2>1, StampsInit, FS_EmptySet DEF CourierInit, Fields, Counted
<1>2. ASSUME Stamps, Fields, Counted, [CourierNext]_courierVars
      PROVE  Stamps' /\ Fields' /\ Counted'
  <2>1. Stamps'
    BY <1>2, StampsNext
  <2>. QED  BY <1>2, <2>1, FieldsNext, CountedNext
<1>3. ASSUME Stamps, Fields, Counted
      PROVE  CourierTypeOK
  <2>1. Given \subseteq Facts
    BY DEF Given
  <2>2. Cardinality(Given) <= Cardinality(Facts) /\ Cardinality(Facts) \in Nat
    BY <2>1, FS_Subset, FS_CardinalityType
  <2>3. clock \in 0..Cardinality(Facts)
    BY <1>3, <2>2 DEF Counted, Stamps
  <2>4. watermark \in 0..clock
    BY <1>3 DEF Stamps
  <2>5. \A f \in Facts : stored[f] \in [is : FactStates, at : 0..Cardinality(Facts)]
    <3>1. ASSUME NEW f \in Facts
          PROVE  stored[f] \in [is : FactStates, at : 0..Cardinality(Facts)]
      <4>1. stored[f] \in [is : FactStates, at : Nat] /\ stored[f].at <= clock
        BY <1>3 DEF Stamps
      <4>2. stored[f].at \in 0..Cardinality(Facts)
        BY <2>2, <2>3, <4>1
      <4>. QED  BY <4>1, <4>2
    <3>. QED  BY <3>1
  <2>6. stored \in [Facts -> [is : FactStates, at : 0..Cardinality(Facts)]]
    BY <1>3, <2>5 DEF Stamps
  <2>. QED  BY <1>3, <2>3, <2>4, <2>6 DEF CourierTypeOK, Fields, Counted
<1>. QED  BY <1>1, <1>2, <1>3, PTL DEF CourierSpec
-----------------------------------------------------------------------------
PushedInv == Fields /\ Pushed /\ PolledOnce

(* A step that polls nothing keeps Pushed if it makes no receiver of a     *)
(* subscription that is over and moves no watermark back under a receiver. *)
LEMMA PushedKept ==
  ASSUME Stamps, Pushed, Stamps', Fields', UNCHANGED polled,
         loop' = "none" => \A sub \in Subs : ~Receives(sub)',
         \A sub \in Subs :
           /\ subs'[sub] = "new" => subs[sub] = "new"
           /\ Receives(sub)' => subs[sub] = "new" \/ (Receives(sub) /\ watermark <= watermark'),
         \A f \in Facts : stored[f].is \in {"saved", "hidden", "gone"} =>
           stored'[f].is \in {"saved", "hidden", "gone"} /\ stored'[f].at = stored[f].at
  PROVE  Pushed'
<1>1. ASSUME NEW sub \in Subs, NEW f \in Facts, polled'[sub][f] # 0
      PROVE  /\ stored'[f].is \in {"saved", "hidden", "gone"}
             /\ subs'[sub] # "new"
             /\ Receives(sub)' => stored'[f].at <= watermark'
  <2>1. /\ stored[f].is \in {"saved", "hidden", "gone"} /\ subs[sub] # "new"
        /\ Receives(sub) => stored[f].at <= watermark
    BY <1>1 DEF Pushed
  <2>2. stored[f].at \in Nat /\ watermark \in Nat /\ watermark' \in Nat
    BY DEF Stamps
  <2>. QED  BY <2>1, <2>2
<1>. QED  BY <1>1 DEF Pushed, Fields

(* The poll itself: what it pushes is above the watermark, so it was not   *)
(* pushed before, and is below it afterwards.                              *)
LEMMA PollPushes ==
  ASSUME Stamps, PushedInv, Fields', Poll
  PROVE  (Pushed /\ PolledOnce)'
<1>1. Stamps' /\ watermark <= watermark' /\ \A f \in NewFacts : stored[f].at <= watermark'
  BY PollStamps
<1>2. stored' = stored /\ loop' = loop /\ loop # "none"
  BY DEF Poll
<1>3. ASSUME NEW sub \in Subs
      PROVE  /\ subs'[sub] = "over" \/ subs'[sub] = subs[sub]
             /\ polled'[sub] \in [Facts -> Nat]
  BY DEF Poll, PushedInv, Pushed
<1>4. ASSUME NEW sub \in Subs, NEW f \in Facts
      PROVE  \/ polled'[sub][f] = polled[sub][f]
             \/ /\ polled'[sub][f] = polled[sub][f] + 1
                /\ f \in NewFacts /\ Receives(sub) /\ stored[f].is = "saved"
  BY DEF Poll, PushedInv, Pushed, Visible, MayRead, Receives, Fields
<1>5. ASSUME NEW sub \in Subs, NEW f \in Facts
      PROVE  /\ polled'[sub][f] <= 1
             /\ polled'[sub][f] # 0 =>
                  /\ stored'[f].is \in {"saved", "hidden", "gone"}
                  /\ subs'[sub] # "new"
                  /\ Receives(sub)' => stored'[f].at <= watermark'
  <2>1. /\ polled[sub][f] \in Nat /\ polled[sub][f] <= 1
        /\ polled[sub][f] # 0 =>
             /\ stored[f].is \in {"saved", "hidden", "gone"}
             /\ subs[sub] # "new"
             /\ Receives(sub) => stored[f].at <= watermark
    BY DEF PushedInv, Pushed, PolledOnce
  <2>2. stored[f].at \in Nat /\ watermark \in Nat /\ watermark' \in Nat
    BY <1>1 DEF Stamps
  <2>3. CASE polled'[sub][f] = polled[sub][f]
    BY <1>1, <1>2, <1>3, <2>1, <2>2, <2>3 DEF Receives
  <2>4. CASE /\ polled'[sub][f] = polled[sub][f] + 1
             /\ f \in NewFacts /\ Receives(sub) /\ stored[f].is = "saved"
    <3>1. polled[sub][f] = 0
      BY <2>1, <2>2, <2>4 DEF NewFacts
    <3>. QED  BY <1>1, <1>2, <1>3, <2>4, <3>1 DEF Receives
  <2>. QED  BY <1>4, <2>3, <2>4
<1>6. polled' \in [Subs -> [Facts -> Nat]]
  <2>1. polled' = [sub \in Subs |-> polled'[sub]]
    BY DEF Poll
  <2>. QED  BY <1>3, <2>1
<1>7. Pushed'
  BY <1>2, <1>5, <1>6 DEF Pushed, Fields
<1>8. PolledOnce'
  BY <1>5 DEF PolledOnce
<1>. QED  BY <1>7, <1>8

(* A poll pushes a fact to a subscription at most once, for any facts and  *)
(* subscriptions, however the courier is made again and the facts change.  *)
THEOREM PushedAtMostOnce == CourierSpec => []PolledOnce
<1>1. CourierInit => PushedInv
  BY DEF CourierInit, PushedInv, Fields, Pushed, PolledOnce, Receives
<1>2. ASSUME Stamps, Stamps', Fields', PushedInv, [CourierNext]_courierVars
      PROVE  PushedInv'
  <2>1. ASSUME Pushed', UNCHANGED polled
        PROVE  PushedInv'
    BY <1>2, <2>1 DEF PushedInv, PolledOnce
  <2>2. ASSUME UNCHANGED <<stored, subs, loop, watermark, polled>>
        PROVE  PushedInv'
    BY <1>2, <2>1, <2>2 DEF PushedInv, Pushed, Receives
  <2>3. ASSUME NEW f \in Facts,
               \/ SaveAtOnce(f) \/ Stamp(f) \/ Save(f)
               \/ \E is \in {"hidden", "gone"} : Withdraw(f, is)
        PROVE  PushedInv'
    <3>1. Aged /\ UNCHANGED <<subs, loop, watermark, polled>>
      BY <1>2, <2>3, FactStep
    <3>2. \A g \in Facts : stored[g].is \in {"saved", "hidden", "gone"} =>
            stored'[g].is \in {"saved", "hidden", "gone"} /\ stored'[g].at = stored[g].at
      BY <3>1 DEF Aged
    <3>3. watermark \in Nat
      BY <1>2 DEF Stamps
    <3>4. Pushed'
      BY <1>2, <3>1, <3>2, <3>3, PushedKept DEF PushedInv, Pushed, Receives
    <3>. QED  BY <2>1, <3>1, <3>4
  <2>4. CASE \E who \in {"member", "outsider", "revoked"} : Identity(who)
    BY <2>2, <2>4 DEF Identity
  <2>5. ASSUME NEW c \in Conns, Connect(c)
        PROVE  PushedInv'
    BY <2>2, <2>5 DEF Connect
  <2>6. ASSUME UNCHANGED <<stored, loop, watermark, polled>>,
               \A sub \in Subs : subs'[sub] \in {subs[sub], "over"}
        PROVE  PushedInv'
    <3>1. watermark \in Nat
      BY <1>2 DEF Stamps
    <3>2. Pushed'
      BY <1>2, <2>6, <3>1, PushedKept DEF PushedInv, Pushed, Receives
    <3>. QED  BY <2>1, <2>6, <3>2
  <2>7. ASSUME NEW c \in Conns, Disconnect(c)
        PROVE  PushedInv'
    BY <2>6, <2>7 DEF Disconnect
  <2>8. ASSUME NEW sub \in Subs, Unsubscribe(sub)
        PROVE  PushedInv'
    BY <1>2, <2>6, <2>8 DEF Unsubscribe, PushedInv, Fields
  <2>9. ASSUME NEW sub \in Subs, NEW c \in Conns \cup {NoConn}, Subscribe(sub, c)
        PROVE  PushedInv'
    <3>1. UNCHANGED <<stored, polled>> /\ loop' # "none" /\ subs[sub] = "new"
      BY <2>9 DEF Subscribe
    <3>2. \A other \in Subs : other # sub => subs'[other] = subs[other]
      BY <1>2, <2>9 DEF Subscribe, PushedInv, Fields
    <3>3. loop # "none" => watermark' = watermark
      BY <2>9 DEF Subscribe
    <3>4. watermark \in Nat
      BY <1>2 DEF Stamps
    <3>5. Pushed'
      BY <1>2, <3>1, <3>2, <3>3, <3>4, PushedKept DEF PushedInv, Pushed, Receives
    <3>. QED  BY <2>1, <3>1, <3>5
  <2>10. CASE Poll
    BY <1>2, <2>10, PollPushes DEF PushedInv
  <2>11. CASE PollRaises
    <3>1. UNCHANGED <<stored, subs, watermark, polled>> /\ loop' # "none"
      BY <2>11 DEF PollRaises
    <3>2. Pushed'
      BY <1>2, <3>1 DEF PushedInv, Pushed, Receives
    <3>. QED  BY <2>1, <3>1, <3>2
  <2>12. CASE CourierRestarts
    <3>1. polled' = polled
      BY <2>12 DEF CourierRestarts
    <3>2. \A sub \in Subs : ~Receives(sub)' /\ (subs'[sub] = "new" => subs[sub] = "new")
      BY <2>12 DEF CourierRestarts, Receives
    <3>3. \A f \in Facts : stored[f].is # "stamped" => stored'[f] = stored[f]
      BY <2>12 DEF CourierRestarts
    <3>4. Pushed'
      BY <1>2, <3>1, <3>2, <3>3, PushedKept DEF PushedInv
    <3>. QED  BY <2>1, <3>1, <3>4
  <2>13. CASE courierVars' = courierVars
    BY <2>2, <2>13 DEF courierVars
  <2>. QED  BY <1>2, <2>3, <2>4, <2>5, <2>7, <2>8, <2>9, <2>10, <2>11, <2>12, <2>13
            DEF CourierNext
<1>3. PushedInv => PolledOnce /\ Fields
  BY DEF PushedInv
<1>. QED  BY <1>1, <1>2, <1>3, StampsInit, StampsNext, FieldsNext, PTL DEF CourierSpec
-----------------------------------------------------------------------------
(***************************************************************************)
(* Theorems about Continuations, for any handles, readers and memberships, *)
(* and for pages of any size and number.                                   *)
(*                                                                         *)
(* HandleInv is inductive: the page a handle gives out next is one it has, *)
(* and its reader, while it reads straight on, holds exactly the           *)
(* candidates of the pages before that one.  What a page adds to them is   *)
(* the lemma ChunkIs.                                                      *)
(***************************************************************************)

(* The pages that n candidates fill. *)
Filled(n) == {i \in 1..MaxPages : (i - 1) * PageSize < n}

PageOf(n, i) ==
  [page |-> i + 1, next |-> IF More(n, i) THEN i + 2 ELSE 0, entries |-> Chunk(n, i)]

(* Ranks 1..k, in their order. *)
UpTo(got, k) == got \in Seq(Nat) /\ k \in Nat /\ Len(got) = k /\ \A i \in 1..k : got[i] = i

Least(a, b) == IF a <= b THEN a ELSE b

Reading == [by : Seq(Readers \cup Groups), n : Nat, got : Seq(Nat),
            is : {"reading", "told", "lost"}, readBy : SUBSET Seq(Readers \cup Groups)]

HandleInv ==
  /\ memberships \in [Readers -> Groups]
  /\ DOMAIN handles = Handles
  /\ reader \in [Handles -> Reading]
  /\ \A h \in Handles : handles[h] # NoHandle =>
       \E i \in Filled(reader[h].n) :
         /\ handles[h] = [next |-> i + 1, key |-> reader[h].by, pages |-> Pages(reader[h].n)]
         /\ reader[h].is = "lost" \/ UpTo(reader[h].got, (i - 1) * PageSize)
         /\ reader[h].is # "told"
  /\ \A h \in Handles : reader[h].is # "lost" =>
       /\ UpTo(reader[h].got, Len(reader[h].got))
       /\ reader[h].is = "told" => Len(reader[h].got) = Least(reader[h].n, PageSize * MaxPages)
  /\ ReadByItsCaller

-----------------------------------------------------------------------------
LEMMA LeastIs == ASSUME NEW a \in Nat, NEW b \in Nat PROVE Min({a, b}) = Least(a, b)
<1>1. CASE a <= b
  BY <1>1 DEF Min, Least
<1>2. CASE ~(a <= b)
  BY <1>2 DEF Min, Least
<1>. QED  BY <1>1, <1>2

LEMMA PagesAre == ASSUME NEW n PROVE Pages(n) = {PageOf(n, i) : i \in Filled(n)}
BY DEF Pages, PageOf, Filled

(* What a reader holds after it has also received page i: everything up to *)
(* there, and all there is if no page is behind it.                        *)
LEMMA ChunkIs ==
  ASSUME NEW n \in Nat, NEW i \in Filled(n), NEW got, UpTo(got, (i - 1) * PageSize)
  PROVE  /\ UpTo(got \o Chunk(n, i), Least(i * PageSize, n))
         /\ More(n, i) => Least(i * PageSize, n) = i * PageSize /\ i + 1 \in Filled(n)
         /\ ~More(n, i) => Least(i * PageSize, n) = Least(n, PageSize * MaxPages)
<1>. DEFINE a == (i - 1) * PageSize
            b == i * PageSize
            m == Least(b, n)
            ranks == [k \in 1..n |-> k]
<1>1. a \in Nat /\ b \in Nat /\ b = a + PageSize /\ a < n /\ PageSize * MaxPages \in Nat
      /\ i \in 1..MaxPages /\ PageSize \in Nat \ {0} /\ MaxPages \in Nat \ {0}
  BY PageAssumption DEF Filled
<1>2. b <= PageSize * MaxPages /\ (i = MaxPages => b = PageSize * MaxPages)
  BY <1>1
<1>. HIDE DEF a, b
<1>3. m \in Nat /\ m <= n /\ a < m
  BY <1>1 DEF Least
<1>4. Chunk(n, i) = SubSeq(ranks, a + 1, m)
  BY <1>1, LeastIs DEF Chunk, a, b
<1>5. ranks \in Seq(Nat) /\ Len(ranks) = n /\ \A k \in 1..n : ranks[k] = k
  BY IsASeq
<1>. HIDE DEF m, ranks
<1>6. /\ SubSeq(ranks, a + 1, m) \in Seq(Nat)
      /\ Len(SubSeq(ranks, a + 1, m)) = m - a
      /\ \A k \in 1..(m - a) : SubSeq(ranks, a + 1, m)[k] = a + k
  <2>1. \A k \in (a + 1)..m : ranks[k] \in Nat /\ ranks[k] = k
    BY <1>1, <1>3, <1>5
  <2>2. a + 1 \in Int /\ m \in Int /\ a + 1 <= m
    BY <1>1, <1>3
  <2>3. /\ SubSeq(ranks, a + 1, m) \in Seq(Nat)
        /\ Len(SubSeq(ranks, a + 1, m)) = IF a + 1 <= m THEN m - (a + 1) + 1 ELSE 0
        /\ \A k \in 1..(m - (a + 1) + 1) : SubSeq(ranks, a + 1, m)[k] = ranks[(a + 1) + k - 1]
    BY <2>1, <2>2, SubSeqProperties
  <2>. QED  BY <1>1, <1>3, <2>1, <2>2, <2>3
<1>7. UpTo(got \o Chunk(n, i), m)
  <2>1. got \in Seq(Nat) /\ Len(got) = a /\ \A k \in 1..a : got[k] = k
    BY DEF UpTo, a
  <2>. DEFINE c == Chunk(n, i)
              both == got \o c
  <2>2. c \in Seq(Nat) /\ Len(c) = m - a /\ \A k \in 1..(m - a) : c[k] = a + k
    BY <1>4, <1>6
  <2>. HIDE DEF c
  <2>3. /\ both \in Seq(Nat) /\ Len(both) = Len(got) + Len(c)
        /\ \A k \in 1..(Len(got) + Len(c)) :
             both[k] = IF k <= Len(got) THEN got[k] ELSE c[k - Len(got)]
    BY <2>1, <2>2, ConcatProperties
  <2>. HIDE DEF both
  <2>4. Len(both) = m
    BY <1>1, <1>3, <2>1, <2>2, <2>3
  <2>5. \A k \in 1..m : both[k] = k
    <3>. SUFFICES ASSUME NEW k \in 1..m PROVE both[k] = k
      OBVIOUS
    <3>1. CASE k <= a
      BY <1>1, <1>3, <2>1, <2>2, <2>3, <3>1
    <3>2. CASE ~(k <= a)
      <4>1. k - a \in 1..(m - a)
        BY <1>1, <1>3, <3>2
      <4>2. k \in Nat /\ a \in Nat /\ m \in Nat /\ a <= m
        BY <1>1, <1>3
      <4>3. c[k - a] = k
        BY <2>2, <4>1, <4>2
      <4>4. k \in 1..(Len(got) + Len(c)) /\ Len(got) = a
        BY <2>1, <2>2, <4>2
      <4>. QED  BY <2>3, <3>2, <4>3, <4>4
    <3>. QED  BY <3>1, <3>2
  <2>. QED  BY <1>3, <2>3, <2>4, <2>5 DEF UpTo, both, c
<1>8. More(n, i) => m = b /\ i + 1 \in Filled(n)
  <2>. SUFFICES ASSUME b < n /\ i < MaxPages PROVE m = b /\ i + 1 \in Filled(n)
    BY DEF More, b
  <2>1. i + 1 \in 1..MaxPages /\ (i + 1) - 1 = i
    BY <1>1
  <2>. QED  BY <1>1, <2>1 DEF m, Least, Filled, b
<1>9. ~More(n, i) => m = Least(n, PageSize * MaxPages)
  <2>. SUFFICES ASSUME ~(b < n /\ i < MaxPages) PROVE m = Least(n, PageSize * MaxPages)
    BY DEF More, b
  <2>1. CASE ~(b < n)
    BY <1>1, <1>2, <2>1 DEF m, Least
  <2>2. CASE b < n /\ i = MaxPages
    BY <1>1, <1>2, <2>2 DEF m, Least
  <2>. QED  BY <1>1, <2>1, <2>2
<1>. QED  BY <1>7, <1>8, <1>9 DEF m, b

-----------------------------------------------------------------------------
LEMMA HandleInit == ContinuationInit => HandleInv
<1>. SUFFICES ASSUME ContinuationInit PROVE HandleInv
  OBVIOUS
<1>1. <<>> \in Seq(Readers \cup Groups) /\ <<>> \in Seq(Nat) /\ Len(<<>>) = 0
  BY EmptySeq
<1>2. /\ NewReader \in Reading /\ UpTo(NewReader.got, 0) /\ Len(NewReader.got) = 0
      /\ NewReader.is = "reading" /\ NewReader.readBy = {}
  BY <1>1 DEF NewReader, Reading, UpTo
<1>3. /\ reader = [h \in Handles |-> NewReader] /\ handles = [h \in Handles |-> NoHandle]
      /\ memberships \in [Readers -> Groups]
  BY DEF ContinuationInit
<1>. QED  BY <1>2, <1>3 DEF HandleInv, ReadByItsCaller

LEMMA HandleStep == HandleInv /\ [ContinuationNext]_continuationVars => HandleInv'
<1>. SUFFICES ASSUME HandleInv, [ContinuationNext]_continuationVars PROVE HandleInv'
  OBVIOUS
<1>. /\ memberships \in [Readers -> Groups] /\ DOMAIN handles = Handles
     /\ reader \in [Handles -> Reading]
  BY DEF HandleInv
<1>1. ASSUME UNCHANGED continuationVars PROVE HandleInv'
  BY <1>1 DEF HandleInv, continuationVars, ReadByItsCaller
<1>2. ASSUME NEW h \in Handles, NEW r \in Readers, NEW n \in 1..MaxCandidates, Recall(h, r, n)
      PROVE  HandleInv'
  <2>1. n \in Nat
    BY PageAssumption
  <2>2. AclKey(r) \in Seq(Readers \cup Groups)
    BY DEF AclKey
  <2>3. /\ reader[h].got = <<>> /\ reader[h].is = "reading" /\ reader[h].readBy = {}
        /\ reader[h] \in Reading
    BY <1>2 DEF Recall, NewReader
  <2>. DEFINE after == [reader[h] EXCEPT !.by = AclKey(r), !.n = n]
  <2>4. /\ handles' = [handles EXCEPT ![h] = [next |-> 2, key |-> AclKey(r), pages |-> Pages(n)]]
        /\ reader' = [reader EXCEPT ![h] = after] /\ memberships' = memberships
    BY <1>2 DEF Recall
  <2>5. /\ after \in Reading /\ after.by = AclKey(r) /\ after.n = n /\ after.got = <<>>
        /\ after.is = "reading" /\ after.readBy = {}
    BY <2>1, <2>2, <2>3 DEF Reading
  <2>. HIDE DEF after
  <2>6. 1 \in Filled(n) /\ (1 - 1) * PageSize = 0
    BY <2>1, PageAssumption DEF Filled
  <2>7. UpTo(<<>>, 0) /\ Len(<<>>) = 0
    BY EmptySeq DEF UpTo
  <2>8. handles'[h] = [next |-> 1 + 1, key |-> reader'[h].by, pages |-> Pages(reader'[h].n)]
    BY <2>4, <2>5
  <2>. QED
    BY <2>4, <2>5, <2>6, <2>7, <2>8 DEF HandleInv, ReadByItsCaller
<1>3. ASSUME NEW h \in Handles, NEW r \in Readers, NEW asked \in {TheNext} \cup 1..MaxPages + 2,
             NEW arrives \in BOOLEAN, Page(h, r, asked, arrives)
      PROVE  HandleInv'
  <2>. DEFINE n == reader[h].n
  <2>1. reader[h] \in Reading /\ n \in Nat
    BY DEF Reading
  <2>2. PICK i \in Filled(n) :
          /\ handles[h] = [next |-> i + 1, key |-> reader[h].by, pages |-> Pages(n)]
          /\ reader[h].is = "lost" \/ UpTo(reader[h].got, (i - 1) * PageSize)
          /\ reader[h].is # "told"
    BY <1>3 DEF HandleInv, Page, Finds
  <2>3. PICK p \in handles[h].pages :
          /\ p.page = IF asked = TheNext THEN handles[h].next ELSE asked
          /\ handles' = Served(h, p)
          /\ reader' = Heard(h, r, p, asked, arrives)
    BY <1>3 DEF Page
  <2>4. memberships' = memberships /\ AclKey(r) = reader[h].by
    BY <1>3, <2>2 DEF Page, Finds
  <2>5. PICK j \in Filled(n) : p = PageOf(n, j)
    BY <2>2, <2>3, PagesAre
  <2>6. p.page = j + 1 /\ p.next = (IF More(n, j) THEN j + 2 ELSE 0) /\ p.entries = Chunk(n, j)
    BY <2>5 DEF PageOf
  <2>7. i \in Nat /\ j \in Nat /\ i \in 1..MaxPages /\ j \in 1..MaxPages
    BY PageAssumption DEF Filled
  <2>. DEFINE on == reader[h].is = "reading" /\ asked = TheNext /\ arrives
  <2>8. PICK is, got, readBy :
          /\ reader' = [reader EXCEPT ![h].is = is, ![h].got = got, ![h].readBy = readBy]
          /\ ~on => is = "lost" /\ got = <<>>
          /\ on /\ p.next = 0 => is = "told"
          /\ on /\ p.next # 0 => is = "reading"
          /\ on => got = reader[h].got \o p.entries
          /\ readBy \in {reader[h].readBy, reader[h].readBy \cup {reader[h].by}}
    BY <2>3, <2>4 DEF Heard
  <2>9. on => /\ j = i
              /\ UpTo(got, Least(j * PageSize, n))
              /\ More(n, j) => Least(j * PageSize, n) = j * PageSize
              /\ ~More(n, j) => Least(j * PageSize, n) = Least(n, PageSize * MaxPages)
    <3>. SUFFICES ASSUME on
                  PROVE  /\ j = i
                         /\ UpTo(got, Least(j * PageSize, n))
                         /\ More(n, j) => Least(j * PageSize, n) = j * PageSize
                         /\ ~More(n, j) => Least(j * PageSize, n) = Least(n, PageSize * MaxPages)
      OBVIOUS
    <3>1. j = i
      BY <2>2, <2>3, <2>6, <2>7
    <3>2. UpTo(reader[h].got, (j - 1) * PageSize)
      BY <2>2, <3>1
    <3>3. got = reader[h].got \o Chunk(n, j)
      BY <2>6, <2>8
    <3>4. /\ UpTo(reader[h].got \o Chunk(n, j), Least(j * PageSize, n))
          /\ More(n, j) => Least(j * PageSize, n) = j * PageSize
          /\ ~More(n, j) => Least(j * PageSize, n) = Least(n, PageSize * MaxPages)
      BY <2>1, <3>2, ChunkIs
    <3>. QED  BY <3>1, <3>3, <3>4
  <2>10. More(n, j) => j + 1 \in Filled(n)
    <3>. SUFFICES ASSUME j * PageSize < n, j < MaxPages PROVE j + 1 \in Filled(n)
      BY DEF More
    <3>1. j + 1 \in 1..MaxPages /\ (j + 1) - 1 = j
      BY <2>7, PageAssumption
    <3>. QED  BY <3>1 DEF Filled
  <2>11. got \in Seq(Nat) /\ is \in {"reading", "told", "lost"}
    <3>1. CASE on
      BY <2>8, <2>9, <3>1 DEF UpTo
    <3>2. CASE ~on
      BY <2>8, <3>2, EmptySeq
    <3>. QED  BY <3>1, <3>2
  <2>. DEFINE after == [reader[h] EXCEPT !.is = is, !.got = got, !.readBy = readBy]
  <2>12. /\ after \in Reading /\ after.by = reader[h].by /\ after.n = n /\ after.is = is
         /\ after.got = got /\ after.readBy = readBy
    BY <2>1, <2>8, <2>11 DEF Reading
  <2>13. reader' = [reader EXCEPT ![h] = after]
    BY <2>8
  <2>. HIDE DEF after, on
  <2>14. handles'[h] # NoHandle =>
           /\ More(n, j)
           /\ handles'[h] = [next |-> (j + 1) + 1, key |-> reader[h].by, pages |-> Pages(n)]
    <3>1. CASE More(n, j)
      <4>1. p.next = (j + 1) + 1 /\ p.next # 0
        BY <2>6, <2>7, <3>1
      <4>2. handles'[h] = [handles[h] EXCEPT !.next = p.next]
        BY <2>3, <4>1 DEF Served
      <4>3. [handles[h] EXCEPT !.next = p.next]
              = [next |-> p.next, key |-> reader[h].by, pages |-> Pages(n)]
        BY <2>2
      <4>. QED  BY <3>1, <4>1, <4>2, <4>3
    <3>2. CASE ~More(n, j)
      BY <2>3, <2>6, <3>2 DEF Served
    <3>. QED  BY <3>1, <3>2
  <2>15. /\ DOMAIN handles' = Handles /\ reader' \in [Handles -> Reading]
         /\ \A g \in Handles \ {h} : handles'[g] = handles[g] /\ reader'[g] = reader[g]
         /\ reader'[h] = after
    BY <2>3, <2>12, <2>13 DEF Served
  <2>16. p.next = 0 <=> ~More(n, j)
    BY <2>6, <2>7
  <2>17. handles'[h] # NoHandle =>
           \E k \in Filled(reader'[h].n) :
             /\ handles'[h] = [next |-> k + 1, key |-> reader'[h].by, pages |-> Pages(reader'[h].n)]
             /\ reader'[h].is = "lost" \/ UpTo(reader'[h].got, (k - 1) * PageSize)
             /\ reader'[h].is # "told"
    <3>. SUFFICES ASSUME handles'[h] # NoHandle
                  PROVE  /\ j + 1 \in Filled(n)
                         /\ handles'[h] = [next |-> (j + 1) + 1, key |-> reader[h].by,
                                           pages |-> Pages(n)]
                         /\ is = "lost" \/ UpTo(got, ((j + 1) - 1) * PageSize)
                         /\ is # "told"
      BY <2>12, <2>15
    <3>1. More(n, j) /\ p.next # 0 /\ (j + 1) - 1 = j
      BY <2>7, <2>14, <2>16
    <3>2. is = "lost" \/ UpTo(got, j * PageSize)
      BY <2>8, <2>9, <3>1
    <3>3. is # "told"
      BY <2>8, <3>1
    <3>. QED  BY <2>10, <2>14, <3>1, <3>2, <3>3
  <2>18. is # "lost" =>
           /\ UpTo(got, Len(got))
           /\ is = "told" => Len(got) = Least(n, PageSize * MaxPages)
    <3>. SUFFICES ASSUME on
                  PROVE  /\ UpTo(got, Len(got))
                         /\ is = "told" => Len(got) = Least(n, PageSize * MaxPages)
      BY <2>8
    <3>1. Len(got) = Least(j * PageSize, n)
      BY <2>9 DEF UpTo
    <3>2. UpTo(got, Len(got))
      BY <2>9, <3>1
    <3>3. is = "told" => ~More(n, j)
      BY <2>8, <2>16
    <3>. QED  BY <2>9, <3>1, <3>2, <3>3
  <2>19. readBy \subseteq {reader[h].by}
    BY <2>8 DEF HandleInv, ReadByItsCaller
  <2>. QED
    BY <2>4, <2>12, <2>15, <2>17, <2>18, <2>19 DEF HandleInv, ReadByItsCaller
<1>4. ASSUME NEW h \in Handles, handles' = [handles EXCEPT ![h] = NoHandle],
             UNCHANGED <<memberships, reader>>
      PROVE  HandleInv'
  BY <1>4 DEF HandleInv, ReadByItsCaller
<1>5. ASSUME NEW r \in Readers, NEW m \in Groups, Regroup(r, m) PROVE HandleInv'
  BY <1>5 DEF Regroup, HandleInv, ReadByItsCaller
<1>6. ASSUME ProcessRestart PROVE HandleInv'
  BY <1>6 DEF ProcessRestart, HandleInv, ReadByItsCaller
<1>. QED
  BY <1>1, <1>2, <1>3, <1>4, <1>5, <1>6 DEF ContinuationNext, NoSuchPage, Expire

-----------------------------------------------------------------------------
LEMMA HandleHolds == ContinuationSpec => []HandleInv
BY HandleInit, HandleStep, PTL DEF ContinuationSpec

(* A handle that was not given up always has a page for its reader, and    *)
(* still the key of the caller it was made for.                            *)
THEOREM HandleTypeCorrect == ContinuationSpec => []ContinuationTypeOK
<1>1. HandleInv => ContinuationTypeOK
  <2>. SUFFICES ASSUME HandleInv, NEW h \in Handles, handles[h] # NoHandle
                PROVE  /\ handles[h].next \in {p.page : p \in handles[h].pages}
                       /\ handles[h].key = reader[h].by
    BY DEF HandleInv, ContinuationTypeOK
  <2>1. PICK i \in Filled(reader[h].n) :
          handles[h] = [next |-> i + 1, key |-> reader[h].by, pages |-> Pages(reader[h].n)]
    BY DEF HandleInv
  <2>2. PageOf(reader[h].n, i) \in handles[h].pages /\ PageOf(reader[h].n, i).page = i + 1
    BY <2>1, PagesAre DEF PageOf
  <2>. QED  BY <2>1, <2>2
<1>. QED  BY <1>1, HandleHolds, PTL

(* Whoever asks for "next" and receives every reply reads the candidates   *)
(* in their order, each once, and is told that there are no more only when *)
(* it holds all of them, or as many as the pages allow.                    *)
THEOREM ReadsInOrder == ContinuationSpec => []ReadInOrder
<1>1. HandleInv => ReadInOrder
  <2>. SUFFICES ASSUME HandleInv, NEW h \in Handles, reader[h].is # "lost"
                PROVE  /\ reader[h].got = [i \in 1..Len(reader[h].got) |-> i]
                       /\ reader[h].is = "told" =>
                            Len(reader[h].got) = Min({reader[h].n, PageSize * MaxPages})
    BY DEF ReadInOrder
  <2>1. reader[h] \in Reading
    BY DEF HandleInv
  <2>2. UpTo(reader[h].got, Len(reader[h].got))
    BY DEF HandleInv
  <2>3. reader[h].got = [i \in 1..Len(reader[h].got) |-> i]
    <3>1. \A got \in Seq(Nat) : got = [i \in 1..Len(got) |-> got[i]]
      OBVIOUS
    <3>. QED  BY <2>2, <3>1 DEF UpTo
  <2>4. reader[h].n \in Nat /\ PageSize * MaxPages \in Nat
    BY <2>1, PageAssumption DEF Reading
  <2>. QED  BY <2>3, <2>4, LeastIs DEF HandleInv
<1>. QED  BY <1>1, HandleHolds, PTL

(* What a recall found is read only under the identity it was found for,   *)
(* whoever holds the handle and however memberships change.                *)
THEOREM ReadsAreTheCallers == ContinuationSpec => []ReadByItsCaller
<1>1. HandleInv => ReadByItsCaller
  BY DEF HandleInv
<1>. QED  BY <1>1, HandleHolds, PTL
=============================================================================
