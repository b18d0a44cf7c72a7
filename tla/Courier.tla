------------------------------- MODULE Courier -------------------------------
(***************************************************************************)
(* The courier of one memory key: it polls the store for facts newer than  *)
(* its watermark and pushes them to the subscriptions of one caller, whose *)
(* token and memberships change meanwhile.                                 *)
(*                                                                         *)
(* Granularity.  A poll, a subscription and the cleanup of a connection    *)
(* never suspend: the queues of the connections are unbounded.  store()    *)
(* and asserted facts are stamped and saved in one step; the facts of an   *)
(* aggregation are stamped source by source and saved when it ends, and a  *)
(* fact of another process is stamped and saved at two moments.            *)
(*                                                                         *)
(* Abstractions.  A fact is the set of facts that one step stamps.  Every  *)
(* fact matches the filter of every subscription.  The queues are left     *)
(* out, and with them what deliver_existing pushes at a subscription.      *)
(***************************************************************************)
EXTENDS Naturals, FiniteSets, FiniteSetsExt

CONSTANTS
  Facts,
  Late,    \* the facts that are stamped some time before they are saved
  Shared,  \* the facts that only members of a swarm may read
  Subs,    \* subscription ids, never reused
  Conns,   \* ids of SSE connections, never reused
  NoConn   \* a subscription without a connection

VARIABLES
  stored,     \* each fact: where it is and its created_at
  clock,      \* the last created_at given
  caller,     \* what the caller's token is worth now
  conns,      \* connections and _active_connections
  routes,     \* sub_to_conn
  subs,       \* _subscriptions of the courier
  loop,       \* Courier.run: not started, running, or ended by an exception
  watermark,  \* _last_seen_at
  polled,     \* history: how often polls have pushed a fact to a subscription
  looked      \* history: the facts that were saved when the courier was made
              \* or that a poll has found new

courierVars == <<stored, clock, caller, conns, routes, subs, loop, watermark,
                 polled, looked>>
-----------------------------------------------------------------------------
(* "hidden": retracted or redacted, on disk but not for _is_visible;        *)
(* "gone": purged, or lost before it was saved.                            *)
FactStates == {"none", "stamped", "saved", "hidden", "gone"}
OnDisk == {f \in Facts : stored[f].is \in {"saved", "hidden"}}
Visible(f) == stored[f].is = "saved"

(* _acl_allows and the instance's read gate, for these memberships.        *)
MayRead(who, f) == who = "member" \/ (who = "outsider" /\ f \notin Shared)

(* Slip: the next instant after the newest. *)
AfterNewest(fs, default) == 1 + Max({stored[f].at : f \in fs} \cup {default})

Newest(fs, default) == Max({stored[f].at : f \in fs} \cup {default})

Open(c) == c \in Conns /\ conns[c] = "open"

(* The callback of a subscription, which asks for the live identity.       *)
Pushes(sub, f) == Open(routes[sub]) /\ MayRead(caller, f)

(* It ends its subscription when the token is no longer valid.             *)
Ends(sub) == Open(routes[sub]) /\ caller = "revoked"

(* Slip: what existed was not new. *)
NewFactsOrEqual == {f \in OnDisk : stored[f].at >= watermark}

(* Slip: the newest only. *)
NewestFacts == {f \in OnDisk : stored[f].at > watermark /\ stored[f].at = clock}

NewFacts == {f \in OnDisk : stored[f].at > watermark}

-----------------------------------------------------------------------------
(* Writers. *)

Write(f, is) ==
  /\ stored[f].is = "none"
  /\ stored' = [stored EXCEPT ![f] = [is |-> is, at |-> clock + 1]]
  /\ clock' = clock + 1
  /\ UNCHANGED <<caller, conns, routes, subs, loop, watermark, polled, looked>>

(* store() and ingest_asserted_facts: stamped and saved without an await.  *)
SaveAtOnce(f) == f \notin Late /\ Write(f, "saved")

(* _rebuild_tiers stamps the facts of a source and goes on to the next.    *)
Stamp(f) == f \in Late /\ Write(f, "stamped")

(* The end of _rebuild_tiers; the commit of another process. *)
Save(f) ==
  /\ stored[f].is = "stamped"
  /\ stored' = [stored EXCEPT ![f].is = "saved"]
  /\ UNCHANGED <<clock, caller, conns, routes, subs, loop, watermark, polled, looked>>

(* retract, redact or purge. *)
Withdraw(f, is) ==
  /\ f \in OnDisk /\ is # stored[f].is
  /\ stored' = [stored EXCEPT ![f].is = is]
  /\ UNCHANGED <<clock, caller, conns, routes, subs, loop, watermark, polled, looked>>

-----------------------------------------------------------------------------
(* The caller. *)

(* The swarm's membership is granted or revoked, the token is revoked.     *)
Identity(who) ==
  /\ caller # "revoked" /\ who # caller
  /\ caller' = who
  /\ UNCHANGED <<stored, clock, conns, routes, subs, loop, watermark, polled, looked>>

(* sse_endpoint. *)
Connect(c) ==
  /\ conns[c] = "new"
  /\ conns' = [conns EXCEPT ![c] = "open"]
  /\ UNCHANGED <<stored, clock, caller, routes, subs, loop, watermark, polled, looked>>

(* Slip: one subscription per connection. *)
OneRoutedTo(c) ==
  LET all == {sub \in Subs : routes[sub] = c} IN IF all = {} THEN {} ELSE {CHOOSE sub \in all : TRUE}

RoutedTo(c) == {sub \in Subs : routes[sub] = c}

(* sse_cleanup. *)
Disconnect(c) ==
  /\ conns[c] = "open"
  /\ conns' = [conns EXCEPT ![c] = "closed"]
  /\ subs' = [sub \in Subs |-> IF sub \in RoutedTo(c) THEN "over" ELSE subs[sub]]
  /\ routes' = [sub \in Subs |-> IF sub \in RoutedTo(c) THEN "none" ELSE routes[sub]]
  /\ UNCHANGED <<stored, clock, caller, loop, watermark, polled, looked>>

(* courier_subscribe.  The first one makes the courier, whose watermark is *)
(* the newest saved fact; the route is set before the token is checked,    *)
(* and stays if it is refused.                                             *)
Subscribe(sub, c) ==
  /\ subs[sub] = "new" /\ routes[sub] = "none"
  /\ c = NoConn \/ Open(c)
  /\ IF loop = "none"
     THEN /\ loop' = "running" /\ looked' = OnDisk
          /\ watermark' = Newest(OnDisk, 0)
     ELSE UNCHANGED <<loop, looked, watermark>>
  /\ routes' = [routes EXCEPT ![sub] = c]
  /\ subs' = [subs EXCEPT ![sub] = IF caller = "revoked" THEN "new" ELSE caller]
  /\ UNCHANGED <<stored, clock, caller, conns, polled>>

(* courier_unsubscribe. *)
Unsubscribe(sub) ==
  /\ routes[sub] # "none" \/ subs[sub] \in {"member", "outsider"}
  /\ subs' = [subs EXCEPT ![sub] = "over"]
  /\ routes' = [routes EXCEPT ![sub] = "none"]
  /\ UNCHANGED <<stored, clock, caller, conns, loop, watermark, polled, looked>>

-----------------------------------------------------------------------------
(* _poll: every new visible fact goes to every subscription whose owner    *)
(* could read it at the time of the subscription, and then through its     *)
(* callback.                                                               *)
Poll ==
  LET offers(sub) == {f \in NewFacts : Visible(f) /\ MayRead(subs[sub], f)}
      ended == {sub \in Subs : offers(sub) # {} /\ Ends(sub)}
  IN /\ loop = "running" /\ NewFacts # {}
     /\ watermark' = Newest(NewFacts, watermark)
     /\ looked' = looked \cup NewFacts
     /\ polled' = [sub \in Subs |-> [f \in Facts |->
          IF f \in offers(sub) /\ Pushes(sub, f) THEN polled[sub][f] + 1 ELSE polled[sub][f]]]
     /\ subs' = [sub \in Subs |-> IF sub \in ended THEN "over" ELSE subs[sub]]
     /\ routes' = [sub \in Subs |-> IF sub \in ended THEN "none" ELSE routes[sub]]
     /\ UNCHANGED <<stored, clock, caller, conns, loop>>

(* The store raises: nothing catches it, and nothing starts the loop again.*)
PollRaises ==
  /\ loop = "running"
  /\ loop' = "dead"
  /\ UNCHANGED <<stored, clock, caller, conns, routes, subs, watermark, polled, looked>>

(* The process dies: the store stays, and what was not saved is lost.      *)
CourierRestarts ==
  /\ loop # "none"
  /\ loop' = "none" /\ watermark' = 0 /\ looked' = {}
  /\ conns' = [c \in Conns |-> IF conns[c] = "new" THEN "new" ELSE "closed"]
  /\ subs' = [sub \in Subs |-> IF subs[sub] = "new" THEN "new" ELSE "over"]
  /\ routes' = [sub \in Subs |-> "none"]
  /\ stored' = [f \in Facts |-> IF stored[f].is = "stamped"
                                THEN [stored[f] EXCEPT !.is = "gone"] ELSE stored[f]]
  /\ UNCHANGED <<clock, caller, polled>>

CourierInit ==
  /\ stored = [f \in Facts |-> [is |-> "none", at |-> 0]]
  /\ clock = 0
  /\ caller \in {"member", "outsider"}
  /\ conns = [c \in Conns |-> "new"]
  /\ routes = [sub \in Subs |-> "none"]
  /\ subs = [sub \in Subs |-> "new"]
  /\ loop = "none" /\ watermark = 0
  /\ polled = [sub \in Subs |-> [f \in Facts |-> 0]]
  /\ looked = {}

CourierNext ==
  \/ \E f \in Facts : SaveAtOnce(f) \/ Stamp(f) \/ Save(f) 
  \/ \E f \in Facts, is \in {"hidden", "gone"} : Withdraw(f, is)
  \/ \E who \in {"member", "outsider", "revoked"} : Identity(who)
  \/ \E c \in Conns : Connect(c) \/ Disconnect(c)
  \/ \E sub \in Subs, c \in Conns \cup {NoConn} : Subscribe(sub, c)
  \/ \E sub \in Subs : Unsubscribe(sub)
  \/ Poll
  \/ PollRaises
  \/ CourierRestarts

CourierSpec == CourierInit /\ [][CourierNext]_courierVars
-----------------------------------------------------------------------------
CourierTypeOK ==
  /\ stored \in [Facts -> [is : FactStates, at : 0..Cardinality(Facts)]]
  /\ clock \in 0..Cardinality(Facts)
  /\ caller \in {"member", "outsider", "revoked"}
  /\ conns \in [Conns -> {"new", "open", "closed"}]
  /\ routes \in [Subs -> Conns \cup {NoConn, "none"}]
  /\ subs \in [Subs -> {"new", "member", "outsider", "over"}]
  /\ loop \in {"none", "running", "dead"}
  /\ watermark \in 0..clock
  /\ looked \subseteq Facts

(* A poll pushes a fact to a subscription at most once, whatever else is   *)
(* stored, removed or restarted meanwhile.  (The watermark of _poll.)      *)
PolledOnce == \A sub \in Subs, f \in Facts : polled[sub][f] <= 1

(* No fact that is stamped and saved in one step slips under the           *)
(* watermark: what lies below it existed when the courier was made, or a   *)
(* poll has offered it to the subscriptions.                               *)
NothingSkipped ==
  loop # "none" => \A f \in OnDisk \ Late : stored[f].at <= watermark => f \in looked

(* The same of every fact: "_poll() after new cons/cross facts must        *)
(* deliver them" (tests/test_bug2_courier_tiers.py).  It does not hold.    *)
AllTiersDelivered ==
  loop # "none" => \A f \in OnDisk : stored[f].at <= watermark => f \in looked

(* A subscription that may still be pushed to has an open connection, or   *)
(* was made without one: closing a connection leaves nothing behind.       *)
(* (sse_cleanup.)                                                          *)
Routed ==
  \A sub \in Subs : subs[sub] \in {"member", "outsider"} =>
    routes[sub] = NoConn \/ Open(routes[sub])
=============================================================================
