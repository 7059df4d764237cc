------------------------------ MODULE RouteLink ------------------------------
(***************************************************************************)
(* The controller's side of a route to one executor peer                   *)
(* (matrix-runtime/src/route_controller.rs): the worker that attaches,     *)
(* registers, renews and tears down the link, the operator who edits the   *)
(* routes or removes the peer under it (sync, from Runtime::reload), the   *)
(* notices of the executor (remote_session_server.rs watch).               *)
(*                                                                         *)
(* Simplifications: one peer and one operator; what a registration names   *)
(* is left out (instance and generation of the executor), and which link   *)
(* made it kept; renewal sequences and tokens are those of ManagedService; *)
(* the legs a reconcile cancels end as a DepCancel of HostCalls does; the  *)
(* definitions of the routed providers are well-formed, so that            *)
(* register_remote_provider does not refuse them.                          *)
(***************************************************************************)
EXTENDS Naturals, FiniteSets

CONSTANTS Provider,   \* providers behind the peer
          MaxLink,    \* bound: links made for the peer
          MaxLease,   \* bound: leases the executor grants
          First,      \* the provider routed when the runtime starts
          MaxSync,    \* bound: syncs of the operator
          MaxFaults   \* bound: lost sessions and answers, leases that die

Link == 1..MaxLink
Lease == 1..MaxLease
NoProv == "none"                  \* the peer is not configured
Thread == Link \cup {0}           \* a worker per link, and the operator

ASSUME LinkAssumption ==
    /\ {MaxLink, MaxLease} \subseteq Nat \ {0}
    /\ {MaxSync, MaxFaults} \subseteq Nat
    /\ NoProv \notin Provider /\ First \in Provider

VARIABLES
    conf,          \* routes: the provider routed over the peer
    closing,       \* RouteManager.closed
    cur,           \* links: the link of the peer, 0 for none
    closed,        \* links whose closed flag is set
    provider,      \* link.provider
    sess,          \* link.session: "none", "live", or "dead" when its transport is gone
    orphan,        \* some live session is held by no link
    lease,         \* link.lease, 0 for none
    pc,            \* workers and operator
    want, token,   \* provider and lease an attach round has in hand
    reg,           \* remote_providers: the registering link of each provider, 0 for none
    alive, lprov,  \* leases alive at the executor, and what each is for
    notices,       \* revoke notices under way
    used,          \* leases granted so far
    syncs, faults, \* what MaxSync and MaxFaults bound
    late,          \* history: notices a new registration of their target has overtaken
    stale,         \* history: registrations an edit of the routes has overtaken
    excused        \* history: something keeps a link from recovering

linkVars == <<cur, closed, provider, sess, orphan, lease>>
workVars == <<want, token>>
execVars == <<alive, lprov, used, notices>>
history == <<late, stale, excused>>
vars == <<conf, closing, linkVars, pc, workVars, reg, execVars, syncs, faults, history>>

Goto(t, l) == pc' = [pc EXCEPT ![t] = l]
Closed(l) == closing \/ l \in closed
Fault == faults < MaxFaults /\ faults' = faults + 1

(* An attach round that fails leaves session and lease where they are. *)
Leave(l) == want' = [want EXCEPT ![l] = 0] /\ token' = [token EXCEPT ![l] = 0]
Retry(l) == Goto(l, "idle") /\ Leave(l)

(* Service::activate at the executor: a component has one lease at a time. *)
Leased(p) == \E x \in alive : lprov[x] = p
Activate(p) ==
    /\ ~Leased(p)
    /\ used < MaxLease
    /\ used' = used + 1
    /\ alive' = alive \cup {used'}
    /\ lprov' = [lprov EXCEPT ![used'] = p]

(* A lease ends at the executor; the watcher of a session sends a notice   *)
(* of its provider, if it sees it.                                         *)
Watched == orphan \/ \E l \in Link : sess[l] = "live"
Retired(x) ==
    /\ alive' = alive \ {x}
    /\ \/ UNCHANGED notices
       \/ /\ x \in alive /\ Watched
          /\ \A y \in alive' : lprov[y] # lprov[x]
          /\ notices' = notices \cup {lprov[x]}

(* Kernel::register_remote_provider. *)
Publish(l, p) ==
    /\ reg' = [reg EXCEPT ![p] = l]
    /\ late' = late \cup ({p} \cap notices)
    /\ stale' = IF p = provider[l] THEN stale \ {p} ELSE stale \cup {p}

-----------------------------------------------------------------------------
(* The worker: attach_round.                                               *)

WorkerEnds(l) ==
    /\ pc[l] = "idle"
    /\ Closed(l)
    /\ Goto(l, "ended")
    /\ UNCHANGED <<conf, closing, linkVars, workVars, reg, execVars, syncs, faults, history>>

\* Defect for mutation: the worker does not look whether its link was closed.
ConnectAnyway(l) ==
    /\ pc[l] = "idle"
    /\ Goto(l, "connect")
    /\ UNCHANGED <<conf, closing, linkVars, workVars, reg, execVars, syncs, faults, history>>
Connect(l) ==
    /\ pc[l] = "idle"
    /\ ~Closed(l)
    /\ Goto(l, "connect")
    /\ UNCHANGED <<conf, closing, linkVars, workVars, reg, execVars, syncs, faults, history>>

(* The new session takes the place of whatever the link holds. *)
Connected(l) ==
    /\ pc[l] = "connect"
    /\ sess' = [sess EXCEPT ![l] = "live"]
    /\ orphan' = (orphan \/ sess[l] = "live")
    /\ Goto(l, "lease")
    /\ UNCHANGED <<conf, closing, cur, closed, provider, lease, workVars, reg, execVars, syncs, faults, history>>

(* A lease left by an earlier round is used again while it is ready;       *)
(* when the probe of its status is lost or finds it not ready, the         *)
(* provider of the route is activated.                                     *)
ObtainLease(l) ==
    /\ pc[l] = "lease"
    /\ conf # NoProv
    /\ want' = [want EXCEPT ![l] = conf]
    /\ \/ /\ lease[l] \in alive
          /\ token' = [token EXCEPT ![l] = lease[l]]
          /\ UNCHANGED <<alive, lprov, used>>
       \/ /\ Activate(conf)
          /\ token' = [token EXCEPT ![l] = used']
    /\ Goto(l, "ready")
    /\ UNCHANGED <<conf, closing, linkVars, reg, notices, syncs, faults, history>>

(* No connection, no route for the peer, a component that is leased        *)
(* already, or an answer of the executor lost; an activation whose answer  *)
(* is lost leaves its lease to the executor's clock.                       *)
AttachFails(l) ==
    /\ \/ /\ pc[l] = "lease"
          /\ conf = NoProv \/ Leased(conf)
          /\ UNCHANGED <<faults, alive, lprov, used>>
       \/ pc[l] \in {"connect", "lease", "ready", "reconcile"} /\ Fault /\ UNCHANGED <<alive, lprov, used>>
       \/ pc[l] = "lease" /\ conf # NoProv /\ Fault /\ Activate(conf)
    /\ Retry(l)
    /\ UNCHANGED <<conf, closing, linkVars, reg, notices, syncs, history>>

(* The status of the lease: ready stores it. *)
Ready(l) ==
    /\ pc[l] = "ready"
    /\ token[l] \in alive
    /\ lease' = [lease EXCEPT ![l] = token[l]]
    /\ Goto(l, "reconcile")
    /\ UNCHANGED <<conf, closing, cur, closed, provider, sess, orphan, workVars, reg, execVars, syncs, faults, history>>

(* A lease that is gone is refused; one that does not become ready before  *)
(* the deadline is released, and stays what the link names.                *)
NeverReady(l) ==
    /\ pc[l] = "ready"
    /\ \/ token[l] \notin alive /\ UNCHANGED <<faults, alive, notices>>
       \/ token[l] \in alive /\ Fault /\ Retired(token[l])
    /\ Retry(l)
    /\ UNCHANGED <<conf, closing, linkVars, reg, lprov, used, syncs, history>>

(* reconcile_link, over whatever session the link has now.  The executor's *)
(* answer refreshes a registration that names another activation of the    *)
(* routed provider, whoever made it; it makes none.                        *)
Reconcile(l) ==
    /\ pc[l] = "reconcile"
    /\ \/ /\ sess[l] # "live"
          /\ Retry(l)
          /\ UNCHANGED <<reg, late, stale>>
       \/ /\ sess[l] = "live"
          /\ Goto(l, "register")
          /\ \/ UNCHANGED <<reg, late, stale>>
             \/ conf # NoProv /\ Leased(conf) /\ reg[conf] # 0 /\ Publish(l, conf)
          /\ UNCHANGED workVars
    /\ UNCHANGED <<conf, closing, linkVars, execVars, syncs, faults, excused>>

(* register_remote_provider, subscriptions, transport. *)
Register(l) ==
    /\ pc[l] = "register"
    /\ Publish(l, want[l])
    /\ excused' = (excused \/ want[l] # conf \/ lprov[token[l]] # want[l])
    /\ Goto(l, "check")
    /\ Leave(l)
    /\ UNCHANGED <<conf, closing, linkVars, execVars, syncs, faults>>

-----------------------------------------------------------------------------
(* The worker: monitor_link.                                               *)

(* The look at closed, before the look at the session and after the sleep. *)
MonitorCheck(l) ==
    /\ pc[l] \in {"check", "slept"}
    /\ Goto(l, IF Closed(l) THEN "idle" ELSE IF pc[l] = "check" THEN "monitor" ELSE "renew")
    /\ UNCHANGED <<conf, closing, linkVars, workVars, reg, execVars, syncs, faults, history>>

Monitor(l) ==
    /\ pc[l] = "monitor"
    /\ Goto(l, IF sess[l] = "live" /\ lease[l] # 0 THEN "slept" ELSE "withdraw")
    /\ UNCHANGED <<conf, closing, linkVars, workVars, reg, execVars, syncs, faults, history>>

(* renew_once: a dead lease, a lost session or a lost answer ends the link. *)
\* Defect for mutation: a renewal that is refused is tried again later.
RenewPatient(l) ==
    /\ pc[l] = "renew"
    /\ Goto(l, "check")
    /\ UNCHANGED <<conf, closing, linkVars, workVars, reg, execVars, syncs, faults, history>>
Renew(l) ==
    /\ pc[l] = "renew"
    /\ \/ /\ sess[l] = "live" /\ lease[l] \in alive
          /\ Goto(l, "check")
          /\ UNCHANGED faults
       \/ /\ sess[l] # "live" \/ lease[l] \notin alive
          /\ Goto(l, "withdraw")
          /\ UNCHANGED faults
       \/ Fault /\ Goto(l, "withdraw")
    /\ UNCHANGED <<conf, closing, linkVars, workVars, reg, execVars, syncs, history>>

-----------------------------------------------------------------------------
(* teardown_link, by the worker or by the operator: withdraw, shut down,   *)
(* release, wake the calls.                                                *)

Torn(t) == IF t = 0 THEN want[0] ELSE t       \* the link a thread tears down

\* Defect for mutation: the provider is looked up in the table of routes.
TearWithdrawRouted(t) ==
    /\ pc[t] = "withdraw"
    /\ reg' = IF conf = NoProv THEN reg ELSE [reg EXCEPT ![conf] = 0]
    /\ Goto(t, "shut")
    /\ UNCHANGED <<conf, closing, linkVars, workVars, execVars, syncs, faults, history>>
TearWithdraw(t) ==
    /\ pc[t] = "withdraw"
    /\ reg' = IF provider[Torn(t)] = NoProv THEN reg ELSE [reg EXCEPT ![provider[Torn(t)]] = 0]
    /\ excused' = (excused \/ \E p \in Provider : p = provider[Torn(t)] /\ reg[p] \notin {0, Torn(t)})
    /\ Goto(t, "shut")
    /\ UNCHANGED <<conf, closing, linkVars, workVars, execVars, syncs, faults, late, stale>>

TearShut(t) ==
    /\ pc[t] = "shut"
    /\ sess' = [sess EXCEPT ![Torn(t)] = "none"]
    /\ Goto(t, "release")
    /\ UNCHANGED <<conf, closing, cur, closed, provider, orphan, lease, workVars, reg, execVars, syncs, faults, history>>

(* The release may be lost; then the lease lives until it expires. *)
TearRelease(t) ==
    /\ pc[t] = "release"
    /\ lease' = [lease EXCEPT ![Torn(t)] = 0]
    /\ \/ Retired(lease[Torn(t)]) /\ UNCHANGED faults
       \/ Fault /\ UNCHANGED <<alive, notices>>
    /\ Goto(t, "idle")
    /\ want' = [want EXCEPT ![t] = 0]
    /\ UNCHANGED <<conf, closing, cur, closed, provider, sess, orphan, token, reg, lprov, used, syncs, history>>

-----------------------------------------------------------------------------
(* The operator: Runtime::reload with sync, and shutdown.                  *)

(* The definition of the provider is installed again, which withdraws its  *)
(* registration (install_remote_definition), and the table is replaced.    *)
SyncRoutes(c) ==
    /\ pc[0] = "idle"
    /\ ~closing
    /\ syncs < MaxSync
    /\ syncs' = syncs + 1
    /\ reg' = [p \in Provider |-> IF p = c THEN 0 ELSE reg[p]]
    /\ excused' = (excused \/ \E p \in Provider : p = c /\ reg[p] # 0)
    /\ conf' = c
    /\ Goto(0, "sync")
    /\ UNCHANGED <<closing, linkVars, workVars, execVars, faults, late, stale>>

(* A peer that is gone closes its link and tears it down. *)
SyncRemove ==
    /\ pc[0] = "sync"
    /\ conf = NoProv
    /\ IF cur = 0 THEN Goto(0, "idle") /\ UNCHANGED <<cur, closed, want>>
       ELSE /\ cur' = 0
            /\ closed' = closed \cup {cur}
            /\ want' = [want EXCEPT ![0] = cur]
            /\ Goto(0, "withdraw")
    /\ UNCHANGED <<conf, closing, provider, sess, orphan, lease, token, reg, execVars, syncs, faults, history>>

(* A new peer gets a link and a worker; the link names the provider now    *)
(* routed, or none when the peer is kept without a route, and what the     *)
(* peer still registers beside it is pruned.                               *)
Pruned == [p \in Provider |-> IF p = conf THEN reg[p] ELSE 0]
SyncLink ==
    /\ pc[0] = "sync"
    /\ LET new == Cardinality({l \in Link : pc[l] # "unborn"}) + 1
           l == IF cur = 0 THEN new ELSE cur
       IN /\ l \in Link
          /\ cur' = l
          /\ provider' = [provider EXCEPT ![l] = conf]
          /\ pc' = [pc EXCEPT ![0] = "idle", ![l] = IF cur = 0 THEN "idle" ELSE @]
    /\ reg' = Pruned
    /\ excused' = (excused \/ (cur # 0 /\ provider[cur] # conf))
    /\ stale' = stale \cap {conf}
    /\ UNCHANGED <<conf, closing, closed, sess, orphan, lease, workVars, execVars, syncs, faults, late>>

Shutdown ==
    /\ pc[0] = "idle"
    /\ ~closing
    /\ closing' = TRUE
    /\ closed' = closed \cup ({cur} \ {0})
    /\ want' = [want EXCEPT ![0] = cur]
    /\ Goto(0, IF cur = 0 THEN "idle" ELSE "withdraw")
    /\ UNCHANGED <<conf, cur, provider, sess, orphan, lease, token, reg, execVars, syncs, faults, history>>

-----------------------------------------------------------------------------
(* The executor and the network.                                           *)

SessionLost(l) ==
    /\ sess[l] = "live"
    /\ Fault
    /\ sess' = [sess EXCEPT ![l] = "dead"]
    /\ UNCHANGED <<conf, closing, cur, closed, provider, orphan, lease, pc, workVars, reg, execVars, syncs, history>>

(* A lease expires when nobody renews it, and may be withdrawn before.  An *)
(* attach round takes less time than the lease that it has obtained.       *)
Renewed(x) ==
    \E l \in Link :
        \/ lease[l] = x /\ pc[l] \in {"reconcile", "register", "check", "monitor", "slept", "renew"}
        \/ token[l] = x /\ pc[l] = "ready"
LeaseExpires(x) ==
    /\ x \in alive /\ ~Renewed(x)
    /\ Retired(x)
    /\ UNCHANGED <<conf, closing, linkVars, pc, workVars, reg, lprov, used, syncs, faults, history>>
LeaseRevoked(x) ==
    /\ x \in alive /\ Fault
    /\ Retired(x)
    /\ UNCHANGED <<conf, closing, linkVars, pc, workVars, reg, lprov, used, syncs, history>>

(* on_notice: the registration of the target goes, whoever made it and     *)
(* under whatever lease; a frame read before the session was shut down may *)
(* be handled after it.                                                    *)
Notice(p) ==
    /\ p \in notices
    /\ notices' = notices \ {p}
    /\ late' = late \ {p}
    /\ reg' = [reg EXCEPT ![p] = 0]
    /\ excused' = (excused \/ p \in late)
    /\ UNCHANGED <<conf, closing, linkVars, pc, workVars, alive, lprov, used, syncs, faults, stale>>

-----------------------------------------------------------------------------
(* After the sync of Runtime::start. *)
Init ==
    /\ conf = First /\ closing = FALSE
    /\ cur = 1 /\ closed = {} /\ provider = [l \in Link |-> IF l = 1 THEN First ELSE NoProv]
    /\ sess = [l \in Link |-> "none"] /\ orphan = FALSE /\ lease = [l \in Link |-> 0]
    /\ pc = [t \in Thread |-> IF t \in {0, 1} THEN "idle" ELSE "unborn"]
    /\ want = [t \in Thread |-> 0] /\ token = [l \in Link |-> 0]
    /\ reg = [p \in Provider |-> 0]
    /\ alive = {} /\ lprov = [x \in Lease |-> NoProv] /\ used = 0 /\ notices = {}
    /\ syncs = 0 /\ faults = 0
    /\ late = {} /\ stale = {} /\ excused = FALSE

Worker(l) ==
    \/ WorkerEnds(l) \/ Connect(l) \/ Connected(l) \/ ObtainLease(l) \/ AttachFails(l)
    \/ Ready(l) \/ NeverReady(l) \/ Reconcile(l) \/ Register(l)
    \/ MonitorCheck(l) \/ Monitor(l) \/ Renew(l)
    \/ TearWithdraw(l) \/ TearShut(l) \/ TearRelease(l)

Operator ==
    \/ \E c \in Provider \cup {NoProv} : SyncRoutes(c)
    \/ SyncRemove \/ SyncLink \/ Shutdown
    \/ TearWithdraw(0) \/ TearShut(0) \/ TearRelease(0)

Next ==
    \/ \E l \in Link : Worker(l) \/ SessionLost(l)
    \/ Operator
    \/ \E x \in Lease : LeaseExpires(x) \/ LeaseRevoked(x)
    \/ \E p \in Provider : Notice(p)

Spec == Init /\ [][Next]_vars

(* Workers run on threads of their own, and every wait of theirs has a     *)
(* deadline; a sync that has begun goes on; the supervisor of the executor *)
(* retires what has expired (LateLeaseRetired).  Nothing obliges the       *)
(* operator to begin a sync, or the network to fail.                       *)
Fairness ==
    /\ \A l \in Link : WF_vars(Worker(l))
    /\ WF_vars(SyncRemove \/ SyncLink \/ TearWithdraw(0) \/ TearShut(0) \/ TearRelease(0))
    /\ \A p \in Provider : WF_vars(Notice(p))
    /\ \A x \in Lease : WF_vars(LeaseExpires(x))

FairSpec == Spec /\ Fairness

-----------------------------------------------------------------------------
(* Types; the link of the peer is an open one until the manager closes.    *)
TypeOK ==
    /\ conf \in Provider \cup {NoProv} /\ closing \in BOOLEAN
    /\ cur \in Link \cup {0} /\ closed \subseteq Link /\ (cur \in closed => closing)
    /\ provider \in [Link -> Provider \cup {NoProv}]
    /\ sess \in [Link -> {"none", "live", "dead"}] /\ orphan \in BOOLEAN
    /\ lease \in [Link -> Lease \cup {0}] /\ token \in [Link -> Lease \cup {0}]
    /\ pc \in [Thread -> {"unborn", "idle", "ended", "connect", "lease", "ready", "reconcile", "register",
                          "check", "monitor", "slept", "renew", "withdraw", "shut", "release", "sync"}]
    /\ reg \in [Provider -> Link \cup {0}]
    /\ alive \subseteq Lease /\ lprov \in [Lease -> Provider \cup {NoProv}] /\ notices \subseteq Provider

(* "Any failure withdraws the registration first": an open link without a  *)
(* session publishes nothing, but for a registration that an edit of the   *)
(* routes overtook between the look at the route and the publication.      *)
FailClosed ==
    \A l \in Link : ~Closed(l) /\ sess[l] = "none" => \A p \in Provider : reg[p] = l => p \in stale

(* The inductive invariant behind it.  Only the worker tears an open link  *)
(* down, and it withdraws before it shuts the session down; what an open   *)
(* link has registered is the provider it names, or stale; links are made  *)
(* in order, so a new one was never closed.                                *)
OnlyStale(l) == \A p \in Provider : reg[p] = l => p \in stale
OpenLink(l) ==
    /\ pc[l] = "unborn" => \A p \in Provider : reg[p] # l
    /\ pc[l] # "unborn" => l = cur
    /\ \A p \in Provider : reg[p] = l => p = provider[l] \/ p \in stale
    /\ pc[l] = "shut" \/ sess[l] = "none" => OnlyStale(l)
    /\ pc[l] = "register" => sess[l] # "none"
Born == {l \in Link : pc[l] # "unborn"}
InOrder == /\ \A l \in Born : 1..l \subseteq Born
           /\ closed \cup ({cur} \ {0}) \subseteq Born
LinkInv ==
    /\ TypeOK /\ InOrder
    /\ want \in [Thread -> Provider \cup Link \cup {0}] /\ used \in 0..MaxLease
    /\ \A x \in alive : lprov[x] \in Provider
    /\ pc[0] \in {"withdraw", "shut", "release"} => want[0] \in Link /\ Closed(want[0])
    /\ \A l \in Link : ~Closed(l) => OpenLink(l)

(* A link that is closed, by the operator or by the shutdown, ends its     *)
(* worker, wherever the worker is, and it does not come back.              *)
ClosedLinksEnd == <>[](\A l \in closed : pc[l] = "ended")

(* Once the faults are over, the provider of a configured peer is          *)
(* registered on a live session for good.  Four things prevent it, and     *)
(* only these: a notice handled after a new registration of its target, an *)
(* edit of the route of a link that exists, a reload that installs a       *)
(* registered provider again, and the withdrawal of a registration by the  *)
(* worker of a link that was removed.                                      *)
LinkRecovers ==
    <>[](conf = NoProv \/ closing \/ excused \/ (cur # 0 /\ reg[conf] # 0 /\ sess[cur] = "live"))

(* "owns one TLS session per executor peer" *)
OneSessionPerPeer == ~orphan

(* "no binding outlives its route": with every thread at rest, what is     *)
(* registered is routed.                                                   *)
AtRest == pc[0] = "idle" /\ \A l \in Link : pc[l] \in {"unborn", "ended", "check"}
NoBindingOutlivesRoute ==
    AtRest => \A p \in Provider : reg[p] # 0 => ~closing /\ p = conf

=============================================================================
