------------------------------ MODULE HostCalls ------------------------------
(***************************************************************************)
(* Calls through the component host (matrix-host/src/lib.rs 713-943,       *)
(* 1582-2398) and the authority of dependency calls in the kernel          *)
(* (matrix-core/src/kernel.rs 735-1220, 1418-1540, calls.rs 270-360).      *)
(*                                                                         *)
(* A call is forwarded by the kernel to the session of a component; while  *)
(* it runs, the component may open dependency calls under its ticket, and  *)
(* their providers may do the same.  Component s + 1 is the dependency of  *)
(* component s; those of Remote run behind a route.  Every wait of a       *)
(* worker races the loss of either session, a cancel, a withdraw, a change *)
(* of the grant and the deadline.                                          *)
(*                                                                         *)
(* Simplifications: one activation and one session of each component (the  *)
(* generations are in KernelLifecycle and HostSessions), every payload is  *)
(* one unit of the quotas, a business error is an answer, tickets are      *)
(* cancelled and not drained by a withdraw, and a repeated request id is   *)
(* answered without a change of state.                                     *)
(***************************************************************************)
EXTENDS Naturals, FiniteSets

CONSTANTS MaxCall,      \* bound: calls
          MaxDepth,     \* policy max_depth, hence the length of the chain
          Remote,       \* components that run behind the route
          MaxPending,   \* MAX_PENDING_PER_HOST
          MaxInFlight,  \* MAX_CALLS_PER_SESSION
          SendQuota,    \* max_queued_bytes of a session
          MaxDeps,      \* policy max_calls_global
          MaxFaults     \* bound: cancels, withdraws, lost sessions, changes of a grant

Call == 1..MaxCall
Comp == 1..(MaxDepth + 1)
Local == Comp \ Remote

ASSUME CallsAssumption ==
    /\ {MaxCall, MaxPending, MaxInFlight, SendQuota, MaxDeps} \subseteq Nat \ {0}
    /\ {MaxDepth, MaxFaults} \subseteq Nat
    /\ Remote \subseteq Comp \ {1}

VARIABLES
    live,        \* Active instances, registered remote providers
    wd,          \* withdraw of each component
    tk,          \* kernel tickets
    parent,      \* dep.parent of each call, 0 for a forwarded one
    comp,        \* the component that executes it
    rev,         \* dep.grant_rev
    owed,        \* ended tickets whose descendants are still to be revoked
    grant,       \* outbound_grants of each consumer, 0 for none
    sweeping,    \* consumers whose grant changed and whose children are not yet revoked
    depUse,      \* dep_usage.per_session
    sessions, dropping,          \* sessions; those between removal and sweep
    pending, mail,               \* pending and what its channels hold
    inflight, used,              \* in_flight and send_used of each session
    mapped, wanted, ops,         \* dep_requests, dep_sync.wanted, remote_ops
    pc, out, told,               \* workers, the terminal in hand, answers to cancels
    held,                        \* the guards a worker holds: count in flight, charge
    faults                       \* what MaxFaults bounds

grantVars == <<grant, sweeping, depUse>>
kernelVars == <<live, wd, tk, owed, grantVars>>
callVars == <<parent, comp, rev>>
sessVars == <<sessions, dropping>>
replyVars == <<pending, mail>>
quotaVars == <<inflight, used, held>>
depVars == <<mapped, wanted, ops, told>>
hostVars == <<sessVars, replyVars, quotaVars, depVars>>
vars == <<kernelVars, callVars, hostVars, pc, out, faults>>

Depth(c) == comp[c] - 1
Consumer(c) == comp[c] - 1
Children(c) == {d \in Call : parent[d] = c}
Tickets(s) == {c \in Call : comp[c] = s /\ tk[c] \notin {"none", "closed"}}
Fault == faults < MaxFaults /\ faults' = faults + 1
Goto(c, l) == pc' = [pc EXCEPT ![c] = l]

(* A worker leaves with an answer; what it holds is given back at "close". *)
Ends(c, o) == Goto(c, "close") /\ out' = [out EXCEPT ![c] = o]

(* Tickets that lose their authority: only an Admitted one does. *)
Cancelled(S) == [c \in Call |-> IF c \in S /\ tk[c] = "Admitted" THEN "Cancelled" ELSE tk[c]]

-----------------------------------------------------------------------------
(* Quotas of a session; a session that is gone refuses every charge and    *)
(* has nothing to give back.                                               *)

MayCharge(s) == s \in sessions /\ used[s] < SendQuota
Plus(f, s) == [f EXCEPT ![s] = @ + 1]
Minus(f, s) == IF s \in sessions THEN [f EXCEPT ![s] = @ - 1] ELSE f

(* A dependency call is charged to its consumer. *)
Payer(c) == IF parent[c] = 0 THEN comp[c] ELSE Consumer(c)

(* InFlightGuard and SendBudget. *)
Hold(c, guards) ==
    /\ held' = [held EXCEPT ![c] = guards]
    /\ inflight' = IF "count" \in guards THEN Plus(inflight, comp[c]) ELSE inflight
    /\ used' = Plus(used, Payer(c))

\* Defect for mutation: a worker whose ticket was revoked returns past its guards.
ReleaseAdmitted(c) ==
    IF tk[c] = "Cancelled" THEN UNCHANGED <<inflight, used>> /\ held' = [held EXCEPT ![c] = {}]
    ELSE /\ held' = [held EXCEPT ![c] = {}]
         /\ inflight' = IF "count" \in held[c] THEN Minus(inflight, comp[c]) ELSE inflight
         /\ used' = IF "charge" \in held[c] THEN Minus(used, Payer(c)) ELSE used
Release(c) ==
    /\ held' = [held EXCEPT ![c] = {}]
    /\ inflight' = IF "count" \in held[c] THEN Minus(inflight, comp[c]) ELSE inflight
    /\ used' = IF "charge" \in held[c] THEN Minus(used, Payer(c)) ELSE used

-----------------------------------------------------------------------------
(* The kernel: authority of tickets.                                       *)

(* revoke_ticket_descendants, the second half of every end of a ticket:    *)
(* it marks the children, one level.                                       *)
\* Defect for mutation: the end of a ticket leaves its children admitted.
RevokeNothing(c) ==
    /\ c \in owed
    /\ owed' = owed \ {c}
    /\ UNCHANGED <<live, wd, tk, grantVars, callVars, hostVars, pc, out, faults>>
Revoke(c) ==
    /\ c \in owed
    /\ owed' = owed \ {c}
    /\ tk' = Cancelled(Children(c))
    /\ UNCHANGED <<live, wd, grantVars, callVars, hostVars, pc, out, faults>>

(* call_cancel of a forwarded call by its client. *)
ClientCancel(c) ==
    /\ parent[c] = 0
    /\ tk[c] = "Admitted"
    /\ Fault
    /\ tk' = Cancelled({c})
    /\ owed' = owed \cup {c}
    /\ UNCHANGED <<live, wd, grantVars, callVars, hostVars, pc, out>>

(* A ticket leaves the table; the last one of a parked instance finalizes  *)
(* it (call_close, settle_ticket).                                         *)
Settled(c) ==
    /\ tk' = [tk EXCEPT ![c] = "closed"]
    /\ owed' = owed \cup {c}
    /\ wd' = IF wd[comp[c]] = "parked" /\ Tickets(comp[c]) = {c}
             THEN [wd EXCEPT ![comp[c]] = "disposed"] ELSE wd

(* The withdraw of an instance ends the admission first, then revokes the  *)
(* tickets that it executes and the children that it opened, and parks     *)
(* while tickets are left.                                                 *)
Withdraw(s) ==
    /\ s \in live \cap Local
    /\ Fault
    /\ live' = live \ {s}
    /\ wd' = [wd EXCEPT ![s] = "claimed"]
    /\ UNCHANGED <<tk, owed, grantVars, callVars, hostVars, pc, out>>

WithdrawRevoke(s) ==
    /\ wd[s] = "claimed"
    /\ tk' = Cancelled({c \in Call : comp[c] = s \/ (parent[c] # 0 /\ Consumer(c) = s)})
    /\ wd' = [wd EXCEPT ![s] = "revoked"]
    /\ UNCHANGED <<live, owed, grantVars, callVars, hostVars, pc, out, faults>>

WithdrawPark(s) ==
    /\ wd[s] = "revoked"
    /\ wd' = [wd EXCEPT ![s] = IF Tickets(s) = {} THEN "disposed" ELSE "parked"]
    /\ UNCHANGED <<live, tk, owed, grantVars, callVars, hostVars, pc, out, faults>>

(* register_remote_provider and unregister_remote_provider: the tickets of *)
(* a lost provider are left to their workers.                              *)
RemoteProvider(s) ==
    /\ s \in Remote
    /\ Fault
    /\ live' = IF s \in live THEN live \ {s} ELSE live \cup {s}
    /\ UNCHANGED <<wd, tk, owed, grantVars, callVars, hostVars, pc, out>>

(* grant_outbound and revoke_outbound: the table first, then the children  *)
(* of other revisions.                                                     *)
GrantChange(s, granted) ==
    /\ s \notin sweeping
    /\ Fault
    /\ grant' = [grant EXCEPT ![s] = IF granted THEN faults + 2 ELSE 0]
    /\ sweeping' = sweeping \cup {s}
    /\ UNCHANGED <<live, wd, tk, owed, depUse, callVars, hostVars, pc, out>>

GrantSweep(s) ==
    /\ s \in sweeping
    /\ sweeping' = sweeping \ {s}
    /\ tk' = Cancelled({c \in Call : parent[c] # 0 /\ Consumer(c) = s /\ rev[c] # grant[s]})
    /\ UNCHANGED <<live, wd, owed, grant, depUse, callVars, hostVars, pc, out, faults>>

-----------------------------------------------------------------------------
(* Sessions.  drop_session takes the session out of the table, then sends  *)
(* a notice to every wait on it and revokes the children it opened, with   *)
(* the table of replies locked.                                            *)

DropSession(s) ==
    /\ s \in sessions
    /\ Fault
    /\ sessions' = sessions \ {s}
    /\ dropping' = dropping \cup {s}
    /\ UNCHANGED <<kernelVars, callVars, replyVars, quotaVars, depVars, pc, out>>

DropSweep(s) ==
    /\ s \in dropping
    /\ dropping' = dropping \ {s}
    /\ LET waits == {c \in pending : comp[c] = s}
           opened == {c \in mapped : Consumer(c) = s /\ tk[c] = "Admitted"}
       IN  /\ pending' = pending \ waits
           /\ mail' = [c \in Call |-> IF c \in waits THEN "gone" ELSE mail[c]]
           /\ tk' = Cancelled(opened)
           /\ owed' = owed \cup opened
    /\ UNCHANGED <<live, wd, grantVars, callVars, sessions, quotaVars, depVars, pc, out, faults>>

(* call.result: the first answer of a session takes the reply; later ones  *)
(* find none and are dropped.                                              *)
Answer(c) ==
    /\ c \in pending
    /\ pc[c] = "wait"
    /\ comp[c] \in sessions
    /\ pending' = pending \ {c}
    /\ mail' = [mail EXCEPT ![c] = "answer"]
    /\ UNCHANGED <<kernelVars, callVars, sessVars, quotaVars, depVars, pc, out, faults>>

-----------------------------------------------------------------------------
(* forward_call, between call_open and settle_ticket of the kernel.        *)

(* What refuses a call before any work is done for it. *)
Refusal(s) ==
    IF Cardinality(pending) >= MaxPending THEN "exhausted"
    ELSE IF s \notin sessions THEN "gone"
    ELSE IF inflight[s] >= MaxInFlight \/ ~MayCharge(s) THEN "exhausted"
    ELSE "none"

Forward(c) ==
    /\ pc[c] = "idle"
    /\ \A d \in Call : d < c => pc[d] # "idle"
    /\ 1 \in live
    /\ comp' = [comp EXCEPT ![c] = 1]
    /\ tk' = [tk EXCEPT ![c] = "Admitted"]
    /\ IF Refusal(1) = "none"
       THEN /\ held' = [held EXCEPT ![c] = {"charge", "count"}]
            /\ inflight' = Plus(inflight, 1)
            /\ used' = Plus(used, 1)
            /\ Goto(c, "insert")
            /\ UNCHANGED out
       ELSE Ends(c, Refusal(1)) /\ UNCHANGED quotaVars
    /\ UNCHANGED <<live, wd, owed, grantVars, parent, rev, sessVars, replyVars, depVars, faults>>

(* The cap was looked at before: this insertion may exceed it. *)
\* Defect for mutation: the reply is registered only after the request was sent.
ForwardInsertLate(c) ==
    /\ pc[c] = "insert"
    /\ parent[c] = 0
    /\ Goto(c, "send")
    /\ UNCHANGED <<kernelVars, callVars, hostVars, out, faults>>
ForwardInsert(c) ==
    /\ pc[c] = "insert"
    /\ pending' = pending \cup {c}
    /\ Goto(c, "send")
    /\ UNCHANGED <<kernelVars, callVars, sessVars, mail, quotaVars, depVars, out, faults>>

(* A write may fail on a session that is still there. *)
ForwardSend(c) ==
    /\ pc[c] = "send"
    /\ parent[c] = 0
    /\ \/ comp[c] \in sessions /\ Goto(c, "wait") /\ UNCHANGED <<pending, out>>
       \/ pending' = pending \ {c} /\ Ends(c, "gone")
    /\ UNCHANGED <<kernelVars, callVars, sessVars, mail, quotaVars, depVars, faults>>

(* The cancel flag, the deadline, the channel. *)
\* Defect for mutation: the wait has no deadline.
ForwardWaitForever(c) ==
    /\ pc[c] = "wait"
    /\ parent[c] = 0
    /\ \/ tk[c] # "Admitted" /\ Ends(c, "cancelled")
       \/ mail[c] # "none" /\ Ends(c, IF mail[c] = "answer" THEN "ok" ELSE "unknown")
    /\ pending' = pending \ {c}
    /\ UNCHANGED <<kernelVars, callVars, sessVars, mail, quotaVars, depVars, faults>>
ForwardWait(c) ==
    /\ pc[c] = "wait"
    /\ parent[c] = 0
    /\ \/ tk[c] # "Admitted" /\ Ends(c, "cancelled")
       \/ Ends(c, "timeout")
       \/ mail[c] # "none" /\ Ends(c, IF mail[c] = "answer" THEN "ok" ELSE "unknown")
    /\ pending' = pending \ {c}
    /\ UNCHANGED <<kernelVars, callVars, sessVars, mail, quotaVars, depVars, faults>>

(* The guards give count and charge back, and the ticket is settled.  The  *)
(* kernel turns a success whose ticket was revoked into an error, which    *)
(* ends the call: nothing else depends on it.                              *)
ForwardSettle(c) ==
    /\ pc[c] = "close"
    /\ parent[c] = 0
    /\ Release(c)
    /\ Settled(c)
    /\ out' = [out EXCEPT ![c] = "none"]
    /\ mail' = [mail EXCEPT ![c] = "none"]
    /\ Goto(c, "done")
    /\ UNCHANGED <<live, grantVars, callVars, sessVars, pending, depVars, faults>>

ForwardThread(c) == ForwardInsert(c) \/ ForwardSend(c) \/ ForwardWait(c) \/ ForwardSettle(c)

-----------------------------------------------------------------------------
(* Dependency calls: the gate of the reader, then a worker.                *)

(* dependency_admit runs under dep_admit_lock. *)
Admitting == \E c \in Call : pc[c] \in {"register", "revalidate"}

(* What the gate and the checks of dependency_admit ask of a child of p.   *)
(* max_children_per_parent, max_calls_global and max_seen_requests are     *)
(* limits of the same shape as the one of the session.                     *)
Admissible(p) ==
    LET s == comp[p]
    IN  /\ tk[p] = "Admitted"
        /\ {s, s + 1} \subseteq live
        /\ grant[s] # 0
        /\ Cardinality(pending) < MaxPending
        /\ depUse[s] < MaxDeps

(* dependency.open: the answer of a denial, or the reservation of the      *)
(* request and of the quota with the revision of the grant.  A worker that *)
(* cannot be started is a denial too.                                      *)
DepOpen(c, p) ==
    /\ pc[c] = "idle"
    /\ \A d \in Call : d < c => pc[d] # "idle"
    /\ pc[p] \in {"wait", "accept", "mark"} \/ (pc[p] = "close" /\ "count" \in held[p])
    /\ comp[p] \in sessions /\ comp[p] <= MaxDepth
    /\ ~Admitting
    /\ \/ Goto(c, "done") /\ UNCHANGED <<callVars, depUse>>
       \/ /\ Admissible(p)
          /\ Goto(c, "register")
          /\ parent' = [parent EXCEPT ![c] = p]
          /\ comp' = [comp EXCEPT ![c] = comp[p] + 1]
          /\ rev' = [rev EXCEPT ![c] = grant[comp[p]]]
          /\ depUse' = Plus(depUse, comp[p])
    /\ UNCHANGED <<live, wd, tk, owed, grant, sweeping, hostVars, out, faults>>

AdmitRegister(c) ==
    /\ pc[c] = "register"
    /\ tk' = [tk EXCEPT ![c] = "Admitted"]
    /\ Goto(c, "revalidate")
    /\ UNCHANGED <<live, wd, owed, grantVars, callVars, hostVars, out, faults>>

(* What withdraw or revoke may have changed since the checks, before they  *)
(* could see the ticket.  The rollback removes the ticket and nothing      *)
(* else: a parked provider is not looked at.                               *)
AdmitRevalidate(c) ==
    /\ pc[c] = "revalidate"
    /\ IF /\ tk[parent[c]] = "Admitted"
          /\ {comp[c], Consumer(c)} \subseteq live
          /\ grant[Consumer(c)] = rev[c]
       THEN Goto(c, "map") /\ UNCHANGED <<tk, depUse>>
       ELSE /\ tk' = [tk EXCEPT ![c] = "closed"]
            /\ depUse' = [depUse EXCEPT ![Consumer(c)] = @ - 1]
            /\ Goto(c, "done")
    /\ UNCHANGED <<live, wd, owed, grant, sweeping, callVars, hostVars, out, faults>>

(* The worker maps the request to its ticket and takes the mark of an      *)
(* early cancel, under the lock of the sessions.                           *)
\* Defect for mutation: the mark of an early cancel is not looked at.
DepMapUnmarked(c) ==
    /\ pc[c] = "map"
    /\ IF Consumer(c) \in sessions
       THEN mapped' = mapped \cup {c} /\ wanted' = wanted \ {c} /\ Goto(c, "dispatch") /\ UNCHANGED out
       ELSE Ends(c, "silent") /\ UNCHANGED <<mapped, wanted>>
    /\ UNCHANGED <<kernelVars, callVars, sessVars, replyVars, quotaVars, ops, told, faults>>
DepMap(c) ==
    /\ pc[c] = "map"
    /\ IF Consumer(c) \in sessions
       THEN /\ mapped' = mapped \cup {c}
            /\ wanted' = wanted \ {c}
            /\ IF c \in wanted THEN Ends(c, "cancelled") ELSE Goto(c, "dispatch") /\ UNCHANGED out
       ELSE Ends(c, "silent") /\ UNCHANGED <<mapped, wanted>>
    /\ UNCHANGED <<kernelVars, callVars, sessVars, replyVars, quotaVars, ops, told, faults>>

(* The charge for the input, then the route or the session of the provider,*)
(* with its count and its reply: cap and insertion are one step here.      *)
DispatchRefusal(c) ==
    IF ~MayCharge(Consumer(c)) THEN "exhausted"
    ELSE IF comp[c] \in Remote THEN "none"
    ELSE IF comp[c] \notin sessions THEN "unknown"
    ELSE IF inflight[comp[c]] >= MaxInFlight \/ Cardinality(pending) >= MaxPending THEN "exhausted"
    ELSE "none"

DepDispatch(c) ==
    /\ pc[c] = "dispatch"
    /\ comp[c] \in Local
    /\ IF DispatchRefusal(c) # "none"
       THEN Ends(c, DispatchRefusal(c)) /\ UNCHANGED <<quotaVars, pending>>
       ELSE /\ Hold(c, {"charge", "count"})
            /\ pending' = pending \cup {c}
            /\ Goto(c, "send")
            /\ UNCHANGED out
    /\ UNCHANGED <<kernelVars, callVars, sessVars, mail, depVars, faults>>

DepSend(c) ==
    /\ pc[c] = "send"
    /\ parent[c] # 0
    /\ \/ comp[c] \in sessions /\ Goto(c, "wait") /\ UNCHANGED <<pending, out>>
       \/ pending' = pending \ {c} /\ Ends(c, "unknown")
    /\ UNCHANGED <<kernelVars, callVars, sessVars, mail, quotaVars, depVars, faults>>

(* run_dep_open_remote: the operation is listed for cancels; without a     *)
(* route the outcome is unknown.  A thread of its own holds the call.      *)
RemoteDispatch(c) ==
    /\ pc[c] = "dispatch"
    /\ comp[c] \in Remote
    /\ \/ /\ DispatchRefusal(c) = "none"
          /\ Hold(c, {"charge"})
          /\ ops' = ops \cup {c}
          /\ Goto(c, "wait")
          /\ UNCHANGED out
       \/ /\ Ends(c, IF DispatchRefusal(c) = "none" THEN "unknown" ELSE DispatchRefusal(c))
          /\ UNCHANGED <<quotaVars, ops>>
    /\ UNCHANGED <<kernelVars, callVars, sessVars, replyVars, mapped, wanted, told, faults>>

RemoteTerminal(c) ==
    /\ pc[c] = "wait"
    /\ comp[c] \in Remote
    /\ mail[c] = "none"
    /\ \E m \in {"answer", "gone"} : mail' = [mail EXCEPT ![c] = m]
    /\ UNCHANGED <<kernelVars, callVars, sessVars, pending, quotaVars, depVars, pc, out, faults>>

(* The wait: consumer, ticket, deadline and channel are looked at in turn, *)
(* so that each may change before the next is.                             *)
DepAbort(c) ==
    /\ \/ Consumer(c) \notin sessions /\ Ends(c, "silent") /\ UNCHANGED <<tk, owed>>
       \/ tk[c] = "Cancelled" /\ Ends(c, "cancelled") /\ UNCHANGED <<tk, owed>>
       \/ tk[c] = "Expired" /\ Ends(c, "deadline") /\ UNCHANGED <<tk, owed>>
       \/ mail[c] = "gone" /\ Ends(c, "unknown") /\ UNCHANGED <<tk, owed>>
       \/ /\ tk' = [tk EXCEPT ![c] = IF @ = "Admitted" THEN "Expired" ELSE @]
          /\ owed' = IF tk[c] = "Admitted" THEN owed \cup {c} ELSE owed
          /\ Ends(c, "deadline")
    /\ UNCHANGED used

(* An answer is charged to the consumer until it is delivered. *)
DepReply(c) ==
    /\ mail[c] = "answer"
    /\ IF MayCharge(Consumer(c))
       THEN used' = Plus(used, Consumer(c)) /\ Goto(c, "accept") /\ UNCHANGED out
       ELSE Ends(c, "exhausted") /\ UNCHANGED used
    /\ UNCHANGED <<tk, owed>>

DepWait(c) ==
    /\ pc[c] = "wait"
    /\ parent[c] # 0
    /\ pending' = pending \ {c}
    /\ DepAbort(c) \/ DepReply(c)
    /\ UNCHANGED <<live, wd, grantVars, callVars, sessVars, mail, inflight, held, depVars, faults>>

(* dependency_accept: dep_chain_check of deadline, parent, consumer and    *)
(* grant, then the mark, which only an Admitted ticket takes.              *)
ChainHolds(c) ==
    /\ tk[parent[c]] = "Admitted"
    /\ Consumer(c) \in live
    /\ grant[Consumer(c)] = rev[c]

DepCheck(c) ==
    /\ pc[c] = "accept"
    /\ \/ /\ ChainHolds(c)
          /\ Goto(c, "mark")
          /\ UNCHANGED <<tk, used, out>>
       \/ /\ ~ChainHolds(c)
          /\ Ends(c, "denied")
          /\ used' = Minus(used, Consumer(c))
          /\ UNCHANGED tk
       \/ /\ tk' = [tk EXCEPT ![c] = "Expired"]
          /\ Ends(c, "deadline")
          /\ used' = Minus(used, Consumer(c))
    /\ UNCHANGED <<live, wd, owed, grantVars, callVars, sessVars, replyVars, inflight, held, depVars, faults>>

DepAccept(c) ==
    /\ pc[c] = "mark"
    /\ tk' = [tk EXCEPT ![c] = IF @ = "Admitted" THEN "Committed" ELSE @]
    /\ Ends(c, IF tk[c] = "Admitted" THEN "ok" ELSE "cancelled")
    /\ used' = Minus(used, Consumer(c))
    /\ UNCHANGED <<live, wd, owed, grantVars, callVars, sessVars, replyVars, inflight, held, depVars, faults>>

(* Every way out closes the ticket, which gives its reservation back. *)
DepClose(c) ==
    /\ pc[c] = "close"
    /\ parent[c] # 0
    /\ Release(c)
    /\ Settled(c)
    /\ depUse' = [depUse EXCEPT ![Consumer(c)] = @ - 1]
    /\ mail' = [mail EXCEPT ![c] = "none"]
    /\ ops' = ops \ {c}
    /\ out' = [out EXCEPT ![c] = "none"]
    /\ rev' = [rev EXCEPT ![c] = 0]
    /\ Goto(c, "done")
    /\ UNCHANGED <<live, grant, sweeping, parent, comp, sessVars, pending, mapped, wanted, told, faults>>

DepThread(c) ==
    \/ AdmitRegister(c) \/ AdmitRevalidate(c) \/ DepMap(c) \/ DepDispatch(c) \/ RemoteDispatch(c)
    \/ DepSend(c) \/ DepWait(c) \/ DepCheck(c) \/ DepAccept(c) \/ DepClose(c)

(* dependency.cancel: a mapped child loses its authority, one still in     *)
(* admission is marked for its worker; a finished one is terminal.         *)
DepCancel(c) ==
    /\ parent[c] # 0
    /\ Consumer(c) \in sessions
    /\ told[c] = "none"
    /\ Fault
    /\ \/ /\ c \in mapped
          /\ tk' = Cancelled({c})
          /\ owed' = IF tk[c] = "Admitted" THEN owed \cup {c} ELSE owed
          /\ told' = [told EXCEPT ![c] = IF tk[c] = "Admitted" THEN "revoked" ELSE "terminal"]
          /\ UNCHANGED wanted
       \/ /\ pc[c] \in {"register", "revalidate", "map"}
          /\ wanted' = wanted \cup {c}
          /\ told' = [told EXCEPT ![c] = "revoked"]
          /\ UNCHANGED <<tk, owed>>
    /\ UNCHANGED <<live, wd, grantVars, callVars, sessVars, replyVars, quotaVars, mapped, ops, pc, out>>

-----------------------------------------------------------------------------
Init ==
    /\ live = Comp
    /\ wd = [s \in Comp |-> "none"]
    /\ tk = [c \in Call |-> "none"]
    /\ parent = [c \in Call |-> 0]
    /\ comp = [c \in Call |-> 0]
    /\ rev = [c \in Call |-> 0]
    /\ owed = {}
    /\ grant = [s \in Comp |-> 1]
    /\ sweeping = {}
    /\ depUse = [s \in Comp |-> 0]
    /\ sessions = Local
    /\ dropping = {}
    /\ pending = {}
    /\ mail = [c \in Call |-> "none"]
    /\ inflight = [s \in Comp |-> 0]
    /\ used = [s \in Comp |-> 0]
    /\ held = [c \in Call |-> {}]
    /\ mapped = {} /\ wanted = {} /\ ops = {}
    /\ pc = [c \in Call |-> "idle"]
    /\ out = [c \in Call |-> "none"]
    /\ told = [c \in Call |-> "none"]
    /\ faults = 0

Next ==
    \/ \E c \in Call :
          \/ Forward(c) \/ ForwardThread(c) \/ DepThread(c) \/ DepCancel(c) \/ ClientCancel(c)
          \/ Answer(c) \/ RemoteTerminal(c) \/ Revoke(c)
          \/ \E p \in Call : DepOpen(c, p)
    \/ \E s \in Comp :
          \/ Withdraw(s) \/ WithdrawRevoke(s) \/ WithdrawPark(s) \/ RemoteProvider(s)
          \/ DropSession(s) \/ DropSweep(s) \/ GrantSweep(s)
          \/ \E b \in BOOLEAN : GrantChange(s, b)

Spec == Init /\ [][Next]_vars

(* Workers are scheduled and the deadlines of their waits pass.            *)
(* Components, clients and the operator owe nothing.                       *)
FairSpec == Spec /\ \A c \in Call : WF_vars(ForwardThread(c) \/ DepThread(c))

-----------------------------------------------------------------------------
(* Types of tickets, workers and answers. *)
TypeOK ==
    /\ live \subseteq Comp /\ sessions \subseteq Local /\ dropping \subseteq Local \ sessions
    /\ wd \in [Comp -> {"none", "claimed", "revoked", "parked", "disposed"}]
    /\ tk \in [Call -> {"none", "Admitted", "Cancelled", "Expired", "Committed", "closed"}]
    /\ parent \in [Call -> 0..MaxCall] /\ comp \in [Call -> {0} \cup Comp]
    /\ owed \cup pending \cup mapped \cup wanted \cup ops \subseteq Call
    /\ depUse \in [Comp -> 0..MaxDeps]
    /\ inflight \in [Comp -> 0..MaxInFlight] /\ used \in [Comp -> 0..SendQuota]
    /\ mail \in [Call -> {"none", "answer", "gone"}]
    /\ pc \in [Call -> {"idle", "insert", "register", "revalidate", "map", "dispatch", "send", "wait", "accept",
                        "mark", "close", "done"}]
    /\ out \in [Call -> {"none", "ok", "gone", "unknown", "exhausted", "cancelled", "timeout", "denied", "deadline",
                         "silent"}]
    /\ told \in [Call -> {"none", "revoked", "terminal"}]

(* Waits and replies find each other.  A call never waits on a lost        *)
(* session without a notice: the reply is registered before the request is *)
(* sent, and drop_session sweeps the replies after it has removed the      *)
(* session (lib.rs 760-777, 872-890).  And no exit leaves a reply, or an   *)
(* operation on the route, of a worker that does not wait (lib.rs 2004).   *)
WaitsMatchReplies ==
    /\ \A c \in Call : (pc[c] = "wait" /\ comp[c] \in Local /\ mail[c] = "none") => comp[c] \in sessions \cup dropping
    /\ \A c \in pending : pc[c] \in {"send", "wait"} /\ mail[c] = "none"
    /\ \A c \in ops : pc[c] \notin {"idle", "done"}

(* Counts, charges and reservations are what the workers hold, on every    *)
(* way out: "quotas always return to baseline" (lib.rs 337-339); none      *)
(* passes its limit.                                                       *)
QuotasExact ==
    \A s \in Comp :
        /\ depUse[s] <= MaxDeps /\ inflight[s] <= MaxInFlight /\ used[s] <= SendQuota
        /\ depUse[s] = Cardinality({c \in Call : /\ parent[c] # 0 /\ Consumer(c) = s
                                                 /\ pc[c] \notin {"idle", "done"}})
        /\ s \in sessions =>
            /\ inflight[s] = Cardinality({c \in Call : "count" \in held[c] /\ comp[c] = s})
            /\ used[s] = Cardinality({c \in Call : "charge" \in held[c] /\ Payer(c) = s})
                       + Cardinality({c \in Call : pc[c] \in {"accept", "mark"} /\ Payer(c) = s})

(* Once a cancel was answered "revoked", the call is not answered with a   *)
(* success, whether the cancel found the ticket or only the request        *)
(* (lib.rs 1783-1842).                                                     *)
RevokedStaysRevoked ==
    \A c \in Call : told[c] = "revoked" => out[c] # "ok"

(* A result is accepted only while the authority of its call stands: its   *)
(* parent has not been closed, its grant has not been changed and its      *)
(* consumer not withdrawn, or the thread that did so has still to revoke   *)
(* the children (kernel.rs 977-988, 918-962, 1418-1450, 2950).             *)
AcceptedWithAuthority ==
    [][\A c \in Call : (tk[c] # "Committed" /\ tk'[c] = "Committed") =>
          /\ tk[parent[c]] = "closed" => parent[c] \in owed
          /\ rev[c] # grant[Consumer(c)] => Consumer(c) \in sweeping
          /\ Consumer(c) \notin live => wd[Consumer(c)] = "claimed"]_vars

(* The inductive invariant behind them.  What a call is at each point of   *)
(* its way: an opened one has an executing parent and a consumer with a    *)
(* session of its own, and guards are held between dispatch and close.     *)
Shaped(c) ==
    /\ pc[c] = "idle" => parent[c] = 0 /\ held[c] = {}
    /\ pc[c] = "done" => held[c] = {}
    /\ pc[c] \notin {"idle", "done"} => comp[c] \in Comp
    /\ pc[c] \notin {"idle", "done"} /\ parent[c] = 0 => comp[c] = 1
    /\ pc[c] \in {"register", "revalidate", "map", "dispatch", "accept", "mark"} => parent[c] # 0
    /\ pc[c] \in {"register", "revalidate", "map", "dispatch"} => held[c] = {}
    /\ pc[c] = "insert" => parent[c] = 0
    /\ parent[c] # 0 => /\ parent[c] \in Call /\ Consumer(c) \in Local /\ comp[c] \in Comp
                        /\ pc[parent[c]] \in {"wait", "accept", "mark", "close", "done"}

(* A wait without mail has its reply registered, and only such a wait. *)
ReplyKept(c) ==
    /\ c \in pending => pc[c] \in {"send", "wait"} /\ comp[c] \in Local /\ mail[c] = "none"
    /\ pc[c] \in {"send", "wait"} /\ comp[c] \in Local /\ mail[c] = "none" => c \in pending
    /\ mail[c] # "none" => pc[c] \in {"send", "wait", "accept", "mark", "close"}
    /\ c \in ops => pc[c] \in {"wait", "accept", "mark", "close"} /\ parent[c] # 0

(* A cancel that was answered "revoked" has taken the authority, or has    *)
(* left a mark that the worker has still to look at.                       *)
CancelKept(c) ==
    /\ told[c] # "none" => parent[c] # 0
    /\ c \in mapped => pc[c] \in {"dispatch", "send", "wait", "accept", "mark", "close", "done"}
    /\ told[c] = "revoked" /\ pc[c] \in {"register", "revalidate", "map"} => c \in wanted
    /\ told[c] = "revoked" /\ pc[c] \in {"dispatch", "send", "wait", "accept", "mark"} => tk[c] \in {"Cancelled", "Expired"}
    /\ out[c] = "ok" /\ parent[c] # 0 => tk[c] = "Committed"
    /\ out[c] # "none" => pc[c] = "close"

(* Between the check of the chain and the mark, whoever breaks the chain   *)
(* revokes the call, or is about to.                                       *)
AuthorityKept(c) ==
    pc[c] = "mark" /\ tk[c] = "Admitted" =>
        /\ tk[parent[c]] = "closed" => parent[c] \in owed
        /\ rev[c] # grant[Consumer(c)] => Consumer(c) \in sweeping
        /\ Consumer(c) \notin live => wd[Consumer(c)] = "claimed"

CallsInv ==
    /\ TypeOK
    /\ held \in [Call -> SUBSET {"charge", "count"}] /\ DOMAIN rev = Call /\ DOMAIN grant = Comp
    /\ \A c \in Call : Shaped(c) /\ ReplyKept(c) /\ CancelKept(c) /\ AuthorityKept(c)
    /\ WaitsMatchReplies /\ QuotasExact /\ RevokedStaysRevoked

(* Every call that was forwarded or opened comes to its end, whatever the  *)
(* components do: of finitely many calls, none is under way for ever.      *)
CallsEnd == []<>(\A c \in Call : pc[c] \in {"idle", "done"})

(* A parked instance waits for tickets: "Every ticket end passes through   *)
(* here [...] Without it, raw `remove` parks `CleanupPending` with zero    *)
(* pending work and no way out" (kernel.rs 1714-1720).                     *)
ParkedHasWork == \A s \in Comp : wd[s] = "parked" => Tickets(s) # {}
=============================================================================
