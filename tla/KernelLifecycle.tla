-------------------------- MODULE KernelLifecycle --------------------------
(***************************************************************************)
(* The calls and the lifecycle of local, dependency-free plugin            *)
(* activations in the Matrix kernel (crates/matrix-core/src: kernel.rs,    *)
(* context.rs, calls.rs, resources.rs, registry.rs).                       *)
(*                                                                         *)
(* The kernel has no global lock.  Every table (contexts, tickets,         *)
(* resources, capability registry, plugins, definitions) has its own       *)
(* mutex, and a kernel operation is a sequence of short critical sections. *)
(* A Thread runs one operation at a time; pc[th] names the section it      *)
(* executes next, so one action below is one critical section (adjacent    *)
(* sections are joined where no interleaving between them can be seen).    *)
(*                                                                         *)
(* Left out: journal text, json state, leases, the names of capabilities   *)
(* (a definition provides one), bindings (see the README) and pins.        *)
(***************************************************************************)
EXTENDS Integers, FiniteSets

CONSTANTS
    Thread,       \* threads that call the kernel (thread per connection, host workers)
    Logical,      \* logical plugin ids
    NoLogical,    \* no logical id
    MaxInst,      \* BOUND: instances ever created
    MaxTickets,   \* BOUND: tickets ever issued
    MaxInflight,  \* MAX_INFLIGHT_CALLS
    Ops           \* the operations that threads of this instance perform

AllOps == {"open", "commit", "cancel", "close", "reap", "load",
           "dispose_plugin", "dispose_instance", "acquire", "fault"}

ASSUME SizeAssumption ==
    /\ MaxInst \in Nat
    /\ MaxTickets \in Nat
    /\ MaxInflight \in Nat \ {0}
ASSUME NoLogicalAssumption == NoLogical \notin Logical
ASSUME ThreadAssumption == IsFiniteSet(Thread) /\ Thread # {}
ASSUME OpsAssumption == Ops \subseteq AllOps

VARIABLES
    st,        \* contexts: state of every instance ("none" before creation)
    cause,     \* contexts: why an instance is parked in CleanupPending
    lg,        \* contexts: the logical id of every instance
    cur,       \* contexts: current_by_logical (0 when there is none)
    made,      \* contexts: instances created so far (ids are 1..made)
    defs,      \* definitions: logical ids whose manifest is installed
    pInst,     \* plugins: instance_id of the entry of a logical id (0: no entry)
    pSt,       \* plugins: state of that entry
    cap,       \* registry: instance that publishes the capability of a logical id
    held,      \* resources: <<instance, thread>> for each Active definition handle
    stuck,     \* resources: instances with an Active resource that refuses release
    cleaned,   \* instances whose resources release_context_resources has released
    claims,    \* calls: cleanup_claims
    tst,       \* calls: state of every ticket ("unissued", then a state, then "removed")
    tin,       \* calls: the instance that a ticket is bound to
    tpol,      \* calls: withdraw policy of a ticket
    armed,     \* calls: tickets whose drain_until is set
    due,       \* tickets whose drain_until has passed
    eff,       \* calls: effects recorded for a ticket, up to 2
    issued,    \* calls: tickets issued so far (ids are 1..issued)
    unloaded,  \* journal: plugin.unloaded entries of an instance, up to 2
    pc,        \* threads: the next critical section
    at,        \* threads: the instance the operation is about (0: none)
    tk,        \* threads: the ticket the operation is about (0: none)
    lo,        \* threads: the logical id the operation is about
    dl,        \* threads: tickets whose drain deadline the thread has read
    cand,      \* threads: what the current reconcile pass still has to activate
    then       \* threads: what follows dispose_instance_inner

ctxVars == <<st, cause, lg, cur, made>>
plugVars == <<defs, pInst, pSt>>
resVars == <<cap, held, stuck, cleaned, claims>>
callVars == <<tst, tin, tpol, armed, due, eff, issued>>
localVars == <<at, tk, lo, dl, cand, then>>
vars == <<ctxVars, plugVars, resVars, callVars, unloaded, pc, localVars>>

Inst == 1..MaxInst
Ticket == 1..MaxTickets
CtxState == {"none", "Waiting", "Active", "Quiescing", "CleanupPending",
             "Disposed", "Failed"}
TicketState == {"Admitted", "Committed", "Cancelled", "Expired"}
Policy == {"cancel", "drain"}
PC == {"idle",
       "open_admit", "open_alloc", "open_revalidate", "open_settle",
       "commit_check", "commit_push", "commit_set",
       "fin_read", "fin_pending", "fin_claim", "fin_release", "fin_mark",
       "refresh_read", "refresh_mark",
       "disp_claim", "disp_revoke", "disp_tickets", "disp_wait", "disp_expire",
       "disp_pending", "disp_park", "disp_recheck", "disp_release", "disp_mark",
       "load_current", "load_substitute",
       "rec_snapshot", "rec_next", "create_acquire", "create_plugin",
       "promote_acquire", "promote_plugin", "promote_mark",
       "fault_context"}

----------------------------------------------------------------------------
(* Reading the tables.                                                      *)

\* A ticket that is in the table.
Live(t) == tst[t] \in TicketState

\* CallsTable::pending_for / pending_count.
Pending(i) == {t \in Ticket : Live(t) /\ tin[t] = i}

\* CallsTable::inflight_count.
InFlight == {t \in Ticket : Live(t)}

\* ContextTable::require_active: Active and the current instance of its logical id.
RequireActive(i) == i # 0 /\ st[i] = "Active" /\ cur[lg[i]] = i

\* Kernel::admission_record: the capability of l resolves to an active, current
\* instance and the plugin entry is Active.
Admits(l) == RequireActive(cap[l]) /\ pSt[l] = "Active"

\* State of the current instance of l, as contexts.current sees it.
CurState(l) == IF cur[l] = 0 THEN "none" ELSE st[cur[l]]

Saturate(n) == IF n < 2 THEN n + 1 ELSE 2

----------------------------------------------------------------------------
(* Control of a thread.                                                     *)

Goto(th, p) == pc' = [pc EXCEPT ![th] = p]

\* Starts an operation on instance i, ticket t and logical id l.
Enter(th, p, i, t, l) ==
    /\ Goto(th, p)
    /\ at' = [at EXCEPT ![th] = i]
    /\ tk' = [tk EXCEPT ![th] = t]
    /\ lo' = [lo EXCEPT ![th] = l]

\* Forgets what the operation has read and continues at p.
Resume(th, p, l) ==
    /\ Enter(th, p, 0, 0, l)
    /\ dl' = [dl EXCEPT ![th] = {}]
    /\ cand' = [cand EXCEPT ![th] = {}]
    /\ then' = [then EXCEPT ![th] = "none"]

\* The operation returns to its caller.
Return(th) == Resume(th, "idle", NoLogical)

\* maybe_finalize, dispose_instance_inner or reconcile returns: into the operation
\* that disposed the instance if that is what called it, else to the caller.
Leave(th) ==
    \/ then[th] = "none" /\ Resume(th, "idle", NoLogical)
    \/ then[th] = "dispose" /\ Resume(th, "rec_snapshot", NoLogical)
    \/ then[th] = "load" /\ Resume(th, "load_current", lo[th])

----------------------------------------------------------------------------
(* call_open and call_open_ephemeral.                                       *)

\* Defect for mutation: the limit is off by one.
OpenStartOffByOne(th) ==
    /\ "open" \in Ops
    /\ pc[th] = "idle"
    /\ issued < MaxTickets
    /\ Cardinality(InFlight) <= MaxInflight
    /\ Goto(th, "open_admit")
    /\ UNCHANGED <<ctxVars, plugVars, resVars, callVars, unloaded, localVars>>

OpenStart(th) ==
    /\ "open" \in Ops
    /\ pc[th] = "idle"
    /\ issued < MaxTickets
    /\ Cardinality(InFlight) < MaxInflight
    /\ Goto(th, "open_admit")
    /\ UNCHANGED <<ctxVars, plugVars, resVars, callVars, unloaded, localVars>>

OpenAdmit(th) ==
    /\ pc[th] = "open_admit"
    /\ \E l \in Logical :
        \/ /\ Admits(l)
           /\ Enter(th, "open_alloc", cap[l], 0, l)
           /\ UNCHANGED <<dl, cand, then>>
        \/ /\ ~Admits(l)
           /\ Return(th)
    /\ UNCHANGED <<ctxVars, plugVars, resVars, callVars, unloaded>>


\* A thread for which MaxTickets leaves no ticket gives up here (BOUND).
OpenAlloc(th) ==
    /\ pc[th] = "open_alloc"
    /\ IF issued < MaxTickets
       THEN /\ \E p \in Policy :
                /\ tst' = [tst EXCEPT ![issued + 1] = "Admitted"]
                /\ tin' = [tin EXCEPT ![issued + 1] = at[th]]
                /\ tpol' = [tpol EXCEPT ![issued + 1] = p]
            /\ issued' = issued + 1
            /\ Enter(th, "open_revalidate", at[th], issued + 1, lo[th])
            /\ UNCHANGED <<armed, due, eff, dl, cand, then>>
       ELSE Return(th) /\ UNCHANGED callVars
    /\ UNCHANGED <<ctxVars, plugVars, resVars, unloaded>>

\* Defect for mutation: the ticket is handed out without the revalidation.
OpenHandsOut(th) ==
    /\ pc[th] = "open_revalidate"
    /\ Return(th)
    /\ UNCHANGED <<ctxVars, plugVars, resVars, callVars, unloaded>>

OpenRevalidate(th) ==
    /\ pc[th] = "open_revalidate"
    /\ IF Admits(lo[th]) /\ cap[lo[th]] = at[th]
       THEN Return(th)
       ELSE Goto(th, "open_settle") /\ UNCHANGED localVars
    /\ UNCHANGED <<ctxVars, plugVars, resVars, callVars, unloaded>>

----------------------------------------------------------------------------
(* call_close, call_reap, call_cancel and settle_ticket.                    *)

\* CallsTable::remove.
Remove(t) ==
    /\ tst' = [tst EXCEPT ![t] = "removed"]
    /\ tpol' = [tpol EXCEPT ![t] = "cancel"]
    /\ armed' = armed \ {t}
    /\ UNCHANGED <<tin, due, eff, issued>>

\* settle_ticket: the ticket leaves the table and its owner is re-evaluated.
OpenSettle(th) ==
    /\ pc[th] = "open_settle"
    /\ IF Live(tk[th])
       THEN Remove(tk[th]) /\ Enter(th, "fin_read", at[th], 0, NoLogical)
            /\ UNCHANGED <<dl, cand, then>>
       ELSE Return(th) /\ UNCHANGED callVars
    /\ UNCHANGED <<ctxVars, plugVars, resVars, unloaded>>

CallClose(th, t) ==
    /\ "close" \in Ops
    /\ pc[th] = "idle"
    /\ Live(t)
    /\ Remove(t)
    /\ Enter(th, "fin_read", tin[t], 0, NoLogical)
    /\ UNCHANGED <<ctxVars, plugVars, resVars, unloaded, dl, cand, then>>

CallReap(th, t) ==
    /\ "reap" \in Ops
    /\ pc[th] = "idle"
    /\ Live(t)
    /\ tst[t] # "Admitted"
    /\ Remove(t)
    /\ Enter(th, "fin_read", tin[t], 0, NoLogical)
    /\ UNCHANGED <<ctxVars, plugVars, resVars, unloaded, dl, cand, then>>

CallCancel(th, t) ==
    /\ "cancel" \in Ops
    /\ pc[th] = "idle"
    /\ tst[t] = "Admitted"
    /\ tst' = [tst EXCEPT ![t] = "Cancelled"]
    /\ UNCHANGED <<ctxVars, plugVars, resVars, tin, tpol, armed, due, eff, issued,
                   unloaded, pc, localVars>>

----------------------------------------------------------------------------
(* commit_effect: reads the ticket, validates its owner, pushes the effect  *)
(* and marks the ticket, in four critical sections.                         *)

CommitRead(th, t) ==
    /\ "commit" \in Ops
    /\ pc[th] = "idle"
    /\ tst[t] = "Admitted"
    /\ Enter(th, "commit_check", tin[t], t, NoLogical)
    /\ dl' = [dl EXCEPT ![th] = IF tpol[t] = "drain" THEN {t} \cap armed ELSE {}]
    /\ UNCHANGED <<ctxVars, plugVars, resVars, callVars, unloaded, cand, then>>

\* Whether the owner still lets ticket t commit: it is Active, or it is Quiescing
\* and the thread read a drain ticket whose deadline has not passed.
OwnerAllows(th, i, t) ==
    /\ cur[lg[i]] = i
    /\ \/ st[i] = "Active"
       \/ st[i] = "Quiescing" /\ t \in dl[th] \ due

CommitCheck(th) ==
    /\ pc[th] = "commit_check"
    /\ IF OwnerAllows(th, at[th], tk[th])
       THEN Goto(th, "commit_push") /\ UNCHANGED localVars
       ELSE Return(th)
    /\ UNCHANGED <<ctxVars, plugVars, resVars, callVars, unloaded>>

CommitPush(th) ==
    /\ pc[th] = "commit_push"
    /\ eff' = [eff EXCEPT ![tk[th]] = Saturate(@)]
    /\ Goto(th, "commit_set")
    /\ UNCHANGED <<ctxVars, plugVars, resVars, tst, tin, tpol, armed, due, issued,
                   unloaded, localVars>>

\* CallsTable::set_state overwrites whatever state the ticket has by now.
CommitSet(th) ==
    /\ pc[th] = "commit_set"
    /\ tst' = IF Live(tk[th]) THEN [tst EXCEPT ![tk[th]] = "Committed"] ELSE tst
    /\ Return(th)
    /\ UNCHANGED <<ctxVars, plugVars, resVars, tin, tpol, armed, due, eff, issued,
                   unloaded>>

\* The clock reaches the drain_until of a ticket.
DeadlinePasses(t) ==
    /\ t \in armed \ due
    /\ due' = due \cup {t}
    /\ UNCHANGED <<ctxVars, plugVars, resVars, tst, tin, tpol, armed, eff, issued,
                   unloaded, pc, localVars>>

----------------------------------------------------------------------------
(* maybe_finalize, refresh_cleanup_cause and release_context_resources.     *)

\* Registry::revoke_cap_if_owned.
RevokeIfOwned(i) == [l \in Logical |-> IF cap[l] = i THEN 0 ELSE cap[l]]

\* release_context_resources: every Active handle of i is released, except the
\* resource that refuses.
ReleaseContextResources(i) ==
    /\ held' = {h \in held : h[1] # i}
    /\ cap' = RevokeIfOwned(i)
    /\ cleaned' = cleaned \cup {i}
    /\ UNCHANGED stuck

\* Writes state s to the plugin entry of i unless a newer instance owns it.
MirrorPlugin(i, s) ==
    /\ pSt' = [l \in Logical |-> IF pInst[l] = i THEN s ELSE pSt[l]]
    /\ UNCHANGED <<defs, pInst>>

\* ContextTable::mark_cleanup_pending, whatever the state is by now.
MarkCleanupPending(i, why) ==
    /\ st' = [st EXCEPT ![i] = "CleanupPending"]
    /\ cause' = [cause EXCEPT ![i] = why]
    /\ UNCHANGED <<lg, cur, made>>

\* ContextTable::mark_disposed and the plugin.unloaded journal entry.
MarkDisposed(i) ==
    /\ st' = [st EXCEPT ![i] = "Disposed"]
    /\ cause' = [cause EXCEPT ![i] = "none"]
    /\ unloaded' = [unloaded EXCEPT ![i] = Saturate(@)]
    /\ UNCHANGED <<lg, cur, made>>

FinRead(th) ==
    /\ pc[th] = "fin_read"
    /\ IF st[at[th]] = "CleanupPending"
       THEN Goto(th, "fin_pending") /\ UNCHANGED localVars
       ELSE Leave(th)
    /\ UNCHANGED <<ctxVars, plugVars, resVars, callVars, unloaded>>

\* Defect for mutation: a close takes its own ticket for the last one.
FinAssumesLast(th) ==
    /\ pc[th] = "fin_pending"
    /\ Goto(th, "fin_claim")
    /\ UNCHANGED <<ctxVars, plugVars, resVars, callVars, unloaded, localVars>>

FinPending(th) ==
    /\ pc[th] = "fin_pending"
    /\ Goto(th, IF Pending(at[th]) = {} THEN "fin_claim" ELSE "refresh_read")
    /\ UNCHANGED <<ctxVars, plugVars, resVars, callVars, unloaded, localVars>>

RefreshRead(th) ==
    /\ pc[th] = "refresh_read"
    /\ IF st[at[th]] = "CleanupPending" /\ cause[at[th]] = "inflight"
       THEN Goto(th, "refresh_mark") /\ UNCHANGED localVars
       ELSE Leave(th)
    /\ UNCHANGED <<ctxVars, plugVars, resVars, callVars, unloaded>>

RefreshMark(th) ==
    /\ pc[th] = "refresh_mark"
    /\ MarkCleanupPending(at[th], "inflight")
    /\ Leave(th)
    /\ UNCHANGED <<plugVars, resVars, callVars, unloaded>>

\* Defect for mutation: the cleanup claim is tested and not taken.
FinClaimNotTaken(th) ==
    /\ pc[th] = "fin_claim"
    /\ IF at[th] \in claims
       THEN Leave(th)
       ELSE Goto(th, "fin_release") /\ UNCHANGED localVars
    /\ UNCHANGED <<ctxVars, plugVars, resVars, callVars, unloaded>>

FinClaim(th) ==
    /\ pc[th] = "fin_claim"
    /\ IF at[th] \in claims
       THEN Leave(th) /\ UNCHANGED claims
       ELSE /\ claims' = claims \cup {at[th]}
            /\ Goto(th, "fin_release")
            /\ UNCHANGED localVars
    /\ UNCHANGED <<ctxVars, plugVars, cap, held, stuck, cleaned, callVars, unloaded>>

FinRelease(th) ==
    /\ pc[th] = "fin_release"
    /\ ReleaseContextResources(at[th])
    /\ Goto(th, "fin_mark")
    /\ UNCHANGED <<ctxVars, plugVars, claims, callVars, unloaded, localVars>>

\* A clean release ends in Disposed and in a reconcile; a refused one stays
\* parked with the failure as its cause.
FinMark(th) ==
    /\ pc[th] = "fin_mark"
    /\ claims' = claims \ {at[th]}
    /\ IF at[th] \in stuck
       THEN /\ MarkCleanupPending(at[th], "resource")
            /\ Leave(th)
            /\ UNCHANGED <<plugVars, unloaded>>
       ELSE /\ MarkDisposed(at[th])
            /\ MirrorPlugin(at[th], "Disposed")
            /\ Goto(th, "rec_snapshot")
            /\ UNCHANGED localVars
    /\ UNCHANGED <<cap, held, stuck, cleaned, callVars>>

----------------------------------------------------------------------------
(* dispose_plugin, dispose_instance, load_manifest: the entry points of     *)
(* dispose_instance_inner.                                                  *)

DisposeInstance(th, i) ==
    /\ "dispose_instance" \in Ops
    /\ pc[th] = "idle"
    /\ i \in 1..made
    /\ Enter(th, "disp_claim", i, 0, NoLogical)
    /\ then' = [then EXCEPT ![th] = "dispose"]
    /\ UNCHANGED <<ctxVars, plugVars, resVars, callVars, unloaded, dl, cand>>

DisposePlugin(th, l) ==
    /\ "dispose_plugin" \in Ops
    /\ pc[th] = "idle"
    /\ defs' = defs \ {l}
    /\ Enter(th, IF cur[l] = 0 THEN "rec_snapshot" ELSE "disp_claim", cur[l], 0,
             NoLogical)
    /\ then' = [then EXCEPT ![th] = IF cur[l] = 0 THEN "none" ELSE "dispose"]
    /\ UNCHANGED <<ctxVars, pInst, pSt, resVars, callVars, unloaded, dl, cand>>

LoadManifest(th, l) ==
    /\ "load" \in Ops
    /\ pc[th] = "idle"
    /\ defs' = defs \cup {l}
    /\ LET settled == CurState(l) \in {"none", "Disposed", "Failed", "CleanupPending"}
       IN /\ Enter(th, IF settled THEN "load_current" ELSE "disp_claim",
                   IF settled THEN 0 ELSE cur[l], 0, l)
          /\ then' = [then EXCEPT ![th] = IF settled THEN "none" ELSE "load"]
    /\ UNCHANGED <<ctxVars, pInst, pSt, resVars, callVars, unloaded, dl, cand>>

\* load_manifest after the withdraw: a parked current instance gets a substitute.
LoadCurrent(th) ==
    /\ pc[th] = "load_current"
    /\ IF CurState(lo[th]) = "CleanupPending" /\ lo[th] \in defs
       THEN Goto(th, "load_substitute") /\ UNCHANGED localVars
       ELSE Enter(th, "rec_snapshot", 0, 0, NoLogical) /\ UNCHANGED <<dl, cand, then>>
    /\ UNCHANGED <<ctxVars, plugVars, resVars, callVars, unloaded>>

\* ContextTable::create_in: a fresh instance becomes the current one.
Create(l, s) ==
    /\ made' = made + 1
    /\ st' = [st EXCEPT ![made + 1] = s]
    /\ lg' = [lg EXCEPT ![made + 1] = l]
    /\ cur' = [cur EXCEPT ![l] = made + 1]
    /\ UNCHANGED cause

\* create_waiting_instance; when MaxInst is reached nothing is created (BOUND).
LoadSubstitute(th) ==
    /\ pc[th] = "load_substitute"
    /\ IF made < MaxInst
       THEN /\ Create(lo[th], "Waiting")
            /\ pInst' = [pInst EXCEPT ![lo[th]] = made + 1]
            /\ pSt' = [pSt EXCEPT ![lo[th]] = "Waiting"]
       ELSE UNCHANGED <<ctxVars, pInst, pSt>>
    /\ Enter(th, "rec_snapshot", 0, 0, NoLogical)
    /\ UNCHANGED <<defs, resVars, callVars, unloaded, dl, cand, then>>

----------------------------------------------------------------------------
(* dispose_instance_inner.                                                  *)

\* Defect for mutation: an instance that is being withdrawn can be claimed again.
DispClaimAgain(th) ==
    /\ pc[th] = "disp_claim"
    /\ IF st[at[th]] \in {"Active", "Waiting", "Quiescing"}
       THEN /\ st' = [st EXCEPT ![at[th]] = "Quiescing"]
            /\ cause' = [cause EXCEPT ![at[th]] = "none"]
            /\ Goto(th, "disp_revoke")
            /\ UNCHANGED <<lg, cur, made, localVars>>
       ELSE Leave(th) /\ UNCHANGED ctxVars
    /\ UNCHANGED <<plugVars, resVars, callVars, unloaded>>

\* ContextTable::claim_dispose: one caller moves the instance to Quiescing,
\* every other one returns.
DispClaim(th) ==
    /\ pc[th] = "disp_claim"
    /\ IF st[at[th]] \in {"Active", "Waiting"}
       THEN /\ st' = [st EXCEPT ![at[th]] = "Quiescing"]
            /\ cause' = [cause EXCEPT ![at[th]] = "none"]
            /\ Goto(th, "disp_revoke")
            /\ UNCHANGED <<lg, cur, made, localVars>>
       ELSE Leave(th) /\ UNCHANGED ctxVars
    /\ UNCHANGED <<plugVars, resVars, callVars, unloaded>>

\* The plugin entry and the publications of the instance; its handles stay.
DispRevoke(th) ==
    /\ pc[th] = "disp_revoke"
    /\ MirrorPlugin(at[th], "Quiescing")
    /\ cap' = RevokeIfOwned(at[th])
    /\ Goto(th, "disp_tickets")
    /\ UNCHANGED <<ctxVars, held, stuck, cleaned, claims, callVars, unloaded, localVars>>

\* Cancels the pending tickets of policy cancel, sets the deadline of the others.
DispTickets(th) ==
    /\ pc[th] = "disp_tickets"
    /\ LET drained == {t \in Pending(at[th]) : tpol[t] = "drain"}
           revoked == {t \in Pending(at[th]) : tpol[t] = "cancel" /\ tst[t] = "Admitted"}
       IN /\ tst' = [t \in Ticket |-> IF t \in revoked THEN "Cancelled" ELSE tst[t]]
          /\ armed' = armed \cup {t \in drained : tst[t] = "Admitted"}
          /\ dl' = [dl EXCEPT ![th] = drained]
    /\ Goto(th, "disp_wait")
    /\ UNCHANGED <<ctxVars, plugVars, resVars, tin, tpol, due, eff, issued, unloaded,
                   at, tk, lo, cand, then>>

\* Defect for mutation: the wait has no deadline.
DispWaitForever(th) ==
    /\ pc[th] = "disp_wait"
    /\ Pending(at[th]) = {}
    /\ Goto(th, "disp_expire")
    /\ dl' = [dl EXCEPT ![th] = {}]
    /\ UNCHANGED <<ctxVars, plugVars, resVars, callVars, unloaded, at, tk, lo, cand, then>>

\* CallsTable::wait_settled: until no ticket is pending or the last deadline.  The
\* deadline of a drained ticket that was no longer Admitted passes too.
DispWait(th) ==
    /\ pc[th] = "disp_wait"
    /\ \/ Pending(at[th]) = {}
       \/ dl[th] \cap armed \subseteq due
    /\ Goto(th, "disp_expire")
    /\ dl' = [dl EXCEPT ![th] = {}]
    /\ UNCHANGED <<ctxVars, plugVars, resVars, callVars, unloaded, at, tk, lo, cand, then>>

\* Defect for mutation: overdue drains are left alone.
DispExpireSkipped(th) ==
    /\ pc[th] = "disp_expire"
    /\ Goto(th, "disp_pending")
    /\ UNCHANGED <<ctxVars, plugVars, resVars, callVars, unloaded, localVars>>

\* CallsTable::expire_overdue looks at every ticket of the kernel.
DispExpire(th) ==
    /\ pc[th] = "disp_expire"
    /\ tst' = [t \in Ticket |-> IF tst[t] = "Admitted" /\ t \in armed \cap due
                                THEN "Expired" ELSE tst[t]]
    /\ Goto(th, "disp_pending")
    /\ UNCHANGED <<ctxVars, plugVars, resVars, tin, tpol, armed, due, eff, issued,
                   unloaded, localVars>>

\* Defect for mutation: a cancelled or expired ticket counts as settled.
DispPendingAdmitted(th) ==
    /\ pc[th] = "disp_pending"
    /\ Goto(th, IF \E t \in Pending(at[th]) : tst[t] = "Admitted"
                THEN "disp_park" ELSE "disp_release")
    /\ UNCHANGED <<ctxVars, plugVars, resVars, callVars, unloaded, localVars>>

DispPending(th) ==
    /\ pc[th] = "disp_pending"
    /\ Goto(th, IF Pending(at[th]) = {} THEN "disp_release" ELSE "disp_park")
    /\ UNCHANGED <<ctxVars, plugVars, resVars, callVars, unloaded, localVars>>

DispPark(th) ==
    /\ pc[th] = "disp_park"
    /\ MarkCleanupPending(at[th], "inflight")
    /\ MirrorPlugin(at[th], "CleanupPending")
    /\ Goto(th, "disp_recheck")
    /\ UNCHANGED <<resVars, callVars, unloaded, localVars>>

\* "A close landed between check and mark: finalizes now."
DispRecheck(th) ==
    /\ pc[th] = "disp_recheck"
    /\ IF Pending(at[th]) = {}
       THEN Goto(th, "fin_read") /\ UNCHANGED localVars
       ELSE Leave(th)
    /\ UNCHANGED <<ctxVars, plugVars, resVars, callVars, unloaded>>

DispRelease(th) ==
    /\ pc[th] = "disp_release"
    /\ ReleaseContextResources(at[th])
    /\ Goto(th, "disp_mark")
    /\ UNCHANGED <<ctxVars, plugVars, claims, callVars, unloaded, localVars>>

DispMark(th) ==
    /\ pc[th] = "disp_mark"
    /\ IF at[th] \in stuck
       THEN /\ MarkCleanupPending(at[th], "resource")
            /\ MirrorPlugin(at[th], "CleanupPending")
            /\ UNCHANGED unloaded
       ELSE /\ MarkDisposed(at[th])
            /\ MirrorPlugin(at[th], "Disposed")
    /\ Leave(th)
    /\ UNCHANGED <<resVars, callVars>>

----------------------------------------------------------------------------
(* reconcile: activates installed definitions from a snapshot of contexts.  *)

\* One reconcile_step decides from this snapshot; definitions have no
\* requirements here, so it only activates.  Creations stop at MaxInst (BOUND).
RecSnapshot(th) ==
    /\ pc[th] = "rec_snapshot"
    /\ LET create == {l \in defs : CurState(l) \in {"none", "Disposed"} /\ made < MaxInst}
           promote == {l \in defs : CurState(l) = "Waiting"}
           todo == (create \X {"create"}) \cup (promote \X {"promote"})
       IN IF todo = {}
          THEN Leave(th)
          ELSE /\ cand' = [cand EXCEPT ![th] = todo]
               /\ Goto(th, "rec_next")
               /\ UNCHANGED <<at, tk, lo, dl, then>>
    /\ UNCHANGED <<ctxVars, plugVars, resVars, callVars, unloaded>>

\* The pass is over when an activation succeeded (next snapshot) or nothing is left.
\* The logical id and what follows the reconcile are those of the operation, so lo
\* and then stay.
RecCreate(th, l) ==
    /\ pc[th] = "rec_next"
    /\ <<l, "create">> \in cand[th]
    /\ made < MaxInst
    /\ Create(l, "Active")
    /\ Goto(th, "create_acquire")
    /\ at' = [at EXCEPT ![th] = made + 1]
    /\ cand' = [cand EXCEPT ![th] = {}]
    /\ UNCHANGED <<plugVars, resVars, callVars, unloaded, tk, lo, dl, then>>

\* Defect for mutation: a plugin that is no longer waiting stays on the list.
RecPromoteAgain(th, l) ==
    /\ pc[th] = "rec_next"
    /\ <<l, "promote">> \in cand[th]
    /\ IF CurState(l) = "Waiting" /\ l \in defs
       THEN /\ Goto(th, "promote_acquire") /\ at' = [at EXCEPT ![th] = cur[l]]
            /\ cand' = [cand EXCEPT ![th] = @ \ {<<l, "promote">>}]
       ELSE UNCHANGED <<pc, at, cand>>
    /\ UNCHANGED <<ctxVars, plugVars, resVars, callVars, unloaded, tk, lo, dl, then>>

\* promote_waiting rereads the current instance and the definition first.
RecPromote(th, l) ==
    /\ pc[th] = "rec_next"
    /\ <<l, "promote">> \in cand[th]
    /\ cand' = [cand EXCEPT ![th] = @ \ {<<l, "promote">>}]
    /\ IF CurState(l) = "Waiting" /\ l \in defs
       THEN Goto(th, "promote_acquire") /\ at' = [at EXCEPT ![th] = cur[l]]
       ELSE UNCHANGED <<pc, at>>
    /\ UNCHANGED <<ctxVars, plugVars, resVars, callVars, unloaded, tk, lo, dl, then>>

\* Nothing left of the pass: the step reports no change and reconcile ends.
RecDone(th) ==
    /\ pc[th] = "rec_next"
    /\ \A c \in cand[th] : c[2] = "create" /\ made = MaxInst
    /\ Leave(th)
    /\ UNCHANGED <<ctxVars, plugVars, resVars, callVars, unloaded>>

\* acquire_definition_resources: the handle is registered, then published.
Acquire(th, i) ==
    /\ held' = held \cup {<<i, th>>}
    /\ cap' = [cap EXCEPT ![lg[i]] = i]
    /\ UNCHANGED <<stuck, cleaned, claims>>

CreateAcquire(th) ==
    /\ pc[th] = "create_acquire"
    /\ Acquire(th, at[th])
    /\ Goto(th, "create_plugin")
    /\ UNCHANGED <<ctxVars, plugVars, callVars, unloaded, localVars>>

CreatePlugin(th) ==
    /\ pc[th] = "create_plugin"
    /\ pInst' = [pInst EXCEPT ![lg[at[th]]] = at[th]]
    /\ pSt' = [pSt EXCEPT ![lg[at[th]]] = "Active"]
    /\ Goto(th, "rec_snapshot")
    /\ at' = [at EXCEPT ![th] = 0]
    /\ UNCHANGED <<ctxVars, defs, resVars, callVars, unloaded, tk, lo, dl, cand, then>>

PromoteAcquire(th) ==
    /\ pc[th] = "promote_acquire"
    /\ Acquire(th, at[th])
    /\ Goto(th, "promote_plugin")
    /\ UNCHANGED <<ctxVars, plugVars, callVars, unloaded, localVars>>

\* Superseded during acquisition: the thread rolls its own handle back.
PromotePlugin(th) ==
    /\ pc[th] = "promote_plugin"
    /\ IF pInst[lg[at[th]]] = at[th]
       THEN /\ pSt' = [pSt EXCEPT ![lg[at[th]]] = "Active"]
            /\ Goto(th, "promote_mark")
            /\ UNCHANGED <<resVars, localVars>>
       ELSE /\ held' = held \ {<<at[th], th>>}
            /\ cap' = IF <<at[th], th>> \in held THEN RevokeIfOwned(at[th]) ELSE cap
            /\ Goto(th, "rec_next")
            /\ at' = [at EXCEPT ![th] = 0]
            /\ UNCHANGED <<pSt, stuck, cleaned, claims, tk, lo, dl, cand, then>>
    /\ UNCHANGED <<ctxVars, defs, pInst, callVars, unloaded>>

\* ContextTable::mark_active refuses an instance that is no longer waiting; the
\* acquired handle stays.
PromoteMark(th) ==
    /\ pc[th] = "promote_mark"
    /\ IF st[at[th]] \in {"Waiting", "Active"}
       THEN /\ st' = [st EXCEPT ![at[th]] = "Active"]
            /\ cause' = [cause EXCEPT ![at[th]] = "none"]
            /\ Goto(th, "rec_snapshot")
            /\ cand' = [cand EXCEPT ![th] = {}]
       ELSE Goto(th, "rec_next") /\ UNCHANGED <<st, cause, cand>>
    /\ at' = [at EXCEPT ![th] = 0]
    /\ UNCHANGED <<lg, cur, made, plugVars, resVars, callVars, unloaded, tk, lo, dl, then>>

----------------------------------------------------------------------------
(* acquire of a resource that refuses release, and fault.                   *)

\* Kernel::acquire with ResourceKind::FailRelease, as one step.
AcquireStuck(th, l) ==
    /\ "acquire" \in Ops
    /\ pc[th] = "idle"
    /\ RequireActive(cur[l])
    /\ stuck' = stuck \cup {cur[l]}
    /\ UNCHANGED <<ctxVars, plugVars, cap, held, cleaned, claims, callVars, unloaded,
                   pc, localVars>>

\* Kernel::fault over its budget: the plugin entry fails, then the current context.
Fault(th, l) ==
    /\ "fault" \in Ops
    /\ pc[th] = "idle"
    /\ pInst[l] # 0
    /\ pSt' = [pSt EXCEPT ![l] = "Failed"]
    /\ Enter(th, "fault_context", 0, 0, l)
    /\ UNCHANGED <<ctxVars, defs, pInst, resVars, callVars, unloaded, dl, cand, then>>

FaultContext(th) ==
    /\ pc[th] = "fault_context"
    /\ st' = [st EXCEPT ![cur[lo[th]]] = "Failed"]
    /\ cause' = [cause EXCEPT ![cur[lo[th]]] = "fault"]
    /\ pSt' = [pSt EXCEPT ![lo[th]] = "Failed"]
    /\ Return(th)
    /\ UNCHANGED <<lg, cur, made, defs, pInst, resVars, callVars, unloaded>>

----------------------------------------------------------------------------
Init ==
    /\ st = [i \in Inst |-> "none"]
    /\ cause = [i \in Inst |-> "none"]
    /\ lg = [i \in Inst |-> NoLogical]
    /\ cur = [l \in Logical |-> 0]
    /\ made = 0
    /\ defs = {}
    /\ pInst = [l \in Logical |-> 0]
    /\ pSt = [l \in Logical |-> "none"]
    /\ cap = [l \in Logical |-> 0]
    /\ held = {} /\ stuck = {} /\ cleaned = {} /\ claims = {}
    /\ tst = [t \in Ticket |-> "unissued"]
    /\ tin = [t \in Ticket |-> 0]
    /\ tpol = [t \in Ticket |-> "cancel"]
    /\ armed = {} /\ due = {}
    /\ eff = [t \in Ticket |-> 0]
    /\ issued = 0
    /\ unloaded = [i \in Inst |-> 0]
    /\ pc = [th \in Thread |-> "idle"]
    /\ at = [th \in Thread |-> 0]
    /\ tk = [th \in Thread |-> 0]
    /\ lo = [th \in Thread |-> NoLogical]
    /\ dl = [th \in Thread |-> {}]
    /\ cand = [th \in Thread |-> {}]
    /\ then = [th \in Thread |-> "none"]

\* A thread takes up an operation.
Start(th) ==
    \/ OpenStart(th)
    \/ \E t \in Ticket : \/ CommitRead(th, t) \/ CallCancel(th, t)
                         \/ CallClose(th, t) \/ CallReap(th, t)
    \/ \E i \in Inst : DisposeInstance(th, i)
    \/ \E l \in Logical : \/ LoadManifest(th, l) \/ DisposePlugin(th, l)
                          \/ AcquireStuck(th, l) \/ Fault(th, l)

\* A thread continues the operation it is in.
Step(th) ==
    \/ OpenAdmit(th) \/ OpenAlloc(th) \/ OpenRevalidate(th) \/ OpenSettle(th)
    \/ CommitCheck(th) \/ CommitPush(th) \/ CommitSet(th)
    \/ FinRead(th) \/ FinPending(th) \/ FinClaim(th) \/ FinRelease(th) \/ FinMark(th)
    \/ RefreshRead(th) \/ RefreshMark(th)
    \/ DispClaim(th) \/ DispRevoke(th) \/ DispTickets(th) \/ DispWait(th)
    \/ DispExpire(th) \/ DispPending(th) \/ DispPark(th) \/ DispRecheck(th)
    \/ DispRelease(th) \/ DispMark(th)
    \/ LoadCurrent(th) \/ LoadSubstitute(th)
    \/ RecSnapshot(th) \/ RecDone(th)
    \/ \E l \in Logical : RecCreate(th, l) \/ RecPromote(th, l)
    \/ CreateAcquire(th) \/ CreatePlugin(th)
    \/ PromoteAcquire(th) \/ PromotePlugin(th) \/ PromoteMark(th)
    \/ FaultContext(th)

Next ==
    \/ \E th \in Thread : Start(th) \/ Step(th)
    \/ \E t \in Ticket : DeadlinePasses(t)

Spec == Init /\ [][Next]_vars

\* A thread inside an operation keeps running and time advances; nothing makes a
\* client start an operation.
FairSpec ==
    /\ Spec
    /\ \A th \in Thread : WF_vars(Step(th))
    /\ \A t \in Ticket : WF_vars(DeadlinePasses(t))
----------------------------------------------------------------------------
(* Properties.                                                              *)

CtxType ==
    /\ st \in [Inst -> CtxState]
    /\ cause \in [Inst -> {"none", "inflight", "resource", "fault"}]
    /\ lg \in [Inst -> Logical \cup {NoLogical}]
    /\ cur \in [Logical -> 0..MaxInst]
    /\ made \in 0..MaxInst

PlugType ==
    /\ defs \subseteq Logical
    /\ pInst \in [Logical -> 0..MaxInst]
    /\ pSt \in [Logical -> CtxState]

ResType ==
    /\ cap \in [Logical -> 0..MaxInst]
    /\ held \subseteq Inst \X Thread
    /\ stuck \subseteq Inst
    /\ cleaned \subseteq Inst
    /\ claims \subseteq Inst

CallType ==
    /\ tst \in [Ticket -> TicketState \cup {"unissued", "removed"}]
    /\ tin \in [Ticket -> 0..MaxInst]
    /\ tpol \in [Ticket -> Policy]
    /\ armed \subseteq Ticket
    /\ due \subseteq Ticket
    /\ eff \in [Ticket -> 0..2]
    /\ issued \in 0..MaxTickets

ThreadType ==
    /\ pc \in [Thread -> PC]
    /\ at \in [Thread -> 0..MaxInst]
    /\ tk \in [Thread -> 0..MaxTickets]
    /\ lo \in [Thread -> Logical \cup {NoLogical}]
    /\ dl \in [Thread -> SUBSET Ticket]
    /\ cand \in [Thread -> SUBSET (Logical \X {"create", "promote"})]
    /\ then \in [Thread -> {"none", "dispose", "load"}]

\* The type invariant.
TypeOK ==
    /\ CtxType
    /\ PlugType
    /\ ResType
    /\ CallType
    /\ unloaded \in [Inst -> 0..2]
    /\ ThreadType

\* A ticket that its opener has not handed out yet: it is allocated, but call_open
\* has not passed (or has failed) the revalidation.
Unreturned(t) ==
    \E th \in Thread : pc[th] \in {"open_revalidate", "open_settle"} /\ tk[th] = t

\* The tickets of instance i that clients hold.
Holders(i) == {t \in Pending(i) : ~Unreturned(t)}

\* Threads that have passed the in-flight check of call_open and not allocated yet.
Openers == {th \in Thread : pc[th] \in {"open_admit", "open_alloc"}}

\* Once release_context_resources has run for an instance, no client holds a ticket
\* of that instance, although dispose counts tickets and releases in separate
\* critical sections and call_open allocates without a lock on the context.
NoEarlyRelease == \A i \in cleaned : Holders(i) = {}

\* An instance that withdrew (CleanupPending or Disposed) has left no ticket with
\* authority behind: dispose cancelled or expired each one that was handed out.
AuthorityEndsAtCleanup ==
    \A i \in Inst : st[i] \in {"CleanupPending", "Disposed"} =>
        \A t \in Holders(i) : tst[t] # "Admitted"

\* Critical sections of dispose_instance_inner after its claim.
Withdrawing == {"disp_revoke", "disp_tickets", "disp_wait", "disp_expire",
                "disp_pending", "disp_park", "disp_recheck", "disp_release", "disp_mark"}

\* claim_dispose lets one thread withdraw an instance; concurrent disposers of the
\* same instance never get past it.
SingleWithdraw ==
    \A t1, t2 \in Thread :
        /\ pc[t1] \in Withdrawing
        /\ pc[t2] \in Withdrawing
        /\ at[t1] = at[t2]
        => t1 = t2

\* The resources of an instance are released by one thread at a time, whether the
\* disposer does it or the close of a last ticket.
Releasing == {"fin_release", "fin_mark", "disp_release", "disp_mark"}
SingleRelease ==
    \A t1, t2 \in Thread :
        /\ pc[t1] \in Releasing
        /\ pc[t2] \in Releasing
        /\ at[t1] = at[t2]
        => t1 = t2

\* call_open checks the limit and allocates in different critical sections, so the
\* limit holds up to the openers that race: at most one less than the threads.
InflightOvershoot ==
    Cardinality(InFlight) + Cardinality(Openers) <= MaxInflight + Cardinality(Thread) - 1

\* A withdraw ends without the cooperation of the clients: whoever holds a ticket,
\* a Quiescing instance leaves that state, at the latest when the drains expire.
WithdrawConcludes ==
    \A i \in Inst : st[i] = "Quiescing" ~> st[i] # "Quiescing"

\* Every kernel operation returns to its caller, whatever the others do: dispose
\* waits for the drains at most, reconcile comes to an end, no thread waits on another.
OperationsReturn ==
    \A th \in Thread : pc[th] # "idle" ~> pc[th] = "idle"

----------------------------------------------------------------------------
(* The kernel implements AdmissionGate.                                     *)

PhaseOf(s) ==
    CASE s \in {"none", "Waiting"} -> "shut"
      [] s = "Active" -> "open"
      [] s = "Quiescing" -> "closing"
      [] s \in {"CleanupPending", "Disposed"} -> "withdrawn"
      [] OTHER -> "failed"

Gate == INSTANCE AdmissionGate WITH
    phase <- [i \in Inst |-> PhaseOf(st[i])],
    holders <- [i \in Inst |-> Holders(i)],
    auth <- [i \in Inst |-> {t \in Holders(i) : tst[t] = "Admitted"}],
    released <- cleaned

\* Every behaviour of the kernel's critical sections is a behaviour of the gate:
\* admission, withdrawal and release of an activation happen as if each were one
\* atomic step (I02, I07).
ImplementsGate == Gate!Spec

----------------------------------------------------------------------------
(* The inductive invariant behind NoEarlyRelease and AuthorityEndsAtCleanup. *)

\* The instance has left Active for good.
Closed(i) == st[i] \in {"Quiescing", "CleanupPending", "Disposed", "Failed"}

NoAuthority(i) == \A t \in Holders(i) : tst[t] # "Admitted"

\* A thread works on an instance, a ticket and a logical id where it must.
ThreadTyped(th) ==
    /\ pc[th] \notin {"idle", "open_admit", "load_current", "load_substitute",
                      "rec_snapshot", "rec_next", "fault_context"}
       => at[th] # 0
    /\ pc[th] \in {"open_revalidate", "open_settle"}
       => tk[th] # 0 /\ tin[tk[th]] = at[th]
    /\ pc[th] \in {"load_current", "load_substitute", "fault_context"} => lo[th] \in Logical
    /\ then[th] = "load" => lo[th] \in Logical
    /\ pc[th] \in {"idle", "open_admit", "open_alloc", "open_revalidate", "open_settle",
                   "commit_check", "commit_push", "commit_set", "load_current",
                   "load_substitute", "fault_context"}
       => then[th] = "none"
ThreadsTyped == \A th \in Thread : ThreadTyped(th)

\* No call has ever been opened on an instance that has not been Active.
NoCallsBeforeActive ==
    \A i \in Inst : st[i] \in {"none", "Waiting"} =>
        /\ \A t \in Ticket : tin[t] # i
        /\ \A th \in Thread : pc[th] = "open_alloc" => at[th] # i

TablesTyped ==
    /\ \A i \in Inst : i > made => st[i] = "none"
    /\ \A t \in Ticket : t > issued => tst[t] = "unissued" /\ tin[t] = 0
    /\ \A t \in Ticket : Live(t) => tin[t] # 0
    /\ \A l \in Logical : cur[l] <= made

\* What a thread that withdraws or finalizes an instance knows of its calls.
ThreadKnows(th) ==
    /\ pc[th] \in Withdrawing => Closed(at[th])
    /\ pc[th] = "disp_wait" =>
         \A t \in Holders(at[th]) : tst[t] = "Admitted" => t \in armed \cap dl[th]
    /\ pc[th] = "disp_expire" =>
         \A t \in Holders(at[th]) : tst[t] = "Admitted" => t \in armed \cap due
    /\ pc[th] \in {"disp_pending", "disp_park", "disp_recheck"} => NoAuthority(at[th])
    /\ pc[th] \in {"fin_pending", "refresh_read", "refresh_mark"}
       => Closed(at[th]) /\ NoAuthority(at[th])
    /\ pc[th] \in {"fin_claim", "fin_release", "fin_mark"}
       => Closed(at[th]) /\ Holders(at[th]) = {}
    /\ pc[th] \in {"disp_release", "disp_mark"} => Holders(at[th]) = {}
ThreadsKnow == \A th \in Thread : ThreadKnows(th)

CleanedIsClosed == \A i \in cleaned : Closed(i)

\* The inductive invariant of release safety.
Inv ==
    /\ TypeOK
    /\ ThreadsTyped
    /\ TablesTyped
    /\ NoCallsBeforeActive
    /\ ThreadsKnow
    /\ CleanedIsClosed
    /\ NoEarlyRelease
    /\ AuthorityEndsAtCleanup

----------------------------------------------------------------------------
(* The inductive invariant behind SingleWithdraw and SingleRelease.         *)

\* Critical sections of maybe_finalize after it has read CleanupPending.
Finalizing == {"fin_pending", "refresh_read", "refresh_mark", "fin_claim", "fin_release",
               "fin_mark"}

\* Until dispose_instance_inner has parked or disposed the instance, nothing has marked
\* it CleanupPending, so no close or reap is finalizing it.
SoleWithdrawer ==
    \A th \in Thread : pc[th] \in Withdrawing \ {"disp_recheck"} =>
        /\ st[at[th]] \in {"Quiescing", "Failed"}
        /\ \A x \in Thread : pc[x] \in Finalizing => at[x] # at[th]

\* A finalizer that releases holds the cleanup claim of its instance, alone.
ClaimHeld ==
    \A th \in Thread : pc[th] \in {"fin_release", "fin_mark"} =>
        /\ at[th] \in claims
        /\ \A x \in Thread : pc[x] \in {"fin_release", "fin_mark"} /\ at[x] = at[th] => x = th

\* The inductive invariant behind SingleRelease.
ReleaseInvariant ==
    /\ Inv
    /\ SingleWithdraw
    /\ SoleWithdrawer
    /\ ClaimHeld

----------------------------------------------------------------------------
(* Statements of the repository that interleavings refute: each is violated *)
(* by what the code does (see findings in the README).                      *)

\* context.rs:216-219 on claim_dispose: "Replaces check-then-mark (the TOCTOU that
\* used to [duplicate] `Disposed` + `plugin.unloaded`)"; kernel.rs:2867-2869:
\* "duplicating neither transition nor journal".  One plugin.unloaded per instance.
\* refresh_cleanup_cause marks CleanupPending from a state it read earlier, so it can
\* take a Disposed instance back, which is then unloaded again.
UnloadedAtMostOnce == \A i \in Inst : unloaded[i] <= 1

\* KERNEL_VERIFICATION.md:187: "commits same ticket twice. Proves
\* `already-committed`, effect applied exactly once."  commit_effect reads the
\* ticket, pushes the effect and marks the ticket in different critical sections.
EffectAtMostOnce == \A t \in Ticket : eff[t] <= 1

\* No thread is inside an operation.
Quiet == \A th \in Thread : pc[th] = "idle"

\* docs/CONTRACT.md:29 (I07): Disposed means the absence of pending managed
\* resources.  Stated only for quiet moments, when no operation is under way.
DisposedHoldsNothing ==
    Quiet => \A h \in held : st[h[1]] # "Disposed"

=============================================================================
