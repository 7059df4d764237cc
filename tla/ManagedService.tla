--------------------------- MODULE ManagedService ---------------------------
(***************************************************************************)
(* The managed runtime of one host (crates/matrix-runtime/src: service.rs, *)
(* store.rs): leases on components, fences, revocation, the durable ledger *)
(* of operations and the invocations that go through it, with restarts.    *)
(*                                                                         *)
(* The service keeps leases and revocations under one lock (state); the    *)
(* ledger, the fences and the revocations live in SQLite, one transaction  *)
(* at a time.  An operation that holds the lock throughout is one action;  *)
(* invoke, which does not, is a sequence of actions of a Worker.           *)
(*                                                                         *)
(* Left out: payloads, tokens as secrets (a token is its serial number),   *)
(* grants (every principal here is granted every component), audit events, *)
(* snapshots.  The kernel is reduced to the current instance of every      *)
(* component and whether it is Active (KernelLifecycle details it).        *)
(***************************************************************************)
EXTENDS Integers, FiniteSets

CONSTANTS
    Worker,     \* threads that serve requests
    Principal,  \* authenticated peers
    Component,  \* provisioned components
    External,   \* those of them that run as a child process
    Op,         \* operation ids that a principal may choose
    NoLease,    \* a token that is not in the lease table
    NoJob,      \* the job of an idle worker
    MaxToken,   \* BOUND: lease tokens ever issued
    MaxInst,    \* BOUND: instances ever created
    MaxFence,   \* BOUND: fences of a component (i64::MAX in the store)
    MaxEpoch,   \* BOUND: boots of the runtime (i64::MAX in the store)
    MaxOps,     \* MAX_OPS: rows of the ledger
    MaxSeq,     \* BOUND: sequence numbers of session renewals
    Acts        \* what happens in this instance, beside invocations

AllActs == {"effect", "renew", "renew_seq", "release", "revoke", "child",
            "restart", "shutdown", "store_fails", "activate_fails"}

ASSUME BoundAssumption ==
    /\ MaxToken \in Nat /\ MaxInst \in Nat /\ MaxFence \in Nat /\ MaxEpoch \in Nat
    /\ MaxOps \in Nat /\ MaxSeq \in Nat
ASSUME ConfigAssumption ==
    /\ External \subseteq Component
    /\ Acts \subseteq AllActs
    /\ IsFiniteSet(Principal) /\ IsFiniteSet(Op)

VARIABLES
    led,      \* operations: state of every row ("absent" when there is none)
    req,      \* operations: the request a row was admitted for
    res,      \* operations: the result stored in a row
    fence,    \* fences: the current fence of every component
    eff,      \* effects: the fence under which the last effect was committed
    barred,   \* revoked: the principals whose revocation is stored
    epoch,    \* meta: boots so far
    lease,    \* state.leases, by token
    tokens,   \* tokens issued so far (tokens are 1..tokens)
    revoked,  \* state.revoked
    stopped,  \* Service::stopped
    inst,     \* kernel: current instance of every component (0: none)
    active,   \* kernel: components whose current instance is Active
    made,     \* kernel: instances created so far
    dead,     \* host: external components whose child is not running
    exec,     \* providers: what became of the execution of an operation
    starts,   \* history: executions started for an operation, up to 2
    told,     \* history: results that clients were given for an operation
    newer,    \* history: the token that replaced a token (0: none)
    pc,       \* workers: what the worker does next
    job,      \* workers: the request it serves
    out       \* workers: the outcome it has seen

storeVars == <<led, req, res, fence, eff, barred, epoch>>
stateVars == <<lease, tokens, revoked, stopped, newer>>
kernelVars == <<inst, active, made, dead>>
execVars == <<exec, starts, told>>
workVars == <<pc, job, out>>
vars == <<storeVars, stateVars, kernelVars, execVars, workVars>>

Key == Principal \X Op
Token == 1..MaxToken
Request == {"call", "effect"} \X Component
Outcome == {"none", "ok", "err", "unknown", "timeout"}

Lease == [p : Principal, c : Component, f : 1..MaxFence, i : 1..MaxInst,
          health : {"ok", "retry", "failed"}, late : BOOLEAN, seq : 0..MaxSeq]
Job == [p : Principal, o : Op, c : Component, f : 1..MaxFence, i : 1..MaxInst]

\* A worker serves a unary request, or a leg of a remote call (RouteExecutor).
PC == {"idle", "admit", "current", "run", "wait", "recheck", "finish",
       "leg_admit", "leg_current", "leg_wait", "leg_recheck", "leg_finish"}

Id(w) == <<job[w].p, job[w].o>>

Saturate(n) == IF n < 2 THEN n + 1 ELSE 2

Goto(w, p) == pc' = [pc EXCEPT ![w] = p]

\* The request is answered.
Done(w) ==
    /\ Goto(w, "idle")
    /\ job' = [job EXCEPT ![w] = NoJob]
    /\ out' = [out EXCEPT ![w] = "none"]

Tell(k, r) == told' = [told EXCEPT ![k] = @ \cup {r}]

----------------------------------------------------------------------------
(* Leases.                                                                  *)

Held(t) == lease[t] # NoLease

\* Service::validate, with the fence that belongs to the token.
Valid(p, t) ==
    /\ p \notin revoked
    /\ Held(t)
    /\ lease[t].p = p
    /\ ~lease[t].late
    /\ lease[t].health = "ok"

\* The recheck after an execution: Service::lease_live and the end of invoke.
LeaseLive(j) ==
    /\ j.p \notin revoked
    /\ \E t \in Token :
        /\ Held(t)
        /\ lease[t].p = j.p /\ lease[t].c = j.c
        /\ lease[t].f = j.f /\ lease[t].i = j.i
        /\ ~lease[t].late
        /\ lease[t].health # "failed"

\* Service::retire of the leases in T: the kernel disposes the plugins and the host
\* kills the children.
Retire(T) ==
    LET gone == {lease[t].c : t \in T}
    IN /\ lease' = [t \in Token |-> IF t \in T THEN NoLease ELSE lease[t]]
       /\ active' = active \ gone
       /\ dead' = dead \ gone
       /\ UNCHANGED <<inst, made>>

\* Kernel::load_manifest: a fresh instance of c becomes current, and Active (one that
\* waits for what it requires refuses calls, as Dispatch may).
Load(c) ==
    /\ made < MaxInst
    /\ made' = made + 1
    /\ inst' = [inst EXCEPT ![c] = made + 1]
    /\ active' = active \cup {c}
    /\ dead' = dead \ {c}

\* Defect for mutation: a component can be leased twice.
ActivateAgain(p, c) ==
    /\ p \notin revoked
    /\ tokens < MaxToken
    /\ fence[c] < MaxFence
    /\ fence' = [fence EXCEPT ![c] = @ + 1]
    /\ Load(c)
    /\ tokens' = tokens + 1
    /\ lease' = [lease EXCEPT ![tokens + 1] =
                  [p |-> p, c |-> c, f |-> fence[c] + 1, i |-> made + 1,
                   health |-> "ok", late |-> FALSE, seq |-> 0]]
    /\ UNCHANGED <<led, req, res, eff, barred, epoch, revoked, stopped, newer, execVars,
                   workVars>>

Activate(p, c) ==
    /\ p \notin revoked
    /\ \A t \in Token : Held(t) => lease[t].c # c
    /\ tokens < MaxToken
    /\ fence[c] < MaxFence
    /\ fence' = [fence EXCEPT ![c] = @ + 1]
    /\ Load(c)
    /\ tokens' = tokens + 1
    /\ lease' = [lease EXCEPT ![tokens + 1] =
                  [p |-> p, c |-> c, f |-> fence[c] + 1, i |-> made + 1,
                   health |-> "ok", late |-> FALSE, seq |-> 0]]
    /\ UNCHANGED <<led, req, res, eff, barred, epoch, revoked, stopped, newer, execVars,
                   workVars>>

\* The fence is stored, then the audit event or the load fails.
ActivateFails(p, c) ==
    /\ "activate_fails" \in Acts
    /\ p \notin revoked
    /\ \A t \in Token : Held(t) => lease[t].c # c
    /\ fence[c] < MaxFence
    /\ fence' = [fence EXCEPT ![c] = @ + 1]
    /\ active' = active \ {c}
    /\ UNCHANGED <<led, req, res, eff, barred, epoch, stateVars, inst, made, dead, execVars,
                   workVars>>

\* A renewal moves the lease to a fresh token and restarts its clock.
Rotate(t, s) ==
    /\ tokens < MaxToken
    /\ tokens' = tokens + 1
    /\ lease' = [lease EXCEPT ![t] = NoLease,
                              ![tokens + 1] = [lease[t] EXCEPT !.late = FALSE, !.seq = s]]
    /\ newer' = [newer EXCEPT ![t] = tokens + 1]
    /\ UNCHANGED <<storeVars, revoked, stopped, kernelVars, execVars, workVars>>

Renew(p, t) ==
    /\ "renew" \in Acts
    /\ Valid(p, t)
    /\ Rotate(t, lease[t].seq)

\* Whether Service::renew_seq answers request <<t, s>> from the table, rotating nothing.
Replays(p, t, s) ==
    /\ Held(t)
    /\ lease[t].p = p
    /\ lease[t].seq = s
    /\ ~lease[t].late
    /\ lease[t].health = "ok"

RenewSeq(p, t, s) ==
    /\ "renew_seq" \in Acts
    /\ Valid(p, t)
    /\ ~Replays(p, t, s)
    /\ s >= lease[t].seq
    /\ Rotate(t, s)

\* The clock of the host passes the deadline of a lease.
LeaseLate(t) ==
    /\ Held(t)
    /\ ~lease[t].late
    /\ lease' = [lease EXCEPT ![t].late = TRUE]
    /\ UNCHANGED <<storeVars, tokens, revoked, stopped, newer, kernelVars, execVars, workVars>>

Release(p, t) ==
    /\ "release" \in Acts
    /\ Held(t)
    /\ lease[t].p = p
    /\ Retire({t})
    /\ UNCHANGED <<storeVars, tokens, revoked, stopped, newer, execVars, workVars>>

\* Defect for mutation: the principal is barred, its leases run on.
RevokeKeepsLeases(p) ==
    /\ "revoke" \in Acts
    /\ p \notin revoked
    /\ revoked' = revoked \cup {p}
    /\ barred' = barred \cup {p}
    /\ UNCHANGED <<led, req, res, fence, eff, epoch, lease, tokens, stopped, newer,
                   kernelVars, execVars, workVars>>

\* Service::revoke; every lease of the principal is retired under the same lock, even
\* when the revocation cannot be stored (the operator is told so).
Revoke(p) ==
    /\ "revoke" \in Acts
    /\ revoked' = revoked \cup {p}
    /\ \/ barred' = barred \cup {p}
       \/ "store_fails" \in Acts /\ UNCHANGED barred
    /\ Retire({t \in Token : Held(t) /\ lease[t].p = p})
    /\ UNCHANGED <<led, req, res, fence, eff, epoch, tokens, stopped, newer, execVars, workVars>>

Grant(p) ==
    /\ p \in revoked
    /\ revoked' = revoked \ {p}
    /\ barred' = barred \ {p}
    /\ UNCHANGED <<led, req, res, fence, eff, epoch, lease, tokens, stopped, newer,
                   kernelVars, execVars, workVars>>

----------------------------------------------------------------------------
(* The supervisor thread: Service::tick.                                    *)

\* Defect for mutation: the supervisor passes over the leases of failed components.
TickSkipsFailed ==
    LET expired == {t \in Token : Held(t) /\ lease[t].late /\ lease[t].health # "failed"}
    IN /\ ~stopped
       /\ expired # {}
       /\ Retire(expired)
       /\ UNCHANGED <<storeVars, tokens, revoked, stopped, newer, execVars, workVars>>

TickExpire ==
    LET expired == {t \in Token : Held(t) /\ lease[t].late}
    IN /\ ~stopped
       /\ expired # {}
       /\ Retire(expired)
       /\ UNCHANGED <<storeVars, tokens, revoked, stopped, newer, execVars, workVars>>

\* The child of an external lease is gone: the plugin is disposed and the lease waits
\* for a restart, or fails when the budget is spent.  Leases of one tick touch
\* different components, so a tick is taken lease by lease.
TickChildGone(t) ==
    /\ ~stopped
    /\ Held(t) /\ lease[t].c \in External /\ lease[t].health = "ok" /\ ~lease[t].late
    /\ lease[t].c \in dead
    /\ \E h \in {"retry", "failed"} : lease' = [lease EXCEPT ![t].health = h]
    /\ active' = active \ {lease[t].c}
    /\ UNCHANGED <<storeVars, tokens, revoked, stopped, newer, inst, made, dead, execVars,
                   workVars>>

\* The backoff is over: a new instance, under the same fence and token.
TickRestart(t) ==
    /\ ~stopped
    /\ Held(t) /\ lease[t].c \in External /\ lease[t].health = "retry" /\ ~lease[t].late
    /\ \/ /\ Load(lease[t].c)
          /\ lease' = [lease EXCEPT ![t].health = "ok", ![t].i = made + 1]
       \/ /\ lease' = [lease EXCEPT ![t].health = "ok"]
          /\ UNCHANGED kernelVars
    /\ UNCHANGED <<storeVars, tokens, revoked, stopped, newer, execVars, workVars>>

ChildDies(c) ==
    /\ "child" \in Acts
    /\ c \in (External \cap active) \ dead
    /\ dead' = dead \cup {c}
    /\ UNCHANGED <<storeVars, stateVars, inst, active, made, execVars, workVars>>

Shutdown ==
    /\ "shutdown" \in Acts
    /\ ~stopped
    /\ stopped' = TRUE
    /\ Retire({t \in Token : Held(t)})
    /\ UNCHANGED <<storeVars, tokens, revoked, newer, execVars, workVars>>

----------------------------------------------------------------------------
(* The ledger and the invocations: Store::admit, Service::invoke and        *)
(* Store::finish.                                                           *)

Rows == {k \in Key : led[k] # "absent"}

\* The rest of the ledger stays.
LedgerUnchanged == UNCHANGED <<led, req, res>>

\* Validation under the lock; the worker keeps what it has read.
InvokeValidate(w, p, o, t) ==
    /\ pc[w] = "idle"
    /\ Valid(p, t)
    /\ job' = [job EXCEPT ![w] = [p |-> p, o |-> o, c |-> lease[t].c, f |-> lease[t].f,
                                  i |-> lease[t].i]]
    /\ Goto(w, "admit")
    /\ UNCHANGED <<storeVars, stateVars, kernelVars, execVars, out>>

\* Defect for mutation: a retry of an unknown operation is admitted again.
AdmitRetriesUnknown(w, p, r) ==
    LET k == Id(w)
    IN \/ /\ led[k] \in {"absent", "unknown"}
          /\ led' = [led EXCEPT ![k] = "admitted"]
          /\ req' = [req EXCEPT ![k] = <<"call", job[w].c>>]
          /\ Goto(w, p)
          /\ UNCHANGED <<res, job, out, told>>
       \/ /\ led[k] \notin {"absent", "unknown"}
          /\ Done(w)
          /\ Tell(k, IF led[k] = "completed" THEN r ELSE "unknown")
          /\ LedgerUnchanged

\* Defect for mutation: a request is admitted while an earlier one is served.
AdmitTwice(w, p, r) ==
    LET k == Id(w)
    IN \/ /\ led[k] \in {"absent", "admitted"}
          /\ led' = [led EXCEPT ![k] = "admitted"]
          /\ req' = [req EXCEPT ![k] = <<"call", job[w].c>>]
          /\ Goto(w, p)
          /\ UNCHANGED <<res, job, out, told>>
       \/ /\ led[k] \notin {"absent", "admitted"}
          /\ Done(w)
          /\ Tell(k, IF led[k] = "completed" THEN r ELSE "unknown")
          /\ LedgerUnchanged

\* Store::admit as the transaction it is.  A new row is admitted and the worker goes
\* on at p; a completed row is answered by r from the row; any other row (admitted,
\* or unknown since a restart) is answered as unknown; a different request under the
\* same id, a full ledger and a store that fails refuse the request.
Admit(w, p, r) ==
    LET k == Id(w)
        request == <<"call", job[w].c>>
    IN \/ /\ led[k] = "absent"
          /\ Cardinality(Rows) < MaxOps
          /\ led' = [led EXCEPT ![k] = "admitted"]
          /\ req' = [req EXCEPT ![k] = request]
          /\ Goto(w, p)
          /\ UNCHANGED <<res, job, out, told>>
       \/ /\ \/ led[k] = "absent" /\ Cardinality(Rows) >= MaxOps
             \/ "store_fails" \in Acts
          /\ Done(w)
          /\ LedgerUnchanged
          /\ UNCHANGED told
       \/ /\ led[k] # "absent"
          /\ Done(w)
          /\ LedgerUnchanged
          /\ \/ req[k] # request /\ UNCHANGED told
             \/ req[k] = request /\ led[k] = "completed" /\ Tell(k, r)
             \/ req[k] = request /\ led[k] # "completed" /\ Tell(k, "unknown")

InvokeAdmit(w) ==
    /\ pc[w] = "admit"
    /\ Admit(w, "current", res[Id(w)])
    /\ UNCHANGED <<fence, eff, barred, epoch, stateVars, kernelVars, exec, starts>>

\* The activation changed between validation and admission: stale-generation, and the
\* row stays admitted.
InvokeCurrent(w) ==
    /\ pc[w] = "current"
    /\ IF inst[job[w].c] = job[w].i
       THEN Goto(w, "run") /\ UNCHANGED <<job, out>>
       ELSE Done(w)
    /\ UNCHANGED <<storeVars, stateVars, kernelVars, execVars>>

\* Kernel::invoke_for_ref: the provider starts to execute when the instance expected is
\* Active; the kernel refuses any other, and this one too when it has no room for a call
\* or when the load left the component waiting for what it requires.
Dispatch(w, p, refused) ==
    \/ /\ job[w].c \in active /\ inst[job[w].c] = job[w].i
       /\ exec' = [exec EXCEPT ![Id(w)] = "running"]
       /\ starts' = [starts EXCEPT ![Id(w)] = Saturate(@)]
       /\ Goto(w, p)
       /\ UNCHANGED <<job, out, told>>
    \/ /\ Goto(w, refused)
       /\ out' = [out EXCEPT ![w] = "err"]
       /\ UNCHANGED <<exec, starts, job, told>>

InvokeRun(w) ==
    /\ pc[w] = "run"
    /\ Dispatch(w, "wait", "recheck")
    /\ UNCHANGED <<storeVars, stateVars, kernelVars>>

\* A built-in reducer executes k.
InProcess(k) == exec[k] = "running" /\ req[k][2] \notin External

\* The provider finishes; nobody promises that a child process does.
ExecOver(k) ==
    /\ exec[k] = "running"
    /\ exec' = [exec EXCEPT ![k] = "over"]
    /\ UNCHANGED <<storeVars, stateVars, kernelVars, starts, told, workVars>>

\* Defect for mutation: no deadline on the wait for the provider.
AwaitForever(w, p, bounded) ==
    /\ exec[Id(w)] = "over"
    /\ \E r \in {"ok", "err", "unknown"} : out' = [out EXCEPT ![w] = r]
    /\ Goto(w, p)
    /\ UNCHANGED job

\* The worker gets the provider's value or error, or the code of a call that was
\* cancelled, lost its session or met its deadline, while the provider may still
\* execute when the wait is bounded.
Await(w, p, bounded) ==
    /\ \E r \in Outcome \ {"none"} :
        /\ exec[Id(w)] = "over" \/ (bounded /\ r \in {"unknown", "timeout"})
        /\ out' = [out EXCEPT ![w] = r]
    /\ Goto(w, p)
    /\ UNCHANGED job

\* A child process is waited for with a deadline; a built-in reducer runs in the thread
\* of the worker.
InvokeWait(w) ==
    /\ pc[w] = "wait"
    /\ Await(w, "recheck", job[w].c \in External)
    /\ UNCHANGED <<storeVars, stateVars, kernelVars, execVars>>

InvokeRecheck(w) ==
    /\ pc[w] = "recheck"
    /\ out' = [out EXCEPT ![w] = IF LeaseLive(job[w]) THEN @ ELSE "unknown"]
    /\ Goto(w, "finish")
    /\ UNCHANGED <<storeVars, stateVars, kernelVars, execVars, job>>

\* Store::finish of row k.
Finish(k, unknown, r) ==
    /\ led[k] = "admitted"
    /\ led' = [led EXCEPT ![k] = IF unknown THEN "unknown" ELSE "completed"]
    /\ res' = [res EXCEPT ![k] = r]
    /\ UNCHANGED req

\* The result is too large, the disk is full or the row is not admitted: Store::finish
\* reports an error and the row stays as it is.
FinishFails(k) == "store_fails" \in Acts \/ led[k] # "admitted"


\* Defect for mutation: a deadline is taken for a definite failure.
InvokeFinishTimeout(w) ==
    /\ pc[w] = "finish"
    /\ LET r == IF out[w] \in {"ok", "unknown"} THEN out[w] ELSE "err"
       IN Finish(Id(w), r = "unknown", r) /\ Tell(Id(w), r)
    /\ Done(w)
    /\ UNCHANGED <<fence, eff, barred, epoch, stateVars, kernelVars, exec, starts>>

\* The result is stored, then returned.
InvokeFinish(w) ==
    /\ pc[w] = "finish"
    /\ LET r == IF out[w] \in {"ok", "err"} THEN out[w] ELSE "unknown"
       IN Finish(Id(w), r = "unknown", r) /\ Tell(Id(w), r)
    /\ Done(w)
    /\ UNCHANGED <<fence, eff, barred, epoch, stateVars, kernelVars, exec, starts>>

\* Defect for mutation: the client gets its result although nothing was stored.
InvokeFinishFailsSilently(w) ==
    /\ pc[w] = "finish"
    /\ FinishFails(Id(w))
    /\ Tell(Id(w), IF out[w] \in {"ok", "err"} THEN out[w] ELSE "unknown")
    /\ Done(w)
    /\ UNCHANGED <<storeVars, stateVars, kernelVars, exec, starts>>

\* The client gets an error instead of the result.
InvokeFinishFails(w) ==
    /\ pc[w] = "finish"
    /\ FinishFails(Id(w))
    /\ Done(w)
    /\ UNCHANGED <<storeVars, stateVars, kernelVars, execVars>>

\* Service::commit_effect: the fence, the ledger and the effect in one transaction.
CommitEffect(p, o, t) ==
    /\ "effect" \in Acts
    /\ Valid(p, t)
    /\ fence[lease[t].c] = lease[t].f
    /\ LET k == <<p, o>>
           c == lease[t].c
       IN \/ /\ led[k] = "absent"
             /\ Cardinality(Rows) < MaxOps
             /\ led' = [led EXCEPT ![k] = "completed"]
             /\ req' = [req EXCEPT ![k] = <<"effect", c>>]
             /\ res' = [res EXCEPT ![k] = "ok"]
             /\ eff' = [eff EXCEPT ![c] = lease[t].f]
             /\ starts' = [starts EXCEPT ![k] = Saturate(@)]
             /\ Tell(k, "ok")
          \/ /\ led[k] = "completed" /\ req[k] = <<"effect", c>>
             /\ Tell(k, res[k])
             /\ LedgerUnchanged
             /\ UNCHANGED <<eff, starts>>
    /\ UNCHANGED <<fence, barred, epoch, stateVars, kernelVars, exec, workVars>>

----------------------------------------------------------------------------
(* The process dies and Store::open recovers.                               *)

\* Defect for mutation: fences start over with the process.
RestartForgetsFences ==
    /\ "restart" \in Acts
    /\ epoch < MaxEpoch
    /\ epoch' = epoch + 1
    /\ led' = [k \in Key |-> IF led[k] = "admitted" THEN "unknown" ELSE led[k]]
    /\ fence' = [c \in Component |-> 0]
    /\ lease' = [t \in Token |-> NoLease]
    /\ revoked' = barred
    /\ stopped' = FALSE
    /\ inst' = [c \in Component |-> 0]
    /\ active' = {} /\ dead' = {}
    /\ exec' = [k \in Key |-> IF InProcess(k) THEN "over" ELSE exec[k]]
    /\ pc' = [w \in Worker |-> "idle"]
    /\ job' = [w \in Worker |-> NoJob]
    /\ out' = [w \in Worker |-> "none"]
    /\ UNCHANGED <<req, res, eff, barred, tokens, newer, made, starts, told>>

\* Everything but the store is lost; rows that were admitted become unknown.  A child
\* process may outlive the runtime.
Restart ==
    /\ "restart" \in Acts
    /\ epoch < MaxEpoch
    /\ epoch' = epoch + 1
    /\ led' = [k \in Key |-> IF led[k] = "admitted" THEN "unknown" ELSE led[k]]
    /\ lease' = [t \in Token |-> NoLease]
    /\ revoked' = barred
    /\ stopped' = FALSE
    /\ inst' = [c \in Component |-> 0]
    /\ active' = {} /\ dead' = {}
    /\ exec' = [k \in Key |-> IF InProcess(k) THEN "over" ELSE exec[k]]
    /\ pc' = [w \in Worker |-> "idle"]
    /\ job' = [w \in Worker |-> NoJob]
    /\ out' = [w \in Worker |-> "none"]
    /\ UNCHANGED <<req, res, fence, eff, barred, tokens, newer, made, starts, told>>

----------------------------------------------------------------------------
Init ==
    /\ led = [k \in Key |-> "absent"]
    /\ req = [k \in Key |-> <<"none">>]
    /\ res = [k \in Key |-> "none"]
    /\ fence = [c \in Component |-> 0]
    /\ eff = [c \in Component |-> 0]
    /\ barred = {}
    /\ epoch = 1
    /\ lease = [t \in Token |-> NoLease]
    /\ tokens = 0
    /\ revoked = {}
    /\ stopped = FALSE
    /\ inst = [c \in Component |-> 0]
    /\ active = {} /\ made = 0 /\ dead = {}
    /\ exec = [k \in Key |-> "no"]
    /\ starts = [k \in Key |-> 0]
    /\ told = [k \in Key |-> {}]
    /\ newer = [t \in Token |-> 0]
    /\ pc = [w \in Worker |-> "idle"]
    /\ job = [w \in Worker |-> NoJob]
    /\ out = [w \in Worker |-> "none"]

\* Requests that the service handles under its lock.
Control ==
    \/ \E p \in Principal :
        \/ Revoke(p) \/ Grant(p)
        \/ \E c \in Component : Activate(p, c) \/ ActivateFails(p, c)
        \/ \E t \in Token :
            \/ Renew(p, t) \/ Release(p, t)
            \/ \E s \in 1..MaxSeq : RenewSeq(p, t, s)
            \/ \E o \in Op : CommitEffect(p, o, t)
    \/ Shutdown

\* One round of the supervisor.
Tick == TickExpire \/ \E t \in Token : TickChildGone(t) \/ TickRestart(t)

\* What a worker does once it serves a unary request.
Serve(w) ==
    \/ InvokeAdmit(w) \/ InvokeCurrent(w) \/ InvokeRun(w) \/ InvokeWait(w)
    \/ InvokeRecheck(w) \/ InvokeFinish(w) \/ InvokeFinishFails(w)

\* What nobody in the service decides.
Environment ==
    \/ \E t \in Token : LeaseLate(t)
    \/ \E c \in Component : ChildDies(c)
    \/ \E k \in Key : ExecOver(k)

\* A client sends an invocation, for the first time or again.
Receive(w) == \E p \in Principal, o \in Op, t \in Token : InvokeValidate(w, p, o, t)

Next ==
    \/ Control \/ Tick \/ Environment \/ Restart
    \/ \E w \in Worker : Receive(w) \/ Serve(w)

Spec == Init /\ [][Next]_vars

\* Threads that serve a request keep running (built-in reducers terminate) and so does
\* the supervisor.  Child processes and clients owe nothing.
Fairness ==
    /\ \A w \in Worker : WF_vars(Serve(w))
    /\ \A k \in Key : WF_vars(InProcess(k) /\ ExecOver(k))
    /\ WF_vars(TickExpire)

----------------------------------------------------------------------------
(* Properties.                                                              *)

StoreTyped ==
    /\ led \in [Key -> {"absent", "admitted", "completed", "unknown"}]
    /\ req \in [Key -> Request \cup {<<"none">>}]
    /\ res \in [Key -> {"none", "ok", "err", "unknown"}]
    /\ fence \in [Component -> 0..MaxFence]
    /\ eff \in [Component -> 0..MaxFence]
    /\ barred \subseteq Principal
    /\ epoch \in Nat

LeasesTyped ==
    /\ lease \in [Token -> Lease \cup {NoLease}]
    /\ tokens \in 0..MaxToken
    /\ revoked \subseteq Principal
    /\ stopped \in BOOLEAN
    /\ newer \in [Token -> 0..MaxToken]

KernelTyped ==
    /\ inst \in [Component -> 0..MaxInst]
    /\ active \subseteq Component
    /\ made \in 0..MaxInst
    /\ dead \subseteq Component

ExecTyped ==
    /\ exec \in [Key -> {"no", "refused", "running", "over"}]
    /\ starts \in [Key -> 0..2]
    /\ told \in [Key -> SUBSET {"ok", "err", "unknown"}]

WorkTyped ==
    /\ pc \in [Worker -> PC]
    /\ job \in [Worker -> Job \cup {NoJob}]
    /\ out \in [Worker -> Outcome]

\* The type invariant.
TypeOK == StoreTyped /\ LeasesTyped /\ KernelTyped /\ ExecTyped /\ WorkTyped

\* The provider starts on an operation id of a principal at most once, however often
\* clients repeat the request, in parallel, after a lost answer or after a restart
\* ("non-replaying operation ledger", store.rs).
StartedAtMostOnce == \A k \in Key : starts[k] <= 1

\* A result that a client was given is the one the ledger holds, for good: no retry
\* and no restart tells another client anything else than that, or unknown.
AnswersAreDurable ==
    \A k \in Key : \A r \in told[k] \cap {"ok", "err"} :
        led[k] = "completed" /\ res[k] = r

\* A completed or unknown row never changes again; in particular nothing turns an
\* unknown outcome into a known one or makes the operation admissible again (I10).
LedgerFinal ==
    [][\A k \in Key : led[k] \in {"completed", "unknown"} =>
            led'[k] = led[k] /\ res'[k] = res[k]]_vars

\* A row is completed only when the provider no longer executes: while it may still
\* have an effect, the outcome is unknown (I10).
CompletedIsSettled == \A k \in Key : led[k] = "completed" => exec[k] # "running"

\* A component has one lease, and that lease holds the fence that the store has for
\* the component, through renewals, failed activations and restarts.
LeaseHoldsFence ==
    /\ \A t \in Token : Held(t) => lease[t].f = fence[lease[t].c]
    /\ \A t, u \in Token : Held(t) /\ Held(u) /\ lease[t].c = lease[u].c => t = u

\* Effects of a component are committed in the order of its leases: none from an
\* earlier lease after one from a later lease, across restarts.
EffectsInFenceOrder ==
    [][\A c \in Component : eff'[c] # eff[c] => eff'[c] > eff[c]]_vars

\* A principal whose revocation is stored has no lease and is refused, after a restart
\* as before.
RevocationHolds ==
    \A p \in barred : p \in revoked /\ \A t \in Token : Held(t) => lease[t].p # p

\* A lease that is not renewed is retired by the host itself, whatever its holder and
\* its child process do, unless the service is shut down: no lease stays late for ever.
LateLeaseRetired ==
    \A t \in Token : []<>(~(Held(t) /\ lease[t].late) \/ stopped)

\* Every invocation and every leg is answered, even when the provider never is done.
InvocationReturns == \A w \in Worker : []<>(pc[w] = "idle")

----------------------------------------------------------------------------
(* A statement of the repository that the code does not keep.               *)

\* service.rs:287-289 on renew_seq: "a repeated `seq` replays the current token without
\* rotating (lost-response recovery)".  A client whose answer was lost repeats the
\* request it sent, with the token that the renewal has removed.
LostRenewalRecovers ==
    \A t \in Token : newer[t] # 0 /\ Held(newer[t]) =>
        LET l == lease[newer[t]]
        IN l.seq > 0 /\ Valid(l.p, newer[t]) => Replays(l.p, t, l.seq)
=============================================================================
