# Matrix: a TLA+ verification project

Matrix hosts *components* (plugins built into the process, child processes, or components of
another host) behind a small kernel. The kernel activates them, admits calls to them and withdraws
them; a managed runtime adds leases, a durable ledger of operations and remote execution. This
directory models the parts of that system whose correctness depends on the order in which
threads, clients, child processes and crashes act. Line numbers refer to the source at the commit
that this project was written for; `PROJECT.json` maps every definition to its lines.

## 1. Inventory

| component | state it keeps | operations | what makes it correct |
|---|---|---|---|
| kernel, calls and lifecycle (`matrix-core`: `kernel.rs`, `context.rs`, `calls.rs`, `fsm.rs`, `registry.rs`) | context table, current instance per logical id, tickets with policy and drain deadline, cleanup claims, plugins, definitions, capability registry | `call_open`, `commit_effect`, `call_cancel`, `call_close`, `call_reap`, `load_manifest`, `reload`, `dispose_plugin`, `dispose_instance`, `fault`, `reset_bench` | no call is handed out for an activation that is being withdrawn; when it is withdrawn no call has authority; its resources are released once, after the last holder is gone; a withdraw concludes |
| kernel, outbound dependency calls (`kernel.rs` 1000-1280, `external.rs`) | dependency bindings, grant epochs, parent links of tickets, per-session quotas | `dependency_admit`, `dependency_accept`, `dependency_timeout`, revocation of descendants | authority of a child ends with its parent; quotas are returned |
| kernel, dependency graph and reconciliation (`deps.rs`, `kernel.rs` 2080-2640) | definitions and their requirements | `find_cycle`, `topo_order`, `transitive_consumers`, `reconcile` | consumers are withdrawn before providers; a pass sequence ends within `2n+4` |
| kernel, resources, bus, journal (`resources.rs`, `bus.rs`, `journal.rs`, `identity.rs`) | resource records with owner and state, pins, subscriptions | register, begin and finish release, batches | a released resource has no owner; a failed release stays visible |
| managed runtime (`matrix-runtime`: `service.rs`, `store.rs`) | leases by token, revoked principals, SQLite tables for operations, fences, effects, revocations, boots | `activate`, `renew`, `renew_seq`, `release`, `revoke`, `invoke`, `commit_effect`, `tick`, `shutdown`, start | an operation id is executed at most once; what a client is told is stored; one lease per component, in fence order; revocations survive a restart; late leases end |
| remote execution (`route_executor.rs`, `route_controller.rs`, `remote.rs`) | legs, cancel marks, streams and credit per route; links and registrations of the controller | `call.open`, `call.cancel`, `op.query`, streams, attach and detach rounds | a leg is executed at most once and answered; a provider is published only over a live session; links recover; streams stay within their credit |
| session engine (`session.rs`, `remote_session_server.rs`) | slots of waiting requests, command channel, control and data queues, suspect and detached sessions | request, subscribe, flush, expire, detach | every waiter is answered or told, every slot is given back |
| component host (`matrix-host/src/lib.rs`) | child processes, sessions and bindings, resource handles, pending replies, quotas, dependency requests, streams with credit | spawn, kill, register, quiesce, drop, forward, open, cancel, relay, shutdown | no process or session survives its activation; every call ends and returns its quotas; no result without authority; no chunk twice, windows agree |
| protocol codec (`matrix-proto`) | none | framing, envelopes, handshake | sequential, covered by test vectors |
| guard (`matrix-guard`) | restart budget | isolation of processes, `RestartBudget` | the budget is a sliding window |
| operator API, `matrix-rt`, `matrix-conform`, SDKs | none of their own | dispatch onto the components above | |

How they interact. `matrix-rt` serves each connection on a thread of its own
(`matrix-rt/src/main.rs` 193-195) and these threads, as well as the workers of the host, call the
kernel directly. The kernel has **no global lock**: each table has its own mutex and an operation
is a sequence of short critical sections, with `reconcile` at the end of most of them. The managed
runtime calls the kernel from request threads, from a supervisor thread that ticks every 20 ms
(`service.rs` 105-117) and, for remote legs, from one dispatch thread per call. The service keeps
its leases under one lock; what must survive a crash is in SQLite, one transaction at a time. The
host applies the kernel's lifecycle events on one event thread and serves every component process
with a connection thread and a reader thread; calls of the kernel wait in their own threads for a
reply that the reader hands over, and dependency calls get a worker each. The route controller has
a worker per peer over the session engine, one thread that owns the socket and serves the requests
of all others through a bounded channel.

What is hard: interleavings of critical sections (stale reads, check-then-act), withdraws that
race openings, deadlines that race late answers, retries of operations whose first attempt may
still run, a crash between executing and recording, failures of the store, child processes that
die or hang. `PROJECT.json` lists each hazard at its line.

## 2. Plan

Done, in this order: `KernelLifecycle` with its abstract specification `AdmissionGate`, its runs
and its proofs; `ManagedService` with its runs and proofs; `RouteExecutor`, which composes with
`ManagedService`; the host in three modules (`HostSessions`, `HostCalls` together with the
dependency tickets of the kernel, `HostStreams` together with the link and the executor's intake);
`RouteLink`; `SessionEngine`; the proofs about `HostStreams`, then those about exclusion and the
gate in the kernel, about leases and fences, and about `SessionEngine`, `RouteLink`, `HostCalls`,
`HostSessions` and `RouteExecutor`; the abstract `OperationLedger` and the refinement of it, and the
accounts of a stream's credit. Every invariant, action property and refinement that a run checks is
now also a theorem. Open:

1. Definitions with requirements: `find_cycle`, `topo_order`, `transitive_consumers` against
   reference definitions, and `reconcile` over them.
2. `reload`, `reset_bench`, pins and batches of resources.

## 3. Modules

| module | what it is |
|---|---|
| `KernelLifecycle` | activations and calls of the kernel, one action per critical section |
| `AdmissionGate` | what the kernel promises the clients of an activation, in seven atomic actions |
| `ManagedService` | leases, fences, ledger, invocations, supervisor, restart |
| `RouteExecutor` | extends `ManagedService` with the legs of remote sessions |
| `OperationLedger` | what the runtime promises about an operation, in five atomic actions |
| `HostSessions` | child processes, connections, sessions and handles of the component host |
| `HostCalls` | forwarded and dependency calls through the host, with the kernel's tickets and grants |
| `HostStreams` | a call-associated stream from a component over the link to the executor and back |
| `RouteLink` | the controller's link to a peer: attach, register, renew, tear down, route edits |
| `SessionEngine` | waits and slots of the multiplexed remote session |
| `KernelLifecycle_proofs`, `ManagedService_proofs`, `RouteExecutor_proofs`, `HostSessions_proofs`, `HostCalls_proofs`, `HostStreams_proofs`, `RouteLink_proofs`, `SessionEngine_proofs` | the theorems about each of them and their proofs |
| `MCKernelLifecycle`, `MCManagedService`, `MCHostStreams` | symmetry sets for TLC |

Operators whose comment starts with "Defect for mutation" are wrong on purpose and used by no
specification: each is a plausible bug of the definition that follows it. Substituted for that
definition, it must break the property that `PROJECT.json` names with it.

### KernelLifecycle

State: the tables of the kernel under their roles (`st`, `cause`, `lg`, `cur` are the context
table; `tst`, `tin`, `tpol`, `armed`, `due`, `eff` the tickets; `pInst`, `pSt`, `defs` plugins and
definitions; `cap` the registry; `held`, `stuck`, `cleaned`, `claims` resources and their
cleanup), and per thread a program counter and the values its operation has read. Actions are
named after the functions: `Open*` is `call_open`, `Commit*` `commit_effect`, `Fin*`
`maybe_finalize`, `Refresh*` `refresh_cleanup_cause`, `Disp*` `dispose_instance_inner`, `Load*`
`load_manifest`, `Rec*`, `Create*` and `Promote*` `reconcile` and what it calls, `Fault*` the
fault handler.

Grain. One action is one critical section. Adjacent sections are joined where no other thread can
tell: the reads of the admission check, the loop that cancels or arms the tickets of a withdrawn
instance, register with publish, a mark with its mirror in the plugin table, its journal entry
and the end of the claim, and the read and mark of the fault handler. Three joins are coarser than
that: `Acquire` is `acquire` with its revalidation and rollback (`kernel.rs` 1881-1992),
`LoadManifest` and `LoadSubstitute` take the tables of a load together, and so does `DisposePlugin`
the look-up of the current instance. No property speaks of the states in between; a handle that
outlives its context (`DisposedHoldsNothing`, section 6) is found all the same.

Abstractions. A definition is local, has no requirements, provides one capability and owns one
handle. So there are no bindings: `resolve` yields none, `bindings_stale` is false and no consumer
is withdrawn with its provider. The withdraw policy of a ticket (`cancel` or `drain`) and the
outcome of an activation are chosen freely. Time is the action `DeadlinePasses`. A resource that
refuses its release is the operation `AcquireStuck`. The pass bound of `reconcile` (`2n+4`, six
for one definition) is left out: with at most two instances no pass sequence reaches it. That every
reconcile ends (`OperationsReturn`) therefore rests on `MaxInst` here, and a code without the bound
would pass.

### ManagedService

State: the tables of the store (`led`, `req`, `res`, `fence`, `eff`, `barred`, `epoch`), the
service's own (`lease`, `tokens`, `revoked`, `stopped`), the kernel reduced to the current
instance of every component and whether it is Active, the child processes (`dead`), what became of
an execution (`exec`) and the workers. `starts`, `told` and `newer` are history: executions
started, answers given, tokens replaced.

Actions. Operations that hold the lock of the service throughout (`Activate`, `Renew`,
`RenewSeq`, `Release`, `Revoke`, `Grant`, `CommitEffect`, `Shutdown`, the parts of a tick) are one
action each. `invoke`, which does not hold it, is a sequence of a worker: validate, admit, look at
the current instance, run, wait, recheck the lease, finish. A transaction of the store is atomic
and may fail (`"store_fails"`: the admission is refused, a result is not recorded), `Load` may fail (`ActivateFails`), and `Restart` may come at any
point: the boot turns admitted rows into unknown ones, and a child process may outlive the crash.

Abstractions. A token is its serial number (tokens are unguessable, so a client has the tokens it
was given). Grants and outbound grants are total, a request is its kind and its component (the
store compares the whole request text for a conflict), audit events decide nothing. The clock is
`LeaseLate`; the death of a child `ChildDies`. Instance ids are unique across boots because the epoch is part of an `InstanceRef`. A call that the host
could not deliver is counted as started and lost, which is the safe side for `StartedAtMostOnce`.
A tick is taken lease by lease, as the leases of one tick belong to different components. The
kernel may refuse a call to the Active instance too: it does so when it has no room for another
call, and when the load left the component Waiting for what it requires, which the model does not
tell from Active.

### RouteExecutor

State: `legs` and `cancelled` of every route, the session that a worker serves (`via`), and the
calls handed to a dispatch thread that have not reached the kernel (`queue`). `LegOpen`,
`LegAdmit`, `LegRefuse`, `LegDispatch`, `LegExecute`, `LegWait`, `LegRecheck`, `LegFinish` are
`on_call_open` and `run_leg`; `LegReplay` and `Cancel` may come at any time. Unary requests, the
supervisor and restarts are those of `ManagedService` and act on the same ledger.

`OperationLedger` is the specification of that ledger for whoever uses it: an operation is admitted,
begun and settled once, or is lost to a boot. `RouteExecutor` implements it (`ImplementsLedger`): the
row of an operation is its stored state and result, `lost` being an unknown row without a result
(`RowOf`), and it has begun when its provider was started once. `Begin` is allowed after `Settle`,
because a dispatch thread may reach the kernel after the budget of its leg; after a boot it is not.

### HostSessions

State: the kernel's contexts and the lifecycle events it owes or has queued (`cur`, `kst`, `owed`,
`evq`), the child table with launch tokens and processes that resist a kill (`child`, `token`,
`pact`, `stuck`, `up`), `sessions`, `by_instance` and the handles listed by a session, and a
program counter for the event thread and for the connection and the reader thread of every
session. `NextEvent`, `ReplaceChild`, `SpawnChild`, `ReapFinished`, `Quiesce*` are `event_loop`,
`handle_event`, `spawn_child` and `quiesce_session`; `Connect`, `RegisterPublish` and
`ActivateFailed` are `serve_conn`; `ReadEnds`, `CloseSession`, `AcquireExternal`, `PushHandle`,
`ReleaseHandle` the frames a reader handles; `DropRemove` and `DropRelease` the two halves of
`drop_session`, which any of the three threads may run; `Shutdown` is the host's.

Abstractions. One logical component, whose generations do not overlap (where they do is
`KernelLifecycle`); a process opens one connection; at most one handle per session. The kernel
changes a context first and reports the change later, in any order allowed by its code. The kill of a
process group may fail once. The restart budget only delays an activation. `KernelWithdraw`
changes the state and `KernelRelease` releases the handles of the instance, at the end of the dispose
or never, as calls in flight may pin them. `RetireKill` is the kill that `Service::retire` makes itself
once the definition and the instance are gone (`service.rs` 568), on a thread of its own. `Connect` and
`RegisterPublish` take adjacent sections of one connection thread together.

### HostCalls

State: tickets with parent, component and grant revision (`tk`, `parent`, `comp`, `rev`), grants
and reservations (`grant`, `sweeping`, `depUse`), withdraws (`wd`), `sessions` and those between
removal and sweep (`dropping`), `pending` with its channels (`mail`), the quotas and who holds
them (`inflight`, `used`, `held`), `dep_requests`, `dep_sync.wanted`, `remote_ops` (`mapped`,
`wanted`, `ops`), the workers (`pc`, `out`) and what a canceller was told. Component `s + 1` is
the dependency of component `s`. `Forward*` is `invoke_bound` with `forward_call`, `Dep*`,
`Admit*` and `Remote*` are `run_dep_open`, `dependency_admit`, `run_dep_open_remote` and
`dependency_accept`; `DropSession` and `DropSweep`, `Withdraw*`, `GrantChange` and `GrantSweep`
are the multi-step operations that race them.

Abstractions. One activation and one session of each component, payloads of one unit, a withdraw
cancels its tickets (draining is in `KernelLifecycle`). A cancel of a ticket with descendants is
the cancel and, later, the step that revokes them (`owed`), as the code leaves the table's lock in
between. Taken together are the gate and the admission of `DepOpen`, the charge, the in-flight count
and the pending entry of `DepDispatch`, and in `WithdrawRevoke` the cancel of the tickets
(`kernel.rs` 2888) with the revocation of their children (2950). The `call_cancel` that precedes some
`call_close` is left out: the close ends the ticket whatever its state.

### HostStreams

State: the legs mapped to the session (`ops`), the remote entry of the stream id (`rst`), parked
chunks, local accounting, per thread the frames it still relays (`todo`), the queues of the link,
both wires, the executor's stream entry (`ex`) and the provider's own. The reader and the worker
of each leg run `bind_and_drain` and `relay_stream_frame` concurrently: `Look`, `Bind`, `Take`,
`RelayCheck` and `RelaySend` are separate critical sections. `Flush` sends control before data and
may drop what expired; `LinkLost` loses queues, wires and the executor's route. After a lost link
the reconcile of the next attach may end a stream from a thread of its own: `ExecReconciles`
tombstones the executor's entry, `HostReconciles` ends the leg of the host. Both may come at any
point after the loss, in either order, which includes what the ledger of the executor decides.

Abstractions. One stream id under `remote/`, one unit per chunk, room in the table of legs. A chunk
that the executor turns away because its table of 128 streams is full (`route_executor.rs` 569) is,
for the leg, one that was lost.
`InitialGrant = 2 * TopUp` as in the code (65536 and 32768).

### RouteLink

State: the configured provider (`conf`), the links of the peer and their flags, sessions and
leases, the worker of each link and the operator's thread (0), registrations in the kernel
(`reg`), leases and notices at the executor. `Connect` to `Register` are `attach_round`,
`MonitorCheck`, `Monitor` and `Renew` the monitor, `Tear*` `teardown_link`, which workers and
operator run, `Sync*` the operator's reload with `sync`, `Notice` `on_notice`. An attach round can
fail at every answer it waits for (`AttachFails`): no connection, no route, a component that is
leased already, an answer lost on the way, also that of an activation which took place. A lease
whose probe is lost is left alive while the round asks for another (`ObtainLease`), one that does
not become ready is released (`NeverReady`), and whoever ends a lease may make the executor send a
notice (`Retired`). `Reconcile` refreshes a registration that exists; `SyncRoutes` begins with the
definitions that a reload installs again, which withdraws their registration.

Abstractions. One peer and one operator; the definitions of routed providers are well-formed, so
that the kernel does not refuse to register them. `stale`, `late` and `excused` are history
variables: they mark the races of section 6 in which the code does not keep its word. `FailClosed`
is about open links and excludes what is stale; `LinkRecovers` names its four excuses and says that
nothing else keeps a link from coming back.

### SessionEngine

State: the slots of waits (`replies` until the engine has taken the command, `pending` after,
`multi` for `call.open`), the bounded command channel and control queue, frames in both
directions, and per wait a program counter and its channel. Caller actions are the steps of
`request` and `subscribe_answers`; engine actions those of the engine loop: `Drain`, `Flush`,
`ExpirePending`, `ExpireReplies`, `Dispatch`, and the two steps of `detach` (`FailAll`, then the
end of the thread, which drops the receiver). Sending a command is a check of the session state
and, later, the put (`SendCheck`, `SendPut`): a detach fits in between.

Abstractions. The engine's round is any order of its steps. TLS, framing, heartbeats and byte
quotas are left out, and so are the data commands that share the command channel (`session.rs`
358-366, 892-901): they hold no slot, and a channel that they fill refuses a command as one filled
by requests does.

## 4. Runs

Passing runs:

| run | question | instance |
|---|---|---|
| `KernelGenerations` | do the critical sections implement the gate across generations? `ImplementsGate`, `SingleWithdraw`, `InflightOvershoot` | 2 threads, 1 plugin, 2 instances, 2 tickets; open, close, load, dispose, fault; 1.5 million states |
| `KernelCalls` | is anything released early, twice, or with authority left, under every operation on calls? `NoEarlyRelease`, `AuthorityEndsAtCleanup`, `SingleRelease`, the inductive invariant `ReleaseInvariant` (types included) | 2 threads, 1 instance, 2 tickets, with cancel, reap, commit and stuck resources; 224 thousand states |
| `KernelProgress` | does a withdraw conclude, does every operation return? `WithdrawConcludes`, `OperationsReturn` | 2 threads, 2 instances, 1 ticket, under `FairSpec`; 172 thousand states |
| `ServiceLedger` | is an operation executed once and answered from the record? `StartedAtMostOnce`, `AnswersAreDurable`, `CompletedIsSettled`, `LedgerFinal` | 2 workers, 2 operations, 2 components (one in process, one child), room for one row, failures of the store at admission and at the end, a restart; 412 thousand states |
| `ServiceLeases` | who may use a component? `LeaseHoldsFence`, `RevocationHolds`, `EffectsInFenceOrder` | 2 principals, 1 child component, 3 tokens, 3 fences, 2 boots, every control operation; 55 thousand states |
| `RouteLegs` | do unary requests, effects and legs implement the ledger, is everything answered, do late leases end? `ImplementsLedger`, `OkMeansStarted`, `AnsweredIsStored`, `InvocationReturns`, `LateLeaseRetired` | 2 workers, 1 session, 1 operation, 2 boots, effects, child failures, release, under `RouteFairSpec`; 254 thousand states |
| `HostSessions` | what survives an activation? `ChildrenAccounted`, `ListedHandlesEnd`, `RetiredSessionLeaves` | 2 activations, 2 processes, 2 connections, 1 fault (exit, failed kill, removal or shutdown); 5.6 million states |
| `HostCalls` | does every call end, with its quotas returned and no authority left over? `WaitsMatchReplies`, `QuotasExact`, `RevokedStaysRevoked`, `AcceptedWithAuthority`, `CallsEnd` | 3 calls in a chain of 3 components, the last one remote, caps of 2, 1 fault (cancel, withdraw, lost session or changed grant), under `FairSpec`; 327 thousand states |
| `HostStreams` | do the windows hold when two threads relay and links fail? `RelayedOnce`, `WindowOvershoot`, `CreditConserved`, `TombstoneHolds`, `TypeOK` | 2 legs, 3 frames of the component, 1 of the provider, 1 lost link, window 2, top-up 1; 4.8 million states |
| `RouteLink` | does an open link withdraw before it gives up its session, do closed links end, does the link come back? `FailClosed`, `ClosedLinksEnd`, `LinkRecovers` | 2 providers, 2 links, 4 leases, 2 syncs, 1 fault, under `FairSpec`; 499 thousand states |
| `SessionEngine` | is anyone left waiting, is any slot lost? `NoWaiterLeft`, `SlotsDrain`, `TypeOK` | 3 waits (one `call.open`), 2 request ids, all caps 1, under `FairSpec`; 1.6 million states |

With `MaxPending = 1` the caps of `SessionEngine` are met, but no command finds an older slot of its
request id in `pending`. With `MaxPending = 2` it does, and the same properties hold (1.7 million
states); as the caps are then out of reach of two requests, the run uses 1. The theorems about
`SessionEngine` hold for both.

Every module has a type invariant. `TypeOK` of `ManagedService`, `HostSessions`, `HostCalls` and
`RouteLink` is part of an inductive invariant that is proved, `RouteTypeOK` of `RouteExecutor` is a
theorem; they are left out of the runs, which ask about the hazards.

A run that refutes a statement of the repository:

| run | statement | what happens |
|---|---|---|
| `HostParked` | "Every ticket end passes through here [...] Without it, raw `remove` parks `CleanupPending` with zero pending work and no way out" (`kernel.rs` 1714-1720, `settle_ticket`) | `dependency_admit` allocates the provider's ticket, a withdraw of the provider parks because of it, the revalidation fails and removes the ticket raw (`kernel.rs` 1201): the provider stays parked with nothing pending |

Bounds. The named bounds are `MaxInst`, `MaxTickets`, `MaxToken`, `MaxFence`,
`MaxEpoch`, `MaxSeq`, `MaxProc`, `MaxSess`, `MaxCall`, `MaxFrames`, `MaxDown`, `MaxRelink`,
`MaxLink`, `MaxLease`, `MaxSync` and `MaxFaults`; `MaxInflight`, `MaxOps`, `MaxLegs`, `MaxPending`,
`MaxInFlight`, `SendQuota`, `MaxDeps`, `MaxParked`, `InitialGrant`, `MaxStream`, `Commands` and
`ControlQueue` are limits of the code made small so that they are reached. `Ops` and `Acts`
choose what happens in an instance, so that each question gets the operations it needs in depth.
Two threads suffice for the races of interest, as each is between two critical sections, and the
theorems drop the bound where they apply; one fault at any point of a call or a session meets
every step of the others; two generations let a withdraw race the successor's
activation; two tickets let one be parked while another closes; two boots let a retry follow a
crash.

Symmetry: threads, workers, principals and legs are interchangeable where a cfg says so: no
action and no property names one. The liveness runs use no symmetry. The runs of the service, the
host, the link and the session say `CHECK_DEADLOCK FALSE`: when the clients have spent the bounds
and send nothing more, the system is idle for good, which is no error.

Fairness. `FairSpec` of the kernel: weak fairness of every thread's `Step`, as the operating
system schedules runnable threads and no kernel lock is held across a wait, and of
`DeadlinePasses`, as the clock advances. No operation has to be started, and no client has to
close its ticket. `RouteFairSpec`: weak fairness of worker threads, of in-process providers (the
built-in reducers terminate) and of the supervisor's `TickExpire`. Child processes and clients
owe nothing: the deadline of a call to a child is a choice of the worker's `Await`. `HostCalls`:
weak fairness of every worker, whose waits are all bounded (`recv_timeout` in a loop with a
deadline); components, clients and the operator owe nothing. `RouteLink`: weak fairness of the
workers of links, of a sync that has begun, of the delivery of a notice and of the expiry of a lease
that nobody renews, which the supervisor of the executor owes (`LateLeaseRetired`); no session has to
be lost and no edit made. A lease does not expire under the attach round that has just obtained it,
as a round takes less time than its lease. Attach succeeds when no fault is left, as the network is not modelled
beyond its faults. `SessionEngine`: weak fairness of callers, whose waits have deadlines, and of
the engine's rounds; the peer need not answer.

## 5. Proofs

Every theorem holds for all values of the constants that satisfy the assumptions named with it.
They are the assumptions that TLC evaluates on the instances, and all are about sizes: limits and
bounds are naturals (most at least one), sentinels are not members of the sets they extend.

### Kernel

`KernelLifecycle_proofs`, for every finite set of threads, every set of plugins, every number of instances and
tickets and every limit (`SizeAssumption`, `NoLogicalAssumption`, `ThreadAssumption`,
`OpsAssumption`):

* `TypeCorrect`: `Spec => []TypeOK`
* `ReleaseSafety`: `Spec => []NoEarlyRelease`. Resources are never released while a client holds
  a call of the instance.
* `AuthoritySafety`: `Spec => []AuthorityEndsAtCleanup`
* `WithdrawExclusive` and `ReleaseExclusive`: `[]SingleWithdraw`, `[]SingleRelease`
* `InflightBounded`: `[]InflightOvershoot`
* `GateRefinement`: `Spec => ImplementsGate`, the refinement of `AdmissionGate`
* `Invariance` and `ReleaseInvariance`: `[]Inv` and `[]ReleaseInvariant`, from which these follow.

None of the safety properties is inductive. A disposer releases what it found without calls some
steps earlier, so `Inv` must say what a thread *knows* at each program point (`ThreadsKnow`:
for example, a thread at `disp_expire` knows that every admitted call of its instance is armed and
due). That knowledge survives the steps of other threads because an instance that has left Active
never returns and the set of its holders only shrinks (lemmas `ClosedStays`, `HoldersShrink`): an
opener that allocates late sees the withdraw in its revalidation and is not yet a holder, which is
the argument of `call_open`'s second check. `ThreadsTyped`, `TablesTyped` and
`NoCallsBeforeActive` carry the typing of locals and tables that these steps need.

That a release has one thread is a matter of two different claims. Among disposers it is
`claim_dispose`; among closes and reaps it is the claim of the cleanup (`ClaimHeld`); between the
two kinds nothing is claimed, and what keeps them apart is the state of the context: until the
disposer parks the instance, nothing has marked it CleanupPending (`SoleWithdrawer`).

The refinement is proved step by step: the initial states correspond, and each critical section
is one of the seven actions of the gate or leaves its variables alone. `Inv` is what makes the
steps that conclude a withdraw legal for the gate, which demands that no call is held by then.

### Service and legs

`ManagedService_proofs`, for every set of workers, principals, components and operations and every
bound (`BoundAssumption`, `ConfigAssumption`): `ServiceTypeCorrect`, `ExecutionSafety`
(`[]StartedAtMostOnce`), `AnswerSafety` (`[]AnswersAreDurable`), `SettledSafety`
(`[]CompletedIsSettled`) and `LedgerIsFinal` (`Spec => LedgerFinal`). The inductive invariant
`LedgerInv` consists of `Shape` (types, jobs of busy workers, results of completed rows) and
`Ledger`: a fresh row is untouched, a worker past its admission owns an admitted row or one that a
restart has settled, no two workers own one row, an owner that has not run has not started, an
owner that knows the outcome has seen the end of the execution. It is needed because `starts` is
incremented several steps after the transaction that excludes a second start. TLC checked
`LedgerInv` on a larger instance (6.9 million states) before it was proved.

`FenceSafety` (`[]LeaseHoldsFence`), `RevocationSafety` (`[]RevocationHolds`) and `EffectOrder`
(`Spec => EffectsInFenceOrder`) rest on `FenceInv`, which adds to the two invariants that no effect
is ahead of the fence of its component. The order of effects then follows from the fence that
`commit_effect` compares, since an activation takes the next fence and leaves no other lease.

`RouteExecutor_proofs` (with `LegAssumption`) proves what of this survives the legs:
`LegStartedOnce` (`RouteSpec => []StartedAtMostOnce`), `LegOkStarted` (`[]OkMeansStarted`) and
`LegAnswersStored` (`AnsweredIsStored` as long as `"store_fails"` is not in `Acts`; section 6 has
the case in which it is). `LedgerInv` does not hold here: a leg whose budget ends settles its row
while the call may still be queued or running. `RouteInv` is therefore about rows and about
workers separately. A row (`RowOK`) that was never admitted has no call anywhere, a call that waits
for its thread has not been started and is the only one of its row, and an execution was started
once. A worker past the admission (`WorkerOK`) owns an admitted row that no other worker owns; it
has started nothing before it dispatches and holds a success only for what was started. A call that
outlives the worker keeps its row from being absent, and only an absent row is admitted. Each step
changes one row at most, so lemma `RowChange` serves all of them.

`LedgerRefinement` (`RouteSpec => ImplementsLedger`) is the refinement of `OperationLedger`. The
proof goes through the concrete tables: every step leaves rows and starts alone, admits an absent
row, starts an operation of a row that is neither absent nor lost, settles an admitted row, commits
an effect, or is a boot (`RowsMove`, `RowsBoot`, lemma `RowSteps`), and each of these maps to one
action of the ledger (`LedgerMoves`). `RouteInv` gives that a call about to start was not started
before and that a success was. What it does not give is that nothing of a lost row starts; that is
`LostInv`: a row has no result before it is settled, so that `lost` and `unknown` cannot be confused,
and the call of a lost row is with no thread, as the threads die with the process whose boot finds
the row and calls are handed over for admitted rows only (`CallsMove`).

What the service promises about leases and the record holds with legs as well: `LegLedgerFinal`,
`LegFenceSafety`, `LegRevocationSafety`, `LegEffectOrder`, and `RouteTypeCorrect`
(`RouteSpec => []RouteTypeOK`), for which a worker that serves a leg has to know its session
(`TablesTyped`).

### Component host

`HostSessions_proofs` (`HostAssumption`: any number of activations, processes, connections and
faults) proves `ChildrenSafety` (`[]ChildrenAccounted`), `HandlesSafety` (`[]ListedHandlesEnd`) and
`SessionsLeave` (`[]RetiredSessionLeaves`) from `HostInv`: processes are numbered in the order of
their spawn, only stuck ones run when the event thread spawns, a session is bound to the activation
its process was spawned for, and a session in the table has a thread left that takes it out. The
proof sorts the steps by the thread that takes them.

`HostCalls_proofs` (`CallsAssumption`: any number of calls, components and faults, any limits)
proves `WaitsMatch` (`[]WaitsMatchReplies`), `QuotasStayExact` (`[]QuotasExact`), `RevokedForGood`
(`[]RevokedStaysRevoked`) and `AcceptanceAuthorised` (`Spec => AcceptedWithAuthority`). `CallsInv`
adds what a call is at each point of its way (`Shaped`), that its reply is registered or its notice
is on the way (`ReplyKept`), that a cancel which was answered has left its mark (`CancelKept`) and
that whoever ended the authority of a call about to be accepted revokes it or still owes to
(`AuthorityKept`). The counts are cardinalities of sets of calls: a step that takes or returns a
slot adds or removes one element. The refusals of `Refusal` and `DispatchRefusal` are tested in the
order of the code.

`HostStreams_proofs`, for every finite set of legs and every window, cap and bound
(`StreamAssumption`): `StreamTypeCorrect` (`[]TypeOK`), `TombstoneSafety`
(`Spec => TombstoneHolds`), `RelayOnceSafety` (`[]RelayedOnce`), `WindowSafety`
(`[]WindowOvershoot`) and `CreditSafety` (`[]CreditConserved`). The first four rest on an invariant
of three parts. `Typed` adds to the types what a thread holds
where it is: one that relays has a bound leg, one that sends holds a chunk, a worker that relays
has recorded its leg. `Once`: the chunks that went out, and those between the two locks, are
distinct and below `rst.next`; without the second half a send could repeat a chunk that another
thread still holds. `Window`: `sent` plus the chunks between the two locks stays within `granted`
plus the workers that drained. A check that passes finds `sent + 1 <= granted` and leaves at most
the reader and the drained workers between the locks, a send turns one of them into `sent`; every
other step is `Quiet`, or raises `granted`.

`CreditConserved` relates the window of the host, two queues, both wires and the window of the
executor. It is an inequality, because what is lost with a queue or a link is never credited again.
`CreditInv` adds three facts. Nothing is under way before the stream is bound (`BeforeBind`), or a
bind would find chunks that its fresh window does not account for. The executor has no more room
than its first grant: a lost link makes it start over with that grant, and the room must not shrink
by it. And credits are whole top-ups (`WholeTopUps`), so that the executor's cap is never met in the
middle of one; this is where `TopUpAssumption` is needed, that `MAX_STREAM_BYTES` is a multiple of
`TOPUP` (1048576 and 32768, `route_executor.rs` 546-547). Frames in a queue are counted as positions
(`Count`); lemmas say what appending and taking a frame do to the count (`CountAppend`,
`CountTail`) and how the multiples of a top-up follow each other (`NextMultiple`). With them each
action is arithmetic on the terms of the inequality.

### Link and session

`RouteLink_proofs` (`LinkAssumption`: any number of providers, links, leases, syncs and faults)
proves `FailClosedSafety` (`[]FailClosed`). `LinkInv`: what an open link has registered is the
provider that it names, or stale; a link about to shut its session has withdrawn first; an
operator tears down only links that are closed; links are created in order, so that a new one has
no registration left from an earlier use.

`SessionEngine_proofs` (`SessionAssumption`: any set of waits and any non-empty set of request ids,
any limits) proves `SessionTypeCorrect` (`[]TypeOK`, with the caps on the tables and the uniqueness
of ids in them) and `DetachFreesWaiters` (`[]NoWaiterLeft`). `SessionInv` is the order of
`detach`: the state first, so that a caller who comes later is refused; the waits next; the receiver
last. A caller that was past the check had its slot in `replies`, which the second step empties.

Before they were proved, TLC checked every inductive invariant on the instance of the run of its
module, `RouteInv` with a second operation and `commit_effect` added to that of `RouteLegs`.

### Only model-checked

Liveness (`WithdrawConcludes`, `OperationsReturn`, `LateLeaseRetired`, `InvocationReturns`,
`CallsEnd`, `ClosedLinksEnd`, `LinkRecovers`, `SlotsDrain`): fairness is out of the prover's reach.
`CompletedIsSettled` is a theorem of the unary service alone; with legs it fails
(`TimeoutStaysUnknown`, section 6).

## 6. Further disagreements

While modelling, TLC also refuted these statements; each trace needs a handful of steps of the
specification named and none is among the runs above. Where a name is given, the statement is a
definition of its module.

Kernel and service:

* `UnloadedAtMostOnce` (`KernelLifecycle`): a dispose is "duplicating neither transition nor
  journal" (`kernel.rs` 2869). Of two closes of a parked instance, one has read CleanupPending to
  refresh its cause (`kernel.rs` 1782), the other disposes the instance, the first marks
  CleanupPending and it is unloaded again.
* `EffectAtMostOnce` (`KernelLifecycle`): an effect is "applied exactly once"
  (`KERNEL_VERIFICATION.md` 187). Two commits of one ticket both read Admitted and both push
  (`kernel.rs` 1658).
* `DisposedHoldsNothing` (`KernelLifecycle`): Disposed means no managed resources
  (`docs/CONTRACT.md` 29, I07). A dispose between the creation of an Active context and the
  acquisition of its handle (`kernel.rs` 2518) finds nothing to release; the handle stays.
* `LostRenewalRecovers` (`ManagedService`): a repeated `seq` "replays the current token"
  (`service.rs` 287-289). The retry carries the token that the first renewal removed
  (`service.rs` 312) and is refused.
* `TimeoutStaysUnknown` (`RouteExecutor`): a timeout leaves the row admitted (`service.rs`
  505-506). `run_leg` matches `deadline-exhausted` (`route_executor.rs` 307), the code is
  `deadline-exceeded`: the row is completed with an error while the call may still execute.
* A cancel or an expiry between the checks of `commit_effect` and its push does not stop the push
  (`kernel.rs` 1658), while `calls.rs` 13-15 says that late attempts are rejected:
  `[][\A t \in Ticket : eff'[t] # eff[t] => tst[t] = "Admitted"]_vars`.
* `call_open` compares the in-flight count before it allocates (`kernel.rs` 1339), so `n` threads
  exceed the "maximum in-flight calls" (`calls.rs` 32) by up to `n - 1`. `InflightOvershoot` is the
  bound that holds.
* `fault` over its budget marks the instance Failed with its handle (`kernel.rs` 3395), while
  `context.rs` 233 says that Failed "already went through cleanup".
* Two loads of one id leave two Active generations (`kernel.rs` 2517, 2590), while `kernel.rs` 2797
  says "no overlap".
* A repeated `call.open` of a leg whose stored result is an error is answered `ok`
  (`route_executor.rs` 159): `\A k \in Key : led[k] = "completed" => told[k] \subseteq {res[k], "unknown"}`.
* A cancel that arrives after `run_leg` has looked for it and before the row is finished has no
  effect (`route_executor.rs` 302), while 355-358 promise "never a false ok".
* Settled legs stay in the table (`route_executor.rs` 326), while line 39 says that they are
  removed: a route that has settled `max_legs` operations refuses all further ones.
* `run_leg` drops an error of `Store::finish` (`route_executor.rs` 315): with `"store_fails"` in
  `Acts`, `AnsweredIsStored` does not hold.

Host:

* A shutdown between the kill and the spawn of the event thread leaves a spawned process
  (`lib.rs` 516-535, 586). `ChildrenAccounted` therefore says nothing of a host that was shut down
  beyond the table of children.
* With a queued Activated event of the next generation, two sessions can be published for one
  instance, and dropping the first removes the binding of the second (`lib.rs` 763).
* A handle acquired while its session is dropped stays in the kernel, unlisted (`lib.rs` 1518-1539):
  `ListedHandlesEnd` is about listed ones.
* A failed activation of an old session kills the child of its successor, as children are killed by
  name (`lib.rs` 1291-1322); `transact` takes the notice that the session is gone for success.
* The result of a grandchild is accepted after the cancel of its root has returned (`calls.rs` 296
  revokes one level), while `docs/M6.1-SPEC.md` 71 has authority end with the root.
* `LateFramesIgnored` (`HostStreams`): "late frames after terminal are ignored"
  (`route_executor.rs`, `on_stream_data`). Control overtakes data on the link, so a terminal can
  arrive before the first chunk and is forgotten; the chunk then opens the stream.
* `AbortedStreamEnds` (`HostStreams`): "revoked/cancelled legs release their windows" (`lib.rs`
  3047-3048). A bind that saw the leg before the abort binds the stream after it.
* "Skew either way converges without timers or retries" (`lib.rs` 2911): a chunk parked after the
  leg's drain and before its next frame stays until it expires. Relays of two threads can leave
  in another order than the chunks arrived in, and the later ones are then dropped by the executor.

Route and session:

* `OneSessionPerPeer` (`RouteLink`): the manager "owns one TLS session per executor peer"
  (`route_controller.rs` 3). An attach that is under way when its link is torn down, or a second
  round, replaces a session without shutting it down.
* `NoBindingOutlivesRoute` (`RouteLink`): "no binding outlives its route" (`route_controller.rs`
  141). An attach that looked at the route before an edit registers after it.
* An edit of the route of an existing link attaches the new provider only after a failure
  (`route_controller.rs` 196-197), and may register it under the lease of the old one.
* "New routes over existing links need no worker restart: attach reconciles the full route table each
  round" (`route_controller.rs` 196-197), and a registration that a reload withdraws is "stale until
  the next attach-reconcile re-attests it" (`kernel.rs` 2778-2779). A reload installs every routed
  definition again (`api.rs` 749-752), with an unchanged route too, which removes the registration;
  the reconcile only refreshes registrations that exist, and no attach comes while the link lives.
  `LinkRecovers` without this excuse is refuted in 19 states.
* A late revoke notice removes a newer registration, which nothing restores (`route_controller.rs`
  680); the worker of a removed link can withdraw the registration of its successor.
* "Lost responses replay" (`route_controller.rs` 642): the sequence number advances at every
  attempt, and an error tears the link down.
* `LateNeverResolvesNewer` (`SessionEngine`): "a late answer never resolves a newer wait"
  (`session.rs` 368-372) fails when a request id is used again, as a duplicate is refused only
  while the first is in `replies`. A request that cannot be encoded leaves its slot until it
  expires (`session.rs` 397).

## 7. Not modelled

* Journal text, audit events, metrics and snapshots: written, never read by a decision.
* Framing, envelopes, TLS and the handshake, validation of single messages: sequential data code
  with test vectors. `encode` appears where its failure changes state (`EncodeFails`).
* Operating system isolation and the restart budget (`matrix-guard`): system calls, and a sliding
  window that one thread keeps.
* The operator API and `matrix-rt` beyond their threads; the SDKs, which are clients of the
  protocol in other languages; `matrix-conform`, a test tool.
* Definitions with requirements (the dependency graph and `reconcile` over it): a chain of three
  instances under two threads is beyond TLC at the grain of `KernelLifecycle`.
* `reload` and `reset_bench`, pins and batches of resources, events of components and their
  subscriptions beyond the push at attach.
