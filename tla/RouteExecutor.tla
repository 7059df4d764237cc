---------------------------- MODULE RouteExecutor ----------------------------
(***************************************************************************)
(* The executor side of remote composition                                 *)
(* (crates/matrix-runtime/src/route_executor.rs) on top of ManagedService: *)
(* remote sessions open, repeat and cancel calls, each served by a thread, *)
(* against the same leases, kernel and ledger as unary requests.           *)
(*                                                                         *)
(* A Route is a session of a principal.  A session that is lost sends no   *)
(* more; its legs go on, as the threads hold the Route.                    *)
(*                                                                         *)
(* Left out: streams, events, inventory, op.query (which only reads) and   *)
(* the call.accepted that precedes every answer.                           *)
(***************************************************************************)
EXTENDS ManagedService

CONSTANTS
    Session,    \* sessions that a principal may have
    NoSession,  \* the session of a worker that serves no leg
    MaxLegs     \* Route::max_legs

ASSUME LegAssumption == MaxLegs \in Nat

VARIABLES
    legs,       \* Route::legs of every route
    cancelled,  \* Route::cancelled of every route
    via,        \* workers: the session of the leg
    queue       \* calls handed to a "matrix-route-invoke" thread, not yet in the kernel

routeVars == <<legs, cancelled, via, queue>>
allVars == <<vars, routeVars>>

\* An operation on a route.
Leg == Session \X Principal \X Op

\* The leg that a worker serves.
LegOf(w) == <<via[w], job[w].p, job[w].o>>

LegsOn(s, p) == {l \in legs : l[1] = s /\ l[2] = p}

----------------------------------------------------------------------------
(* on_call_open                                                             *)

\* A leg in the table is answered from the ledger: ok when its row is completed,
\* whatever the result, else unknown.
LegReplay(s, p, o) ==
    /\ <<s, p, o>> \in legs
    /\ Tell(<<p, o>>, IF led[<<p, o>>] = "completed" THEN "ok" ELSE "unknown")
    /\ UNCHANGED <<storeVars, stateVars, kernelVars, exec, starts, workVars, routeVars>>

\* A new leg: refused when the table is full (without a trace here), else the lease is
\* read.
LegOpen(w, s, p, o, t) ==
    /\ pc[w] = "idle"
    /\ <<s, p, o>> \notin legs
    /\ Cardinality(LegsOn(s, p)) < MaxLegs
    /\ Valid(p, t)
    /\ job' = [job EXCEPT ![w] = [p |-> p, o |-> o, c |-> lease[t].c, f |-> lease[t].f,
                                  i |-> lease[t].i]]
    /\ via' = [via EXCEPT ![w] = s]
    /\ Goto(w, "leg_admit")
    /\ UNCHANGED <<storeVars, stateVars, kernelVars, execVars, out, legs, cancelled, queue>>

LegAdmit(w) ==
    /\ pc[w] = "leg_admit"
    /\ Admit(w, "leg_current", res[Id(w)])
    /\ via' = [via EXCEPT ![w] = IF pc'[w] = "idle" THEN NoSession ELSE @]
    /\ UNCHANGED <<fence, eff, barred, epoch, stateVars, kernelVars, exec, starts, legs,
                   cancelled, queue>>

----------------------------------------------------------------------------
(* run_leg                                                                  *)

\* finish, whose failure is ignored, and the answer.
Settle(w, r) ==
    /\ \/ Finish(Id(w), r = "unknown", r)
       \/ "store_fails" \in Acts /\ LedgerUnchanged
    /\ Tell(Id(w), r)
    /\ Done(w)
    /\ via' = [via EXCEPT ![w] = NoSession]
    /\ UNCHANGED <<fence, eff, barred, epoch, stateVars, kernelVars, exec, starts>>

\* The activation is superseded, or a cancel came while opening.
LegRefuse(w) ==
    /\ pc[w] = "leg_current"
    /\ \/ inst[job[w].c] # job[w].i /\ Settle(w, "err")
       \/ inst[job[w].c] = job[w].i /\ LegOf(w) \in cancelled /\ Settle(w, "unknown")
    /\ UNCHANGED <<legs, cancelled, queue>>

\* The call goes to a thread of its own.
LegDispatch(w) ==
    /\ pc[w] = "leg_current"
    /\ inst[job[w].c] = job[w].i
    /\ LegOf(w) \notin cancelled
    /\ queue' = queue \cup {<<Id(w), job[w].c, job[w].i>>}
    /\ Goto(w, "leg_wait")
    /\ UNCHANGED <<storeVars, stateVars, kernelVars, execVars, job, out, legs, cancelled, via>>

\* Kernel::invoke_for_ref on that thread, however late; it may refuse, as in Dispatch.
LegExecute(q) ==
    /\ q \in queue
    /\ queue' = queue \ {q}
    /\ \/ /\ q[2] \in active /\ inst[q[2]] = q[3]
          /\ exec' = [exec EXCEPT ![q[1]] = "running"]
          /\ starts' = [starts EXCEPT ![q[1]] = Saturate(@)]
       \/ /\ exec' = [exec EXCEPT ![q[1]] = "refused"]
          /\ UNCHANGED starts
    /\ UNCHANGED <<storeVars, stateVars, kernelVars, told, workVars, legs, cancelled, via>>

\* Defect for mutation: the flag of invoke_for_ref is dropped, any answer is a success.
LegWaitAnyOk(w) ==
    /\ pc[w] = "leg_wait"
    /\ \/ Await(w, "leg_recheck", TRUE)
       \/ /\ exec[Id(w)] = "refused"
          /\ out' = [out EXCEPT ![w] = "ok"]
          /\ Goto(w, "leg_recheck")
          /\ UNCHANGED job
    /\ UNCHANGED <<storeVars, stateVars, kernelVars, execVars, routeVars>>

\* invoke_with_budget: the result of the thread, or the end of the budget.
LegWait(w) ==
    /\ pc[w] = "leg_wait"
    /\ \/ Await(w, "leg_recheck", TRUE)
       \/ /\ exec[Id(w)] = "refused"
          /\ out' = [out EXCEPT ![w] = "err"]
          /\ Goto(w, "leg_recheck")
          /\ UNCHANGED job
    /\ UNCHANGED <<storeVars, stateVars, kernelVars, execVars, routeVars>>

\* The cancel mark and the lease are read before the result is stored.
LegRecheck(w) ==
    /\ pc[w] = "leg_recheck"
    /\ out' = [out EXCEPT ![w] =
                  IF LegOf(w) \in cancelled \/ ~LeaseLive(job[w]) THEN "unknown" ELSE @]
    /\ Goto(w, "leg_finish")
    /\ UNCHANGED <<storeVars, stateVars, kernelVars, execVars, job, routeVars>>

\* What run_leg makes of an outcome: a deadline counts as an error of the provider, as
\* the code of invoke_with_budget ("deadline-exceeded") is not the one that the match
\* names ("deadline-exhausted").
LegResult(r) == IF r = "timeout" THEN "err" ELSE r

\* Defect for mutation: the row follows a last look at the cancel mark, the answer
\* does not.
LegFinishLastLook(w) ==
    LET r == LegResult(out[w])
        stored == IF LegOf(w) \in cancelled THEN "unknown" ELSE r
    IN /\ pc[w] = "leg_finish"
       /\ Finish(Id(w), stored = "unknown", stored)
       /\ Tell(Id(w), r)
       /\ Done(w)
       /\ via' = [via EXCEPT ![w] = NoSession]
       /\ cancelled' = cancelled \ {LegOf(w)}
       /\ legs' = IF r = "unknown" THEN legs ELSE legs \cup {LegOf(w)}
       /\ UNCHANGED <<fence, eff, barred, epoch, stateVars, kernelVars, exec, starts, queue>>


LegFinish(w) ==
    LET r == LegResult(out[w])
    IN /\ pc[w] = "leg_finish"
       /\ Settle(w, r)
       /\ cancelled' = cancelled \ {LegOf(w)}
       /\ legs' = IF r = "unknown" THEN legs ELSE legs \cup {LegOf(w)}
       /\ UNCHANGED queue

----------------------------------------------------------------------------
\* on_call_cancel: any operation, known or not.
Cancel(s, p, o) ==
    /\ cancelled' = cancelled \cup {<<s, p, o>>}
    /\ UNCHANGED <<vars, legs, via, queue>>

\* A boot has no routes.
RouteRestart ==
    /\ Restart
    /\ legs' = {} /\ cancelled' = {} /\ queue' = {}
    /\ via' = [w \in Worker |-> NoSession]

RouteInit ==
    /\ Init
    /\ legs = {} /\ cancelled = {} /\ queue = {}
    /\ via = [w \in Worker |-> NoSession]

LegServe(w) ==
    \/ LegAdmit(w) \/ LegRefuse(w) \/ LegDispatch(w) \/ LegWait(w) \/ LegRecheck(w)
    \/ LegFinish(w)

LegReceive(w) ==
    \E s \in Session, p \in Principal, o \in Op, t \in Token : LegOpen(w, s, p, o, t)

\* Steps of the service beside the routes.
ServiceStep ==
    \/ Control \/ Tick \/ Environment
    \/ \E w \in Worker : Receive(w) \/ Serve(w)

RouteNext ==
    \/ ServiceStep /\ UNCHANGED routeVars
    \/ RouteRestart
    \/ \E w \in Worker : LegReceive(w) \/ LegServe(w)
    \/ \E q \in queue : LegExecute(q)
    \/ \E s \in Session, p \in Principal, o \in Op : LegReplay(s, p, o) \/ Cancel(s, p, o)

RouteSpec == RouteInit /\ [][RouteNext]_allVars

\* Threads that serve a leg keep running, beside the fairness of the service.
RouteFairSpec ==
    /\ RouteSpec
    /\ Fairness
    /\ \A w \in Worker : WF_allVars(LegServe(w))

----------------------------------------------------------------------------
(* Properties.                                                              *)

\* The type invariant.
RouteTypeOK ==
    /\ TypeOK
    /\ legs \subseteq Leg
    /\ cancelled \subseteq Leg
    /\ via \in [Worker -> Session \cup {NoSession}]
    /\ \A q \in queue : q \in Key \X Component \X (1..MaxInst)

\* A row holds a success only when the provider was started, also when the kernel
\* refuses the call on the thread that run_leg has handed it to, or gets it late.
OkMeansStarted == \A k \in Key : res[k] = "ok" => starts[k] = 1

\* An answer other than unknown is stored before it is given, as long as the store
\* works ("durable acknowledgements come from this store", store.rs:3).
AnsweredIsStored ==
    \A k \in Key : told[k] \cap {"ok", "err"} # {} => led[k] = "completed"

----------------------------------------------------------------------------
(* The ledger, as unary requests and legs use it, implements                *)
(* OperationLedger.                                                         *)

\* Store::open marks what it finds admitted as unknown and stores no result; a run that
\* ends in doubt stores one.
Lost(k) == led[k] = "unknown" /\ res[k] = "none"

RowOf(k) == IF led[k] = "completed" THEN res[k] ELSE IF Lost(k) THEN "lost" ELSE led[k]

Operations == INSTANCE OperationLedger WITH
    row <- [k \in Key |-> RowOf(k)],
    begun <- [k \in Key |-> starts[k] = 1]

\* However unary requests, legs of several sessions, threads that reach the kernel late
\* and boots interleave, an operation is admitted, begun and settled once, a success was
\* begun, and what a boot finds in flight never begins.
ImplementsLedger == Operations!Spec

----------------------------------------------------------------------------
(* A statement of the repository that the code does not keep.               *)

\* service.rs:505-506 on invoke_with_budget: "A timeout here means unknown, never a
\* replay: the ledger entry stays `admitted`".  No row is completed while its call may
\* still execute, or has yet to.
TimeoutStaysUnknown ==
    \A k \in Key : led[k] = "completed" => exec[k] # "running" /\ \A q \in queue : q[1] # k

=============================================================================
