--------------------------- MODULE AdmissionGate ---------------------------
(***************************************************************************)
(* What the kernel promises the clients of an activation, whatever the     *)
(* threads do: a call is admitted only while the activation is open; when  *)
(* the activation is reported withdrawn, no call has authority any more;   *)
(* its resources are released only when no client holds a call.  Neither   *)
(* an open activation nor a released resource ever comes back.             *)
(*                                                                         *)
(* This is the contract of docs/CONTRACT.md (I02, I07) that                *)
(* KernelLifecycle implements.                                             *)
(***************************************************************************)
CONSTANTS Inst, Ticket

VARIABLES
    phase,     \* phase of every activation
    holders,   \* the calls of an activation that clients hold
    auth,      \* those of them that may still have an effect
    released   \* activations whose resources have been released

vars == <<phase, holders, auth, released>>

Phase == {"shut", "open", "closing", "withdrawn", "failed"}

TypeOK ==
    /\ phase \in [Inst -> Phase]
    /\ holders \in [Inst -> SUBSET Ticket]
    /\ auth \in [Inst -> SUBSET Ticket]
    /\ released \subseteq Inst

Init ==
    /\ phase = [i \in Inst |-> "shut"]
    /\ holders = [i \in Inst |-> {}]
    /\ auth = [i \in Inst |-> {}]
    /\ released = {}

Activate(i) ==
    /\ phase[i] = "shut"
    /\ phase' = [phase EXCEPT ![i] = "open"]
    /\ UNCHANGED <<holders, auth, released>>

\* A call is handed out, possibly after another client cancelled it.
Grant(i, t) ==
    /\ phase[i] = "open"
    /\ holders' = [holders EXCEPT ![i] = @ \cup {t}]
    /\ auth' \in {auth, [auth EXCEPT ![i] = @ \cup {t}]}
    /\ UNCHANGED <<phase, released>>

\* Calls commit, are cancelled or expire, and are closed.
Spend ==
    /\ \A i \in Inst : holders'[i] \subseteq holders[i] /\ auth'[i] \subseteq auth[i]
    /\ UNCHANGED <<phase, released>>

Withdraw(i) ==
    /\ phase[i] \in {"shut", "open"}
    /\ phase' = [phase EXCEPT ![i] = "closing"]
    /\ UNCHANGED <<holders, auth, released>>

Settle(i) ==
    /\ phase[i] \in {"closing", "failed"}
    /\ auth[i] = {}
    /\ phase' = [phase EXCEPT ![i] = "withdrawn"]
    /\ UNCHANGED <<holders, auth, released>>

Release(i) ==
    /\ phase[i] \notin {"shut", "open"}
    /\ holders[i] = {}
    /\ released' = released \cup {i}
    /\ UNCHANGED <<phase, holders, auth>>

Fail(i) ==
    /\ phase' = [phase EXCEPT ![i] = "failed"]
    /\ UNCHANGED <<holders, auth, released>>

Next ==
    \/ \E i \in Inst : \/ Activate(i) \/ Withdraw(i) \/ Settle(i)
                       \/ Release(i) \/ Fail(i)
                       \/ \E t \in Ticket : Grant(i, t)
    \/ Spend

Spec == Init /\ [][Next]_vars
=============================================================================
