-------------------------- MODULE OperationLedger --------------------------
(***************************************************************************)
(* What the managed runtime promises about the operations of its           *)
(* principals, whoever asks for them, over unary requests or over the legs *)
(* of remote sessions: an operation is admitted once and settled once, its *)
(* provider begins once at most and never before the admission, a success  *)
(* is one of a provider that has begun, and an operation that a boot finds *)
(* in flight is lost: its outcome stays unknown, and it never begins later.*)
(*                                                                         *)
(* This is the "non-replaying operation ledger" of store.rs and the rule   *)
(* I10 of docs/CONTRACT.md, which RouteExecutor implements.                *)
(***************************************************************************)
CONSTANT Key   \* operations of principals

VARIABLES
    row,    \* what is known of every operation
    begun   \* whether its provider has begun

vars == <<row, begun>>

Row == {"absent", "admitted", "ok", "err", "unknown", "lost"}

TypeOK == row \in [Key -> Row] /\ begun \in [Key -> BOOLEAN]

Init ==
    /\ row = [k \in Key |-> "absent"]
    /\ begun = [k \in Key |-> FALSE]

Admit(k) ==
    /\ row[k] = "absent"
    /\ row' = [row EXCEPT ![k] = "admitted"]
    /\ UNCHANGED begun

\* The provider may begin late, after its client was given an outcome.
Begin(k) ==
    /\ row[k] \notin {"absent", "lost"}
    /\ ~begun[k]
    /\ begun' = [begun EXCEPT ![k] = TRUE]
    /\ UNCHANGED row

Settle(k, r) ==
    /\ row[k] = "admitted"
    /\ r = "ok" => begun[k]
    /\ row' = [row EXCEPT ![k] = r]
    /\ UNCHANGED begun

\* An effect is admitted, takes place and succeeds at once.
Effect(k) ==
    /\ row[k] = "absent"
    /\ row' = [row EXCEPT ![k] = "ok"]
    /\ begun' = [begun EXCEPT ![k] = TRUE]

Boot ==
    /\ row' = [k \in Key |-> IF row[k] = "admitted" THEN "lost" ELSE row[k]]
    /\ UNCHANGED begun

Next ==
    \/ \E k \in Key : \/ Admit(k) \/ Begin(k) \/ Effect(k)
                      \/ \E r \in {"ok", "err", "unknown"} : Settle(k, r)
    \/ Boot

Spec == Init /\ [][Next]_vars
=============================================================================
