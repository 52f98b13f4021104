----------------------------- MODULE AtomicStore -----------------------------
(***************************************************************************)
(* What the virtual EEPROM promises its callers when its medium replaces a *)
(* sector in one go: a store of named fields in which a request to write   *)
(* either takes effect at once, on the requested fields only, or not at    *)
(* all, whatever happens in between (a failing call, a power loss).        *)
(***************************************************************************)
CONSTANTS Fields,   \* the named fields of the store
          Vals      \* what a field may hold

VARIABLES store,    \* [Fields -> Vals]
          pending   \* the requests under way: partial functions Fields -> Vals

vars == <<store, pending>>

(* A request names the fields it replaces and their new values. *)
Requests == UNION {[F -> Vals] : F \in SUBSET Fields}

(* The store once request r has taken effect. *)
Apply(s, r) == [f \in Fields |-> IF f \in DOMAIN r THEN r[f] ELSE s[f]]

Init == /\ store \in [Fields -> Vals]
        /\ pending = {}

(* A caller starts a request. *)
Begin == \E r \in Requests : /\ pending' = pending \cup {r}
                             /\ UNCHANGED store

(* A request under way takes effect, all of it in one step. *)
Commit == \E r \in pending : /\ store' = Apply(store, r)
                             /\ UNCHANGED pending

(* Requests end, or are cut short, having taken effect or not. *)
End == /\ pending' \in SUBSET pending
       /\ UNCHANGED store

Next == End \/ Commit \/ Begin

Spec == Init /\ [][Next]_vars
=============================================================================
