---------------------------- MODULE KeyedVector ----------------------------
(***************************************************************************)
(* android::KeyedVector as a function on its keys (libutils: external).    *)
(***************************************************************************)
EmptyVector == [k \in {} |-> k]

(* add(): a key that is already there gets the new value. *)
Added(v, key, x) ==
    [k \in DOMAIN v \cup {key} |-> IF k = key THEN x ELSE v[k]]

(* removeItem() *)
Removed(v, key) == [k \in DOMAIN v \ {key} |-> v[k]]
=============================================================================
