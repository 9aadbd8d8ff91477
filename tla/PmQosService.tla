---------------------------- MODULE PmQosService ----------------------------
(***************************************************************************)
(* What TimeoutPoker promises, without threads, events or descriptors.  A  *)
(* request is asked for, then granted or refused, and a granted constraint *)
(* is in force until it is released:                                       *)
(*   - a timed one never before its timeout has passed since the grant;    *)
(*   - one with a handle only after its owner has dropped the handle, or   *)
(*     if the handle could not be made and was never given to anyone;      *)
(*   - a direct one by its owner.                                          *)
(* A release may be late: the service promises a least duration and that   *)
(* the release comes, not when.                                            *)
(***************************************************************************)
EXTENDS Integers

CONSTANTS TimedRequests, HandleRequests, DirectRequests, Timeout

Requests == TimedRequests \cup HandleRequests \cup DirectRequests
Owned == HandleRequests \cup DirectRequests

VARIABLES
    phase,   \* where each request is
    left,    \* how long each timed constraint must still be in force
    owner,   \* whether the owner has, or has dropped, what it was given
    uptime   \* the parity of the clock: it changes when a unit has passed

vars == <<phase, left, owner, uptime>>

Init ==
    /\ phase = [r \in Requests |-> "idle"]
    /\ left = [r \in TimedRequests |-> 0]
    /\ owner = [r \in Owned |-> "none"]
    /\ uptime = 0

Moves(r, from, to) == phase[r] = from /\ phase' = [phase EXCEPT ![r] = to]

Ask(r) == Moves(r, "idle", "asked") /\ UNCHANGED <<left, owner>>

Refuse(r) == Moves(r, "asked", "over") /\ UNCHANGED <<left, owner>>

GrantTimed(r) ==
    /\ Moves(r, "asked", "active")
    /\ left' = [left EXCEPT ![r] = Timeout[r]]
    /\ UNCHANGED owner

GrantHandle(r) == Moves(r, "asked", "active") /\ UNCHANGED <<left, owner>>

Expire(r) ==
    /\ left[r] = 0
    /\ Moves(r, "active", "over")
    /\ UNCHANGED <<left, owner>>

Give(r) ==
    /\ phase[r] = "active"
    /\ owner[r] = "none"
    /\ owner' = [owner EXCEPT ![r] = "has"]
    /\ UNCHANGED <<phase, left>>

Drop(r) ==
    /\ owner[r] = "has"
    /\ owner' = [owner EXCEPT ![r] = "dropped"]
    /\ UNCHANGED <<phase, left>>

(* The owner dropped its handle, or there never was one. *)
Release(r) ==
    /\ owner[r] # "has"
    /\ Moves(r, "active", "over")
    /\ UNCHANGED <<left, owner>>

(* A direct request is granted, or refused, and released on the spot. *)
Take(r) ==
    /\ \/ Moves(r, "idle", "active") /\ owner' = [owner EXCEPT ![r] = "has"]
       \/ Moves(r, "idle", "over") /\ UNCHANGED owner
    /\ UNCHANGED left

GiveBack(r) ==
    /\ owner[r] = "has"
    /\ Moves(r, "active", "over")
    /\ owner' = [owner EXCEPT ![r] = "dropped"]
    /\ UNCHANGED left

(* A unit of time passes, and counts for each timed constraint or (the     *)
(* service may be late) not.  Nothing else brings an expiry nearer.        *)
Tick ==
    /\ uptime' = 1 - uptime
    /\ left' \in [TimedRequests -> Nat]
    /\ \A r \in TimedRequests :
          left'[r] = left[r] \/ left'[r] = left[r] - 1
    /\ UNCHANGED <<phase, owner>>

Serve ==
    \/ \E r \in TimedRequests :
          Ask(r) \/ Refuse(r) \/ GrantTimed(r) \/ Expire(r)
    \/ \E r \in HandleRequests :
          \/ Ask(r) \/ Refuse(r) \/ GrantHandle(r)
          \/ Give(r) \/ Drop(r) \/ Release(r)
    \/ \E r \in DirectRequests : Take(r) \/ GiveBack(r)

Next == (Serve /\ UNCHANGED uptime) \/ Tick

Spec == Init /\ [][Next]_vars
=============================================================================
