---------------------------- MODULE DurableValue ----------------------------
(* What a node's persistent stores promise: one value, replaced as a whole. *)
(* A power cut at any moment leaves the value that was stored or the one    *)
(* being stored, and an update that was reported done is never lost.        *)
CONSTANTS Value, None

VARIABLES
  stored,   \* what the node would find if it lost power now
  pending,  \* what an update in progress stores, or None
  used      \* what the running node works with, or None

vars == <<stored, pending, used>>

Init == stored \in Value \cup {None} /\ pending = None /\ used = None

Begin ==
  /\ pending = None
  /\ pending' \in Value
  /\ UNCHANGED <<stored, used>>

(* The instant from which a power cut yields the new value. *)
Take ==
  /\ pending # None
  /\ stored' = pending
  /\ UNCHANGED <<pending, used>>

Confirm ==
  /\ pending # None
  /\ stored' = pending /\ used' = pending /\ pending' = None

(* An update that fails may still have taken effect, but no later. *)
Abandon ==
  /\ pending # None
  /\ stored' \in {stored, pending} /\ pending' = None
  /\ UNCHANGED used

Read ==
  /\ stored # None
  /\ used' = stored
  /\ UNCHANGED <<stored, pending>>

PowerLoss ==
  /\ used' = None /\ pending' = None
  /\ UNCHANGED stored

Next == Begin \/ Take \/ Confirm \/ Abandon \/ Read \/ PowerLoss

Spec == Init /\ [][Next]_vars
=============================================================================
