------------------------------- MODULE Lease -------------------------------
(***************************************************************************)
(* What every ownership mechanism of the serial library promises: a        *)
(* resource has at most one holder, and it passes from one holder to the   *)
(* next only by being given back in between.  The resources are port       *)
(* identifiers (CommPortIdentifier.Owner) or devices (the lock file); the  *)
(* modules that implement them instantiate this one.                       *)
(***************************************************************************)
CONSTANTS
  Resource,   \* what is leased
  Client,     \* who may hold it
  Nobody      \* the holder of a free resource

VARIABLE holder   \* the holder of each resource

TypeOK == holder \in [Resource -> Client \union {Nobody}]

Init == holder = [r \in Resource |-> Nobody]

Acquire(r, c) ==
  /\ holder[r] = Nobody
  /\ holder' = [holder EXCEPT ![r] = c]

(***************************************************************************)
(* Several leases may end at once: a rescan forgets every identifier that  *)
(* is no longer listed, and a process that dies drops all it held.         *)
(***************************************************************************)
Release(S) ==
  holder' = [r \in Resource |-> IF r \in S THEN Nobody ELSE holder[r]]

Next ==
  \/ \E r \in Resource, c \in Client : Acquire(r, c)
  \/ \E S \in SUBSET Resource : Release(S)

Spec == Init /\ [][Next]_holder

=============================================================================
