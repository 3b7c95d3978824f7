----------------------------- MODULE SetUpPorts -----------------------------
(***************************************************************************)
(* What the static calls of RXTXPort promise: settings made before a port  *)
(* is opened are kept, each port's apart from the others', until the port  *)
(* is opened, and opening it changes nothing of them.                      *)
(***************************************************************************)
CONSTANTS
  Name,     \* the ports
  Setting,  \* the settings a port can have
  None      \* nothing is kept, or the port is not open

VARIABLES
  kept,     \* per port: the settings that wait for it to be opened
  opened    \* per port: the settings it has been opened with

vars == <<kept, opened>>

TypeOK == kept \in [Name -> Setting \union {None}] /\ opened \in [Name -> Setting \union {None}]

Init ==
  /\ kept = [n \in Name |-> None]
  /\ opened = [n \in Name |-> None]

SetUp(n) ==
  /\ opened[n] = None
  /\ \E s \in Setting : kept' = [kept EXCEPT ![n] = s]
  /\ UNCHANGED opened

(* A query, or a call that is refused, gives up what was kept. *)
GiveUp(n) ==
  /\ kept' = [kept EXCEPT ![n] = None]
  /\ UNCHANGED opened

Open(n) ==
  /\ opened[n] = None
  /\ \E s \in Setting :
       /\ kept[n] # None => s = kept[n]
       /\ opened' = [opened EXCEPT ![n] = s]
  /\ kept' = [kept EXCEPT ![n] = None]

Close(n) ==
  /\ opened' = [opened EXCEPT ![n] = None]
  /\ UNCHANGED kept

Next == \E n \in Name : SetUp(n) \/ GiveUp(n) \/ Open(n) \/ Close(n)

Spec == Init /\ [][Next]_vars
=============================================================================
