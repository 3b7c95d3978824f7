-------------------------- MODULE MCPortOwnership --------------------------
(* Properties, symmetry and view for the runs of PortOwnership *)
EXTENDS PortOwnership, TLC

(* The properties name no port, or they name the serial ports. *)
NoFile == {<<>>}
EitherWay == NoFile \union {"serial" :> Name}

Symmetry == Permutations(Thread) \union Permutations(Gen) \union Permutations(Port)

(***************************************************************************)
(* Two states that differ only in garbage objects are the same: the fields *)
(* of an object are set when it is created, before anything reads them.    *)
(***************************************************************************)
Live(f, S) == [x \in S |-> f[x]]
LiveId == {id \in Id : id \in Reachable}
LivePort == {p \in Port : ~UnusedPort(p)}
View ==
  <<listed, Live(Available, LiveId), Live(Owner, LiveId), Live(commport, LiveId),
    scanVars, Live(fd, LivePort), Live(name, LivePort), Live(closeLock, LivePort),
    returned, worldVars, threadVars>>

=============================================================================
