---------------------------- MODULE MCEventLoop ----------------------------
(* Drivers and listeners for the run of EventLoop *)
EXTENDS EventLoop

(***************************************************************************)
(* A driver that answers everything, with a listener for lines and errors; *)
(* and one that answers what it must, with a listener for lines, and one   *)
(* for room in the output buffer as well.                                  *)
(***************************************************************************)
Minimal == Request \ {"TIOCSERGETLSR", "TIOCGICOUNT"}
Beginnings ==
  {[answers |-> Request, asked |-> {"CTS", "FE"}],
   [answers |-> Minimal, asked |-> {"CTS"}],
   [answers |-> Minimal, asked |-> {"CTS", "output"}]}
=============================================================================
