----------------------------- MODULE MCMkImage -----------------------------
EXTENDS MkImage

CONSTANTS p, q

(* Nothing, a word and a half, and a file for execution in place *)
FileContents ==
  {<<>>, <<{}, {1, 2}, {7}, {}, {3}, {}>>, Reserved \o <<{2}, {}>>}

(* A kernel, two files, a script for execution in place, a list, and two *)
(* command lines that are refused                                        *)
Commands ==
  {[Defaults EXCEPT !.d = <<p>>, !.a = 32768, !.n = [i \in 1 .. 33 |-> {6}]],
   [Defaults EXCEPT !.d = <<p, q>>, !.T = "multi", !.A = "arm", !.C = "none"],
   [Defaults EXCEPT !.d = <<q>>, !.T = "script", !.x = TRUE],
   [Defaults EXCEPT !.l = TRUE],
   [Defaults EXCEPT !.d = <<q>>, !.x = TRUE, !.a = 65520],
   [Defaults EXCEPT !.d = <<q>>, !.O = "android"]}
=============================================================================
