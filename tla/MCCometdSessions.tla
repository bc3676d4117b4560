---- MODULE MCCometdSessions ----
(* Sockets are interchangeable. *)
EXTENDS CometdSessions, TLC

Symmetry == Permutations(Conns)
====
