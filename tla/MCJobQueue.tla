----------------------------- MODULE MCJobQueue -----------------------------
(* Finite instances of JobQueue for TLC. *)
EXTENDS JobQueue, TLC

CONSTANTS c1, c2, s1, s2

(* Two commands about the same service: a second caller or another request
   conflicts. *)
SameService == [c \in Commands |-> s1]

=============================================================================
