-------------------------- MODULE MCCollabSession --------------------------
(* CollabSession for TLC: one user with two sockets (a reload), others with one. *)
EXTENDS CollabSession, TLC

CONSTANTS a1, a2, b1, c1, alice, bob, carol

MCUserOf == (a1 :> alice) @@ (a2 :> alice) @@ (b1 :> bob) @@ (c1 :> carol)

\* The two sockets of alice are interchangeable: nothing distinguishes them.
MCSockets == Permutations({a1, a2})
=============================================================================
