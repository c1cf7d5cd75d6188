-------------------------- MODULE MCPortalSessions --------------------------
(* Small instance of PortalSessions: two users, two sessions, one awaited form. *)
EXTENDS PortalSessions, TLC

MCAccount == {[role |-> "admin", password |-> 1], [role |-> "admin", password |-> 2],
              [role |-> "viewer", password |-> 1]}
MCFounders == {a \in MCAccount : a.password = 1}
Symmetry == Permutations(User) \cup Permutations(Token)
=============================================================================
