----------------------------- MODULE GrantChain -----------------------------
(***************************************************************************)
(* What the authorization server promises about an authorization-code      *)
(* grant (docs/OAUTH.md, "Refresh-token reuse detection"): a grant is one   *)
(* chain of refresh tokens.  At any time at most one token of the chain     *)
(* can be exchanged, each token is exchanged at most once and for exactly   *)
(* one successor, and a chain that has ended never starts again.            *)
(*                                                                         *)
(* Nothing here knows about tables, limits, threads or the reasons a chain  *)
(* ends (expiry, sign-out, reuse, revocation, eviction).                    *)
(***************************************************************************)
EXTENDS Naturals

CONSTANT Grant          \* identities of authorization codes

VARIABLES usable,       \* grant -> its exchangeable refresh token, 0 for none
          begun,        \* grants that ever produced a token
          last          \* the newest token handed out; tokens are numbered

vars == <<usable, begun, last>>

TypeOK == /\ usable \in [Grant -> Nat]
          /\ begun \subseteq Grant
          /\ last \in Nat

Init == /\ usable = [g \in Grant |-> 0]
        /\ begun = {}
        /\ last = 0

\* Any set of chains may end, alone or in the step that extends another one.
Ended(dead) == [g \in Grant |-> IF g \in dead THEN 0 ELSE usable[g]]

\* The first token of a grant: a code is exchanged once in its life.
Open(g, dead) == /\ g \notin begun
                 /\ begun' = begun \cup {g}
                 /\ last' = last + 1
                 /\ usable' = [Ended(dead) EXCEPT ![g] = last + 1]

\* The usable token is spent for its successor.
Rotate(g, dead) == /\ usable[g] # 0
                   /\ last' = last + 1
                   /\ usable' = [Ended(dead) EXCEPT ![g] = last + 1]
                   /\ UNCHANGED begun

End(dead) == /\ usable' = Ended(dead)
             /\ UNCHANGED <<begun, last>>

Next == \E dead \in SUBSET Grant :
          \/ End(dead)
          \/ \E g \in Grant \ dead : Open(g, dead) \/ Rotate(g, dead)

Spec == Init /\ [][Next]_vars
=============================================================================
