--------------------------- MODULE MCOAuthTokens ---------------------------
(* Small instances of OAuthTokens for TLC. *)
EXTENDS OAuthTokens, TLC

\* What a state can still do: a token or code that is in no table never comes back, so
\* whether its lifetime had passed is not looked at any more.
Relevant ==
  <<status, minted, tables, codes \cap staleCodes, call, users, reused,
    {t \in expired : t[2] \in IF t[1] = "access" THEN access ELSE refresh}>>

Symmetry == Permutations(Client) \cup Permutations(Scope)
=============================================================================
