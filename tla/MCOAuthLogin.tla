---------------------------- MODULE MCOAuthLogin ----------------------------
(* Small instance of OAuthLogin: two requests for a table of one, two browsers behind one
   address, two users whose roles change; the role "guest" is unknown to _ROLE_SCOPE_CAP. *)
EXTENDS OAuthLogin, TLC

MCAsk == "q1" :> {"monitoring", "administration"} @@ "q2" :> {}
MCCapOf == "admin" :> {"*"} @@ "viewer" :> {"monitoring"}
MCOffer == {{"monitoring", "administration"}, {"*", "monitoring"}}
MCAddressOf == [b \in Browser |-> "lan"]
=============================================================================
