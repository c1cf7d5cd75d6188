---------------------------- MODULE MCConfigFile ----------------------------
(* Small instances of ConfigFile for TLC: the requests made to the portal. *)
EXTENDS ConfigFile, TLC

Request(kind, by, who, val) == [kind |-> kind, by |-> by, who |-> who, val |-> val]

RoleOps == {Request("role", u, {v}, r) : u, v \in User, r \in Role \ {"none"}}

AddOps == {Request("add", u, {v}, r) : u, v \in User, r \in Role \ {"none"}}

DeleteOps == {Request("delete", u, {v}, "none") : u, v \in User}

BulkOps == {Request("bulk", u, s, "none") : u \in User, s \in SUBSET User \ {{}}}

TokenOps == {Request(k, NoOne, {t}, "none") : k \in {"create", "toggle", "remove"}, t \in Token}

SettingOps == {Request("setting", NoOne, {}, v) : v \in Setting}

ForgetOps == {Request("forget", NoOne, {c}, "none") : c \in Client}

RemovalOps == DeleteOps \cup BulkOps \cup ForgetOps

ManyOps == AddOps \cup RoleOps \cup RemovalOps \cup TokenOps

Symmetry == Permutations(User)

\* What a state can still do: a request under way is not asked again who made it; the
\* document is looked at by a writer that loaded it, and until then by the requests that
\* compare the users with the ones they were checked against; one that is idle or done
\* does not look at its request, and without settings the baseline is not looked at.
Relevant ==
  <<disk, step, clients, store, unread, excused,
    [w \in Writer |-> IF step[w] \in {"idle", "done", "saved", "snapped"}
                      THEN NoOp ELSE [op[w] EXCEPT !.by = NoOne]],
    [w \in Writer |->
       CASE At(w, "loaded") -> doc[w]
         [] At(w, "checked") /\ op[w].kind \in {"add", "role"} ->
              [file EXCEPT !.users = doc[w].users]
         [] OTHER -> file]>>
=============================================================================
