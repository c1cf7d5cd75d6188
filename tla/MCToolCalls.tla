---------------------------- MODULE MCToolCalls ----------------------------
(* Small instance of ToolCalls: a row, users of one OAuth client, an admin and an operator
   in the portal, a writable and a read-only server.  Requests overlap in what they leave
   behind, a row's edits and a prepared action: one at a time is enough to see it. *)
EXTENDS ToolCalls, TLC

MCGrantOf == "ann" :> [scopes |-> {"*"}, readOnly |-> FALSE]
          @@ "bob" :> [scopes |-> {"monitoring", "extensions"}, readOnly |-> FALSE]
MCCapOf == "admin" :> {"*"} @@ "operator" :> {"monitoring", "extensions"}
MCGroup == "monitoring" :> {"host"} @@ "extensions" :> {"graph_render"}

Def(prefixes, writes, known, suffix, extension, lacking) ==
  [prefixes |-> prefixes, writes |-> writes, known |-> known, suffix |-> suffix,
   extension |-> extension, lacking |-> lacking]

\* a write of a group, and a read outside it that one server is too old for
MCMethods == "host_create" :> Def({"host"}, TRUE, TRUE, FALSE, FALSE, {})
          @@ "proxygroup_get" :> Def({"proxygroup"}, FALSE, TRUE, TRUE, FALSE, {"main"})

MCToolDef == MCMethods @@ "graph_render" :>
             Def({"graph"}, FALSE, FALSE, FALSE, TRUE, {})

MCScopeChoice == {{"monitoring"}, {"*"}}
MCServerChoice == {{"main"}}
Symmetry == Permutations(Secret)

\* Of the modification time a page holds only matters whether it is that of the file; of a
\* call on its way, whether it is within its rights and which action it carries out; of an
\* action that has expired, nothing.
Relevant ==
  <<file, version, store, stale, saving, done,
    [r \in Request |-> IF req[r].stage = "call" THEN <<req[r].job.by.from, RightsHeld>> ELSE req[r]],
    [c \in Confirmation |-> IF pending[c].stage = "waiting" /\ pending[c].expired
                            THEN [stage |-> "expired"] ELSE pending[c]],
    [e \in Editor |-> IF form[e] = NoForm \/ form[e].seen \subseteq {version} THEN form[e]
                      ELSE [form[e] EXCEPT !.seen = {MaxSaves + 1}]]>>
=============================================================================
