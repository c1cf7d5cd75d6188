------------------------------ MODULE MCViews ------------------------------
(* Small instance of Views: two hosts in the group and one outside that shares a trigger
   with one of them, one call, two renders.  One tool reads all there is and tells it, one
   tells a part of what it reads, and the others read a part. *)
EXTENDS Views, TLC

MCHostsOf == "t1" :> <<"h3", "h1">> @@ "t2" :> <<"h2", "h1">>
MCTriggerOf == "p1" :> "t1" @@ "p2" :> "t2" @@ "p3" :> "t2"
MCFetched == [problem_get |-> 4, problem_active_get |-> 2, host_status_get |-> 4,
              hostgroup_overview_get |-> 2, infrastructure_summary_get |-> 1]
MCTold == [problem_get |-> 4, problem_active_get |-> 1, host_status_get |-> 2,
           hostgroup_overview_get |-> 4, infrastructure_summary_get |-> 4]
MCPrefixes == {Prefix[read] : read \in DOMAIN Prefix} \cup {"hostinterface"}
MCRightsChoice == {MCPrefixes, MCPrefixes \ {"trigger"}, MCPrefixes \ {"trend"}}
\* calls and renders share no state: each is explored with the other at rest
AtRest == (logins = 0 /\ \A r \in Renderer : render[r] = Idle)
          \/ (changes = 0 /\ \A c \in Call : view[c] = Idle)
Symmetry == Permutations(Renderer)
=============================================================================
