----------------------------- MODULE MCIngress -----------------------------
(* Small instances of Ingress for TLC. *)
EXTENDS Ingress, TLC

Http(host, path, lb) == [l4 |-> "", host |-> host, path |-> path, port |-> 0, lb |-> lb]
Tcp(host, port) == [l4 |-> "tcp", host |-> host, path |-> <<>>, port |-> port, lb |-> ""]

MCChars == {"/", "a", "*"}
SlashA == <<"/", "a">>
Under == <<"/", "a", "/", "*">>
StartsA == <<"/", "a", "*">>
MCGlobs == {<<>>, SlashA, StartsA, Under}
MCPaths == {<<"/">>, SlashA, <<"/", "a", "/">>, <<"/", "a", "a">>}

Up(i) == [id |-> i, healthy |-> TRUE]
Down(i) == [id |-> i, healthy |-> FALSE]

\* Routing: two services of one project and one of another want the same host,
\* all of it, a part and a port, or two parts of it; no requests and no backends.
RoutingServices == {<<1, "web">>, <<1, "api">>, <<2, "web">>}
RoutingChoices ==
  {{Http("h", <<>>, ""), Http("h", Under, ""), Tcp("h", 1)},
   {Http("h", StartsA, ""), Http("h", SlashA, "")}}
RoutingLists == {<<>>}
RoutingBudget == [edit |-> 3, fault |-> 1]

\* Balancing: one service with a route for each strategy, two requests, and
\* backends that come, go and fall ill.
BalancingServices == {<<1, "web">>}
BalancingChoices == {{}, {Http("h", <<>>, "round-robin"), Http("h", SlashA, "")}}
BalancingLists == {<<>>, <<Up(1), Down(2), Up(3)>>, <<Up(2), Up(1), Up(3)>>}
BalancingBudget == [edit |-> 1, fault |-> 0]
RequestSymmetry == Permutations(Requests)

\* Ports: two projects forward the same TCP port for hosts of their own.
PortServices == {<<1, "web">>, <<2, "web">>}
PortChoices == {{Tcp("h", 1)}, {Tcp("k", 1)}}
PortBudget == [edit |-> 2, fault |-> 0]
=============================================================================
