------------------------------- MODULE MCApiEdge -------------------------------
(***************************************************************************)
(* A small instance of ApiEdge.  One user sends from home, behind the      *)
(* proxy, and from a phone; a guest from the same home address.            *)
(***************************************************************************)
EXTENDS ApiEdge

From(cookie, peer, forwarded, method, path) ==
  [cookie |-> cookie, peer |-> peer, forwarded |-> forwarded,
   method |-> method, path |-> path]

MCCalls ==
  {From("session", "proxy", <<"x", "home", "proxy">>, "POST", <<"chat", "stream">>),
   From("session", "mobile", <<>>, "POST", <<"chat">>),
   From(None, "proxy", <<"home">>, "POST", <<"auth", "login">>)}

MCPolicies ==
  <<[method |-> None, prefix |-> <<"auth">>,
     limit |-> [rate |-> 7, burst |-> 2, scope |-> "ip"]],
    [method |-> "POST", prefix |-> <<"chat">>,
     limit |-> [rate |-> 4, burst |-> 1, scope |-> "user"]]>>

MCDefault == [rate |-> 6, burst |-> 3, scope |-> "user"]

===============================================================================
