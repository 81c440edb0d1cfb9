----------------------------- MODULE MCFlowAlloc -----------------------------
(* Instances of FlowAlloc: two networks of clients and servers, pools of two *)
(* and three addresses, every policy, key, scope and sharing.                *)
EXTENDS FlowAlloc

A(family, net, host) == [family |-> family, net |-> net, host |-> host]
N(family, net)       == [family |-> family, net |-> net, host |-> 0, prefix |-> 1]
Host(a)              == [family |-> a.family, net |-> a.net, host |-> a.host, prefix |-> 2]
All(family)          == [family |-> family, net |-> "none", host |-> 0, prefix |-> 0]

Client == A("v4", "clients", 0)
Other  == A("v4", "clients", 1)
Server == A("v4", "servers", 0)
Peer6  == A("v6", "peers", 0)
Host6  == A("v6", "peers", 1)

MCAddr ==
  {Client, Other, Server, Peer6, Host6} \cup
  { A("v4", "pool", h) : h \in 0 .. 2 } \cup { A("v4", "farm", h) : h \in 0 .. 1 } \cup
  { A("v6", "pool", h) : h \in 0 .. 1 }

\* Any fixed function of the key will do; this one tells addresses apart.
MCHashIndex(id) ==
  id.addr.host + id.entry + (IF id.identity.kind = "fragment" THEN 1 ELSE 0)

P(src, sport, dst, dport) ==
  [src |-> src, dst |-> dst, transport |-> "tcp", sport |-> sport, dport |-> dport,
   options |-> FALSE, fragment |-> NoFragment]
F(p, id, first) == [p EXCEPT !.fragment = [id |-> id, first |-> first]]

Request  == P(Client, 1, Server, 80)
Reply    == P(Server, 80, Client, 1)
Second   == P(Client, 2, Server, 80)
Third    == P(Other, 1, Server, 80)
Ping     == [Request EXCEPT !.transport = "icmp", !.sport = 0, !.dport = 0]

MCPackets  == {Request, Reply, Second, Third, Ping, F(Request, 1, TRUE), F(Request, 1, FALSE)}

E(from, shape, to, policy) == [from |-> from, shape |-> shape, to |-> to, policy |-> policy]
Clients(policy) == E(N("v4", "clients"), "pool", N("v4", "pool"), policy)
Servers(policy) == E(N("v4", "servers"), "pool", N("v4", "farm"), policy)
Farmed(policy)  == E(N("v4", "clients"), "pool", N("v4", "farm"), policy)
Catch4(policy)  == E(CatchAll, "pool", N("v4", "farm"), policy)

C(key, entries, scope, sharing) ==
  [key |-> key, entries |-> entries, exclude |-> {}, protocols |-> {"tcp", "udp"},
   fragments |-> TRUE, scope |-> scope, sharing |-> sharing]

MCConfigs == {
  C("session", << Clients("unique") >>, "file", "shared"),
  C("session", << Catch4("sticky"), Clients("unique") >>, "global", "shared"),
  C("session", << Servers("random"), Farmed("unique") >>, "global", "shared"),
  C("address", << E(All("v4"), "pool", N("v4", "farm"), "hash"), Clients("unique"),
                  E(Host(Other), "fixed", Host(A("v4", "pool", 0)), "unique") >>,
    "global", "per-group"),
  [C("session", << Clients("unique"), E(N("v4", "servers"), "mask", N("v4", "farm"), "unique") >>,
     "global", "shared") EXCEPT !.fragments = FALSE, !.exclude = {Host(Other)},
                              !.protocols = {"tcp", "icmp"}] }

\* Nothing tells one file from the other.
FileSymmetry == Permutations(Files)

=============================================================================
