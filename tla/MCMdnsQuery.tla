----------------------------- MODULE MCMdnsQuery -----------------------------
(* MdnsQuery with two hosts, two instances of a service and one of our own: a *)
(* setup for each kind of search, four setups with a browse, and one without   *)
(* either that sends every packet of three records into every room.            *)
EXTENDS MdnsQuery

Svc == <<"_http", "_tcp">>
LongSvc == <<"_longservice_name", "_tcp">>

MCSize(s) == CASE s = "_longservice_name" -> 16
               [] s = "_services" -> 9
               [] s \in {"i1", "_dns-sd"} -> 7
               [] s \in {"_http", "local"} -> 5
               [] OTHER -> 4

Item(key, value) == [key |-> key, value |-> value]
Flag == Item("flag", None)
MCItemSize(t) == IF t = Flag THEN 3 ELSE 7
t1 == <<Item("k", "v1")>>
t2 == <<Item("k", "v2")>>
two == <<Item("k", "v1"), Item("l", "v1")>>
swapped == <<Item("l", "v1"), Item("k", "v1")>>
other == <<Item("k", "v1"), Item("l", "v2")>>
late == <<Item("k", "v1"), Flag>>
early == <<Flag, Item("k", "v1")>>

Inst(i, svc) == <<i>> \o svc \o <<"local">>
Type(svc) == svc \o <<"local">>
Ptr(i, svc, ttl) == [name |-> Type(svc), type |-> "PTR", ttl |-> ttl, data |-> Inst(i, svc)]
Srv(i, svc, h, ttl) == [name |-> Inst(i, svc), type |-> "SRV", ttl |-> ttl, data |-> <<80, <<h, "local">> >>]
Txt(i, svc, t, ttl) == [name |-> Inst(i, svc), type |-> "TXT", ttl |-> ttl, data |-> t]
Adr(h, a, ttl) == [name |-> <<h, "local">>, type |-> "A", ttl |-> ttl, data |-> a]
Types(svc) == [name |-> Discovery, type |-> "PTR", ttl |-> 1, data |-> Type(svc)]

Sta == <<"sta", "v4">>
Eth == <<"eth", "v4">>
Search(type, inst, svc, max) ==
    [type |-> type, inst |-> inst, svc |-> svc, max |-> max, on |-> TRUE, res |-> <<>>]
Setup(ss, br, own, records, most, rooms) ==
    [searches |-> ss, browse |-> br, own |-> own, svc |-> Svc, links |-> {Sta},
     records |-> records, most |-> most, rooms |-> rooms]

Peers == {Ptr("i1", Svc, 1), Ptr("i1", Svc, 0), Ptr("i2", Svc, 1),
          Srv("i1", Svc, "h1", 1), Srv("i2", Svc, "h2", 1), Srv("i2", Svc, "h1", 1),
          Txt("i1", Svc, t1, 1), Txt("i2", Svc, t2, 1), Adr("h1", "a1", 1), Adr("h2", "a2", 0)}
Moving == {Srv("i1", Svc, "h1", 1), Srv("i1", Svc, "h1", 0), Srv("i1", Svc, "h2", 1),
           Srv("i2", Svc, "h2", 1), Txt("i1", Svc, two, 1), Adr("h1", "a1", 1), Adr("h2", "a2", 1)}
Changing == {Srv("i1", Svc, "h1", 1), Srv("i2", Svc, "h1", 0), Txt("i1", Svc, two, 1),
             Txt("i1", Svc, swapped, 1), Txt("i1", Svc, other, 1), Adr("h1", "a1", 1)}
WithOurs == {Ptr("i1", Svc, 1), Srv("i1", Svc, "h1", 1), Txt("i1", Svc, t1, 1), Adr("h1", "a1", 1),
             Srv("i2", Svc, "h2", 1), Srv("o1", Svc, "h2", 1), Txt("o1", Svc, t2, 1)}
OneHost == {Srv("i1", Svc, "h1", 1), Srv("i2", Svc, "h1", 1), Adr("h1", "a1", 1)}

Wire == UNION {{Ptr("i1", v, 1), Srv("i2", v, "h1", 1)} : v \in {Svc, LongSvc}}
        \cup {Types(LongSvc), Txt("i1", Svc, late, 1), Txt("i1", LongSvc, early, 1)}

MCSetups ==
    {Setup(<<Search("PTR", None, Svc, 2)>>, <<>>, {}, Peers, 2, {40, 500}),
     Setup(<<Search("PTR", None, Svc, 1), Search("PTR", None, Svc, 0)>>, <<>>, {"o1"},
           WithOurs, 2, {500}),
     Setup(<<Search("SRV", "i2", Svc, 0), Search("TXT", "i2", Svc, 0)>>, <<>>, {}, Peers, 2, {500}),
     Setup(<<Search("ANY", "i2", Svc, 2), Search("A", "h1", <<>>, 0), Search("ANY", "h1", <<>>, 0)>>,
           <<>>, {}, Peers, 2, {500}),
     Setup(<<>>, Svc, {}, Moving, 2, {500}),
     Setup(<<>>, Svc, {}, Changing, 2, {55, 500}),
     Setup(<<Search("PTR", None, Svc, 1)>>, Svc, {"o1"}, WithOurs, 2, {500}),
     [Setup(<<Search("PTR", None, Svc, 2)>>, Svc, {}, OneHost, 1, {500}) EXCEPT !.links = {Sta, Eth}],
     Setup(<<>>, <<>>, {}, Wire, 3, 1 .. 99)}
=============================================================================
