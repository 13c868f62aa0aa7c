---------------------------- MODULE MCMdnsServer ----------------------------
(* The programs of the repository that use libmdns, and a small network. *)
EXTENDS MdnsServer

HostName == <<"host", "local">>
OtherName == <<"other", "local">>
Http == <<"_http", "_tcp", "local">>

Web == [id |-> "web", type |-> Http, host |-> None, txt |-> <<"path">>]
Shop == [id |-> "shop", type |-> Http, host |-> None, txt |-> None]

MCServices == {Web.id, Shop.id}

Host(h) == [op |-> "host", host |-> h, addr |-> "addr1"]
Second == [op |-> "rr", rr |-> Record(HostName, "A", "addr2", "second")]
Six == [op |-> "rr", rr |-> Record(HostName, "AAAA", "addr6", "six")]
Service(s) == [op |-> "register", service |-> s]

\* libmdns/testmdnsd.c with a second service, and mdnsd.c, which never stops.
MCPrograms ==
  {<<Host(HostName), Second, Six, Service(Web), Service(Shop),
     [op |-> "stop"]>>,
   <<Host(HostName), Host(OtherName)>>}

Ask(name, type) == [name |-> name, type |-> type, unicast |-> FALSE]
Packet(questions, known) ==
  [response |-> FALSE, questions |-> questions, known |-> known]
Knows(s, ttl) ==
  [name |-> s.type, type |-> "PTR", data |-> InstanceName(s), ttl |-> ttl]

\* A browser that knows one service well and one hardly any more, a resolver
\* that asks for a service, the host and, unicast, all services, a response.
MCQueries ==
  {Packet(<<Ask(Http, "PTR")>>, <<Knows(Web, 100), Knows(Shop, 10)>>),
   Packet(<<Ask(InstanceName(Web), "SRV"),
            [Ask(Http, "PTR") EXCEPT !.unicast = TRUE],
            Ask(HostName, "ANY")>>, <<>>),
   Packet(<<Ask(ServicesName, "PTR"), Ask(OtherName, "A")>>, <<>>),
   [response |-> TRUE]}

ASSUME ProgramsAreInOrder == InOrder
=============================================================================
