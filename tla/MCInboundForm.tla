---------------------------- MODULE MCInboundForm ----------------------------
(***************************************************************************)
(* Instances of InboundForm: two forms or clones one after the other, each *)
(* world with the part of the menu whose steps meet.                       *)
(***************************************************************************)
EXTENDS InboundForm

MCPorts == 1 .. 3
Custom == [NoTag EXCEPT !.kind = "custom"]
MCCustomTags == {Custom}
MCEmails == {1}

Auto(port, node) == [kind |-> "auto", node |-> node, port |-> port, l4 |-> {"tcp"}, n |-> 0]

Row(protocol, port, node, network, security, tag, strategy) ==
    [protocol |-> protocol, port |-> port, node |-> node, network |-> network, l4 |-> {},
     security |-> security, tag |-> tag, strategy |-> strategy, addr |-> FALSE, clients |-> <<1>>]

Leads(child) == [child |-> child, match |-> child, dest |-> FALSE]

\* A generated and a typed tag, edited in turn.
Editing ==
    [rows |-> <<Row("vmess", 1, 0, "tcp", "none", Auto(1, 0), "node"),
                Row("vmess", 2, 0, "ws", "none", Custom, "listen")>>,
     lists |-> <<>>, nodes |-> {}, fetched |-> TRUE,
     menu |-> {"edit", "port", "tag"},
     clicks |-> 2, edits |-> 2, others |-> 0, faults |-> 1]

\* Clients come and go, and inbounds go, while one form is open and saved.
Shared == [Editing EXCEPT !.menu = {"edit", "port", "client", "delete"}, !.clicks = 1, !.edits = 1,
                          !.others = 2, !.faults = 0]

\* Two fallback hosts, the first leading to the second.
Falling ==
    [rows |-> <<Row("vless", 1, 0, "tcp", "tls", Auto(1, 0), "listen"),
                Row("vless", 2, 0, "tcp", "tls", Auto(2, 0), "listen")>>,
     lists |-> <<<<Leads(2)>>>>, nodes |-> {}, fetched |-> TRUE,
     menu |-> {"edit", "fallbacks"},
     clicks |-> 2, edits |-> 2, others |-> 0, faults |-> 1]

\* New inbounds of every kind, on nodes known late.
Adding ==
    [rows |-> <<Row("vmess", 1, 0, "tcp", "none", Auto(1, 0), "node")>>,
     lists |-> <<>>, nodes |-> {1}, fetched |-> FALSE,
     menu |-> {"add", "edit", "node", "protocol", "network", "udp", "strategy"},
     clicks |-> 2, edits |-> 2, others |-> 0, faults |-> 0]

\* Clones to the panel and a node while the form saves.
Cloning ==
    [rows |-> <<Row("vmess", 1, 0, "tcp", "none", Auto(1, 0), "node"),
                Row("vmess", 2, 1, "tcp", "none", Auto(2, 1), "node")>>,
     lists |-> <<>>, nodes |-> {1}, fetched |-> TRUE,
     menu |-> {"edit", "clone", "port"},
     clicks |-> 2, edits |-> 1, others |-> 0, faults |-> 0]

\* The last inbound, on a node that is off, goes while its form is on the way;
\* a local clone takes its id.
Reusing == [Shared EXCEPT !.rows = <<Row("vmess", 1, 1, "tcp", "none", Auto(1, 1), "node")>>,
                          !.menu = {"edit", "clone", "delete"}, !.clicks = 2, !.others = 1]

MCWorlds == {Editing, Shared, Falling, Adding, Cloning, Reusing}
=============================================================================
