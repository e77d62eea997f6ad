----------------------------- MODULE MCNetSetup -----------------------------
(* Small configuration files for model checking NetSetup. *)
EXTENDS NetSetup

MCUseDhcp   == <<"u", "d">>
MCAddress   == <<"i", "p">>
MCIsServer == <<"s", "v">>
MCIsClient == <<"c", "l">>
MCTrue      == <<"t", "r">>

Line(param, value) == param \o <<"=">> \o value \o <<EOL>>
Comment(line)      == <<"#">> \o line

IpLine == Line(MCAddress, <<"9">>)
Server == Line(MCIsServer, MCTrue)
Client == Line(MCIsClient, MCTrue)

DhcpOn  == Line(MCUseDhcp, MCTrue)
DhcpOff == Line(MCUseDhcp, <<"f", " ", "#", "t">>)

Others == {DhcpOff, Comment(DhcpOff), Comment(Server), <<EOL>>, Client}

\* Many files without DHCP, cut into blocks in many ways, some with it, and one
\* whose last line does not end.
MCCards ==
    { <<a, b, c, d>> : a \in Others, b \in {Server, IpLine},
                       c \in {DhcpOff, Comment(DhcpOff)}, d \in Others }
    \cup { <<DhcpOn, Server, Client>>, <<<<EOL>>, Server, Comment(DhcpOn), <<EOL>>>>,
           <<Comment(DhcpOff), <<EOL>>, DhcpOn, Server>>,
           <<Server, Client, SubSeq(DhcpOn, 1, 5)>> }
=============================================================================
