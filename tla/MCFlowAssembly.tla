--------------------------- MODULE MCFlowAssembly ---------------------------
(* Small instances of FlowAssembly for TLC. *)
EXTENDS FlowAssembly, SequencesExt, TLC

MCIps == {"client", "server", "resolver"}
MCRank == [client |-> 2, server |-> 1, resolver |-> 3]
MCPorts == {0, 53, 443, 5000}
MCOthers == {"GRE"}
MCNames == {"evil", "shop"}
MCUrls == {"http://shop/"}
MCDigests == {1, 2, 3, 4, 5, 6, 7}

MCPayloads == {"query", "root", "answer", "again", "hello", "get", "data"}
Only(payload, value) == [p \in MCPayloads |-> IF p = payload THEN value ELSE None]

MCDnsQueryName ==
    [p \in MCPayloads |-> CASE p = "query" -> "evil"
                            [] p = "root" -> EmptyName
                            [] OTHER -> None]
MCDnsAnswers ==
    [p \in MCPayloads |->
        CASE p = "answer" -> <<[name |-> "evil", ip |-> "server"]>>
          [] p = "again"  -> <<[name |-> "evil", ip |-> "server"],
                               [name |-> "shop", ip |-> "server"],
                               [name |-> "evil", ip |-> "client"]>>
          [] OTHER        -> <<>>]
MCSni == Only("hello", "evil")
MCHttpHost == Only("get", "shop")
MCHttpUrl == Only("get", "http://shop/")
MCSha256 == "query" :> 1 @@ "root" :> 2 @@ "answer" :> 3 @@ "again" :> 4
                @@ "hello" :> 5 @@ "get" :> 6 @@ "data" :> 7

Packet(src, dst, protocol, payload, ts) ==
    [src |-> src, dst |-> dst, protocol |-> protocol, payload |-> payload,
     ts |-> ts]

Resolver == <<"resolver", 53>>
Stub == <<"client", 5000>>
Client == <<"client", 5000>>
Server == <<"server", 443>>

MCPackets == {
    Packet(Stub, Resolver, "Udp", "query", 1),
    Packet(Stub, Resolver, "Udp", "root", 1),
    Packet(Resolver, Stub, "Udp", "answer", 1),
    Packet(Resolver, Stub, "Udp", "again", 2),
    Packet(Client, Server, "Tcp", None, 1),
    Packet(Client, Server, "Tcp", "hello", 2),
    Packet(Client, Server, "Tcp", "get", 1),
    Packet(Server, Client, "Tcp", "data", 2),
    Packet(<<"client", 0>>, <<"server", 0>>, "Icmp", "data", 0),
    Packet(<<"client", 0>>, <<"server", 0>>, "GRE", "data", 0)}

\* Every capture of at most four packets.
MCCaptures == SeqOf(Optional(MCPackets), 4)

=============================================================================
