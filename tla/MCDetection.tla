---------------------------- MODULE MCDetection ----------------------------
(* Small instances of Detection for TLC. *)
EXTENDS Detection, SequencesExt, TLC

MCIps == {"10.0.0.5", "203.0.113.7", "203.0.113.8", "2001:db8::1"}
MCSubnets == {"10.0.0", "203.0.113"}
MCNames == {"evil.example", "Evil.Example", "kq3v9zx7w1.example"}
MCUrls == {"http://evil.example/a", "http://evil.example/a/"}
MCHashes == {"ab", "AB"}
MCPorts == {443, 4444}
MCSuspiciousPorts == {4444}

\* Addresses, text that is none, and what ThreatFox writes and what is left of it.
MCEndpoints == {"203.0.113.7:443", "[2001:db8::1]:443"}
MCIpTexts == {"203.0.113.7", "2001:db8::1", "203.0.113.7 (C2)", "[2001"} \cup MCEndpoints
MCBeforeColon == "203.0.113.7:443" :> "203.0.113.7" @@ "[2001:db8::1]:443" :> "[2001"
MCAddressOf == "203.0.113.7:443" :> "203.0.113.7" @@ "[2001:db8::1]:443" :> "2001:db8::1"
MCParseIp == [t \in MCIpTexts |-> IF t \in MCIps THEN t ELSE None]
MCSubnet24 ==
    "10.0.0.5" :> "10.0.0" @@ "203.0.113.7" :> "203.0.113"
        @@ "203.0.113.8" :> "203.0.113" @@ "2001:db8::1" :> None
MCLower ==
    [x \in MCNames \cup MCHashes |-> CASE x = "Evil.Example" -> "evil.example"
                                      [] x = "AB" -> "ab"
                                      [] OTHER -> x]
MCNormalizeUrl == [u \in MCUrls |-> "http://evil.example/a"]
MCEntropic == {"kq3v9zx7w1.example"}

\* What stands in a sample: every list of at most two signatures.
Written == {s \in Signatures : s.value \notin MCEndpoints \cup {"[2001"}}
MCSignatureLists == SeqOf(Written, 2)

\* One entry of any kind, and two of each feed's that yield something.
MCEntryLists ==
    SeqOf(Entries, 1) \cup
    {<<d, e>> : d \in {x \in Entries : x.feed = "threatfox" /\ x.ioc # None},
                e \in {x \in Entries : x.feed = "urlhaus" /\ x.url # None}}

\* One flow of each kind, with the digest that the reader computes.
Single ==
    [src_ip : {"10.0.0.5", "2001:db8::1"},
     dst_ip : {"203.0.113.7", "203.0.113.8", "2001:db8::1"},
     dst_port : Ports, hostname : Optional(Names), url : Optional(Urls),
     payload_sha256 : {None, "ab"}]

\* Flows of which any two make a list.
Paired ==
    [src_ip : {"10.0.0.5"}, dst_ip : {"203.0.113.7", "203.0.113.8"},
     dst_port : {443}, hostname : {None, "Evil.Example"}, url : {None},
     payload_sha256 : {None}]

MCFlowLists == {<<f>> : f \in Single} \cup (Paired \X Paired)

=============================================================================
