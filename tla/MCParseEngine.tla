---------------------------- MODULE MCParseEngine ----------------------------
(* Packets cut at lengths around the headers' own, with up to five layers.  *)
EXTENDS ParseEngine

MCCaptures == {0, 13, 34, 66, 85, 130}
MCKnown == {"Ipv4", "Ipv6", "Arp", "Mpls", "Llc", "Vlan", "Ipv6Hopopt", "Ipv6Hip", "Ipv6Frag",
            "Ah", "Esp", "Tcp", "Udp", "Gre", "Igmp", "Icmp", "Dns", "Vxlan", "Tls"}
=============================================================================
