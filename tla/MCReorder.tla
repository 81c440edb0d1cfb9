----------------------------- MODULE MCReorder -----------------------------
(* Instances of Reorder: sections with interfaces, packets and other blocks  *)
(* in any order, a few damaged files, and pcap files.                        *)
EXTENDS Reorder, MCBlocks

CONSTANT MaxBlocks

MCAfterFirst == {MCShb, MCRaw, MCEpb(0, 1), MCEpb(0, 2), MCEpb(1, 1)} \cup MCIdbs
MCSectioned ==
  {<< MCShb, idb >> \o ws : idb \in MCIdbs, ws \in UNION {[1 .. k -> MCAfterFirst] : k \in 0 .. MaxBlocks - 1}}
    \cup {<< MCShb, MCIdb(3) >> \o ws : ws \in [1 .. MaxBlocks -> MCAfterFirst]}
MCRefused ==
  {<< MCShb >> \o idbs \o << MCEpb(0, 2), w >> :
     idbs \in {<< i >> : i \in MCIdbs} \cup {<< >>}, w \in {MCSpb, MCBad(MCEpb(0, 1)), MCEpb(0, 4)}}

MCCaptures ==
  MCPcapng(MCSectioned, {0}, {0}) \cup MCPcapng(MCRefused, {0}, {0, 18})
    \cup MCPcapOf(1) \cup MCPcapOf(3)
=============================================================================
