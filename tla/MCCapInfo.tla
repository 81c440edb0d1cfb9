----------------------------- MODULE MCCapInfo -----------------------------
(* Instances of CapInfo: pcapng captures of a few blocks, good or damaged,   *)
(* and pcap captures, each whole or cut off inside of its last block.        *)
EXTENDS CapInfo, MCBlocks

CONSTANT MaxBlocks

MCCaptures ==
  MCPcapng(MCFiles({MCShb}, MCGood \cup MCDamaged, MaxBlocks), {0}, {0})
    \cup MCPcapng(MCFiles({MCShb, MCBad(MCShb)}, MCGood \cup MCDamaged, MaxBlocks - 1), {0, 16}, {0})
    \cup MCPcapng(MCFiles({MCShb}, MCGood, MaxBlocks), {0}, {2, 6, 18, 26, 30, 34})
    \cup MCPcapOf(1) \cup MCPcapOf(3)

\* Captures of two sections, nothing damaged in either, each with an interface
\* of its own, and with packets and other blocks between them.
MCSections ==
  MCPcapng({<< MCShb, i >> \o ws \o << MCShb, j, MCEpb(0, 2) >> :
              i, j \in MCIdbs, ws \in UNION {[1 .. k -> {MCEpb(0, 2), MCRaw}] : k \in 0 .. MaxBlocks}},
           {0}, {0})

=============================================================================
