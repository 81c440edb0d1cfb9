------------------------------ MODULE MCBlocks ------------------------------
(* Capture files for the instances of CaptureReaders: blocks, good and       *)
(* damaged, and what a file made of them looks like to a reader.             *)
EXTENDS Integers, Sequences, SequencesExt

MCBlock(kind, len, ok, iface, ticks, unit) ==
  [kind |-> kind, len |-> len, ok |-> ok, iface |-> iface, ticks |-> ticks, unit |-> unit]

\* What is written: the block, and the bytes it takes.
MCWhole(b) == [block |-> b, span |-> b.len]
MCWithLength(w, len) == [w EXCEPT !.block.len = len]

MCShb == MCWhole(MCBlock("shb", 28, TRUE, 0, 0, 0))
MCIdb(unit) == MCWhole(MCBlock("idb", 20, TRUE, 0, 0, unit))
MCIdbs == {MCIdb(1), MCIdb(3)}
MCEpb(iface, ticks) == MCWhole(MCBlock("epb", 36, TRUE, iface, ticks, 0))
MCSpb == MCWhole(MCBlock("spb", 20, TRUE, 0, 0, 0))
MCRaw == MCWhole(MCBlock("raw", 12, TRUE, 0, 0, 0))
MCBad(w) == [w EXCEPT !.block.ok = FALSE]

MCGood == {MCShb, MCSpb, MCRaw} \cup MCIdbs \cup {MCEpb(0, 2), MCEpb(1, 1)}
MCDamaged ==
  {MCBad(w) : w \in {MCShb, MCIdb(1), MCEpb(0, 1)}}
  \cup {MCWithLength(w, 8) : w \in {MCShb, MCRaw}}
  \cup {MCWithLength(MCEpb(0, 1), n) : n \in {4, 28, 44}}

\* The file made of these blocks, less what was cut off at its end.
MCCapture(ws, start, format, other, cut) ==
  LET offsets[k \in 1 .. Len(ws) + 1] ==
        IF k = 1 THEN start ELSE offsets[k - 1] + ws[k - 1].span
  IN
  [format |-> format,
   size   |-> offsets[Len(ws) + 1] - cut,
   at     |-> [o \in {offsets[k] : k \in DOMAIN ws} |->
                 ws[CHOOSE k \in DOMAIN ws : offsets[k] = o].block],
   other  |-> other]

MCFiles(first, blocks, n) ==
  {<< w >> \o ws : w \in first, ws \in UNION {[1 .. k -> blocks] : k \in 0 .. n}}
MCOther(len) == MCBlock("raw", len, TRUE, 0, 0, 0)
MCPcapng(files, others, cuts) ==
  UNION {{MCCapture(ws, 0, "pcapng", MCOther(len), cut) :
            len \in others, cut \in {c \in cuts : c < Last(ws).span}} : ws \in files}

MCRecord(ticks, unit) == MCWhole(MCBlock("rec", 20, TRUE, 0, ticks, unit))
MCRecords(unit) == UNION {[1 .. n -> {MCRecord(t, unit) : t \in 0 .. 3}] : n \in 0 .. 3}
MCPcapOf(unit) ==
  UNION {{MCCapture(ws, 24, "pcap", MCRecord(0, unit).block, cut) :
            cut \in IF ws = << >> THEN {0} ELSE {0, 2, 14}} : ws \in MCRecords(unit)}
=============================================================================
