---------------------------- MODULE MCFlowMeter -----------------------------
EXTENDS FlowMeter

Packet(src, dst, size, flags) ==
  [src |-> src, dst |-> dst, protocol |-> 6, size |-> size, flags |-> flags]

\* Data and FIN both ways, a reset, and another connection.
MCShapes == {
  Packet(1, 2, 2, {}), Packet(1, 2, 0, {"FIN"}), Packet(2, 1, 1, {"FIN"}),
  Packet(2, 1, 0, {"RST"}), Packet(3, 1, 1, {})}

\* Back in time, within a second, idle up to the timeout, and past it.
MCSteps == {-2, 1, 5, 6}

MCInputs == << "a", "a" >>
=============================================================================
