------------------------------- MODULE MCCraft -------------------------------
EXTENDS Rewrite

Plain(proto) == [proto |-> proto, options |-> << >>, units |-> None, length |-> None,
                 checksum |-> None, payload |-> << >>, host |-> 1, flags |-> 0]

\* Options that do not fill a word, options that wrap the one-byte header length, a
\* length that fits one child only, a set checksum, a first fragment, payloads of odd
\* length, and custom layers: one that leaves bytes behind its child, one too long and
\* one too short.
MCBuilders == {
  Plain("Eth"), Plain("Ipv4"), Plain("Tcp"), Plain("Udp"), Plain("Icmp"),
  [Plain("Ipv4") EXCEPT !.options = Pattern(5), !.host = 7],
  [Plain("Ipv4") EXCEPT !.options = Pattern(1021)],
  [Plain("Ipv4") EXCEPT !.flags = 1],
  [Plain("Tcp") EXCEPT !.options = Pattern(3), !.units = 7],
  [Plain("Tcp") EXCEPT !.options = Pattern(5), !.units = 6],
  [Plain("Udp") EXCEPT !.checksum = 0, !.length = 11],
  [Plain("Icmp") EXCEPT !.units = 13],
  [Plain("Raw") EXCEPT !.payload = << 255, 1, 254 >>],
  [Plain("Custom") EXCEPT !.units = 1],
  [Plain("Custom") EXCEPT !.units = 2, !.length = 40],
  [Plain("Custom") EXCEPT !.units = 1, !.length = 128],
  [Plain("Custom") EXCEPT !.units = 2, !.length = 1]}

MCCaptures == {"whole", "cut", "padded", "offloaded"}

NoRules == [rules |-> << >>, merged |-> {}]
Rule(from, net) == [from |-> from, shape |-> "mask", net |-> net, hosts |-> {}]

\* Sources by rules of two lengths and an empty pool that shadows the merged one, both
\* directions by merged pools, a flow map after a direct map, and one without fixing.
MCRewriters == {
  [src |-> [rules |-> << Rule(<< 192 >>, << 10, 9 >>), Rule(<< 192, 0, 2, 7 >>, << 10, 9, 8, 7 >>) >>,
            merged |-> {}],
   dst |-> [rules |-> << [Rule(<< 198 >>, << >>) EXCEPT !.shape = "pool"] >>,
            merged |-> {<< 11, 0, 0, 1 >>}],
   flow |-> {}, fix |-> TRUE],
  [src |-> [rules |-> << >>, merged |-> {<< 192, 0, 2, 1 >>, << 255, 254, 3, 4 >>}], dst |-> NoRules,
   flow |-> {[src |-> << >>, dst |-> << 1, 2, 3, 4 >>]}, fix |-> TRUE],
  [src |-> NoRules, dst |-> NoRules, flow |-> {[src |-> << >>, dst |-> << >>]}, fix |-> TRUE],
  [src |-> NoRules, dst |-> [rules |-> << >>, merged |-> {<< 11, 0, 0, 1 >>}],
   flow |-> {}, fix |-> FALSE]}
=============================================================================
