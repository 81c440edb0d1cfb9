---------------------------- MODULE HeaderLayouts ----------------------------
(***************************************************************************)
(* The fields of every protocol viewer of src/packet/layer: the byte range *)
(* a field accessor is given, the width of the integer it reads there, and *)
(* the field_spec's mask, shift and target width.  Bits of an integer are  *)
(* numbered from its least significant one.                                *)
(***************************************************************************)
EXTENDS Integers, FiniteSets

\* A field that is the whole integer, and one that is some bits of it.
Whole(first, past, width) ==
  [first |-> first, past |-> past, width |-> width, mask |-> 0 .. width - 1, shift |-> 0,
   target |-> width]
Part(first, past, width, mask, shift, target) ==
  [first |-> first, past |-> past, width |-> width, mask |-> mask, shift |-> shift,
   target |-> target]

-----------------------------------------------------------------------------
EthFields == [
  dst |-> Whole(0, 6, 48), src |-> Whole(6, 12, 48), eth_type |-> Whole(12, 14, 16)]

SllFields == [
  packet_type |-> Whole(0, 2, 16), arphrd_type |-> Whole(2, 4, 16),
  link_layer_addr_len |-> Whole(4, 6, 16), link_layer_addr |-> Whole(6, 14, 64),
  protocol_type |-> Whole(14, 16, 16)]

VlanFields == [
  tci |-> Whole(0, 2, 16), pcp |-> Part(0, 1, 8, 5 .. 7, 5, 8),
  dei |-> Part(0, 1, 8, 4 .. 4, 4, 1), vid |-> Part(0, 2, 16, 0 .. 11, 0, 16),
  eth_type |-> Whole(2, 4, 16)]

LlcFields == [
  dsap |-> Whole(0, 1, 8), ssap |-> Part(1, 2, 8, 1 .. 7, 0, 8), control_u |-> Whole(2, 3, 8),
  control_is |-> Whole(2, 4, 16), oui |-> Whole(3, 6, 24), protocol_id |-> Whole(6, 8, 16)]

MplsEntryFields == [
  label |-> Part(0, 4, 32, 12 .. 31, 12, 32), traffic_class |-> Part(0, 4, 32, 9 .. 11, 9, 8),
  bottom_of_stack |-> Part(0, 4, 32, 8 .. 8, 8, 8), ttl |-> Part(0, 4, 32, 0 .. 7, 0, 8)]

ArpFields == [
  hardware_type |-> Whole(0, 2, 16), protocol_type |-> Whole(2, 4, 16),
  hardware_len |-> Whole(4, 5, 8), protocol_len |-> Whole(5, 6, 8),
  operation |-> Whole(6, 8, 16), sender_hardware_addr |-> Whole(8, 14, 48),
  sender_protocol_addr |-> Whole(14, 18, 32), target_hardware_addr |-> Whole(18, 24, 48),
  target_protocol_addr |-> Whole(24, 28, 32)]

Ipv4Fields == [
  version |-> Part(0, 1, 8, 4 .. 7, 4, 8), ihl |-> Part(0, 1, 8, 0 .. 3, 0, 8),
  dscp |-> Part(1, 2, 8, 2 .. 7, 2, 8), ecn |-> Part(1, 2, 8, 0 .. 1, 0, 8),
  tos |-> Whole(1, 2, 8), total_length |-> Whole(2, 4, 16), identification |-> Whole(4, 6, 16),
  flags |-> Part(6, 7, 8, 5 .. 7, 5, 8), fragment_offset |-> Part(6, 8, 16, 0 .. 12, 0, 16),
  ttl |-> Whole(8, 9, 8), protocol |-> Whole(9, 10, 8), checksum |-> Whole(10, 12, 16),
  src |-> Whole(12, 16, 32), dst |-> Whole(16, 20, 32)]

Ipv6Fields == [
  version |-> Part(0, 1, 8, 4 .. 7, 4, 8), traffic_class |-> Part(0, 2, 16, 4 .. 11, 4, 8),
  flow_label |-> Part(0, 4, 32, 0 .. 19, 0, 32), payload_length |-> Whole(4, 6, 16),
  next_header |-> Whole(6, 7, 8), hop_limit |-> Whole(7, 8, 8), src |-> Whole(8, 24, 128),
  dst |-> Whole(24, 40, 128)]

Ipv6ExtHeaderFields == [
  next_header |-> Whole(0, 1, 8), hdr_ext_len |-> Whole(1, 2, 8)]

Ipv6FragFields == [
  next_header |-> Whole(0, 1, 8), fragment_offset |-> Part(2, 4, 16, 3 .. 15, 3, 16),
  m_flag |-> Part(3, 4, 8, 0 .. 0, 0, 1), reserved |-> Part(3, 4, 8, 1 .. 2, 1, 8),
  identification |-> Whole(4, 8, 32)]

Ipv6RouteFields == [
  routing_type |-> Whole(2, 3, 8), segments_left |-> Whole(3, 4, 8)]

Ipv6SrhFields == [
  last_entry |-> Whole(0, 1, 8), flags |-> Whole(1, 2, 8), tag |-> Whole(2, 4, 16)]

Ipv6MobilityFields == [
  mh_type |-> Whole(2, 3, 8), reserved |-> Whole(3, 4, 8), checksum |-> Whole(4, 6, 16)]

Ipv6HipFields == [
  packet_type |-> Part(2, 3, 8, 0 .. 6, 0, 8), version |-> Part(3, 4, 8, 4 .. 7, 4, 8),
  reserved |-> Part(3, 4, 8, 1 .. 3, 1, 8), checksum |-> Whole(4, 6, 16),
  controls |-> Whole(6, 8, 16), sender_hit |-> Whole(8, 24, 128),
  receiver_hit |-> Whole(24, 40, 128)]

Ipv6Shim6Fields == [
  is_payload_extension |-> Part(2, 3, 8, 7 .. 7, 7, 1),
  message_type |-> Part(2, 3, 8, 0 .. 6, 0, 8), type_specific |-> Part(3, 4, 8, 1 .. 7, 1, 8),
  checksum |-> Whole(4, 6, 16)]

AhFields == [
  next_header |-> Whole(0, 1, 8), payload_len |-> Whole(1, 2, 8), spi |-> Whole(4, 8, 32),
  sequence |-> Whole(8, 12, 32)]

EspFields == [
  spi |-> Whole(0, 4, 32), sequence |-> Whole(4, 8, 32)]

GreFields == [
  flags |-> Part(0, 2, 16, {12, 13, 15}, 0, 16), version |-> Part(0, 2, 16, 0 .. 2, 0, 8),
  protocol_type |-> Whole(2, 4, 16)]

\* The optional GRE fields, behind the ones in front of them that are present.
GreOptionFields(has_checksum, has_key) ==
  LET checksum_len == IF has_checksum THEN 4 ELSE 0
      key_len == IF has_key THEN 4 ELSE 0
      sequence_at == 4 + checksum_len + key_len
  IN [name \in (IF has_checksum THEN {"checksum", "reserved"} ELSE {})
                 \cup (IF has_key THEN {"key"} ELSE {}) \cup {"sequence"} |->
        CASE name = "checksum" -> Whole(4, 6, 16)
          [] name = "reserved" -> Whole(6, 8, 16)
          [] name = "key" -> Whole(4 + checksum_len, 4 + checksum_len + 4, 32)
          [] name = "sequence" -> Whole(sequence_at, sequence_at + 4, 32)]

VxlanFields == [
  flags |-> Whole(0, 2, 16), reserved_1 |-> Whole(2, 4, 16), vni |-> Whole(4, 7, 24),
  reserved_2 |-> Whole(7, 8, 8)]

TcpFields == [
  src_port |-> Whole(0, 2, 16), dst_port |-> Whole(2, 4, 16), seq_num |-> Whole(4, 8, 32),
  ack_num |-> Whole(8, 12, 32), data_offset |-> Part(12, 13, 8, 4 .. 7, 4, 8),
  flags |-> Whole(13, 14, 8), window_size |-> Whole(14, 16, 16), checksum |-> Whole(16, 18, 16),
  urgent_pointer |-> Whole(18, 20, 16)]

UdpFields == [
  src_port |-> Whole(0, 2, 16), dst_port |-> Whole(2, 4, 16), length |-> Whole(4, 6, 16),
  checksum |-> Whole(6, 8, 16)]

SctpFields == [
  src_port |-> Whole(0, 2, 16), dst_port |-> Whole(2, 4, 16),
  verification_tag |-> Whole(4, 8, 32), checksum |-> Whole(8, 12, 32)]

IcmpFields == [
  message_type |-> Whole(0, 1, 8), code |-> Whole(1, 2, 8), checksum |-> Whole(2, 4, 16),
  rest_of_header |-> Whole(4, 8, 32), identifier |-> Whole(4, 6, 16),
  sequence |-> Whole(6, 8, 16)]

IcmpEchoFields == [
  identifier |-> Whole(0, 2, 16), sequence |-> Whole(2, 4, 16)]

IcmpQuotedFields == [
  rest_of_header |-> Whole(0, 4, 32), next_hop_mtu |-> Whole(2, 4, 16),
  pointer |-> Whole(0, 1, 8)]

IcmpRedirectFields == [
  gateway_addr |-> Whole(0, 4, 32)]

IcmpTimestampFields == [
  identifier |-> Whole(0, 2, 16), sequence |-> Whole(2, 4, 16),
  originate_timestamp |-> Whole(4, 8, 32), receive_timestamp |-> Whole(8, 12, 32),
  transmit_timestamp |-> Whole(12, 16, 32)]

IcmpAddressMaskFields == [
  identifier |-> Whole(0, 2, 16), sequence |-> Whole(2, 4, 16), address_mask |-> Whole(4, 8, 32)]

Icmpv6Fields == [
  message_type |-> Whole(0, 1, 8), code |-> Whole(1, 2, 8), checksum |-> Whole(2, 4, 16),
  rest_of_header |-> Whole(4, 8, 32), identifier |-> Whole(4, 6, 16),
  sequence |-> Whole(6, 8, 16)]

Icmpv6EchoFields == [
  identifier |-> Whole(0, 2, 16), sequence |-> Whole(2, 4, 16)]

Icmpv6QuotedFields == [
  message_specific |-> Whole(0, 4, 32)]

NdpRouterSolicitationFields == [
  reserved |-> Whole(0, 4, 32)]

NdpRouterAdvertisementFields == [
  current_hop_limit |-> Whole(0, 1, 8), flags |-> Whole(1, 2, 8),
  router_lifetime |-> Whole(2, 4, 16), reachable_time |-> Whole(4, 8, 32),
  retrans_timer |-> Whole(8, 12, 32)]

NdpNeighborSolicitationFields == [
  reserved |-> Whole(0, 4, 32), target_addr |-> Whole(4, 20, 128)]

NdpNeighborAdvertisementFields == [
  flags_reserved |-> Whole(0, 4, 32), target_addr |-> Whole(4, 20, 128)]

NdpRedirectFields == [
  reserved |-> Whole(0, 4, 32), target_addr |-> Whole(4, 20, 128),
  destination_addr |-> Whole(20, 36, 128)]

IgmpFields == [
  message_type |-> Whole(0, 1, 8), max_resp_time |-> Whole(1, 2, 8),
  checksum |-> Whole(2, 4, 16), group_addr |-> Whole(4, 8, 32)]

TlsFields == [
  content_type |-> Whole(0, 1, 8), legacy_version |-> Whole(1, 3, 16),
  length |-> Whole(3, 5, 16), handshake_type |-> Whole(5, 6, 8),
  handshake_len_raw |-> Whole(6, 9, 24)]

DnsFields == [
  id |-> Whole(0, 2, 16), qr |-> Part(2, 3, 8, 7 .. 7, 7, 1),
  opcode |-> Part(2, 3, 8, 3 .. 6, 3, 8), aa |-> Part(2, 3, 8, 2 .. 2, 2, 1),
  tc |-> Part(2, 3, 8, 1 .. 1, 1, 1), rd |-> Part(2, 3, 8, 0 .. 0, 0, 1),
  ra |-> Part(3, 4, 8, 7 .. 7, 7, 1), z |-> Part(3, 4, 8, 6 .. 6, 6, 1),
  ad |-> Part(3, 4, 8, 5 .. 5, 5, 1), cd |-> Part(3, 4, 8, 4 .. 4, 4, 1),
  rcode |-> Part(3, 4, 8, 0 .. 3, 0, 8), qdcount |-> Whole(4, 6, 16),
  ancount |-> Whole(6, 8, 16), nscount |-> Whole(8, 10, 16), arcount |-> Whole(10, 12, 16)]

DhcpFields == [
  op |-> Whole(0, 1, 8), htype |-> Whole(1, 2, 8), hlen |-> Whole(2, 3, 8),
  hops |-> Whole(3, 4, 8), xid |-> Whole(4, 8, 32), secs |-> Whole(8, 10, 16),
  flags |-> Whole(10, 12, 16), ciaddr |-> Whole(12, 16, 32), yiaddr |-> Whole(16, 20, 32),
  siaddr |-> Whole(20, 24, 32), giaddr |-> Whole(24, 28, 32)]

NtpFields == [
  leap_indicator |-> Part(0, 1, 8, 6 .. 7, 6, 8), version |-> Part(0, 1, 8, 3 .. 5, 3, 8),
  mode |-> Part(0, 1, 8, 0 .. 2, 0, 8), stratum |-> Whole(1, 2, 8), poll |-> Whole(2, 3, 8),
  precision |-> Whole(3, 4, 8), root_delay |-> Whole(4, 8, 32),
  root_dispersion |-> Whole(8, 12, 32), reference_timestamp |-> Whole(16, 24, 64),
  originate_timestamp |-> Whole(24, 32, 64), receive_timestamp |-> Whole(32, 40, 64),
  transmit_timestamp |-> Whole(40, 48, 64)]

-----------------------------------------------------------------------------
Layouts == [
  Eth |-> EthFields, Sll |-> SllFields, Vlan |-> VlanFields, Llc |-> LlcFields,
  MplsEntry |-> MplsEntryFields, Arp |-> ArpFields, Ipv4 |-> Ipv4Fields,
  Ipv6 |-> Ipv6Fields, Ipv6ExtHeader |-> Ipv6ExtHeaderFields,
  Ipv6Frag |-> Ipv6FragFields, Ipv6Route |-> Ipv6RouteFields,
  Ipv6Srh |-> Ipv6SrhFields, Ipv6Mobility |-> Ipv6MobilityFields,
  Ipv6Hip |-> Ipv6HipFields, Ipv6Shim6 |-> Ipv6Shim6Fields, Ah |-> AhFields,
  Esp |-> EspFields, Gre |-> GreFields, Vxlan |-> VxlanFields, Tcp |-> TcpFields,
  Udp |-> UdpFields, Sctp |-> SctpFields, Icmp |-> IcmpFields,
  IcmpEcho |-> IcmpEchoFields, IcmpQuoted |-> IcmpQuotedFields,
  IcmpRedirect |-> IcmpRedirectFields, IcmpTimestamp |-> IcmpTimestampFields,
  IcmpAddressMask |-> IcmpAddressMaskFields, Icmpv6 |-> Icmpv6Fields,
  Icmpv6Echo |-> Icmpv6EchoFields, Icmpv6Quoted |-> Icmpv6QuotedFields,
  NdpRouterSolicitation |-> NdpRouterSolicitationFields,
  NdpRouterAdvertisement |-> NdpRouterAdvertisementFields,
  NdpNeighborSolicitation |-> NdpNeighborSolicitationFields,
  NdpNeighborAdvertisement |-> NdpNeighborAdvertisementFields,
  NdpRedirect |-> NdpRedirectFields, Igmp |-> IgmpFields, Tls |-> TlsFields,
  Dns |-> DnsFields, Dhcp |-> DhcpFields, Ntp |-> NtpFields,
  GreAll |-> GreOptionFields(TRUE, TRUE), GreKey |-> GreOptionFields(FALSE, TRUE),
  GreSequence |-> GreOptionFields(FALSE, FALSE)]

\* Viewers with no mutable accessor for some of their fields.
ReadOnly == [
  IcmpQuoted |-> {"next_hop_mtu", "pointer"},
  IcmpTimestamp |-> DOMAIN IcmpTimestampFields \ {"originate_timestamp"},
  IcmpRedirect |-> DOMAIN IcmpRedirectFields,
  IcmpAddressMask |-> DOMAIN IcmpAddressMaskFields,
  NdpRouterSolicitation |-> DOMAIN NdpRouterSolicitationFields,
  NdpRouterAdvertisement |-> DOMAIN NdpRouterAdvertisementFields,
  NdpNeighborSolicitation |-> DOMAIN NdpNeighborSolicitationFields,
  NdpNeighborAdvertisement |-> DOMAIN NdpNeighborAdvertisementFields,
  NdpRedirect |-> DOMAIN NdpRedirectFields]

\* Fields that are meant to show the same bits twice.
Overlays == {
  {"tci", "pcp"}, {"tci", "dei"}, {"tci", "vid"}, {"tos", "dscp"}, {"tos", "ecn"},
  {"control_u", "control_is"}, {"control_is", "oui"},
  {"rest_of_header", "identifier"}, {"rest_of_header", "sequence"},
  {"rest_of_header", "next_hop_mtu"}, {"rest_of_header", "pointer"}}

=============================================================================
