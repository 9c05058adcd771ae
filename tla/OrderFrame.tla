----------------------------- MODULE OrderFrame -----------------------------
(***************************************************************************)
(* Who takes a frame for an order: the classifier in the kernel            *)
(* (net/xdp_prog.bpf.c with net/parsing_helpers.h), which redirects frames *)
(* to the AF_XDP socket, and parse_order_zero_copy()                       *)
(* (xdp/zero_copy_parser.hpp), which reads orders out of them.  Each walks *)
(* the headers with checks of its own.                                     *)
(*                                                                         *)
(* A frame is reduced to what these checks tell apart: its length, the     *)
(* number of VLAN tags, the three lengths its headers claim, and which of  *)
(* the other fields are not those of an order.  Offsets count bytes.       *)
(***************************************************************************)
EXTENDS Integers, FiniteSets

CONSTANTS
  Lengths,      \* frame lengths
  HeaderWords,  \* IPv4 header lengths (ihl)
  TotalLengths, \* IPv4 total lengths
  UdpLengths    \* UDP lengths

ASSUME FrameAssumption ==
  Lengths \cup HeaderWords \cup TotalLengths \cup UdpLengths \subseteq Nat

VARIABLES
  frame,
  verdict,  \* the statistics slot the classifier counts it in
  accepted  \* whether the parser takes it

(* What is wrong with the fields that hold no length.                      *)
Flaws == {"ethertype", "version", "protocol", "fragment", "port", "side", "tif", "qty"}

Frame == [len : Lengths, tags : 0 .. 2, ihl : HeaderWords, tot_len : TotalLengths,
          udp_len : UdpLengths, flaws : {w \in SUBSET Flaws : Cardinality(w) <= 1}]

(* sizeof(ethhdr), sizeof(VlanTag), sizeof(iphdr), sizeof(udphdr),         *)
(* sizeof(OrderWireFormat).                                                *)
Eth == 14
Tag == 4
Ip == 20
Udp == 8
Order == 30

Fine(f, flaws) == f.flaws \cap flaws = {}

-----------------------------------------------------------------------------
(* A seeded mistake: no tag is skipped.                                    *)
NoTags == 0

(* VLAN_MAX_DEPTH.                                                         *)
VlanMaxDepth == 1

(* parse_ethhdr_vlan(): the tags it skips, as far as they are there, and   *)
(* whether what follows calls itself IPv4.                                 *)
Skipped(f) ==
  CHOOSE n \in 0 .. VlanMaxDepth :
    /\ n <= f.tags /\ (n > 0 => Eth + Tag * n <= f.len)
    /\ n < VlanMaxDepth => n = f.tags \/ Eth + Tag * (n + 1) > f.len

IsIpv4(f) == Eth <= f.len /\ Skipped(f) = f.tags /\ Fine(f, {"ethertype"})

(* Where the classifier's cursor stands after each header.                 *)
IpAt(f) == Eth + Tag * Skipped(f)
UdpAt(f) == IpAt(f) + 4 * f.ihl
PayloadAt(f) == UdpAt(f) + Udp

(* parse_iphdr() finds a whole header that says UDP.                       *)
IsUdp(f) ==
  /\ IpAt(f) + Ip <= f.len
  /\ 4 * f.ihl >= Ip
  /\ UdpAt(f) <= f.len
  /\ Fine(f, {"protocol"})

(* parse_udphdr() returns the payload's length as the header claims it.    *)
IsOrderEntry(f) ==
  /\ PayloadAt(f) <= f.len
  /\ f.udp_len - Udp >= 0
  /\ Fine(f, {"port"})
  /\ f.udp_len - Udp >= Order

(* hydra_xdp_redirect(), while a socket is registered.                     *)
Classify(f) ==
  CASE ~IsIpv4(f) -> "not udp"
    [] IsIpv4(f) /\ ~IsUdp(f) -> "not udp"
    [] IsIpv4(f) /\ IsUdp(f) /\ ~Fine(f, {"fragment"}) -> "fragmented"
    [] IsIpv4(f) /\ IsUdp(f) /\ Fine(f, {"fragment"}) ->
         IF IsOrderEntry(f) THEN "redirected" ELSE "wrong port"

-----------------------------------------------------------------------------
(* The parser's offsets: it takes at most one tag, and only the end of the *)
(* frame is known to it.                                                   *)
ParserIpAt(f) == IF f.tags > 0 THEN Eth + Tag ELSE Eth
ParserUdpAt(f) == ParserIpAt(f) + 4 * f.ihl
WireAt(f) == ParserUdpAt(f) + Udp

(* A seeded mistake: the header is not counted in the UDP length.          *)
PayloadOnly(f) == f.udp_len >= Order

UdpCoversOrder(f) == f.udp_len >= Udp + Order

IpCoversOrder(f) ==
  /\ f.tot_len >= 4 * f.ihl + Udp + Order
  /\ ParserIpAt(f) + f.tot_len <= f.len

(* The checks in their order, each with the byte up to which it reads.     *)
Checks(f) ==
  <<[upto |-> Eth,               holds |-> Fine(f, {"ethertype"}) \/ f.tags > 0],
    [upto |-> ParserIpAt(f),     holds |-> Fine(f, {"ethertype"}) /\ f.tags <= 1],
    [upto |-> ParserIpAt(f) + Ip, holds |-> Fine(f, {"version"}) /\ 4 * f.ihl >= Ip],
    [upto |-> ParserUdpAt(f),    holds |-> Fine(f, {"protocol", "fragment"}) /\ IpCoversOrder(f)],
    [upto |-> WireAt(f),         holds |-> Fine(f, {"port"}) /\ UdpCoversOrder(f)],
    [upto |-> WireAt(f) + Order, holds |-> Fine(f, {"side", "tif", "qty"})]>>

Short(f, i) == f.len < Checks(f)[i].upto

(* parse_order_zero_copy().                                                *)
Parses(f) == \A i \in DOMAIN Checks(f) : ~Short(f, i) /\ Checks(f)[i].holds

(* It gives up because the frame is too short for what it has to read, or  *)
(* shorter than the IP header says.                                        *)
RejectedAsShort(f) ==
  \E i \in DOMAIN Checks(f) :
    /\ \A j \in 1 .. i - 1 : ~Short(f, j) /\ Checks(f)[j].holds
    /\ \/ Short(f, i)
       \/ i = 4 /\ ParserIpAt(f) + f.tot_len > f.len

-----------------------------------------------------------------------------
frameVars == <<frame, verdict, accepted>>

NoFrame == [len |-> 0]

FrameInit == frame \in Frame /\ verdict = "none" /\ accepted = FALSE

NoFrames == frame = NoFrame /\ verdict = "none" /\ accepted = FALSE

HandleFrame ==
  /\ verdict = "none"
  /\ frame # NoFrame
  /\ verdict' = Classify(frame)
  /\ accepted' = Parses(frame)
  /\ UNCHANGED frame

(* No order is left to the network stack, where it would be lost: whatever *)
(* the parser would accept the classifier redirects, with and without a    *)
(* tag, with and without IP options and padding.                           *)
NoOrderPassedBy == accepted => verdict = "redirected"

(* An accepted order is what the sender has put into its UDP datagram: it  *)
(* lies within the frame, within the IP packet and within the UDP datagram *)
(* -- none of it is read out of the padding or of another message.         *)
OrderInsidePayload ==
  accepted =>
    LET order_end == Eth + Tag * frame.tags + 4 * frame.ihl + Udp + Order
    IN  /\ order_end <= frame.len
        /\ order_end <= Eth + Tag * frame.tags + frame.tot_len
        /\ order_end <= Eth + Tag * frame.tags + 4 * frame.ihl + frame.udp_len

(* xdp_prog.bpf.c:50-52: "redirect only frames whose UDP payload is at     *)
(* least a full order message, so the kernel never hands the AF_XDP socket *)
(* a short frame the parser must reject".                                  *)
NoShortFrameRedirected == verdict = "redirected" => ~RejectedAsShort(frame)
=============================================================================
