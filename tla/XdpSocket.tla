----------------------------- MODULE XdpSocket -----------------------------
(***************************************************************************)
(* hydra::xdp::XdpSocket (net/xdp_socket_user.cpp): the UMEM's frames on   *)
(* their way between the free-frame stack, the FILL ring, the kernel and   *)
(* the RX ring, and the resources the socket is built from.  The kernel is *)
(* what is outside src/: it takes a frame from the FILL ring for a packet  *)
(* that the XDP program redirects, and puts it on the RX ring; it drops    *)
(* the packet when it has no frame or no room, and passes it on to the     *)
(* network stack while no socket is registered.                            *)
(*                                                                         *)
(* A frame is known by its chunk: the kernel adds a headroom to the        *)
(* address it hands out and takes it off again on the FILL ring.  Nothing  *)
(* is ever sent, so the COMPLETION and TX rings stay empty.                *)
(***************************************************************************)
EXTENDS Integers, SequencesExt

CONSTANTS
  NumFrames,   \* AFXDP_NUM_FRAMES
  FillSize,    \* size of the FILL ring
  RxSize,      \* size of the RX ring
  BatchSize,   \* AFXDP_RX_BATCH_SIZE
  MaxPackets,  \* bound on the packets that arrive, for model checking
  NoOrder      \* what a packet carries that does not parse

ASSUME XdpSocketAssumption ==
  {NumFrames, FillSize, RxSize, BatchSize} \subseteq Nat \ {0} /\ MaxPackets \in Nat

VARIABLES
  held,          \* what has been created and not yet given up
  free_frames,   \* free_frames_, free_frame_count_ of them
  fill_ring,     \* frames offered to the kernel
  rx_ring,       \* frames received: the frame and what the packet carries
  double_release_count,
  packets        \* packets that have arrived at the interface

Frames == 0 .. NumFrames - 1

ringVars == <<free_frames, fill_ring, rx_ring, double_release_count>>
socketVars == <<held, ringVars, packets>>

SocketInit ==
  /\ held = {}
  /\ free_frames = <<>> /\ fill_ring = <<>> /\ rx_ring = <<>>
  /\ double_release_count = 0
  /\ packets = 0

-----------------------------------------------------------------------------
(* One step of load_and_attach_xdp_program() or of the constructor, which  *)
(* may fail and then leaves nothing behind.                                *)
Acquire(r) ==
  /\ held' = held \cup {r}
  /\ UNCHANGED <<ringVars, packets>>

GiveBack(r) ==
  /\ held' = held \ {r}
  /\ UNCHANGED <<ringVars, packets>>

(* What is left of r when it could not be given back whole.                *)
Abandon(r, rest) ==
  /\ held' = (held \ {r}) \cup {rest}
  /\ UNCHANGED <<ringVars, packets>>

(* xsk_socket__delete: the kernel drops its end of the rings, and the map  *)
(* entry goes with the socket.                                             *)
CloseSocket ==
  /\ held' = held \ {"socket", "registered"}
  /\ free_frames' = <<>> /\ fill_ring' = <<>> /\ rx_ring' = <<>>
  /\ UNCHANGED <<double_release_count, packets>>

(* refill_fill_ring(), with this stack: as many frames as fit, from the    *)
(* top.                                                                    *)
Stock(stack) ==
  LET room == FillSize - Len(fill_ring)
  IN  IF room < Len(stack) THEN room ELSE Len(stack)

(* A seeded mistake: the frames handed over stay on the stack.             *)
RefillKeeps(stack) ==
  LET kept == Len(stack) - Stock(stack)
  IN  /\ fill_ring' = fill_ring \o Reverse(SubSeq(stack, kept + 1, Len(stack)))
      /\ free_frames' = stack
      /\ UNCHANGED <<held, rx_ring, double_release_count, packets>>

Refill(stack) ==
  LET kept == Len(stack) - Stock(stack)
  IN  /\ fill_ring' = fill_ring \o Reverse(SubSeq(stack, kept + 1, Len(stack)))
      /\ free_frames' = SubSeq(stack, 1, kept)
      /\ UNCHANGED <<held, rx_ring, double_release_count, packets>>

(* The end of the constructor: every frame on the stack, then a refill.    *)
Seed == Refill([i \in 1 .. NumFrames |-> i - 1])

RefillFillRing == Refill(free_frames)

(* The rest of recv_batch(): what it returns is Received.                  *)
Received ==
  SubSeq(rx_ring, 1, IF Len(rx_ring) < BatchSize THEN Len(rx_ring) ELSE BatchSize)

Peek ==
  /\ rx_ring' = SubSeq(rx_ring, Len(Received) + 1, Len(rx_ring))
  /\ UNCHANGED <<held, free_frames, fill_ring, double_release_count, packets>>

(* A seeded mistake: the frame is not returned.                            *)
ForgetFrame(frame) == UNCHANGED socketVars

ReleaseFrame(frame) ==
  /\ IF Len(free_frames) < NumFrames
     THEN /\ free_frames' = Append(free_frames, frame)
          /\ UNCHANGED double_release_count
     ELSE /\ double_release_count' = double_release_count + 1
          /\ UNCHANGED free_frames
  /\ UNCHANGED <<held, fill_ring, rx_ring, packets>>

-----------------------------------------------------------------------------
(* A packet arrives, with or without an order the parser accepts.          *)
Redirecting == {"program", "socket", "registered"} \subseteq held

PacketArrives ==
  /\ packets < MaxPackets
  /\ packets' = packets + 1
  /\ UNCHANGED <<held, free_frames, double_release_count>>
  /\ \/ /\ Redirecting /\ fill_ring # <<>> /\ Len(rx_ring) < RxSize
        /\ fill_ring' = Tail(fill_ring)
        /\ \E order \in {packets + 1, NoOrder} :
             rx_ring' = Append(rx_ring, [frame |-> Head(fill_ring), order |-> order])
     \/ /\ ~Redirecting \/ fill_ring = <<>> \/ Len(rx_ring) = RxSize
        /\ UNCHANGED <<fill_ring, rx_ring>>
=============================================================================
