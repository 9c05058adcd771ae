------------------------------ MODULE AfXdpRx ------------------------------
(***************************************************************************)
(* afxdp_rx_thread_fn (src/pipeline.cpp) on an XdpSocket: it attaches the  *)
(* XDP program, builds the socket, drains it batch by batch, and takes     *)
(* everything down again, also from the middle of a setup that failed.     *)
(* Every call that creates or gives up a kernel resource is a step.        *)
(***************************************************************************)
EXTENDS RxThread, XdpSocket

VARIABLES
  batch,         \* the frames of `batch' not parsed yet
  parsed_ok,
  parse_errors

ASSUME AfXdpRxAssumption == NoOrder = NoEvent /\ MaxPackets <= MaxOrders

countVars == <<parsed_ok, parse_errors>>
afxdpVars == <<socketVars, batch, countVars>>

AfXdpInit ==
  /\ SocketInit
  /\ batch = <<>> /\ parsed_ok = 0 /\ parse_errors = 0

-----------------------------------------------------------------------------
(* The thread moves on, and nothing but the socket and itself changes.     *)
GoTo(from, to) ==
  /\ rx_pc = from
  /\ rx_pc' = to
  /\ UNCHANGED <<matchingVars, rx_order, attempt, taken, dropped, batch, countVars>>

(* A setup call at `from' either creates r and goes on to `next', or fails *)
(* and goes to `undo', which takes down what was there before it.          *)
SetUp(from, r, next, undo) ==
  \/ GoTo(from, next) /\ Acquire(r)
  \/ GoTo(from, undo) /\ UNCHANGED socketVars

(* A teardown call that cannot fail in this order.                         *)
TakeDown(from, r, next) == GoTo(from, next) /\ GiveBack(r)

(* load_and_attach_xdp_program(): a program that was opened but could not  *)
(* be attached is closed again.                                            *)
Attach == SetUp("attach", "program", "find map", "failed")

(* find_xsks_map_fd().                                                     *)
FindMap ==
  /\ \E next \in {"area", "detach"} : GoTo("find map", next)
  /\ UNCHANGED socketVars

(* XdpSocket's constructor.                                                *)
AllocateArea == SetUp("area", "area", "umem", "detach")
CreateUmem == SetUp("umem", "umem", "socket", "free")
CreateSocket == SetUp("socket", "socket", "register", "delete umem")
RegisterSocket == SetUp("register", "registered", "seed", "close")
SeedFrames == GoTo("seed", "loop") /\ Seed

Open ==
  \/ Attach \/ FindMap
  \/ AllocateArea \/ CreateUmem \/ CreateSocket \/ RegisterSocket \/ SeedFrames

-----------------------------------------------------------------------------
(* The head of the receive loop.                                           *)
AfXdpSeeStop ==
  /\ stop
  /\ GoTo("loop", "close")
  /\ UNCHANGED socketVars

(* recv_batch(): the FILL ring is topped up, then the RX ring drained.     *)
BeginReceive ==
  /\ ~stop
  /\ GoTo("loop", "peek")
  /\ RefillFillRing

ReceiveBatch ==
  /\ rx_pc = "peek"
  /\ batch' = Received
  /\ rx_pc' = "parse"
  /\ Peek
  /\ UNCHANGED <<matchingVars, rx_order, attempt, taken, dropped, countVars>>

(* parse_and_release(): the frame goes back whether it parsed or not.      *)
ParseAndRelease ==
  /\ rx_pc = "parse"
  /\ batch # <<>>
  /\ taken' = taken + 1
  /\ batch' = Tail(batch)
  /\ ReleaseFrame(Head(batch).frame)
  /\ \/ /\ Head(batch).order = NoOrder
        /\ parse_errors' = parse_errors + 1
        /\ UNCHANGED <<rx_pc, rx_order>>
     \/ /\ Head(batch).order # NoOrder
        /\ rx_order' = Head(batch).order
        /\ rx_pc' = "push"
        /\ UNCHANGED parse_errors
  /\ attempt' = 0
  /\ UNCHANGED <<matchingVars, dropped, parsed_ok>>

BatchDone ==
  /\ batch = <<>>
  /\ GoTo("parse", "loop")
  /\ UNCHANGED socketVars

(* A seeded mistake: an order is counted before it is known to be pushed.  *)
CountEagerly ==
  /\ BoundedSpin("parse")
  /\ parsed_ok' = IF rx_pc' = "parse" THEN parsed_ok + 1 ELSE parsed_ok
  /\ UNCHANGED <<socketVars, batch, parse_errors>>

PushParsed ==
  /\ \/ PushOrder("parse") /\ parsed_ok' = parsed_ok + 1
     \/ (PushFails \/ GiveUp("parse")) /\ UNCHANGED parsed_ok
  /\ UNCHANGED <<socketVars, batch, parse_errors>>

Receive ==
  \/ AfXdpSeeStop \/ BeginReceive \/ ReceiveBatch
  \/ ParseAndRelease \/ BatchDone \/ PushParsed

-----------------------------------------------------------------------------
(* The socket's destructor, or the cleanup of a constructor that failed,   *)
(* each from the step where there is something to take down; then          *)
(* detach_xdp_program().                                                   *)
(* A seeded mistake: the program is detached before the socket is closed.  *)
DetachFirst == TakeDown("close", "program", "ended")

CloseAndDelete == GoTo("close", "delete umem") /\ CloseSocket
DeleteUmem == TakeDown("delete umem", "umem", "free")

(* A seeded mistake: where the setup failed the program is not detached.   *)
EndAfterArea == TakeDown("free", "area", "ended")

FreeArea == TakeDown("free", "area", "detach")

(* The interface may not be found any more, or xdp_program__detach() fail: *)
(* the program is closed all the same, and stays attached.                 *)
Detach ==
  /\ GoTo("detach", "ended")
  /\ GiveBack("program") \/ Abandon("program", "attachment")

Close == CloseAndDelete \/ DeleteUmem \/ FreeArea \/ Detach

AfXdpPin == RxPin("attach") /\ UNCHANGED afxdpVars

AfXdpThread == AfXdpPin \/ Open \/ Receive \/ Close
=============================================================================
