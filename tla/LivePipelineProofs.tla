------------------------- MODULE LivePipelineProofs -------------------------
(***************************************************************************)
(* Proofs about LivePipeline for any capacity of the queue, any number of  *)
(* frames, any sizes of the rings and batches, and any bounds on orders,   *)
(* packets and signals.                                                    *)
(***************************************************************************)
EXTENDS LivePipeline, SequenceTheorems, TLAPS

(* What the receive thread holds of the kernel's resources, wherever it    *)
(* is.                                                                     *)
HeldInv ==
  /\ source \in {"synthetic", "afxdp"}
  /\ source = "synthetic" =>
       held = {} /\ rx_pc \in {"pin", "loop", "push", "ended", "failed"}
  /\ source = "afxdp" =>
       \/ rx_pc \in {"pin", "attach", "ended", "failed"} /\ held = {}
       \/ rx_pc = "ended" /\ held = {"attachment"}
       \/ rx_pc \in {"find map", "area", "detach"} /\ held = {"program"}
       \/ rx_pc \in {"umem", "free"} /\ held = {"program", "area"}
       \/ rx_pc \in {"socket", "delete umem"} /\ held = {"program", "area", "umem"}
       \/ rx_pc \in {"register", "close"} /\ held = {"program", "area", "umem", "socket"}
       \/ /\ rx_pc \in {"seed", "loop", "peek", "parse", "push", "close"}
          /\ held = {"program", "area", "umem", "socket", "registered"}

Over == {"returned", "exited", "killed", "aborted"}

(* Before any thread is started; and when those that were are over.        *)
Early == {"begin", "register", "set up", "look", "start rx", "fatal"}
Late == {"clear", "default", "leave", "return", "returned", "exited", "killed"}
Waiting == {"start matching", "wait", "join rx", "join matching"}

(* While the global pointer is set, and while the stop_source exists.      *)
Published == {"register", "set up", "look", "start rx", "clear"} \cup Waiting
Alive == Published \cup {"default", "leave"}

Joined == ("rx" \in started => RxOver) /\ ("matching" \in started => MatchingOver)

ThreadsInv ==
  /\ started \subseteq {"rx", "matching"}
  /\ main_pc \in Early \cup Waiting \cup Late \cup {"aborted"}
  /\ main_pc \in Early => started = {}
  /\ main_pc = "start matching" => started = {"rx"}
  /\ main_pc = "join matching" => RxOver
  /\ main_pc \in Late => Joined
  /\ "rx" \notin started => rx_pc = "pin"

(* A handler that runs has interrupted a thread that is not over, and what *)
(* it read of the pointer still holds.                                     *)
HandlerInv ==
  /\ ~handling => main_pc \in {"begin", "register", "leave", "return"} \cup Over
  /\ main_pc \in Alive => stop_source = "alive"
  /\ g_stop_source \in BOOLEAN
  /\ g_stop_source => main_pc \in Published \cup {"fatal"} \cup Over
  /\ ~Ended => \/ handler = NoHandler
               \/ /\ handler = [thread |-> handler.thread, pointer |-> handler.pointer]
                  /\ handler.thread \in Threads /\ handler.pointer \in BOOLEAN
                  /\ handler.pointer => g_stop_source

ControlInv == HeldInv /\ ThreadsInv /\ HandlerInv

(* A process that has just begun holds nothing and runs main alone.        *)
LEMMA ControlStart == Init => ControlInv
PROOF
  BY DEF Init, MatchingInit, RxInit, AfXdpInit, SocketInit, ControlInv, HeldInv,
         ThreadsInv, HandlerInv, Early, Late, Alive, Published, Waiting, Over, Ended, NoHandler, Joined

(* A step of the receive thread: each setup call adds to what is held and  *)
(* each teardown call takes from it what its place in the code says.       *)
LEMMA HeldStep == ASSUME HeldInv, RunRx PROVE HeldInv'
PROOF
  <1> USE DEF HeldInv
  <1>1. source' = source
    BY DEF RunRx, mainVars
  <1>2. CASE source = "synthetic" /\ SyntheticRx /\ UNCHANGED afxdpVars
    BY <1>1, <1>2 DEF SyntheticRx, RxPin, RxSeeStop, Generate, BoundedSpin, PushOrder,
         PushFails, GiveUp, afxdpVars, socketVars
  <1>3. CASE source = "afxdp" /\ AfXdpThread
    <2> USE DEF GoTo, SetUp, TakeDown, Acquire, GiveBack, Abandon
    <2>1. CASE AfXdpPin
      BY <1>1, <1>3, <2>1 DEF AfXdpPin, RxPin, afxdpVars, socketVars
    <2>2. CASE Attach \/ FindMap
      BY <1>1, <1>3, <2>2 DEF Attach, FindMap, socketVars
    <2>3. CASE AllocateArea
      BY <1>1, <1>3, <2>3 DEF AllocateArea, socketVars
    <2>4. CASE CreateUmem
      BY <1>1, <1>3, <2>4 DEF CreateUmem, socketVars
    <2>5. CASE CreateSocket
      BY <1>1, <1>3, <2>5 DEF CreateSocket, socketVars
    <2>6. CASE RegisterSocket
      BY <1>1, <1>3, <2>6 DEF RegisterSocket, socketVars
    <2>7. CASE SeedFrames
      BY <1>1, <1>3, <2>7 DEF SeedFrames, Seed, Refill
    <2>8. CASE Receive
      BY <1>1, <1>3, <2>8 DEF Receive, AfXdpSeeStop, BeginReceive, RefillFillRing, Refill,
           ReceiveBatch, Peek, ParseAndRelease, ReleaseFrame, BatchDone, PushParsed,
           PushOrder, PushFails, GiveUp, socketVars
    <2>9. CASE CloseAndDelete
      BY <1>1, <1>3, <2>9 DEF CloseAndDelete, CloseSocket
    <2>10. CASE DeleteUmem
      BY <1>1, <1>3, <2>10 DEF DeleteUmem
    <2>11. CASE FreeArea \/ Detach
      BY <1>1, <1>3, <2>11 DEF FreeArea, Detach
    <2> QED BY <1>3, <2>1, <2>2, <2>3, <2>4, <2>5, <2>6, <2>7, <2>8, <2>9, <2>10, <2>11
        DEF AfXdpThread, Open, Close
  <1> QED BY <1>2, <1>3 DEF RunRx

(* A step of main: it starts a thread or goes on, and goes past a join     *)
(* only when that thread is over.                                          *)
LEMMA MainStep == ASSUME ControlInv, Main PROVE ControlInv'
PROOF
  <1>1. /\ Runs("main")
        /\ UNCHANGED <<matchingVars, rxVars, afxdpVars, source, signalVars>>
    BY DEF Main, MainGoes, RefuseOptions, PublishStopSource, RegisterHandler, Prepare,
         LookForStop, StartRx, StartMatching, SeeStopRequest, JoinRx, JoinMatching,
         ClearStopSource, RestoreDefault, Leave, Return
  <1>2. UNCHANGED <<rx_pc, m_pc, held, source, handler>> /\ ~Ended
    BY <1>1 DEF Runs, rxVars, matchingVars, threadVars, afxdpVars, socketVars, signalVars
  <1>3. HeldInv'
    BY <1>2 DEF ControlInv, HeldInv
  <1> USE <1>2 DEF ControlInv, ThreadsInv, MainGoes, Early, Late, Waiting, RxOver, MatchingOver,
          Joined
  <1>4. ThreadsInv'
    BY DEF Main, RefuseOptions, PublishStopSource, RegisterHandler, Prepare,
         LookForStop, StartRx, StartMatching, SeeStopRequest, JoinRx, JoinMatching,
         ClearStopSource, RestoreDefault, Leave, Return
  <1>5. handler.thread # "main" /\ (main_pc \in Late => handler = NoHandler)
    BY <1>1 DEF HandlerInv, Runs, Threads, NoHandler
  <1>6. started \subseteq started' /\ (~Ended' => Threads \subseteq Threads')
    BY DEF Threads, Main, RefuseOptions, PublishStopSource, RegisterHandler, Prepare,
         LookForStop, StartRx, StartMatching, SeeStopRequest, JoinRx, JoinMatching,
         ClearStopSource, RestoreDefault, Leave, Return
  <1> USE DEF Alive, Published, Over, Ended, HandlerInv
  <1>7. ~handling' => main_pc' \in {"begin", "register", "leave", "return"} \cup Over
    BY DEF Main, RefuseOptions, PublishStopSource, RegisterHandler, Prepare,
         LookForStop, StartRx, StartMatching, SeeStopRequest, JoinRx, JoinMatching,
         ClearStopSource, RestoreDefault, Leave, Return
  <1>8. main_pc' \in Alive => stop_source' = "alive"
    BY DEF Main, RefuseOptions, PublishStopSource, RegisterHandler, Prepare,
         LookForStop, StartRx, StartMatching, SeeStopRequest, JoinRx, JoinMatching,
         ClearStopSource, RestoreDefault, Leave, Return
  <1>9. g_stop_source' \in BOOLEAN
    BY DEF Main, RefuseOptions, PublishStopSource, RegisterHandler, Prepare,
         LookForStop, StartRx, StartMatching, SeeStopRequest, JoinRx, JoinMatching,
         ClearStopSource, RestoreDefault, Leave, Return
  <1>10. g_stop_source' => main_pc' \in Published \cup {"fatal"} \cup Over
    BY DEF Main, RefuseOptions, PublishStopSource, RegisterHandler, Prepare,
         LookForStop, StartRx, StartMatching, SeeStopRequest, JoinRx, JoinMatching,
         ClearStopSource, RestoreDefault, Leave, Return
  <1>11. g_stop_source => g_stop_source' \/ main_pc \in Late
    BY DEF Main, RefuseOptions, PublishStopSource, RegisterHandler, Prepare,
         LookForStop, StartRx, StartMatching, SeeStopRequest, JoinRx, JoinMatching,
         ClearStopSource, RestoreDefault, Leave, Return
  <1>12. HandlerInv'
    BY <1>5, <1>6, <1>7, <1>8, <1>9, <1>10, <1>11 DEF NoHandler
  <1> QED BY <1>3, <1>4, <1>12

(* A step of the receive thread leaves main where it is; that it runs at   *)
(* all means that main has not joined it.                                  *)
LEMMA RxStep == ASSUME ControlInv, RunRx PROVE ControlInv'
PROOF
  <1>1. HeldInv'
    BY HeldStep DEF ControlInv
  <1>2. UNCHANGED <<m_pc, main_pc, started, stop_source, g_stop_source, handling, handler>>
    BY DEF RunRx, mainVars, signalVars, SyntheticRx, RxPin, RxSeeStop, Generate, BoundedSpin,
         PushOrder, PushFails, GiveUp, matchingVars, threadVars, AfXdpThread, AfXdpPin, Open,
         Receive, Close, GoTo, SetUp, TakeDown, Attach, FindMap, AllocateArea, CreateUmem,
         CreateSocket, RegisterSocket, SeedFrames, AfXdpSeeStop, BeginReceive, ReceiveBatch,
         ParseAndRelease, BatchDone, PushParsed, CloseAndDelete, DeleteUmem, FreeArea, Detach
  <1>3. ~Ended /\ "rx" \in started /\ ~RxOver /\ handler.thread # "rx"
    BY DEF RunRx, Runs, Threads
  <1>4. ThreadsInv'
    BY <1>2, <1>3 DEF ControlInv, ThreadsInv, Joined, RxOver, Late, Early, Waiting
  <1>5. HandlerInv'
    BY <1>2, <1>3 DEF ControlInv, HandlerInv, Threads, Ended, MatchingOver, NoHandler
  <1> QED BY <1>1, <1>4, <1>5 DEF ControlInv

(* A step of the matching thread, likewise.                                *)
LEMMA MatchingStep == ASSUME ControlInv, RunMatching PROVE ControlInv'
PROOF
  <1>1. /\ UNCHANGED <<rx_pc, main_pc, started, stop_source, g_stop_source, handling, handler>>
        /\ UNCHANGED <<held, source>>
    BY DEF RunMatching, mainVars, signalVars, rxVars, afxdpVars, socketVars
  <1>2. ~Ended /\ "matching" \in started /\ ~MatchingOver /\ handler.thread # "matching"
    BY DEF RunMatching, Runs, Threads
  <1>3. HeldInv'
    BY <1>1 DEF ControlInv, HeldInv
  <1>4. ThreadsInv'
    BY <1>1, <1>2 DEF ControlInv, ThreadsInv, Joined, RxOver, Late, Early, Waiting
  <1>5. HandlerInv'
    BY <1>1, <1>2 DEF ControlInv, HandlerInv, Threads, Ended, RxOver, NoHandler
  <1> QED BY <1>3, <1>4, <1>5 DEF ControlInv

(* A SIGINT interrupts a thread that is not over; where it ends the        *)
(* process instead, no other thread has been started or all are over.      *)
LEMMA SigintStep ==
  ASSUME ControlInv, NEW thread \in Threads, Sigint(thread) PROVE ControlInv'
PROOF
  <1>1. /\ UNCHANGED <<rx_pc, m_pc, started, stop_source, g_stop_source, handling>>
        /\ UNCHANGED <<held, source>> /\ ~Ended
    BY DEF Sigint, Runs, matchingVars, threadVars, rxVars, afxdpVars, socketVars
  <1>2. HeldInv'
    BY <1>1 DEF ControlInv, HeldInv
  <1>3. CASE handling /\ handler' = [thread |-> thread, pointer |-> g_stop_source]
                      /\ UNCHANGED main_pc
    <2>1. ThreadsInv'
      BY <1>1, <1>3 DEF ControlInv, ThreadsInv, Joined, RxOver, MatchingOver
    <2>2. HandlerInv'
      BY <1>1, <1>3 DEF ControlInv, HandlerInv, Threads, Ended, RxOver, MatchingOver, NoHandler
    <2> QED BY <1>2, <2>1, <2>2 DEF ControlInv
  <1>4. CASE ~handling /\ main_pc' = "killed" /\ UNCHANGED handler
    <2>1. Joined
      BY <1>1, <1>4 DEF ControlInv, ThreadsInv, HandlerInv, Joined, Early, Late, Ended, Over
    <2>2. ThreadsInv'
      BY <1>1, <1>4, <2>1 DEF ControlInv, ThreadsInv, Joined, RxOver, MatchingOver, Early, Late,
           Waiting
    <2>3. HandlerInv'
      BY <1>1, <1>4 DEF ControlInv, HandlerInv, Ended, Alive, Published, Waiting, Over
    <2> QED BY <1>2, <2>2, <2>3 DEF ControlInv
  <1> QED BY <1>3, <1>4 DEF Sigint

(* The handler returns, a packet arrives, or nothing happens: no thread    *)
(* moves.                                                                  *)
LEMMA OtherStep ==
  ASSUME ControlInv, RequestStop \/ Network \/ UNCHANGED vars PROVE ControlInv'
PROOF
  <1>1. /\ UNCHANGED <<rx_pc, m_pc, started, stop_source, g_stop_source, handling, main_pc>>
        /\ UNCHANGED <<held, source>>
    BY DEF RequestStop, Network, PacketArrives, vars, mainVars, rxVars, matchingVars, threadVars,
         afxdpVars, socketVars
  <1>2. handler' = NoHandler \/ handler' = handler
    BY DEF RequestStop, Network, vars, signalVars
  <1>3. HeldInv'
    BY <1>1 DEF ControlInv, HeldInv
  <1>4. ThreadsInv'
    BY <1>1 DEF ControlInv, ThreadsInv, Joined, RxOver, MatchingOver
  <1>5. HandlerInv'
    BY <1>1, <1>2 DEF ControlInv, HandlerInv, Threads, Ended, RxOver, MatchingOver, NoHandler
  <1> QED BY <1>3, <1>4, <1>5 DEF ControlInv

(* Where the threads, main and the handler stand to one another, and what  *)
(* is held, at every moment.                                               *)
THEOREM ControlInductive == Spec => []ControlInv
PROOF
  <1>1. ASSUME ControlInv, [Next]_vars PROVE ControlInv'
    BY <1>1, MainStep, RxStep, MatchingStep, SigintStep, OtherStep DEF Next, ProcessOver
  <1> QED BY ControlStart, <1>1, PTL DEF Spec

(* The XDP program is attached as long as there is a socket, a UMEM or its *)
(* memory, and the memory is there as long as there is a UMEM or a socket, *)
(* on the way up, on the way down and after every setup call that fails.   *)
THEOREM TeardownAlwaysInOrder == Spec => []TeardownInOrder
PROOF
  <1>1. ControlInv => TeardownInOrder
    BY DEF ControlInv, HeldInv, TeardownInOrder
  <1> QED BY <1>1, ControlInductive, PTL

(* Unless run_live_pipeline() was left through an exception, handle_sigint *)
(* never follows a dangling g_stop_source, on whatever thread it runs and  *)
(* whenever that thread goes on: main clears the pointer, joins, and is    *)
(* not itself inside the handler, before the stop_source goes.             *)
THEOREM HandlerAlwaysSafe == Spec => []HandlerSafe
PROOF
  <1>1. ControlInv => HandlerSafe
    BY DEF ControlInv, HandlerInv, HandlerSafe, NoHandler, Ended, Over, Alive
  <1> QED BY <1>1, ControlInductive, PTL

(* A process that ends otherwise than by std::terminate() has no thread    *)
(* left that could use main's objects and has given back every kernel      *)
(* resource, except the program's attachment if the detach itself failed.  *)
THEOREM ExitAlwaysClean == Spec => []CleanExit
PROOF
  <1>1. ControlInv => CleanExit
    BY DEF ControlInv, HeldInv, ThreadsInv, CleanExit, Ended, Joined, RxOver, Late
  <1> QED BY <1>1, ControlInductive, PTL

-----------------------------------------------------------------------------
(* What a frame on the RX ring, or in the batch, carries.                  *)
Datagrams == [frame : Frames, order : Events \cup {NoOrder}]

FramesIn(ring) == {datagram.frame : datagram \in ToSet(ring)}

RingTypes ==
  /\ free_frames \in Seq(Frames) /\ fill_ring \in Seq(Frames)
  /\ rx_ring \in Seq(Datagrams) /\ batch \in Seq(Datagrams)
  /\ Len(fill_ring) <= FillSize
  /\ packets \in Nat /\ double_release_count = 0

(* As many places as frames, and every frame in one: so none in two.       *)
Owned ==
  /\ Len(free_frames) + Len(fill_ring) + Len(rx_ring) + Len(batch) = NumFrames
  /\ Frames \subseteq ToSet(free_frames) \cup ToSet(fill_ring)
                        \cup FramesIn(rx_ring) \cup FramesIn(batch)

(* Where the socket is being built, and where it is in use.                *)
Building ==
  {"pin", "attach", "find map", "area", "umem", "socket", "register", "seed"}
InUse == {"loop", "peek", "parse", "push"}

FramesInv ==
  /\ RingTypes
  /\ source = "afxdp" =>
       /\ rx_pc \in Building =>
            free_frames = <<>> /\ fill_ring = <<>> /\ rx_ring = <<>> /\ batch = <<>>
       /\ rx_pc \in {"loop", "peek", "close"} => batch = <<>>
       /\ rx_pc \in InUse => Owned

(* What sequences hold when they are joined, divided, turned round, or     *)
(* grow or shrink by one.                                                  *)
LEMMA Joining ==
  ASSUME NEW S, NEW s \in Seq(S), NEW t \in Seq(S)
  PROVE  /\ s \o t \in Seq(S)
         /\ Len(s \o t) = Len(s) + Len(t)
         /\ ToSet(s \o t) = ToSet(s) \cup ToSet(t)
PROOF
  <1>1. /\ s \o t \in Seq(S)
        /\ Len(s \o t) = Len(s) + Len(t)
        /\ \A i \in 1 .. Len(s) + Len(t) :
             (s \o t)[i] = IF i <= Len(s) THEN s[i] ELSE t[i - Len(s)]
    BY ConcatProperties
  <1>2. /\ Len(s) \in Nat /\ Len(t) \in Nat
        /\ DOMAIN s = 1 .. Len(s) /\ DOMAIN t = 1 .. Len(t)
        /\ DOMAIN (s \o t) = 1 .. Len(s) + Len(t)
    BY <1>1, LenProperties
  <1>3. ASSUME NEW i \in DOMAIN s PROVE s[i] \in ToSet(s \o t)
    <2>1. i \in DOMAIN (s \o t) /\ (s \o t)[i] = s[i]
      BY <1>1, <1>2, <1>3
    <2> QED BY <2>1 DEF ToSet
  <1>4. ASSUME NEW i \in DOMAIN t PROVE t[i] \in ToSet(s \o t)
    <2>1. Len(s) + i \in DOMAIN (s \o t) /\ (s \o t)[Len(s) + i] = t[i]
      BY <1>1, <1>2, <1>4
    <2> QED BY <2>1 DEF ToSet
  <1>5. ASSUME NEW i \in DOMAIN (s \o t) PROVE (s \o t)[i] \in ToSet(s) \cup ToSet(t)
    <2>1. CASE i <= Len(s)
      BY <1>1, <1>2, <1>5, <2>1 DEF ToSet
    <2>2. CASE ~(i <= Len(s))
      <3>1. i - Len(s) \in DOMAIN t /\ (s \o t)[i] = t[i - Len(s)]
        BY <1>1, <1>2, <1>5, <2>2
      <3> QED BY <3>1 DEF ToSet
    <2> QED BY <2>1, <2>2
  <1> QED BY <1>1, <1>3, <1>4, <1>5 DEF ToSet

(* The first n of a sequence, and the rest.                                *)
LEMMA Dividing ==
  ASSUME NEW S, NEW s \in Seq(S), NEW n \in 0 .. Len(s)
  PROVE  /\ SubSeq(s, 1, n) \in Seq(S) /\ Len(SubSeq(s, 1, n)) = n
         /\ SubSeq(s, n + 1, Len(s)) \in Seq(S)
         /\ Len(SubSeq(s, n + 1, Len(s))) = Len(s) - n
         /\ SubSeq(s, 1, n) \o SubSeq(s, n + 1, Len(s)) = s
PROOF
  <1>1. Len(s) \in Nat /\ n \in Nat /\ n <= Len(s) /\ \A i \in 1 .. Len(s) : s[i] \in S
    BY LenProperties, ElementOfSeq
  <1>2. SubSeq(s, 1, n) \in Seq(S) /\ Len(SubSeq(s, 1, n)) = n
    <2>1. /\ SubSeq(s, 1, n) \in Seq(S)
          /\ Len(SubSeq(s, 1, n)) = IF 1 <= n THEN n - 1 + 1 ELSE 0
      BY <1>1, SubSeqProperties
    <2> QED BY <1>1, <2>1
  <1>3. /\ SubSeq(s, n + 1, Len(s)) \in Seq(S)
        /\ Len(SubSeq(s, n + 1, Len(s))) = Len(s) - n
    <2>1. /\ SubSeq(s, n + 1, Len(s)) \in Seq(S)
          /\ Len(SubSeq(s, n + 1, Len(s))) =
               IF n + 1 <= Len(s) THEN Len(s) - (n + 1) + 1 ELSE 0
      BY <1>1, SubSeqProperties
    <2> QED BY <1>1, <2>1
  <1>4. SubSeq(s, 1, n) \o SubSeq(s, n + 1, Len(s)) = SubSeq(s, 1, Len(s))
    <2>1. 1 \in 1 .. Len(s) + 1 /\ n \in 1 - 1 .. Len(s) /\ Len(s) \in n .. Len(s)
      BY <1>1
    <2> QED BY <2>1, ConcatAdjacentSubSeq
  <1> QED BY <1>2, <1>3, <1>4, SubSeqFull

(* The same elements, the other way round.                                 *)
LEMMA Turning ==
  ASSUME NEW S, NEW s \in Seq(S)
  PROVE  Reverse(s) \in Seq(S) /\ Len(Reverse(s)) = Len(s) /\ ToSet(Reverse(s)) = ToSet(s)
PROOF
  <1>1. Len(s) \in Nat /\ DOMAIN s = 1 .. Len(s) /\ \A i \in 1 .. Len(s) : s[i] \in S
    BY LenProperties, ElementOfSeq
  <1>2. \A i \in 1 .. Len(s) : (Len(s) - i) + 1 \in 1 .. Len(s)
    BY <1>1
  <1>3. Reverse(s) \in Seq(S)
    <2>1. \A i \in 1 .. Len(s) : s[(Len(s) - i) + 1] \in S
      BY <1>1, <1>2
    <2> QED BY <1>1, <2>1, IsASeq DEF Reverse
  <1>4. DOMAIN Reverse(s) = 1 .. Len(s)
    BY DEF Reverse
  <1>5. Len(Reverse(s)) = Len(s)
    <2>1. Len(Reverse(s)) \in Nat /\ DOMAIN Reverse(s) = 1 .. Len(Reverse(s))
      BY <1>3, LenProperties
    <2> QED BY <1>1, <1>4, <2>1
  <1>6. ASSUME NEW i \in 1 .. Len(s) PROVE s[i] \in ToSet(Reverse(s))
    <2>1. /\ (Len(s) - i) + 1 \in DOMAIN Reverse(s)
          /\ Reverse(s)[(Len(s) - i) + 1] = s[(Len(s) - ((Len(s) - i) + 1)) + 1]
      BY <1>2, <1>4 DEF Reverse
    <2>2. (Len(s) - ((Len(s) - i) + 1)) + 1 = i
      BY <1>1
    <2> QED BY <2>1, <2>2 DEF ToSet
  <1>7. ASSUME NEW i \in 1 .. Len(s) PROVE Reverse(s)[i] \in ToSet(s)
    <2>1. Reverse(s)[i] = s[(Len(s) - i) + 1]
      BY DEF Reverse
    <2> QED BY <1>1, <1>2, <2>1 DEF ToSet
  <1> QED BY <1>1, <1>3, <1>4, <1>5, <1>6, <1>7 DEF ToSet

(* One more at the end.                                                    *)
LEMMA Growing ==
  ASSUME NEW S, NEW s \in Seq(S), NEW e \in S
  PROVE  /\ Append(s, e) \in Seq(S) /\ Len(Append(s, e)) = Len(s) + 1
         /\ ToSet(Append(s, e)) = ToSet(s) \cup {e}
PROOF
  <1> DEFINE one == <<e>>
  <1>1. one \in Seq(S) /\ Len(one) = 1 /\ ToSet(one) = {e}
    BY DEF ToSet
  <1>2. Append(s, e) = s \o one
    BY AppendIsConcat
  <1> HIDE DEF one
  <1>3. s \o one \in Seq(S) /\ Len(s \o one) = Len(s) + Len(one)
        /\ ToSet(s \o one) = ToSet(s) \cup ToSet(one)
    BY <1>1, Joining
  <1> QED BY <1>1, <1>2, <1>3

(* One less at the beginning.                                              *)
LEMMA Shrinking ==
  ASSUME NEW S, NEW s \in Seq(S), s # <<>>
  PROVE  /\ Head(s) \in S /\ Tail(s) \in Seq(S) /\ Len(Tail(s)) = Len(s) - 1
         /\ s = <<Head(s)>> \o Tail(s)
         /\ ToSet(s) = {Head(s)} \cup ToSet(Tail(s))
PROOF
  <1>1. Head(s) \in S /\ Tail(s) \in Seq(S) /\ Len(Tail(s)) = Len(s) - 1
    BY HeadTailProperties
  <1>2. Len(s) \in Nat \ {0}
    BY EmptySeq
  <1>3. s = <<Head(s)>> \o Tail(s)
    <2>1. SubSeq(s, 1, Len(s)) = <<s[1]>> \o SubSeq(s, 1 + 1, Len(s))
      BY <1>2, SubSeqRecursiveFirst
    <2>2. SubSeq(s, 1, Len(s)) = s /\ Tail(s) = SubSeq(s, 2, Len(s)) /\ Head(s) = s[1]
      BY SubSeqFull, TailIsSubSeq
    <2> QED BY <2>1, <2>2
  <1> DEFINE one == <<Head(s)>>
  <1>4. one \in Seq(S)
    BY <1>1
  <1>5. ToSet(one) = {Head(s)} /\ s = one \o Tail(s)
    BY <1>3 DEF ToSet
  <1> HIDE DEF one
  <1>6. ToSet(one \o Tail(s)) = ToSet(one) \cup ToSet(Tail(s))
    BY <1>1, <1>4, Joining
  <1> QED BY <1>1, <1>3, <1>5, <1>6

(* A refill moves frames from the stack to the FILL ring.                  *)
LEMMA RefillMoves ==
  ASSUME fill_ring \in Seq(Frames), Len(fill_ring) <= FillSize,
         NEW stack \in Seq(Frames), Refill(stack)
  PROVE  /\ free_frames' \in Seq(Frames) /\ fill_ring' \in Seq(Frames)
         /\ Len(fill_ring') <= FillSize
         /\ Len(free_frames') + Len(fill_ring') = Len(stack) + Len(fill_ring)
         /\ ToSet(free_frames') \cup ToSet(fill_ring') = ToSet(stack) \cup ToSet(fill_ring)
PROOF
  <1> DEFINE n == Len(stack) - Stock(stack)
             kept == SubSeq(stack, 1, n)
             moved == SubSeq(stack, n + 1, Len(stack))
  <1>1. Len(stack) \in Nat /\ Len(fill_ring) \in Nat /\ FillSize \in Nat
    BY LenProperties, XdpSocketAssumption
  <1>2. n \in 0 .. Len(stack) /\ Len(stack) - n + Len(fill_ring) <= FillSize
    BY <1>1 DEF Stock
  <1>3. free_frames' = kept /\ fill_ring' = fill_ring \o Reverse(moved)
    BY DEF Refill
  <1> HIDE DEF n
  <1>4. /\ kept \in Seq(Frames) /\ moved \in Seq(Frames)
        /\ Len(kept) = n /\ Len(moved) = Len(stack) - n /\ kept \o moved = stack
    BY <1>2, Dividing
  <1> HIDE DEF kept, moved
  <1>5. ToSet(kept \o moved) = ToSet(kept) \cup ToSet(moved)
    BY <1>4, Joining
  <1>6. /\ Reverse(moved) \in Seq(Frames) /\ Len(Reverse(moved)) = Len(moved)
        /\ ToSet(Reverse(moved)) = ToSet(moved)
    BY <1>4, Turning
  <1>7. /\ fill_ring \o Reverse(moved) \in Seq(Frames)
        /\ Len(fill_ring \o Reverse(moved)) = Len(fill_ring) + Len(Reverse(moved))
        /\ ToSet(fill_ring \o Reverse(moved)) = ToSet(fill_ring) \cup ToSet(Reverse(moved))
    BY <1>6, Joining
  <1>8. ToSet(free_frames') \cup ToSet(fill_ring') = ToSet(stack) \cup ToSet(fill_ring)
    BY <1>3, <1>4, <1>5, <1>6, <1>7
  <1>9. /\ Len(fill_ring') <= FillSize
        /\ Len(free_frames') + Len(fill_ring') = Len(stack) + Len(fill_ring)
    BY <1>1, <1>2, <1>3, <1>4, <1>6, <1>7
  <1> QED BY <1>3, <1>4, <1>7, <1>8, <1>9

(* The constructor's last step puts every frame on the stack first.        *)
LEMMA SeedOwns ==
  ASSUME RingTypes, free_frames = <<>>, fill_ring = <<>>, rx_ring = <<>>, batch = <<>>,
         Seed, UNCHANGED batch
  PROVE  RingTypes' /\ Owned' /\ batch' = <<>>
PROOF
  <1> DEFINE stack == [i \in 1 .. NumFrames |-> i - 1]
  <1>1. NumFrames \in Nat
    BY XdpSocketAssumption
  <1>2. stack \in Seq(Frames) /\ Len(stack) = NumFrames /\ ToSet(stack) = Frames
    <2>1. \A i \in 1 .. NumFrames : i - 1 \in Frames
      BY <1>1 DEF Frames
    <2>2. stack \in Seq(Frames)
      BY <1>1, <2>1, IsASeq
    <2>3. \A f \in Frames : f + 1 \in 1 .. NumFrames /\ stack[f + 1] = f
      BY <1>1 DEF Frames
    <2>4. DOMAIN stack = 1 .. NumFrames
      OBVIOUS
    <2>5. Len(stack) = NumFrames
      BY <1>1, <2>2, <2>4, LenProperties
    <2>6. ToSet(stack) = Frames
      BY <2>1, <2>3, <2>4 DEF ToSet
    <2> QED BY <2>2, <2>5, <2>6
  <1>3. Refill(stack)
    BY DEF Seed
  <1> HIDE DEF stack
  <1>4. /\ free_frames' \in Seq(Frames) /\ fill_ring' \in Seq(Frames)
        /\ Len(fill_ring') <= FillSize
        /\ Len(free_frames') + Len(fill_ring') = Len(stack) + Len(fill_ring)
        /\ ToSet(free_frames') \cup ToSet(fill_ring') = ToSet(stack) \cup ToSet(fill_ring)
    BY <1>2, <1>3, RefillMoves DEF RingTypes
  <1>5. UNCHANGED <<rx_ring, batch, double_release_count, packets>>
    BY DEF Seed, Refill
  <1>6. RingTypes'
    BY <1>4, <1>5 DEF RingTypes
  <1>7. Len(fill_ring) = 0 /\ Len(rx_ring') = 0 /\ Len(batch') = 0
    BY <1>5, EmptySeq
  <1>8. Owned'
    <2>1. Len(free_frames') \in Nat /\ Len(fill_ring') \in Nat
      BY <1>4, LenProperties
    <2>2. Len(free_frames') + Len(fill_ring') + Len(rx_ring') + Len(batch') = NumFrames
      BY <1>1, <1>2, <1>4, <1>7, <2>1
    <2>3. Frames \subseteq ToSet(free_frames') \cup ToSet(fill_ring')
      BY <1>2, <1>4
    <2> QED BY <2>2, <2>3 DEF Owned
  <1> QED BY <1>5, <1>6, <1>8

(* recv_batch() refills from the stack it has.                             *)
LEMMA RefillOwns ==
  ASSUME RingTypes, RefillFillRing, UNCHANGED batch
  PROVE  RingTypes' /\ (Owned => Owned') /\ UNCHANGED <<rx_ring, batch>>
PROOF
  <1>1. Refill(free_frames) /\ UNCHANGED <<rx_ring, batch, double_release_count, packets>>
    BY DEF RefillFillRing, Refill
  <1>2. /\ free_frames' \in Seq(Frames) /\ fill_ring' \in Seq(Frames)
        /\ Len(fill_ring') <= FillSize
        /\ Len(free_frames') + Len(fill_ring') = Len(free_frames) + Len(fill_ring)
        /\ ToSet(free_frames') \cup ToSet(fill_ring')
             = ToSet(free_frames) \cup ToSet(fill_ring)
    BY <1>1, RefillMoves DEF RingTypes
  <1>3. RingTypes'
    BY <1>1, <1>2 DEF RingTypes
  <1>4. ASSUME Owned PROVE Owned'
    BY <1>1, <1>2, <1>4 DEF Owned
  <1> QED BY <1>1, <1>3, <1>4

(* What the RX ring gives up goes to the batch.                            *)
LEMMA PeekOwns ==
  ASSUME RingTypes, batch = <<>>, batch' = Received, Peek
  PROVE  RingTypes' /\ (Owned => Owned') /\ batch' \o rx_ring' = rx_ring
PROOF
  <1> DEFINE n == IF Len(rx_ring) < BatchSize THEN Len(rx_ring) ELSE BatchSize
  <1>1. Len(rx_ring) \in Nat /\ n \in 0 .. Len(rx_ring)
    BY LenProperties, XdpSocketAssumption DEF RingTypes
  <1>2. Received = SubSeq(rx_ring, 1, n)
    BY DEF Received
  <1> HIDE DEF n
  <1>3. /\ Received \in Seq(Datagrams) /\ Len(Received) = n
        /\ SubSeq(rx_ring, n + 1, Len(rx_ring)) \in Seq(Datagrams)
        /\ Len(SubSeq(rx_ring, n + 1, Len(rx_ring))) = Len(rx_ring) - n
        /\ Received \o SubSeq(rx_ring, n + 1, Len(rx_ring)) = rx_ring
    BY <1>1, <1>2, Dividing DEF RingTypes
  <1>4. /\ rx_ring' = SubSeq(rx_ring, n + 1, Len(rx_ring))
        /\ UNCHANGED <<free_frames, fill_ring, double_release_count, packets>>
    BY <1>3 DEF Peek
  <1>5. batch' \in Seq(Datagrams) /\ rx_ring' \in Seq(Datagrams) /\ batch' \o rx_ring' = rx_ring
    BY <1>3, <1>4
  <1>6. RingTypes'
    BY <1>4, <1>5 DEF RingTypes
  <1>7. Len(batch') + Len(rx_ring') = Len(rx_ring) /\ Len(batch) = 0
    BY <1>1, <1>3, <1>4, EmptySeq
  <1>8. ToSet(rx_ring) = ToSet(batch') \cup ToSet(rx_ring')
    BY <1>5, Joining
  <1>9. ASSUME Owned PROVE Owned'
    <2>1. Len(free_frames) \in Nat /\ Len(fill_ring) \in Nat /\ Len(batch') \in Nat
            /\ Len(rx_ring') \in Nat
      BY <1>5, LenProperties DEF RingTypes
    <2>2. Len(free_frames') + Len(fill_ring') + Len(rx_ring') + Len(batch') = NumFrames
      <3>1. Len(free_frames) + Len(fill_ring) + Len(rx_ring) + Len(batch) = NumFrames
        BY <1>9 DEF Owned
      <3>2. Len(free_frames') = Len(free_frames) /\ Len(fill_ring') = Len(fill_ring)
        BY <1>4
      <3> QED BY <1>1, <1>7, <2>1, <3>1, <3>2
    <2>3. FramesIn(batch) = {}
      BY DEF FramesIn, ToSet
    <2>4. FramesIn(rx_ring) = FramesIn(rx_ring') \cup FramesIn(batch')
      BY <1>8 DEF FramesIn
    <2> QED BY <1>4, <1>9, <2>2, <2>3, <2>4 DEF Owned
  <1> QED BY <1>5, <1>6, <1>9

(* A frame that has been parsed goes on the stack, which has room for it   *)
(* because the batch had a place.                                          *)
LEMMA ReleaseOwns ==
  ASSUME RingTypes, batch # <<>>, batch' = Tail(batch), ReleaseFrame(Head(batch).frame), Owned
  PROVE  RingTypes' /\ Owned'
PROOF
  <1>1. /\ Head(batch) \in Datagrams /\ Tail(batch) \in Seq(Datagrams)
        /\ Len(Tail(batch)) = Len(batch) - 1
        /\ ToSet(batch) = {Head(batch)} \cup ToSet(Tail(batch))
    BY Shrinking DEF RingTypes
  <1> DEFINE frame == Head(batch).frame
  <1>2. frame \in Frames
    BY <1>1 DEF Datagrams
  <1>3. /\ Len(free_frames) \in Nat /\ Len(fill_ring) \in Nat /\ Len(rx_ring) \in Nat
        /\ Len(batch) \in Nat \ {0}
    BY LenProperties, EmptySeq DEF RingTypes
  <1>4. Len(free_frames) < NumFrames
    BY <1>3, XdpSocketAssumption DEF Owned
  <1>5. /\ free_frames' = Append(free_frames, frame)
        /\ UNCHANGED <<fill_ring, rx_ring, double_release_count, packets>>
    BY <1>4 DEF ReleaseFrame
  <1> HIDE DEF frame
  <1>6. /\ Append(free_frames, frame) \in Seq(Frames)
        /\ Len(Append(free_frames, frame)) = Len(free_frames) + 1
        /\ ToSet(Append(free_frames, frame)) = ToSet(free_frames) \cup {frame}
    BY <1>2, Growing DEF RingTypes
  <1>7. RingTypes'
    BY <1>1, <1>5, <1>6 DEF RingTypes
  <1>8. Len(free_frames') + Len(fill_ring') + Len(rx_ring') + Len(batch') = NumFrames
    BY <1>1, <1>3, <1>5, <1>6 DEF Owned
  <1>9. FramesIn(batch) = {frame} \cup FramesIn(Tail(batch))
    BY <1>1 DEF FramesIn, frame
  <1> QED BY <1>5, <1>6, <1>7, <1>8, <1>9 DEF Owned

(* A packet takes a frame off the FILL ring and puts it on the RX ring, or *)
(* is dropped.                                                             *)
LEMMA ArrivalOwns ==
  ASSUME RingTypes, PacketArrives, UNCHANGED batch
  PROVE  /\ RingTypes' /\ (Owned => Owned')
         /\ fill_ring = <<>> => UNCHANGED <<free_frames, fill_ring, rx_ring>>
PROOF
  <1>1. /\ packets' = packets + 1 /\ packets \in Nat /\ packets < MaxPackets
        /\ UNCHANGED <<held, free_frames, double_release_count>>
    BY DEF PacketArrives, RingTypes
  <1>2. packets + 1 \in Events /\ packets' \in Nat
    BY <1>1, XdpSocketAssumption, RxThreadAssumption, AfXdpRxAssumption
  <1>3. CASE UNCHANGED <<fill_ring, rx_ring>>
    BY <1>1, <1>2, <1>3 DEF RingTypes, Owned
  <1>4. ASSUME fill_ring # <<>>, fill_ring' = Tail(fill_ring),
               NEW order \in {packets + 1, NoOrder},
               rx_ring' = Append(rx_ring, [frame |-> Head(fill_ring), order |-> order])
        PROVE  RingTypes' /\ (Owned => Owned')
    <2> DEFINE datagram == [frame |-> Head(fill_ring), order |-> order]
    <2>1. /\ Head(fill_ring) \in Frames /\ Tail(fill_ring) \in Seq(Frames)
          /\ Len(Tail(fill_ring)) = Len(fill_ring) - 1
          /\ ToSet(fill_ring) = {Head(fill_ring)} \cup ToSet(Tail(fill_ring))
      BY <1>4, Shrinking DEF RingTypes
    <2>2. datagram \in Datagrams /\ datagram.frame = Head(fill_ring)
      BY <1>2, <1>4, <2>1 DEF Datagrams
    <2> HIDE DEF datagram
    <2>3. /\ Append(rx_ring, datagram) \in Seq(Datagrams)
          /\ Len(Append(rx_ring, datagram)) = Len(rx_ring) + 1
          /\ ToSet(Append(rx_ring, datagram)) = ToSet(rx_ring) \cup {datagram}
      BY <2>2, Growing DEF RingTypes
    <2>4. rx_ring' = Append(rx_ring, datagram)
      BY <1>4 DEF datagram
    <2>5. Len(fill_ring) \in Nat /\ Len(rx_ring) \in Nat /\ Len(free_frames) \in Nat
            /\ Len(batch) \in Nat /\ FillSize \in Nat
      BY LenProperties, XdpSocketAssumption DEF RingTypes
    <2>6. RingTypes'
      BY <1>1, <1>2, <1>4, <2>1, <2>3, <2>4, <2>5 DEF RingTypes
    <2>7. FramesIn(rx_ring') = FramesIn(rx_ring) \cup {Head(fill_ring)}
      BY <2>2, <2>3, <2>4 DEF FramesIn
    <2>8. ASSUME Owned PROVE Owned'
      <3>1. Len(free_frames') + Len(fill_ring') + Len(rx_ring') + Len(batch') = NumFrames
        BY <1>1, <1>4, <2>1, <2>3, <2>4, <2>5, <2>8 DEF Owned
      <3> QED BY <1>1, <1>4, <2>1, <2>7, <2>8, <3>1 DEF Owned
    <2> QED BY <2>6, <2>8
  <1> QED BY <1>1, <1>3, <1>4 DEF PacketArrives

(* Every other step leaves the frames where they are, except that closing  *)
(* the socket gives up the rings.                                          *)
LEMMA FramesStep == ASSUME HeldInv, FramesInv, [Next]_vars PROVE FramesInv'
PROOF
  <1> DEFINE Idle == UNCHANGED <<free_frames, fill_ring, rx_ring, batch, packets,
                                 double_release_count>>
  <1>1. <<>> \in Seq(Frames) /\ <<>> \in Seq(Datagrams) /\ Len(<<>>) = 0
    BY EmptySeq
  <1>2. 0 <= FillSize
    BY XdpSocketAssumption
  <1>3. ASSUME Idle PROVE RingTypes' /\ (Owned => Owned')
    BY <1>3 DEF RingTypes, Owned, FramesInv
  <1>4. CASE Main \/ RunMatching \/ (\E thread \in Threads : Sigint(thread)) \/ RequestStop
             \/ UNCHANGED vars
    <2>1. Idle /\ UNCHANGED <<rx_pc, source>>
      BY <1>4 DEF Main, MainGoes, RefuseOptions, PublishStopSource, RegisterHandler, Prepare,
         LookForStop, StartRx, StartMatching, SeeStopRequest, JoinRx, JoinMatching,
         ClearStopSource, RestoreDefault, Leave, Return, RunMatching, Sigint, RequestStop, vars,
         rxVars, afxdpVars, socketVars, ringVars, mainVars
    <2> QED BY <1>3, <2>1 DEF FramesInv
  <1>5. CASE Network
    <2>1. PacketArrives /\ UNCHANGED <<batch, rx_pc, source>>
      BY <1>5 DEF Network, rxVars, mainVars
    <2>2. /\ RingTypes' /\ (Owned => Owned')
          /\ fill_ring = <<>> => UNCHANGED <<free_frames, fill_ring, rx_ring>>
      BY <2>1, ArrivalOwns DEF FramesInv
    <2> QED BY <2>1, <2>2 DEF FramesInv
  <1>6. CASE RunRx
    <2>1. UNCHANGED source
      BY <1>6 DEF RunRx, mainVars
    <2>2. CASE source = "synthetic" /\ SyntheticRx /\ UNCHANGED afxdpVars
      <3>1. Idle
        BY <2>2 DEF afxdpVars, socketVars, ringVars
      <3> QED BY <1>3, <2>1, <2>2, <3>1 DEF FramesInv
    <2>3. CASE source = "afxdp" /\ AfXdpThread
      <3> USE DEF Building, InUse, FramesInv
      <3>1. CASE AfXdpPin
        <4>1. Idle /\ rx_pc = "pin" /\ rx_pc' \in {"attach", "failed"}
          BY <3>1 DEF AfXdpPin, RxPin, afxdpVars, socketVars, ringVars
        <4> QED BY <1>3, <2>1, <4>1
      <3>2. CASE Attach \/ FindMap \/ AllocateArea \/ CreateUmem \/ CreateSocket \/ RegisterSocket
        <4>1. Idle /\ rx_pc \in Building
                   /\ rx_pc' \in Building \cup {"failed", "detach", "free", "delete umem", "close"}
          BY <3>2 DEF Attach, FindMap, AllocateArea, CreateUmem, CreateSocket, RegisterSocket,
             SetUp, GoTo, Acquire, socketVars, ringVars
        <4> QED BY <1>3, <2>1, <4>1
      <3>3. CASE SeedFrames
        <4>1. rx_pc = "seed" /\ rx_pc' = "loop" /\ UNCHANGED batch /\ Seed
          BY <3>3 DEF SeedFrames, GoTo
        <4> QED BY <2>1, <2>3, <4>1, SeedOwns
      <3>4. CASE AfXdpSeeStop \/ BatchDone
        <4>1. /\ Idle
              /\ \/ rx_pc = "loop" /\ rx_pc' = "close"
                 \/ rx_pc = "parse" /\ rx_pc' = "loop" /\ batch = <<>>
          BY <3>4 DEF AfXdpSeeStop, BatchDone, GoTo, socketVars, ringVars
        <4> QED BY <1>3, <2>1, <2>3, <4>1
      <3>5. CASE BeginReceive
        <4>1. rx_pc = "loop" /\ rx_pc' = "peek" /\ UNCHANGED batch /\ RefillFillRing
          BY <3>5 DEF BeginReceive, GoTo
        <4> QED BY <2>1, <2>3, <4>1, RefillOwns
      <3>6. CASE ReceiveBatch
        <4>1. rx_pc = "peek" /\ rx_pc' = "parse" /\ batch' = Received /\ Peek
          BY <3>6 DEF ReceiveBatch
        <4> QED BY <2>1, <2>3, <4>1, PeekOwns
      <3>7. CASE ParseAndRelease
        <4>1. /\ rx_pc = "parse" /\ rx_pc' \in {"parse", "push"} /\ batch # <<>>
              /\ batch' = Tail(batch) /\ ReleaseFrame(Head(batch).frame)
          BY <3>7 DEF ParseAndRelease
        <4> QED BY <2>1, <2>3, <4>1, ReleaseOwns
      <3>8. CASE PushParsed
        <4>1. Idle /\ rx_pc = "push" /\ rx_pc' \in {"parse", "push"}
          BY <3>8 DEF PushParsed, PushOrder, PushFails, GiveUp, socketVars, ringVars
        <4> QED BY <1>3, <2>1, <2>3, <4>1
      <3>9. CASE DeleteUmem \/ FreeArea \/ Detach
        <4>1. Idle /\ rx_pc' \in {"free", "detach", "ended"}
          BY <3>9 DEF DeleteUmem, FreeArea, Detach, TakeDown, GoTo, GiveBack, Abandon, ringVars
        <4> QED BY <1>3, <2>1, <4>1
      <3>10. CASE CloseAndDelete
        <4>1. UNCHANGED <<batch, packets, double_release_count>> /\ rx_pc' = "delete umem"
          BY <3>10 DEF CloseAndDelete, CloseSocket, GoTo
        <4>2. free_frames' = <<>> /\ fill_ring' = <<>> /\ rx_ring' = <<>>
          BY <3>10 DEF CloseAndDelete, CloseSocket
        <4>3. /\ batch' \in Seq(Datagrams) /\ packets' \in Nat /\ double_release_count' = 0
          BY <4>1 DEF RingTypes
        <4>4. /\ free_frames' \in Seq(Frames) /\ fill_ring' \in Seq(Frames)
              /\ rx_ring' \in Seq(Datagrams) /\ Len(fill_ring') = 0
          BY <1>1, <4>2
        <4>5. Len(fill_ring') <= FillSize
          BY <1>2, <4>4, Zenon
        <4>6. RingTypes'
          BY <4>3, <4>4, <4>5 DEF RingTypes
        <4> QED BY <4>1, <4>6
      <3> QED BY <2>3, <3>1, <3>2, <3>3, <3>4, <3>5, <3>6, <3>7, <3>8, <3>9, <3>10
          DEF AfXdpThread, Open, Receive, Close
    <2> QED BY <1>6, <2>2, <2>3 DEF RunRx
  <1> QED BY <1>4, <1>5, <1>6 DEF Next, ProcessOver

(* Where every frame is, at every moment.                                  *)
THEOREM FramesInductive == Spec => []FramesInv
PROOF
  <1>1. Init => FramesInv
    <2>1. /\ <<>> \in Seq(Frames) /\ <<>> \in Seq(Datagrams) /\ Len(<<>>) = 0
          /\ 0 <= FillSize
      BY EmptySeq, XdpSocketAssumption
    <2> QED BY <2>1 DEF Init, RxInit, AfXdpInit, SocketInit, FramesInv, RingTypes, InUse, Building
  <1>2. ControlInv => HeldInv
    BY DEF ControlInv
  <1> QED BY <1>1, <1>2, ControlInductive, FramesStep, PTL DEF Spec

(* While the socket is in use every frame is in exactly one place -- the   *)
(* stack, the FILL ring, the RX ring or the batch -- whatever arrives,     *)
(* parses or is dropped, and release_frame() never meets a full stack.     *)
THEOREM FramesAlwaysOwnedOnce == Spec => []FramesOwnedOnce
PROOF
  <1> DEFINE received(ring) == [i \in DOMAIN ring |-> ring[i].frame]
  <1>1. ASSUME NEW ring \in Seq(Datagrams)
        PROVE  /\ received(ring) \in Seq(Frames) /\ Len(received(ring)) = Len(ring)
               /\ ToSet(received(ring)) = FramesIn(ring)
    <2>1. Len(ring) \in Nat /\ DOMAIN ring = 1 .. Len(ring)
            /\ \A i \in 1 .. Len(ring) : ring[i] \in Datagrams
      BY LenProperties, ElementOfSeq
    <2>2. \A i \in 1 .. Len(ring) : ring[i].frame \in Frames
      BY <2>1 DEF Datagrams
    <2>3. received(ring) = [i \in 1 .. Len(ring) |-> ring[i].frame]
      BY <2>1
    <2>4. received(ring) \in Seq(Frames)
      BY <2>1, <2>2, <2>3, IsASeq
    <2>5. Len(received(ring)) = Len(ring)
      BY <2>1, <2>3, <2>4, LenProperties
    <2>6. ToSet(received(ring)) = FramesIn(ring)
      BY <2>3, <2>1 DEF ToSet, FramesIn
    <2> QED BY <2>4, <2>5, <2>6
  <1>2. ASSUME FramesInv PROVE FramesOwnedOnce
    <2> DEFINE arrived == received(rx_ring)
               parsing == received(batch)
               first == free_frames \o fill_ring
               owned == free_frames \o fill_ring \o received(rx_ring) \o received(batch)
    <2>1. /\ arrived \in Seq(Frames) /\ Len(arrived) = Len(rx_ring)
          /\ ToSet(arrived) = FramesIn(rx_ring)
          /\ parsing \in Seq(Frames) /\ Len(parsing) = Len(batch)
          /\ ToSet(parsing) = FramesIn(batch)
      BY <1>1, <1>2 DEF FramesInv, RingTypes
    <2>2. owned = (first \o arrived) \o parsing
      OBVIOUS
    <2> HIDE DEF arrived, parsing, owned, received
    <2>3. /\ first \in Seq(Frames) /\ Len(first) = Len(free_frames) + Len(fill_ring)
          /\ ToSet(first) = ToSet(free_frames) \cup ToSet(fill_ring)
      BY <1>2, Joining DEF FramesInv, RingTypes
    <2> HIDE DEF first
    <2>4. /\ first \o arrived \in Seq(Frames) /\ Len(first \o arrived) = Len(first) + Len(arrived)
          /\ ToSet(first \o arrived) = ToSet(first) \cup ToSet(arrived)
      BY <2>1, <2>3, Joining
    <2> DEFINE most == first \o arrived
    <2> HIDE DEF most
    <2>5. /\ owned = most \o parsing
          /\ most \in Seq(Frames) /\ Len(most) = Len(first) + Len(arrived)
          /\ ToSet(most) = ToSet(first) \cup ToSet(arrived)
      BY <2>2, <2>4 DEF most
    <2>6. /\ owned \in Seq(Frames) /\ Len(owned) = Len(most) + Len(parsing)
          /\ ToSet(owned) = ToSet(most) \cup ToSet(parsing)
      <3>1. /\ most \o parsing \in Seq(Frames)
            /\ Len(most \o parsing) = Len(most) + Len(parsing)
            /\ ToSet(most \o parsing) = ToSet(most) \cup ToSet(parsing)
        <4>1. most \in Seq(Frames) /\ parsing \in Seq(Frames)
          BY <2>1, <2>5
        <4> HIDE <2>1, <2>5
        <4> QED BY <4>1, Joining
      <3> QED BY <2>5, <3>1
    <2>7. /\ Len(owned) = Len(free_frames) + Len(fill_ring) + Len(rx_ring) + Len(batch)
          /\ ToSet(owned) = ToSet(free_frames) \cup ToSet(fill_ring)
                               \cup FramesIn(rx_ring) \cup FramesIn(batch)
      BY <2>1, <2>3, <2>5, <2>6
    <2>8. ToSet(owned) \subseteq Frames
      <3>1. \A i \in DOMAIN owned : owned[i] \in Frames
        BY <2>6, LenProperties, ElementOfSeq
      <3> QED BY <3>1 DEF ToSet
    <2>9. rx_pc \in {"loop", "peek", "parse", "push"} /\ source = "afxdp" =>
            Len(owned) = NumFrames /\ ToSet(owned) = Frames
      BY <1>2, <2>7, <2>8 DEF FramesInv, Owned, InUse
    <2>10. double_release_count = 0
      BY <1>2 DEF FramesInv, RingTypes
    <2> QED BY <2>9, <2>10 DEF FramesOwnedOnce, owned, received
  <1> QED BY <1>2, FramesInductive, PTL

-----------------------------------------------------------------------------
(* The orders accepted so far and the one being pushed, as Accounted names *)
(* them, and the datagrams still to be parsed.                             *)
Popped == IF m_pc = "work" THEN <<m_order>> ELSE <<>>
Pushing == IF rx_pc = "push" THEN <<rx_order>> ELSE <<>>
Accepted == book \o Popped \o queue
Trail == Accepted \o Pushing
Coming == batch \o rx_ring

Ascending(s) == \A i, j \in DOMAIN s : i < j => s[i] < s[j]
AtMost(s, n) == \A i \in DOMAIN s : s[i] <= n

(* Datagrams come in the order the packets did, and after what has been    *)
(* accepted.                                                               *)
Rising(c) ==
  \A i, j \in DOMAIN c :
    i < j /\ c[i].order # NoOrder /\ c[j].order # NoOrder => c[i].order < c[j].order
Ahead(s, c) ==
  \A i \in DOMAIN s : \A j \in DOMAIN c : c[j].order # NoOrder => s[i] < c[j].order
Arrived(c, n) == \A j \in DOMAIN c : c[j].order # NoOrder => c[j].order <= n

TrailTypes ==
  /\ book \in Seq(Events) /\ queue \in Seq(Events)
  /\ m_pc = "work" => m_order \in Events
  /\ rx_pc = "push" => rx_order \in Events
  /\ taken \in Nat /\ dropped \in Nat /\ parse_errors \in Nat /\ parsed_ok \in Nat

TrailInv ==
  /\ TrailTypes
  /\ taken = Len(Trail) + dropped + parse_errors
  /\ Ascending(Trail)
  /\ source = "synthetic" => AtMost(Trail, taken)
  /\ source = "afxdp" =>
       /\ parsed_ok = Len(Accepted)
       /\ AtMost(Trail, packets)
       /\ Rising(Coming) /\ Ahead(Trail, Coming) /\ Arrived(Coming, packets)

(* An order later than those there may be put behind them.                 *)
LEMMA OneMore ==
  ASSUME NEW s \in Seq(Events), NEW e \in Events, NEW n \in Int,
         Ascending(s), AtMost(s, n), e <= n, \A i \in DOMAIN s : s[i] < e
  PROVE  Ascending(s \o <<e>>) /\ AtMost(s \o <<e>>, n)
PROOF
  <1>1. s \o <<e>> = Append(s, e)
    BY AppendIsConcat
  <1>2. /\ Append(s, e) \in Seq(Events) /\ Len(Append(s, e)) = Len(s) + 1
        /\ \A i \in 1 .. Len(s) : Append(s, e)[i] = s[i]
        /\ Append(s, e)[Len(s) + 1] = e
    BY AppendProperties
  <1>3. /\ Len(s) \in Nat /\ DOMAIN s = 1 .. Len(s)
        /\ DOMAIN Append(s, e) = 1 .. Len(s) + 1
    BY <1>2, LenProperties
  <1> DEFINE t == Append(s, e)
  <1> HIDE DEF t
  <1>4. /\ DOMAIN t = 1 .. Len(s) + 1 /\ t[Len(s) + 1] = e
        /\ \A i \in 1 .. Len(s) : t[i] = s[i]
    BY <1>2, <1>3 DEF t
  <1>5. Ascending(t)
    BY <1>3, <1>4 DEF Ascending
  <1>6. AtMost(t, n)
    BY <1>3, <1>4 DEF AtMost
  <1> QED BY <1>1, <1>5, <1>6 DEF t

(* And the last may be taken away again.                                   *)
LEMMA OneFewer ==
  ASSUME NEW s \in Seq(Events), NEW e \in Events, NEW n, NEW c
  PROVE  /\ Ascending(s \o <<e>>) => Ascending(s)
         /\ AtMost(s \o <<e>>, n) => AtMost(s, n)
         /\ Ahead(s \o <<e>>, c) => Ahead(s, c)
PROOF
  <1>1. s \o <<e>> = Append(s, e)
    BY AppendIsConcat
  <1>2. /\ Append(s, e) \in Seq(Events) /\ Len(Append(s, e)) = Len(s) + 1
        /\ \A i \in 1 .. Len(s) : Append(s, e)[i] = s[i]
    BY AppendProperties
  <1>3. /\ Len(s) \in Nat /\ DOMAIN s = 1 .. Len(s)
        /\ DOMAIN Append(s, e) = 1 .. Len(s) + 1
    BY <1>2, LenProperties
  <1> DEFINE t == Append(s, e)
  <1>4. \A i \in DOMAIN s : i \in DOMAIN t /\ t[i] = s[i]
    BY <1>2, <1>3
  <1> HIDE DEF t
  <1>5. Ascending(t) => Ascending(s)
    BY <1>4 DEF Ascending
  <1>6. AtMost(t, n) => AtMost(s, n)
    BY <1>4 DEF AtMost
  <1>7. Ahead(t, c) => Ahead(s, c)
    BY <1>4 DEF Ahead
  <1> QED BY <1>1, <1>5, <1>6, <1>7 DEF t

(* The pieces of the trail are sequences of orders.                        *)
LEMMA TrailTyped ==
  TrailTypes => /\ Popped \in Seq(Events) /\ Pushing \in Seq(Events)
                /\ Accepted \in Seq(Events) /\ Trail \in Seq(Events)
PROOF
  <1> SUFFICES ASSUME TrailTypes
               PROVE  /\ Popped \in Seq(Events) /\ Pushing \in Seq(Events)
                      /\ Accepted \in Seq(Events) /\ Trail \in Seq(Events)
    OBVIOUS
  <1>1. Popped \in Seq(Events)
    BY DEF TrailTypes, Popped
  <1>2. Pushing \in Seq(Events)
    BY DEF TrailTypes, Pushing
  <1>3. book \o Popped \in Seq(Events)
    BY <1>1, Joining DEF TrailTypes
  <1>4. Accepted \in Seq(Events)
    BY <1>3, Joining DEF TrailTypes, Accepted
  <1>5. Trail \in Seq(Events)
    BY <1>2, <1>4, Joining DEF Trail
  <1> QED BY <1>1, <1>2, <1>4, <1>5

(* The matching thread moves an order from the queue to the book and       *)
(* loses, repeats or overtakes none.                                       *)
LEMMA MatchingKeepsTrail ==
  ASSUME TrailTypes, Matching
  PROVE  /\ book' \in Seq(Events) /\ queue' \in Seq(Events)
         /\ m_pc' = "work" => m_order' \in Events
         /\ Accepted' = Accepted
PROOF
  <1> USE DEF TrailTypes
  <1>1. CASE PopOrder
    <2>1. /\ Head(queue) \in Events /\ Tail(queue) \in Seq(Events)
          /\ queue = <<Head(queue)>> \o Tail(queue)
      BY <1>1, Shrinking DEF PopOrder
    <2>2. /\ m_pc = "poll" /\ m_pc' = "work" /\ m_order' = Head(queue)
          /\ queue' = Tail(queue) /\ UNCHANGED book
      BY <1>1 DEF PopOrder
    <2>3. Accepted = book \o queue
      BY <2>2, ConcatEmptySeq DEF Accepted, Popped
    <2>4. Accepted' = (book \o <<Head(queue)>>) \o Tail(queue)
      BY <2>2 DEF Accepted, Popped
    <2>5. <<Head(queue)>> \in Seq(Events)
      BY <2>1
    <2>6. Accepted' = book \o (<<Head(queue)>> \o Tail(queue))
      BY <2>1, <2>4, <2>5, ConcatAssociative
    <2> QED BY <2>1, <2>2, <2>3, <2>6
  <1>2. CASE ProcessOrder
    <2>1. /\ m_pc = "work" /\ m_pc' = "report" /\ book' = Append(book, m_order)
          /\ UNCHANGED queue /\ m_order \in Events
      BY <1>2 DEF ProcessOrder
    <2>2. book' = book \o <<m_order>> /\ book' \in Seq(Events)
      BY <2>1, AppendIsConcat, AppendProperties
    <2>3. Accepted = (book \o <<m_order>>) \o queue
      BY <2>1 DEF Accepted, Popped
    <2>4. Accepted' = (book' \o <<>>) \o queue
      BY <2>1 DEF Accepted, Popped
    <2>5. book' \o <<>> = book'
      BY <2>2, ConcatEmptySeq
    <2> QED BY <2>1, <2>2, <2>3, <2>4, <2>5
  <1>3. CASE Pinned \/ PinFails \/ SeeStop \/ LoadSink \/ RecordSample
    <2>1. UNCHANGED <<book, queue>> /\ m_pc # "work" /\ m_pc' # "work"
      BY <1>3 DEF Pinned, PinFails, SeeStop, LoadSink, RecordSample
    <2> QED BY <2>1 DEF Accepted, Popped
  <1> QED BY <1>1, <1>2, <1>3 DEF Matching

(* A push that succeeds changes where the order is, and not its place.     *)
LEMMA PushKeepsTrail ==
  ASSUME TrailTypes, NEW next, next # "push", PushOrder(next)
  PROVE  /\ queue' \in Seq(Events) /\ UNCHANGED <<book, m_pc, m_order>>
         /\ Trail' = Trail /\ Len(Accepted') = Len(Accepted) + 1
PROOF
  <1>1. /\ rx_pc = "push" /\ rx_pc' = next /\ queue' = Append(queue, rx_order)
        /\ UNCHANGED <<book, m_pc, m_order>> /\ rx_order \in Events
    BY DEF PushOrder, TrailTypes, threadVars
  <1> DEFINE one == <<rx_order>>
             before == book \o Popped
  <1>2. /\ one \in Seq(Events) /\ Len(one) = 1
        /\ queue \in Seq(Events) /\ book \in Seq(Events)
    BY <1>1 DEF TrailTypes
  <1>3. queue' = queue \o one /\ queue' \in Seq(Events)
    BY <1>1, <1>2, AppendIsConcat, AppendProperties
  <1>4. Popped' = Popped
    BY <1>1 DEF Popped
  <1>5. Accepted = before \o queue /\ Accepted' = before \o queue'
    BY <1>1, <1>4 DEF Accepted
  <1>6. Trail = Accepted \o one /\ Trail' = Accepted' \o <<>>
    BY <1>1 DEF Trail, Pushing
  <1>7. before \in Seq(Events)
    BY <1>2, TrailTyped, Joining
  <1> HIDE DEF one, before
  <1>8. Accepted' = Accepted \o one
    <2>1. (before \o queue) \o one = before \o (queue \o one)
      BY <1>2, <1>7, ConcatAssociative
    <2> QED BY <1>3, <1>5, <2>1
  <1>9. Accepted \in Seq(Events)
    BY TrailTyped
  <1>10. Accepted \o one \in Seq(Events) /\ Len(Accepted \o one) = Len(Accepted) + Len(one)
    BY <1>2, <1>9, Joining
  <1>11. (Accepted \o one) \o <<>> = Accepted \o one
    BY <1>10, ConcatEmptySeq
  <1> QED BY <1>1, <1>2, <1>3, <1>6, <1>8, <1>10, <1>11

(* A step of the receive thread that pushes nothing leaves what has been   *)
(* accepted.                                                               *)
LEMMA AcceptedStays ==
  ASSUME UNCHANGED matchingVars
  PROVE  Accepted' = Accepted /\ UNCHANGED <<book, queue, m_pc, m_order>>
PROOF
  BY DEF matchingVars, threadVars, Accepted, Popped

(* An order that the receive thread is about to push joins the trail.      *)
LEMMA NewOrder ==
  ASSUME TrailTypes, UNCHANGED matchingVars, rx_pc # "push", rx_pc' = "push"
  PROVE  Trail = Accepted /\ Trail' = Trail \o <<rx_order'>>
PROOF
  <1>1. Accepted \in Seq(Events) /\ Accepted' = Accepted
    BY TrailTyped, AcceptedStays
  <1>2. Trail = Accepted
    BY <1>1, ConcatEmptySeq DEF Trail, Pushing
  <1> QED BY <1>1, <1>2 DEF Trail, Pushing

(* An order that it gives up on leaves the trail.                          *)
LEMMA GivenUp ==
  ASSUME TrailTypes, NEW next, next # "push", GiveUp(next)
  PROVE  /\ Trail = Accepted \o <<rx_order>> /\ rx_order \in Events /\ Trail' = Accepted
         /\ Len(Trail) = Len(Accepted) + 1
PROOF
  <1>1. /\ rx_pc = "push" /\ rx_pc' # "push" /\ rx_order \in Events
        /\ UNCHANGED matchingVars
    BY DEF GiveUp, TrailTypes
  <1>2. Accepted \in Seq(Events) /\ Accepted' = Accepted
    BY <1>1, TrailTyped, AcceptedStays
  <1>3. Trail = Accepted \o <<rx_order>> /\ Trail' = Accepted \o <<>>
    BY <1>1, <1>2 DEF Trail, Pushing
  <1>4. Trail = Append(Accepted, rx_order) /\ Trail' = Accepted
    BY <1>1, <1>2, <1>3, AppendIsConcat, ConcatEmptySeq
  <1> QED BY <1>1, <1>2, <1>3, <1>4, AppendProperties

(* A step that moves orders along the trail and takes none from the batch. *)
LEMMA TrailStays ==
  ASSUME TrailInv, TrailTypes', UNCHANGED <<source, packets>>, Trail' = Trail,
         taken <= taken', taken' = Len(Trail') + dropped' + parse_errors',
         source = "afxdp" => parsed_ok' = Len(Accepted'),
         Coming' = Coming \/ Coming' = <<>>
  PROVE  TrailInv'
PROOF
  <1>1. AtMost(Trail, taken) => AtMost(Trail, taken')
    <2>1. taken \in Int /\ taken' \in Int /\ \A i \in DOMAIN Trail : Trail[i] \in Int
      <3>1. Trail \in Seq(Events) /\ taken \in Int /\ taken' \in Int
        BY TrailTyped DEF TrailInv, TrailTypes
      <3>2. \A i \in DOMAIN Trail : Trail[i] \in Events
        BY <3>1, LenProperties, ElementOfSeq
      <3> QED BY <3>1, <3>2, RxThreadAssumption
    <2> QED BY <2>1 DEF AtMost
  <1>2. Coming' = <<>> => Rising(Coming') /\ Ahead(Trail, Coming') /\ Arrived(Coming', packets)
    BY DEF Rising, Ahead, Arrived
  <1>3. /\ source = "afxdp" =>
             Rising(Coming') /\ Ahead(Trail', Coming') /\ Arrived(Coming', packets')
        /\ Ascending(Trail') /\ (source = "synthetic" => AtMost(Trail', taken'))
        /\ source = "afxdp" => AtMost(Trail', packets')
    BY <1>1, <1>2 DEF TrailInv
  <1> QED BY <1>3 DEF TrailInv

(* A step of the receive thread that neither pushes nor takes an order.    *)
LEMMA RxQuiet ==
  ASSUME TrailInv, UNCHANGED <<matchingVars, taken, dropped, countVars, packets, source>>,
         (rx_pc # "push" /\ rx_pc' # "push") \/ UNCHANGED <<rx_pc, rx_order>>,
         Coming' = Coming \/ Coming' = <<>>
  PROVE  TrailInv'
PROOF
  <1>1. Accepted' = Accepted /\ UNCHANGED <<book, queue, m_pc, m_order>>
    BY AcceptedStays
  <1>2. UNCHANGED <<parse_errors, parsed_ok>> /\ taken \in Nat
    BY DEF countVars, TrailInv, TrailTypes
  <1>3. Pushing' = Pushing
    BY DEF Pushing
  <1>4. TrailTypes'
    BY <1>1, <1>2 DEF TrailInv, TrailTypes
  <1>5. Trail' = Trail
    BY <1>1, <1>3 DEF Trail
  <1> QED BY <1>1, <1>2, <1>4, <1>5, TrailStays DEF TrailInv

(* rx_thread_fn's own steps.                                               *)
LEMMA SyntheticStep ==
  ASSUME TrailInv, source = "synthetic", SyntheticRx, UNCHANGED <<afxdpVars, source>>
  PROVE  TrailInv'
PROOF
  <1>1. TrailTypes /\ taken \in Nat /\ dropped \in Nat /\ parse_errors \in Nat
    BY DEF TrailInv, TrailTypes
  <1>2. UNCHANGED <<parse_errors, parsed_ok, packets, source, countVars>> /\ Coming' = Coming
    BY DEF afxdpVars, socketVars, ringVars, countVars, Coming
  <1>3. CASE RxPin("loop") \/ RxSeeStop \/ PushFails
    <2>1. /\ UNCHANGED <<matchingVars, taken, dropped>>
          /\ (rx_pc # "push" /\ rx_pc' # "push") \/ UNCHANGED <<rx_pc, rx_order>>
      BY <1>3 DEF RxPin, RxSeeStop, PushFails
    <2> QED BY <1>2, <2>1, RxQuiet
  <1>4. CASE Generate
    <2>1. /\ rx_pc # "push" /\ rx_pc' = "push" /\ rx_order' = taken + 1 /\ taken' = taken + 1
          /\ taken < MaxOrders /\ UNCHANGED <<matchingVars, dropped>>
      BY <1>4 DEF Generate
    <2>2. taken + 1 \in Events
      BY <1>1, <2>1, RxThreadAssumption
    <2>3. Trail = Accepted /\ Trail' = Trail \o <<rx_order'>> /\ Trail \in Seq(Events)
      BY <1>1, <2>1, NewOrder, TrailTyped
    <2>4. \A i \in DOMAIN Trail : Trail[i] \in Int /\ Trail[i] <= taken
      <3>1. \A i \in DOMAIN Trail : Trail[i] \in Events
        BY <2>3, LenProperties, ElementOfSeq
      <3>2. AtMost(Trail, taken)
        BY DEF TrailInv
      <3> QED BY <3>1, <3>2, RxThreadAssumption DEF AtMost
    <2>5. AtMost(Trail, taken + 1) /\ \A i \in DOMAIN Trail : Trail[i] < taken + 1
      BY <1>1, <2>4 DEF AtMost
    <2>6. Ascending(Trail) /\ taken + 1 \in Int /\ taken + 1 <= taken + 1
      BY <1>1 DEF TrailInv
    <2>7. Ascending(Trail') /\ AtMost(Trail', taken')
      BY <2>1, <2>2, <2>3, <2>5, <2>6, OneMore
    <2>8. Len(Trail') = Len(Trail) + 1
      BY <2>1, <2>2, <2>3, AppendIsConcat, AppendProperties
    <2>9. UNCHANGED <<book, queue, m_pc, m_order>>
      BY <2>1, AcceptedStays
    <2>10. TrailTypes'
      BY <1>1, <1>2, <2>1, <2>2, <2>9 DEF TrailTypes
    <2>11. taken' = Len(Trail') + dropped' + parse_errors'
      <3>1. Len(Trail) \in Nat /\ taken = Len(Trail) + dropped + parse_errors
        BY <2>3, LenProperties DEF TrailInv
      <3> QED BY <1>1, <1>2, <2>1, <2>8, <3>1
    <2> QED BY <1>2, <2>7, <2>10, <2>11 DEF TrailInv
  <1>5. CASE PushOrder("loop")
    <2>1. /\ queue' \in Seq(Events) /\ UNCHANGED <<book, m_pc, m_order>> /\ Trail' = Trail
      BY <1>1, <1>5, PushKeepsTrail
    <2>2. UNCHANGED <<taken, dropped>> /\ rx_pc' # "push"
      BY <1>5 DEF PushOrder
    <2>3. TrailTypes'
      BY <1>1, <1>2, <2>1, <2>2 DEF TrailTypes
    <2> QED BY <1>1, <1>2, <2>1, <2>2, <2>3, TrailStays DEF TrailInv
  <1>6. CASE GiveUp("loop")
    <2>1. /\ UNCHANGED <<matchingVars, taken>> /\ dropped' = dropped + 1 /\ rx_pc' # "push"
      BY <1>6 DEF GiveUp
    <2>2. /\ Trail = Accepted \o <<rx_order>> /\ rx_order \in Events /\ Trail' = Accepted
          /\ Len(Trail) = Len(Accepted) + 1 /\ Accepted \in Seq(Events)
      BY <1>1, <1>6, GivenUp, TrailTyped
    <2>3. Ascending(Trail') /\ AtMost(Trail', taken')
      BY <2>1, <2>2, OneFewer DEF TrailInv
    <2>4. UNCHANGED <<book, queue, m_pc, m_order>>
      BY <2>1, AcceptedStays
    <2>5. TrailTypes'
      BY <1>1, <1>2, <2>1, <2>4 DEF TrailTypes
    <2>6. taken' = Len(Trail') + dropped' + parse_errors'
      <3>1. Len(Accepted) \in Nat /\ taken = Len(Trail) + dropped + parse_errors
        BY <2>2, LenProperties DEF TrailInv
      <3> QED BY <1>1, <1>2, <2>1, <2>2, <3>1
    <2> QED BY <1>2, <2>3, <2>5, <2>6 DEF TrailInv
  <1> QED BY <1>3, <1>4, <1>5, <1>6 DEF SyntheticRx, BoundedSpin

(* A packet joins the line behind those that arrived before it.            *)
LEMMA ArrivalStep ==
  ASSUME RingTypes, TrailInv, Network
  PROVE  TrailInv'
PROOF
  <1>1. /\ UNCHANGED <<matchingVars, rxVars, batch, countVars, source>>
        /\ PacketArrives /\ packets' = packets + 1 /\ packets \in Nat
    BY DEF Network, mainVars, PacketArrives, RingTypes
  <1>2. /\ UNCHANGED <<rx_pc, rx_order, taken, dropped, parse_errors, parsed_ok>>
        /\ UNCHANGED <<book, queue, m_pc, m_order>> /\ Accepted' = Accepted
    BY <1>1, AcceptedStays DEF rxVars, countVars
  <1>3. TrailTypes' /\ Trail' = Trail
    BY <1>2 DEF TrailInv, TrailTypes, Trail, Pushing
  <1>4. /\ Trail \in Seq(Events) /\ Len(Trail) \in Nat
        /\ \A i \in DOMAIN Trail : Trail[i] \in Int
    <2>1. Trail \in Seq(Events)
      BY TrailTyped DEF TrailInv
    <2>2. \A i \in DOMAIN Trail : Trail[i] \in Events
      BY <2>1, LenProperties, ElementOfSeq
    <2> QED BY <2>1, <2>2, LenProperties, RxThreadAssumption
  <1>5. CASE source # "afxdp"
    BY <1>1, <1>2, <1>3, <1>5 DEF TrailInv
  <1>6. ASSUME source = "afxdp" PROVE TrailInv'
    <2>1. AtMost(Trail, packets) /\ Rising(Coming) /\ Ahead(Trail, Coming) /\ Arrived(Coming, packets)
      BY <1>6 DEF TrailInv
    <2>2. \A i \in DOMAIN Trail : Trail[i] <= packets
      BY <2>1 DEF AtMost
    <2>3. AtMost(Trail, packets')
      BY <1>1, <1>4, <2>2 DEF AtMost
    <2>4. Coming \in Seq(Datagrams)
      BY Joining DEF RingTypes, Coming
    <2>5. \A j \in DOMAIN Coming : Coming[j].order # NoOrder => Coming[j].order \in Int
      <3>1. \A j \in DOMAIN Coming : Coming[j] \in Datagrams
        BY <2>4, LenProperties, ElementOfSeq
      <3> QED BY <3>1, RxThreadAssumption DEF Datagrams
    <2>6. CASE UNCHANGED rx_ring
      <3>1. Coming' = Coming
        BY <1>1, <2>6 DEF Coming
      <3>2. Arrived(Coming, packets')
        BY <1>1, <2>1, <2>5 DEF Arrived
      <3> QED BY <1>1, <1>2, <1>3, <2>1, <2>3, <3>1, <3>2 DEF TrailInv
    <2>7. ASSUME NEW order \in {packets + 1, NoOrder}, fill_ring # <<>>,
                 rx_ring' = Append(rx_ring, [frame |-> Head(fill_ring), order |-> order])
          PROVE  TrailInv'
      <3> DEFINE datagram == [frame |-> Head(fill_ring), order |-> order]
                 one == <<datagram>>
      <3>1. datagram \in Datagrams
        <4>1. Head(fill_ring) \in Frames
          BY <2>7, HeadTailProperties DEF RingTypes
        <4>2. packets + 1 \in Events
          BY <1>1, XdpSocketAssumption, RxThreadAssumption, AfXdpRxAssumption DEF PacketArrives
        <4> QED BY <4>1, <4>2 DEF Datagrams
      <3>2. datagram.order = order
        OBVIOUS
      <3>3. rx_ring' = rx_ring \o one /\ one \in Seq(Datagrams)
        BY <2>7, <3>1, AppendIsConcat DEF RingTypes
      <3>4. batch \o (rx_ring \o one) = (batch \o rx_ring) \o one
        BY <3>3, ConcatAssociative DEF RingTypes
      <3>5. Coming' = Append(Coming, datagram)
        BY <1>1, <2>4, <3>1, <3>3, <3>4, AppendIsConcat DEF Coming
      <3> HIDE DEF datagram
      <3>6. /\ DOMAIN Coming = 1 .. Len(Coming) /\ Len(Coming) \in Nat
            /\ Coming' \in Seq(Datagrams) /\ Len(Coming') = Len(Coming) + 1
            /\ \A j \in 1 .. Len(Coming) : Coming'[j] = Coming[j]
            /\ Coming'[Len(Coming) + 1] = datagram
        BY <2>4, <3>1, <3>5, LenProperties, AppendProperties
      <3>7. DOMAIN Coming' = 1 .. Len(Coming) + 1
        BY <3>6, LenProperties
      <3>8. \A j \in DOMAIN Coming' : j \in DOMAIN Coming \/ j = Len(Coming) + 1
        BY <3>6, <3>7
      <3>9. order # NoOrder => order = packets + 1
        BY <2>7
      <3>10. \A j \in DOMAIN Coming : Coming[j].order # NoOrder => Coming[j].order <= packets
        BY <2>1 DEF Arrived
      <3>11. Arrived(Coming', packets')
        BY <1>1, <2>5, <3>2, <3>6, <3>8, <3>9, <3>10 DEF Arrived
      <3>12. Ahead(Trail, Coming')
        BY <1>1, <1>4, <2>1, <2>2, <3>2, <3>6, <3>8, <3>9 DEF Ahead
      <3>13. Rising(Coming')
        <4>1. SUFFICES ASSUME NEW i \in DOMAIN Coming', NEW j \in DOMAIN Coming', i < j,
                              Coming'[i].order # NoOrder, Coming'[j].order # NoOrder
                       PROVE  Coming'[i].order < Coming'[j].order
          BY DEF Rising
        <4>2. i \in DOMAIN Coming /\ Coming'[i] = Coming[i]
          BY <3>6, <3>7, <4>1
        <4>3. CASE j \in DOMAIN Coming
          BY <2>1, <3>6, <4>1, <4>2, <4>3 DEF Rising
        <4>4. CASE j = Len(Coming) + 1
          <5>1. Coming'[j].order = packets + 1
            BY <3>2, <3>6, <3>9, <4>1, <4>4
          <5>2. Coming[i].order \in Int /\ Coming[i].order <= packets
            BY <2>5, <3>10, <4>1, <4>2
          <5> QED BY <1>1, <4>2, <5>1, <5>2
        <4> QED BY <3>8, <4>3, <4>4
      <3> QED BY <1>1, <1>2, <1>3, <2>1, <2>3, <3>11, <3>12, <3>13 DEF TrailInv
    <2> QED BY <1>1, <2>6, <2>7 DEF PacketArrives
  <1> QED BY <1>5, <1>6

(* A frame is parsed: the order it carries, if any, comes after those      *)
(* accepted and before those still to be parsed.                           *)
LEMMA ParseStep ==
  ASSUME RingTypes, TrailInv, source = "afxdp", UNCHANGED source, ParseAndRelease
  PROVE  TrailInv'
PROOF
  <1>1. TrailTypes /\ taken \in Nat /\ dropped \in Nat /\ parse_errors \in Nat /\ packets \in Nat
    BY DEF TrailInv, TrailTypes, RingTypes
  <1>2. /\ rx_pc = "parse" /\ batch # <<>> /\ taken' = taken + 1 /\ batch' = Tail(batch)
        /\ UNCHANGED <<matchingVars, dropped, parsed_ok, rx_ring, packets>>
    BY DEF ParseAndRelease, ReleaseFrame
  <1>3. Accepted' = Accepted /\ UNCHANGED <<book, queue, m_pc, m_order>>
    BY <1>2, AcceptedStays
  <1>4. Accepted \in Seq(Events) /\ Trail \in Seq(Events) /\ Len(Trail) \in Nat
    BY <1>1, TrailTyped, LenProperties
  <1>5. Trail = Accepted
    BY <1>2, <1>4, ConcatEmptySeq DEF Trail, Pushing
  <1> DEFINE first == Head(batch)
             one == <<first>>
  <1>6. first \in Datagrams /\ Tail(batch) \in Seq(Datagrams) /\ batch = one \o Tail(batch)
    BY <1>2, Shrinking DEF RingTypes
  <1>7. one \in Seq(Datagrams) /\ Len(one) = 1 /\ one[1] = first
    BY <1>6
  <1>8. Coming' = Tail(batch) \o rx_ring /\ Coming' \in Seq(Datagrams)
    <2>1. Coming' = Tail(batch) \o rx_ring
      BY <1>2 DEF Coming
    <2> QED BY <1>6, <2>1, Joining DEF RingTypes
  <1>9. Coming = one \o Coming'
    <2>1. (one \o Tail(batch)) \o rx_ring = one \o (Tail(batch) \o rx_ring)
      BY <1>6, <1>7, ConcatAssociative DEF RingTypes
    <2> QED BY <1>6, <1>8, <2>1 DEF Coming
  <1> HIDE DEF one, first
  <1>10. /\ Len(Coming') \in Nat /\ DOMAIN Coming' = 1 .. Len(Coming')
         /\ DOMAIN Coming = 1 .. Len(Coming') + 1
         /\ Coming[1] = first
         /\ \A j \in 1 .. Len(Coming') : Coming[j + 1] = Coming'[j]
    <2>1. /\ one \o Coming' \in Seq(Datagrams) /\ Len(one \o Coming') = Len(one) + Len(Coming')
          /\ \A i \in 1 .. Len(one) + Len(Coming') : (one \o Coming')[i] =
                IF i <= Len(one) THEN one[i] ELSE Coming'[i - Len(one)]
      BY <1>7, <1>8, ConcatProperties
    <2>2. /\ Len(Coming') \in Nat /\ DOMAIN Coming' = 1 .. Len(Coming')
          /\ DOMAIN (one \o Coming') = 1 .. Len(one \o Coming')
      BY <1>8, <2>1, LenProperties
    <2>3. 1 \in 1 .. Len(one) + Len(Coming') /\ Coming[1] = one[1]
      BY <1>7, <1>9, <2>1, <2>2
    <2>4. ASSUME NEW j \in 1 .. Len(Coming') PROVE Coming[j + 1] = Coming'[j]
      <3>1. j + 1 \in 1 .. Len(one) + Len(Coming') /\ ~(j + 1 <= Len(one)) /\ (j + 1) - Len(one) = j
        BY <1>7, <2>2
      <3> QED BY <1>9, <2>1, <3>1
    <2> QED BY <1>7, <1>9, <2>1, <2>2, <2>3, <2>4
  <1>11. AtMost(Trail, packets) /\ Rising(Coming) /\ Ahead(Trail, Coming) /\ Arrived(Coming, packets)
    BY DEF TrailInv
  <1>12. Ascending(Trail) /\ parsed_ok = Len(Accepted) /\ taken = Len(Trail) + dropped + parse_errors
    BY DEF TrailInv
  <1>13. \A j \in DOMAIN Coming' :
           j \in 1 .. Len(Coming') /\ j + 1 \in DOMAIN Coming /\ Coming[j + 1] = Coming'[j]
    BY <1>10
  <1>14. Rising(Coming')
    <2>1. SUFFICES ASSUME NEW i \in DOMAIN Coming', NEW j \in DOMAIN Coming', i < j,
                          Coming'[i].order # NoOrder, Coming'[j].order # NoOrder
                   PROVE  Coming'[i].order < Coming'[j].order
      BY DEF Rising
    <2>2. /\ i + 1 \in DOMAIN Coming /\ j + 1 \in DOMAIN Coming /\ i + 1 < j + 1
          /\ Coming[i + 1] = Coming'[i] /\ Coming[j + 1] = Coming'[j]
      BY <1>10, <1>13, <2>1
    <2> QED BY <1>11, <2>1, <2>2 DEF Rising
  <1>15. Arrived(Coming', packets')
    BY <1>2, <1>11, <1>13 DEF Arrived
  <1>16. Ahead(Trail, Coming')
    BY <1>11, <1>13 DEF Ahead
  <1>17. CASE first.order = NoOrder /\ parse_errors' = parse_errors + 1
              /\ UNCHANGED <<rx_pc, rx_order>>
    <2>1. Trail' = Trail
      BY <1>3, <1>17 DEF Trail, Pushing
    <2>2. TrailTypes'
      BY <1>1, <1>2, <1>3, <1>17 DEF TrailTypes
    <2>3. taken' = Len(Trail') + dropped' + parse_errors'
      BY <1>1, <1>2, <1>4, <1>12, <1>17, <2>1
    <2> QED BY <1>2, <1>3, <1>11, <1>12, <1>14, <1>15, <1>16, <2>1, <2>2, <2>3 DEF TrailInv
  <1>18. ASSUME first.order # NoOrder, rx_order' = first.order, rx_pc' = "push",
                UNCHANGED parse_errors
         PROVE  TrailInv'
    <2> DEFINE e == first.order
    <2>1. e \in Events /\ e \in Int /\ packets \in Int
      BY <1>1, <1>6, <1>18, RxThreadAssumption DEF Datagrams
    <2>2. 1 \in DOMAIN Coming /\ Coming[1] = first
      BY <1>10
    <2>3. e <= packets /\ \A i \in DOMAIN Trail : Trail[i] < e
      BY <1>11, <1>18, <2>2 DEF Arrived, Ahead
    <2>4. \A j \in DOMAIN Coming' : Coming'[j].order # NoOrder => e < Coming'[j].order
      <3>1. \A j \in DOMAIN Coming' : 1 < j + 1
        BY <1>10
      <3> QED BY <1>11, <1>13, <1>18, <2>2, <3>1 DEF Rising
    <2>5. Trail' = Trail \o <<e>>
      BY <1>1, <1>2, <1>18, NewOrder
    <2> HIDE DEF e
    <2>6. Ascending(Trail') /\ AtMost(Trail', packets')
      BY <1>2, <1>4, <1>11, <1>12, <2>1, <2>3, <2>5, OneMore
    <2>7. /\ Trail' = Append(Trail, e) /\ Len(Trail') = Len(Trail) + 1
          /\ Trail' \in Seq(Events)
          /\ \A i \in 1 .. Len(Trail) : Trail'[i] = Trail[i]
          /\ Trail'[Len(Trail) + 1] = e
      BY <1>4, <2>1, <2>5, AppendIsConcat, AppendProperties
    <2>8. DOMAIN Trail = 1 .. Len(Trail) /\ DOMAIN Trail' = 1 .. Len(Trail) + 1
      BY <1>4, <2>7, LenProperties
    <2>9. Ahead(Trail', Coming')
      <3>1. \A i \in DOMAIN Trail' : (i \in DOMAIN Trail /\ Trail'[i] = Trail[i]) \/ Trail'[i] = e
        BY <1>4, <2>7, <2>8
      <3> QED BY <1>16, <2>4, <3>1 DEF Ahead
    <2>10. TrailTypes'
      BY <1>1, <1>2, <1>3, <1>18, <2>1 DEF TrailTypes, e
    <2>11. taken' = Len(Trail') + dropped' + parse_errors'
      BY <1>1, <1>2, <1>4, <1>12, <1>18, <2>7
    <2> QED BY <1>2, <1>3, <1>12, <1>14, <1>15, <2>6, <2>9, <2>10, <2>11 DEF TrailInv
  <1> QED BY <1>17, <1>18 DEF ParseAndRelease, first

(* The steps of afxdp_rx_thread_fn.                                        *)
LEMMA AfXdpStep ==
  ASSUME FramesInv, TrailInv, source = "afxdp", UNCHANGED source, AfXdpThread
  PROVE  TrailInv'
PROOF
  <1>1. TrailTypes /\ taken \in Nat /\ dropped \in Nat /\ parse_errors \in Nat /\ RingTypes
    BY DEF TrailInv, TrailTypes, FramesInv
  <1>2. CASE AfXdpPin \/ Open \/ AfXdpSeeStop \/ BeginReceive \/ BatchDone \/ DeleteUmem
               \/ FreeArea \/ Detach
    <2>1. /\ UNCHANGED <<matchingVars, taken, dropped, countVars, batch, rx_ring, packets>>
          /\ rx_pc # "push" /\ rx_pc' # "push"
      BY <1>2 DEF AfXdpPin, RxPin, Open, Attach, FindMap, AllocateArea, CreateUmem, CreateSocket,
         RegisterSocket, SeedFrames, AfXdpSeeStop, BeginReceive, BatchDone, DeleteUmem, FreeArea,
         Detach, SetUp, TakeDown, GoTo, Acquire, GiveBack, Abandon, Seed, RefillFillRing, Refill,
         afxdpVars, socketVars, ringVars
    <2>2. Coming' = Coming
      BY <2>1 DEF Coming
    <2> QED BY <2>1, <2>2, RxQuiet
  <1>3. CASE CloseAndDelete
    <2>1. /\ UNCHANGED <<matchingVars, taken, dropped, countVars, batch, packets>>
          /\ rx_pc = "close" /\ rx_pc' # "push" /\ rx_ring' = <<>>
      BY <1>3 DEF CloseAndDelete, GoTo, CloseSocket
    <2>2. batch' = <<>>
      BY <2>1 DEF FramesInv
    <2>3. Coming' = <<>> \o <<>>
      BY <2>1, <2>2 DEF Coming
    <2>4. Coming' = <<>>
      BY <2>3, EmptySeq, ConcatEmptySeq
    <2> QED BY <2>1, <2>4, RxQuiet
  <1>4. CASE ReceiveBatch
    <2>1. /\ UNCHANGED <<matchingVars, taken, dropped, countVars, packets>>
          /\ rx_pc = "peek" /\ rx_pc' # "push" /\ batch' = Received /\ Peek
      BY <1>4 DEF ReceiveBatch, Peek
    <2>2. batch = <<>>
      BY <2>1 DEF FramesInv
    <2>3. batch' \o rx_ring' = rx_ring
      BY <1>1, <2>1, <2>2, PeekOwns
    <2>4. <<>> \o rx_ring = rx_ring
      BY <1>1, ConcatEmptySeq DEF RingTypes
    <2>5. Coming' = Coming
      BY <2>2, <2>3, <2>4 DEF Coming
    <2> QED BY <2>1, <2>5, RxQuiet
  <1>5. CASE ParseAndRelease
    BY <1>1, <1>5, ParseStep
  <1>6. ASSUME PushParsed PROVE TrailInv'
    <2>1. UNCHANGED <<parse_errors, packets, batch, rx_ring>> /\ Coming' = Coming
      BY <1>6 DEF PushParsed, socketVars, ringVars, Coming
    <2>2. CASE PushFails /\ UNCHANGED parsed_ok
      <3>1. UNCHANGED <<matchingVars, taken, dropped, countVars, rx_pc, rx_order>>
        BY <2>1, <2>2 DEF PushFails, countVars
      <3> QED BY <2>1, <3>1, RxQuiet
    <2>3. CASE PushOrder("parse") /\ parsed_ok' = parsed_ok + 1
      <3>1. /\ queue' \in Seq(Events) /\ UNCHANGED <<book, m_pc, m_order>> /\ Trail' = Trail
            /\ Len(Accepted') = Len(Accepted) + 1
        BY <1>1, <2>3, PushKeepsTrail
      <3>2. UNCHANGED <<taken, dropped>> /\ rx_pc' # "push"
        BY <2>3 DEF PushOrder
      <3>3. parsed_ok' \in Nat /\ parsed_ok = Len(Accepted)
        BY <2>3 DEF TrailInv, TrailTypes
      <3>4. TrailTypes'
        BY <1>1, <2>1, <3>1, <3>2, <3>3 DEF TrailTypes
      <3>5. taken <= taken' /\ taken' = Len(Trail') + dropped' + parse_errors'
        BY <1>1, <2>1, <3>1, <3>2 DEF TrailInv
      <3> QED BY <2>1, <2>3, <3>1, <3>3, <3>4, <3>5, TrailStays
    <2>4. CASE GiveUp("parse") /\ UNCHANGED parsed_ok
      <3>1. UNCHANGED <<matchingVars, taken>> /\ dropped' = dropped + 1 /\ rx_pc' # "push"
        BY <2>4 DEF GiveUp
      <3>2. /\ Trail = Accepted \o <<rx_order>> /\ rx_order \in Events /\ Trail' = Accepted
            /\ Len(Trail) = Len(Accepted) + 1 /\ Accepted \in Seq(Events)
        BY <1>1, <2>4, GivenUp, TrailTyped
      <3>3. Accepted' = Accepted /\ UNCHANGED <<book, queue, m_pc, m_order>>
        BY <3>1, AcceptedStays
      <3>4. /\ Ascending(Trail) /\ AtMost(Trail, packets) /\ Rising(Coming) /\ Ahead(Trail, Coming)
            /\ Arrived(Coming, packets) /\ parsed_ok = Len(Accepted)
        BY DEF TrailInv
      <3>5. Ascending(Trail') /\ AtMost(Trail', packets') /\ Ahead(Trail', Coming')
        BY <2>1, <3>2, <3>4, OneFewer
      <3>6. TrailTypes'
        BY <1>1, <2>1, <2>4, <3>1, <3>3 DEF TrailTypes
      <3>7. taken' = Len(Trail') + dropped' + parse_errors'
        <4>1. Len(Accepted) \in Nat /\ taken = Len(Trail) + dropped + parse_errors
          BY <3>2, LenProperties DEF TrailInv
        <4> QED BY <1>1, <2>1, <3>1, <3>2, <4>1
      <3> QED BY <2>1, <2>4, <3>3, <3>4, <3>5, <3>6, <3>7 DEF TrailInv
    <2> QED BY <1>6, <2>2, <2>3, <2>4 DEF PushParsed
  <1> QED BY <1>2, <1>3, <1>4, <1>5, <1>6 DEF AfXdpThread, Receive, Close

(* Whoever moves, the trail stays as TrailInv says.                        *)
LEMMA TrailStep == ASSUME FramesInv, TrailInv, [Next]_vars PROVE TrailInv'
PROOF
  <1>1. CASE Main \/ (\E thread \in Threads : Sigint(thread)) \/ RequestStop \/ UNCHANGED vars
    <2>1. /\ UNCHANGED <<book, queue, m_pc, m_order, rx_pc, rx_order, taken, dropped, parse_errors>>
          /\ UNCHANGED <<parsed_ok, batch, rx_ring, packets, source>>
      BY <1>1 DEF Main, MainGoes, RefuseOptions, PublishStopSource, RegisterHandler, Prepare,
         LookForStop, StartRx, StartMatching, SeeStopRequest, JoinRx, JoinMatching,
         ClearStopSource, RestoreDefault, Leave, Return, Sigint, RequestStop, vars,
         matchingVars, threadVars, rxVars, afxdpVars, socketVars, ringVars, countVars, mainVars
    <2>2. Accepted' = Accepted /\ Trail' = Trail /\ Coming' = Coming
      BY <2>1 DEF Accepted, Popped, Trail, Pushing, Coming
    <2> QED BY <2>1, <2>2 DEF TrailInv, TrailTypes
  <1>2. CASE RunMatching
    <2>1. UNCHANGED <<rxVars, afxdpVars, mainVars>> /\ Matching
      BY <1>2 DEF RunMatching
    <2>2. UNCHANGED <<rx_pc, rx_order, taken, dropped, parse_errors, parsed_ok, batch, rx_ring,
                      packets, source>>
      BY <2>1 DEF rxVars, afxdpVars, socketVars, ringVars, countVars, mainVars
    <2>3. TrailTypes
      BY DEF TrailInv
    <2>4. /\ book' \in Seq(Events) /\ queue' \in Seq(Events)
          /\ m_pc' = "work" => m_order' \in Events
          /\ Accepted' = Accepted
      BY <2>1, <2>3, MatchingKeepsTrail
    <2>5. TrailTypes' /\ Trail' = Trail /\ Coming' = Coming
      BY <2>2, <2>3, <2>4 DEF TrailTypes, Trail, Pushing, Coming
    <2> QED BY <2>2, <2>4, <2>5 DEF TrailInv
  <1>3. CASE Network
    BY <1>3, ArrivalStep DEF FramesInv
  <1>4. CASE RunRx
    <2>1. UNCHANGED source
      BY <1>4 DEF RunRx, mainVars
    <2> QED BY <1>4, <2>1, SyntheticStep, AfXdpStep DEF RunRx
  <1> QED BY <1>1, <1>2, <1>3, <1>4 DEF Next, ProcessOver

(* Where every order is, at every moment.                                  *)
THEOREM TrailInductive == Spec => []TrailInv
PROOF
  <1>1. Init => TrailInv
    <2> SUFFICES ASSUME Init PROVE TrailInv
      OBVIOUS
    <2>1. /\ book = <<>> /\ queue = <<>> /\ m_pc = "pin" /\ rx_pc = "pin" /\ batch = <<>>
          /\ rx_ring = <<>> /\ taken = 0 /\ dropped = 0 /\ parse_errors = 0 /\ parsed_ok = 0
          /\ source \in {"synthetic", "afxdp"}
      BY DEF Init, MatchingInit, RxInit, AfXdpInit, SocketInit
    <2>2. Popped = <<>> /\ Pushing = <<>>
      BY <2>1 DEF Popped, Pushing
    <2>3. <<>> \o <<>> = <<>> /\ Len(<<>>) = 0
      BY EmptySeq, ConcatEmptySeq
    <2>4. Accepted = <<>> /\ Trail = <<>> /\ Coming = <<>>
      BY <2>1, <2>2, <2>3 DEF Accepted, Trail, Coming
    <2>5. /\ Ascending(<<>>) /\ \A n : AtMost(<<>>, n) /\ Arrived(<<>>, n)
          /\ Rising(<<>>) /\ Ahead(<<>>, <<>>)
      BY DEF Ascending, AtMost, Arrived, Rising, Ahead
    <2>6. TrailTypes
      BY <2>1, EmptySeq DEF TrailTypes
    <2> QED BY <2>1, <2>3, <2>4, <2>5, <2>6 DEF TrailInv
  <1> QED BY <1>1, FramesInductive, TrailStep, PTL DEF Spec

(* Every order generated or received is in the book, or on its way there   *)
(* -- once and in the order they came -- or has been counted as dropped or *)
(* unparsable, wherever the two threads, main and the handler stand.       *)
THEOREM OrdersAlwaysAccounted == Spec => []Accounted
PROOF
  <1>1. TrailInv => Accounted
    <2> SUFFICES ASSUME TrailInv PROVE Accounted
      OBVIOUS
    <2>1. /\ taken = Len(Trail) + dropped + parse_errors /\ Ascending(Trail)
          /\ source = "afxdp" => parsed_ok = Len(Accepted)
      BY DEF TrailInv
    <2> QED BY <2>1 DEF Accounted, Trail, Accepted, Popped, Pushing, Ascending
  <1> QED BY <1>1, TrailInductive, PTL
=============================================================================
