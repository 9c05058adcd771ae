---------------------------- MODULE LivePipeline ----------------------------
(***************************************************************************)
(* run_live_pipeline() (src/main.cpp): main sets the pipeline up, starts   *)
(* the receive thread -- synthetic or AF_XDP -- and the matching thread,   *)
(* waits for a SIGINT to request the stop, joins both threads and returns. *)
(* The process gets its first SIGINT at any moment and on any thread, and  *)
(* the handler that runs then may itself be overtaken by other threads.    *)
(*                                                                         *)
(* Starting a thread may throw std::system_error, which main() catches;    *)
(* running out of memory, or failing to start the second thread while the  *)
(* first one runs, ends in std::terminate().                               *)
(***************************************************************************)
EXTENDS AfXdpRx

CONSTANT MaxSignals  \* bound on the SIGINTs sent, for model checking

VARIABLES
  source,         \* "afxdp" if --xdp-iface was given, else "synthetic"
  main_pc,        \* where main is, or how the process has ended
  stop_source,    \* the local variable of that name: "none", "alive", "gone"
  g_stop_source,  \* whether the global pointer to it is set
  handling,       \* whether handle_sigint is installed
  started,        \* the threads started
  handler,        \* the handler that runs: its thread and the pointer it read
  signals         \* SIGINTs sent so far

mainVars == <<source, main_pc, stop_source, g_stop_source, handling, started>>
signalVars == <<handler, signals>>
vars == <<matchingVars, rxVars, afxdpVars, mainVars, signalVars>>

NoHandler == [thread |-> "none", pointer |-> FALSE]

Init ==
  /\ MatchingInit /\ RxInit /\ AfXdpInit
  /\ source \in {"synthetic", "afxdp"}
  /\ main_pc = "begin"
  /\ stop_source = "none" /\ g_stop_source = FALSE /\ handling = FALSE
  /\ started = {}
  /\ handler = NoHandler /\ signals = 0

(* The ends of the process: main returned, exit(1), SIGINT's default       *)
(* action, std::terminate().                                               *)
Ended == main_pc \in {"returned", "exited", "killed", "aborted"}

MatchingOver == m_pc \in {"stopped", "failed"}

(* The threads there are: one that is over has exited.  A thread runs      *)
(* unless a signal handler has interrupted it.                             *)
Threads ==
  {"main"} \cup {t \in started : (t = "rx" => ~RxOver) /\ (t = "matching" => ~MatchingOver)}

Runs(thread) == ~Ended /\ thread \in Threads /\ handler.thread # thread

-----------------------------------------------------------------------------
MainGoes(from, to) ==
  /\ Runs("main")
  /\ main_pc = from
  /\ main_pc' = to
  /\ UNCHANGED <<matchingVars, rxVars, afxdpVars, source, signalVars>>

(* --xdp-iface without AF_XDP support, or an unknown --xdp-attach-mode.    *)
RefuseOptions ==
  /\ source = "afxdp"
  /\ \E from \in {"begin", "start rx"} : MainGoes(from, "exited")
  /\ UNCHANGED <<stop_source, g_stop_source, handling, started>>

PublishStopSource ==
  /\ MainGoes("begin", "register")
  /\ stop_source' = "alive"
  /\ g_stop_source' = TRUE
  /\ UNCHANGED <<handling, started>>

RegisterHandler ==
  /\ MainGoes("register", "set up")
  /\ handling' = TRUE
  /\ UNCHANGED <<stop_source, g_stop_source, started>>

(* The pools, the book and the queue are allocated and the clock is        *)
(* calibrated, which takes two seconds.                                    *)
Prepare ==
  /\ \E to \in {"look", "aborted"} : MainGoes("set up", to)
  /\ UNCHANGED <<stop_source, g_stop_source, handling, started>>

(* The stop may have been requested already: then nothing is started.      *)
LookForStop ==
  /\ MainGoes("look", IF stop THEN "clear" ELSE "start rx")
  /\ UNCHANGED <<stop_source, g_stop_source, handling, started>>

(* A thread that cannot be started: run_live_pipeline() is left through    *)
(* an exception, and its local stop_source goes.                           *)
StartRx ==
  \/ /\ MainGoes("start rx", "start matching")
     /\ started' = started \cup {"rx"}
     /\ UNCHANGED <<stop_source, g_stop_source, handling>>
  \/ /\ MainGoes("start rx", "fatal")
     /\ stop_source' = "gone"
     /\ UNCHANGED <<g_stop_source, handling, started>>

StartMatching ==
  \/ /\ MainGoes("start matching", "wait")
     /\ started' = started \cup {"matching"}
     /\ UNCHANGED <<stop_source, g_stop_source, handling>>
  \/ /\ MainGoes("start matching", "aborted")
     /\ UNCHANGED <<stop_source, g_stop_source, handling, started>>

(* The poll loop, which sleeps 200 ms a round.                             *)
SeeStopRequest ==
  /\ stop
  /\ MainGoes("wait", "join rx")
  /\ UNCHANGED <<stop_source, g_stop_source, handling, started>>

(* A seeded mistake: the receive thread is not joined.                     *)
DetachRx ==
  /\ MainGoes("join rx", "join matching")
  /\ UNCHANGED <<stop_source, g_stop_source, handling, started>>

JoinRx ==
  /\ RxOver
  /\ MainGoes("join rx", "join matching")
  /\ UNCHANGED <<stop_source, g_stop_source, handling, started>>

JoinMatching ==
  /\ MatchingOver
  /\ MainGoes("join matching", "clear")
  /\ UNCHANGED <<stop_source, g_stop_source, handling, started>>

ClearStopSource ==
  /\ MainGoes("clear", "default")
  /\ g_stop_source' = FALSE
  /\ UNCHANGED <<stop_source, handling, started>>

(* SIG_DFL again, and the stop_source goes with its scope.                 *)
RestoreDefault ==
  /\ MainGoes("default", "leave")
  /\ handling' = FALSE
  /\ UNCHANGED <<stop_source, g_stop_source, started>>

Leave ==
  /\ MainGoes("leave", "return")
  /\ stop_source' = "gone"
  /\ UNCHANGED <<g_stop_source, handling, started>>

(* main() returns 0, or reports the exception and returns 1.               *)
Return ==
  /\ \E from \in {"return", "fatal"} : MainGoes(from, "returned")
  /\ UNCHANGED <<stop_source, g_stop_source, handling, started>>

Main ==
  \/ RefuseOptions \/ PublishStopSource \/ RegisterHandler \/ Prepare
  \/ LookForStop \/ StartRx \/ StartMatching \/ SeeStopRequest
  \/ JoinRx \/ JoinMatching \/ ClearStopSource \/ RestoreDefault \/ Leave
  \/ Return

-----------------------------------------------------------------------------
(* SIGINT is delivered to a thread: its default action, or handle_sigint,  *)
(* which starts with a look at the pointer.  A second one waits until the  *)
(* handler has returned.                                                   *)
Sigint(thread) ==
  /\ Runs(thread)
  /\ handler = NoHandler
  /\ signals < MaxSignals
  /\ signals' = signals + 1
  /\ \/ /\ handling
        /\ handler' = [thread |-> thread, pointer |-> g_stop_source]
        /\ UNCHANGED main_pc
     \/ /\ ~handling
        /\ main_pc' = "killed"
        /\ UNCHANGED handler
  /\ UNCHANGED <<matchingVars, rxVars, afxdpVars, source, stop_source, g_stop_source,
                 handling, started>>

(* The rest of the handler.  Through a dangling pointer anything goes:     *)
(* that the program survives is as good as it gets.                        *)
RequestStop ==
  /\ ~Ended
  /\ handler # NoHandler
  /\ handler' = NoHandler
  /\ stop' = (stop \/ (handler.pointer /\ stop_source = "alive"))
  /\ UNCHANGED <<queue, book, exhaustion, sinkVars, threadVars, rxVars, afxdpVars,
                 mainVars, signals>>

-----------------------------------------------------------------------------
(* No sample sink is published in this mode.                               *)
RunMatching ==
  /\ Runs("matching")
  /\ Matching
  /\ UNCHANGED <<rxVars, afxdpVars, mainVars, signalVars>>

RunRx ==
  /\ Runs("rx")
  /\ \/ source = "synthetic" /\ SyntheticRx /\ UNCHANGED afxdpVars
     \/ source = "afxdp" /\ AfXdpThread
  /\ UNCHANGED <<mainVars, signalVars>>

(* The network exists whatever the process does.                           *)
Network ==
  /\ source = "afxdp" /\ ~Ended
  /\ PacketArrives
  /\ UNCHANGED <<matchingVars, rxVars, batch, countVars, mainVars, signalVars>>

ProcessOver == Ended /\ UNCHANGED vars

Next ==
  \/ Main \/ RunRx \/ RunMatching
  \/ \E thread \in Threads : Sigint(thread)
  \/ RequestStop \/ Network \/ ProcessOver

(* The scheduler lets every thread run, and a handler return.  Nobody has  *)
(* to send a SIGINT or a packet.                                           *)
Fairness ==
  /\ WF_vars(Main) /\ WF_vars(RunRx) /\ WF_vars(RunMatching)
  /\ WF_vars(RequestStop)

Spec == Init /\ [][Next]_vars /\ Fairness

-----------------------------------------------------------------------------
(* Every order generated or received is accounted for, at every moment: it *)
(* has been applied to the book, or is on its way -- once, and in the      *)
(* order they came -- or it has been counted as dropped or unparsable.     *)
Accounted ==
  LET popped == IF m_pc = "work" THEN <<m_order>> ELSE <<>>
      pushing == IF rx_pc = "push" THEN <<rx_order>> ELSE <<>>
      accepted == book \o popped \o queue
      trail == accepted \o pushing
  IN  /\ taken = Len(trail) + dropped + parse_errors
      /\ \A i, j \in DOMAIN trail : i < j => trail[i] < trail[j]
      /\ source = "afxdp" => parsed_ok = Len(accepted)

(* From the end of the constructor to the beginning of the teardown every  *)
(* frame is in one place and in no other: on the stack, on a ring, or in   *)
(* the batch still to be parsed.  None is lost, none released twice.       *)
FramesOwnedOnce ==
  LET received(ring) == [i \in DOMAIN ring |-> ring[i].frame]
      owned == free_frames \o fill_ring \o received(rx_ring) \o received(batch)
  IN  /\ rx_pc \in {"loop", "peek", "parse", "push"} /\ source = "afxdp" =>
           Len(owned) = NumFrames /\ ToSet(owned) = Frames
      /\ double_release_count = 0

(* The program stays attached until the socket, the UMEM and its memory    *)
(* are gone, and the memory stays as long as the kernel may write to it,   *)
(* on the way up, on the way down and wherever a setup call fails.         *)
TeardownInOrder ==
  /\ held \cap {"area", "umem", "socket"} # {} => "program" \in held
  /\ "socket" \in held => {"area", "umem"} \subseteq held
  /\ "umem" \in held => "area" \in held

(* The handler follows g_stop_source only to a stop_source that exists,    *)
(* whichever thread it runs on and whenever that thread goes on; except    *)
(* after run_live_pipeline() was left through an exception.                *)
HandlerSafe == handler.pointer /\ main_pc # "fatal" /\ ~Ended => stop_source = "alive"

(* Unless it is aborted, the process ends only when no other thread can    *)
(* still be using what main owns, and it has closed the socket, freed the  *)
(* memory and tried to detach the program, whichever setup call failed:    *)
(* what may outlive it is the program's attachment to the interface, when  *)
(* the detach itself has failed.                                           *)
CleanExit ==
  Ended /\ main_pc # "aborted" =>
    /\ held \subseteq {"attachment"}
    /\ "rx" \in started => RxOver
    /\ "matching" \in started => MatchingOver

(* The comment at g_stop_source: the handler never outlives the            *)
(* stop_source.                                                            *)
NeverOutlivesStopSource == handler.pointer /\ ~Ended => stop_source = "alive"

(* A SIGINT ends the process, at whatever moment it comes, and whatever    *)
(* has become of the two threads.                                          *)
ShutdownCompletes == signals > 0 ~> Ended

(* The receive path never starves: the kernel always gets frames again,    *)
(* whether packets parse, and whether the matching thread keeps up.        *)
Replenished ==
  (rx_pc = "loop" /\ source = "afxdp" /\ fill_ring = <<>>)
    ~> (fill_ring # <<>> \/ stop \/ Ended)
=============================================================================
