-------------------------------- MODULE Sv2Tp --------------------------------
(***************************************************************************)
(* The sv2-tp process: main() of src/sv2-tp.cpp, from the command line to  *)
(* the exit code, and the signals the operating system delivers to it      *)
(* while it runs.                                                          *)
(*                                                                         *)
(* The command line is abstracted to the four options main() reads into    *)
(* Sv2TemplateProviderOptions (-sv2port, -sv2bind, -sv2feedelta,           *)
(* -sv2interval); every other way a step of main()                         *)
(* fails (an unparsable argument, a missing data directory, no node to     *)
(* connect to, a port that cannot be bound) is a choice of the             *)
(* environment.  The Template Provider is abstracted to its life cycle and *)
(* the options it was started with.                                        *)
(***************************************************************************)
EXTENDS Integers

CONSTANTS
    Unset,          \* an option the command line does not give
    NoPort,         \* -sv2bind=<addr> without :<port>
    BadPort,        \* -sv2bind=<addr>:<port> with 0 or no u16 as <port>
    PortArgs,       \* values of -sv2port
    BindArgs,       \* ports of -sv2bind: NoPort, BadPort or a valid port
    FeeDeltaArgs,   \* values of -sv2feedelta
    IntervalArgs,   \* values of -sv2interval
    DefaultPort,    \* BaseParams().Sv2Port()
    DefaultFeeDelta, \* Sv2TemplateProviderOptions().fee_delta
    DefaultInterval \* Sv2TemplateProviderOptions().fee_check_interval

Ports == 0..65535
Signals == {"SIGTERM", "SIGINT"}

ASSUME
    /\ PortArgs \subseteq Int
    /\ BindArgs \subseteq (Ports \ {0}) \cup {NoPort, BadPort}
    /\ FeeDeltaArgs \subseteq Int
    /\ IntervalArgs \subseteq Int
    /\ DefaultPort \in Ports
    /\ DefaultFeeDelta \in Nat
    /\ DefaultInterval \in Nat \ {0}

VARIABLES
    args,        \* the command line
    pc,          \* where main() is
    status,      \* "running", or how the process ended
    options,     \* Sv2TemplateProviderOptions
    tp,          \* the Sv2TemplateProvider: its life cycle and its options
    handlers,    \* the signals HandleSIGTERM is registered for
    g_interrupt

vars == <<args, pc, status, options, tp, handlers, g_interrupt>>

Labels == {"parse", "config", "help", "datadir", "logging", "sv2options",
           "connect", "start", "sigterm", "sigint", "loop", "interrupt",
           "stop", "reset", "return", "done"}

TpStates == {"none", "started", "interrupted", "stopped", "destroyed"}

Goto(label) == pc' = label

\* return EXIT_SUCCESS or EXIT_FAILURE: the objects of main() are destroyed.
Exit(code) ==
    /\ status' = code
    /\ Goto("done")
    /\ tp' = IF tp.state = "none" THEN tp ELSE [tp EXCEPT !.state = "destroyed"]

\* A step of main() that only goes on or fails.
Check(from, to) ==
    /\ status = "running"
    /\ pc = from
    /\ \/ Goto(to) /\ UNCHANGED <<status, tp>>
       \/ Exit("failure")
    /\ UNCHANGED <<args, options, handlers, g_interrupt>>

-----------------------------------------------------------------------------
(* main() *)

ParseParameters == Check("parse", "config")

ReadConfigFiles == Check("config", "help")

\* -help and -version print and leave.
HelpRequested ==
    /\ status = "running"
    /\ pc = "help"
    /\ \/ Exit("success")
       \/ Goto("datadir") /\ UNCHANGED <<status, tp>>
    /\ UNCHANGED <<args, options, handlers, g_interrupt>>

CheckDataDirOption == Check("datadir", "logging")

\* SetLoggingCategories, SetLoggingLevel and StartLogging.
StartLogging == Check("logging", "sv2options")

\* static_cast<uint16_t> of the int64_t GetIntArg returns.
Uint16(n) == n % 65536

\* Mutation: the port is kept as GetIntArg returns it.
PortOption_Unchecked(requested) == requested

\* options.port before -sv2bind is looked at.
PortOption(requested) == Uint16(requested)

\* Mutation: -sv2interval is refused only when it is negative.
IntervalUsable_AllowsZero(interval) == ~(interval < 0)

IntervalUsable(interval) == ~(interval < 1)

\* Mutation: the port of -sv2bind is parsed and then dropped.
BoundPort_IgnoresBind(port, bind) == port

\* SplitHostPort writes the port only when -sv2bind names one.
BoundPort(port, bind) == IF bind \in {Unset, NoPort} THEN port ELSE bind

ParseSv2Options ==
    /\ status = "running"
    /\ pc = "sv2options"
    /\ LET port == PortOption(IF args.sv2port = Unset THEN DefaultPort
                                                      ELSE args.sv2port)
           fee_delta == IF args.sv2feedelta = Unset THEN DefaultFeeDelta
                                                    ELSE args.sv2feedelta
           interval == IF args.sv2interval = Unset THEN DefaultInterval
                                                   ELSE args.sv2interval
       IN  \/ /\ args.sv2bind # BadPort
              /\ IntervalUsable(interval)
              /\ options' = [port |-> BoundPort(port, args.sv2bind),
                             fee_delta |-> fee_delta,
                             fee_check_interval |-> interval]
              /\ Goto("connect")
              /\ UNCHANGED <<status, tp>>
           \/ /\ args.sv2bind = BadPort \/ ~IntervalUsable(interval)
              /\ Exit("failure")
              /\ UNCHANGED options
    /\ UNCHANGED <<args, handlers, g_interrupt>>

\* connectAddress throws when no node listens; makeMining on success.
ConnectNode == Check("connect", "start")

\* The Template Provider is made and started; it does not start when it
\* cannot listen on options.port.
StartTp ==
    /\ status = "running"
    /\ pc = "start"
    /\ \/ /\ tp' = [state |-> "started", options |-> options]
          /\ Goto("sigterm")
          /\ UNCHANGED status
       \/ /\ status' = "failure"
          /\ Goto("done")
          /\ tp' = [tp EXCEPT !.state = "destroyed"]
    /\ UNCHANGED <<args, options, handlers, g_interrupt>>

registerSignalHandler(from, signal, to) ==
    /\ status = "running"
    /\ pc = from
    /\ handlers' = handlers \cup {signal}
    /\ Goto(to)
    /\ UNCHANGED <<args, status, options, tp, g_interrupt>>

RegisterSIGTERM == registerSignalHandler("sigterm", "SIGTERM", "sigint")

RegisterSIGINT == registerSignalHandler("sigint", "SIGINT", "loop")

\* Mutation: main() stops the threads before it interrupts them.
LeaveLoop_StopsFirst ==
    /\ status = "running"
    /\ pc = "loop"
    /\ g_interrupt
    /\ Goto("stop")
    /\ UNCHANGED <<args, status, options, tp, handlers, g_interrupt>>

\* while (!g_interrupt) sleeps; the iteration that reads true leaves.
LeaveLoop ==
    /\ status = "running"
    /\ pc = "loop"
    /\ g_interrupt
    /\ Goto("interrupt")
    /\ UNCHANGED <<args, status, options, tp, handlers, g_interrupt>>

TpInterrupt ==
    /\ status = "running"
    /\ pc = "interrupt"
    /\ tp' = [tp EXCEPT !.state = "interrupted"]
    /\ Goto("stop")
    /\ UNCHANGED <<args, status, options, handlers, g_interrupt>>

\* StopThreads joins the threads of the Template Provider, which end only
\* once they are interrupted.
TpStopThreads ==
    /\ status = "running"
    /\ pc = "stop"
    /\ tp.state = "interrupted"
    /\ tp' = [tp EXCEPT !.state = "stopped"]
    /\ Goto("reset")
    /\ UNCHANGED <<args, status, options, handlers, g_interrupt>>

TpReset ==
    /\ status = "running"
    /\ pc = "reset"
    /\ tp' = [tp EXCEPT !.state = "destroyed"]
    /\ Goto("return")
    /\ UNCHANGED <<args, status, options, handlers, g_interrupt>>

Return ==
    /\ status = "running"
    /\ pc = "return"
    /\ Exit("success")
    /\ UNCHANGED <<args, options, handlers, g_interrupt>>

-----------------------------------------------------------------------------
(* Signals *)

HandleSIGTERM(signal) ==
    /\ status = "running"
    /\ signal \in handlers
    /\ g_interrupt' = TRUE
    /\ UNCHANGED <<args, pc, status, options, tp, handlers>>

\* A signal nobody handles ends the process where it stands.
DefaultAction(signal) ==
    /\ status = "running"
    /\ signal \notin handlers
    /\ status' = "killed"
    /\ UNCHANGED <<args, pc, options, tp, handlers, g_interrupt>>

-----------------------------------------------------------------------------

Args == [sv2port : PortArgs \cup {Unset}, sv2bind : BindArgs \cup {Unset},
         sv2feedelta : FeeDeltaArgs \cup {Unset},
         sv2interval : IntervalArgs \cup {Unset}]

Init ==
    /\ args \in Args
    /\ pc = "parse"
    /\ status = "running"
    /\ options = [port |-> 0, fee_delta |-> DefaultFeeDelta,
                  fee_check_interval |-> DefaultInterval]
    /\ tp = [state |-> "none", options |-> options]
    /\ handlers = {}
    /\ g_interrupt = FALSE

Main ==
    \/ ParseParameters \/ ReadConfigFiles \/ HelpRequested
    \/ CheckDataDirOption \/ StartLogging \/ ParseSv2Options
    \/ ConnectNode \/ StartTp \/ RegisterSIGTERM \/ RegisterSIGINT
    \/ LeaveLoop \/ TpInterrupt \/ TpStopThreads \/ TpReset \/ Return

Signal == \E signal \in Signals : HandleSIGTERM(signal) \/ DefaultAction(signal)

Next == Main \/ Signal

\* The main thread is scheduled: a step of main() that can be taken is taken.
Fairness == WF_vars(Main)

Spec == Init /\ [][Next]_vars /\ Fairness

-----------------------------------------------------------------------------

Sv2TemplateProviderOptions ==
    [port : Ports, fee_delta : Int, fee_check_interval : Int]

\* The type of the state of main(): the options fit their C++ types, the
\* port a uint16_t.
TypeOK ==
    /\ args \in Args
    /\ pc \in Labels
    /\ status \in {"running", "success", "failure", "killed"}
    /\ options \in Sv2TemplateProviderOptions
    /\ tp \in [state : TpStates, options : Sv2TemplateProviderOptions]
    /\ handlers \subseteq Signals
    /\ g_interrupt \in BOOLEAN

-----------------------------------------------------------------------------
(* Properties *)

Serving == tp.state \in {"started", "interrupted", "stopped"}

\* What main() hands to Sv2TemplateProvider::Start is usable however the
\* options combine: a Template Provider that serves checks the fees at an
\* interval of at least one second, and listens on the port of -sv2bind when
\* -sv2bind names one, whatever -sv2port says.
StartedAsConfigured ==
    Serving =>
        /\ tp.options.fee_check_interval >= 1
        /\ args.sv2bind \notin {Unset, NoPort, BadPort}
              => tp.options.port = args.sv2bind

\* Once HandleSIGTERM is registered for both signals, a signal it caught
\* ends the process with EXIT_SUCCESS: the loop of main() sees g_interrupt,
\* and Interrupt, StopThreads and the destructor run in an order in which
\* none of them waits for another.
CaughtSignalExits ==
    (g_interrupt /\ handlers = Signals) ~> (status = "success")

\* The help text of -sv2port says "Listen for Stratum v2 connections on
\* <port>": a Template Provider started with -sv2port and no port in
\* -sv2bind listens on the port the command line gives.
ListensOnSv2Port ==
    (Serving /\ args.sv2port # Unset /\ args.sv2bind \in {Unset, NoPort})
        => tp.options.port = args.sv2port

=============================================================================
