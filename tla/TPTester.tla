------------------------------ MODULE TPTester ------------------------------
(***************************************************************************)
(* The life of a TPTester (src/test/sv2_tp_tester.cpp 38-105): the         *)
(* constructor starts the thread of the IPC event loop, waits until the    *)
(* loop is published, serves and connects the stream between MockInit and  *)
(* its client, fetches the Mining proxy and starts the Template Provider;  *)
(* the test runs the steps of RecvLoop; the destructor takes a reference   *)
(* to the loop, destroys what it built and joins the thread.  A test case  *)
(* builds one tester after the other.                                      *)
(*                                                                         *)
(* Of the event loop the module assumes what the destructor's comments     *)
(* say: the loop returns when its references and its connections have      *)
(* reached zero, and work posted to it needs it alive.                     *)
(***************************************************************************)
EXTENDS RecvLoop

CONSTANT ITERS  \* bound: the testers a test case builds

VARIABLES
    tester,         \* the statement the test thread is at
    m_loop,         \* the pointer to the loop, a local of the loop thread
    m_loop_thread,  \* the state of the thread
    refs,           \* the EventLoopRefs held
    connections,    \* the ends of the IPC stream the loop serves
    objects,        \* the members that hold an object
    built           \* the testers built so far

lifeVars == <<tester, m_loop, m_loop_thread, refs, connections, objects, built>>
connVars == <<pipeVars, loop, received, peerVars>>
allVars == <<vars, lifeVars>>

Constructing == {"wait", "socketpair", "serve", "connect", "makeMining", "start"}
Destructing == {"ref", "tp", "proxy", "client", "server", "unref", "join"}

\* The statements that dereference m_loop or post work to the loop.
UsesLoop == {"serve", "connect", "makeMining", "ref", "tp", "proxy", "client"}

\* The loop runs and has not been told to return.
Alive == m_loop = "loop" /\ m_loop_thread = "looping"

\* The thread after a reference or a connection is gone: with none left the
\* loop is woken to return.
AfterRelease(r, c) ==
    IF m_loop_thread = "looping" /\ r = 0 /\ c = {} THEN "returning"
    ELSE m_loop_thread

Step(from, to) == tester = from /\ tester' = to

\* A statement that changes nothing of the loop and of the members.
Goto(from, to) ==
    /\ Step(from, to)
    /\ UNCHANGED <<vars, m_loop, m_loop_thread, refs, connections, objects, built>>

-----------------------------------------------------------------------------
(* The constructor *)

\* The thread is started with the loop still to be made.
Construct ==
    /\ built < ITERS                                     \* bound
    /\ Step("none", "wait")
    /\ built' = built + 1
    /\ m_loop_thread' = "started"
    /\ UNCHANGED <<vars, m_loop, refs, connections, objects>>

\* Mutation: the constructor goes on without waiting for loop_ready.
WaitReady_NoWait == Goto("wait", "socketpair")

\* loop_ready.get_future().wait()
WaitReady == m_loop # "nullptr" /\ Goto("wait", "socketpair")

\* A BOOST_REQUIRE that fails: its exception leaves the constructor with
\* m_loop_thread joinable, and the destructor of a joinable std::thread
\* calls std::terminate.
Throws(from) == Goto(from, "terminated")

\* socketpair and BOOST_REQUIRE_EQUAL(rc, 0).
Socketpair ==
    \E rc \in {0, -1} :
        IF rc = 0 THEN Goto("socketpair", "serve") ELSE Throws("socketpair")

\* A member is given its object; a stream end is served by the loop.
Make(from, to, member, ends) ==
    /\ Step(from, to)
    /\ objects' = objects \cup {member}
    /\ connections' = connections \cup ends
    /\ UNCHANGED <<vars, m_loop, m_loop_thread, refs, built>>

\* MockInit, and ServeStream on the thread of the loop (m_loop->sync).
ServeStream == Make("serve", "connect", "m_server_init", {"server"})

\* ConnectStream: the client of Init owns the other end of the stream, or
\* there is no client.
ConnectStream ==
    \/ Make("connect", "makeMining", "m_client_init", {"client"})
    \/ Throws("connect")

makeMining ==
    \/ Make("makeMining", "start", "m_mining_proxy", {})
    \/ Throws("makeMining")

\* The Template Provider on the proxy, CreateSock, Start: its threads run,
\* or Start answers false.
Start ==
    \/ Make("start", "up", "m_tp", {})
    \/ Throws("start")

-----------------------------------------------------------------------------
(* The destructor *)

\* The tester leaves its scope, at the end of the test or with the
\* exception of a failed requirement.
Destruct == loop.pc \in {"idle", "failed"} /\ Goto("up", "ref")

\* mp::EventLoopRef loop_ref{*m_loop}
TakeRef ==
    /\ Step("ref", "tp")
    /\ refs' = refs + 1
    /\ UNCHANGED <<vars, m_loop, m_loop_thread, connections, objects, built>>

\* member.reset(): the object is destroyed and closes the ends it owns.
Reset(from, to, member, ends) ==
    /\ Step(from, to)
    /\ objects' = objects \ {member}
    /\ connections' = connections \ ends
    /\ m_loop_thread' = AfterRelease(refs, connections')
    /\ UNCHANGED <<vars, m_loop, refs, built>>

ResetTp == Reset("tp", "proxy", "m_tp", {})
ResetMiningProxy == Reset("proxy", "client", "m_mining_proxy", {})
ResetClientInit == Reset("client", "server", "m_client_init", {"client"})

\* The server owns exported capabilities only.
ResetServerInit == Reset("server", "unref", "m_server_init", {})

\* Mutation: the reference outlives the join.
ReleaseRef_Kept == Goto("unref", "join")

\* The end of the scope of loop_ref.
ReleaseRef ==
    /\ Step("unref", "join")
    /\ refs' = refs - 1
    /\ m_loop_thread' = AfterRelease(refs', connections)
    /\ UNCHANGED <<vars, m_loop, connections, objects, built>>

\* m_loop_thread.join(), and the members of the tester are gone.
Join ==
    /\ m_loop_thread = "exited"
    /\ Step("join", "none")
    /\ m_loop_thread' = "none"
    /\ m_loop' = "nullptr"
    /\ pipe' = 0 /\ eof' = FALSE /\ written' = 0
    /\ loop' = Idle /\ received' = 0
    /\ m_peer_transport' = "none" /\ recv' = 0 /\ owed' = 0
    /\ UNCHANGED <<clock, refs, connections, objects, built>>

-----------------------------------------------------------------------------
(* The loop thread *)

\* The body of the thread, up to loop.loop(): the loop is made and m_loop
\* points to it before loop_ready is set.
LoopThreadStart ==
    /\ m_loop_thread = "started"
    /\ m_loop_thread' = "looping"
    /\ m_loop' = "loop"
    /\ UNCHANGED <<vars, tester, refs, connections, objects, built>>

\* The loop sees that the client has closed its end of the stream (an end
\* without a peer before ConnectStream is waiting for it), and drops its own.
Disconnected ==
    /\ m_loop_thread = "looping"
    /\ "m_client_init" \notin objects /\ tester \in Destructing
    /\ "server" \in connections
    /\ connections' = connections \ {"server"}
    /\ m_loop_thread' = AfterRelease(refs, connections')
    /\ UNCHANGED <<vars, tester, m_loop, refs, objects, built>>

\* loop.loop() returns, the loop is destroyed and the thread ends.
LoopReturns ==
    /\ m_loop_thread = "returning"
    /\ m_loop_thread' = "exited"
    /\ m_loop' = "dangling"
    /\ UNCHANGED <<vars, tester, refs, connections, objects, built>>

-----------------------------------------------------------------------------

Init ==
    /\ Unconnected
    /\ clock = 0
    /\ tester = "none"
    /\ m_loop = "nullptr"
    /\ m_loop_thread = "none"
    /\ refs = 0
    /\ connections = {}
    /\ objects = {}
    /\ built = 0

Constructor ==
    \/ Construct \/ WaitReady \/ Socketpair \/ ServeStream \/ ConnectStream
    \/ makeMining \/ Start

Destructor ==
    \/ TakeRef \/ ResetTp \/ ResetMiningProxy \/ ResetClientInit
    \/ ResetServerInit \/ ReleaseRef \/ Join

LoopThread == LoopThreadStart \/ Disconnected \/ LoopReturns

\* The steps of the test between the constructor and the destructor.
Test == tester = "up" /\ TestThread /\ UNCHANGED lifeVars

\* The threads of the Template Provider, for as long as it exists.
Provider == "m_tp" \in objects /\ TemplateProvider /\ UNCHANGED lifeVars

Next ==
    \/ Constructor \/ Test \/ Destruct \/ Destructor
    \/ LoopThread
    \/ Provider
    \/ Tick /\ UNCHANGED lifeVars

Spec == Init /\ [][Next]_allVars

\* A thread that can run does: the test thread inside a loop, the
\* constructor and the destructor, and the loop thread; and time passes.
FairSpec ==
    /\ Spec
    /\ WF_allVars((Poll \/ NoData \/ ZeroRead \/ Fragment) /\ UNCHANGED lifeVars)
    /\ WF_allVars((Constructor /\ tester # "none") \/ Destructor)
    /\ WF_allVars(LoopThread)
    /\ WF_allVars(Tick /\ UNCHANGED lifeVars)

-----------------------------------------------------------------------------

\* The type of the state of a tester and of its connection.
TesterTypeOK ==
    /\ TypeOK
    /\ tester \in {"none", "up", "terminated"} \cup Constructing \cup Destructing
    /\ m_loop \in {"nullptr", "loop", "dangling"}
    /\ m_loop_thread \in {"none", "started", "looping", "returning", "exited"}
    /\ refs \in 0..1
    /\ connections \subseteq {"server", "client"}
    /\ objects \subseteq {"m_server_init", "m_client_init", "m_mining_proxy", "m_tp"}
    /\ built \in 0..ITERS

\* Whenever the test thread is about to dereference m_loop or to post work
\* to the loop (m_loop->sync, ConnectStream, makeMining, the EventLoopRef
\* of the destructor, the destruction of the Template Provider and of the
\* proxies), m_loop points to a loop that runs: the loop thread has
\* published it, and it has not returned, although it returns by itself
\* and m_loop is never cleared.
LoopAliveWhenUsed == tester \in UsesLoop => Alive

\* A constructor that was entered ends, and a destructor that was entered
\* returns from the join of the loop thread with nothing of the tester
\* left: the loop returns once the destructor has let go of its reference
\* and of the stream.
LifecycleCompletes ==
    /\ tester \in Constructing ~> tester \in {"up", "terminated"}
    /\ tester \in Destructing ~>
         (tester = "none" /\ m_loop_thread = "none" /\ objects = {}
            /\ refs = 0 /\ connections = {})

=============================================================================
