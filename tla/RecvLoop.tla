------------------------------ MODULE RecvLoop ------------------------------
(***************************************************************************)
(* The fragment-tolerant receive loops of the tests:                       *)
(* TPTester::PeerReceiveBytes (src/test/sv2_tp_tester.cpp 126-178) and     *)
(* Sv2TestAccumulateRecv (the handshake test utility, 80-127), with the    *)
(* methods of TPTester that send to the Template Provider and wait for     *)
(* its answer: handshake, receiveMessage, SendPeerBytes (107-116,          *)
(* 180-208).                                                               *)
(*                                                                         *)
(* The test thread polls the send pipe of the socket the Template Provider *)
(* writes to and feeds what it reads to a receiver, until the receiver     *)
(* says that a message is complete or a timeout has passed.  The Template  *)
(* Provider writes from its own thread, in fragments of any size, and the  *)
(* steady clock advances by itself.  Bytes are counted, not told apart: a  *)
(* pipe keeps their order.                                                 *)
(*                                                                         *)
(* The module holds the state and the steps of a connection; TPTester      *)
(* puts them between the construction and the destruction of the tester.   *)
(***************************************************************************)
EXTENDS Integers, FiniteSetsExt

CONSTANTS
    MsgLen,    \* the bytes that complete the message the receiver waits for
    Replies,   \* the bytes the Template Provider answers a message with
    MaxRecv,   \* bound: messages waiting in the recv pipe
    BufSize,   \* sizeof(buf)
    TIMEOUT,   \* the timeout of the loop, in ticks of the clock
    MaxWrite,  \* bound: the bytes the Template Provider writes
    MaxTime    \* bound: the clock stops here; a call starts early enough
               \* for its timeout to pass before

VARIABLES
    pipe,      \* the bytes in m_current_client_pipes->send
    eof,       \* the pipe's end-of-file flag
    written,   \* the bytes the Template Provider has written
    clock,     \* std::chrono::steady_clock::now()
    loop,      \* the call of the test thread
    received,  \* the bytes the receiver holds of the message it waits for
    m_peer_transport,  \* the send state of the peer's transport
    recv,      \* the messages in m_current_client_pipes->recv
    owed       \* the bytes the Template Provider has still to write

vars == <<pipe, eof, written, clock, loop, received, m_peer_transport, recv,
          owed>>
pipeVars == <<pipe, eof, written>>
peerVars == <<m_peer_transport, recv, owed>>

Functions == {"PeerReceiveBytes", "Sv2TestAccumulateRecv"}
Idle == [pc |-> "idle"]
Running == loop.pc \in {"poll", "got"}
Ended == loop.pc \in {"returned", "failed"}

-----------------------------------------------------------------------------
(* The pipe and the receiver *)

EAGAIN == -1

\* DynSock::Pipe::GetBytes without MSG_PEEK: what it returns for len bytes.
GetBytes(len) ==
    IF pipe > 0 THEN Min({pipe, len}) ELSE IF eof THEN 0 ELSE EAGAIN

\* ReceivedBytes: true when the fragment completes the message.
ReceivedBytes(n) == received + n >= MsgLen

\* now() - start > timeout
TimedOut == clock - loop.start > TIMEOUT

-----------------------------------------------------------------------------
(* The loop *)

\* The entry of a loop: start, total.
Enter(fn, allow_zero_first) ==
    /\ loop = Idle
    /\ clock + TIMEOUT < MaxTime                         \* bound
    /\ loop' = [pc |-> "poll", fn |-> fn, allow_zero_first |-> allow_zero_first,
                start |-> clock, total |-> 0, n |-> 0, taken |-> 0,
                why |-> "none"]
    /\ received' = 0

\* A test calls a loop on the pipes of its connection.
Call(fn, allow_zero_first) ==
    /\ m_peer_transport # "none"
    /\ Enter(fn, allow_zero_first)
    /\ UNCHANGED <<pipeVars, clock, peerVars>>

\* SendPeerBytes: what the transport has to send goes to the recv pipe.
SendPeerBytes ==
    /\ recv < MaxRecv                                    \* bound
    /\ recv' = recv + 1

\* handshake: a new transport, new pipes for the socket the Template
\* Provider is to accept, the first part of the handshake sent, and the
\* loop for the second part.
handshake ==
    /\ pipe' = 0
    /\ eof' = FALSE
    /\ written' = 0
    /\ recv' = 1
    /\ owed' = 0
    /\ m_peer_transport' = "handshake"
    /\ Enter("PeerReceiveBytes", FALSE)
    /\ UNCHANGED clock

\* receiveMessage: BOOST_REQUIRE(SetMessageToSend) fails the test unless
\* the transport is ready to send.
receiveMessage ==
    /\ loop = Idle
    /\ m_peer_transport # "none"
    /\ IF m_peer_transport = "ready"
       THEN SendPeerBytes /\ UNCHANGED loop
       ELSE /\ loop' = [pc |-> "failed", why |-> "require"]
            /\ UNCHANGED recv
    /\ UNCHANGED <<pipeVars, clock, received, m_peer_transport, owed>>

\* Mutation: the read leaves the bytes in the pipe, as with MSG_PEEK.
Poll_Peek ==
    /\ loop.pc = "poll"
    /\ loop' = [loop EXCEPT !.pc = "got", !.n = GetBytes(BufSize),
                            !.taken = @ + Max({GetBytes(BufSize), 0})]
    /\ UNCHANGED <<pipe, eof, written, clock, received, peerVars>>

\* The non-blocking read at the head of the loop.
Poll ==
    /\ loop.pc = "poll"
    /\ LET n == GetBytes(BufSize)
       IN  /\ loop' = [loop EXCEPT !.pc = "got", !.n = n,
                                   !.taken = @ + Max({n, 0})]
           /\ pipe' = pipe - Max({n, 0})
    /\ UNCHANGED <<eof, written, clock, received, peerVars>>

Fail(why) == loop' = [loop EXCEPT !.pc = "failed", !.why = why]
Return(total) == loop' = [loop EXCEPT !.pc = "returned", !.total = total]

\* Mutation: the loop polls again without looking at the clock.
PollAgain_NoTimeout(total) == loop' = [loop EXCEPT !.pc = "poll", !.total = total]

\* The end of an iteration: the timeout check, the sleep, the next poll.
PollAgain(total) ==
    IF TimedOut THEN Fail("timeout")
    ELSE loop' = [loop EXCEPT !.pc = "poll", !.total = total]

\* n == -1 && errno == EAGAIN
NoData ==
    /\ loop.pc = "got"
    /\ loop.n = EAGAIN
    /\ PollAgain(loop.total)
    /\ UNCHANGED <<pipe, eof, written, clock, received, peerVars>>

\* n == 0: fatal before the first byte, unless Sv2TestAccumulateRecv was
\* told to allow it; after the first byte the loop goes on.
ZeroRead ==
    /\ loop.pc = "got"
    /\ loop.n = 0
    /\ IF loop.total > 0 THEN PollAgain(loop.total)
       ELSE IF loop.fn = "Sv2TestAccumulateRecv" /\ loop.allow_zero_first
            THEN Return(0)
            ELSE Fail("zero")
    /\ UNCHANGED <<pipe, eof, written, clock, received, peerVars>>

\* Mutation: the fragment that completes the message is not counted.
Total_BeforeFragment(n) == IF ReceivedBytes(n) THEN loop.total ELSE loop.total + n

\* total += n
Total(n) == loop.total + n

\* Mutation: the timeout is checked before the answer of the receiver.
AfterFragment_TimeoutFirst(done, total) ==
    IF TimedOut THEN Fail("timeout")
    ELSE IF done THEN Return(total)
    ELSE loop' = [loop EXCEPT !.pc = "poll", !.total = total]

\* if (done) return total; and the end of the iteration
AfterFragment(done, total) ==
    IF done THEN Return(total) ELSE PollAgain(total)

\* n > 0: the fragment goes to the receiver; the loop returns when the
\* receiver is done, and the second part of the handshake leaves the
\* transport ready to send.
Fragment ==
    /\ loop.pc = "got"
    /\ loop.n > 0
    /\ received' = received + loop.n
    /\ AfterFragment(ReceivedBytes(loop.n), Total(loop.n))
    /\ m_peer_transport' = IF ReceivedBytes(loop.n) THEN "ready"
                                                    ELSE m_peer_transport
    /\ UNCHANGED <<pipe, eof, written, clock, recv, owed>>

\* The caller goes on after a return; BOOST_FAIL ends the test.
Continue ==
    /\ loop.pc = "returned"
    /\ loop' = Idle
    /\ UNCHANGED <<pipe, eof, written, clock, received, peerVars>>

TestThread ==
    \/ handshake
    \/ receiveMessage
    \/ \E fn \in Functions, allow_zero_first \in BOOLEAN :
          /\ fn = "PeerReceiveBytes" => ~allow_zero_first
          /\ Call(fn, allow_zero_first)
    \/ Poll
    \/ NoData
    \/ ZeroRead
    \/ Fragment
    \/ Continue

-----------------------------------------------------------------------------
(* The Template Provider and the clock *)

\* Recv on the accepted socket: a message of the peer, and what the
\* Template Provider answers it with.
Read ==
    /\ ~eof
    /\ recv > 0
    /\ recv' = recv - 1
    /\ \E reply \in Replies :
         /\ written + owed + reply <= MaxWrite           \* bound
         /\ owed' = owed + reply
    /\ UNCHANGED <<pipeVars, clock, loop, received, m_peer_transport>>

\* Send on the accepted socket: some bytes of what there is to send.
Write(k) ==
    /\ ~eof
    /\ k <= owed
    /\ owed' = owed - k
    /\ written' = written + k
    /\ pipe' = pipe + k
    /\ UNCHANGED <<eof, clock, loop, received, m_peer_transport, recv>>

\* The Template Provider closes the connection.
Close ==
    /\ m_peer_transport # "none"
    /\ ~eof
    /\ eof' = TRUE
    /\ UNCHANGED <<pipe, written, clock, loop, received, peerVars>>

Tick ==
    /\ clock < MaxTime
    /\ clock' = clock + 1
    /\ UNCHANGED <<pipeVars, loop, received, peerVars>>

\* A tester without a connection: no pipes, no transport, no call.
Unconnected ==
    /\ pipe = 0
    /\ eof = FALSE
    /\ written = 0
    /\ loop = Idle
    /\ received = 0
    /\ m_peer_transport = "none"
    /\ recv = 0
    /\ owed = 0

TemplateProvider == Read \/ (\E k \in 1..MaxWrite : Write(k)) \/ Close

-----------------------------------------------------------------------------

\* The type of the state; a loop has taken no more than what was written
\* and is not in the pipe any more (GetBytes without MSG_PEEK).
TypeOK ==
    /\ pipe \in 0..MaxWrite
    /\ eof \in BOOLEAN
    /\ written \in 0..MaxWrite
    /\ clock \in 0..MaxTime
    /\ received \in 0..MaxWrite
    /\ m_peer_transport \in {"none", "handshake", "ready"}
    /\ recv \in 0..MaxRecv
    /\ owed \in 0..MaxWrite
    /\ loop.pc \in {"idle", "poll", "got", "returned", "failed"}
    /\ loop.pc \in {"poll", "got", "returned"} =>
         /\ loop.fn \in Functions
         /\ loop.start \in 0..MaxTime
         /\ loop.total \in 0..MaxWrite
         /\ loop.n \in -1..BufSize
         /\ loop.taken \in 0..(written - pipe)
         /\ loop.why \in {"none", "timeout", "zero"}

\* What a loop returns is the number of bytes it took from the pipe, all of
\* them passed to the receiver, over however many polls and fragments; and
\* it returns bytes only when they complete the message.  Bytes the
\* Template Provider wrote and the loop did not take are still in the pipe
\* for the next call.
ReturnsWhatItTook ==
    /\ loop.pc = "returned" =>
         /\ loop.total = loop.taken
         /\ loop.total = received
         /\ loop.total > 0 => received >= MsgLen
    /\ loop.pc \in {"poll", "failed"} => loop.taken = received

\* A loop fails for a timeout only when the message is not complete: a
\* fragment that completes the message after the deadline still returns.
NoTimeoutWithMessage ==
    (loop.pc = "failed" /\ loop.why = "timeout") => received < MsgLen

\* Every call of a loop ends, by a return or by a failure of the test,
\* whatever the Template Provider writes and whenever it stops writing.
LoopEnds == Running ~> Ended

=============================================================================
