------------------------------ MODULE FuzzedSock ------------------------------
(***************************************************************************)
(* FuzzedSock of src/test/fuzz/util/net.cpp: the socket the fuzz targets   *)
(* give to the Template Provider in place of a real one.  Every answer of  *)
(* a FuzzedSock is taken from a FuzzedDataProvider all sockets of a fuzz   *)
(* iteration share, and every socket sets the one mocked steady clock.     *)
(*                                                                         *)
(* The provider is abstracted to the number of input bytes it has left     *)
(* (fuel) and a choice of the values those bytes stand for; a provider     *)
(* without input answers false, the least value of a range, no bytes.      *)
(* A byte is a member of Bytes, an errno its name.                         *)
(***************************************************************************)
EXTENDS Integers, Sequences, FiniteSets, SequencesExt

CONSTANTS
    Socks,          \* the FuzzedSock objects there may be
    Bytes,          \* the values of a byte; 0 is one of them
    MaxFuel,        \* bound: input bytes of the FuzzedDataProvider
    MaxLen,         \* bound: the len a caller passes
    Timeouts,       \* the timeouts a caller waits with
    MaxTime,        \* bound: the mocked steady clock
    SockaddrSize,   \* sizeof(sockaddr)
    NoErrno         \* errno of a process no call of which has failed

ASSUME
    /\ 0 \in Bytes
    /\ MaxFuel \in Nat /\ MaxLen \in Nat /\ MaxTime \in Nat
    /\ Timeouts \subseteq Nat
    /\ SockaddrSize \in 1..MaxLen

VARIABLES
    fuel,       \* m_fuzzed_data_provider: the input bytes it has left
    socks,      \* the sockets alive: m_selectable, m_time, m_peek_data
    clock,      \* MockableSteadyClock
    r,          \* the last call: its return value, the errno it set, and
                \* errno of the process after it
    hist        \* per socket, history: generated, delivered, shown

vars == <<fuel, socks, clock, r, hist>>

INITIAL_MOCK_TIME == 0

Temporary == {"EAGAIN", "EINTR", "EWOULDBLOCK", "EINPROGRESS"}

-----------------------------------------------------------------------------
(* FuzzedDataProvider: each operator is the set of [v, f], a value and the *)
(* input left after it was taken.                                          *)

ConsumeBool(f) ==
    IF f = 0 THEN {[v |-> FALSE, f |-> 0]}
             ELSE {[v |-> b, f |-> f - 1] : b \in BOOLEAN}

ConsumeIntegralInRange(f, lo, hi) ==
    IF f = 0 \/ lo = hi THEN {[v |-> lo, f |-> f]}
                        ELSE {[v |-> n, f |-> f - 1] : n \in lo..hi}

\* At most max bytes; the end of a shorter vector takes a byte of input too.
ConsumeRandomLengthByteVector(f, max) ==
    {[v |-> bytes, f |-> f - Max({Len(bytes), Min({1, f})})] :
        bytes \in BoundedSeq(Bytes, Min({max, f}))}

\* Exactly len bytes, zeros where the input ends; only what is taken counts.
ConsumeFixedLengthByteVector(f, len) == {[v |-> len, f |-> f - Min({len, f})]}

SetFuzzedErrNo(f, errnos) ==
    {[v |-> errnos[i.v + 1], f |-> i.f] :
        i \in ConsumeIntegralInRange(f, 0, Len(errnos) - 1)}

-----------------------------------------------------------------------------
(* The errno arrays *)

send_errnos ==
    <<"EACCES", "EAGAIN", "EALREADY", "EBADF", "ECONNRESET", "EDESTADDRREQ",
      "EFAULT", "EINTR", "EINVAL", "EISCONN", "EMSGSIZE", "ENOBUFS", "ENOMEM",
      "ENOTCONN", "ENOTSOCK", "EOPNOTSUPP", "EPIPE", "EWOULDBLOCK">>

\* Mutation: the array starts with an error a caller retries on.
recv_errnos_TemporaryFirst ==
    <<"EAGAIN", "ECONNREFUSED", "EBADF", "EFAULT", "EINTR", "EINVAL",
      "ENOMEM", "ENOTCONN", "ENOTSOCK", "EWOULDBLOCK">>

recv_errnos ==
    <<"ECONNREFUSED", "EAGAIN", "EBADF", "EFAULT", "EINTR", "EINVAL",
      "ENOMEM", "ENOTCONN", "ENOTSOCK", "EWOULDBLOCK">>

\* The methods that fail with one of their errnos or succeed, and no more.
errnos ==
    [Connect |-> <<"ECONNREFUSED", "EAGAIN", "ECONNRESET", "EHOSTUNREACH",
                   "EINPROGRESS", "EINTR", "ENETUNREACH", "ETIMEDOUT">>,
     Bind |-> <<"EACCES", "EADDRINUSE", "EADDRNOTAVAIL", "EAGAIN">>,
     Listen |-> <<"EADDRINUSE", "EINVAL", "EOPNOTSUPP">>,
     SetSockOpt |-> <<"ENOMEM", "ENOBUFS">>,
     SetNonBlocking |-> <<"EBADF", "EPERM">>]

accept_errnos == <<"ECONNABORTED", "EINTR", "ENOMEM">>
getsockopt_errnos == <<"ENOMEM", "ENOBUFS">>
getsockname_errnos == <<"ECONNRESET", "ENOBUFS">>
wait_errnos == <<"EBADF", "EINTR", "EINVAL">>

-----------------------------------------------------------------------------
(* Outcomes: [val, errno, f] and what a method adds to them; errno is    *)
(* NoErrno where the method returns without setting it.                    *)

Ok(val, f) == [val |-> val, errno |-> NoErrno, f |-> f]

Fail(f, errs) == {[val |-> -1, errno |-> e.v, f |-> e.f] : e \in SetFuzzedErrNo(f, errs)}

\* if (ConsumeBool()) { SetFuzzedErrNo(...); return -1; } and what follows.
FailOr(f, errs, Rest(_)) ==
    UNION {IF b.v THEN Fail(b.f, errs) ELSE Rest(b.f) : b \in ConsumeBool(f)}

Alive == DOMAIN socks

\* errno belongs to the process: a method that does not set it leaves what
\* an earlier call has set.
Returns(o) ==
    /\ fuel' = o.f
    /\ r' = [val |-> o.val, set |-> o.errno,
             errno |-> IF o.errno = NoErrno THEN r.errno ELSE o.errno]

\* ElapseTime: the socket's own time goes on and becomes the time of the
\* clock.
ElapseTime(s, duration) ==
    /\ socks[s].m_time + duration <= MaxTime        \* bound
    /\ socks' = [socks EXCEPT ![s].m_time = @ + duration]
    /\ clock' = socks[s].m_time + duration

NoHistory == [generated |-> <<>>, delivered |-> <<>>, shown |-> <<>>]

-----------------------------------------------------------------------------
(* The methods *)

\* The constructor, on the provider with f bytes left.
Construct(s, f) ==
    \E fd \in ConsumeIntegralInRange(f, 0, 1) :
    \E selectable \in ConsumeBool(fd.f) :
        /\ socks' = s :> [m_selectable |-> selectable.v,
                          m_time |-> INITIAL_MOCK_TIME,
                          m_peek_data |-> <<>>] @@ socks
        /\ clock' = INITIAL_MOCK_TIME
        /\ hist' = s :> NoHistory @@ hist
        /\ Returns(Ok(0, selectable.f))

Destroy(s) ==
    /\ s \in Alive
    /\ socks' = [t \in Alive \ {s} |-> socks[t]]
    /\ hist' = [t \in Alive \ {s} |-> hist[t]]
    /\ Returns(Ok(0, fuel))
    /\ UNCHANGED clock

Send(s, len) ==
    /\ s \in Alive
    /\ \E b \in ConsumeBool(fuel) :
         \/ b.v /\ Returns(Ok(len, b.f))
         \/ /\ ~b.v
            /\ \E n \in ConsumeIntegralInRange(b.f, -1, len) :
                 \/ n.v # -1 /\ Returns(Ok(n.v, n.f))
                 \/ n.v = -1 /\ \E o \in Fail(n.f, send_errnos) :
                                   Returns(o)
    /\ UNCHANGED <<socks, clock, hist>>

\* Mutation: the bytes copied out of m_peek_data are erased under MSG_PEEK too.
AfterCopy_AlwaysErases(peek_data, copy_len, peek) ==
    SubSeq(peek_data, copy_len + 1, Len(peek_data))

\* m_peek_data after its first copy_len bytes were copied to the caller.
AfterCopy(peek_data, copy_len, peek) ==
    IF peek THEN peek_data
            ELSE SubSeq(peek_data, copy_len + 1, Len(peek_data))

\* The ways Recv ends once it decided to deliver: the bytes the caller gets
\* (out), those of them that are data and not padding, those taken from the
\* provider now (fresh), what m_peek_data is afterwards (kept), the input
\* left (f).
Deliveries(peek_data, len, peek, f) ==
    LET copy_len == Min({len, Len(peek_data)})
        copied == SubSeq(peek_data, 1, copy_len)
        kept == AfterCopy(peek_data, copy_len, peek)
        End(out, fresh, f2) ==
            [out |-> out, fresh |-> fresh, data |-> copied \o fresh, f |-> f2,
             kept |-> IF peek THEN kept \o fresh ELSE kept]
    IN  IF copy_len = len
        THEN {End(copied, <<>>, f)}
        ELSE UNION {
            IF new.v = <<>> \/ copy_len + Len(new.v) = len
            THEN {End(copied \o new.v, new.v, new.f)}
            ELSE {IF stop.v
                  THEN End(copied \o new.v, new.v, stop.f)
                  ELSE End(copied \o new.v \o
                             [i \in 1..(len - copy_len - Len(new.v)) |-> 0],
                           new.v, stop.f) : stop \in ConsumeBool(new.f)}
            : new \in ConsumeRandomLengthByteVector(f, len - copy_len)}

\* What a peek has shown and no read has taken yet.
Shown(h, out, peek) ==
    IF peek THEN IF Len(out) > Len(h.shown) THEN out ELSE h.shown
            ELSE SubSeq(h.shown, Len(out) + 1, Len(h.shown))

Recv(s, len, peek) ==
    /\ s \in Alive
    /\ \E latency \in ConsumeBool(fuel) :
       \E early \in IF len = 0 THEN {[v |-> TRUE, f |-> latency.f]}
                               ELSE ConsumeBool(latency.f) :
         \/ /\ early.v
            /\ \E eof \in ConsumeBool(early.f) :
                 \/ eof.v /\ Returns(Ok(0, eof.f))
                 \/ ~eof.v /\ \E o \in Fail(eof.f, recv_errnos) :
                                 Returns(o)
            /\ UNCHANGED <<socks, hist>>
         \/ /\ ~early.v
            /\ \E d \in Deliveries(socks[s].m_peek_data, len, peek, early.f) :
                 /\ socks' = [socks EXCEPT ![s].m_peek_data = d.kept]
                 /\ hist' = [hist EXCEPT
                       ![s].generated = @ \o d.fresh,
                       ![s].delivered = IF peek THEN @ ELSE @ \o d.data,
                       ![s].shown = Shown(hist[s], d.out, peek)]
                 /\ Returns(Ok(Len(d.out), d.f))
    /\ UNCHANGED clock

\* Connect, Bind, Listen, SetSockOpt and SetNonBlocking.
FailOrSucceed(s, op) ==
    /\ s \in Alive
    /\ \E o \in FailOr(fuel, errnos[op], LAMBDA f : {Ok(0, f)}) : Returns(o)
    /\ UNCHANGED <<socks, clock, hist>>

\* Accept hands out a socket made from the same provider, or nothing.
Accept(s, new) ==
    /\ s \in Alive
    /\ new \notin Alive
    /\ \E b \in ConsumeBool(fuel) :
         \/ /\ b.v
            /\ \E o \in Fail(b.f, accept_errnos) : Returns(o)
            /\ UNCHANGED <<socks, clock, hist>>
         \/ ~b.v /\ Construct(new, b.f)

GetSockOpt(s, opt_len) ==
    /\ s \in Alive
    /\ \E o \in FailOr(fuel, getsockopt_errnos,
                       LAMBDA f : {Ok(0, f)} \cup
                           {Ok(0, v.f) : v \in ConsumeFixedLengthByteVector(f, opt_len)}) :
         Returns(o)
    /\ UNCHANGED <<socks, clock, hist>>

\* A name shorter than a sockaddr is refused with -1 and errno as an earlier
\* call left it; a provider without input has no bytes for a name.
GetSockName(s, name_len) ==
    /\ s \in Alive
    /\ \E o \in FailOr(fuel, getsockname_errnos,
                       LAMBDA f : {Ok(IF Len(bytes.v) < SockaddrSize THEN -1 ELSE 0,
                                      bytes.f) :
                                   bytes \in ConsumeRandomLengthByteVector(f, name_len)}) :
         Returns(o)
    /\ UNCHANGED <<socks, clock, hist>>

\* IsSelectable reads m_selectable and changes nothing.
IsSelectable(s) == socks[s].m_selectable

\* Wait fails, or tells whether the requested event occurred (val 1) or not
\* (val 0) once the timeout is over.
Wait(s, timeout, occurred) ==
    /\ s \in Alive
    /\ \E b \in ConsumeBool(fuel) :
         \/ /\ b.v
            /\ \E o \in Fail(b.f, wait_errnos) : Returns(o)
            /\ UNCHANGED <<socks, clock>>
         \/ /\ ~b.v
            /\ \E none \in IF occurred THEN ConsumeBool(b.f)
                                       ELSE {[v |-> FALSE, f |-> b.f]} :
                 Returns(Ok(IF none.v THEN 0 ELSE 1, none.f))
            /\ ElapseTime(s, timeout)
    /\ UNCHANGED hist

\* WaitMany asks the provider once for every socket of events_per_sock; val
\* is the number of sockets whose event occurred.
WaitMany(s, timeout, events_per_sock) ==
    /\ s \in Alive
    /\ events_per_sock \subseteq Alive
    /\ LET asked == Min({Cardinality(events_per_sock), fuel})
       IN  \E none \in 0..asked :
             Returns(Ok(Cardinality(events_per_sock) - none, fuel - asked))
    /\ ElapseTime(s, timeout)
    /\ UNCHANGED hist

IsConnected(s) ==
    /\ s \in Alive
    /\ \E b \in ConsumeBool(fuel) :
         Returns(Ok(IF b.v THEN 1 ELSE 0, b.f))
    /\ UNCHANGED <<socks, clock, hist>>

-----------------------------------------------------------------------------

\* A fuzz iteration makes its first socket from a provider with any input.
Init ==
    \E s \in Socks, f \in 0..MaxFuel :
    \E fd \in ConsumeIntegralInRange(f, 0, 1) :
    \E selectable \in ConsumeBool(fd.f) :
        /\ fuel = selectable.f
        /\ socks = s :> [m_selectable |-> selectable.v,
                         m_time |-> INITIAL_MOCK_TIME, m_peek_data |-> <<>>]
        /\ clock = INITIAL_MOCK_TIME
        /\ r = [val |-> 0, set |-> NoErrno, errno |-> NoErrno]
        /\ hist = s :> NoHistory

Next ==
    \E s \in Socks :
        \/ \E len \in 0..MaxLen : Send(s, len)
        \/ \E len \in 0..MaxLen, peek \in BOOLEAN : Recv(s, len, peek)
        \/ \E op \in DOMAIN errnos : FailOrSucceed(s, op)
        \/ \E new \in Socks : Accept(s, new)
        \/ \E len \in 0..MaxLen : GetSockOpt(s, len) \/ GetSockName(s, len)
        \/ \E timeout \in Timeouts :
              \/ \E occurred \in BOOLEAN : Wait(s, timeout, occurred)
              \/ \E events \in SUBSET Alive : WaitMany(s, timeout, events)
        \/ IsConnected(s)
        \/ Destroy(s)

Spec == Init /\ [][Next]_vars

-----------------------------------------------------------------------------

Errnos ==
    UNION {Range(e) : e \in {send_errnos, recv_errnos, accept_errnos,
                             getsockopt_errnos, getsockname_errnos, wait_errnos}}
    \cup UNION {Range(errnos[op]) : op \in DOMAIN errnos}

\* The type of the state: the fuel left, per living socket what it has
\* peeked and its mock time, and the result and errno of the last call.
TypeOK ==
    /\ fuel \in 0..MaxFuel
    /\ Alive \subseteq Socks
    /\ \A s \in Alive :
         /\ socks[s].m_selectable \in BOOLEAN
         /\ socks[s].m_time \in INITIAL_MOCK_TIME..MaxTime
         /\ socks[s].m_peek_data \in Seq(Bytes)
    /\ clock \in INITIAL_MOCK_TIME..MaxTime
    /\ r.val \in -1..Max({MaxLen, Cardinality(Socks)})
    /\ r.set \in Errnos \cup {NoErrno}
    /\ r.errno \in Errnos \cup {NoErrno}
    /\ DOMAIN hist = Alive

-----------------------------------------------------------------------------
(* Properties *)

\* FuzzedSock::Recv neither loses nor repeats a byte of the stream it makes
\* up, however reads with and without MSG_PEEK, of any length, alternate:
\* the bytes taken from the provider for a socket are the bytes its reads
\* have delivered, followed by the bytes m_peek_data still holds.
NoByteLostOrRepeated ==
    \A s \in Alive :
        hist[s].generated = hist[s].delivered \o socks[s].m_peek_data

\* "We want to avoid Recv() returning -1 and setting errno to EAGAIN
\* repeatedly", and the same of Connect, Bind and Listen: a method that
\* returns -1 and sets errno to an error its caller retries on has used up
\* input of the provider, so a caller that retries meets such an error at
\* most as often as the provider has bytes.  The property is about the
\* errno a method sets: GetSockName refuses a short name with -1 and sets
\* none, so its caller reads the error of an earlier call, temporary or
\* not, as often as it asks a provider without input.
TemporaryErrorsUseInput ==
    [][(r'.val = -1 /\ r'.set \in Temporary) => fuel' < fuel]_vars

\* "If MSG_PEEK is used, then our Recv() returns some random data as usual,
\* but on the next Recv() call we must return the same data, thus we
\* remember it here": what reads with MSG_PEEK have shown of a socket's
\* stream, and no read has taken, is in m_peek_data.
PeekedDataIsRemembered ==
    \A s \in Alive : hist[s].shown = socks[s].m_peek_data

\* ElapseTime "set[s] the value of the mocked steady clock such as that many
\* ms have passed": the steady clock is never set back, whichever socket of
\* the fuzz iteration sets it.
SteadyClockIsSteady ==
    [][clock' >= clock]_vars

=============================================================================
