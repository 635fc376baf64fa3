# sv2-tp: TLA+ models

Models of the Stratum v2 Template Provider repository (`sv2-tp`), checked with
TLC.  Every module is written from the source under `src/`, but for the core of the
Template Provider, which is written from the specification; `PROJECT.json`
maps each definition to the lines it models, lists the runs, the mutation used
to show that each property can fail, the findings and the hazards.

## The system

`sv2-tp` is a process that connects to a Bitcoin node over IPC, asks it for
block templates through the `Mining` interface and serves them to Stratum v2
clients over an encrypted connection.  The source tree holds

| part | source | what it does |
|---|---|---|
| process | `src/sv2-tp.cpp` | `main()`: options, IPC connection, start of the Template Provider, signal handling, shutdown |
| Mining interface | `src/node/interfaces.cpp` 683-805 | `MinerImpl` and `BlockTemplateImpl`: `getTip`, `waitTipChanged`, `createNewBlock`, `submitSolution`, `waitNext` |
| Chain and Node interfaces | `src/node/interfaces.cpp` 80-681 | queries on the block index, settings, validation notifications, node start and stop |
| test peer | `src/test/sv2_tp_tester.cpp`, `unnamed/part_000` | `TPTester`: event loop thread, IPC over a socket pair, a peer transport with `handshake` and `receiveMessage`, fragment-tolerant receive loops |
| fuzzing support | `unnamed/part_001`, `src/test/fuzz/util/net.h` | `FuzzedSock`, the fuzz driver, certificates with clock skew |
| fuzz build | `.clusterfuzzlite/build.sh` (in the source tree as `src/sv2-tp.cpp` 203-434) | builds the fuzz binary, lists its targets with it and bundles one patched copy per target |
| data | `src/sv2/coinbase_template.h`, `unnamed/part_002`, `unnamed/part_003` | coinbase template record, cache sizes, a fragment of the networking code |

The Template Provider itself (listener, Noise handshake, transport, codec,
connection manager, template engine) is described by the specification of the
repository but its code is not part of the source tree.

How the parts interact: `main()` builds the options, connects to the node and
starts the Template Provider, whose template loop from then on is the caller
of the Mining interface: `waitTipChanged` with the fee interval as its
timeout, `createNewBlock` with the constraints of each client that streams,
`submitSolution` when a client found a block.  The receive task of each
connection takes the client from the handshake to `STREAMING` and hands
solutions to the loop; replies and broadcasts leave through one bounded queue
per connection.  The node's validation and mempool threads change the tip and
the fees while the calls of the loop block.  In the tests the node is a mock behind an IPC
connection that `TPTester` builds, and in the fuzz targets the sockets are
`FuzzedSock` objects that answer from fuzz input.  `build.sh` and the fuzz
driver are two programs with one contract: the script runs the binary to
learn the names of the targets and writes each name into a copy of the
binary, at the place of a string both sources spell out.

## Modules

### Mining (`Mining.tla`, `MCMining.tla`)

State: `tip` (the number of the current tip, 0 for `uint256::ZERO`, no tip
yet), `fees` (what a block assembled now would collect), `interrupt`,
`templates` (the `BlockTemplateImpl` objects in order of creation, each with
the tip it builds on, its fees, its assemble options and the solution written
into its block), `call` and `ret` (per caller, the blocking call it is in and
what its last call returned).

| action | code |
|---|---|
| `WaitTipChangedCall`, `WaitTipChangedReturn` | `MinerImpl::waitTipChanged` |
| `CreateNewBlockCall`, `CreateNewBlockWait`, `CreateNewBlockAssemble` | `MinerImpl::createNewBlock`: entry, the wait for a first tip of line 785, the assembly of lines 787-789 |
| `SubmitSolution` | `BlockTemplateImpl::submitSolution`: the write into the template's block and `ProcessNewBlock` |
| `WaitNextCall`, `WaitNextReturn` | `BlockTemplateImpl::waitNext` |
| `TipAdvance`, `MempoolAccept`, `Interrupt` | the node's validation, mempool and shutdown threads |

`getTip`, `getBlock`, `getTxFees` and `getCoinbaseTx` change nothing and are
operators.  The
helpers the methods forward to (`WaitTipChanged`, `WaitAndCreateNewBlock`,
`ProcessNewBlock`) are not in the source tree; they are modelled from the
contract of the interface and marked `spec_modelled` in the map.  A timeout is
a flag of the call: a timed call may answer at any moment from the point where
the code allows it.

### MiningService (`MiningService.tla`)

What the interface promises, with nothing of how the node keeps it: the
state is the tip, the fees, the interrupt, the templates, and per caller the
request it waits on (`pending`) and its last answer (`answer`).  A call is two
steps, `Ask` and the answer (`waitTipChanged`, `createNewBlock`, `waitNext`),
and takes effect at the moment of the answer: a template is tip and fees of
that moment, a tip that is answered is the tip of that moment, and the tip
moves by a solution only when the solution is valid and its template builds
on the current tip.

`Mining` implements it: `Service == INSTANCE MiningService WITH pending <-
[c \in Callers |-> Pending(c)], answer <- ret`, where `Pending(c)` is the call
of `c` without the field that says how far the call has come inside the node.
The steps of a call inside the node (`CreateNewBlockWait`, the wait of line
785) are stuttering steps of `MiningService`; `CreateNewBlockAssemble` is its
`createNewBlock`.  `ImplementsService == Service!Spec` is a property of the
run `mining_safety`.

### Sv2Tp (`Sv2Tp.tla`, `MCSv2Tp.tla`)

State: `args` (the values of `-sv2port`, `-sv2bind`, `-sv2feedelta`,
`-sv2interval`), `pc`
(where `main()` is), `status` (running, or the way the process ended),
`options` (`Sv2TemplateProviderOptions`), `tp` (life cycle of the
`Sv2TemplateProvider` and the options it was started with), `handlers` (the
signals `HandleSIGTERM` is registered for) and `g_interrupt`.  One action per
step of `main()` that can fail or that changes state; `HandleSIGTERM` and
`DefaultAction` are the two things a signal can do, at any point.  The cast of
line 141 is `Uint16`, the value modulo 65536.  `-sv2feedelta` is taken as it
is given, negative or not; the two options that are checked (`-sv2bind`,
`-sv2interval`) end `main()` with `EXIT_FAILURE`, in the order of the code.

### FuzzedSock (`FuzzedSock.tla`, `MCFuzzedSock.tla`)

State: `fuel` (the input bytes the shared `FuzzedDataProvider` has left),
`socks` (per socket `m_selectable`, `m_time`, `m_peek_data`), `clock` (the
mocked steady clock), `r` (the return value of the last call, the errno it
set, and errno of the process after it: a method that sets none leaves what
an earlier call of any socket has set, as `GetSockName` does when it refuses
a short name), and the
history variable `hist` (per socket the bytes taken from the provider, the
bytes delivered by plain reads, and what peeking reads have shown).  One action
per method; the five methods that only fail or succeed share
`FailOrSucceed`.  The provider's operators return the set of (value, input
left) pairs a call may produce: with no input left the set has one element,
the default (false, the least value of the range, no bytes), which is what
makes the order of the errno arrays matter.

### FuzzDriver (`FuzzDriver.tla`)

The fuzz process of `unnamed/part_001` 340-655, composed with the sockets:
the module declares the constants and variables of `FuzzedSock`, takes it as
`Sock == INSTANCE FuzzedSock`, and a running target is any sequence of
`Sock!Next` steps on sockets that `test_one_input` constructs over the bytes
of the input (`Sock!Construct`).  State of its own: `env` (the environment
variables, the build and the entry point, chosen in `Init`), `pc`, `registry`
(the map of `FuzzFrameworkRegisterTarget`), `g_args`, `g_fuzz_target`,
`g_test_one_input`, `g_enable_dynamic_fuzz_determinism`, `listed`, `exit`,
`handler`, `todo` and `files` (the arguments and the files of a directory
`main` has still to read), `buffer`, `g_input_path`, `tested`, and the history
variable `ran` (the inputs targets ran on).  `env.placeholder` is what the
array `FuzzTargetPlaceholder` of this binary holds up to its first null
character: the placeholder itself, or the name `build.sh` wrote over it.
`initialize()` reads it only when `FUZZ` is empty, so with `FUZZ` set only the
unpatched binary is kept.

| action | code |
|---|---|
| `FuzzFrameworkRegisterTarget` | the registration of a target, `assert` on a name registered twice |
| `initializeLists`, `initializeFails`, `initializeReady` | the three ways `initialize()` ends (452-542): the list of targets is printed and the process exits, `FUZZ` is missing or names no target, the target is found |
| `LLVMFuzzerTestOneInput`, `LLVMFuzzerReturn` | the libFuzzer entry points |
| `mainStdin`, `mainFiles`, `mainDirectory`, `mainDirectoryFile`, `mainFile`, `mainTested`, `mainReturn` | `main()` of a build without libFuzzer |
| `Target`, `TargetReturns`, `Abort` | the target at work on its sockets, its return (the sockets are destroyed), an abort |

`SetArgs` keeps of the engine's arguments what begins with two dashes and has
more than two characters, the conversion the code makes.

### Bundle (`Bundle.tla`, `MCBundle.tla`)

`.clusterfuzzlite/build.sh` composed with the fuzz driver (`EXTENDS
FuzzDriver`).  State of its own: `sh`, the shell of the script (where it is,
and of its variables those a later step reads: the runner it was `given`,
whether the toolchain file exists, what cmake was called with, the targets
still to bundle; after the script, its exit status), and `OUT`, the directory
`$OUT` (per bundled binary the placeholder it holds, the corpora, the
marker).  The runner is a record chosen in `Init`: `GITHUB_WORKSPACE`,
`CCACHE_DIR`, `SANITIZER`, `LIB_FUZZING_ENGINE`, the compilers installed, what
each prints for `-print-file-name`, the directories and files that exist,
`LIBRARY_PATH`, the depends directory and `FORCE_DEPENDS_BUILD`.

| action | code (`src/sv2-tp.cpp`) |
|---|---|
| `Prepare` | 203-242: `set -eu`, `cd`, the ccache link, the flags; `$LIB_FUZZING_ENGINE` is expanded without a default and ends the script when it is not set |
| `Depends` | 338-360: `make` in depends unless `NEED_DEPENDS_BUILD` is 0 |
| `Configure` | 362-382: cmake with the toolchain file of depends |
| `Compile` | 384 |
| `Lists`, `Listed` | 389-395: the fuzz binary runs with `WRITE_ALL_FUZZ_TARGETS_AND_ABORT` (steps of FuzzDriver), the script reads the file whatever became of the binary and ends without a name |
| `BundleTarget` | 401-422: one pass of the loop, failing before or after the binary is written |
| `Marks` | 424-434: the marker, the dictionaries, the listing |
| `Starts`, `Runs` | a fuzz process starts after the script (all variables of the driver are set as in its `Init`) and runs |

Every action has the disjunct `Fails` where one of its commands can fail.  The
search for the C++ libraries (243-318) and the depends cache test (320-336)
change nothing outside the shell and are operators named after the variables
they compute (`SYSTEM_LIBSTDCPP_FILE`, `LIB_SEARCH_PATHS`, `FUZZ_LIBS_VALUE`,
`DEPENDS_STAMP_PRESENT`, ...).  `DEPENDS_STAMP_PRESENT` is the directory and
the toolchain file: the `find ... -print -quit` of line 325 succeeds whether
or not it meets a stamp.  `Exported` prepends each directory to
`LIBRARY_PATH`, as the loop does, so the order is reversed.  `Patched` is the
`dat.replace` of the embedded python.  `$WORK` and `$OUT` are empty when the
script starts.

### Chain (`Chain.tla`, `MCChain.tla`)

The block queries of `ChainImpl` (`interfaces.cpp` 392-484) and `FillBlock`
(317-334).  The block tree is the constant `pprev`; the state is `index` (the
blocks in `m_block_index`), `have_data`, `tip`, `cs_main`, `q` (the query
under way) and `out` (the `FoundBlock` objects and the return value).  A
query is `Query`, then for every `FoundBlock` it fills `FillBlock`, which
splits into `Unlock`, `ReadBlock`, `Relock` where the code uses
`REVERSE_LOCK` to read block data, then `Return`.  The node's `AcceptBlock`,
`ActivateBestChain` and `PruneBlock` are enabled only while `cs_main` is free.
`getHeight`, `getBlockHash`, `haveBlockOnDisk`, `findLocatorFork` and
`hasBlocks` hold the lock throughout and are operators; `getBlockHash`
answers `Abort` where its `Assert` fails, `findLocatorFork` walks the locator
as `FindForkInGlobalIndex` does (written from what the interface says of it,
its code is outside the source tree), and `hasBlocks` is a `RECURSIVE` walk
along `pprev` compared with the set definition of its comment.

### NodeImpl (`NodeImpl.tla`, `MCNodeImpl.tla`) and Mempool (`Mempool.tla`)

`NodeImpl` (`interfaces.cpp` 80-314) composed with the chain and the mempool:
`Chainman == INSTANCE Chain`, `Pool == INSTANCE Mempool`.  State of its own:
`main` (where the thread of `main()` is), `members` (the members of
`NodeContext` that exist), `exit_status`, `shutdown`, `best_header`, `loading`,
`ibd`, `connected` (the signals of `uiInterface` with a handler), `pending`
(the signal the node has still to send for a change) and `shown` (what each
handler was last called with).  `baseInitialize` fails at any of its five
steps and leaves what the steps before it made.  `appInitMain` forwards what
`AppInitMain` answers and stores `EXIT_FAILURE` when that is false;
`AppInitMain` itself is outside the source tree and stands as the set of its
outcomes: any subset of the services made, and true exactly when all of them
are (`Initialized`), which is what the getters' `Assert`s take for granted.
`appShutdown` has no guard in the code and none in the model but that a node
is shut down once: it takes down what is there, wherever `main()` has come
to.  A getter is an operator that answers `Abort` where an `Assert` of the
code fails.

The node changes its tip or its best header under `cs_main` (`AcceptBlock`,
`ActivateBestChain`) and sends the signal afterwards, in a step of its own
(`Fire`), to the handler that is connected at that moment; the client
connects, disconnects and reads the getters in between.  The handlers of
`NotifyBlockTip` and `NotifyHeaderTip` convert what the signal carries
(`Convert`) before the client sees it.  The node makes no further change
while a signal is still to be sent.

`Mempool` holds the mempool and fee queries of `ChainImpl` (485-583) and of
`NodeImpl`; `m_node.mempool` and `m_node.fee_estimator` may be null and each
query has the answer it gives then.  The mempool is a set of transactions;
what spends from what is the constant `Spends`, and ancestors and descendants
are those of the graph `Spending` (community module `Graphs`).

### Settings (`Settings.tla`, `MCSettings.tla`)

The settings methods of `NodeImpl` (124-163) and `ChainImpl` (624-662).
State: `rw_settings`, `forced_settings`, `file` and `backup` (what
`settings.json` and its backup hold), `call` (per caller the method it is in)
and the history variable `unsaved` (the callers whose change no write has
saved).  Each method is two or more actions because the code changes the
memory inside `LockSettings` and writes the file after the lock is released:
`NodeImpl_updateRwSetting` / `NodeImpl_write`, `ChainImpl_updateRwSetting` /
`ChainImpl_write`, and the three statements of `resetSettings`.  A write
succeeds or fails (`\E ok \in BOOLEAN`).

### Notifications (`Notifications.tla`, `MCNotifications.tla`)

`NotificationsProxy`, `NotificationsHandlerImpl`,
`ChainImpl::handleNotifications`, `waitForNotificationsIfTipChanged` and
`requestMempoolTransactions`.  State: `tip`, `mempool`, `queue` (the callbacks
`ValidationSignals` has not executed), `registered`, and per client `m_proxy`,
`seen`, `known`, `wait`, with the history variable `replayed`.  The node's
`ConnectBlock`, `AddToMempool` and `RemoveFromMempool` append events;
`Execute` is the scheduler thread; `handleNotifications`, `disconnect`,
`Destroy`, `waitForNotificationsIfTipChanged`, `WaitReturn` and
`requestMempoolTransactions` are the client's calls.  `ValidationSignals` is
not in the source tree; its queue is modelled from its use.

### RecvLoop (`RecvLoop.tla`) and TPTester (`TPTester.tla`, `MCRecvLoop.tla`)

`RecvLoop` is the test peer on a connection: `TPTester::handshake`, `receiveMessage`, `SendPeerBytes`,
`PeerReceiveBytes` (`sv2_tp_tester.cpp` 107-208) and `Sv2TestAccumulateRecv`
(`unnamed/part_000`).  State: `pipe`, `eof`, `written` (the send pipe of the
connection and what was ever written to it), `clock`, `loop` (the call of the
test thread: its `start`, `total`, the last `n`), `received` (the bytes the
transport holds of the message it waits for), `m_peer_transport`, `recv` and
`owed` (messages the Template Provider has not read, bytes it has still to
write).  A loop is `Poll`, then one of `NoData` (EAGAIN), `ZeroRead`,
`Fragment`, each ending the call or going back to `Poll` after the timeout
test.  The Template Provider (`Read`, `Write`, `Close`) and the clock (`Tick`)
move between any two steps.  The module has no specification of its own:
`Unconnected` is the state of a tester without a connection.

`TPTester` extends it with the constructor and the destructor
(`sv2_tp_tester.cpp` 38-105), one action per statement, and with the thread
of the event loop.

| state | code |
|---|---|
| `tester` | the statement the test thread is at: `none`, the six of the constructor (`Constructing`), `up`, the seven of the destructor (`Destructing`), `terminated` |
| `m_loop` | the pointer of that name: `nullptr`, the loop, or dangling once `loop()` has returned |
| `m_loop_thread` | `none`, `started`, `looping`, `returning`, `exited` |
| `refs`, `connections` | what keeps `loop()` from returning: the `EventLoopRef` objects and the ends of the socket pair the loop serves |
| `objects` | the members that hold a proxy or a stream: `m_server_init`, `m_client_init`, `m_mining_proxy`, `m_tp` |
| `built` | the testers constructed so far, bounded by `ITERS` |

`Construct` starts the thread, `WaitReady` is the wait for `loop_ready`,
`Socketpair` succeeds or fails, `ServeStream`, `ConnectStream`, `makeMining`
and `Start` make the four members; the three with a `BOOST_REQUIRE` on what
they made can fail (`Throws`).  `Destruct` is enabled when no call of the
test is under way; `TakeRef`, the four `Reset...` actions in the order of the
destructor, `ReleaseRef` and `Join` follow.  The loop thread has three steps:
`LoopThreadStart` (it sets `m_loop` and fulfils the promise), `Disconnected`
(the server end goes when the client end has) and `LoopReturns`.  `Test` and
`Provider` are the steps of `RecvLoop`, possible between `Start` and
`Destruct` and while `m_tp` exists.

What is assumed of the event loop is what the comments of the destructor say
of it: `loop()` returns once no reference and no connection is left
(`AfterRelease`), and a proxy may be destroyed only while it runs.  A
`BOOST_REQUIRE` of the constructor that fails (lines 57, 70, 72, 83) throws
in a constructor whose thread member is joinable: the process ends
(`terminated`).  The `else`
branch of the destructor (no loop) cannot be reached after a constructor
that completed and has no action.

### TemplateProvider (`TemplateProvider.tla`, `MCTemplateProvider.tla`)

The connection manager and the template engine, composed with the node:
the module extends `Mining`, and the template loop is the one caller `Loop`
of its actions.  The core is modelled from the specification (sections 3,
4.5, 4.6, 5 and 7) and its definitions are `spec_modelled` in the map; what it
calls (`WaitTipChangedCall`, `CreateNewBlockCall`, `SubmitSolution`,
`getTxFees`, `getCoinbaseTx`) and what answers it (`Answer`, `Node`) are the
definitions of `Mining`, written from `interfaces.cpp`, and
`CoinbaseTemplate` is the struct of `coinbase_template.h`.

State, per peer: `phase`, `constraints` (the options of its
`COINBASE_OUTPUT_CONSTRAINTS`), `records` (the templates it may name in
`SUBMIT_SOLUTION` and `REQUEST_TRANSACTION_DATA`), `sent` (the template last
pushed to it) and `outq` (its outbound queue); of the engine: `next_id`,
`loop` (where the template loop stands, the tip it has seen, the peers of the
round still to serve), `submissions` (solutions that wait for the loop) and
`shutdown`.

| action | what it models |
|---|---|
| `Accept`, `Handshake`, `Fails` | the listener, the two steps of the handshake, and every way a connection ends by itself |
| `Setup`, `Constrain` | `SETUP_CONNECTION` (validated: protocol 2, the version within the range of the client) and `COINBASE_OUTPUT_CONSTRAINTS` |
| `Violates` | a message its phase does not expect: `SETUP_CONNECTION.ERROR` before `STREAMING`, the end of the connection in `STREAMING` |
| `Submit`, `RequestTransactionData` | the lookup in the records of the session; a solution goes to the loop |
| `Deliver` | the send side writes the head of the queue |
| `ServesNew`, `Waits`, `Triggered` | the triggers: a new streaming client, a tip change, the fee timer |
| `Builds`, `Built`, `RoundEnds` | a round: `createNewBlock` for each streaming peer, and what its answer becomes (`Wanted`, `Push`) |
| `Forwards` | `submitSolution` for the oldest solution that waits |
| `Retries`, `Exits`, `Shutdown` | `NodeUnavailable` and backoff, the shutdown flag |
| `Answers`, `Upstream` | the node: `Answer(Loop)` and `Node` of `Mining` |

Where the specification leaves a choice the model takes the one closest to
its text, and the properties are to be read with these choices:

* the fee timer is the timeout of `waitTipChanged(current)`, and both
  triggers answer with a round of `createNewBlock`; `waitNext` is not called;
* a candidate with the fingerprint of the template last sent is not pushed;
  one on the same `prev_hash` is pushed when its fees are `fee_delta` above
  those last sent; one on another `prev_hash` always is (`Wanted`);
* a broadcast takes both frames of its pair or none (`HasRoom`); a dropped
  broadcast keeps its record and its `template_id`, and `sent` stays;
* `template_id` starts at 1 and nothing is pushed once the counter is at
  `MaxId`;
* `Push` puts both frames of a pair into the queue in one step, so
  `PairsInOrder` is about what the receive task and the send side do to a
  queue that holds pairs, not about a reply that arrives between two frames;
* a socket is used once: `CLOSED` is final, and closing clears the queue, so
  the `SETUP_CONNECTION.ERROR` of an invalid `SETUP_CONNECTION` is not seen;
* the loop sees `shutdown` between two calls, and `Exits` is possible while a
  call is in flight (the five seconds the process waits are over);
* `UnknownMessageType` changes no state and is left out.

## Runs

| run | cfg | result | distinct states | what it shows |
|---|---|---|---|---|
| `mining_safety` | `MCMining.cfg` | pass | 1,294,946 | `TypeOK` (every template builds on a tip), `WaitNextReturnsNews`, `NullOnlyWhenInterrupted` over every interleaving of two callers with the node; `ImplementsService`: every behaviour is one of `MiningService` |
| `provider` | `MCTemplateProvider.cfg` | pass | 513,763 | the template loop, a peer, the node and a shutdown in every order: `ProviderTypeOK` (the queue keeps its bound), `PairsInOrder`, `TipChangeReachesEveryPeer`, `SubmittableIsCurrent`, and under fairness `CallsAnswer` (no call of the loop stays blocked once it can answer) and `FirstTemplateArrives` |
| `main_lifecycle` | `MCSv2Tp.cfg` | pass | 5,923 | `TypeOK`, `StartedAsConfigured`, `CaughtSignalExits` for every combination of options and every moment of a signal |
| `main_port` | `MCSv2TpPort.cfg` | violation | | `ListensOnSv2Port`: `-sv2port=-1` listens on 65535 (and `-sv2port=73978` on 8442) |
| `fuzz_process` | `MCBundle.cfg` | pass | 692,896 | `build.sh` on 900 runners, then a fuzz process of a bundled or of another binary, from registration to exit, with targets that make any calls on two sockets: `BundleTypeOK` (the type invariants of the shell, the driver and the sockets), `MarkerMeansComplete`, `ConfiguredWithWhatExists`, `NoByteLostOrRepeated`, `TemporaryErrorsUseInput` (an action property, about the errno a method sets), `EveryInputTestedOnce`, `OnlyTheNamedTargetRuns` |
| `sock_peek` | `MCFuzzedSockPeek.cfg` | violation | | `PeekedDataIsRemembered`: zero padding shown by a peek is forgotten |
| `sock_clock` | `MCFuzzedSockClock.cfg` | violation | | `SteadyClockIsSteady`: `Accept` sets the mocked steady clock back |
| `chain_queries` | `MCChain.cfg` | pass | 333,167 | `TypeOK`, `FoundBlockIsSnapshot`, `AncestorByHashDescends` while the node accepts, activates and prunes blocks whenever `FillBlock` has released `cs_main` |
| `node` | `MCNodeImpl.cfg` | pass | 89,948 | a node that starts, runs and stops and sends its tip signals after the change, while a client asks and connects handlers: `HasBlocksInRange` (the loop of `hasBlocks` against the set definition of its comment, on every chain the node reaches), `DescendantsAreSpenders`, `TipsShownAreCurrent` (whenever no signal is still to be sent), `GettersAnswerWhileRunning` |
| `settings` | `MCSettings.cfg` | pass | 68,300 | `SavedWhenWritten`, `TrueMeansSaved` with two callers and failing writes |
| `notifications` | `MCNotifications.cfg` | pass | 821,725 | `TypeOK`, `NothingPendingAfterWait`, `MempoolViewConverges`, `WaitReturns` |
| `recv_loop` | `MCRecvLoop.cfg` | pass | 302,202 | two testers, one after the other, each built, used and destroyed while the loop thread and the Template Provider run: `TesterTypeOK`, `LoopAliveWhenUsed` (every statement that makes, uses or destroys a proxy runs while the loop does), `ReturnsWhatItTook`, `NoTimeoutWithMessage`, `LoopEnds` for every fragmentation, close and pace of the clock, and `LifecycleCompletes` (a constructor ends, and a destructor ends with the thread joined and nothing left) |

`Settings` and `NodeImpl` state their type invariant (`TypeOK`) as a
definition for the reader; their runs check the properties above.

Every property of a passing run has an entry in `mutants` of `PROJECT.json`:
a definition of the model replaced by a wrong form of the same code (a
dropped guard, a swapped order, a missing reset), under which TLC finds the
property violated.

## Bounds

* Mining: two callers (symmetric), two option values, a valid and an invalid
  solution, tips 0..2, fees 0..1, one fee threshold, two templates.  Two tips
  past "no tip" are needed for a template to become stale, one fee step for
  the fee rule of `waitNext`; with two templates a `createNewBlock` and a
  `waitNext` on its result, or two concurrent `createNewBlock` calls, fit.  A
  call that creates a template is admitted only while the templates of the
  calls under way fit (`Room`), so no answer is ever held back by the bound.
* TemplateProvider: one peer and the loop; one option value, one (valid)
  solution, tips 0..2, fees 0..1, `fee_delta` 1, three templates of the
  node, `MaxId` 4, a queue of 3 messages (`MaxQueue`, 64 in the program), one
  solution waiting (`MaxSubmit`), one reply of the receive task in the queue
  (`MaxReplies`).  With a queue of 3, a reply and a pair fill it and the next
  pair is dropped; with `MaxId` 4 the counter reaches its end after three
  templates, so the first template, one for a tip change and one after it
  are pushed and `TipChangeReachesEveryPeer` is met by a push as well as by
  a counter at its end; two tips and one fee step give a push for a tip
  change, one for fees, and a suppressed one.  What one peer cannot show: that all peers
  receive a template before any receives the next, that a `template_id` is
  never given to two sessions, and that the constraints of one peer are not
  used for another; with one option value the constraints are carried but
  not observed.  Two peers make the state space larger than a run can
  explore (more than three million states without submissions).
* Sv2Tp: `-sv2port` in {8442, 0, 73978, -1}, `-sv2bind` without port, with
  port 3333 and with an invalid port, `-sv2feedelta` in {-1, 0},
  `-sv2interval` in {0, 1, 2}, each also absent.
* FuzzedSock and FuzzDriver: two sockets (symmetric), bytes {0, 1}, lengths
  0..2, timeouts {0, 1}, clock up to 1, a `sockaddr` of 2 bytes; three
  compiled targets of which one is hidden and a fourth name no target has, so
  that the bundle has two binaries and the loop of `build.sh` can fail
  between them; libFuzzer
  arguments with one dash, none, two dashes and a bare `--`; `main` over
  standard input or over a directory of a file of 1 byte, an empty file and
  an entry that is no regular file, followed by a file of 5 bytes.  The
  constructor of a socket takes two bytes of input, so five bytes pay for a
  peeking read that gets a byte and a plain read after it.  The two violation
  runs of FuzzedSock use a clock up to 2.
* Bundle: every combination of a workspace (set or not), a ccache directory
  (not set, the one of the workspace, another), a sanitizer (not set,
  memory), a fuzzing engine (not set, empty, a library), five toolchains
  (libc++ and libstdc++ in two directories; both in one; g++ alone with a
  library that is only a name to the linker; a directory that does not exist;
  no compiler) and five depends directories (none, a stamp without toolchain
  file, a toolchain file without stamp, whole, whole and forced): 900
  runners.  Two targets have a corpus
  directory, one of them hidden.
* Chain: for the queries under a changing chain, a genesis block with two
  children, the least tree with a reorganisation; three kinds of request (no
  data, data of the block and fields of the next, data of the next).
* NodeImpl: four blocks with a fork above genesis and every `min_height` and
  `max_height` of `hasBlocks`, so that a range can end below, at and above
  the fork and a reorganisation changes the answer; two transactions of which
  the second spends from the first; limits of 2 ancestors and descendants;
  two signals.
* Settings: two callers (symmetric), two names, one value besides null, a
  command line that sets one of the names.
* Notifications: two clients, one transaction, two blocks, three events of
  the node in the queue: enough for a block connected between the call of a
  wait and its callback, and for a transaction added and removed again while
  a replay overtakes the queue.
* RecvLoop: a message of 2 bytes, a buffer of 2, answers of 2 or 3 bytes, up
  to 5 bytes written on a connection (the answer of the handshake and of one
  message), 2 messages waiting, a timeout of 1 tick, a clock up to 5.
* TPTester: `ITERS` = 2 testers, as many as the lifecycle test builds: the
  second is constructed on what the destructor of the first left.

## Fairness

* Mining: `WF_vars(Answer(c))` for each caller.  The waits are condition
  variable waits that are notified on every tip change and on interrupt, and
  a timed wait ends by itself; the conditions in `Answerable` stay true once
  true (the tip only grows, the interrupt is never cleared).  The fairness
  is used in `provider`, where `CallsAnswer` is checked.
* TemplateProvider: `WF(TemplateLoop)` and `WF(Answers)`.  The loop is a task
  of its own that runs when it can, and the node answers as above.  Nothing
  is assumed of the peer (it may never send, and leave at any time), of the
  chain, of the mempool or of the send side, so `FirstTemplateArrives` says
  that the first template is queued, not that it is read.
* Sv2Tp: `WF_vars(Main)`, the main thread is scheduled.  Nothing is assumed of
  signals.
* Notifications: `WF_vars(Execute)`: the scheduler thread of
  `ValidationSignals` runs whenever the queue holds a callback.  Nothing is
  assumed of the node or of the clients.
* RecvLoop and TPTester: weak fairness of the steps of the receive loop (the
  test thread sleeps 5 ms and polls again), of the statements of the
  constructor and the destructor once the constructor has begun (the test
  thread runs them one after the other; nothing says a test builds a tester
  or ends), of the loop thread, and of `Tick` (the steady clock advances).
  Nothing is assumed of the Template Provider: it may never write.
* FuzzedSock, FuzzDriver, Bundle, Chain, NodeImpl, Mempool, Settings: none;
  their properties are safety properties.  `MiningService` has no fairness
  either: `ImplementsService` is the safety part of the refinement, and
  `CallsAnswer` says of `Mining` itself that calls are answered.

Deadlock checking is off for Sv2Tp, Bundle, NodeImpl and TemplateProvider
(the process exits) and for TPTester (a `BOOST_FAIL` ends the test, a failed
requirement of the constructor the process, and after `ITERS` testers
nothing is built).

## Findings

1. `src/sv2-tp.cpp:141`: `-sv2port` is not range checked (`main_port`).
2. `unnamed/part_001:150`: bytes a `MSG_PEEK` read shows as padding are not
   remembered, against the comment on `m_peek_data` (`sock_peek`).
3. `unnamed/part_001:31`: the constructor of a `FuzzedSock` resets the shared
   mocked steady clock (`sock_clock`).
4. `unnamed/part_001:515`: `build.sh` writes the name of the target over
   `FuzzTargetPlaceholder` in each binary of the bundle, and `initialize()`
   exits with "Must select fuzz target with the FUZZ env var" whenever `FUZZ`
   is empty, before it looks the name up.  `OnlyTheNamedTargetRuns` holds in
   the composition (`fuzz_process`): no binary of the bundle runs the target
   it was patched for unless whoever starts it also sets `FUZZ`.

## Not modelled, and why

* Of the Template Provider core, whose code the source tree does not hold:
  the Noise session, the handshake driver, the transport and the codec are
  outcomes in `TemplateProvider` (a step succeeds or the connection fails, a
  record is a message or the connection fails), not state machines of their
  own; the contents of a template beyond `prev_hash`, fees and
  `value_remaining`; the timers as durations (a timeout may end at any
  moment).
* Of `NodeImpl`: `initLogging` and `initParameterInteraction` (one forwarded
  call each), the eleven signals whose handlers connect the function as it
  is given, the network getters (165-194), which answer constants in a build
  without network, and `AppInitMain`, `Interrupt` and `Shutdown` beyond
  their outcomes.  Of `ChainImpl`: `havePruned`, `findCoins`,
  `guessVerificationProgress`, `initMessage`, `initWarning`, `initError`,
  `showProgress`: one lock and one forwarded call each, to code outside the
  source tree.  Of
  `BlockTemplateImpl` and `MinerImpl`: the getters that return a field of the
  block and `checkBlock`, which read and change nothing the model has.
* Of `build.sh`: what it echoes, and the copying of the dictionaries, which
  no later step reads.  The docker wrapper of the base image
  (`src/sv2-tp.cpp` 435-497): one pass that searches a container for
  `llvm-symbolizer`; nothing of the program or of `build.sh` uses the result.
* Of `AddArgs`, all but the four options `main()` reads into
  `Sv2TemplateProviderOptions` (`Args`); the help text of `main()`.
* Of `TPTester`: the event loop of libmultiprocess beyond what the comments
  of the destructor say of it (neither the source tree nor the specification
  has more), `SetupConnectionMsg` (it builds a constant message) and
  `GetBlockTemplateCount` (it reads a counter of the mock).
* `CalculateCacheSizes` (`unnamed/part_002`): a pure function of fourteen
  lines that nothing in the source tree calls; it changes no state and no
  module has a use for its result.
* The AFL persistent mode of the fuzz driver, the certificate helper of the
  test setup, the globals of `net.cpp`.
* The Noise cryptography and the byte layout of messages (no control), help
  texts, build and release scripts, documentation.

## Plan

1. An abstract specification of what a client is promised ("a client that
   streams holds a template on the tip the loop has seen"), with
   `TemplateProvider` shown to implement it as `Mining` is shown to implement
   `MiningService`.
2. Two peers in `TemplateProvider` under a view or a constraint that keeps
   the run within reach: the order of a broadcast across peers, the
   `template_id` across sessions, the constraints of each peer.
3. The use the Template Provider makes of the result of `submitSolution`
   (true for a valid block on a tip that is no longer current), which the
   hazard list has without a property.
4. The event loop of `TPTester` at the grain of its callbacks (the cleanup
   of a disconnected stream as steps of the loop thread), so that the
   reference the destructor takes is shown to be needed.
5. The handshake driver as a state machine of two parties over a channel that
   fragments, joined with `RecvLoop`.

The project has twelve runs; a new question is asked by composing modules
into a run that exists, as `fuzz_process` asks those of the sockets and of
the driver and of `build.sh`, `node` those of the chain, the mempool and
`NodeImpl`, and `provider` those of the template loop and of the liveness of
`Mining`.
