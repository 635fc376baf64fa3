----------------------------- MODULE FuzzDriver -----------------------------
(***************************************************************************)
(* The fuzz driver of src/test/fuzz/fuzz.cpp: the registry of fuzz         *)
(* targets, initialize() with its exits, the entry points libFuzzer calls, *)
(* and main() over standard input or over files and directories.           *)
(*                                                                         *)
(* The driver is composed with FuzzedSock: a target is given the input as  *)
(* the FuzzedDataProvider of a first FuzzedSock and then makes any calls   *)
(* on its sockets.  An input is the number of its bytes, a target its      *)
(* name; what is printed is left out, except the names a listing shows.    *)
(* The AFL persistent mode (__AFL_LOOP) is another build and not modelled. *)
(***************************************************************************)
EXTENDS Integers, Sequences, FiniteSets, TLC

CONSTANTS
    Socks, Bytes, MaxFuel, MaxLen, Timeouts, MaxTime, SockaddrSize,
    NoErrno,            \* the constants of FuzzedSock
    Compiled,           \* the names FuzzFrameworkRegisterTarget is called with
    Hidden,             \* the names registered with opts.hidden
    Names,              \* the values FUZZ may have
    NoName,             \* FUZZ is not set, or empty
    Placeholder,        \* FuzzTargetPlaceholder as it is compiled
    Argvs,              \* the command lines of main: sequences of paths
    EngineArgv,         \* the command line libFuzzer passes on
    Dirs,               \* directory path -> its entries
    Regular,            \* the paths that are regular files
    Size,               \* regular file -> its bytes
    Null

VARIABLES
    fuel, socks, clock, r, hist,    \* the variables of FuzzedSock
    env,               \* the environment, the build and the command line
    pc,                \* where the process is
    registry,          \* g_fuzz_targets
    g_args,            \* the arguments kept for the tests
    g_fuzz_target,
    g_test_one_input,
    g_enable_dynamic_fuzz_determinism,
    listed,            \* the names a listing showed: stdout, file
    exit,              \* the exit status, Null while the process runs
    handler,           \* signal_handler is registered for SIGABRT
    todo,              \* argv + i: the arguments main has not looked at
    files,             \* the files of a directory main has not tested
    buffer,            \* the bytes in buffer
    g_input_path,
    tested,
    ran                \* history: the files a target ran on

Sock == INSTANCE FuzzedSock

sockVars == <<fuel, socks, clock, r, hist>>
initVars == <<registry, g_args, g_fuzz_target, g_test_one_input,
              g_enable_dynamic_fuzz_determinism, listed>>
mainVars == <<handler, todo, files, buffer, g_input_path, tested, ran>>
vars == <<sockVars, env, pc, exit, initVars, mainVars>>

EXIT_SUCCESS == 0
EXIT_FAILURE == 1
SIGABRT == 134

\* What the driver reads of its surroundings.  G_ABORT_ON_FAILED_ASSUME is
\* true in every fuzzing build.  placeholder is what FuzzTargetPlaceholder
\* holds up to its first null character: a binary can have the name of a
\* target written over it.  It is read only without FUZZ.
Envs ==
    {e \in [FUZZ : Names \cup {NoName},
            placeholder : Compiled \cup {Placeholder},
            PRINT_ALL_FUZZ_TARGETS_AND_ABORT : BOOLEAN,
            WRITE_ALL_FUZZ_TARGETS_AND_ABORT : BOOLEAN,
            FUZZ_NONDETERMINISM : BOOLEAN,
            G_FUZZING_BUILD : BOOLEAN,
            G_ABORT_ON_FAILED_ASSUME : BOOLEAN,
            entry : {"main", "LLVMFuzzerInitialize"},
            argv : Argvs \cup {EngineArgv}] :
        /\ e.G_FUZZING_BUILD => e.G_ABORT_ON_FAILED_ASSUME
        /\ e.entry = "main" <=> e.argv \in Argvs
        /\ e.FUZZ # NoName => e.placeholder = Placeholder}

Exit(status) == pc' = "exit" /\ exit' = status

-----------------------------------------------------------------------------
(* Registration and initialize() *)

\* The static initialisers of the fuzz targets; Assert(ins) aborts on a name
\* that is registered already.
FuzzFrameworkRegisterTarget(name) ==
    /\ pc = "static"
    /\ IF name \in registry
       THEN Exit(SIGABRT) /\ UNCHANGED registry
       ELSE registry' = registry \cup {name} /\ UNCHANGED <<pc, exit>>
    /\ UNCHANGED <<sockVars, env, g_args, g_fuzz_target, g_test_one_input,
                   g_enable_dynamic_fuzz_determinism, listed, mainVars>>

\* An argument is the number of dashes it starts with and of the characters
\* after them; SetArgs keeps what starts with -- and is longer.
SetArgs(argv) ==
    SelectSeq(argv, LAMBDA a : a.dashes + a.rest > 2 /\ a.dashes >= 2)

using_placeholder == env.FUZZ = NoName
listing_mode ==
    env.PRINT_ALL_FUZZ_TARGETS_AND_ABORT \/ env.WRITE_ALL_FUZZ_TARGETS_AND_ABORT
Selected == IF using_placeholder THEN env.placeholder ELSE env.FUZZ

\* The loops over FuzzTargets() that skip the hidden ones.
Visible == {name \in registry : name \notin Hidden}

\* Mutation: the test for a missing FUZZ comes before the listing.
Verdict_PlaceholderFirst ==
    CASE using_placeholder -> "fail"
      [] listing_mode -> "list"
      [] Selected \notin registry -> "fail"
      [] ~(env.G_FUZZING_BUILD \/ env.G_ABORT_ON_FAILED_ASSUME) -> "fail"
      [] OTHER -> "ready"

\* The exits of initialize(), in their order.
Verdict ==
    CASE listing_mode -> "list"
      [] using_placeholder /\ ~listing_mode -> "fail"
      [] Selected \notin registry -> "fail"
      [] ~(env.G_FUZZING_BUILD \/ env.G_ABORT_ON_FAILED_ASSUME) -> "fail"
      [] OTHER -> "ready"

EnableFuzzDeterminism == env.G_FUZZING_BUILD \/ g_enable_dynamic_fuzz_determinism

\* The entry of the process with every target registered: SetArgs when
\* libFuzzer enters, then initialize() up to the exits.
Entered ==
    /\ pc = "static"
    /\ registry = Compiled
    /\ g_args' = IF env.entry = "main" THEN <<>> ELSE SetArgs(env.argv)
    /\ g_fuzz_target' = Selected
    /\ UNCHANGED <<sockVars, env, registry, mainVars>>

initializeLists ==
    /\ Entered
    /\ Verdict = "list"
    /\ listed' = [stdout |-> IF env.PRINT_ALL_FUZZ_TARGETS_AND_ABORT
                             THEN Visible ELSE {},
                  file |-> IF env.WRITE_ALL_FUZZ_TARGETS_AND_ABORT
                           THEN Visible ELSE {}]
    /\ Exit(EXIT_SUCCESS)
    /\ UNCHANGED <<g_test_one_input, g_enable_dynamic_fuzz_determinism>>

initializeFails ==
    /\ Entered
    /\ Verdict = "fail"
    /\ Exit(EXIT_FAILURE)
    /\ UNCHANGED <<g_test_one_input, g_enable_dynamic_fuzz_determinism,
                   listed>>

\* g_enable_dynamic_fuzz_determinism after the test of EnableFuzzDeterminism
DynamicDeterminism ==
    ~EnableFuzzDeterminism /\ ~env.FUZZ_NONDETERMINISM

initializeReady ==
    /\ Entered
    /\ Verdict = "ready"
    /\ g_enable_dynamic_fuzz_determinism' = DynamicDeterminism
    /\ g_test_one_input = Null
    /\ g_test_one_input' = Selected
    /\ pc' = IF env.entry = "main" THEN "main" ELSE "engine"
    /\ UNCHANGED <<exit, listed>>

initialize == initializeLists \/ initializeFails \/ initializeReady

-----------------------------------------------------------------------------
(* A fuzz target *)

NoSocks == [s \in {} |-> Null]
NoCall == [val |-> 0, set |-> NoErrno, errno |-> NoErrno]

\* test_one_input: the target makes its provider of the buffer and its
\* first socket of the provider.
test_one_input ==
    /\ pc = "test"
    /\ g_test_one_input # Null
    /\ \E s \in Socks : Sock!Construct(s, buffer)
    /\ pc' = "target"
    /\ UNCHANGED <<env, exit, initVars, mainVars>>

Target ==
    /\ pc = "target"
    /\ Sock!Next
    /\ UNCHANGED <<env, pc, exit, initVars, mainVars>>

\* The target returns: its sockets and its provider are gone, the mocked
\* steady clock stays as the last socket set it.
TargetReturns ==
    /\ pc = "target"
    /\ socks' = NoSocks
    /\ hist' = NoSocks
    /\ fuel' = 0
    /\ r' = [NoCall EXCEPT !.errno = r.errno]
    /\ UNCHANGED <<clock, env, initVars>>

\* The target aborts: signal_handler where main has registered it.
Abort ==
    /\ pc = "target"
    /\ Exit(IF handler THEN EXIT_FAILURE ELSE SIGABRT)
    /\ UNCHANGED <<sockVars, env, initVars, mainVars>>

-----------------------------------------------------------------------------
(* libFuzzer *)

LLVMFuzzerTestOneInput ==
    /\ pc = "engine"
    /\ \E size \in 0..MaxFuel : buffer' = size
    /\ pc' = "test"
    /\ UNCHANGED <<sockVars, env, exit, initVars, handler, todo, files,
                   g_input_path, tested, ran>>

LLVMFuzzerReturn ==
    /\ env.entry = "LLVMFuzzerInitialize"
    /\ TargetReturns
    /\ pc' = "engine"
    /\ UNCHANGED <<exit, mainVars>>

-----------------------------------------------------------------------------
(* main() *)

\* argc <= 1: read_stdin reads to the end of the input and answers true.
mainStdin ==
    /\ pc = "main"
    /\ env.argv = <<>>
    /\ \E length \in 0..MaxFuel : buffer' = length
    /\ pc' = "test"
    /\ UNCHANGED <<sockVars, env, exit, initVars, handler, todo, files,
                   g_input_path, tested, ran>>

mainStdinReturn ==
    /\ env.entry = "main"
    /\ env.argv = <<>>
    /\ TargetReturns
    /\ Exit(EXIT_SUCCESS)
    /\ UNCHANGED mainVars

mainFiles ==
    /\ pc = "main"
    /\ env.argv # <<>>
    /\ handler' = TRUE
    /\ todo' = env.argv
    /\ tested' = 0
    /\ pc' = "loop"
    /\ UNCHANGED <<sockVars, env, exit, initVars, files, buffer,
                   g_input_path, ran>>

\* The loop over the directory_iterator
RegularFiles(input_path) == Dirs[input_path] \cap Regular

\* Mutation: the result of read_file is not asserted.
read_file_Unasserted(input_path) ==
    /\ g_input_path' = input_path
    /\ pc' = "test"
    /\ \/ /\ input_path \in Regular
          /\ buffer + Size[input_path] <= MaxFuel
          /\ buffer' = buffer + Size[input_path]
       \/ UNCHANGED buffer
    /\ UNCHANGED exit

\* Assert(read_file(input_path, buffer)): the bytes of the file behind the
\* bytes of the buffer, or no file to read and the abort.
read_file(input_path) ==
    /\ g_input_path' = input_path
    /\ \/ /\ input_path \in Regular
          /\ buffer + Size[input_path] <= MaxFuel       \* bound
          /\ buffer' = buffer + Size[input_path]
          /\ pc' = "test"
          /\ UNCHANGED exit
       \/ /\ Exit(EXIT_FAILURE)
          /\ UNCHANGED buffer

\* An argument that is a directory
mainDirectory ==
    /\ pc = "loop"
    /\ files = {}
    /\ todo # <<>>
    /\ Head(todo) \in DOMAIN Dirs
    /\ files' = RegularFiles(Head(todo))
    /\ todo' = Tail(todo)
    /\ UNCHANGED <<sockVars, env, pc, exit, initVars, handler, buffer,
                   g_input_path, tested, ran>>

\* The next file of the shuffled directory
mainDirectoryFile ==
    /\ pc = "loop"
    /\ \E input_path \in files :
         /\ read_file(input_path)
         /\ files' = files \ {input_path}
    /\ UNCHANGED <<sockVars, env, initVars, handler, todo, tested, ran>>

\* An argument that is no directory
mainFile ==
    /\ pc = "loop"
    /\ files = {}
    /\ todo # <<>>
    /\ Head(todo) \notin DOMAIN Dirs
    /\ read_file(Head(todo))
    /\ todo' = Tail(todo)
    /\ UNCHANGED <<sockVars, env, initVars, handler, files, tested, ran>>

\* Mutation: the buffer is not cleared.
Cleared_Kept(data) == data

\* buffer.clear()
Cleared(data) == 0

\* ++tested; buffer.clear();
mainTested ==
    /\ env.entry = "main"
    /\ env.argv # <<>>
    /\ TargetReturns
    /\ tested' = tested + 1
    /\ buffer' = Cleared(buffer)
    /\ ran' = ran \cup {g_input_path}
    /\ pc' = "loop"
    /\ UNCHANGED <<exit, handler, todo, files, g_input_path>>

mainReturn ==
    /\ pc = "loop"
    /\ files = {}
    /\ todo = <<>>
    /\ Exit(EXIT_SUCCESS)
    /\ UNCHANGED <<sockVars, env, initVars, mainVars>>

main ==
    \/ mainStdin
    \/ mainStdinReturn
    \/ mainFiles
    \/ mainDirectory
    \/ mainDirectoryFile
    \/ mainFile
    \/ mainTested
    \/ mainReturn

-----------------------------------------------------------------------------

Init ==
    /\ env \in Envs
    /\ pc = "static"
    /\ registry = {}
    /\ g_args = <<>>
    /\ g_fuzz_target = Null
    /\ g_test_one_input = Null
    /\ g_enable_dynamic_fuzz_determinism = FALSE
    /\ listed = [stdout |-> {}, file |-> {}]
    /\ exit = Null
    /\ handler = FALSE
    /\ todo = <<>>
    /\ files = {}
    /\ buffer = 0
    /\ g_input_path = Null
    /\ tested = 0
    /\ ran = {}
    /\ fuel = 0
    /\ socks = NoSocks
    /\ clock = Sock!INITIAL_MOCK_TIME
    /\ r = NoCall
    /\ hist = NoSocks

Next ==
    \/ \E name \in Compiled : FuzzFrameworkRegisterTarget(name)
    \/ initialize
    \/ test_one_input
    \/ Target
    \/ Abort
    \/ LLVMFuzzerTestOneInput
    \/ LLVMFuzzerReturn
    \/ main

Spec == Init /\ [][Next]_vars

-----------------------------------------------------------------------------
(* Properties *)

Paths == Regular \cup DOMAIN Dirs \cup UNION {Dirs[d] : d \in DOMAIN Dirs}

\* The regular files main is to test: an argument that is one, the entries
\* of a directory that are.
Inputs(argv) ==
    UNION {IF argv[i] \in DOMAIN Dirs THEN Dirs[argv[i]] \cap Regular
                                      ELSE {argv[i]} : i \in DOMAIN argv}

\* The type of the state of the driver: the registry, the environment, the
\* place of main() and what it has read and tested.
TypeOK ==
    /\ env \in Envs
    /\ pc \in {"static", "main", "engine", "loop", "test", "target", "exit"}
    /\ registry \subseteq Compiled
    /\ g_fuzz_target \in Names \cup Compiled \cup {Placeholder, Null}
    /\ g_test_one_input \in Compiled \cup {Null}
    /\ g_enable_dynamic_fuzz_determinism \in BOOLEAN
    /\ listed \in [stdout : SUBSET Compiled, file : SUBSET Compiled]
    /\ exit \in {Null, EXIT_SUCCESS, EXIT_FAILURE, SIGABRT}
    /\ handler \in BOOLEAN
    /\ files \subseteq Regular
    /\ buffer \in 0..MaxFuel
    /\ g_input_path \in Paths \cup {Null}
    /\ tested \in 0..Cardinality(Regular)
    /\ ran \subseteq Regular

\* The type invariant of FuzzedSock, for the sockets of every target the
\* driver runs (FuzzedSock: the constructor and the methods).
SockTypeOK == Sock!TypeOK

\* FuzzedSock::Recv neither loses nor repeats a byte of the stream it makes
\* up, in every target of a process: the bytes taken from the provider for
\* a socket are the bytes its reads have delivered, followed by the bytes
\* m_peek_data still holds.
NoByteLostOrRepeated == Sock!NoByteLostOrRepeated

\* A method of a FuzzedSock that returns -1 and sets an errno its caller
\* retries on has used up input of the provider (the comment in
\* FuzzedSock::Recv on returning EAGAIN repeatedly), in every target of a
\* process.  GetSockName sets no errno: what its caller reads after a -1 is
\* the error of an earlier call.
TemporaryErrorsUseInput == Sock!TemporaryErrorsUseInput

\* main() runs the target on every regular file it is given exactly once,
\* in any order of a directory, and each time on the bytes of that file
\* alone: read_file appends to the buffer, and the buffer of the input
\* before is cleared.  When main returns after the loop, tested counts the
\* inputs.
EveryInputTestedOnce ==
    /\ (pc \in {"test", "target"} /\ handler) =>
           /\ buffer = Size[g_input_path]
           /\ g_input_path \notin ran
    /\ (pc = "exit" /\ exit = EXIT_SUCCESS /\ handler) =>
           /\ ran = Inputs(env.argv)
           /\ tested = Cardinality(ran)

\* A target runs only when FUZZ names a registered target, no listing was
\* asked for and the build can fuzz, and it is the named one; a listing
\* shows the targets that are not hidden and exits with success whether or
\* not FUZZ is set; every other start fails (initialize: the order of its
\* exits).
OnlyTheNamedTargetRuns ==
    /\ pc \in {"main", "engine", "loop", "test", "target"} =>
           /\ g_test_one_input = env.FUZZ
           /\ env.FUZZ \in Compiled
           /\ ~listing_mode
    /\ (pc = "exit" /\ listing_mode /\ g_fuzz_target # Null) =>
           /\ exit = EXIT_SUCCESS
           /\ env.PRINT_ALL_FUZZ_TARGETS_AND_ABORT =>
                  listed.stdout = Compiled \ Hidden
           /\ env.WRITE_ALL_FUZZ_TARGETS_AND_ABORT =>
                  listed.file = Compiled \ Hidden

=============================================================================
