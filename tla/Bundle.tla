------------------------------- MODULE Bundle -------------------------------
(***************************************************************************)
(* The ClusterFuzzLite build (.clusterfuzzlite/build.sh) composed with the *)
(* fuzz driver it builds.  The script runs under set -e: a command that    *)
(* fails ends it with status 1.  It starts the fuzz binary once, to list   *)
(* the targets, and writes one copy of the binary per target to $OUT with  *)
(* the name of the target written over FuzzTargetPlaceholder.  After it, a *)
(* process of the driver starts: of a binary of the bundle, as the replay  *)
(* of the bad build check and the fuzzing engine start it, or of any other *)
(* build of the driver, by hand.                                           *)
(*                                                                         *)
(* $WORK and $OUT are empty when the script starts.  A file is its name;   *)
(* of a copy of the binary only the placeholder is kept.  The dictionaries *)
(* the script copies are not told apart.                                   *)
(***************************************************************************)
EXTENDS FuzzDriver, SequencesExt

CONSTANTS
    Runners,    \* where build.sh runs: environment, compilers, caches
    MAGIC_STR,  \* the string build.sh replaces in the binary
    Corpora,    \* the targets with a directory under assets/fuzz_corpora
    Unset,      \* a variable of the environment that is not set
    None        \* no file

VARIABLES
    sh,     \* the shell of build.sh: where it is, and what it still needs
    OUT     \* $OUT: the placeholder of each binary, the corpora, the marker

shellVars == <<sh, OUT>>
driverVars == <<sockVars, env, pc, exit, initVars, mainVars>>

Libs == {"libc++.a", "libstdc++.so", "libstdc++.a"}

Exited(status) == [at |-> "exit", status |-> status]

\* set -e, set -u: the script ends where a command fails.
Fails == sh' = Exited(1)

-----------------------------------------------------------------------------
(* What the script works out before it builds *)

\* The ccache directory becomes a link into the workspace of the runner.
LinksCcache(given) ==
    given.GITHUB_WORKSPACE /\ given.CCACHE_DIR \notin {Unset, "host"}

\* Mutation: the sanitizer is passed on as it is given.
SANITIZER_CHOICE_NoDefault(given) == given.SANITIZER

SANITIZER_CHOICE(given) ==
    IF given.SANITIZER = Unset THEN "address" ELSE given.SANITIZER

\* -print-file-name of a compiler that is installed: the directory of the
\* library, None when the compiler answers with the bare name or fails.
Directory(given, compiler, lib) ==
    IF compiler \in given.installed THEN given.print[compiler, lib] ELSE None

\* libstdc++.so before libstdc++.a
Stdcpp(given, compiler) ==
    LET lib == IF Directory(given, compiler, "libstdc++.so") # None
               THEN "libstdc++.so" ELSE "libstdc++.a"
    IN  IF Directory(given, compiler, lib) = None THEN None
        ELSE [dir |-> Directory(given, compiler, lib), lib |-> lib]

DEFAULT_LIBCPP_DIR(given) == Directory(given, "CXX", "libc++.a")

\* $CXX before g++
SYSTEM_LIBSTDCPP_FILE(given) ==
    IF Stdcpp(given, "CXX") # None THEN Stdcpp(given, "CXX")
    ELSE Stdcpp(given, "g++")

SYSTEM_LIBSTDCPP_DIR(given) ==
    IF SYSTEM_LIBSTDCPP_FILE(given) = None THEN None
    ELSE SYSTEM_LIBSTDCPP_FILE(given).dir

LIB_SEARCH_PATHS(given) ==
    SelectSeq(<<SYSTEM_LIBSTDCPP_DIR(given)>>,
              LAMBDA dir : dir \in given.dirs)
    \o SelectSeq(<<DEFAULT_LIBCPP_DIR(given)>>,
                 LAMBDA dir : /\ dir \in given.dirs
                              /\ dir # SYSTEM_LIBSTDCPP_DIR(given))

\* Each directory goes before what LIBRARY_PATH and LD_LIBRARY_PATH hold
\* and behind what LDFLAGS holds; the runtime path of libc++ is added when
\* there is any directory.
Exported(given) ==
    LET paths == LIB_SEARCH_PATHS(given)
    IN  [LIBRARY_PATH |-> Reverse(paths) \o given.LIBRARY_PATH,
         LDFLAGS |-> paths,
         rpath |-> IF paths # <<>> THEN DEFAULT_LIBCPP_DIR(given) ELSE None]

\* -lstdc++: the library by its name, in the directories of the linker.
ByName == [dir |-> None, lib |-> "stdc++"]

\* The fuzzing engine, then the C++ library: the file found, when it
\* exists, or -lstdc++.
FUZZ_LIBS_VALUE(given) ==
    SelectSeq(<<given.LIB_FUZZING_ENGINE>>, LAMBDA lib : lib # "")
    \o <<IF SYSTEM_LIBSTDCPP_FILE(given) \in given.files
         THEN SYSTEM_LIBSTDCPP_FILE(given) ELSE ByName>>

\* Mutation: a stamp is taken for a whole cache.
DEPENDS_STAMP_PRESENT_StampOnly(given) == given.depends.stamp

\* The directory and the toolchain file; find -print -quit succeeds whether
\* or not it meets a stamp, so the stamp decides nothing.
DEPENDS_STAMP_PRESENT(given) ==
    given.depends.dir /\ given.depends.toolchain

NEED_DEPENDS_BUILD(given) ==
    given.FORCE_DEPENDS_BUILD \/ ~DEPENDS_STAMP_PRESENT(given)

\* What cmake is called with.
Cmake(given) ==
    [SANITIZERS |-> SANITIZER_CHOICE(given),
     FUZZ_LIBS |-> FUZZ_LIBS_VALUE(given),
     exported |-> Exported(given),
     EXTRA_CMAKE_ARGS |-> IF SANITIZER_CHOICE(given) = "memory"
                          THEN {"-U_FORTIFY_SOURCE"} ELSE {}]

-----------------------------------------------------------------------------
(* build.sh *)

\* cd, the link of the ccache directory, the flags.  LIB_FUZZING_ENGINE is
\* expanded without a default.
Prepare ==
    /\ sh.at = "prepare"
    /\ \/ /\ sh.given.LIB_FUZZING_ENGINE # Unset
          /\ sh' = [sh EXCEPT !.at = "depends",
                              !.linked = LinksCcache(sh.given)]
       \/ Fails
    /\ UNCHANGED <<OUT, driverVars>>

\* make in depends, unless its outputs are cached; it leaves the toolchain
\* file.
Depends ==
    /\ sh.at = "depends"
    /\ IF NEED_DEPENDS_BUILD(sh.given)
       THEN sh' = [sh EXCEPT !.at = "configure", !.toolchain = TRUE] \/ Fails
       ELSE sh' = [sh EXCEPT !.at = "configure"]
    /\ UNCHANGED <<OUT, driverVars>>

\* cmake -B build_fuzz --toolchain
Configure ==
    /\ sh.at = "configure"
    /\ \/ /\ sh.toolchain
          /\ sh' = [sh EXCEPT !.at = "compile", !.cmake = Cmake(sh.given)]
       \/ Fails
    /\ UNCHANGED <<OUT, driverVars>>

\* cmake --build build_fuzz
Compile ==
    /\ sh.at = "compile"
    /\ sh' = [at |-> "list"] \/ Fails
    /\ UNCHANGED <<OUT, driverVars>>

\* The fuzz binary runs with WRITE_ALL_FUZZ_TARGETS_AND_ABORT.
Lists ==
    /\ sh.at = "list"
    /\ Next
    /\ UNCHANGED shellVars

\* || true, readarray: the script goes on however the binary ended, and
\* also when it did not start; it ends without a name to read.
Listed ==
    /\ sh.at = "list"
    /\ pc = "exit" \/ registry = {}
    /\ IF listed.file = {} THEN Fails
       ELSE sh' = [at |-> "bundle", FUZZ_TARGETS |-> listed.file]
    /\ UNCHANGED <<OUT, driverVars>>

\* dat.replace: the name and its null character over the start of the
\* placeholder.
Patched(dat, fuzz_target) == IF dat = MAGIC_STR THEN fuzz_target ELSE dat

\* Mutation: the loop goes on after a command that failed.
BundleTarget_GoesOn ==
    /\ sh.at = "bundle"
    /\ \E fuzz_target \in sh.FUZZ_TARGETS :
           /\ sh' = [sh EXCEPT !.FUZZ_TARGETS = @ \ {fuzz_target}]
           /\ UNCHANGED OUT
    /\ UNCHANGED driverVars

\* One pass of the loop: the binary with its placeholder patched, and the
\* corpus of the target where there is one.  python3 or chmod fails before
\* there is a binary to run, zip after (it does on a directory without a
\* file, which the test with find lets through).
BundleTarget ==
    /\ sh.at = "bundle"
    /\ \E fuzz_target \in sh.FUZZ_TARGETS :
       LET binary == fuzz_target :> Patched(Placeholder, fuzz_target)
       IN  \/ /\ OUT' = [OUT EXCEPT
                            !.bin = binary @@ @,
                            !.corpus = @ \cup ({fuzz_target} \cap Corpora)]
              /\ sh' = [sh EXCEPT !.FUZZ_TARGETS = @ \ {fuzz_target}]
           \/ Fails /\ UNCHANGED OUT
           \/ /\ fuzz_target \in Corpora
              /\ OUT' = [OUT EXCEPT !.bin = binary @@ @]
              /\ Fails
    /\ UNCHANGED driverVars

\* After the loop: the marker, the dictionaries, the listing of $OUT.  find
\* does not tell of a cp that failed; what it cannot read ends the script
\* with the marker written.
Marks ==
    /\ sh.at = "bundle"
    /\ sh.FUZZ_TARGETS = {}
    /\ \/ OUT' = [OUT EXCEPT !.marker = TRUE] /\ sh' \in {Exited(0), Exited(1)}
       \/ Fails /\ UNCHANGED OUT
    /\ UNCHANGED driverVars

-----------------------------------------------------------------------------
(* The processes of the driver *)

\* What -DBUILD_FOR_FUZZING=ON and
\* -DFUZZ_BINARY_LINKS_WITHOUT_MAIN_FUNCTION=ON make of the binary.
Built(e) ==
    /\ e.G_FUZZING_BUILD
    /\ e.entry = "LLVMFuzzerInitialize"

\* A binary of the bundle holds the placeholder build.sh left in it.
Bundled(e) ==
    /\ Built(e)
    /\ \E fuzz_target \in DOMAIN OUT.bin : e.placeholder = OUT.bin[fuzz_target]

\* A process starts on a binary of the bundle or on one nothing was
\* written over.
Starts ==
    /\ sh = Exited(0)
    /\ sh' = [sh EXCEPT !.at = "replay"]
    /\ \E e \in Envs :
           /\ Bundled(e) \/ e.placeholder = Placeholder
           /\ env' = e
    /\ pc' = "static" /\ exit' = Null
    /\ registry' = {} /\ g_args' = <<>> /\ g_fuzz_target' = Null
    /\ g_test_one_input' = Null
    /\ g_enable_dynamic_fuzz_determinism' = FALSE
    /\ listed' = [stdout |-> {}, file |-> {}]
    /\ handler' = FALSE /\ todo' = <<>> /\ files' = {} /\ buffer' = 0
    /\ g_input_path' = Null /\ tested' = 0 /\ ran' = {}
    /\ fuel' = 0 /\ socks' = NoSocks /\ clock' = Sock!INITIAL_MOCK_TIME
    /\ r' = NoCall /\ hist' = NoSocks
    /\ UNCHANGED OUT

Runs ==
    /\ sh.at = "replay"
    /\ Next
    /\ UNCHANGED shellVars

-----------------------------------------------------------------------------

\* build.sh starts in an empty $OUT; the binary it will run to list the
\* targets is the one it builds.
BundleInit ==
    /\ Init
    /\ Built(env) /\ env.WRITE_ALL_FUZZ_TARGETS_AND_ABORT
    /\ env.placeholder = Placeholder
    /\ \E given \in Runners :
           sh = [at |-> "prepare", given |-> given, linked |-> FALSE,
                 toolchain |-> given.depends.toolchain, cmake |-> None]
    /\ OUT = [bin |-> <<>>, corpus |-> {}, marker |-> FALSE]

BundleNext ==
    \/ Prepare \/ Depends \/ Configure \/ Compile
    \/ Lists \/ Listed \/ BundleTarget \/ Marks
    \/ Starts \/ Runs

BundleSpec == BundleInit /\ [][BundleNext]_<<shellVars, driverVars>>

-----------------------------------------------------------------------------
(* Properties *)

\* The shell holds what its step reads: a runner with its variables up to
\* the compilation, with SANITIZER_CHOICE a sanitizer whatever SANITIZER
\* was; then nothing; in the loop the targets not yet bundled; at the end
\* its status.  $OUT holds binaries and corpora of compiled targets only.
ShellTypeOK ==
    /\ \/ sh \in [at : {"exit", "replay"}, status : {0, 1}]
       \/ sh = [at |-> "list"]
       \/ sh \in [at : {"bundle"}, FUZZ_TARGETS : SUBSET Compiled]
       \/ /\ sh.at \in {"prepare", "depends", "configure", "compile"}
          /\ sh.given \in Runners
          /\ sh.linked \in BOOLEAN /\ sh.toolchain \in BOOLEAN
          /\ sh.cmake # None => sh.cmake.SANITIZERS \in {"address", "memory"}
    /\ DOMAIN OUT.bin \subseteq Compiled
    /\ OUT.corpus \subseteq Corpora
    /\ OUT.marker \in BOOLEAN

\* The type invariant of the composition: the shell of build.sh, the fuzz
\* process it bundles (FuzzDriver: initialize and main) and the sockets of
\* the targets that process runs (FuzzedSock).
BundleTypeOK == ShellTypeOK /\ TypeOK /\ SockTypeOK

\* The marker .sv2-clusterfuzzlite tells of a whole bundle: with it in
\* $OUT there is a binary for every target the driver registers and does
\* not hide, and for no other, each with its own name for a placeholder,
\* and the corpus of each that has one.  The script writes the marker after
\* the loop and ends at the first command of the loop that fails.
MarkerMeansComplete ==
    OUT.marker =>
        /\ DOMAIN OUT.bin = Compiled \ Hidden
        /\ \A fuzz_target \in DOMAIN OUT.bin : OUT.bin[fuzz_target] = fuzz_target
        /\ OUT.corpus = Corpora \ Hidden

\* cmake is pointed to what is there.  The toolchain file exists when cmake
\* is called, whether depends was built or its cached outputs were taken:
\* DEPENDS_STAMP_PRESENT asks for the file, a stamp alone does not spare
\* the build.  The library directories passed on exist, each is passed once
\* (the test against SYSTEM_LIBSTDCPP_DIR), and behind the fuzzing engine
\* comes a C++ library that exists or -lstdc++.
ConfiguredWithWhatExists ==
    /\ sh.at = "configure" => sh.toolchain
    /\ sh.at = "compile" =>
           /\ LET paths == sh.cmake.exported.LDFLAGS
              IN  /\ IsInjective(paths)
                  /\ \A i \in DOMAIN paths : paths[i] \in sh.given.dirs
           /\ Last(sh.cmake.FUZZ_LIBS) \in {ByName} \cup sh.given.files

=============================================================================
