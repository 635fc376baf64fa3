------------------------------ MODULE MCBundle ------------------------------
(***************************************************************************)
(* Bundle for TLC.  The driver is that of the fuzz run: three compiled     *)
(* targets, one of them hidden, and a name no target has.  build.sh runs   *)
(* on every combination of: a workspace of the runner and a ccache         *)
(* directory; a sanitizer; a fuzzing engine (not set, empty, a library); a *)
(* toolchain, one of Toolchains; a depends directory, one of Caches.       *)
(***************************************************************************)
EXTENDS Bundle

CONSTANTS s1, s2, t1, t2, t3, t4, dir, f1, f2, f3, sub

MCSocks == {s1, s2}
Symmetry == Permutations(MCSocks)

MCArgvs == {<<>>, <<dir, f3>>}
MCEngineArgv == <<[dashes |-> 1, rest |-> 6], [dashes |-> 0, rest |-> 6],
                  [dashes |-> 2, rest |-> 13], [dashes |-> 2, rest |-> 0]>>
MCDirs == dir :> {f1, f2, sub}
MCSize == (f1 :> 1) @@ (f2 :> 0) @@ (f3 :> 5)

Nowhere == [c \in {"CXX", "g++"} \X Libs |-> None]
File(d, lib) == [dir |-> d, lib |-> lib]

\* clang with libc++ and the libstdc++ of the system, each in its directory;
\* clang with both libraries in one directory; g++ alone, its library only
\* as a name; a compiler that names a directory that is not there; none.
Toolchains ==
    {[installed |-> {"CXX", "g++"},
      print |-> [Nowhere EXCEPT ![<<"CXX", "libc++.a">>] = "llvm",
                                ![<<"CXX", "libstdc++.so">>] = "gcc",
                                ![<<"g++", "libstdc++.so">>] = "gcc"],
      dirs |-> {"llvm", "gcc"}, files |-> {File("gcc", "libstdc++.so")},
      LIBRARY_PATH |-> <<"lib">>],
     [installed |-> {"CXX"},
      print |-> [Nowhere EXCEPT ![<<"CXX", "libc++.a">>] = "llvm",
                                ![<<"CXX", "libstdc++.a">>] = "llvm"],
      dirs |-> {"llvm"}, files |-> {File("llvm", "libstdc++.a")},
      LIBRARY_PATH |-> <<>>],
     [installed |-> {"g++"},
      print |-> [Nowhere EXCEPT ![<<"CXX", "libc++.a">>] = "llvm",
                                ![<<"g++", "libstdc++.so">>] = "gcc"],
      dirs |-> {"gcc"}, files |-> {},
      LIBRARY_PATH |-> <<>>],
     [installed |-> {"CXX"},
      print |-> [Nowhere EXCEPT ![<<"CXX", "libc++.a">>] = "gone",
                                ![<<"CXX", "libstdc++.a">>] = "gone"],
      dirs |-> {}, files |-> {},
      LIBRARY_PATH |-> <<>>],
     [installed |-> {}, print |-> Nowhere, dirs |-> {}, files |-> {},
      LIBRARY_PATH |-> <<>>]}

\* No depends directory; one with a stamp and no toolchain file; one with
\* the toolchain file and no stamp; a whole one; a whole one that is to be
\* built again.
Caches ==
    {[depends |-> [dir |-> FALSE, toolchain |-> FALSE, stamp |-> FALSE],
      FORCE_DEPENDS_BUILD |-> FALSE],
     [depends |-> [dir |-> TRUE, toolchain |-> FALSE, stamp |-> TRUE],
      FORCE_DEPENDS_BUILD |-> FALSE],
     [depends |-> [dir |-> TRUE, toolchain |-> TRUE, stamp |-> FALSE],
      FORCE_DEPENDS_BUILD |-> FALSE],
     [depends |-> [dir |-> TRUE, toolchain |-> TRUE, stamp |-> TRUE],
      FORCE_DEPENDS_BUILD |-> FALSE],
     [depends |-> [dir |-> TRUE, toolchain |-> TRUE, stamp |-> TRUE],
      FORCE_DEPENDS_BUILD |-> TRUE]}

MCRunners ==
    {[GITHUB_WORKSPACE |-> w, CCACHE_DIR |-> c, SANITIZER |-> s,
      LIB_FUZZING_ENGINE |-> e] @@ t @@ d :
        w \in BOOLEAN, c \in {Unset, "host", "other"},
        s \in {Unset, "memory"}, e \in {Unset, "", "-fsanitize=fuzzer"},
        t \in Toolchains, d \in Caches}

=============================================================================
