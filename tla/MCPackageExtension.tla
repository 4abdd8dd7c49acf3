------------------------- MODULE MCPackageExtension -------------------------
(***************************************************************************)
(* Two platforms whose libraries have one suffix, so that each is found    *)
(* for the other, and hosts of every kind detect_platform_id tells apart.  *)
(***************************************************************************)
EXTENDS PackageExtension

MCSuffix == [p \in Platforms |-> ".so"]

MCPathLen == [d \in Dirs \cup Platforms |->
  CASE d = "top" -> 0 [] d = "arm64-linux" -> 25 [] OTHER -> 26]

MCCalls ==
  [lib : {Search}, assemble : BOOLEAN, dry : BOOLEAN]
    \cup {[lib |-> [dir |-> "top", name |-> "lib", suffix |-> ".so"], assemble |-> TRUE, dry |-> FALSE]}

Machine(system, machine, wide, platform) ==
  [system |-> system, machine |-> machine, wide |-> wide, platform |-> platform]

MCHosts ==
  {Machine("Linux", "x86_64", TRUE, "x86_64-linux"), Machine("Linux", "aarch64", TRUE, "arm64-linux"),
   Machine("Windows", "amd64", TRUE, "x86_64-win32"), Machine("Windows", "arm64", TRUE, "arm64-win32"),
   Machine("Darwin", "arm64", TRUE, "universal-mac"), Machine("Linux", "riscv64", TRUE, "other")}
=============================================================================
