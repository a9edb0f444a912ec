----------------------------- MODULE SelfUpdate -----------------------------
(***************************************************************************)
(* `sapient update`: download the latest release and install it over the   *)
(* running binary (sapient-cli, update.rs).  It may be killed between any  *)
(* two steps, a copy half-way, any of its file operations may fail, and it *)
(* may be run again; one runs at a time.                                   *)
(*                                                                         *)
(* The releases are external: an archive holds the binary of a version and *)
(* variant and, in the Metal build, the shader library that the binary     *)
(* loads from its own directory.  The archive may arrive corrupt, and its  *)
(* checksum may be missing.                                                *)
(***************************************************************************)
EXTENDS Integers

CONSTANTS
    UPDATES     \* bound: how often an update is started

VARIABLES
    machine,    \* the system, and whether a GPU build runs on it
    exe,        \* the installed binary
    backup,        \* sapient.exe.old: the binary before it, on Windows
    lib,        \* the version of the shader library beside the binary
    staged,     \* the staging directory
    up,         \* the update that runs: its step, build, archive and copy
    started,    \* updates started
    halted      \* an installation was killed or failed half-way

upVars == <<machine, exe, backup, lib, staged, up, started, halted>>

Latest == 2
Machines == [os : {"mac_arm", "unix", "windows"}, gpu : BOOLEAN]
Binary(ver, variant) == [ver |-> ver, variant |-> variant, whole |-> TRUE]
Nothing == [ver |-> 0, variant |-> "Cpu", whole |-> FALSE]
NoUpdate == [pc |-> "idle", target |-> "Cpu", got |-> Nothing, sound |-> TRUE]
Ended == {"idle", "current", "updated", "error", "killed"}

\* available_accel: Metal on Apple Silicon, else the GPU build where there is a GPU.
AvailableAccel == IF machine.os = "mac_arm" THEN {"Metal"} ELSE IF machine.gpu THEN {"Gpu"} ELSE {}
Installable == {"Cpu"} \cup AvailableAccel

UpInit ==
    /\ machine \in Machines
    /\ exe \in {Binary(v, k) : v \in 1 .. Latest, k \in Installable}
    /\ backup = Nothing /\ staged = Nothing
    /\ lib = IF exe.variant = "Metal" THEN exe.ver ELSE 0
    /\ up = NoUpdate /\ started = 0 /\ halted = FALSE

-----------------------------------------------------------------------------

\* resolve_variant: what is asked for, if it runs here; a choice at the terminal, where there is
\* one; else the same build.
ResolveVariant(explicit) ==
    IF explicit = "none" THEN {exe.variant} \cup (IF AvailableAccel = {} THEN {} ELSE Installable)
    ELSE {explicit} \cap Installable

\* run_update up to the download; the tag may not be had.
RunUpdate(explicit, force) ==
    /\ up.pc \in Ended /\ exe.whole /\ started < UPDATES
    /\ started' = started + 1
    /\ \/ \E target \in ResolveVariant(explicit) :
             LET needed == force \/ target # exe.variant \/ exe.ver < Latest
             IN  up' = [NoUpdate EXCEPT !.pc = IF needed THEN "download" ELSE "current", !.target = target]
       \/ up' = [NoUpdate EXCEPT !.pc = "error"]
    /\ UNCHANGED <<machine, exe, backup, lib, staged, halted>>

\* http_get_bytes and verify_sha256: without a checksum nothing is verified, and what a corrupt
\* archive unpacks to is installed if it unpacks at all.
Fetch ==
    /\ up.pc = "download"
    /\ \E intact, checksum \in BOOLEAN :
          up' = IF ~intact /\ checksum THEN [up EXCEPT !.pc = "error"]
                ELSE [up EXCEPT !.pc = "clear", !.sound = intact,
                                !.got = [Binary(Latest, up.target) EXCEPT !.whole = intact]]
    /\ UNCHANGED <<machine, exe, backup, lib, staged, started, halted>>

\* The staging directory is begun anew, and gets the binary and its library.
Stage ==
    /\ \/ up.pc = "clear" /\ staged' = Nothing /\ up' = [up EXCEPT !.pc = "stage"]
       \/ up.pc = "stage" /\ staged' = up.got /\ up' = [up EXCEPT !.pc = "install", !.got = Nothing]
    /\ UNCHANGED <<machine, exe, backup, lib, started, halted>>

\* Mutant: the staged binary is copied over the installed one.
InstallUnix_InPlace ==
    /\ machine.os # "windows"
    /\ \/ up.pc = "install" /\ exe' = Nothing /\ up' = [up EXCEPT !.pc = "rename", !.got = staged]
       \/ up.pc = "rename" /\ exe' = up.got /\ up' = [up EXCEPT !.pc = "library"]
    /\ UNCHANGED backup

\* replace_current_binary on Unix: copied beside the binary, then renamed onto it.
InstallUnix ==
    /\ machine.os # "windows"
    /\ \/ up.pc = "install" /\ up' = [up EXCEPT !.pc = "rename", !.got = staged] /\ UNCHANGED exe
       \/ up.pc = "rename" /\ exe' = up.got /\ up' = [up EXCEPT !.pc = "library"]
    /\ UNCHANGED backup

\* On Windows: the last backup goes, the running binary becomes the backup, the new one is copied.
InstallWindows ==
    /\ machine.os = "windows"
    /\ \/ up.pc = "install" /\ backup' = Nothing /\ up' = [up EXCEPT !.pc = "backup"] /\ UNCHANGED exe
       \/ up.pc = "backup" /\ backup' = exe /\ exe' = Nothing /\ up' = [up EXCEPT !.pc = "copy"]
       \/ up.pc = "copy" /\ exe' = staged /\ up' = [up EXCEPT !.pc = "library"] /\ UNCHANGED backup

Replace == (InstallUnix \/ InstallWindows) /\ UNCHANGED <<machine, lib, staged, started, halted>>

\* The library of a Metal build follows its binary; then the staging directory is removed.
InstallLibrary ==
    /\ up.pc = "library"
    /\ lib' = IF up.target = "Metal" THEN Latest ELSE lib
    /\ staged' = Nothing /\ up' = [up EXCEPT !.pc = "updated"]
    /\ UNCHANGED <<machine, exe, backup, started, halted>>

Installing == {"install", "rename", "backup", "copy", "library"}

\* A file operation fails or the process is killed; half of the library may be copied.
Halt ==
    /\ up.pc \notin Ended
    /\ \E how \in {"error", "killed"} : up' = [up EXCEPT !.pc = how]
    /\ lib' \in IF up.pc = "library" /\ up.target = "Metal" THEN {lib, 0} ELSE {lib}
    /\ halted' = (halted \/ up.pc \in Installing)
    /\ UNCHANGED <<machine, exe, backup, staged, started>>

UpNext ==
    \/ \E explicit \in {"none", "Cpu", "Metal", "Gpu"}, force \in BOOLEAN : RunUpdate(explicit, force)
    \/ Fetch \/ Stage \/ Replace \/ InstallLibrary \/ Halt

UpSpec == UpInit /\ [][UpNext]_upVars

-----------------------------------------------------------------------------

\* Wherever an update stops, the machine keeps a binary that runs: on Unix the installed one is
\* whole at every moment, on Windows it or the backup is (unless a corrupt archive without a
\* checksum was installed).  An update that says it is done has installed the build it chose and,
\* for Metal, the library of the same version; and as long as none was stopped while installing,
\* binary and library belong together.  (After that they may not, and "already up to date" is
\* all the next update says: update.rs:496 and 387-395.)
UpdateIsWhole ==
    LET whole == exe.whole \/ (machine.os = "windows" /\ backup.whole)
    IN  /\ up.sound => whole
        /\ up.pc = "updated" => /\ exe.ver = Latest /\ exe.variant = up.target
                                /\ up.target = "Metal" => lib = Latest
        /\ up.pc = "current" => exe.ver = Latest
        /\ up.pc \in Ended /\ exe.variant = "Metal" /\ ~halted => lib = exe.ver
=============================================================================
