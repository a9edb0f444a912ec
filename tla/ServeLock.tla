----------------------------- MODULE ServeLock -----------------------------
(***************************************************************************)
(* The pidfile of `sapient serve` (sapient-cli, server.rs): acquire reads  *)
(* it, tests whether its process lives, and writes its own; dropping the   *)
(* lock removes the file; a crash leaves it behind.                        *)
(***************************************************************************)
EXTENDS Naturals, FiniteSets

CONSTANTS
    Servers,    \* the processes that run `sapient serve`, each once
    NoServer

ASSUME LockAssumption == NoServer \notin Servers

VARIABLES
    pidfile,    \* whose pid the file holds, NoServer if there is none
    server,     \* server -> new, checked, serving, refused, exited
    overlap     \* history: one began to acquire while another was between its check and its write

lockVars == <<pidfile, server, overlap>>

LockInit ==
    /\ pidfile = NoServer
    /\ server = [s \in Servers |-> "new"]
    /\ overlap = FALSE

SetServer(s, st) == server' = [server EXCEPT ![s] = st]

\* kill(pid, 0): a process that has been started and has not ended.
PidAlive(s) == s # NoServer /\ server[s] \in {"checked", "serving"}

\* acquire reads the file: another live process holds the lock, or it is free or stale.
CheckLock(s) ==
    /\ server[s] = "new"
    /\ ~PidAlive(pidfile)
    /\ SetServer(s, "checked")
    /\ overlap' = (overlap \/ \E o \in Servers : server[o] = "checked")
    /\ UNCHANGED pidfile

\* Mutant: the lock that was not taken is dropped.
Refused_Removes(s) ==
    /\ server[s] = "new"
    /\ PidAlive(pidfile)
    /\ SetServer(s, "refused")
    /\ pidfile' = NoServer
    /\ UNCHANGED overlap

\* No ServeLock is made, so that the file stays.
Refused(s) ==
    /\ server[s] = "new"
    /\ PidAlive(pidfile)
    /\ SetServer(s, "refused")
    /\ UNCHANGED <<pidfile, overlap>>

\* std::fs::write, whatever the file holds by now.
WriteLock(s) ==
    /\ server[s] = "checked"
    /\ pidfile' = s
    /\ SetServer(s, "serving")
    /\ UNCHANGED overlap

\* Drop removes the file, whoever wrote it; a process that is killed does not.
ExitServer(s) ==
    /\ server[s] = "serving"
    /\ pidfile' = NoServer
    /\ SetServer(s, "exited")
    /\ UNCHANGED overlap

Crash(s) ==
    /\ PidAlive(s)
    /\ SetServer(s, "exited")
    /\ UNCHANGED <<pidfile, overlap>>

LockNext == \E s \in Servers : CheckLock(s) \/ Refused(s) \/ WriteLock(s) \/ ExitServer(s) \/ Crash(s)

LockSpec == LockInit /\ [][LockNext]_lockVars

-----------------------------------------------------------------------------

Serving == {s \in Servers : server[s] = "serving"}

\* As long as no two servers check the lock at the same time, at most one serves, through
\* refusals, exits and crashes, and it is the one the file names.  (Two that do overlap both
\* serve: the read and the write are not one step.)
OneServer ==
    ~overlap =>
        /\ \A s, t \in Serving : s = t
        /\ \A s \in Serving : pidfile = s
=============================================================================
