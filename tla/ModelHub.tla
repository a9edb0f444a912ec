------------------------------- MODULE ModelHub -------------------------------
(***************************************************************************)
(* Loading a model from the Hugging Face Hub into the cache that all       *)
(* processes share (sapient-hub, client.rs; sapient-cli, hub.rs).  A model *)
(* is a configuration and weights in several shards: a split GGUF, whose   *)
(* file names tell the other shards, or safetensors.                       *)
(*                                                                         *)
(* hf-hub itself is external: get() returns a cached file, or downloads it *)
(* under a lock of its own into a resumable part file, which it renames    *)
(* when it is complete; while another holds the lock, it gives up.  What   *)
(* fails does so because the Hub cannot be reached.                        *)
(***************************************************************************)
EXTENDS Integers, FiniteSets, Sequences

CONSTANTS
    Loaders,    \* processes that load the model
    SHARDS,     \* its weight files
    WORKERS,    \* max_parallel_downloads
    RETRIES,    \* of a download (5 in the code)
    OUTAGES,    \* bound: how often the Hub becomes unreachable
    KILLS,      \* bound: how often a process is killed while it loads
    CLEANUPS,   \* bound: how often the cache is cleaned up
    NoGetter

ASSUME HubAssumption == SHARDS \in Nat \ {0} /\ {WORKERS, RETRIES, OUTAGES, KILLS, CLEANUPS} \subseteq Nat

VARIABLES
    format,     \* "gguf" or "safetensors"
    online,     \* the Hub can be reached
    outages, kills,
    blob,       \* per shard: "absent", "part" or "whole"
    config,     \* config.json is in the cache
    holder,     \* per shard: who holds its lock
    load,       \* per process: what its download() does
    task,       \* per process and shard: its spawned download
    cleanups, cleared   \* cleared: the model has been deleted from the cache

hubVars == <<format, online, outages, kills, blob, config, holder, load, task, cleanups, cleared>>

Shards == 1 .. SHARDS
AllShards == [i \in Shards |-> i]
NoTask == [pc |-> "none", tries |-> 0]
Idle == [pc |-> "idle", fast |-> TRUE, names |-> <<>>, paths |-> <<>>, tries |-> 0, config |-> FALSE]
Getter(p, f, who) == <<p, f, who>>

HubInit ==
    /\ format \in {"gguf", "safetensors"}
    /\ online = TRUE /\ outages = 0 /\ kills = 0
    /\ blob = [f \in Shards |-> "absent"] /\ config = FALSE /\ holder = [f \in Shards |-> NoGetter]
    /\ load = [p \in Loaders |-> Idle]
    /\ task = [p \in Loaders |-> [f \in Shards |-> NoTask]]
    /\ cleanups = 0 /\ cleared = FALSE

-----------------------------------------------------------------------------
(* get() of one file.                                                      *)

GetBegins(g, f) ==
    /\ online /\ blob[f] # "whole" /\ holder[f] = NoGetter
    /\ holder' = [holder EXCEPT ![f] = g]
    /\ blob' = [blob EXCEPT ![f] = "part"]

\* The file is in the cache, or has been received.
GetReturns(g, f) ==
    \/ blob[f] = "whole" /\ UNCHANGED <<blob, holder>>
    \/ /\ holder[f] = g /\ online
       /\ blob' = [blob EXCEPT ![f] = "whole"]
       /\ holder' = [holder EXCEPT ![f] = NoGetter]

\* The Hub does not answer, or another download holds the lock for too long; parts stay.
GetFails(g, f) ==
    /\ blob[f] # "whole"
    /\ ~online \/ holder[f] \notin {g, NoGetter}
    /\ holder' = IF holder[f] = g THEN [holder EXCEPT ![f] = NoGetter] ELSE holder
    /\ UNCHANGED blob

HubOutside == UNCHANGED <<format, online, outages, kills, cleanups, cleared>>

-----------------------------------------------------------------------------
(* download, resolve_files and fetch_weights of one process.               *)

Download(p) ==
    /\ load[p].pc = "idle"
    /\ load' = [load EXCEPT ![p].pc = "listing"]
    /\ UNCHANGED <<blob, config, holder, task>> /\ HubOutside

\* cached_repo_files: what the snapshot links to, sorted: the i-th file is the one with i up to it.
CachedFiles ==
    LET cached == {f \in Shards : blob[f] = "whole"}
    IN  [i \in 1 .. Cardinality(cached) |-> CHOOSE f \in cached : Cardinality({g \in cached : g <= f}) = i]

\* Mutant: the cached shards of a split GGUF are not completed to all of its shards.
Chosen_AsListed(names) == names

\* What is downloaded for a listing: a shard of a GGUF stands for all (gguf_split_shards).
Chosen(names) == IF format = "gguf" /\ names # <<>> THEN AllShards ELSE names

\* resolve_files asks for config.json and the others at the same time, an error being "not there";
\* fetch_weights as far as the choice of files; offline, the cache is listed instead.
ListFiles(p) ==
    /\ load[p].pc = "listing"
    /\ config' \in IF config THEN {TRUE} ELSE {FALSE, online}
    /\ LET names == Chosen(IF online THEN AllShards ELSE CachedFiles)
           parallel == Len(names) > 1 /\ load[p].fast
       IN  /\ load' = [load EXCEPT ![p].names = names, ![p].paths = <<>>, ![p].tries = 0, ![p].config = config',
                                   ![p].pc = IF names = <<>> THEN "failed" ELSE IF parallel THEN "parallel" ELSE "sequential"]
           /\ task' = IF parallel THEN [task EXCEPT ![p] = [f \in Shards |-> [NoTask EXCEPT !.pc = "queued"]]] ELSE task
    /\ UNCHANGED <<blob, holder>> /\ HubOutside

Got(p, f) ==
    LET paths == Append(load[p].paths, f)
    IN  [load EXCEPT ![p].paths = paths, ![p].tries = 0, ![p].pc = IF Len(paths) = Len(load[p].names) THEN "fetched" ELSE @]

\* download_files_sequential: file by file, each tried again after a pause.
Sequential(p) ==
    /\ load[p].pc = "sequential"
    /\ LET f == load[p].names[Len(load[p].paths) + 1]
           g == Getter(p, f, "loader")
       IN  \/ GetBegins(g, f) /\ UNCHANGED load
           \/ GetReturns(g, f) /\ load' = Got(p, f)
           \/ GetFails(g, f) /\ load' = IF load[p].tries < RETRIES THEN [load EXCEPT ![p].tries = @ + 1]
                                        ELSE [load EXCEPT ![p].pc = "failed"]
    /\ UNCHANGED <<config, task>> /\ HubOutside

Running(p) == {f \in Shards : task[p][f].pc = "running"}

\* The spawned downloads of download_files_parallel; they go on when no one awaits them.
TaskStep(p, f) ==
    /\ LET g == Getter(p, f, "task")
       IN  \/ /\ task[p][f].pc = "queued" /\ Cardinality(Running(p)) < WORKERS
              /\ task' = [task EXCEPT ![p][f].pc = "running"]
              /\ UNCHANGED <<blob, holder>>
           \/ /\ task[p][f].pc = "running"
              /\ \/ GetBegins(g, f) /\ UNCHANGED task
                 \/ GetReturns(g, f) /\ task' = [task EXCEPT ![p][f].pc = "done"]
                 \/ GetFails(g, f) /\ task' = IF task[p][f].tries < RETRIES THEN [task EXCEPT ![p][f].tries = @ + 1]
                                              ELSE [task EXCEPT ![p][f].pc = "failed"]
    /\ UNCHANGED <<config, load>> /\ HubOutside

\* The handles are awaited in the order of the names; the first error ends it.
AwaitHandle(p) ==
    /\ load[p].pc = "parallel"
    /\ LET f == load[p].names[Len(load[p].paths) + 1]
       IN  \/ task[p][f].pc = "done" /\ load' = Got(p, f)
           \/ task[p][f].pc = "failed" /\ load' = [load EXCEPT ![p].pc = "failed"]
    /\ UNCHANGED <<blob, config, holder, task>> /\ HubOutside

\* All parts of resolve_files are there; an error of the fast download is answered by a new
\* start in safe mode.  A GGUF needs no configuration.
Resolve(p) ==
    /\ load[p].pc \in {"fetched", "failed"}
    /\ LET good == load[p].pc = "fetched" /\ (load[p].config \/ format = "gguf")
       IN  load' = [load EXCEPT ![p] = IF good THEN [@ EXCEPT !.pc = "ok"]
                                       ELSE IF load[p].fast THEN [Idle EXCEPT !.pc = "listing", !.fast = FALSE]
                                       ELSE [@ EXCEPT !.pc = "error"]]
    /\ UNCHANGED <<blob, config, holder, task>> /\ HubOutside

LoaderStep(p) == ListFiles(p) \/ Sequential(p) \/ AwaitHandle(p) \/ Resolve(p) \/ \E f \in Shards : TaskStep(p, f)

-----------------------------------------------------------------------------
(* What happens around them.                                               *)

\* The process ends, with all of its downloads, and may be started again; the system releases
\* its locks.
EndProcess(p) ==
    /\ load[p].pc # "idle"
    /\ kills' = IF load[p].pc \in {"ok", "error"} THEN kills ELSE kills + 1
    /\ kills' <= KILLS
    /\ load' = [load EXCEPT ![p] = Idle]
    /\ task' = [task EXCEPT ![p] = [f \in Shards |-> NoTask]]
    /\ holder' = [f \in Shards |-> IF holder[f] # NoGetter /\ holder[f][1] = p THEN NoGetter ELSE holder[f]]
    /\ UNCHANGED <<format, online, outages, blob, config, cleanups, cleared>>

ConnectionFails ==
    /\ online /\ outages < OUTAGES
    /\ online' = FALSE /\ outages' = outages + 1
    /\ UNCHANGED <<format, kills, blob, config, holder, load, task, cleanups, cleared>>

ConnectionReturns ==
    /\ ~online /\ online' = TRUE
    /\ UNCHANGED <<format, outages, kills, blob, config, holder, load, task, cleanups, cleared>>

Cleans == cleanups < CLEANUPS /\ cleanups' = cleanups + 1

\* clear_stale_downloads removes part files and locks, those of running downloads too: they have
\* to begin again.
ClearStale ==
    /\ Cleans /\ \E f \in Shards : blob[f] = "part"
    /\ blob' = [f \in Shards |-> IF blob[f] = "part" THEN "absent" ELSE blob[f]]
    /\ holder' = [f \in Shards |-> NoGetter]
    /\ UNCHANGED <<format, online, outages, kills, config, load, task, cleared>>

\* clear_cached_model removes everything.
ClearModel ==
    /\ Cleans /\ (config \/ \E f \in Shards : blob[f] # "absent")
    /\ blob' = [f \in Shards |-> "absent"] /\ config' = FALSE /\ cleared' = TRUE
    /\ holder' = [f \in Shards |-> NoGetter]
    /\ UNCHANGED <<format, online, outages, kills, load, task>>

HubNext ==
    \/ \E p \in Loaders : Download(p) \/ LoaderStep(p) \/ EndProcess(p)
    \/ ConnectionFails \/ ConnectionReturns \/ ClearStale \/ ClearModel

\* A process that loads goes on (downloads end, locks and pauses time out).
HubFairness == \A p \in Loaders : WF_hubVars(LoaderStep(p))
HubSpec == HubInit /\ [][HubNext]_hubVars /\ HubFairness

-----------------------------------------------------------------------------
(* Properties.                                                             *)

HubTypeOK ==
    /\ blob \in [Shards -> {"absent", "part", "whole"}]
    /\ holder \in [Shards -> {NoGetter} \cup {Getter(p, f, w) : p \in Loaders, f \in Shards, w \in {"loader", "task"}}]
    /\ task \in [Loaders -> [Shards -> [pc : {"none", "queued", "running", "done", "failed"}, tries : 0 .. RETRIES]]]

\* list_cached_models shows the model: something is in its snapshot and nothing is in part.
Listed == (config \/ \E f \in Shards : blob[f] = "whole") /\ \A f \in Shards : blob[f] # "part"

\* A load that succeeds hands out the weights of the whole model, in order, and, unless someone
\* deletes the model, they are there: although fast downloads are abandoned half-way and go on
\* beside the safe ones, the process is killed and started again, parts are swept away, and the
\* Hub comes and goes.  (Offline, a safetensors model is taken to be what of it is cached:
\* client.rs:401-416.)  And once a load has ended so, undisturbed, the list shows the model.
ModelIsWhole ==
    \A p \in Loaders :
        LET partial == format = "safetensors" /\ Len(load[p].names) < SHARDS
        IN  load[p].pc = "ok" /\ ~partial =>
                /\ load[p].paths = AllShards
                /\ cleared \/ ((\A f \in Shards : blob[f] = "whole") /\ Listed)

\* Every load ends, with the files or with an error (or the process does).
LoadEnds == \A p \in Loaders : (load[p].pc = "listing") ~> (load[p].pc \in {"ok", "error", "idle"})
==============================================================================
