------------------------------ MODULE WorkerNode ------------------------------
(***************************************************************************)
(* A Worker and the Cores it runs: the lifecycle handlers, the drivers and *)
(* their port allocator, the registry that survives a restart, and each    *)
(* Core's debounced state file.                                            *)
(*                                                                         *)
(* A handler is a coroutine of the Worker's event loop: what it does       *)
(* between two awaits is one step.  It waits for a Core to stop, for a     *)
(* Core to be spawned, and for `docker rm`.                                *)
(***************************************************************************)
EXTENDS Integers, FiniteSets

CONSTANTS
  Instances,    \* instance ids
  Edits,        \* changes of an instance's links, each made once
  Requests,     \* slots for lifecycle requests being served
  Drivers,      \* which drivers are looked at
  NumPorts,     \* size of the port range
  MaxCores,     \* bound of the model: processes or containers at a time
  MaxRequests,  \* bound of the model: lifecycle requests
  MaxFaults     \* bound of the model: crashes and failed commands

ASSUME WorkerAssumption ==
  /\ Drivers \subseteq {"process", "docker"} /\ Drivers # {}
  /\ NumPorts \in Nat \ {0} /\ MaxCores \in Nat \ {0}
  /\ MaxRequests \in Nat /\ MaxFaults \in Nat
  /\ "boot" \notin Requests

Ports == 1..NumPorts
Cores == 1..MaxCores
Jobs == Requests \cup {"boot"}

VARIABLES
  driver,    \* select_driver's choice
  up,        \* the Worker process runs
  handle,    \* driver.handles: the Core and the port of a known instance
  used,      \* PortAllocator.used
  job,       \* each request's, and the relaunch loop's, place in its handler
  left,      \* the relaunch loop's snapshot of the registry, less what is done
  registry,  \* registry.json: the port of each registered instance, or 0
  core,      \* the Core processes or containers of the node
  disk,      \* state.json of each instance: the edits it holds
  acked,     \* history: the edits that were answered with success
  upset,     \* history: instances with which one of the things below happened
  served, faults   \* counters of the bounds

coreVars == <<core, disk, acked>>
driverVars == <<handle, used>>
bounds == <<served, faults>>
vars == <<driver, up, handle, used, job, left, registry, core, disk, acked,
          upset, served, faults>>

NoHandle == [core |-> 0, port |-> 0]
NoJob == [op |-> "none", inst |-> "none", at |-> "idle", core |-> 0, port |-> 0]
NoCore == [inst |-> "none", port |-> 0, state |-> "none", mem |-> {}, saving |-> "no"]

Init ==
  /\ driver \in Drivers
  /\ up = TRUE
  /\ handle = [i \in Instances |-> NoHandle]
  /\ used = {}
  /\ job = [j \in Jobs |-> NoJob]
  /\ left = <<>>
  /\ registry = [i \in Instances |-> 0]
  /\ core = [c \in Cores |-> NoCore]
  /\ disk = [i \in Instances |-> {}]
  /\ acked = [i \in Instances |-> {}]
  /\ upset = {}
  /\ served = 0 /\ faults = 0

Known(i) == handle[i].core # 0
Live(c) == core[c].state \in {"starting", "serving", "stopping"}
Alone == driver = "process"

\* A process that ended leaves nothing; a container keeps its name until it
\* is removed.
Ended(c) ==
  IF Alone THEN NoCore
           ELSE [NoCore EXCEPT !.inst = core[c].inst, !.state = "exited"]

\* A process id is not given again while a handle or a request refers to it.
Unused(c) ==
  /\ core[c] = NoCore
  /\ \A i \in Instances : handle[i].core # c
  /\ \A j \in Jobs : job[j].core # c

Fault == faults < MaxFaults /\ faults' = faults + 1
NoFault == UNCHANGED faults

\* What makes an instance's Cores untended or its edits unsafe: two handlers
\* at work on it, a Core that outlives its Worker, a Core that is killed with
\* unsaved edits, a failed command, a Core removed while it runs as a process,
\* a removal before the relaunch.
Upset(S) == upset' = upset \cup S
Calm == UNCHANGED upset

At(j, i) == job[j].at # "idle" /\ job[j].inst = i
Overlap(j, i) == \E k \in Jobs \ {j} : At(k, i)

-----------------------------------------------------------------------------
(* The port allocator.                                                     *)

PortIsFree(p) == \A c \in Cores : core[c].state = "serving" => core[c].port # p
Allocatable == {p \in Ports : p \notin used /\ PortIsFree(p)}

\* Mutant: the port handed out is not recorded.
AllocateUnrecorded(p) == UNCHANGED used
Allocate(p) == used' = used \cup {p}

\* driver.launch up to its await: take the preferred port or the first free
\* one; without a port the handler fails.
BeginSpawn(j, op, i, preferred) ==
  \/ /\ Allocatable = {}
     /\ job' = [job EXCEPT ![j] = NoJob]
     /\ UNCHANGED used
     /\ Upset({i})
  \/ \E p \in Allocatable :
       /\ IF preferred \in Allocatable THEN p = preferred
                                       ELSE \A q \in Allocatable : p <= q
       /\ Allocate(p)
       /\ job' = [job EXCEPT ![j] = [op |-> op, inst |-> i, at |-> "spawning",
                                     core |-> 0, port |-> p]]
       /\ IF Overlap(j, i) THEN Upset({i}) ELSE Calm

\* The end of driver.stop, in each handler.
AfterStop(j) ==
  LET i == job[j].inst IN
  \/ /\ job[j].op = "launch"
     /\ handle' = [handle EXCEPT ![i] = NoHandle]
     /\ BeginSpawn(j, "launch", i, 0)
  \/ /\ job[j].op = "restart"
     /\ BeginSpawn(j, "restart", i, 0)
     /\ UNCHANGED handle
  \/ /\ job[j].op = "stop"
     /\ job' = [job EXCEPT ![j] = NoJob]
     /\ UNCHANGED <<handle, used>> /\ Calm

-----------------------------------------------------------------------------
(* The lifecycle requests.                                                 *)

\* SIGTERM: a Core that has not started yet dies of it, one that serves shuts
\* down.
Terminated(c) ==
  CASE core[c].state = "starting" -> Ended(c)
    [] core[c].state = "serving" -> [core[c] EXCEPT !.state = "stopping"]
    [] OTHER -> core[c]

Request(j) == up /\ job[j].at = "idle" /\ served < MaxRequests /\ served' = served + 1

\* launch of an instance without a handle.
Launch(j, i) ==
  /\ Request(j) /\ ~Known(i)
  /\ BeginSpawn(j, "launch", i, 0)
  /\ NoFault
  /\ UNCHANGED <<driver, up, handle, left, registry, coreVars>>

\* Mutant: SIGTERM is sent and nobody waits for the process to end.
StopAtOnce(c) == FALSE
StopWaits(c) == ~Alone \/ Live(c)

\* launch, restart or stop of an instance with one: driver.stop comes first.
Stop(j, i) ==
  /\ Request(j) /\ Known(i)
  /\ \E op \in {"launch", "restart", "stop"} :
       LET c == handle[i].core IN
       IF StopWaits(c)
       THEN /\ job' = [job EXCEPT ![j] = [op |-> op, inst |-> i, at |-> "stopping",
                                          core |-> c, port |-> 0]]
            /\ IF Overlap(j, i) THEN Upset({i}) ELSE Calm
            /\ UNCHANGED driverVars
       ELSE CASE op = "launch" -> /\ handle' = [handle EXCEPT ![i] = NoHandle]
                                  /\ BeginSpawn(j, op, i, 0)
              [] op = "restart" -> BeginSpawn(j, op, i, 0) /\ UNCHANGED handle
              [] op = "stop" -> UNCHANGED <<job, driverVars>> /\ Calm
  /\ core' = IF Alone
             THEN [core EXCEPT ![handle[i].core] = Terminated(handle[i].core)]
             ELSE core
  /\ NoFault
  /\ UNCHANGED <<driver, up, left, registry, disk, acked>>

\* `docker stop` reaches the container.
Signalled(j) ==
  /\ job[j].at = "stopping" /\ ~Alone
  /\ core[job[j].core].state \in {"starting", "serving"}
  /\ core' = [core EXCEPT ![job[j].core] = Terminated(job[j].core)]
  /\ UNCHANGED <<driver, up, driverVars, job, left, registry, disk, acked, upset, bounds>>

\* The Core has ended, or it has not within ten seconds and is killed.  Ten
\* seconds are enough for the debounced save, which waits for two.
Stopped(j) ==
  LET c == job[j].core IN
  /\ job[j].at = "stopping"
  /\ Live(c) => /\ core[c].state = "stopping"
                /\ core[c].saving = "no" \/ disk[core[c].inst] = core[c].mem
  /\ core' = IF Live(c) THEN [core EXCEPT ![c] = Ended(c)] ELSE core
  /\ AfterStop(j)
  /\ NoFault
  /\ UNCHANGED <<driver, up, left, registry, disk, acked, served>>

\* `docker stop` fails: launch goes on without its handle, the others answer 502.
StopFails(j) ==
  LET i == job[j].inst IN
  /\ job[j].at = "stopping" /\ ~Alone /\ Fault
  /\ IF job[j].op = "launch"
     THEN handle' = [handle EXCEPT ![i] = NoHandle] /\ BeginSpawn(j, "launch", i, 0)
     ELSE job' = [job EXCEPT ![j] = NoJob] /\ UNCHANGED driverVars
  /\ upset' = upset \cup {i}
  /\ UNCHANGED <<driver, up, left, registry, coreVars, served>>

\* Mutant: what is written is not the file with this entry changed.
SaveOnly(i, p) == [k \in Instances |-> IF k = i THEN p ELSE 0]
SaveInstance(i, p) == [registry EXCEPT ![i] = p]

NameTaken(i) == ~Alone /\ \E c \in Cores : core[c].inst = i

\* The rest of launch, restart or relaunch: the handle and, but for a
\* relaunch, the registry.
Spawned(j) ==
  LET i == job[j].inst
      p == job[j].port
  IN /\ job[j].at = "spawning" /\ ~NameTaken(i)
     /\ \E c \in Cores :
          /\ Unused(c) /\ \A d \in Cores : Unused(d) => c <= d
          /\ core' = [core EXCEPT ![c] = [NoCore EXCEPT !.inst = i, !.port = p,
                                                        !.state = "starting"]]
          /\ handle' = [handle EXCEPT ![i] = [core |-> c, port |-> p]]
     /\ registry' = IF j = "boot" THEN registry ELSE SaveInstance(i, p)
     /\ job' = [job EXCEPT ![j] = NoJob]
     /\ Calm /\ NoFault
     /\ UNCHANGED <<driver, up, used, left, disk, acked, served>>

\* The spawn fails.  Docker's error is a DriverError, which releases the port;
\* the process driver's is not, and the port stays taken.
SpawnFails(j) ==
  /\ job[j].at = "spawning"
  /\ IF NameTaken(job[j].inst) THEN NoFault ELSE Fault
  /\ used' = IF Alone THEN used ELSE used \ {job[j].port}
  /\ job' = [job EXCEPT ![j] = NoJob]
  /\ Upset({job[j].inst})
  /\ UNCHANGED <<driver, up, handle, left, registry, coreVars, served>>

\* `docker run` times out although the container is created.
RunTimesOut(j) ==
  /\ job[j].at = "spawning" /\ ~Alone /\ ~NameTaken(job[j].inst) /\ Fault
  /\ \E c \in Cores :
       /\ Unused(c) /\ \A d \in Cores : Unused(d) => c <= d
       /\ core' = [core EXCEPT ![c] = [NoCore EXCEPT !.inst = job[j].inst,
                                       !.port = job[j].port, !.state = "starting"]]
  /\ used' = used \ {job[j].port}
  /\ job' = [job EXCEPT ![j] = NoJob]
  /\ Upset({job[j].inst})
  /\ UNCHANGED <<driver, up, handle, left, registry, disk, acked, served>>

Unregistered(i) == [registry EXCEPT ![i] = 0]

\* remove.  The process driver drops the handle before it calls stop, which
\* then knows no such instance: the process is left running.
Remove(j, i) ==
  /\ Request(j)
  /\ handle' = [handle EXCEPT ![i] = NoHandle]
  /\ LET h == handle[i] IN
     \/ /\ ~Known(i)
        /\ registry' = Unregistered(i)
        /\ UNCHANGED <<job, used, disk, acked>>
     \/ /\ Known(i) /\ Alone
        /\ registry' = Unregistered(i)
        /\ used' = used \ {h.port}
        /\ disk' = [disk EXCEPT ![i] = {}]
        /\ acked' = [acked EXCEPT ![i] = {}]
        /\ UNCHANGED job
     \/ /\ Known(i) /\ ~Alone
        /\ job' = [job EXCEPT ![j] = [op |-> "remove", inst |-> i, at |-> "rm",
                                      core |-> h.core, port |-> h.port]]
        /\ UNCHANGED <<registry, used, disk, acked>>
  /\ IF Overlap(j, i) \/ i \in DOMAIN left \/ (Alone /\ Known(i) /\ Live(handle[i].core))
     THEN Upset({i}) ELSE Calm
  /\ NoFault
  /\ UNCHANGED <<driver, up, left, core>>

Unsaved(c) == core[c].state \in {"serving", "stopping"}
              /\ ~(core[c].mem \subseteq disk[core[c].inst])

\* `docker rm -f` has ended; the data directory stays.
Removed(j) ==
  LET i == job[j].inst
      c == job[j].core
  IN /\ job[j].at = "rm"
     /\ core' = [core EXCEPT ![c] = NoCore]
     /\ used' = used \ {job[j].port}
     /\ registry' = Unregistered(i)
     /\ job' = [job EXCEPT ![j] = NoJob]
     /\ IF Unsaved(c) THEN Upset({i}) ELSE Calm
     /\ NoFault
     /\ UNCHANGED <<driver, up, handle, left, disk, acked, served>>

\* It failed: the port is released all the same, the registry is not touched.
RemoveFails(j) ==
  /\ job[j].at = "rm" /\ Fault
  /\ used' = used \ {job[j].port}
  /\ job' = [job EXCEPT ![j] = NoJob]
  /\ Upset({job[j].inst})
  /\ UNCHANGED <<driver, up, handle, left, registry, coreVars, served>>

-----------------------------------------------------------------------------
(* The Worker's own restart.                                               *)

\* It dies alone, or with its pod and so with every Core.  Dying while the
\* registry is written (write_text truncates first) leaves an unreadable file.
WorkerDies(pod) ==
  /\ up /\ Fault
  /\ up' = FALSE
  /\ handle' = [i \in Instances |-> NoHandle]
  /\ used' = {}
  /\ job' = [j \in Jobs |-> NoJob]
  /\ left' = <<>>
  /\ registry' \in {registry} \cup
       (IF pod /\ \E j \in Requests : job[j].at \in {"spawning", "rm"}
        THEN {[i \in Instances |-> 0]} ELSE {})
  /\ core' = IF pod THEN [c \in Cores |-> IF Live(c) THEN Ended(c) ELSE core[c]] ELSE core
  /\ Upset({core[c].inst : c \in {d \in Cores : Live(d) /\ (~pod \/ Unsaved(d))}})
  /\ UNCHANGED <<driver, disk, acked, served>>

\* Mutant: the relaunch starts from the handles, which a restart empties.
FromHandles == {i \in Instances : Known(i)}
Registered == {i \in Instances : registry[i] # 0}

WorkerStarts ==
  /\ ~up /\ up' = TRUE
  /\ left' = [i \in Registered |-> registry[i]]
  /\ UNCHANGED <<driver, handle, used, job, registry, coreVars, upset, bounds>>

\* _relaunch_known_instances: one after the other, failures are logged.
RelaunchNext ==
  /\ up /\ job["boot"].at = "idle"
  /\ \E i \in DOMAIN left :
       /\ left' = [k \in DOMAIN left \ {i} |-> left[k]]
       /\ IF Known(i) THEN UNCHANGED <<used, job, upset>>
                      ELSE BeginSpawn("boot", "relaunch", i, left[i])
  /\ UNCHANGED <<driver, up, handle, registry, coreVars, bounds>>

-----------------------------------------------------------------------------
(* A Core: its links in memory and its state file.                         *)

\* The lifespan: the state is loaded before the port is bound; a Core whose
\* port is taken writes the state back and ends.
Load(c) ==
  /\ core[c].state = "starting"
  /\ core' = [core EXCEPT ![c] =
       IF PortIsFree(core[c].port)
       THEN [core[c] EXCEPT !.state = "serving", !.mem = disk[core[c].inst]]
       ELSE Ended(c)]
  /\ UNCHANGED <<driver, up, driverVars, job, left, registry, disk, acked, upset, bounds>>

\* Mutant: the handler forgets to schedule a save.
NotScheduled(saving) == saving
ScheduleSave(saving) == IF saving = "no" THEN "yes" ELSE "again"

\* An edit of the links, which reaches a Core through its Worker's handle.
Edit(c, e) ==
  LET i == core[c].inst IN
  /\ core[c].state = "serving" /\ handle[i].core = c
  /\ \A k \in Instances : e \notin acked[k]
  /\ core' = [core EXCEPT ![c].mem = @ \cup {e}, ![c].saving = ScheduleSave(@)]
  /\ acked' = [acked EXCEPT ![i] = @ \cup {e}]
  /\ UNCHANGED <<driver, up, driverVars, job, left, registry, disk, upset, bounds>>

\* A tunnel ends: its counters are saved, with everything else.
TunnelEnds(c) ==
  /\ core[c].state = "serving" /\ core[c].saving # "again"
  /\ core[c].mem # disk[core[c].inst]
  /\ core' = [core EXCEPT ![c].saving = ScheduleSave(@)]
  /\ UNCHANGED <<driver, up, driverVars, job, left, registry, disk, acked, upset, bounds>>

SaveAgain(saving) == IF saving = "again" THEN "yes" ELSE "no"

\* The two seconds of schedule_save are over.
Save(c) ==
  /\ core[c].state \in {"serving", "stopping"} /\ core[c].saving # "no"
  /\ core' = [core EXCEPT ![c].saving = SaveAgain(@)]
  /\ disk' = [disk EXCEPT ![core[c].inst] = core[c].mem]
  /\ UNCHANGED <<driver, up, driverVars, job, left, registry, acked, upset, bounds>>

\* core_state_flush.  A save that is scheduled goes on.
FlushState(c) ==
  /\ core[c].state = "serving"
  /\ disk' = [disk EXCEPT ![core[c].inst] = core[c].mem]
  /\ UNCHANGED <<driver, up, driverVars, job, left, registry, core, acked, upset, bounds>>

\* The file cannot be written: a warning, and no further attempt.
SaveFails(c) ==
  /\ core[c].state \in {"serving", "stopping"} /\ core[c].saving # "no" /\ Fault
  /\ core' = [core EXCEPT ![c].saving = SaveAgain(@)]
  /\ Upset({core[c].inst})
  /\ UNCHANGED <<driver, up, driverVars, job, left, registry, disk, acked, served>>

\* Mutant: nothing is saved at the end.
NoFinalSave(c) == disk
FinalSave(c) == [disk EXCEPT ![core[c].inst] = core[c].mem]

\* A clean shutdown.
Exit(c) ==
  /\ core[c].state = "stopping"
  /\ disk' = FinalSave(c)
  /\ core' = [core EXCEPT ![c] = Ended(c)]
  /\ UNCHANGED <<driver, up, driverVars, job, left, registry, acked, upset, bounds>>

\* Out of memory, out of CPU seconds, killed by hand.
CoreDies(c) ==
  /\ Live(c) /\ Fault
  /\ core' = [core EXCEPT ![c] = Ended(c)]
  /\ IF Unsaved(c) THEN Upset({core[c].inst}) ELSE Calm
  /\ UNCHANGED <<driver, up, driverVars, job, left, registry, disk, acked, served>>

-----------------------------------------------------------------------------
JobStep(j) ==
  \/ Signalled(j) \/ Stopped(j) \/ Spawned(j) \/ Removed(j)
  \/ StopFails(j) \/ SpawnFails(j) \/ RunTimesOut(j) \/ RemoveFails(j)

CoreStep(c) == Load(c) \/ Save(c) \/ Exit(c)

Next ==
  \/ \E j \in Requests, i \in Instances : Launch(j, i) \/ Stop(j, i) \/ Remove(j, i)
  \/ \E j \in Jobs : JobStep(j)
  \/ \E pod \in BOOLEAN : WorkerDies(pod)
  \/ WorkerStarts \/ RelaunchNext
  \/ \E c \in Cores : CoreStep(c) \/ TunnelEnds(c) \/ FlushState(c) \/ SaveFails(c) \/ CoreDies(c)
  \/ \E c \in Cores, e \in Edits : Edit(c, e)

Spec == Init /\ [][Next]_vars

\* The event loops run what is ready, and the platform restarts the Worker.
\* One condition for all handlers, and one for all Cores, is enough: each ends
\* after a few steps.
Fairness ==
  /\ WF_vars(\E j \in Jobs : Signalled(j) \/ Stopped(j) \/ Spawned(j) \/ SpawnFails(j)
                              \/ Removed(j))
  /\ WF_vars(WorkerStarts \/ RelaunchNext)
  /\ WF_vars(\E c \in Cores : CoreStep(c))

FairSpec == Spec /\ Fairness

-----------------------------------------------------------------------------
\* Who holds which port: a handle, a spawn or a removal that is under way.
Held(i) == IF Known(i) THEN {handle[i].port} ELSE {}
InFlight(j) == IF job[j].at \in {"spawning", "rm"} THEN {job[j].port} ELSE {}

\* No port is held twice, and every port that is held is marked as used: two
\* instances are never proxied to one port, whatever launches, removals and
\* failures overlap (PortAllocator, launch and remove of both drivers).
PortsApart ==
  /\ \A i \in Instances : Held(i) \subseteq used
  /\ \A j \in Jobs : InFlight(j) \subseteq used
  /\ \A i, k \in Instances : i # k => Held(i) \cap Held(k) = {}
  /\ \A j, k \in Jobs : j # k => InFlight(j) \cap InFlight(k) = {}
  /\ \A i \in Instances, j \in Jobs : Held(i) \cap InFlight(j) = {}

\* A Core that runs is the one the Worker has the handle of, unless something
\* upset its instance: no launch, restart or relaunch leaves a second Core on
\* the same data directory (launch_instance stops the old one first).
EveryCoreIsTended ==
  \A c \in Cores : Live(c) /\ core[c].inst \notin upset =>
    \/ handle[core[c].inst].core = c
    \/ \E j \in Jobs : job[j].at = "rm" /\ job[j].core = c

\* "KEEP its data dir so links and state survive": every edit that was
\* answered is in the Core that serves, and on disk when none runs, through
\* any number of stops, redeploys and clean restarts (launch_instance, the
\* lifespan's last save, load).
EditsSurvive ==
  \A i \in Instances \ upset :
    /\ \A c \in Cores : core[c].state = "serving" /\ core[c].inst = i /\ Known(i)
                          => acked[i] \subseteq core[c].mem
    /\ (\A c \in Cores : core[c].inst = i => ~Live(c)) /\ Known(i)
                          => acked[i] \subseteq disk[i]

\* A known instance is in the registry, so that a restart brings it back
\* (save_instance after each launch, read-modify-write of one file).
KnownIsRegistered ==
  \A i \in Instances \ upset : Known(i) => registry[i] # 0

\* An edit that was answered reaches the state file (schedule_save).
EditsAreSaved ==
  \A i \in Instances, e \in Edits :
    (e \in acked[i]) ~> (e \in disk[i] \/ i \in upset \/ ~Known(i))

\* A registered instance gets its Core again after the Worker's restart
\* (_relaunch_known_instances); only with the process driver, since a
\* container's name outlives it.
RegisteredIsRelaunched ==
  \A i \in Instances :
    (registry[i] # 0 /\ Alone) ~> (Known(i) \/ registry[i] = 0 \/ i \in upset)

-----------------------------------------------------------------------------
(* The inductive invariant behind PortsApart and KnownIsRegistered.        *)

\* Types, of what the invariant depends on.
HandlesOK ==
  /\ handle \in [Instances -> [core : Cores \cup {0}, port : Ports \cup {0}]]
  /\ job \in [Jobs -> [op : {"none", "launch", "restart", "stop", "remove", "relaunch"},
                       inst : Instances \cup {"none"},
                       at : {"idle", "stopping", "spawning", "rm"},
                       core : Cores \cup {0}, port : Ports \cup {0}]]
  /\ \A j \in Jobs : job[j].at # "idle" => job[j].inst \in Instances
  /\ \A j \in Jobs : job[j].at = "spawning" => job[j].port \in Ports
  /\ DOMAIN left \subseteq Instances
  /\ registry \in [Instances -> Ports \cup {0}]

\* One job at a time is at work on an instance that nothing has upset; what is
\* known or about to be relaunched is registered, what is being removed is
\* neither.
RegisteredAt(i) ==
  /\ Known(i) \/ i \in DOMAIN left \/ At("boot", i) => registry[i] # 0
  /\ \A j, k \in Jobs : At(j, i) /\ At(k, i) => j = k
  /\ \A j \in Jobs : At(j, i) /\ job[j].at = "rm" => ~Known(i) /\ i \notin DOMAIN left

\* Jobs do not outlive the Worker.
JobsNeedWorker == up \/ \A j \in Jobs : job[j].at = "idle"

IInv ==
  /\ HandlesOK
  /\ PortsApart
  /\ \A i \in Instances \ upset : RegisteredAt(i)
  /\ JobsNeedWorker

(* And the one behind EveryCoreIsTended and EditsSurvive.                  *)

\* A Core's entry, and its data directory.
CoreRows == [inst : Instances \cup {"none"}, port : Ports \cup {0},
             state : {"none", "starting", "serving", "stopping", "exited"},
             mem : SUBSET Edits, saving : {"no", "yes", "again"}]

CoresOK ==
  /\ core \in [Cores -> CoreRows]
  /\ disk \in [Instances -> SUBSET Edits]
  /\ acked \in [Instances -> SUBSET Edits]
  /\ \A c \in Cores : Live(c) => core[c].inst \in Instances

\* Whom handles and jobs refer to: a Core of their instance, unless it is gone.
RefersTo(c, i) == c # 0 => core[c] = NoCore \/ core[c].inst = i
RefersOK ==
  /\ \A i \in Instances : RefersTo(handle[i].core, i)
  /\ \A j \in Jobs : RefersTo(job[j].core, job[j].inst)
  /\ \A j \in Jobs : (job[j].core # 0) = (job[j].at \in {"stopping", "rm"})
  /\ \A j \in Jobs : job[j].at = "rm" => ~Alone

RunsFor(c, i) == Live(c) /\ core[c].inst = i

\* Nothing runs for an instance that is being spawned; the Core that is being
\* stopped is the one of the handle.
TendedAt(i) ==
  /\ \A c \in Cores : RunsFor(c, i) =>
       \/ handle[i].core = c
       \/ \E j \in Jobs : At(j, i) /\ job[j].at = "rm" /\ job[j].core = c
  /\ \A j \in Jobs : At(j, i) /\ job[j].at = "stopping" => job[j].core = handle[i].core
  /\ \A j \in Jobs : At(j, i) /\ job[j].at = "spawning" => \A c \in Cores : ~RunsFor(c, i)

\* Links are loaded and may be edited.
Holds(c, i) == core[c].inst = i /\ core[c].state \in {"serving", "stopping"}

\* A Core that has no save scheduled has nothing to save.
SavedAt(i) ==
  /\ \A c \in Cores : Holds(c, i) =>
       /\ acked[i] \subseteq core[c].mem
       /\ core[c].saving = "no" => core[c].mem \subseteq disk[i]
  /\ (\A c \in Cores : ~Holds(c, i)) => acked[i] \subseteq disk[i]

CoreInv ==
  /\ CoresOK
  /\ RefersOK
  /\ \A i \in Instances \ upset : TendedAt(i) /\ SavedAt(i)

=============================================================================
