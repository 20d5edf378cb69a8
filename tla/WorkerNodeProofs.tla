-------------------------- MODULE WorkerNodeProofs --------------------------
(* Proofs that a Worker's ports stay apart, that the registry knows every    *)
(* instance the Worker knows, that no instance has a second Core, and that   *)
(* no answered edit is lost.                                                 *)
EXTENDS WorkerNode, TLAPS

\* The initial states satisfy the inductive invariant.
LEMMA InitInv == Init => IInv
<1> SUFFICES ASSUME Init PROVE IInv
  OBVIOUS
<1>1. HandlesOK
  <2>1. handle \in [Instances -> [core : Cores \cup {0}, port : Ports \cup {0}]]
    BY DEF Init, NoHandle
  <2>2. job \in [Jobs -> [op : {"none", "launch", "restart", "stop", "remove", "relaunch"},
                          inst : Instances \cup {"none"},
                          at : {"idle", "stopping", "spawning", "rm"},
                          core : Cores \cup {0}, port : Ports \cup {0}]]
    BY DEF Init, NoJob
  <2>3. \A j \in Jobs : job[j].at = "idle"
    BY DEF Init, NoJob
  <2>4. DOMAIN left = {} /\ registry \in [Instances -> Ports \cup {0}]
    BY DEF Init
  <2>5. QED
    BY <2>1, <2>2, <2>3, <2>4 DEF HandlesOK
<1>2. PortsApart
  BY DEF Init, NoHandle, NoJob, PortsApart, Held, InFlight, Known
<1>3. \A i \in Instances : RegisteredAt(i)
  BY DEF Init, NoHandle, NoJob, RegisteredAt, At, Known, Jobs
<1>4. JobsNeedWorker
  BY DEF Init, NoJob, JobsNeedWorker
<1>5. QED
  BY <1>1, <1>2, <1>3, <1>4 DEF IInv

\* Ports stay apart in a step that concerns instance i and job j: all others
\* keep what they hold or let go of it, and i and j keep some of what they
\* held or take what nobody did.
LEMMA PortsStep ==
  ASSUME PortsApart, NEW i \in Instances, NEW j \in Jobs,
         \A k \in Instances \ {i} : Held(k)' \subseteq Held(k),
         \A k \in Jobs \ {j} : InFlight(k)' \subseteq InFlight(k),
         (Held(i)' \cup InFlight(j)') \cap used \subseteq Held(i) \cup InFlight(j),
         Held(i)' \cap InFlight(j)' = {},
         Held(i)' \cup InFlight(j)' \subseteq used',
         used \ (Held(i) \cup InFlight(j)) \subseteq used'
  PROVE  PortsApart'
<1> DEFINE mine == Held(i) \cup InFlight(j)
<1>1. \A k \in Instances \ {i} : Held(k) \subseteq used \ mine
  BY DEF PortsApart
<1>2. \A k \in Jobs \ {j} : InFlight(k) \subseteq used \ mine
  BY DEF PortsApart
<1>3. \A k \in Instances : Held(k)' \subseteq used'
  BY <1>1
<1>4. \A k \in Jobs : InFlight(k)' \subseteq used'
  BY <1>2
<1>5. ASSUME NEW k \in Instances, NEW l \in Instances, k # l
      PROVE  Held(k)' \cap Held(l)' = {}
  <2>1. CASE k # i /\ l # i
    BY <1>5, <2>1 DEF PortsApart
  <2>2. CASE k = i \/ l = i
    BY <1>5, <1>1, <2>2
  <2>3. QED
    BY <2>1, <2>2
<1>6. ASSUME NEW k \in Jobs, NEW l \in Jobs, k # l
      PROVE  InFlight(k)' \cap InFlight(l)' = {}
  <2>1. CASE k # j /\ l # j
    BY <1>6, <2>1 DEF PortsApart
  <2>2. CASE k = j \/ l = j
    BY <1>6, <1>2, <2>2
  <2>3. QED
    BY <2>1, <2>2
<1>7. ASSUME NEW k \in Instances, NEW l \in Jobs
      PROVE  Held(k)' \cap InFlight(l)' = {}
  <2>1. CASE k = i /\ l = j
    BY <2>1
  <2>2. CASE k = i /\ l # j
    BY <1>2, <2>2
  <2>3. CASE k # i /\ l = j
    BY <1>1, <2>3
  <2>4. CASE k # i /\ l # j
    BY <2>4 DEF PortsApart
  <2>5. QED
    BY <2>1, <2>2, <2>3, <2>4
<1>8. QED
  BY <1>3, <1>4, <1>5, <1>6, <1>7, Zenon DEF PortsApart

\* In such a step the registry's invariant is left to be seen for i alone.
LEMMA RegistryStep ==
  ASSUME HandlesOK, HandlesOK', \A k \in Instances \ upset : RegisteredAt(k),
         NEW i \in Instances, NEW j \in Jobs,
         upset \subseteq upset',
         \A k \in Instances \ {i} : handle'[k] = handle[k] /\ registry'[k] = registry[k],
         \A k \in Jobs \ {j} : job'[k] = job[k],
         DOMAIN left' \subseteq DOMAIN left,
         job'[j].at # "idle" => job'[j].inst = i,
         i \notin upset' => RegisteredAt(i)'
  PROVE  \A k \in Instances \ upset' : RegisteredAt(k)'
<1> SUFFICES ASSUME NEW k \in Instances \ upset', k # i PROVE RegisteredAt(k)'
  OBVIOUS
<1>1. RegisteredAt(k)
  OBVIOUS
<1>2. \A l \in Jobs : At(l, k)' => At(l, k) /\ job'[l] = job[l]
  BY DEF At
<1>3. "boot" \in Jobs
  BY DEF Jobs
<1>4. Known(k)' = Known(k) /\ registry'[k] = registry[k]
  BY DEF Known
<1>5. QED
  BY <1>1, <1>2, <1>3, <1>4 DEF RegisteredAt

\* A job's entry and an instance's handle are replaced by well-typed ones.
JobRows == [op : {"none", "launch", "restart", "stop", "remove", "relaunch"},
            inst : Instances \cup {"none"}, at : {"idle", "stopping", "spawning", "rm"},
            core : Cores \cup {0}, port : Ports \cup {0}]
Handles == [core : Cores \cup {0}, port : Ports \cup {0}]

\* Types survive a new value for one handle, one job and one registry entry.
LEMMA StillOK ==
  ASSUME HandlesOK, NEW i \in Instances, NEW j \in Jobs,
         NEW h \in Handles, NEW row \in JobRows, NEW p \in Ports \cup {0},
         handle' \in {handle, [handle EXCEPT ![i] = h]},
         job' \in {job, [job EXCEPT ![j] = row]},
         registry' \in {registry, [registry EXCEPT ![i] = p]},
         DOMAIN left' \subseteq DOMAIN left,
         row.at # "idle" => row.inst \in Instances,
         row.at = "spawning" => row.port \in Ports
  PROVE  /\ HandlesOK'
         /\ handle' # handle => handle'[i] = h
         /\ job' # job => job'[j] = row
         /\ \A k \in Instances \ {i} : handle'[k] = handle[k] /\ registry'[k] = registry[k]
         /\ \A k \in Jobs \ {j} : job'[k] = job[k]
<1>1. handle \in [Instances -> Handles] /\ job \in [Jobs -> JobRows]
  BY DEF HandlesOK, Handles, JobRows
<1>2. /\ handle' \in [Instances -> Handles]
      /\ handle' # handle => handle'[i] = h
      /\ \A k \in Instances \ {i} : handle'[k] = handle[k]
  BY <1>1
<1>3. /\ job' \in [Jobs -> JobRows]
      /\ job' # job => job'[j] = row
      /\ \A k \in Jobs \ {j} : job'[k] = job[k]
  BY <1>1
<1>4. /\ registry' \in [Instances -> Ports \cup {0}]
      /\ \A k \in Instances \ {i} : registry'[k] = registry[k]
  BY DEF HandlesOK
<1>5. ASSUME NEW k \in Jobs
      PROVE  /\ job'[k].at # "idle" => job'[k].inst \in Instances
             /\ job'[k].at = "spawning" => job'[k].port \in Ports
  <2>1. CASE job'[k] = job[k]
    BY <2>1 DEF HandlesOK
  <2>2. CASE job'[k] # job[k]
    BY <1>3, <2>2
  <2>3. QED
    BY <2>1, <2>2
<1>6. DOMAIN left' \subseteq Instances
  BY DEF HandlesOK
<1>7. HandlesOK'
  BY <1>2, <1>3, <1>4, <1>5, <1>6 DEF HandlesOK, Handles, JobRows
<1>8. QED
  BY <1>2, <1>3, <1>4, <1>7

\* What an idle job and an absent handle look like.
LEMMA IdleRows ==
  /\ NoJob \in JobRows /\ NoJob.at = "idle"
  /\ NoHandle \in Handles /\ NoHandle.core = 0
  BY DEF NoJob, NoHandle, JobRows, Handles

\* driver.launch up to its await.
LEMMA SpawnBegins ==
  ASSUME IInv, NEW i \in Instances, NEW j \in Jobs,
         NEW op \in {"launch", "restart", "relaunch"}, NEW preferred,
         BeginSpawn(j, op, i, preferred), InFlight(j) = {},
         handle' \in {handle, [handle EXCEPT ![i] = NoHandle]},
         registry' = registry, DOMAIN left' \subseteq DOMAIN left, up, up' = up,
         j = "boot" /\ i \notin upset => registry[i] # 0
  PROVE  IInv'
<1>1. HandlesOK /\ PortsApart /\ \A k \in Instances \ upset : RegisteredAt(k)
  BY DEF IInv
<1>2. PICK row \in JobRows, fresh \in SUBSET (Ports \ used) :
        /\ job' = [job EXCEPT ![j] = row]
        /\ row.at # "idle" => row.inst = i
        /\ row.at \in {"idle", "spawning"}
        /\ row.at = "spawning" => row.port \in fresh
        /\ used' = used \cup fresh
        /\ i \notin upset' => i \notin upset /\ ~Overlap(j, i)
        /\ upset \subseteq upset'
  <2>1. CASE Allocatable = {} /\ job' = [job EXCEPT ![j] = NoJob] /\ used' = used /\ Upset({i})
    <3>1. used' = used \cup {}
      BY <2>1
    <3>2. upset \subseteq upset' /\ i \in upset'
      BY <2>1 DEF Upset
    <3>3. NoJob \in JobRows /\ NoJob.at = "idle"
      BY IdleRows
    <3>4. QED
      BY <2>1, <3>1, <3>2, <3>3
  <2>2. ASSUME NEW p \in Allocatable, Allocate(p),
               job' = [job EXCEPT ![j] = [op |-> op, inst |-> i, at |-> "spawning",
                                          core |-> 0, port |-> p]],
               IF Overlap(j, i) THEN Upset({i}) ELSE Calm
        PROVE  \E row \in JobRows, fresh \in SUBSET (Ports \ used) :
                 /\ job' = [job EXCEPT ![j] = row]
                 /\ row.at # "idle" => row.inst = i
                 /\ row.at \in {"idle", "spawning"}
                 /\ row.at = "spawning" => row.port \in fresh
                 /\ used' = used \cup fresh
                 /\ i \notin upset' => i \notin upset /\ ~Overlap(j, i)
                 /\ upset \subseteq upset'
    <3> DEFINE row == [op |-> op, inst |-> i, at |-> "spawning", core |-> 0, port |-> p]
    <3>1. p \in Ports \ used
      BY DEF Allocatable
    <3>2. /\ row \in JobRows /\ row.inst = i /\ row.at = "spawning" /\ row.port = p
      BY <3>1 DEF JobRows
    <3>3. upset \subseteq upset' /\ (i \notin upset' => i \notin upset /\ ~Overlap(j, i))
      BY <2>2 DEF Upset, Calm
    <3>4. used' = used \cup {p} /\ job' = [job EXCEPT ![j] = row]
      BY <2>2 DEF Allocate
    <3> HIDE DEF row
    <3>5. QED
      BY <3>1, <3>2, <3>3, <3>4
  <2>3. QED
    BY <2>1, <2>2 DEF BeginSpawn
<1>3. row.at # "idle" => row.inst \in Instances
  BY <1>2
<1>4. row.at = "spawning" => row.port \in Ports
  BY <1>2
<1>5. NoHandle \in Handles /\ NoHandle.core = 0 /\ 0 \in Ports \cup {0}
  BY IdleRows
<1>6. /\ HandlesOK'
      /\ handle' # handle => handle'[i] = NoHandle
      /\ \A k \in Instances \ {i} : handle'[k] = handle[k] /\ registry'[k] = registry[k]
      /\ \A k \in Jobs \ {j} : job'[k] = job[k]
  BY <1>1, <1>2, <1>3, <1>4, <1>5, StillOK
<1>7. job'[j] = row
  BY <1>1, <1>2 DEF HandlesOK
<1>8. Held(i)' \subseteq Held(i)
  BY <1>5, <1>6 DEF Held, Known
<1>9. InFlight(j)' \subseteq fresh
  BY <1>2, <1>7 DEF InFlight
<1>10. PortsApart'
  <2>1. Held(i) \subseteq used
    BY <1>1 DEF PortsApart
  <2>2. \A k \in Instances \ {i} : Held(k)' \subseteq Held(k)
    BY <1>6 DEF Held, Known
  <2>3. \A k \in Jobs \ {j} : InFlight(k)' \subseteq InFlight(k)
    BY <1>6 DEF InFlight
  <2>4. /\ (Held(i)' \cup InFlight(j)') \cap used \subseteq Held(i) \cup InFlight(j)
        /\ Held(i)' \cap InFlight(j)' = {}
        /\ Held(i)' \cup InFlight(j)' \subseteq used'
        /\ used \ (Held(i) \cup InFlight(j)) \subseteq used'
    BY <1>2, <1>8, <1>9, <2>1
  <2>5. QED
    BY <1>1, <2>2, <2>3, <2>4, PortsStep
<1>11. ASSUME i \notin upset' PROVE RegisteredAt(i)'
  <2>1. RegisteredAt(i) /\ \A k \in Jobs \ {j} : ~At(k, i)
    BY <1>1, <1>2, <1>11 DEF Overlap
  <2>2. \A k \in Jobs \ {j} : ~At(k, i)'
    BY <1>6, <2>1 DEF At
  <2>3. job'[j].at # "rm"
    BY <1>2, <1>7
  <2>4. Known(i)' => Known(i)
    BY <1>5, <1>6 DEF Known
  <2>5. "boot" # j => ~At("boot", i)'
    BY <2>2 DEF Jobs
  <2>6. (Known(i)' \/ i \in DOMAIN left' \/ At("boot", i)') => registry'[i] # 0
    BY <1>2, <1>11, <2>1, <2>4, <2>5 DEF RegisteredAt
  <2>7. QED
    BY <2>2, <2>3, <2>6 DEF RegisteredAt
<1>12. \A k \in Instances \ upset' : RegisteredAt(k)'
  BY <1>1, <1>2, <1>6, <1>7, <1>11, RegistryStep
<1>13. JobsNeedWorker'
  BY DEF JobsNeedWorker
<1>14. QED
  BY <1>6, <1>10, <1>12, <1>13 DEF IInv

\* A step that changes nothing the invariant speaks of, but for what it upsets.
LEMMA Unrelated ==
  ASSUME IInv, UNCHANGED <<up, handle, used, job, left, registry>>, upset \subseteq upset'
  PROVE  IInv'
<1>1. HandlesOK'
  BY DEF IInv, HandlesOK
<1>2. PortsApart'
  BY DEF IInv, PortsApart, Held, InFlight, Known
<1>3. \A i \in Instances \ upset' : RegisteredAt(i)'
  BY DEF IInv, RegisteredAt, Known, At
<1>4. JobsNeedWorker'
  BY DEF IInv, JobsNeedWorker
<1>5. QED
  BY <1>1, <1>2, <1>3, <1>4 DEF IInv

\* A job ends without more ado; it may give back the port it had.
LEMMA JobEnds ==
  ASSUME IInv, NEW j \in Jobs, job' = [job EXCEPT ![j] = NoJob],
         UNCHANGED <<up, handle, left, registry>>,
         used \ InFlight(j) \subseteq used', used' \subseteq used, upset \subseteq upset'
  PROVE  IInv'
<1>1. HandlesOK /\ PortsApart /\ \A k \in Instances \ upset : RegisteredAt(k)
  BY DEF IInv
<1>2. job'[j] = NoJob /\ \A k \in Jobs \ {j} : job'[k] = job[k]
  BY <1>1 DEF HandlesOK
<1>3. NoJob \in JobRows /\ NoJob.at = "idle"
  BY IdleRows
<1>4. HandlesOK'
  <2>1. job' \in [Jobs -> JobRows]
    BY <1>1, <1>3 DEF HandlesOK, JobRows
  <2>2. \A k \in Jobs : job'[k].at # "idle" => job'[k] = job[k]
    BY <1>2, <1>3
  <2>3. \A k \in Jobs : job'[k].at = "spawning" => job'[k] = job[k]
    BY <2>2
  <2>4. QED
    BY <1>1, <2>1, <2>2, <2>3 DEF HandlesOK, JobRows
<1>5. PortsApart'
  <2>1. /\ \A k \in Jobs : InFlight(k)' \subseteq InFlight(k)
        /\ InFlight(j)' = {}
    BY <1>2, <1>3 DEF InFlight
  <2>2. \A k \in Instances : Held(k)' = Held(k)
    BY DEF Held, Known
  <2>3. \A k \in Instances : Held(k) \cap InFlight(j) = {} /\ Held(k) \subseteq used
    BY <1>1 DEF PortsApart
  <2>4. \A k \in Jobs \ {j} : InFlight(k) \cap InFlight(j) = {} /\ InFlight(k) \subseteq used
    BY <1>1 DEF PortsApart
  <2>5. /\ \A k \in Instances : Held(k)' \subseteq used'
        /\ \A k \in Jobs : InFlight(k)' \subseteq used'
    BY <2>1, <2>2, <2>3, <2>4
  <2>6. QED
    BY <1>1, <2>1, <2>2, <2>5 DEF PortsApart
<1>6. \A k \in Instances \ upset' : RegisteredAt(k)'
  <2>1. \A k \in Instances, l \in Jobs : At(l, k)' => At(l, k) /\ job'[l] = job[l]
    BY <1>2, <1>3 DEF At
  <2>2. "boot" \in Jobs
    BY DEF Jobs
  <2>3. QED
    BY <1>1, <2>1, <2>2 DEF RegisteredAt, Known
<1>7. JobsNeedWorker'
  BY <1>2, <1>3 DEF IInv, JobsNeedWorker
<1>8. QED
  BY <1>4, <1>5, <1>6, <1>7 DEF IInv

\* A launch begins.
LEMMA LaunchStep ==
  ASSUME IInv, NEW j \in Requests, NEW i \in Instances, Launch(j, i)
  PROVE  IInv'
<1>1. /\ j \in Jobs /\ j # "boot" /\ InFlight(j) = {} /\ up /\ up' = up
  BY WorkerAssumption DEF Jobs, Launch, Request, InFlight
<1>2. /\ BeginSpawn(j, "launch", i, 0) /\ handle' = handle /\ registry' = registry
      /\ left' = left
  BY DEF Launch
<1>3. DOMAIN left' \subseteq DOMAIN left /\ "launch" \in {"launch", "restart", "relaunch"}
  BY <1>2
<1>4. QED
  BY <1>1, <1>2, <1>3, SpawnBegins

\* driver.stop begins, or has nothing to do.
LEMMA StopStep ==
  ASSUME IInv, NEW j \in Requests, NEW i \in Instances, Stop(j, i)
  PROVE  IInv'
<1>1. /\ j \in Jobs /\ j # "boot" /\ InFlight(j) = {} /\ up /\ up' = up
      /\ registry' = registry /\ left' = left /\ job[j].at = "idle"
  BY WorkerAssumption DEF Jobs, Stop, Request, InFlight
<1>2. HandlesOK /\ PortsApart /\ \A k \in Instances \ upset : RegisteredAt(k)
  BY DEF IInv
<1>3. PICK op \in {"launch", "restart", "stop"} :
        \/ /\ job' = [job EXCEPT ![j] = [op |-> op, inst |-> i, at |-> "stopping",
                                         core |-> handle[i].core, port |-> 0]]
           /\ IF Overlap(j, i) THEN Upset({i}) ELSE Calm
           /\ UNCHANGED <<handle, used>>
        \/ /\ op = "launch" /\ handle' = [handle EXCEPT ![i] = NoHandle]
           /\ BeginSpawn(j, op, i, 0)
        \/ op = "restart" /\ handle' = handle /\ BeginSpawn(j, op, i, 0)
        \/ op = "stop" /\ UNCHANGED <<job, handle, used, upset>>
  BY DEF Stop, driverVars, Calm
<1>4. DOMAIN left' \subseteq DOMAIN left
  BY <1>1
<1>5. CASE op = "launch" /\ handle' = [handle EXCEPT ![i] = NoHandle]
           /\ BeginSpawn(j, op, i, 0)
  BY <1>1, <1>4, <1>5, SpawnBegins
<1>6. CASE op = "restart" /\ handle' = handle /\ BeginSpawn(j, op, i, 0)
  BY <1>1, <1>4, <1>6, SpawnBegins
<1>7. CASE op = "stop" /\ UNCHANGED <<job, handle, used, upset>>
  BY <1>1, <1>7, Unrelated
<1>8. CASE /\ job' = [job EXCEPT ![j] = [op |-> op, inst |-> i, at |-> "stopping",
                                         core |-> handle[i].core, port |-> 0]]
           /\ IF Overlap(j, i) THEN Upset({i}) ELSE Calm
           /\ UNCHANGED <<handle, used>>
  <2> DEFINE row == [op |-> op, inst |-> i, at |-> "stopping",
                     core |-> handle[i].core, port |-> 0]
  <2>1. row \in JobRows /\ row.at = "stopping" /\ row.inst = i
    BY <1>2 DEF HandlesOK, JobRows
  <2>2. job' = [job EXCEPT ![j] = row]
    BY <1>8
  <2> HIDE DEF row
  <2>3. NoHandle \in Handles /\ 0 \in Ports \cup {0}
    BY IdleRows
  <2>4. /\ HandlesOK'
        /\ \A k \in Instances \ {i} : handle'[k] = handle[k] /\ registry'[k] = registry[k]
        /\ \A k \in Jobs \ {j} : job'[k] = job[k]
    <3>1. /\ handle' \in {handle, [handle EXCEPT ![i] = NoHandle]}
          /\ job' \in {job, [job EXCEPT ![j] = row]}
          /\ registry' \in {registry, [registry EXCEPT ![i] = 0]}
      BY <1>1, <1>8, <2>2
    <3>2. /\ row.at # "idle" => row.inst \in Instances
          /\ row.at = "spawning" => row.port \in Ports
      BY <2>1
    <3>3. QED
      BY <1>1, <1>2, <1>4, <2>1, <2>3, <3>1, <3>2, StillOK
  <2>5. job'[j] = row
    BY <1>1, <1>2, <2>2 DEF HandlesOK
  <2>6. upset \subseteq upset' /\ (i \notin upset' => i \notin upset /\ ~Overlap(j, i))
    BY <1>8 DEF Upset, Calm
  <2>7. PortsApart'
    <3>1. \A k \in Jobs : InFlight(k)' = InFlight(k)
      BY <1>1, <2>1, <2>4, <2>5 DEF InFlight
    <3>2. \A k \in Instances : Held(k)' = Held(k)
      BY <1>8 DEF Held, Known
    <3>3. QED
      BY <1>2, <1>8, <3>1, <3>2 DEF PortsApart
  <2>8. ASSUME i \notin upset' PROVE RegisteredAt(i)'
    <3>1. RegisteredAt(i) /\ \A k \in Jobs \ {j} : ~At(k, i)'
      BY <1>2, <2>4, <2>6, <2>8 DEF Overlap, At
    <3>2. ~At("boot", i)'
      BY <1>1, <3>1 DEF Jobs
    <3>3. job'[j].at # "rm"
      BY <2>1, <2>5
    <3>4. (Known(i)' \/ i \in DOMAIN left') => registry'[i] # 0
      BY <1>1, <1>8, <3>1 DEF RegisteredAt, Known
    <3>5. QED
      BY <3>1, <3>2, <3>3, <3>4 DEF RegisteredAt
  <2>9. \A k \in Instances \ upset' : RegisteredAt(k)'
    BY <1>1, <1>2, <1>4, <2>1, <2>4, <2>5, <2>6, <2>8, RegistryStep
  <2>10. JobsNeedWorker'
    BY <1>1 DEF JobsNeedWorker
  <2>11. QED
    BY <2>4, <2>7, <2>9, <2>10 DEF IInv
<1>9. QED
  BY <1>3, <1>5, <1>6, <1>7, <1>8

\* The end of driver.stop, whether it succeeded or not.
LEMMA AfterStopStep ==
  ASSUME IInv, NEW j \in Jobs, job[j].at = "stopping", UNCHANGED <<up, left, registry>>,
         \/ AfterStop(j)
         \/ /\ handle' = [handle EXCEPT ![job[j].inst] = NoHandle]
            /\ BeginSpawn(j, "launch", job[j].inst, 0)
  PROVE  IInv'
<1> DEFINE i == job[j].inst
<1>1. i \in Instances /\ InFlight(j) = {}
  BY DEF IInv, HandlesOK, InFlight
<1>2. up /\ DOMAIN left' \subseteq DOMAIN left
  BY DEF IInv, JobsNeedWorker
<1>3. j = "boot" /\ i \notin upset => registry[i] # 0
  BY <1>1 DEF IInv, RegisteredAt, At
<1>4. CASE handle' = [handle EXCEPT ![i] = NoHandle] /\ BeginSpawn(j, "launch", i, 0)
  BY <1>1, <1>2, <1>3, <1>4, SpawnBegins
<1>5. CASE handle' = handle /\ BeginSpawn(j, "restart", i, 0)
  BY <1>1, <1>2, <1>3, <1>5, SpawnBegins
<1>6. CASE job' = [job EXCEPT ![j] = NoJob] /\ UNCHANGED <<handle, used, upset>>
  BY <1>6, JobEnds
<1>7. QED
  BY <1>4, <1>5, <1>6 DEF AfterStop, Calm

\* The steps of a job that only end it.
LEMMA FailureSteps ==
  ASSUME IInv, NEW j \in Jobs,
         Signalled(j) \/ Stopped(j) \/ StopFails(j) \/ SpawnFails(j) \/ RunTimesOut(j)
           \/ RemoveFails(j)
  PROVE  IInv'
<1>1. CASE Signalled(j)
  BY <1>1, Unrelated DEF Signalled, driverVars
<1>2. CASE Stopped(j)
  BY <1>2, AfterStopStep DEF Stopped
<1>3. CASE StopFails(j)
  <2>1. job[j].at = "stopping" /\ UNCHANGED <<up, left, registry>>
    BY <1>3 DEF StopFails
  <2>2. CASE /\ handle' = [handle EXCEPT ![job[j].inst] = NoHandle]
             /\ BeginSpawn(j, "launch", job[j].inst, 0)
    BY <2>1, <2>2, AfterStopStep
  <2>3. CASE job' = [job EXCEPT ![j] = NoJob] /\ UNCHANGED driverVars
    BY <1>3, <2>1, <2>3, JobEnds DEF StopFails, driverVars
  <2>4. QED
    BY <1>3, <2>2, <2>3 DEF StopFails
<1>4. CASE SpawnFails(j)
  <2>1. InFlight(j) = {job[j].port}
    BY <1>4 DEF SpawnFails, InFlight
  <2>2. QED
    BY <1>4, <2>1, JobEnds DEF SpawnFails, Upset
<1>5. CASE RunTimesOut(j)
  <2>1. InFlight(j) = {job[j].port}
    BY <1>5 DEF RunTimesOut, InFlight
  <2>2. QED
    BY <1>5, <2>1, JobEnds DEF RunTimesOut, Upset
<1>6. CASE RemoveFails(j)
  <2>1. InFlight(j) = {job[j].port}
    BY <1>6 DEF RemoveFails, InFlight
  <2>2. QED
    BY <1>6, <2>1, JobEnds DEF RemoveFails, Upset
<1>7. QED
  BY <1>1, <1>2, <1>3, <1>4, <1>5, <1>6

\* A step of job j on instance i: its ports and its registration are left to
\* be seen.
LEMMA OneJob ==
  ASSUME IInv, NEW i \in Instances, NEW j \in Jobs,
         NEW h \in Handles, NEW row \in JobRows, NEW p \in Ports \cup {0},
         handle' \in {handle, [handle EXCEPT ![i] = h]},
         job' \in {job, [job EXCEPT ![j] = row]},
         registry' \in {registry, [registry EXCEPT ![i] = p]},
         left' = left, up, up' = up, upset \subseteq upset',
         row.at # "spawning", row.at # "idle" => row.inst = i,
         job'[j].at # "idle" => job'[j].inst = i,
         Held(i)' \cup InFlight(j)' \subseteq Held(i) \cup InFlight(j),
         Held(i)' \cap InFlight(j)' = {},
         Held(i)' \cup InFlight(j)' \subseteq used',
         used \ (Held(i) \cup InFlight(j)) \subseteq used',
         i \notin upset' => RegisteredAt(i)'
  PROVE  IInv'
<1>1. HandlesOK /\ PortsApart /\ \A k \in Instances \ upset : RegisteredAt(k)
  BY DEF IInv
<1>2. row.at # "idle" => row.inst \in Instances
  OBVIOUS
<1>3. /\ HandlesOK'
      /\ \A k \in Instances \ {i} : handle'[k] = handle[k] /\ registry'[k] = registry[k]
      /\ \A k \in Jobs \ {j} : job'[k] = job[k]
  BY <1>1, <1>2, StillOK
<1>4. PortsApart'
  <2>1. Held(i) \cup InFlight(j) \subseteq used
    BY <1>1 DEF PortsApart
  <2>2. \A k \in Instances \ {i} : Held(k)' \subseteq Held(k)
    BY <1>3 DEF Held, Known
  <2>3. \A k \in Jobs \ {j} : InFlight(k)' \subseteq InFlight(k)
    BY <1>3 DEF InFlight
  <2>4. QED
    BY <1>1, <2>1, <2>2, <2>3, PortsStep
<1>5. \A k \in Instances \ upset' : RegisteredAt(k)'
  BY <1>1, <1>3, RegistryStep
<1>6. JobsNeedWorker'
  BY DEF JobsNeedWorker
<1>7. QED
  BY <1>3, <1>4, <1>5, <1>6 DEF IInv

\* launch, restart or relaunch ends: the handle takes the port over from the job.
LEMMA SpawnedStep ==
  ASSUME IInv, NEW j \in Jobs, Spawned(j)
  PROVE  IInv'
<1>0. PICK i \in Instances, q \in Ports : job[j].inst = i /\ job[j].port = q
  BY DEF IInv, HandlesOK, Spawned
<1>1. /\ HandlesOK /\ i \in Instances /\ q \in Ports /\ up /\ up' = up
      /\ InFlight(j) = {q} /\ At(j, i)
  BY <1>0 DEF IInv, JobsNeedWorker, Spawned, InFlight, At
<1>2. PICK c \in Cores : handle' = [handle EXCEPT ![i] = [core |-> c, port |-> q]]
  BY <1>0 DEF Spawned
<1> DEFINE h == [core |-> c, port |-> q]
<1>3. h \in Handles /\ h.core # 0 /\ h.port = q
  BY <1>1 DEF Handles, Cores
<1>4. /\ job' = [job EXCEPT ![j] = NoJob] /\ left' = left /\ used' = used /\ upset' = upset
      /\ registry' = IF j = "boot" THEN registry ELSE [registry EXCEPT ![i] = q]
  BY <1>0 DEF Spawned, SaveInstance, Calm
<1> HIDE DEF h
<1>5. handle'[i] = h /\ job'[j] = NoJob /\ \A k \in Jobs \ {j} : job'[k] = job[k]
  BY <1>1, <1>2, <1>4 DEF HandlesOK, h
<1>6. Held(i)' = {q} /\ InFlight(j)' = {} /\ job'[j].at = "idle"
  BY <1>3, <1>5, IdleRows DEF Held, Known, InFlight
<1>7. q \in used
  BY <1>1 DEF IInv, PortsApart
<1>8. ASSUME i \notin upset' PROVE RegisteredAt(i)'
  <2>1. RegisteredAt(i)
    BY <1>1, <1>4, <1>8 DEF IInv
  <2>2. \A k \in Jobs : ~At(k, i)'
    BY <1>1, <1>5, <1>6, <2>1 DEF RegisteredAt, At
  <2>3. registry'[i] # 0
    <3>1. CASE j = "boot"
      BY <1>1, <1>4, <2>1, <3>1 DEF RegisteredAt
    <3>2. CASE j # "boot"
      BY <1>1, <1>4, <3>2 DEF HandlesOK, Ports
    <3>3. QED
      BY <3>1, <3>2
  <2>4. "boot" \in Jobs
    BY DEF Jobs
  <2>5. QED
    BY <2>2, <2>3, <2>4 DEF RegisteredAt
<1>9. /\ handle' \in {handle, [handle EXCEPT ![i] = h]}
      /\ job' \in {job, [job EXCEPT ![j] = NoJob]}
      /\ registry' \in {registry, [registry EXCEPT ![i] = q]}
      /\ q \in Ports \cup {0}
  BY <1>1, <1>2, <1>4 DEF h
<1>10. /\ Held(i)' \cup InFlight(j)' \subseteq Held(i) \cup InFlight(j)
       /\ Held(i)' \cap InFlight(j)' = {}
  BY <1>1, <1>6
<1>11. /\ Held(i)' \cup InFlight(j)' \subseteq used'
       /\ used \ (Held(i) \cup InFlight(j)) \subseteq used'
  BY <1>4, <1>6, <1>7
<1>12. QED
  BY <1>1, <1>3, <1>4, <1>6, <1>8, <1>9, <1>10, <1>11, IdleRows, OneJob

\* remove: the process driver lets go of the port at once, the Docker driver's
\* job takes it over from the handle.
LEMMA RemoveStep ==
  ASSUME IInv, NEW j \in Requests, NEW i \in Instances, Remove(j, i)
  PROVE  IInv'
<1>1. /\ j \in Jobs /\ j # "boot" /\ InFlight(j) = {} /\ up /\ up' = up
      /\ left' = left /\ job[j].at = "idle"
  BY WorkerAssumption DEF Jobs, Remove, Request, InFlight
<1>2. HandlesOK /\ PortsApart
  BY DEF IInv
<1>3. PICK row \in JobRows :
        \/ /\ registry' = [registry EXCEPT ![i] = 0] /\ job' = job /\ row = NoJob
           /\ used' = used \ Held(i)
        \/ /\ registry' = registry /\ job' = [job EXCEPT ![j] = row] /\ used' = used
           /\ row.inst = i /\ row.at = "rm" /\ row.port = handle[i].port /\ Known(i)
  <2>1. CASE ~Known(i) /\ registry' = Unregistered(i) /\ UNCHANGED <<job, used>>
    BY <2>1, IdleRows DEF Unregistered, Held
  <2>2. CASE Known(i) /\ registry' = Unregistered(i) /\ used' = used \ {handle[i].port}
             /\ UNCHANGED job
    BY <2>2, IdleRows DEF Unregistered, Held
  <2>3. CASE /\ Known(i) /\ UNCHANGED <<registry, used>>
             /\ job' = [job EXCEPT ![j] = [op |-> "remove", inst |-> i, at |-> "rm",
                                           core |-> handle[i].core, port |-> handle[i].port]]
    <3> DEFINE row == [op |-> "remove", inst |-> i, at |-> "rm",
                       core |-> handle[i].core, port |-> handle[i].port]
    <3>1. row \in JobRows /\ row.inst = i /\ row.at = "rm" /\ row.port = handle[i].port
      BY <1>2 DEF HandlesOK, JobRows
    <3>2. job' = [job EXCEPT ![j] = row]
      BY <2>3
    <3> HIDE DEF row
    <3>3. QED
      BY <2>3, <3>1, <3>2
  <2>4. QED
    BY <2>1, <2>2, <2>3 DEF Remove
<1>4. row.at \in {"idle", "rm"} /\ (row.at # "idle" => row.inst = i)
  BY <1>3, IdleRows
<1>5. handle' = [handle EXCEPT ![i] = NoHandle]
  BY DEF Remove
<1>6. ~Known(i)' /\ Held(i)' = {}
  BY <1>2, <1>5, IdleRows DEF HandlesOK, Known, Held
<1>7. /\ \A k \in Jobs \ {j} : job'[k] = job[k]
      /\ job'[j] = job[j] \/ job'[j] = row
  BY <1>1, <1>2, <1>3 DEF HandlesOK
<1>8. InFlight(j)' \subseteq Held(i) /\ job'[j].at \in {"idle", "rm"}
      /\ (job'[j].at # "idle" => job'[j].inst = i)
  BY <1>1, <1>3, <1>4, <1>7 DEF InFlight, Held
<1>9. upset \subseteq upset'
      /\ (i \notin upset' => i \notin upset /\ ~Overlap(j, i) /\ i \notin DOMAIN left)
  BY DEF Remove, Upset, Calm
<1>10. ASSUME i \notin upset' PROVE RegisteredAt(i)'
  <2>1. \A k \in Jobs \ {j} : ~At(k, i)'
    BY <1>7, <1>9, <1>10 DEF Overlap, At
  <2>2. ~At("boot", i)' /\ i \notin DOMAIN left'
    BY <1>1, <1>9, <1>10, <2>1 DEF Jobs
  <2>3. QED
    BY <1>6, <2>1, <2>2 DEF RegisteredAt
<1>11. Held(i) \subseteq used
  BY <1>2 DEF PortsApart
<1>12. InFlight(j)' \subseteq used'
  <2>1. CASE job' = job
    BY <1>1, <2>1 DEF InFlight
  <2>2. CASE used' = used
    BY <1>8, <1>11, <2>2
  <2>3. QED
    BY <1>3, <2>1, <2>2
<1>13. used \ Held(i) \subseteq used'
  BY <1>3
<1>14. /\ Held(i)' \cup InFlight(j)' \subseteq Held(i) \cup InFlight(j)
       /\ Held(i)' \cap InFlight(j)' = {}
       /\ Held(i)' \cup InFlight(j)' \subseteq used'
       /\ used \ (Held(i) \cup InFlight(j)) \subseteq used'
  BY <1>1, <1>6, <1>8, <1>12, <1>13
<1>15. /\ handle' \in {handle, [handle EXCEPT ![i] = NoHandle]}
       /\ job' \in {job, [job EXCEPT ![j] = row]}
       /\ registry' \in {registry, [registry EXCEPT ![i] = 0]}
  BY <1>3, <1>5
<1>16. QED
  BY <1>1, <1>4, <1>8, <1>9, <1>10, <1>14, <1>15, IdleRows, OneJob

\* `docker rm -f` has ended.
LEMMA RemovedStep ==
  ASSUME IInv, NEW j \in Jobs, Removed(j)
  PROVE  IInv'
<1>0. PICK i \in Instances : job[j].inst = i
  BY DEF IInv, HandlesOK, Removed
<1>1. /\ HandlesOK /\ PortsApart /\ up /\ up' = up /\ At(j, i) /\ job[j].at = "rm"
      /\ InFlight(j) = {job[j].port}
  BY <1>0 DEF IInv, JobsNeedWorker, Removed, InFlight, At
<1>2. /\ job' = [job EXCEPT ![j] = NoJob] /\ left' = left /\ handle' = handle
      /\ registry' = [registry EXCEPT ![i] = 0]
      /\ used' = used \ InFlight(j)
  BY <1>0, <1>1 DEF Removed, Unregistered
<1>3. upset \subseteq upset'
  BY DEF Removed, Upset, Calm
<1>4. job'[j] = NoJob /\ \A k \in Jobs \ {j} : job'[k] = job[k]
  BY <1>1, <1>2 DEF HandlesOK
<1>5. job'[j].at = "idle" /\ InFlight(j)' = {} /\ Held(i)' = Held(i) /\ Known(i)' = Known(i)
  BY <1>2, <1>4, IdleRows DEF InFlight, Held, Known
<1>6. ASSUME i \notin upset' PROVE RegisteredAt(i)'
  <2>1. RegisteredAt(i)
    BY <1>3, <1>6 DEF IInv
  <2>2. ~Known(i) /\ i \notin DOMAIN left /\ \A k \in Jobs : At(k, i) => k = j
    BY <1>1, <2>1 DEF RegisteredAt
  <2>3. \A k \in Jobs : ~At(k, i)'
    BY <1>4, <1>5, <2>2 DEF At
  <2>4. QED
    BY <1>2, <1>5, <2>2, <2>3 DEF RegisteredAt, Jobs
<1>7. Held(i) \subseteq used /\ Held(i) \cap InFlight(j) = {}
  BY <1>1 DEF PortsApart
<1>8. /\ Held(i)' \cup InFlight(j)' \subseteq Held(i) \cup InFlight(j)
      /\ Held(i)' \cap InFlight(j)' = {}
      /\ Held(i)' \cup InFlight(j)' \subseteq used'
      /\ used \ (Held(i) \cup InFlight(j)) \subseteq used'
  BY <1>2, <1>5, <1>7
<1>9. /\ handle' \in {handle, [handle EXCEPT ![i] = NoHandle]}
      /\ job' \in {job, [job EXCEPT ![j] = NoJob]}
      /\ registry' \in {registry, [registry EXCEPT ![i] = 0]}
  BY <1>2
<1>10. QED
  BY <1>1, <1>2, <1>3, <1>5, <1>6, <1>8, <1>9, IdleRows, OneJob

-----------------------------------------------------------------------------
\* The relaunch takes up its next instance.
LEMMA RelaunchStep ==
  ASSUME IInv, RelaunchNext
  PROVE  IInv'
<1>1. "boot" \in Jobs /\ InFlight("boot") = {} /\ up /\ up' = up
  BY DEF Jobs, RelaunchNext, InFlight
<1>2. PICK i \in DOMAIN left :
        /\ left' = [k \in DOMAIN left \ {i} |-> left[k]]
        /\ IF Known(i) THEN UNCHANGED <<used, job, upset>>
                       ELSE BeginSpawn("boot", "relaunch", i, left[i])
  BY DEF RelaunchNext
<1>3. handle' = handle /\ registry' = registry /\ DOMAIN left' \subseteq DOMAIN left
  BY <1>2 DEF RelaunchNext
<1>4. i \in Instances
  BY DEF IInv, HandlesOK
<1>5. CASE UNCHANGED <<used, job, upset>>
  <2>1. HandlesOK'
    BY <1>3, <1>5 DEF IInv, HandlesOK
  <2>2. PortsApart' /\ JobsNeedWorker'
    BY <1>1, <1>3, <1>5 DEF IInv, PortsApart, Held, InFlight, Known, JobsNeedWorker
  <2>3. \A k \in Instances \ upset' : RegisteredAt(k)'
    BY <1>3, <1>5 DEF IInv, RegisteredAt, Known, At
  <2>4. QED
    BY <2>1, <2>2, <2>3 DEF IInv
<1>6. CASE BeginSpawn("boot", "relaunch", i, left[i])
  <2>1. i \notin upset => registry[i] # 0
    BY <1>4 DEF IInv, RegisteredAt
  <2>2. QED
    BY <1>1, <1>3, <1>4, <1>6, <2>1, SpawnBegins
<1>7. QED
  BY <1>2, <1>5, <1>6

\* The Worker dies, or starts again.
LEMMA WorkerStep ==
  ASSUME IInv, WorkerStarts \/ \E pod \in BOOLEAN : WorkerDies(pod)
  PROVE  IInv'
<1>1. "boot" \in Jobs
  BY DEF Jobs
<1>2. CASE WorkerStarts
  <2>1. /\ UNCHANGED <<handle, used, job, registry, upset>> /\ up'
        /\ left' = [i \in Registered |-> registry[i]]
        /\ \A j \in Jobs : job[j].at = "idle"
    BY <1>2 DEF WorkerStarts, IInv, JobsNeedWorker
  <2>2. DOMAIN left' = Registered /\ Registered \subseteq Instances
    BY <2>1 DEF Registered
  <2>3. HandlesOK'
    BY <2>1, <2>2 DEF IInv, HandlesOK
  <2>4. PortsApart' /\ JobsNeedWorker'
    BY <2>1 DEF IInv, PortsApart, Held, InFlight, Known, JobsNeedWorker
  <2>5. \A k \in Instances \ upset' : RegisteredAt(k)'
    BY <1>1, <2>1, <2>2 DEF IInv, RegisteredAt, Registered, Known, At
  <2>6. QED
    BY <2>3, <2>4, <2>5 DEF IInv
<1>3. ASSUME NEW pod \in BOOLEAN, WorkerDies(pod) PROVE IInv'
  <2>1. /\ handle' = [i \in Instances |-> NoHandle]
        /\ job' = [j \in Jobs |-> NoJob] /\ left' = <<>>
    BY <1>3 DEF WorkerDies
  <2>2. registry' = registry \/ registry' = [i \in Instances |-> 0]
    BY <1>3 DEF WorkerDies
  <2>3. DOMAIN left' = {}
    BY <2>1
  <2>4. /\ handle' \in [Instances -> Handles] /\ job' \in [Jobs -> JobRows]
        /\ registry' \in [Instances -> Ports \cup {0}]
    BY <2>1, <2>2, IdleRows DEF IInv, HandlesOK
  <2>5. /\ \A j \in Jobs : job'[j].at = "idle"
        /\ \A i \in Instances : handle'[i].core = 0
    BY <2>1, IdleRows
  <2>6. HandlesOK'
    BY <2>3, <2>4, <2>5 DEF HandlesOK, Handles, JobRows
  <2>7. PortsApart' /\ JobsNeedWorker'
    BY <2>5 DEF PortsApart, Held, InFlight, Known, JobsNeedWorker
  <2>8. \A k \in Instances \ upset' : RegisteredAt(k)'
    BY <1>1, <2>3, <2>5 DEF RegisteredAt, Known, At
  <2>9. QED
    BY <2>6, <2>7, <2>8 DEF IInv
<1>4. QED
  BY <1>2, <1>3

\* What Cores do by themselves.
LEMMA CoreSteps ==
  ASSUME IInv, NEW c \in Cores,
         CoreStep(c) \/ TunnelEnds(c) \/ FlushState(c) \/ SaveFails(c) \/ CoreDies(c)
           \/ \E e \in Edits : Edit(c, e)
  PROVE  IInv'
<1>1. UNCHANGED <<up, handle, used, job, left, registry>>
  BY DEF CoreStep, Load, Save, Exit, TunnelEnds, FlushState, SaveFails, CoreDies, Edit, driverVars
<1>2. upset \subseteq upset'
  BY DEF CoreStep, Load, Save, Exit, TunnelEnds, FlushState, SaveFails, CoreDies, Edit,
         Upset, Calm
<1>3. QED
  BY <1>1, <1>2, Unrelated

\* Every step preserves the inductive invariant.
LEMMA StepInv == IInv /\ [Next]_vars => IInv'
<1> SUFFICES ASSUME IInv, [Next]_vars PROVE IInv'
  OBVIOUS
<1>1. CASE \E j \in Requests, i \in Instances : Launch(j, i) \/ Stop(j, i) \/ Remove(j, i)
  BY <1>1, LaunchStep, StopStep, RemoveStep
<1>2. CASE \E j \in Jobs : JobStep(j)
  BY <1>2, FailureSteps, SpawnedStep, RemovedStep DEF JobStep
<1>3. CASE WorkerStarts \/ RelaunchNext \/ \E pod \in BOOLEAN : WorkerDies(pod)
  BY <1>3, WorkerStep, RelaunchStep
<1>4. CASE \E c \in Cores :
             CoreStep(c) \/ TunnelEnds(c) \/ FlushState(c) \/ SaveFails(c) \/ CoreDies(c)
               \/ \E e \in Edits : Edit(c, e)
  BY <1>4, CoreSteps
<1>5. CASE UNCHANGED vars
  BY <1>5, Unrelated DEF vars
<1>6. QED
  BY <1>1, <1>2, <1>3, <1>4, <1>5 DEF Next

\* Handles, ports, jobs and the registry agree as IInv says, in every state the
\* Worker reaches.
THEOREM Invariance == Spec => []IInv
  BY InitInv, StepInv, PTL DEF Spec

\* With any number of instances, ports and requests at once, and however they
\* fail: no port is held twice and none that is held is free (PortAllocator).
THEOREM PortsStayApart == Spec => []PortsApart
<1>1. IInv => PortsApart
  BY DEF IInv
<1>2. QED
  BY Invariance, <1>1, PTL

\* And an instance the Worker knows is in the registry, so that the next start
\* brings it back (save_instance), unless it was upset before.
THEOREM Registry == Spec => []KnownIsRegistered
<1>1. IInv => KnownIsRegistered
  BY DEF IInv, RegisteredAt, KnownIsRegistered
<1>2. QED
  BY Invariance, <1>1, PTL

-----------------------------------------------------------------------------
(* Cores are tended and edits survive: CoreInv, which rests on IInv.        *)

Running == {"starting", "serving", "stopping"}

\* What is left of a Core that ended.
LEMMA EndedRow ==
  ASSUME CoresOK, NEW c \in Cores
  PROVE  /\ Ended(c) \in CoreRows /\ Ended(c).state \notin Running
         /\ Ended(c) = NoCore \/ Ended(c).inst = core[c].inst
         /\ NoCore \in CoreRows /\ NoCore.state \notin Running
  BY DEF CoresOK, Ended, CoreRows, NoCore, Running

\* Cores keep their types when one entry, or the edits of one instance, change.
LEMMA CoresStay ==
  ASSUME CoresOK, NEW c \in Cores, NEW row \in CoreRows, core' = [core EXCEPT ![c] = row],
         row.state \in Running => row.inst \in Instances,
         disk' \in [Instances -> SUBSET Edits], acked' \in [Instances -> SUBSET Edits]
  PROVE  CoresOK' /\ core'[c] = row /\ \A d \in Cores \ {c} : core'[d] = core[d]
<1>1. core \in [Cores -> CoreRows]
  BY DEF CoresOK, CoreRows
<1>2. core' \in [Cores -> CoreRows] /\ core'[c] = row /\ \A d \in Cores \ {c} : core'[d] = core[d]
  BY <1>1
<1>3. \A d \in Cores : Live(d)' => core'[d].inst \in Instances
  BY <1>2 DEF CoresOK, Live, Running
<1>4. QED
  BY <1>2, <1>3 DEF CoresOK, CoreRows

\* References stay good when Cores end or change in place, a Core appears where
\* nothing refers to, and jobs begin with the Core of a handle.
LEMMA RefersStay ==
  ASSUME RefersOK, driver' = driver,
         \A c \in Cores : \/ core'[c] \in {core[c], NoCore}
                          \/ core[c] # NoCore /\ core'[c].inst = core[c].inst
                          \/ Unused(c),
         \A i \in Instances : \/ handle'[i].core \in {0, handle[i].core}
                              \/ core'[handle'[i].core].inst = i,
         \A j \in Jobs : \/ job'[j] = job[j]
                         \/ job'[j].core = 0 /\ job'[j].at \notin {"stopping", "rm"}
                         \/ \E i \in Instances :
                              /\ job'[j].inst = i /\ job'[j].core = handle[i].core /\ Known(i)
                              /\ job'[j].at \in {"stopping", "rm"}
                              /\ job'[j].at = "rm" => ~Alone,
         HandlesOK, HandlesOK'
  PROVE  RefersOK'
<1>1. ASSUME NEW c \in Cores, NEW i, RefersTo(c, i), ~Unused(c)
      PROVE  RefersTo(c, i)'
  BY <1>1 DEF RefersTo, Cores
<1>2. ASSUME NEW i \in Instances PROVE RefersTo(handle[i].core, i)'
  <2>1. handle[i].core \in Cores \cup {0}
    BY DEF HandlesOK
  <2>2. CASE handle'[i].core = 0
    BY <2>2 DEF RefersTo
  <2>3. CASE handle'[i].core = handle[i].core /\ handle[i].core # 0
    <3>1. RefersTo(handle[i].core, i) /\ handle[i].core \in Cores /\ ~Unused(handle[i].core)
      BY <2>1, <2>3 DEF RefersOK, Unused
    <3>2. QED
      BY <1>1, <2>3, <3>1
  <2>4. CASE core'[handle'[i].core].inst = i
    BY <2>4 DEF RefersTo
  <2>5. QED
    BY <2>2, <2>3, <2>4
<1>3. ASSUME NEW j \in Jobs PROVE RefersTo(job[j].core, job[j].inst)'
  <2>1. CASE job'[j].core = 0
    BY <2>1 DEF RefersTo
  <2>2. CASE job'[j] = job[j] /\ job[j].core # 0
    <3>1. job[j].core \in Cores /\ ~Unused(job[j].core) /\ RefersTo(job[j].core, job[j].inst)
      BY <2>2 DEF HandlesOK, RefersOK, Unused
    <3>2. QED
      BY <1>1, <2>2, <3>1
  <2>3. ASSUME NEW i \in Instances, job'[j].inst = i, job'[j].core = handle[i].core, Known(i)
        PROVE  RefersTo(job[j].core, job[j].inst)'
    <3>1. handle[i].core \in Cores /\ ~Unused(handle[i].core) /\ RefersTo(handle[i].core, i)
      BY <2>3 DEF HandlesOK, RefersOK, Unused, Known
    <3>2. QED
      BY <1>1, <2>3, <3>1
  <2>4. QED
    BY <2>1, <2>2, <2>3
<1>4. ASSUME NEW j \in Jobs
      PROVE  /\ (job'[j].core # 0) = (job'[j].at \in {"stopping", "rm"})
             /\ job'[j].at = "rm" => ~Alone'
  BY DEF RefersOK, Alone, Known
<1>5. QED
  BY <1>2, <1>3, <1>4 DEF RefersOK

\* A step that concerns one instance leaves the others' Cores as they were.
LEMMA OneInstance ==
  ASSUME CoreInv, CoresOK', RefersOK', NEW k \in Instances, upset \subseteq upset',
         \A i \in Instances \ {k} :
           /\ handle'[i] = handle[i] /\ disk'[i] = disk[i] /\ acked'[i] = acked[i]
           /\ \A j \in Jobs : At(j, i) \/ At(j, i)' => job'[j] = job[j]
           /\ \A c \in Cores : RunsFor(c, i) \/ RunsFor(c, i)' => core'[c] = core[c],
         k \notin upset' => TendedAt(k)' /\ SavedAt(k)'
  PROVE  CoreInv'
<1>1. ASSUME NEW i \in Instances \ upset', i # k PROVE TendedAt(i)' /\ SavedAt(i)'
  <2>1. TendedAt(i) /\ SavedAt(i) /\ handle'[i] = handle[i] /\ disk'[i] = disk[i]
        /\ acked'[i] = acked[i]
    BY <1>1 DEF CoreInv
  <2>2. \A c \in Cores : (RunsFor(c, i)' <=> RunsFor(c, i)) /\ (RunsFor(c, i) => core'[c] = core[c])
    BY <1>1 DEF RunsFor, Live
  <2>3. \A j \in Jobs : (At(j, i)' <=> At(j, i)) /\ (At(j, i) => job'[j] = job[j])
    BY <1>1 DEF At
  <2>4. TendedAt(i)'
    BY <2>1, <2>2, <2>3 DEF TendedAt
  <2>5. \A c \in Cores : (Holds(c, i)' <=> Holds(c, i)) /\ (Holds(c, i) => core'[c] = core[c])
    BY <2>2 DEF Holds, RunsFor, Live
  <2>6. SavedAt(i)'
    BY <2>1, <2>5 DEF SavedAt
  <2>7. QED
    BY <2>4, <2>6
<1>2. QED
  BY <1>1 DEF CoreInv

\* driver.launch up to its await, for what Cores are concerned with.
LEMMA SpawnRow ==
  ASSUME NEW i \in Instances, NEW j \in Jobs, NEW op, NEW preferred,
         BeginSpawn(j, op, i, preferred)
  PROVE  /\ upset \subseteq upset'
         /\ \E row :
              /\ job' = [job EXCEPT ![j] = row]
              /\ row.core = 0 /\ row.at \in {"idle", "spawning"}
              /\ row.at = "spawning" => row.inst = i
              /\ i \notin upset' => row.at = "spawning" /\ ~Overlap(j, i)
<1>1. CASE job' = [job EXCEPT ![j] = NoJob] /\ Upset({i})
  <2>1. NoJob.core = 0 /\ NoJob.at = "idle" /\ i \in upset' /\ upset \subseteq upset'
    BY <1>1 DEF NoJob, Upset
  <2>2. QED
    BY <1>1, <2>1
<1>2. ASSUME NEW p,
             job' = [job EXCEPT ![j] = [op |-> op, inst |-> i, at |-> "spawning",
                                        core |-> 0, port |-> p]],
             IF Overlap(j, i) THEN Upset({i}) ELSE Calm
      PROVE  /\ upset \subseteq upset'
             /\ \E row :
                  /\ job' = [job EXCEPT ![j] = row]
                  /\ row.core = 0 /\ row.at \in {"idle", "spawning"}
                  /\ row.at = "spawning" => row.inst = i
                  /\ i \notin upset' => row.at = "spawning" /\ ~Overlap(j, i)
  <2> DEFINE row == [op |-> op, inst |-> i, at |-> "spawning", core |-> 0, port |-> p]
  <2>1. row.core = 0 /\ row.at = "spawning" /\ row.inst = i
    OBVIOUS
  <2>2. upset \subseteq upset' /\ (i \notin upset' => ~Overlap(j, i))
    BY <1>2 DEF Upset, Calm
  <2>3. job' = [job EXCEPT ![j] = row]
    BY <1>2
  <2> HIDE DEF row
  <2>4. QED
    BY <2>1, <2>2, <2>3
<1>3. QED
  BY <1>1, <1>2 DEF BeginSpawn

\* It keeps Cores tended when the instance's own Core does not run any more.
LEMMA SpawnTended ==
  ASSUME IInv, IInv', CoreInv, CoresOK', driver' = driver,
         NEW i \in Instances, NEW j \in Jobs, NEW op, NEW preferred,
         BeginSpawn(j, op, i, preferred), job[j].at = "idle" \/ At(j, i),
         handle' \in {handle, [handle EXCEPT ![i] = NoHandle]},
         disk' = disk, acked' = acked,
         \A c \in Cores :
           \/ core'[c] = core[c]
           \/ RunsFor(c, i) /\ ~Live(c)' /\ (core'[c] = NoCore \/ core'[c].inst = i),
         i \notin upset' => SavedAt(i)' /\ \A c \in Cores : ~RunsFor(c, i)'
  PROVE  CoreInv'
<1>1. /\ HandlesOK /\ HandlesOK' /\ RefersOK
  BY DEF IInv, CoreInv
<1>2. PICK row :
        /\ job' = [job EXCEPT ![j] = row]
        /\ row.core = 0 /\ row.at \in {"idle", "spawning"}
        /\ row.at = "spawning" => row.inst = i
        /\ i \notin upset' => row.at = "spawning" /\ ~Overlap(j, i)
  BY SpawnRow
<1>3. job'[j] = row /\ \A l \in Jobs \ {j} : job'[l] = job[l]
  BY <1>1, <1>2 DEF HandlesOK
<1>4. \A k \in Instances : handle'[k] = handle[k] \/ (k = i /\ handle'[k].core = 0)
  <2>1. NoHandle.core = 0
    BY DEF NoHandle
  <2>2. QED
    BY <1>1, <2>1 DEF HandlesOK
<1>5. \A c \in Cores : RunsFor(c, i) => core[c] # NoCore /\ core[c].inst = i
  BY DEF RunsFor, Live, NoCore
<1>6. RefersOK'
  <2>1. \A c \in Cores : \/ core'[c] \in {core[c], NoCore}
                         \/ core[c] # NoCore /\ core'[c].inst = core[c].inst
                         \/ Unused(c)
    BY <1>5
  <2>2. \A k \in Instances : handle'[k].core \in {0, handle[k].core}
    BY <1>4
  <2>3. \A l \in Jobs : \/ job'[l] = job[l]
                        \/ job'[l].core = 0 /\ job'[l].at \notin {"stopping", "rm"}
    BY <1>2, <1>3
  <2>4. QED
    BY <1>1, <2>1, <2>2, <2>3, RefersStay
<1>7. ASSUME NEW k \in Instances \ {i}
      PROVE  /\ handle'[k] = handle[k]
             /\ \A l \in Jobs : At(l, k) \/ At(l, k)' => job'[l] = job[l]
             /\ \A c \in Cores : RunsFor(c, k) \/ RunsFor(c, k)' => core'[c] = core[c]
  <2>1. ~At(j, k) /\ ~At(j, k)'
    BY <1>2, <1>3, <1>7 DEF At
  <2>2. \A c \in Cores : RunsFor(c, k) => ~RunsFor(c, i)
    BY <1>7 DEF RunsFor
  <2>3. QED
    BY <1>3, <1>4, <1>7, <2>1, <2>2 DEF RunsFor
<1>8. ASSUME i \notin upset' PROVE TendedAt(i)'
  <2>1. \A l \in Jobs : At(l, i)' => l = j /\ job'[l].at = "spawning"
    BY <1>2, <1>3, <1>8 DEF Overlap, At
  <2>2. QED
    BY <1>8, <2>1 DEF TendedAt
<1>9. upset \subseteq upset'
  BY SpawnRow
<1>10. QED
  BY <1>6, <1>7, <1>8, <1>9, OneInstance

\* In an instance that nothing upset and whose handle has no running Core,
\* none runs unless it is being removed.
LEMMA NoneRuns ==
  ASSUME NEW i \in Instances, TendedAt(i), ~Known(i) \/ ~RunsFor(handle[i].core, i),
         \A j \in Jobs : ~(At(j, i) /\ job[j].at = "rm")
  PROVE  \A c \in Cores : ~RunsFor(c, i)
  BY DEF TendedAt, Known, Cores

\* What CoreInv needs of the state, when nothing of it changes but handles and jobs.
LEMMA CoresUntouched ==
  ASSUME CoresOK, UNCHANGED <<core, disk, acked>>
  PROVE  /\ CoresOK' /\ \A i : SavedAt(i)' = SavedAt(i)
         /\ \A c \in Cores : \A i : RunsFor(c, i)' = RunsFor(c, i)
  BY DEF CoresOK, SavedAt, Holds, RunsFor, Live

\* A launch, a restart without a running Core, or a relaunch begins.
LEMMA FirstSpawn ==
  ASSUME IInv, IInv', CoreInv, NEW i \in Instances, NEW j \in Jobs, NEW op, NEW preferred,
         BeginSpawn(j, op, i, preferred), job[j].at = "idle",
         ~Known(i) \/ ~RunsFor(handle[i].core, i),
         handle' \in {handle, [handle EXCEPT ![i] = NoHandle]},
         UNCHANGED <<driver, core, disk, acked>>
  PROVE  CoreInv'
<1>1. /\ CoresOK' /\ \A k : SavedAt(k)' = SavedAt(k)
      /\ \A c \in Cores : \A k : RunsFor(c, k)' = RunsFor(c, k)
  BY CoresUntouched DEF CoreInv
<1>2. ASSUME i \notin upset' PROVE SavedAt(i)' /\ \A c \in Cores : ~RunsFor(c, i)'
  <2>1. i \notin upset /\ ~Overlap(j, i)
    BY <1>2, SpawnRow
  <2>2. TendedAt(i) /\ SavedAt(i)
    BY <2>1 DEF CoreInv
  <2>3. \A l \in Jobs : ~(At(l, i) /\ job[l].at = "rm")
    BY <2>1 DEF Overlap, At
  <2>4. \A c \in Cores : ~RunsFor(c, i)
    BY <2>2, <2>3, NoneRuns
  <2>5. QED
    BY <1>1, <2>2, <2>4
<1>3. QED
  BY <1>1, <1>2, SpawnTended

\* A launch keeps Cores tended and edits saved.
LEMMA LaunchCores ==
  ASSUME IInv, IInv', CoreInv, NEW j \in Requests, NEW i \in Instances, Launch(j, i)
  PROVE  CoreInv'
<1>1. /\ j \in Jobs /\ job[j].at = "idle" /\ ~Known(i) /\ BeginSpawn(j, "launch", i, 0)
      /\ handle' = handle /\ UNCHANGED <<driver, core, disk, acked>>
  BY DEF Launch, Request, Jobs, coreVars
<1>2. QED
  BY <1>1, FirstSpawn

\* So does a relaunch.
LEMMA RelaunchCores ==
  ASSUME IInv, IInv', CoreInv, RelaunchNext
  PROVE  CoreInv'
<1>1. /\ "boot" \in Jobs /\ job["boot"].at = "idle" /\ handle' = handle
      /\ UNCHANGED <<driver, core, disk, acked>>
  BY DEF RelaunchNext, Jobs, coreVars
<1>2. PICK i \in Instances : \/ ~Known(i) /\ BeginSpawn("boot", "relaunch", i, left[i])
                             \/ UNCHANGED <<job, upset>>
  BY DEF RelaunchNext, IInv, HandlesOK
<1>3. CASE ~Known(i) /\ BeginSpawn("boot", "relaunch", i, left[i])
  BY <1>1, <1>3, FirstSpawn
<1>4. CASE UNCHANGED <<job, upset>>
  BY <1>1, <1>4, CoresUntouched
     DEF CoreInv, RefersOK, RefersTo, Alone, TendedAt, At
<1>5. QED
  BY <1>2, <1>3, <1>4

\* SIGTERM: the Core ends, or goes on with what it holds.
LEMMA TerminatedRow ==
  ASSUME CoresOK, NEW c \in Cores
  PROVE  /\ Terminated(c) \in CoreRows
         /\ Terminated(c).state \in Running => Live(c) /\ core[c].inst \in Instances
         /\ \/ Terminated(c) = NoCore
            \/ core[c] # NoCore /\ Terminated(c).inst = core[c].inst
            \/ Terminated(c) = core[c]
         /\ (Terminated(c).state \in {"serving", "stopping"})
              = (core[c].state \in {"serving", "stopping"})
         /\ core[c].state \in {"serving", "stopping"} =>
              /\ Terminated(c).inst = core[c].inst /\ Terminated(c).mem = core[c].mem
              /\ Terminated(c).saving = core[c].saving
<1>1. core[c] \in CoreRows
  BY DEF CoresOK, CoreRows
<1>2. CASE core[c].state = "starting"
  BY <1>1, <1>2, EndedRow DEF Terminated, CoreRows, CoresOK, Live, Running, NoCore
<1>3. CASE core[c].state = "serving"
  BY <1>1, <1>3 DEF Terminated, CoreRows, CoresOK, Live, Running, NoCore
<1>4. CASE core[c].state \notin {"starting", "serving"}
  BY <1>1, <1>4 DEF Terminated, CoreRows, CoresOK, Live, Running, NoCore
<1>5. QED
  BY <1>2, <1>3, <1>4

\* Edits are as safe as before when Cores hold what they held.
LEMMA HoldsSame ==
  ASSUME NEW i \in Instances, SavedAt(i), disk'[i] = disk[i], acked'[i] = acked[i],
         \A c \in Cores :
           /\ Holds(c, i)' = Holds(c, i)
           /\ Holds(c, i) => core'[c].mem = core[c].mem /\ core'[c].saving = core[c].saving
  PROVE  SavedAt(i)'
  BY DEF SavedAt

\* launch, restart or stop of a known instance.
LEMMA StopCores ==
  ASSUME IInv, IInv', CoreInv, NEW j \in Requests, NEW i \in Instances, Stop(j, i)
  PROVE  CoreInv'
<1> DEFINE c == handle[i].core
<1>1. /\ j \in Jobs /\ job[j].at = "idle" /\ Known(i) /\ c \in Cores
      /\ UNCHANGED <<driver, disk, acked>> /\ CoresOK /\ RefersOK
      /\ HandlesOK /\ HandlesOK'
  BY DEF Stop, Request, Jobs, IInv, HandlesOK, Known, CoreInv
<1>2. core' = IF Alone THEN [core EXCEPT ![c] = Terminated(c)] ELSE core
  BY DEF Stop
<1>3. CASE StopWaits(c)
  <2>1. PICK op \in {"launch", "restart", "stop"} :
          /\ job' = [job EXCEPT ![j] = [op |-> op, inst |-> i, at |-> "stopping",
                                        core |-> c, port |-> 0]]
          /\ IF Overlap(j, i) THEN Upset({i}) ELSE Calm
    BY <1>3 DEF Stop
  <2>2. /\ job'[j].inst = i /\ job'[j].at = "stopping" /\ job'[j].core = c
        /\ \A l \in Jobs \ {j} : job'[l] = job[l]
    BY <1>1, <2>1 DEF HandlesOK
  <2>3. handle' = handle
    BY <1>3 DEF Stop, driverVars
  <2>4. upset \subseteq upset' /\ (i \notin upset' => i \notin upset /\ ~Overlap(j, i))
    BY <2>1 DEF Upset, Calm
  <2>5. /\ CoresOK' /\ \A d \in Cores \ {c} : core'[d] = core[d]
        /\ core'[c] \in {core[c], Terminated(c)}
    <3>1. CASE core' = core
      BY <1>1, <3>1, CoresUntouched
    <3>2. CASE core' = [core EXCEPT ![c] = Terminated(c)]
      <4>1. Terminated(c).state \in Running => Terminated(c).inst \in Instances
        BY <1>1, TerminatedRow DEF CoreRows, NoCore, Running
      <4>2. QED
        BY <1>1, <3>2, <4>1, TerminatedRow, CoresStay DEF CoresOK
    <3>3. QED
      BY <1>2, <3>1, <3>2
  <2>6. RefersOK'
    <3>1. \A d \in Cores : \/ core'[d] \in {core[d], NoCore}
                           \/ core[d] # NoCore /\ core'[d].inst = core[d].inst
                           \/ Unused(d)
      BY <1>1, <2>5, TerminatedRow
    <3>2. \A k \in Instances : handle'[k].core \in {0, handle[k].core}
      BY <2>3
    <3>3. /\ job'[j].at \in {"stopping", "rm"} /\ job'[j].at # "rm"
          /\ job'[j].inst = i /\ job'[j].core = handle[i].core
      BY <2>2
    <3> HIDE DEF c
    <3>4. QED
      BY <1>1, <2>2, <3>1, <3>2, <3>3, RefersStay
  <2>7. \A d \in Cores, k \in Instances : RunsFor(d, k)' => RunsFor(d, k)
    BY <1>1, <2>5, TerminatedRow DEF RunsFor, Live, Running, NoCore
  <2>8. ASSUME NEW k \in Instances \ {i}
        PROVE  /\ handle'[k] = handle[k] /\ disk'[k] = disk[k] /\ acked'[k] = acked[k]
               /\ \A l \in Jobs : At(l, k) \/ At(l, k)' => job'[l] = job[l]
               /\ \A d \in Cores : RunsFor(d, k) \/ RunsFor(d, k)' => core'[d] = core[d]
    <3>1. ~At(j, k) /\ ~At(j, k)'
      BY <1>1, <2>2, <2>8 DEF At
    <3>2. ~RunsFor(c, k)
      BY <1>1, <2>8 DEF RefersOK, RefersTo, RunsFor, Live, NoCore, Known
    <3>3. QED
      BY <1>1, <2>2, <2>3, <2>5, <2>7, <3>1, <3>2
  <2>9. ASSUME i \notin upset' PROVE TendedAt(i)' /\ SavedAt(i)'
    <3>1. i \notin upset /\ TendedAt(i) /\ SavedAt(i)
      BY <2>4, <2>9 DEF CoreInv
    <3>2. \A l \in Jobs : (At(l, i) => FALSE) /\ (At(l, i)' => l = j)
      BY <1>1, <2>2, <2>4, <2>9 DEF Overlap, At
    <3>3. TendedAt(i)'
      BY <2>2, <2>3, <2>7, <3>1, <3>2 DEF TendedAt
    <3>4. \A d \in Cores :
            /\ Holds(d, i)' = Holds(d, i)
            /\ Holds(d, i) => core'[d].mem = core[d].mem /\ core'[d].saving = core[d].saving
      BY <1>1, <2>5, TerminatedRow DEF Holds
    <3>5. QED
      BY <1>1, <3>1, <3>3, <3>4, HoldsSame
  <2>10. QED
    BY <2>4, <2>5, <2>6, <2>8, <2>9, OneInstance
<1>4. CASE ~StopWaits(c)
  <2>1. Alone /\ ~Live(c)
    BY <1>4 DEF StopWaits
  <2>2. core' = core
    BY <1>1, <1>2, <2>1 DEF Terminated, Live, CoresOK
  <2>3. ~RunsFor(handle[i].core, i)
    BY <2>1 DEF RunsFor
  <2>4. CASE UNCHANGED <<job, driverVars, upset>>
    <3>1. handle' = handle
      BY <2>4 DEF driverVars
    <3>2. QED
      BY <1>1, <2>2, <2>4, <3>1, CoresUntouched
         DEF CoreInv, RefersOK, RefersTo, Alone, TendedAt, At
  <2>5. ASSUME NEW op, BeginSpawn(j, op, i, 0),
               handle' \in {handle, [handle EXCEPT ![i] = NoHandle]}
        PROVE  CoreInv'
    BY <1>1, <2>2, <2>3, <2>5, FirstSpawn
  <2>6. QED
    BY <1>4, <2>4, <2>5 DEF Stop, driverVars, Calm
<1>5. QED
  BY <1>3, <1>4

\* A request gives up: its instance is upset.
LEMMA GiveUpCores ==
  ASSUME IInv, IInv', CoreInv, NEW j \in Jobs, job[j].at # "idle",
         job' = [job EXCEPT ![j] = NoJob], handle' = handle,
         UNCHANGED <<driver, core, disk, acked>>, upset \subseteq upset', job[j].inst \in upset'
  PROVE  CoreInv'
<1> DEFINE i == job[j].inst
<1>1. HandlesOK /\ HandlesOK' /\ CoresOK /\ RefersOK /\ i \in Instances
  BY DEF IInv, HandlesOK, CoreInv
<1>2. job'[j].at = "idle" /\ job'[j].core = 0 /\ \A l \in Jobs \ {j} : job'[l] = job[l]
  BY <1>1 DEF HandlesOK, NoJob
<1>3. CoresOK' /\ \A c \in Cores : \A k : RunsFor(c, k)' = RunsFor(c, k)
  BY <1>1, CoresUntouched
<1>4. RefersOK'
  BY <1>1, <1>2 DEF RefersOK, RefersTo, Alone
<1>5. ASSUME NEW k \in Instances \ {i}, NEW l \in Jobs, At(l, k) \/ At(l, k)'
      PROVE  job'[l] = job[l]
  BY <1>2, <1>5 DEF At
<1>6. QED
  BY <1>1, <1>3, <1>4, <1>5, OneInstance

\* One Core at most runs for an instance that nothing upset.
LEMMA OnlyOne ==
  ASSUME IInv, CoreInv, NEW i \in Instances \ upset,
         NEW c \in Cores, NEW d \in Cores, RunsFor(c, i), RunsFor(d, i)
  PROVE  c = d
<1>1. TendedAt(i) /\ RegisteredAt(i)
  BY DEF IInv, CoreInv
<1>2. handle[i].core \in {c, d} => Known(i)
  BY DEF Known, Cores
<1>3. QED
  BY <1>1, <1>2 DEF TendedAt, RegisteredAt

\* A Core ends or changes in place: how its edits fare is left to be seen.
LEMMA CoreChanges ==
  ASSUME IInv, IInv', CoreInv, NEW i \in Instances,
         NEW c \in Cores, RunsFor(c, i), NEW row \in CoreRows,
         core' = [core EXCEPT ![c] = row], row = NoCore \/ row.inst = i,
         UNCHANGED <<driver, handle, job>>, upset \subseteq upset',
         disk' \in [Instances -> SUBSET Edits], acked' \in [Instances -> SUBSET Edits],
         \A k \in Instances \ {i} : disk'[k] = disk[k] /\ acked'[k] = acked[k],
         i \notin upset' => SavedAt(i)'
  PROVE  CoreInv'
<1>1. CoresOK /\ RefersOK /\ HandlesOK /\ HandlesOK' /\ core[c].inst = i /\ core[c] # NoCore
  BY DEF CoreInv, IInv, RunsFor, Live, NoCore
<1>2. CoresOK' /\ core'[c] = row /\ \A d \in Cores \ {c} : core'[d] = core[d]
  <2>1. row.state \in Running => row.inst \in Instances
    BY <1>1, EndedRow
  <2>2. QED
    BY <1>1, <2>1, CoresStay
<1>3. RefersOK'
  BY <1>1, <1>2, RefersStay
<1>4. \A d \in Cores, k \in Instances : RunsFor(d, k)' => RunsFor(d, k)
  BY <1>1, <1>2 DEF RunsFor, Live, NoCore
<1>5. ASSUME NEW k \in Instances \ {i}
      PROVE  \A d \in Cores : RunsFor(d, k) \/ RunsFor(d, k)' => core'[d] = core[d]
  <2>1. ~RunsFor(c, k)
    BY <1>5 DEF RunsFor
  <2>2. QED
    BY <1>2, <1>4, <1>5, <2>1
<1>6. ASSUME i \notin upset' PROVE TendedAt(i)'
  <2>1. TendedAt(i) /\ \A l \in Jobs : At(l, i)' = At(l, i)
    BY <1>1, <1>6 DEF CoreInv, At
  <2>2. QED
    BY <1>1, <1>4, <2>1 DEF TendedAt
<1>7. \A k \in Instances \ {i} : \A l \in Jobs : At(l, k) \/ At(l, k)' => job'[l] = job[l]
  OBVIOUS
<1>8. QED
  BY <1>1, <1>2, <1>3, <1>5, <1>6, <1>7, OneInstance

\* `docker stop` reaches the container.
LEMMA SignalledCores ==
  ASSUME IInv, IInv', CoreInv, NEW j \in Jobs, Signalled(j)
  PROVE  CoreInv'
<1>1. PICK c \in Cores, i \in Instances :
        /\ c = job[j].core /\ RunsFor(c, i)
        /\ core' = [core EXCEPT ![c] = Terminated(c)]
  BY DEF Signalled, IInv, HandlesOK, CoreInv, CoresOK, RefersOK, RunsFor, Live
<1>2. /\ UNCHANGED <<driver, handle, job, disk, acked, upset>> /\ CoresOK
      /\ core'[c] = Terminated(c) /\ \A d \in Cores \ {c} : core'[d] = core[d]
  BY <1>1 DEF Signalled, CoreInv, CoresOK, driverVars
<1>3. ASSUME i \notin upset' PROVE SavedAt(i)'
  <2>1. SavedAt(i)
    BY <1>2, <1>3 DEF CoreInv
  <2>2. \A d \in Cores :
          /\ Holds(d, i)' = Holds(d, i)
          /\ Holds(d, i) => core'[d].mem = core[d].mem /\ core'[d].saving = core[d].saving
    BY <1>2, TerminatedRow DEF Holds
  <2>3. QED
    BY <1>2, <2>1, <2>2, HoldsSame
<1>4. Terminated(c) = NoCore \/ Terminated(c).inst = i
  BY <1>1, <1>2, TerminatedRow DEF RunsFor
<1>5. QED
  BY <1>1, <1>2, <1>3, <1>4, TerminatedRow, CoreChanges DEF CoresOK

\* With one Core per instance, its edits are safe when that Core holds them, or
\* has ended and they are on disk.
LEMMA SavedByCore ==
  ASSUME IInv, CoreInv, NEW i \in Instances \ upset, NEW c \in Cores, RunsFor(c, i),
         \A d \in Cores \ {c} : core'[d] = core[d],
         \/ /\ Holds(c, i)' /\ acked'[i] \subseteq core'[c].mem
            /\ core'[c].saving = "no" => core'[c].mem \subseteq disk'[i]
         \/ ~Holds(c, i)' /\ acked'[i] \subseteq disk'[i]
  PROVE  SavedAt(i)'
<1>1. \A d \in Cores \ {c} : ~Holds(d, i)'
  BY OnlyOne DEF Holds, RunsFor, Live
<1>2. QED
  BY <1>1 DEF SavedAt

\* Before it serves, its edits are on disk.
LEMMA StartingSaved ==
  ASSUME IInv, CoreInv, NEW i \in Instances \ upset, NEW c \in Cores, RunsFor(c, i),
         core[c].state = "starting"
  PROVE  acked[i] \subseteq disk[i]
<1>1. \A d \in Cores : ~Holds(d, i)
  BY OnlyOne DEF Holds, RunsFor, Live
<1>2. QED
  BY <1>1 DEF CoreInv, SavedAt

\* Load and the end of a Core.
LEMMA LoadExitCores ==
  ASSUME IInv, IInv', CoreInv, NEW c \in Cores, Load(c) \/ Exit(c) \/ CoreDies(c)
  PROVE  CoreInv'
<1>1. PICK i \in Instances : RunsFor(c, i) /\ core[c].inst = i
  BY DEF CoreInv, CoresOK, RunsFor, Live, Load, Exit, CoreDies
<1>2. /\ UNCHANGED <<driver, handle, job, acked>> /\ CoresOK /\ core[c] \in CoreRows
      /\ upset \subseteq upset'
  BY DEF Load, Exit, CoreDies, CoreInv, CoresOK, CoreRows, driverVars, Upset, Calm
<1>3. CASE Load(c)
  <2> DEFINE row == IF PortIsFree(core[c].port)
                    THEN [core[c] EXCEPT !.state = "serving", !.mem = disk[core[c].inst]]
                    ELSE Ended(c)
  <2>1. row \in CoreRows /\ (row = NoCore \/ row.inst = i)
    BY <1>1, <1>2, EndedRow DEF CoreRows, CoresOK
  <2>2. core' = [core EXCEPT ![c] = row] /\ disk' = disk /\ upset' = upset
        /\ core[c].state = "starting"
    BY <1>3 DEF Load
  <2>3. core'[c] = row /\ \A d \in Cores \ {c} : core'[d] = core[d]
    BY <1>2, <2>2 DEF CoresOK
  <2>4. ASSUME i \notin upset' PROVE SavedAt(i)'
    <3>1. acked[i] \subseteq disk[i]
      BY <1>1, <2>2, <2>4, StartingSaved
    <3>2. CASE PortIsFree(core[c].port)
      <4>1. Holds(c, i)' /\ core'[c].mem = disk[i]
        BY <1>1, <1>2, <2>3, <3>2 DEF Holds, CoreRows
      <4>2. QED
        BY <1>1, <1>2, <2>2, <2>3, <2>4, <3>1, <4>1, SavedByCore
    <3>3. CASE ~PortIsFree(core[c].port)
      <4>1. ~Holds(c, i)'
        BY <1>2, <2>3, <3>3, EndedRow DEF Holds, Running
      <4>2. QED
        BY <1>1, <1>2, <2>2, <2>3, <2>4, <3>1, <4>1, SavedByCore
    <3>4. QED
      BY <3>2, <3>3
  <2> HIDE DEF row
  <2>5. QED
    BY <1>1, <1>2, <2>1, <2>2, <2>4, CoreChanges DEF CoresOK
<1>4. CASE Exit(c) \/ CoreDies(c)
  <2>1. core' = [core EXCEPT ![c] = Ended(c)]
    BY <1>4 DEF Exit, CoreDies
  <2>2. core'[c] = Ended(c) /\ (\A d \in Cores \ {c} : core'[d] = core[d]) /\ ~Holds(c, i)'
    BY <1>2, <2>1, EndedRow DEF CoresOK, Holds, Running
  <2>3. disk' \in [Instances -> SUBSET Edits] /\ \A k \in Instances \ {i} : disk'[k] = disk[k]
    BY <1>1, <1>2, <1>4 DEF Exit, CoreDies, FinalSave, CoresOK, CoreRows
  <2>4. ASSUME i \notin upset' PROVE SavedAt(i)'
    <3>1. i \notin upset /\ SavedAt(i)
      BY <1>2, <2>4 DEF CoreInv
    <3>2. CASE Exit(c)
      <4>1. Holds(c, i) /\ disk'[i] = core[c].mem
        BY <1>1, <1>2, <3>2 DEF Exit, FinalSave, Holds, CoresOK
      <4>2. acked[i] \subseteq disk'[i]
        BY <3>1, <4>1 DEF SavedAt
      <4>3. QED
        BY <1>1, <1>2, <2>2, <3>1, <4>2, SavedByCore
    <3>3. CASE CoreDies(c)
      <4>1. disk' = disk /\ ~Unsaved(c)
        BY <1>1, <2>4, <3>3 DEF CoreDies, Upset
      <4>2. acked[i] \subseteq disk[i]
        <5>1. CASE core[c].state = "starting"
          BY <1>1, <3>1, <5>1, StartingSaved
        <5>2. CASE Holds(c, i)
          BY <1>1, <3>1, <4>1, <5>2 DEF Unsaved, Holds, SavedAt
        <5>3. QED
          BY <1>1, <5>1, <5>2 DEF RunsFor, Live, Holds
      <4>3. QED
        BY <1>1, <1>2, <2>2, <3>1, <4>1, <4>2, SavedByCore
    <3>4. QED
      BY <1>4, <3>2, <3>3
  <2>5. QED
    BY <1>1, <1>2, <2>1, <2>3, <2>4, EndedRow, CoreChanges DEF CoresOK
<1>5. QED
  BY <1>3, <1>4

\* Edits and saves.
LEMMA SaveCores ==
  ASSUME IInv, IInv', CoreInv, NEW c \in Cores,
         \/ Save(c) \/ TunnelEnds(c) \/ FlushState(c) \/ SaveFails(c)
         \/ \E e \in Edits : Edit(c, e)
  PROVE  CoreInv'
<1>1. PICK i \in Instances : RunsFor(c, i) /\ Holds(c, i) /\ core[c].inst = i
  BY DEF CoreInv, CoresOK, RunsFor, Live, Save, TunnelEnds, FlushState, SaveFails, Edit, Holds
<1>2. /\ UNCHANGED <<driver, handle, job>> /\ CoresOK /\ core[c] \in CoreRows
      /\ upset \subseteq upset'
  BY DEF Save, TunnelEnds, FlushState, SaveFails, Edit, CoreInv, CoresOK, CoreRows,
         driverVars, Upset, Calm
<1>3. core \in [Cores -> CoreRows]
  BY <1>2 DEF CoresOK, CoreRows
<1>4. PICK row \in CoreRows :
        /\ core' = [core EXCEPT ![c] = row]
        /\ row.inst = i /\ row.state = core[c].state
        /\ i \notin upset' =>
             \/ /\ acked'[i] = acked[i] /\ row.mem = core[c].mem /\ disk'[i] = core[c].mem
             \/ /\ acked'[i] = acked[i] /\ row.mem = core[c].mem /\ row.saving # "no"
             \/ \E e \in Edits : /\ acked'[i] = acked[i] \cup {e}
                                 /\ row.mem = core[c].mem \cup {e} /\ row.saving # "no"
  <2>1. CASE Save(c)
    <3> DEFINE row == [core[c] EXCEPT !.saving = SaveAgain(@)]
    <3>1. row \in CoreRows /\ row.inst = i /\ row.state = core[c].state /\ row.mem = core[c].mem
      BY <1>1, <1>2 DEF CoreRows, SaveAgain
    <3>2. core' = [core EXCEPT ![c] = row] /\ disk'[i] = core[c].mem /\ acked' = acked
      BY <1>1, <1>2, <2>1 DEF Save, CoresOK
    <3> HIDE DEF row
    <3>3. QED
      BY <3>1, <3>2
  <2>2. CASE TunnelEnds(c)
    <3> DEFINE row == [core[c] EXCEPT !.saving = ScheduleSave(@)]
    <3>1. /\ row \in CoreRows /\ row.inst = i /\ row.state = core[c].state
          /\ row.mem = core[c].mem /\ row.saving # "no"
      BY <1>1, <1>2 DEF CoreRows, ScheduleSave
    <3>2. core' = [core EXCEPT ![c] = row] /\ acked' = acked
      BY <2>2 DEF TunnelEnds
    <3> HIDE DEF row
    <3>3. QED
      BY <3>1, <3>2
  <2>3. CASE FlushState(c)
    <3>1. core' = [core EXCEPT ![c] = core[c]] /\ disk'[i] = core[c].mem /\ acked' = acked
      BY <1>1, <1>2, <1>3, <2>3 DEF FlushState, CoresOK
    <3>2. QED
      BY <1>1, <1>2, <3>1
  <2>4. CASE SaveFails(c)
    <3> DEFINE row == [core[c] EXCEPT !.saving = SaveAgain(@)]
    <3>1. row \in CoreRows /\ row.inst = i /\ row.state = core[c].state
      BY <1>1, <1>2 DEF CoreRows, SaveAgain
    <3>2. core' = [core EXCEPT ![c] = row] /\ i \in upset'
      BY <1>1, <2>4 DEF SaveFails, Upset
    <3> HIDE DEF row
    <3>3. QED
      BY <3>1, <3>2
  <2>5. ASSUME NEW e \in Edits, Edit(c, e)
        PROVE  \E row \in CoreRows :
                 /\ core' = [core EXCEPT ![c] = row]
                 /\ row.inst = i /\ row.state = core[c].state
                 /\ acked'[i] = acked[i] \cup {e}
                 /\ row.mem = core[c].mem \cup {e} /\ row.saving # "no"
    <3> DEFINE row == [core[c] EXCEPT !.mem = @ \cup {e}, !.saving = ScheduleSave(@)]
    <3>1. /\ row \in CoreRows /\ row.inst = i /\ row.state = core[c].state
          /\ row.mem = core[c].mem \cup {e} /\ row.saving # "no"
      BY <1>1, <1>2 DEF CoreRows, ScheduleSave
    <3>2. core' = [core EXCEPT ![c] = row]
      BY <1>2, <1>3, <2>5 DEF Edit
    <3>3. acked'[i] = acked[i] \cup {e}
      BY <1>1, <1>2, <2>5 DEF Edit, CoresOK
    <3> HIDE DEF row
    <3>4. QED
      BY <3>1, <3>2, <3>3
  <2>6. QED
    BY <2>1, <2>2, <2>3, <2>4, <2>5
<1>5. core'[c] = row /\ \A d \in Cores \ {c} : core'[d] = core[d]
  BY <1>3, <1>4
<1>6. /\ disk' \in [Instances -> SUBSET Edits] /\ acked' \in [Instances -> SUBSET Edits]
      /\ \A k \in Instances \ {i} : disk'[k] = disk[k] /\ acked'[k] = acked[k]
  <2>1. CASE Save(c) \/ FlushState(c)
    BY <1>1, <1>2, <2>1 DEF Save, FlushState, CoresOK, CoreRows
  <2>2. CASE TunnelEnds(c) \/ SaveFails(c)
    BY <1>1, <1>2, <2>2 DEF TunnelEnds, SaveFails, CoresOK
  <2>3. CASE \E e \in Edits : Edit(c, e)
    <3>1. PICK e \in Edits : disk' = disk /\ acked' = [acked EXCEPT ![i] = @ \cup {e}]
      BY <1>1, <2>3 DEF Edit
    <3>2. QED
      BY <1>2, <3>1 DEF CoresOK
  <2>4. QED
    BY <2>1, <2>2, <2>3
<1>7. ASSUME i \notin upset' PROVE SavedAt(i)'
  <2>1. i \notin upset /\ acked[i] \subseteq core[c].mem
    BY <1>1, <1>2, <1>7 DEF CoreInv, SavedAt
  <2>2. Holds(c, i)'
    BY <1>1, <1>4, <1>5 DEF Holds
  <2>3. /\ acked'[i] \subseteq core'[c].mem
        /\ core'[c].saving = "no" => core'[c].mem \subseteq disk'[i]
    BY <1>4, <1>5, <1>7, <2>1
  <2>4. QED
    BY <1>1, <1>5, <2>1, <2>2, <2>3, SavedByCore
<1>8. QED
  BY <1>1, <1>2, <1>4, <1>6, <1>7, CoreChanges

\* driver.stop has ended: its Core does not run and has saved its edits.
LEMMA StoppedCores ==
  ASSUME IInv, IInv', CoreInv, NEW j \in Jobs, Stopped(j)
  PROVE  CoreInv'
<1>1. PICK c \in Cores, i \in Instances :
        /\ c = job[j].core /\ i = job[j].inst /\ At(j, i) /\ job[j].at = "stopping"
        /\ Live(c) => /\ RunsFor(c, i) /\ core[c].state = "stopping"
                      /\ core[c].saving = "no" \/ disk[i] = core[c].mem
  BY DEF Stopped, IInv, HandlesOK, CoreInv, RefersOK, RefersTo, RunsFor, Live, At, NoCore
<1>2. /\ UNCHANGED <<driver, disk, acked>> /\ CoresOK /\ RefersOK /\ HandlesOK /\ HandlesOK'
      /\ core' = IF Live(c) THEN [core EXCEPT ![c] = Ended(c)] ELSE core
      /\ AfterStop(j)
  BY <1>1 DEF Stopped, CoreInv, IInv
<1>3. /\ CoresOK' /\ ~Live(c)' /\ \A d \in Cores \ {c} : core'[d] = core[d]
      /\ \/ core'[c] = core[c]
         \/ RunsFor(c, i) /\ (core'[c] = NoCore \/ core'[c].inst = i)
  <2>1. CASE Live(c)
    <3>1. core' = [core EXCEPT ![c] = Ended(c)]
      BY <1>2, <2>1
    <3>2. CoresOK' /\ core'[c] = Ended(c) /\ \A d \in Cores \ {c} : core'[d] = core[d]
      BY <1>2, <3>1, EndedRow, CoresStay DEF CoresOK
    <3>3. QED
      BY <1>1, <1>2, <2>1, <3>2, EndedRow DEF Live, Running, RunsFor
  <2>2. CASE ~Live(c)
    BY <1>2, <2>2, CoresUntouched DEF Live
  <2>3. QED
    BY <2>1, <2>2
<1>4. upset \subseteq upset'
  BY <1>1, <1>2, SpawnRow DEF AfterStop, Calm
<1>5. ASSUME i \notin upset' PROVE SavedAt(i)' /\ \A d \in Cores : ~RunsFor(d, i)'
  <2>1. i \notin upset /\ TendedAt(i) /\ SavedAt(i) /\ RegisteredAt(i)
    BY <1>4, <1>5 DEF CoreInv, IInv
  <2>2. \A l \in Jobs : At(l, i) => l = j
    BY <1>1, <2>1 DEF RegisteredAt
  <2>3. \A d \in Cores : RunsFor(d, i) => d = c
    BY <1>1, <2>1, <2>2 DEF TendedAt
  <2>4. \A d \in Cores : ~RunsFor(d, i)'
    BY <1>3, <2>3 DEF RunsFor, Live
  <2>5. CASE Live(c)
    <3>1. acked[i] \subseteq disk[i]
      BY <1>1, <2>1, <2>5 DEF SavedAt, Holds, RunsFor
    <3>2. ~Holds(c, i)'
      BY <1>3 DEF Holds, Live
    <3>3. QED
      BY <1>1, <1>2, <1>3, <2>1, <2>4, <2>5, <3>1, <3>2, SavedByCore
  <2>6. CASE ~Live(c)
    <3>1. core' = core
      BY <1>2, <2>6
    <3>2. QED
      BY <1>2, <2>1, <2>4, <3>1 DEF SavedAt, Holds
  <2>7. QED
    BY <2>5, <2>6
<1>6. \A d \in Cores :
        \/ core'[d] = core[d]
        \/ RunsFor(d, i) /\ ~Live(d)' /\ (core'[d] = NoCore \/ core'[d].inst = i)
  BY <1>3
<1>7. ASSUME NEW op, BeginSpawn(j, op, i, 0),
             handle' \in {handle, [handle EXCEPT ![i] = NoHandle]}
      PROVE  CoreInv'
  BY <1>1, <1>2, <1>3, <1>5, <1>6, <1>7, SpawnTended
<1>8. CASE job' = [job EXCEPT ![j] = NoJob] /\ handle' = handle
  <2>1. job'[j].at = "idle" /\ job'[j].core = 0 /\ \A l \in Jobs \ {j} : job'[l] = job[l]
    BY <1>2, <1>8 DEF HandlesOK, NoJob
  <2>2. RefersOK'
    <3>1. \A d \in Cores : \/ core'[d] \in {core[d], NoCore}
                           \/ core[d] # NoCore /\ core'[d].inst = core[d].inst
                           \/ Unused(d)
      BY <1>6 DEF RunsFor, Live, NoCore
    <3>2. QED
      BY <1>2, <1>8, <2>1, <3>1, RefersStay
  <2>3. ASSUME NEW k \in Instances \ {i}
        PROVE  /\ \A l \in Jobs : At(l, k) \/ At(l, k)' => job'[l] = job[l]
               /\ \A d \in Cores : RunsFor(d, k) \/ RunsFor(d, k)' => core'[d] = core[d]
    <3>1. ~At(j, k) /\ ~At(j, k)'
      BY <1>1, <2>1, <2>3 DEF At
    <3>2. QED
      BY <1>6, <2>1, <2>3, <3>1 DEF RunsFor, Live
  <2>4. ASSUME i \notin upset' PROVE TendedAt(i)' /\ SavedAt(i)'
    <3>1. \A l \in Jobs : ~At(l, i)'
      BY <1>1, <1>4, <2>1, <2>4 DEF At, IInv, RegisteredAt
    <3>2. QED
      BY <1>5, <2>4, <3>1 DEF TendedAt
  <2>5. QED
    BY <1>2, <1>3, <1>4, <1>8, <2>2, <2>3, <2>4, OneInstance
<1>9. QED
  BY <1>1, <1>2, <1>7, <1>8 DEF AfterStop

\* A stop, a spawn or a removal fails.
LEMMA FailedCores ==
  ASSUME IInv, IInv', CoreInv, NEW j \in Jobs,
         StopFails(j) \/ SpawnFails(j) \/ RemoveFails(j)
  PROVE  CoreInv'
<1>1. PICK i \in Instances : i = job[j].inst /\ At(j, i) /\ i \in upset'
  BY DEF StopFails, SpawnFails, RemoveFails, IInv, HandlesOK, At, Upset
<1>2. UNCHANGED <<driver, core, disk, acked>> /\ upset \subseteq upset'
  BY DEF StopFails, SpawnFails, RemoveFails, coreVars, Upset
<1>3. CASE BeginSpawn(j, "launch", i, 0) /\ handle' = [handle EXCEPT ![i] = NoHandle]
  BY <1>1, <1>2, <1>3, CoresUntouched, SpawnTended DEF CoreInv
<1>4. CASE job' = [job EXCEPT ![j] = NoJob] /\ handle' = handle
  BY <1>1, <1>2, <1>4, GiveUpCores DEF At
<1>5. QED
  BY <1>1, <1>3, <1>4 DEF StopFails, SpawnFails, RemoveFails, driverVars

\* A Core appears: with its handle, or without one when `docker run` timed out.
LEMMA SpawnedCores ==
  ASSUME IInv, IInv', CoreInv, NEW j \in Jobs, Spawned(j) \/ RunTimesOut(j)
  PROVE  CoreInv'
<1>1. PICK i \in Instances :
        /\ i = job[j].inst /\ At(j, i) /\ job[j].at = "spawning" /\ job[j].port \in Ports
  BY DEF IInv, HandlesOK, Spawned, RunTimesOut, At
<1>2. PICK c \in Cores :
        /\ Unused(c)
        /\ core' = [core EXCEPT ![c] = [NoCore EXCEPT !.inst = i, !.port = job[j].port,
                                                      !.state = "starting"]]
        /\ \/ handle' = [handle EXCEPT ![i] = [core |-> c, port |-> job[j].port]]
              /\ upset' = upset
           \/ handle' = handle /\ upset' = upset \cup {i}
  BY <1>1 DEF Spawned, RunTimesOut, Calm, Upset
<1>3. /\ job' = [job EXCEPT ![j] = NoJob] /\ UNCHANGED <<driver, disk, acked>>
      /\ CoresOK /\ RefersOK /\ HandlesOK /\ HandlesOK'
  BY DEF Spawned, RunTimesOut, CoreInv, IInv
<1>4. PICK row \in CoreRows :
        /\ core' = [core EXCEPT ![c] = row]
        /\ row.inst = i /\ row.state = "starting"
  <2> DEFINE row == [NoCore EXCEPT !.inst = i, !.port = job[j].port, !.state = "starting"]
  <2>1. row \in CoreRows /\ row.inst = i /\ row.state = "starting"
    BY <1>1 DEF NoCore, CoreRows
  <2>2. core' = [core EXCEPT ![c] = row]
    BY <1>2
  <2> HIDE DEF row
  <2>3. QED
    BY <2>1, <2>2
<1>5. /\ CoresOK' /\ core'[c] = row /\ \A d \in Cores \ {c} : core'[d] = core[d]
  BY <1>3, <1>4, CoresStay DEF CoresOK
<1>6. /\ job'[j].at = "idle" /\ job'[j].core = 0 /\ \A l \in Jobs \ {j} : job'[l] = job[l]
  BY <1>3 DEF HandlesOK, NoJob
<1>7. /\ \A k \in Instances \ {i} : handle'[k] = handle[k]
      /\ \/ handle'[i].core = c /\ upset' = upset
         \/ handle'[i] = handle[i] /\ upset' = upset \cup {i}
  BY <1>2, <1>3 DEF HandlesOK
<1>8. RefersOK'
  <2>1. \A d \in Cores : core'[d] \in {core[d], NoCore} \/ Unused(d)
    BY <1>2, <1>5
  <2>2. \A k \in Instances : handle'[k].core \in {0, handle[k].core}
                               \/ core'[handle'[k].core].inst = k
    BY <1>4, <1>5, <1>7
  <2>3. QED
    BY <1>3, <1>6, <2>1, <2>2, RefersStay
<1>9. \A k \in Instances : ~RunsFor(c, k) /\ ~Holds(c, k)
  BY <1>2 DEF Unused, RunsFor, Live, Holds, NoCore
<1>10. ASSUME NEW k \in Instances \ {i}
       PROVE  /\ \A l \in Jobs : At(l, k) \/ At(l, k)' => job'[l] = job[l]
              /\ \A d \in Cores : RunsFor(d, k) \/ RunsFor(d, k)' => core'[d] = core[d]
  <2>1. ~At(j, k) /\ ~At(j, k)'
    BY <1>1, <1>6, <1>10 DEF At
  <2>2. ~RunsFor(c, k)'
    BY <1>4, <1>5, <1>10 DEF RunsFor
  <2>3. QED
    BY <1>5, <1>6, <1>9, <2>1, <2>2 DEF RunsFor, Live
<1>11. ASSUME i \notin upset' PROVE TendedAt(i)' /\ SavedAt(i)'
  <2>1. i \notin upset /\ TendedAt(i) /\ SavedAt(i) /\ RegisteredAt(i) /\ handle'[i].core = c
    BY <1>7, <1>11 DEF CoreInv, IInv
  <2>2. \A d \in Cores : ~RunsFor(d, i) /\ ~Holds(d, i)
    BY <1>1, <2>1 DEF TendedAt, RunsFor, Live, Holds
  <2>3. \A d \in Cores : (RunsFor(d, i)' => d = c) /\ ~Holds(d, i)'
    BY <1>4, <1>5, <2>2 DEF RunsFor, Live, Holds
  <2>4. \A l \in Jobs : ~At(l, i)'
    BY <1>1, <1>6, <2>1 DEF RegisteredAt, At
  <2>5. TendedAt(i)'
    BY <2>1, <2>3, <2>4 DEF TendedAt
  <2>6. SavedAt(i)'
    BY <1>3, <2>1, <2>2, <2>3 DEF SavedAt
  <2>7. QED
    BY <2>5, <2>6
<1>12. upset \subseteq upset'
  BY <1>7
<1>13. QED
  BY <1>3, <1>5, <1>7, <1>8, <1>10, <1>11, <1>12, OneInstance

\* remove begins; with the process driver that is all.
LEMMA RemoveCores ==
  ASSUME IInv, IInv', CoreInv, NEW j \in Requests, NEW i \in Instances, Remove(j, i)
  PROVE  CoreInv'
<1>1. /\ j \in Jobs /\ job[j].at = "idle" /\ UNCHANGED <<driver, core>>
      /\ CoresOK /\ RefersOK /\ HandlesOK /\ HandlesOK'
      /\ handle' = [handle EXCEPT ![i] = NoHandle]
  BY DEF Remove, Request, Jobs, IInv, CoreInv
<1>2. /\ handle'[i].core = 0 /\ \A k \in Instances \ {i} : handle'[k] = handle[k]
  BY <1>1, IdleRows DEF HandlesOK
<1>3. /\ upset \subseteq upset'
      /\ i \notin upset' => /\ i \notin upset /\ ~Overlap(j, i)
                            /\ ~(Alone /\ Known(i) /\ Live(handle[i].core))
  BY DEF Remove, Upset, Calm
<1>4. /\ disk' \in [Instances -> SUBSET Edits] /\ acked' \in [Instances -> SUBSET Edits]
      /\ \A k \in Instances \ {i} : disk'[k] = disk[k] /\ acked'[k] = acked[k]
      /\ \/ disk' = disk /\ acked' = acked
         \/ Known(i) /\ Alone /\ acked'[i] = {}
  BY <1>1 DEF Remove, CoresOK
<1>5. /\ \A l \in Jobs \ {j} : job'[l] = job[l]
      /\ \/ job'[j] = job[j] /\ (~Known(i) \/ Alone)
         \/ /\ job'[j].inst = i /\ job'[j].at = "rm" /\ job'[j].core = handle[i].core
            /\ Known(i) /\ ~Alone
  <2>1. CASE ~Known(i) \/ Alone
    BY <2>1 DEF Remove
  <2>2. CASE job' = [job EXCEPT ![j] = [op |-> "remove", inst |-> i, at |-> "rm",
                                        core |-> handle[i].core, port |-> handle[i].port]]
    <3>1. job'[j] = [op |-> "remove", inst |-> i, at |-> "rm",
                     core |-> handle[i].core, port |-> handle[i].port]
      BY <1>1, <2>2 DEF HandlesOK
    <3>2. \A l \in Jobs \ {j} : job'[l] = job[l]
      BY <1>1, <2>2 DEF HandlesOK
    <3>3. QED
      BY <2>1, <3>1, <3>2
  <2>3. QED
    BY <2>1, <2>2 DEF Remove
<1>6. CoresOK'
  BY <1>1, <1>4 DEF CoresOK, Live
<1>7. RefersOK'
  <2>1. \A k \in Instances : handle'[k].core \in {0, handle[k].core}
    BY <1>2
  <2>2. job'[j] = job[j] \/ (/\ job'[j].inst = i /\ job'[j].core = handle[i].core /\ Known(i)
                             /\ job'[j].at = "rm" /\ ~Alone)
    BY <1>5
  <2>3. QED
    BY <1>1, <1>5, <2>1, <2>2, RefersStay
<1>8. ASSUME NEW k \in Instances \ {i}, NEW l \in Jobs, At(l, k) \/ At(l, k)'
      PROVE  job'[l] = job[l]
  BY <1>1, <1>5, <1>8 DEF At
<1>9. \A d \in Cores, k \in Instances :
        RunsFor(d, k)' = RunsFor(d, k) /\ Holds(d, k)' = Holds(d, k)
  BY <1>1 DEF RunsFor, Live, Holds
<1>10. ASSUME i \notin upset' PROVE TendedAt(i)' /\ SavedAt(i)'
  <2>1. TendedAt(i) /\ SavedAt(i) /\ \A l \in Jobs : ~At(l, i)
    BY <1>1, <1>3, <1>10 DEF CoreInv, Overlap, At
  <2>2. \A l \in Jobs : At(l, i)' => l = j /\ job'[j] # job[j]
    BY <1>5, <2>1 DEF At
  <2>3. CASE job'[j] = job[j]
    <3>1. \A d \in Cores : ~RunsFor(d, i) /\ ~Holds(d, i)
      <4>1. ~Known(i) \/ ~RunsFor(handle[i].core, i)
        BY <1>1, <1>3, <1>5, <1>10, <2>3 DEF RunsFor
      <4>2. QED
        BY <2>1, <4>1, NoneRuns DEF Holds, RunsFor, Live
    <3>2. TendedAt(i)'
      BY <1>9, <2>2, <2>3, <3>1 DEF TendedAt
    <3>3. SavedAt(i)'
      BY <1>4, <1>9, <2>1, <3>1 DEF SavedAt
    <3>4. QED
      BY <3>2, <3>3
  <2>4. CASE /\ job'[j].inst = i /\ job'[j].at = "rm" /\ job'[j].core = handle[i].core
             /\ Known(i) /\ ~Alone
    <3>1. At(j, i)'
      BY <2>4 DEF At
    <3>2. TendedAt(i)'
      BY <1>1, <1>9, <2>1, <2>2, <2>4, <3>1 DEF TendedAt
    <3>3. SavedAt(i)'
      BY <1>1, <1>4, <2>1, <2>4 DEF SavedAt, Holds
    <3>4. QED
      BY <3>2, <3>3
  <2>5. QED
    BY <1>5, <2>3, <2>4
<1>11. QED
  BY <1>1, <1>2, <1>3, <1>4, <1>6, <1>7, <1>8, <1>9, <1>10, OneInstance

\* `docker rm -f` has ended.
LEMMA RemovedCores ==
  ASSUME IInv, IInv', CoreInv, NEW j \in Jobs, Removed(j)
  PROVE  CoreInv'
<1>1. PICK i \in Instances, c \in Cores :
        /\ i = job[j].inst /\ c = job[j].core /\ At(j, i) /\ job[j].at = "rm"
        /\ core[c] = NoCore \/ core[c].inst = i
  BY DEF Removed, IInv, HandlesOK, CoreInv, RefersOK, RefersTo, At, Cores
<1>2. /\ core' = [core EXCEPT ![c] = NoCore] /\ job' = [job EXCEPT ![j] = NoJob]
      /\ UNCHANGED <<driver, handle, disk, acked>> /\ upset \subseteq upset'
      /\ i \notin upset' => ~Unsaved(c)
      /\ CoresOK /\ RefersOK /\ HandlesOK /\ HandlesOK'
  BY <1>1 DEF Removed, IInv, CoreInv, Upset, Calm
<1>3. /\ CoresOK' /\ core'[c] = NoCore /\ \A d \in Cores \ {c} : core'[d] = core[d]
  BY <1>2, EndedRow, CoresStay DEF CoresOK
<1>4. /\ job'[j].at = "idle" /\ job'[j].core = 0 /\ \A l \in Jobs \ {j} : job'[l] = job[l]
  BY <1>2 DEF HandlesOK, NoJob
<1>5. RefersOK'
  BY <1>2, <1>3, <1>4, RefersStay
<1>6. \A k \in Instances : ~RunsFor(c, k)' /\ ~Holds(c, k)'
  BY <1>3 DEF RunsFor, Live, Holds, NoCore
<1>7. ASSUME NEW k \in Instances \ {i}
      PROVE  /\ \A l \in Jobs : At(l, k) \/ At(l, k)' => job'[l] = job[l]
             /\ \A d \in Cores : RunsFor(d, k) \/ RunsFor(d, k)' => core'[d] = core[d]
  <2>1. ~At(j, k) /\ ~At(j, k)'
    BY <1>1, <1>4, <1>7 DEF At
  <2>2. ~RunsFor(c, k)
    BY <1>1, <1>7 DEF RunsFor, Live, NoCore
  <2>3. QED
    BY <1>3, <1>4, <1>6, <1>7, <2>1, <2>2 DEF RunsFor, Live
<1>8. ASSUME i \notin upset' PROVE TendedAt(i)' /\ SavedAt(i)'
  <2>1. i \notin upset /\ TendedAt(i) /\ SavedAt(i) /\ RegisteredAt(i)
    BY <1>2, <1>8 DEF CoreInv, IInv
  <2>2. ~Known(i) /\ \A l \in Jobs : At(l, i) => l = j
    BY <1>1, <2>1 DEF RegisteredAt
  <2>3. \A d \in Cores : RunsFor(d, i) => d = c
    BY <1>1, <2>1, <2>2 DEF TendedAt, Known, Cores
  <2>4. \A d \in Cores : ~RunsFor(d, i)'
    BY <1>3, <1>6, <2>3 DEF RunsFor, Live
  <2>5. \A l \in Jobs : ~At(l, i)'
    BY <1>4, <2>2 DEF At
  <2>6. TendedAt(i)'
    BY <2>4, <2>5 DEF TendedAt
  <2>7. acked[i] \subseteq disk[i]
    <3>1. CASE Holds(c, i)
      BY <1>2, <1>8, <2>1, <3>1 DEF SavedAt, Unsaved, Holds
    <3>2. CASE ~Holds(c, i)
      BY <2>1, <2>3, <3>2 DEF SavedAt, Holds, RunsFor, Live
    <3>3. QED
      BY <3>1, <3>2
  <2>8. SavedAt(i)'
    BY <1>2, <2>4, <2>7 DEF SavedAt, Holds, RunsFor, Live
  <2>9. QED
    BY <2>6, <2>8
<1>9. QED
  BY <1>2, <1>3, <1>5, <1>7, <1>8, OneInstance

\* The Worker dies, alone or with its pod, or starts again.
LEMMA WorkerCores ==
  ASSUME IInv, IInv', CoreInv, WorkerStarts \/ \E pod \in BOOLEAN : WorkerDies(pod)
  PROVE  CoreInv'
<1>1. CASE WorkerStarts
  <2>1. UNCHANGED <<driver, handle, job, core, disk, acked, upset>>
    BY <1>1 DEF WorkerStarts, coreVars
  <2>2. QED
    BY <2>1, CoresUntouched DEF CoreInv, RefersOK, RefersTo, Alone, TendedAt, At
<1>2. ASSUME NEW pod \in BOOLEAN, WorkerDies(pod) PROVE CoreInv'
  <2>1. /\ \A i \in Instances : handle'[i].core = 0
        /\ \A j \in Jobs : job'[j].core = 0 /\ job'[j].at = "idle"
        /\ UNCHANGED <<driver, disk, acked>> /\ CoresOK
    BY <1>2 DEF WorkerDies, NoHandle, NoJob, CoreInv
  <2>2. core' = IF pod THEN [c \in Cores |-> IF Live(c) THEN Ended(c) ELSE core[c]] ELSE core
    BY <1>2 DEF WorkerDies
  <2>3. /\ \A c \in Cores : core'[c] = core[c] \/ (pod /\ core'[c] = Ended(c))
        /\ pod => \A c \in Cores : ~Live(c)'
    BY <2>2, EndedRow, <2>1 DEF Live, Running
  <2>4. CoresOK'
    <3>1. core' \in [Cores -> CoreRows]
      <4>1. core \in [Cores -> CoreRows]
        BY <2>1 DEF CoresOK, CoreRows
      <4>2. QED
        BY <2>1, <2>2, <4>1, EndedRow
    <3>2. \A c \in Cores : Live(c)' => core'[c].inst \in Instances
      BY <2>1, <2>2, <2>3 DEF CoresOK, Live
    <3>3. QED
      BY <2>1, <3>1, <3>2 DEF CoresOK, CoreRows
  <2>5. RefersOK'
    BY <2>1 DEF RefersOK, RefersTo
  <2>6. ASSUME NEW i \in Instances \ upset' PROVE TendedAt(i)' /\ SavedAt(i)'
    <3>1. /\ i \notin upset /\ SavedAt(i)
          /\ \A c \in Cores : RunsFor(c, i) => pod /\ ~Unsaved(c)
      BY <1>2, <2>6 DEF WorkerDies, Upset, CoreInv, RunsFor
    <3>2. \A c \in Cores : ~RunsFor(c, i)'
      BY <2>2, <2>3, <3>1 DEF RunsFor, Live
    <3>3. TendedAt(i)'
      BY <2>1, <3>2 DEF TendedAt
    <3>4. acked[i] \subseteq disk[i]
      <4>1. CASE \E c \in Cores : Holds(c, i)
        BY <3>1, <4>1 DEF SavedAt, Holds, RunsFor, Live, Unsaved
      <4>2. CASE \A c \in Cores : ~Holds(c, i)
        BY <3>1, <4>2 DEF SavedAt
      <4>3. QED
        BY <4>1, <4>2
    <3>5. SavedAt(i)'
      BY <2>1, <3>2, <3>4 DEF SavedAt, Holds, RunsFor, Live
    <3>6. QED
      BY <3>3, <3>5
  <2>7. QED
    BY <2>4, <2>5, <2>6 DEF CoreInv
<1>3. QED
  BY <1>1, <1>2

\* No Core runs and no edit was made to begin with.
LEMMA InitCores == Init => CoreInv
<1> SUFFICES ASSUME Init PROVE CoreInv
  OBVIOUS
<1>1. \A c \in Cores : core[c] = NoCore /\ ~Live(c)
  BY DEF Init, Live, NoCore
<1>2. CoresOK
  <2>1. NoCore \in CoreRows
    BY DEF NoCore, CoreRows
  <2>2. core \in [Cores -> CoreRows]
    BY <2>1 DEF Init
  <2>3. disk \in [Instances -> SUBSET Edits] /\ acked \in [Instances -> SUBSET Edits]
    BY DEF Init
  <2>4. QED
    BY <1>1, <2>2, <2>3 DEF CoresOK, CoreRows
<1>3. RefersOK
  BY DEF Init, NoHandle, NoJob, RefersOK, RefersTo
<1>4. \A i \in Instances : TendedAt(i) /\ SavedAt(i)
  <2>1. \A c \in Cores, i \in Instances : ~RunsFor(c, i) /\ ~Holds(c, i)
    BY <1>1 DEF RunsFor, Holds, NoCore
  <2>2. \A j \in Jobs, i \in Instances : ~At(j, i)
    BY DEF Init, NoJob, At
  <2>3. \A i \in Instances : acked[i] \subseteq disk[i]
    BY DEF Init
  <2>4. QED
    BY <2>1, <2>2, <2>3 DEF TendedAt, SavedAt
<1>5. QED
  BY <1>2, <1>3, <1>4 DEF CoreInv

\* Every step keeps Cores tended and edits saved.
LEMMA StepCores == IInv /\ IInv' /\ CoreInv /\ [Next]_vars => CoreInv'
<1> SUFFICES ASSUME IInv, IInv', CoreInv, [Next]_vars PROVE CoreInv'
  OBVIOUS
<1>1. CASE \E j \in Requests, i \in Instances : Launch(j, i) \/ Stop(j, i) \/ Remove(j, i)
  BY <1>1, LaunchCores, StopCores, RemoveCores
<1>2. CASE \E j \in Jobs : JobStep(j)
  BY <1>2, SignalledCores, StoppedCores, SpawnedCores, RemovedCores, FailedCores DEF JobStep
<1>3. CASE WorkerStarts \/ RelaunchNext \/ \E pod \in BOOLEAN : WorkerDies(pod)
  BY <1>3, WorkerCores, RelaunchCores
<1>4. CASE \E c \in Cores :
             CoreStep(c) \/ TunnelEnds(c) \/ FlushState(c) \/ SaveFails(c) \/ CoreDies(c)
               \/ \E e \in Edits : Edit(c, e)
  BY <1>4, LoadExitCores, SaveCores DEF CoreStep
<1>5. CASE UNCHANGED vars
  <2>1. UNCHANGED <<driver, handle, job, core, disk, acked, upset>>
    BY <1>5 DEF vars
  <2>2. QED
    BY <2>1, CoresUntouched DEF CoreInv, RefersOK, RefersTo, Alone, TendedAt, At
<1>6. QED
  BY <1>1, <1>2, <1>3, <1>4, <1>5 DEF Next

\* Cores, handles, state files and answered edits agree as CoreInv says, in
\* every state the Worker and its Cores reach.
THEOREM CoreInvariance == Spec => []CoreInv
  BY Invariance, InitCores, StepCores, PTL DEF Spec

\* With any number of instances, Cores and requests, whatever fails and whoever
\* crashes: no launch, restart or relaunch leaves a second Core on the data
\* directory of an instance that nothing upset (launch_instance, driver.stop).
THEOREM Tended == Spec => []EveryCoreIsTended
<1>1. CoreInv => EveryCoreIsTended
  BY DEF CoreInv, CoresOK, TendedAt, RunsFor, EveryCoreIsTended
<1>2. QED
  BY CoreInvariance, <1>1, PTL

\* And every edit that was answered is in the Core that serves, or on disk when
\* none runs, through any number of stops, redeploys and clean restarts (load,
\* schedule_save, the last save of the lifespan).
THEOREM EditsKept == Spec => []EditsSurvive
<1>1. CoreInv => EditsSurvive
  BY DEF CoreInv, SavedAt, Holds, Live, EditsSurvive
<1>2. QED
  BY CoreInvariance, <1>1, PTL

=============================================================================
