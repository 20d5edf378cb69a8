------------------------------ MODULE Deployment ------------------------------
(***************************************************************************)
(* One instance of the Console: its row, its deployments and their         *)
(* pipelines, the lifecycle requests of its owner and of administrators,   *)
(* the table of Workers, and what runs at the provider, a Worker's Core or *)
(* a Railway service.                                                      *)
(*                                                                         *)
(* Pipelines and requests are coroutines of the Console; each statement    *)
(* and each call to the provider is an await, hence a step, but reads that *)
(* follow each other are one step where they are about unrelated rows.  A  *)
(* call has its effect in that step, or fails without it, or its answer is *)
(* lost.  A statement has its effect or fails without it.  Cores also go   *)
(* down, and Workers start them again, by themselves.                      *)
(***************************************************************************)
EXTENDS Integers, FiniteSets, FiniteSetsExt

CONSTANTS
  Nodes,          \* Worker nodes of the instance's region, and the default one
  Default,        \* settings.default_worker_node
  Providers,      \* which providers are looked at: "local", "railway"
  NumProtocols,   \* how many protocols the instance was created with
  Requests,       \* slots for lifecycle requests being served
  MaxDeployments  \* bound of the model

ASSUME DeploymentAssumption ==
  /\ Default \in Nodes /\ "none" \notin Nodes
  /\ Providers \subseteq {"local", "railway"} /\ Providers # {}
  /\ NumProtocols \in Nat \ {0}
  /\ MaxDeployments \in Nat \ {0}

Deployments == 1..MaxDeployments
Services == 1..MaxDeployments
Links == 1..NumProtocols  \* the default links, one for each protocol

VARIABLES
  provider,   \* instances.provider
  status,     \* instances.status
  ref,        \* instances.provider_ref: a service, or 0
  dep,        \* the rows of deployments, in the order of started_at
  pipe,       \* the pipeline of each deployment and its local variables
  req,        \* the requests being served and what they have read
  workers,    \* the nodes, but for the default one, that pick_worker finds: their
              \* rows are online, enabled and below capacity
  core,       \* what each Worker has of the instance: "absent", unless it is in
              \* its registry, else its Core is "up" or "down"
  made, rows, \* how often each default link was made in a Core, and recorded in
              \* instance_links
  service,    \* the Railway services made for the instance
  overlap,    \* history: a request began during another or during a pipeline
  lost,       \* history: what a call did is not known or not recorded: a call
              \* that had its effect failed, or a delete did not have it, the
              \* statement that should record the effect failed, or the Console
              \* was restarted
  stuck,      \* history: a status was left to a task that does not exist: the
              \* safety net's own statements failed, the Console was restarted,
              \* or a service was
  drifted     \* history: a Core went down or came up by itself since the last
              \* probe or stop that said what runs

table == <<status, dep>>
runs == <<core, made, service>>
history == <<overlap, lost, stuck, drifted>>
vars == <<provider, status, ref, dep, pipe, req, workers, core, made, rows, service,
          overlap, lost, stuck, drifted>>

NoRow == [status |-> "none", node |-> "none"]
NoPipe == [stage |-> "none", at |-> "none", ref |-> 0, link |-> 1]
NoRequest == [op |-> "none", at |-> "idle", ref |-> 0, node |-> "none"]

\* create_instance: the row, stopped, and no deployment.
Init ==
  /\ provider \in Providers
  /\ status = "stopped" /\ ref = 0
  /\ dep = [d \in Deployments |-> NoRow]
  /\ pipe = [d \in Deployments |-> NoPipe]
  /\ req = [r \in Requests |-> NoRequest]
  /\ workers = {}
  /\ core = [n \in Nodes |-> "absent"]
  /\ made = [l \in Links |-> 0] /\ rows = [l \in Links |-> 0]
  /\ service = [s \in Services |-> "none"]
  /\ overlap = FALSE /\ lost = FALSE /\ stuck = FALSE /\ drifted = FALSE

Inserted == {d \in Deployments : dep[d].status # "none"}
Active == {d \in Deployments : pipe[d].stage # "none"}
LatestNode == IF Inserted = {} THEN "none" ELSE dep[Max(Inserted)].node
NodeOr(n) == IF n = "none" THEN Default ELSE n

\* _resolve_endpoint: which node the gateway sends an endpoint's traffic to.
Resolved == IF status = "running" THEN NodeOr(LatestNode) ELSE "none"

Acting == \E r \in Requests : req[r].at # "idle"
Quiet == Active = {} /\ ~Acting

-----------------------------------------------------------------------------
(* The pipeline.  In each stage the deployment's row, then the instance's  *)
(* row take the stage's name (_set_deployment), then the stage's work is   *)
(* done.  Nothing tells the names queued to health_check apart: here they  *)
(* are "deploying", and only the last write to the deployment is a step.   *)
(* The last stage ends with a second write to the instance's row           *)
(* (_set_instance).  "running" is logged after its writes, and a failure   *)
(* before them.                                                            *)

Final(stage) == stage \in {"running", "failed"}

FirstPlace(stage) == CASE stage = "running" -> "deployment"
                       [] stage = "failed" -> "report"
                       [] OTHER -> "instance"
Enter(d, stage) ==
  pipe' = [pipe EXCEPT ![d].stage = stage, ![d].at = FirstPlace(stage)]

\* Whatever raises in a pipeline ends in its safety net.
Fail(d) == Enter(d, "failed")

\* What raises in the safety net itself ends the task.
Break(d) ==
  IF pipe[d].stage = "failed"
  THEN /\ pipe' = [pipe EXCEPT ![d] = NoPipe]
       /\ stuck' = (stuck \/ pipe[d].at # "again")
  ELSE Fail(d) /\ UNCHANGED stuck

SetDeployment(d) ==
  /\ pipe[d].at = "deployment"
  /\ \/ /\ dep' = [dep EXCEPT ![d].status = pipe[d].stage]
        /\ pipe' = [pipe EXCEPT ![d].at = "instance"]
        /\ UNCHANGED stuck
     \/ Break(d) /\ UNCHANGED dep
  /\ UNCHANGED <<provider, status, ref, req, workers, runs, rows, overlap, lost, drifted>>

\* Mutant: the last write to the instance's row is forgotten.
WriteUnlessFinal(stage) == IF Final(stage) THEN status ELSE "deploying"
WriteStatus(stage) == IF Final(stage) THEN stage ELSE "deploying"

NextPlace(d) ==
  CASE ~Final(pipe[d].stage) -> [pipe[d] EXCEPT !.at = "work"]
    [] Final(pipe[d].stage) /\ pipe[d].at = "instance" -> [pipe[d] EXCEPT !.at = "again"]
    [] pipe[d].stage = "running" /\ pipe[d].at = "again" -> [pipe[d] EXCEPT !.at = "report"]
    [] OTHER -> NoPipe

SetInstance(d) ==
  /\ pipe[d].at \in {"instance", "again"}
  /\ \/ /\ status' = WriteStatus(pipe[d].stage)
        /\ pipe' = [pipe EXCEPT ![d] = NextPlace(d)]
        /\ UNCHANGED stuck
     \/ Break(d) /\ UNCHANGED status
  /\ UNCHANGED <<provider, ref, dep, req, workers, runs, rows, overlap, lost, drifted>>

\* _log, at the end of a pipeline or at the start of its safety net.
Report(d) ==
  /\ pipe[d].at = "report"
  /\ \/ /\ pipe' = [pipe EXCEPT ![d] = IF pipe[d].stage = "running" THEN NoPipe
                                       ELSE [pipe[d] EXCEPT !.at = "deployment"]]
        /\ UNCHANGED stuck
     \/ Break(d)
  /\ UNCHANGED <<provider, table, ref, req, workers, runs, rows, overlap, lost, drifted>>

Work(d, stage) == pipe[d].stage = stage /\ pipe[d].at = "work"

\* A statement of a stage's work fails: its log, a read, a write.
WorkFails(d) ==
  /\ pipe[d].at = "work"
  /\ Fail(d)
  /\ UNCHANGED <<provider, table, ref, req, workers, runs, rows, history>>

\* pick_worker: the node with the lowest load, which may be any, or when there
\* is none the default one, which may have a row of its own as well.
Pickable == {Default} \cup workers

\* Mutant: the node is noted only when the launch has been answered.
NodeNotYet(d, n) == dep
StoreNode(d, n) == [dep EXCEPT ![d].node = n]

\* The choice and the statement that stores it are one step: whether the node
\* could still be picked by then is not looked at.
Prepare(d) ==
  /\ provider = "local" /\ Work(d, "preparing")
  /\ \E n \in Pickable : dep' = StoreNode(d, n)
  /\ Enter(d, "building")
  /\ UNCHANGED <<provider, status, ref, req, workers, runs, rows, history>>

Build(d) ==
  /\ provider = "local" /\ Work(d, "building")
  /\ Enter(d, "starting")
  /\ UNCHANGED <<provider, table, ref, req, workers, runs, rows, history>>

\* The Worker stops the Core it has before it launches another: a launch that
\* fails may leave none, and one whose answer is lost or cannot be logged is
\* not undone.
Start(d) ==
  /\ provider = "local" /\ Work(d, "starting")
  /\ LET n == NodeOr(dep[d].node)
         stopped == IF core[n] = "absent" THEN "absent" ELSE "down"
     IN \/ core' = [core EXCEPT ![n] = "up"] /\ Enter(d, "health_check")
        \/ \E after \in {"up", stopped} : core' = [core EXCEPT ![n] = after] /\ Fail(d)
  /\ UNCHANGED <<provider, table, ref, req, workers, made, rows, service, history>>

Healthy(d) == IF provider = "local" THEN core[NodeOr(dep[d].node)] = "up"
                                    ELSE service[pipe[d].ref] = "up"

\* The probe that decides: the Core is healthy.  (Or it has exited, or the
\* attempts are used up: WorkFails.)  The probes before it change nothing.
Probe(d) ==
  /\ Work(d, "health_check") /\ Healthy(d)
  /\ pipe' = [pipe EXCEPT ![d].at = "provision"]
  /\ drifted' = FALSE
  /\ UNCHANGED <<provider, table, ref, req, workers, runs, rows, overlap, lost, stuck>>

-----------------------------------------------------------------------------
(* _provision_default_link, whose failures are only logged, unless the log *)
(* fails as well.                                                          *)

Proceed(d) == Enter(d, "running") \/ Fail(d)

\* Mutant: the Core is asked for links whatever is recorded.
AlwaysWanted == TRUE
LinkWanted == \A l \in Links : rows[l] = 0

\* Any link counts as all of them.
Provision(d) ==
  /\ pipe[d].at = "provision"
  /\ \/ LinkWanted /\ pipe' = [pipe EXCEPT ![d].at = "post", ![d].link = 1]
     \/ Proceed(d)
  /\ UNCHANGED <<provider, table, ref, req, workers, runs, rows, history>>

\* At Railway the call goes to a Worker too, which does not know the instance.
PostLink(d) ==
  /\ pipe[d].at = "post"
  /\ \/ /\ provider = "local" /\ core[NodeOr(dep[d].node)] = "up"
        /\ made' = [made EXCEPT ![pipe[d].link] = @ + 1]
        /\ \/ pipe' = [pipe EXCEPT ![d].at = "record"] /\ UNCHANGED lost
           \/ Proceed(d) /\ lost' = TRUE
     \/ UNCHANGED <<made, lost>> /\ Proceed(d)
  /\ UNCHANGED <<provider, table, ref, req, workers, core, rows, service,
                 overlap, stuck, drifted>>

RecordLink(d) ==
  LET l == pipe[d].link IN
  /\ pipe[d].at = "record"
  /\ \/ /\ rows' = [rows EXCEPT ![l] = @ + 1]
        /\ IF l < NumProtocols
           THEN pipe' = [pipe EXCEPT ![d].at = "post", ![d].link = l + 1]
           ELSE Proceed(d)
        /\ UNCHANGED lost
     \/ UNCHANGED rows /\ Proceed(d) /\ lost' = TRUE
  /\ UNCHANGED <<provider, table, ref, req, workers, runs, overlap, stuck, drifted>>

-----------------------------------------------------------------------------
(* The pipeline at Railway.                                                *)

\* The reference is the one the request read before it queued the deployment.
CreateService(d) ==
  /\ provider = "railway" /\ Work(d, "preparing")
  /\ IF pipe[d].ref # 0 THEN Enter(d, "building") /\ UNCHANGED <<service, lost>>
     ELSE \E s \in Services :
            /\ service[s] = "none" /\ \A t \in Services : service[t] = "none" => s <= t
            /\ service' = [service EXCEPT ![s] = "down"]
            /\ \/ pipe' = [pipe EXCEPT ![d].at = "store", ![d].ref = s] /\ UNCHANGED lost
               \/ Fail(d) /\ lost' = TRUE
  /\ UNCHANGED <<provider, table, ref, req, workers, core, made, rows,
                 overlap, stuck, drifted>>

\* Mutant: the reference is not stored.
NotStored(s) == ref
StoreRef(s) == s

StoreService(d) ==
  /\ pipe[d].at = "store"
  /\ \/ ref' = StoreRef(pipe[d].ref) /\ Enter(d, "building") /\ UNCHANGED lost
     \/ UNCHANGED ref /\ Fail(d) /\ lost' = TRUE
  /\ UNCHANGED <<provider, table, req, workers, runs, rows, overlap, stuck, drifted>>

\* create_domain and configure_service, which change nothing here.
Configure(d) ==
  /\ provider = "railway" /\ Work(d, "building")
  /\ Enter(d, "starting")
  /\ UNCHANGED <<provider, table, ref, req, workers, runs, rows, history>>

Exists(s) == s # 0 /\ service[s] \in {"up", "down"}

Trigger(d) ==
  /\ provider = "railway" /\ Work(d, "starting") /\ Exists(pipe[d].ref)
  /\ service' = [service EXCEPT ![pipe[d].ref] = "up"]
  /\ pipe' = [pipe EXCEPT ![d].at = "poll"] \/ Fail(d)
  /\ UNCHANGED <<provider, table, ref, req, workers, core, made, rows, history>>

\* As soon as Railway lists a deployment the pipeline fails: STATUS_MAP is not
\* imported.  Only when none is listed in any attempt it goes on.
Poll(d) ==
  /\ pipe[d].at = "poll"
  /\ Fail(d) \/ Enter(d, "health_check")
  /\ UNCHANGED <<provider, table, ref, req, workers, runs, rows, history>>

-----------------------------------------------------------------------------
(* Requests.  Each begins by reading the instance, which must not be       *)
(* deleted, and goes on to read what it works with.                        *)

\* deploy looks at the status, an owner's restart too; redeploy and an
\* administrator's restart do not.  Only Railway has a restart of its own.
Begin(r) ==
  /\ req[r].at = "idle" /\ status # "deleted"
  /\ \E op \in {"deploy", "redeploy", "stop", "delete", "restart"} :
       /\ op = "deploy" => status # "deploying"
       /\ op = "restart" => provider = "railway"
       /\ req' = [req EXCEPT ![r].op = op, ![r].at = "read"]
  /\ overlap' = (overlap \/ ~Quiet)
  /\ UNCHANGED <<provider, table, ref, pipe, workers, runs, rows, lost, stuck, drifted>>

\* The service it refers to (at Railway), and the node the latest deployment was
\* on (at a Worker).
Read(r) ==
  /\ req[r].at = "read"
  /\ req' = [req EXCEPT ![r] =
       [op |-> req[r].op, ref |-> ref, node |-> LatestNode,
        at |-> IF req[r].op \in {"deploy", "redeploy"} THEN "insert" ELSE "call"]]
  /\ UNCHANGED <<provider, table, ref, pipe, workers, runs, rows, history>>

\* A statement fails: the request answers with an error.  An owner's delete
\* goes on all the same.
ReadFails(r) ==
  /\ req[r].at \in {"read", "insert"}
  /\ \/ req' = [req EXCEPT ![r] = NoRequest] /\ UNCHANGED lost
     \/ /\ req[r].op = "delete"
        /\ req' = [req EXCEPT ![r].at = "mark"] /\ lost' = TRUE
  /\ UNCHANGED <<provider, table, ref, pipe, workers, runs, rows, overlap, stuck, drifted>>

\* deploy_instance: the row is queued and the pipeline started.
Queue(r) ==
  /\ req[r].at = "insert"
  /\ \E d \in Deployments \ Inserted :
       /\ \A e \in Deployments \ Inserted : d <= e
       /\ dep' = [dep EXCEPT ![d] = [status |-> "deploying", node |-> "none"]]
       /\ pipe' = [pipe EXCEPT ![d] =
            [NoPipe EXCEPT !.stage = "preparing", !.at = "instance", !.ref = req[r].ref]]
  /\ req' = [req EXCEPT ![r] = NoRequest]
  /\ UNCHANGED <<provider, status, ref, workers, runs, rows, history>>

\* Mutant: a stop that failed is taken for one that succeeded.
StoppedAnyway(r) == [req EXCEPT ![r].at = "mark"]
StopRefused(r) == [req EXCEPT ![r] = NoRequest]

\* stop_instance: a Worker that does not know the instance refuses, and so the
\* status stays.
CallStop(r) ==
  /\ req[r].op = "stop" /\ req[r].at = "call" /\ provider = "local"
  /\ LET n == NodeOr(req[r].node) IN
     \/ /\ core[n] # "absent"
        /\ core' = [core EXCEPT ![n] = "down"]
        /\ \/ req' = [req EXCEPT ![r].at = "mark"] /\ drifted' = FALSE /\ UNCHANGED lost
           \/ req' = StopRefused(r) /\ lost' = TRUE /\ UNCHANGED drifted
     \/ /\ UNCHANGED <<core, lost, drifted>>
        /\ req' = StopRefused(r)
  /\ UNCHANGED <<provider, table, ref, pipe, workers, made, rows, service,
                 overlap, stuck>>

\* delete_from_provider: without a node there is nothing to call, and a failure
\* is only logged.
CallDelete(r) ==
  /\ req[r].op = "delete" /\ req[r].at = "call" /\ provider = "local"
  /\ LET n == req[r].node IN
     \/ /\ n # "none"
        /\ core' = [core EXCEPT ![n] = "absent"] /\ UNCHANGED lost
     \/ UNCHANGED core /\ lost' = (lost \/ n # "none")
  /\ req' = [req EXCEPT ![r].at = "mark"]
  /\ UNCHANGED <<provider, table, ref, pipe, workers, made, rows, service,
                 overlap, stuck, drifted>>

\* The same at Railway, by the reference, and restart_service.  The errors
\* that delete_from_provider does not catch end an administrator's request.
AtRailway(op) == CASE op = "stop" -> "down" [] op = "restart" -> "up"
                   [] OTHER -> "deleted"

CallRailway(r) ==
  LET s == req[r].ref
      done == IF s = 0 THEN service ELSE [service EXCEPT ![s] = AtRailway(req[r].op)]
  IN
  /\ req[r].at = "call" /\ provider = "railway"
  /\ \/ /\ s # 0 => Exists(s)
        /\ service' = done
        /\ req' = [req EXCEPT ![r].at = "mark"]
        /\ UNCHANGED lost
     \/ /\ s # 0
        /\ service' = service \/ (Exists(s) /\ service' = done)
        /\ \/ req' = StopRefused(r)
           \/ req[r].op = "delete" /\ req' = [req EXCEPT ![r].at = "mark"]
        /\ lost' = TRUE
  /\ UNCHANGED <<provider, table, ref, pipe, workers, core, made, rows,
                 overlap, stuck, drifted>>

\* After a restart at Railway: a status that no pipeline will change.
MarkedStatus(op) == CASE op = "stop" -> "stopped" [] op = "restart" -> "deploying"
                      [] OTHER -> "deleted"

Mark(r) ==
  /\ req[r].at = "mark"
  /\ \/ /\ status' = MarkedStatus(req[r].op)
        /\ stuck' = (stuck \/ req[r].op = "restart")
        /\ UNCHANGED lost
     \/ UNCHANGED <<status, stuck>> /\ lost' = TRUE
  /\ req' = [req EXCEPT ![r] = NoRequest]
  /\ UNCHANGED <<provider, ref, dep, pipe, workers, runs, rows, overlap, drifted>>

-----------------------------------------------------------------------------
(* What changes by itself.                                                 *)

\* A heartbeat makes its node's row online, which pick_worker finds unless it is
\* disabled or full, and the rows of nodes silent for a minute offline.
Heartbeat(n) ==
  /\ \E out \in SUBSET ((workers \cup {n}) \ {Default}) :
       workers' = ((workers \cup {n}) \ {Default}) \ out
  /\ UNCHANGED <<provider, table, ref, pipe, req, runs, rows, history>>

\* An administrator enables or disables a node.
UpdateWorker(n) ==
  /\ n # Default
  /\ workers' = IF n \in workers THEN workers \ {n} ELSE workers \cup {n}
  /\ UNCHANGED <<provider, table, ref, pipe, req, runs, rows, history>>

\* A Core dies, alone or with its Worker; a Worker that starts launches all that
\* is in its registry, the instances that were stopped as well.
CoreDrifts(n) ==
  /\ core[n] # "absent"
  /\ core' = [core EXCEPT ![n] = IF core[n] = "up" THEN "down" ELSE "up"]
  /\ drifted' = TRUE
  /\ UNCHANGED <<provider, table, ref, pipe, req, workers, made, rows, service,
                 overlap, lost, stuck>>

\* Nothing takes a pipeline or a request up again.
ConsoleRestarts ==
  /\ ~Quiet
  /\ pipe' = [d \in Deployments |-> NoPipe]
  /\ req' = [r \in Requests |-> NoRequest]
  /\ lost' = TRUE /\ stuck' = TRUE
  /\ UNCHANGED <<provider, table, ref, workers, runs, rows, overlap, drifted>>

PipelineStep(d) ==
  \/ SetDeployment(d) \/ SetInstance(d) \/ Report(d) \/ WorkFails(d)
  \/ Prepare(d) \/ Build(d) \/ Start(d) \/ Probe(d)
  \/ Provision(d) \/ PostLink(d) \/ RecordLink(d)
  \/ CreateService(d) \/ StoreService(d) \/ Configure(d) \/ Trigger(d) \/ Poll(d)

RequestStep(r) ==
  \/ Begin(r) \/ Read(r) \/ ReadFails(r) \/ Queue(r)
  \/ CallStop(r) \/ CallDelete(r) \/ CallRailway(r) \/ Mark(r)

Next ==
  \/ \E d \in Deployments : PipelineStep(d)
  \/ \E r \in Requests : RequestStep(r)
  \/ \E n \in Nodes : Heartbeat(n) \/ UpdateWorker(n) \/ CoreDrifts(n)
  \/ ConsoleRestarts

Spec == Init /\ [][Next]_vars

-----------------------------------------------------------------------------

\* When nothing is under way, the instance's status and those of its
\* deployments are final ones: whatever order pipelines and requests overwrite
\* each other's status in and whatever fails in them, the wizard and the
\* deploy route never wait for a task that does not exist (_run_pipeline's
\* safety net), unless the safety net's own statements failed, the Console was
\* restarted or Railway's restart left such a status.
StatusSettles ==
  Quiet /\ ~stuck =>
    /\ status # "deploying"
    /\ \A d \in Inserted : dep[d].status \in {"running", "failed"}

\* What the status says is true of the Core at the node of the latest
\* deployment: running means that the gateway resolves to that node and the
\* Core is up there (_resolve_endpoint), stopped or deleted that it is not
\* (stop_instance, delete_from_provider).  That is so after failed launches,
\* failed health checks, refused stops and failed statements, moves to other
\* nodes and Cores that died and came back, once a probe or a stop has said
\* what runs; unless tasks overlapped, the outcome of a call is not known or
\* not recorded, or a pipeline's safety net failed.
StatusIsTrue ==
  Quiet /\ provider = "local" /\ ~overlap /\ ~lost /\ ~stuck /\ ~drifted =>
    /\ status = "running" => Resolved = LatestNode /\ core[Resolved] = "up"
    /\ status \in {"stopped", "deleted"} /\ LatestNode # "none" => core[LatestNode] # "up"

\* A node that has the instance is named by one of its deployments, at every
\* moment, so that a Core can be found again after any failure (the node is
\* stored before the launch).
EveryCoreHasARow ==
  \A n \in Nodes : core[n] # "absent" => \E d \in Inserted : dep[d].node = n

\* "Idempotent": the default links are recorded in the order of the protocols
\* and each once, whatever fails and whichever node the instance moves to; and
\* what is recorded is what was made, once, unless an outcome is not known or
\* not recorded.  (A failure halfway leaves the rest unmade for ever.)  Tasks
\* that overlap are left out: they make the links twice.
OneDefaultLink ==
  ~overlap =>
    /\ \E k \in 0..NumProtocols : rows = [l \in Links |-> IF l <= k THEN 1 ELSE 0]
    /\ ~lost /\ (\A d \in Deployments : pipe[d].at # "record") => made = rows

\* Every Railway service is the one the instance refers to, so that stop and
\* delete reach it (provider_ref), unless tasks overlap or the outcome of a
\* call is not known or not recorded.
NoServiceIsLost ==
  Quiet /\ ~overlap /\ ~lost => \A s \in Services : Exists(s) => s = ref

-----------------------------------------------------------------------------
(* The inductive invariant behind StatusSettles and EveryCoreHasARow.      *)

FinalStatuses == {"running", "failed"}
Stages == FinalStatuses \cup {"none", "preparing", "building", "starting", "health_check"}
Places == {"none", "deployment", "instance", "again", "report", "work", "provision",
           "post", "record", "store", "poll"}
Pipes == [stage : Stages, at : Places, ref : 0..MaxDeployments, link : Links]
Rows == [status : FinalStatuses \cup {"none", "deploying"}, node : Nodes \cup {"none"}]
RequestRows == [op : {"none", "deploy", "redeploy", "stop", "delete", "restart"},
                at : {"idle", "read", "insert", "call", "mark"},
                ref : 0..MaxDeployments, node : Nodes \cup {"none"}]

\* Types, but for what the invariant does not depend on.
RowsOK ==
  /\ provider \in Providers
  /\ status \in FinalStatuses \cup {"stopped", "deploying", "deleted"}
  /\ ref \in 0..MaxDeployments
  /\ dep \in [Deployments -> Rows]
  /\ pipe \in [Deployments -> Pipes]
  /\ req \in [Requests -> RequestRows]
  /\ workers \subseteq Nodes
  /\ core \in [Nodes -> {"absent", "up", "down"}]
  /\ stuck \in BOOLEAN

\* The deployment's row has the name of a final stage.
Written(d) == \/ Final(pipe[d].stage) /\ pipe[d].at \in {"instance", "again"}
              \/ pipe[d].stage = "running" /\ pipe[d].at = "report"

\* A pipeline belongs to a row, its node is noted between "preparing" and
\* "building" and never again, some places belong to one stage or provider, and
\* its last stage is in its row before it is in the instance's.
PipelineInv(d) ==
  /\ dep[d].status = "none" => dep[d].node = "none" /\ pipe[d].stage = "none"
  /\ pipe[d].stage = "none" => pipe[d].at = "none"
  /\ pipe[d].stage = "preparing" => dep[d].node = "none"
  /\ pipe[d].at \in {"store", "poll"} => provider # "local"
  /\ pipe[d].at \in {"provision", "post", "record"} => pipe[d].stage = "health_check"
  /\ provider = "local" /\ pipe[d].stage \in {"building", "starting", "health_check", "running"}
       => dep[d].node \in Nodes
  /\ pipe[d].at \in {"report", "deployment", "again"} => Final(pipe[d].stage)
  /\ Final(pipe[d].stage) => pipe[d].at \in {"report", "deployment", "instance", "again"}
  /\ Written(d) => dep[d].status \in FinalStatuses
  /\ ~stuck /\ pipe[d].stage = "none" => dep[d].status \in FinalStatuses \cup {"none"}

\* Its first write of a final status to the instance's row is still to come.
WillWrite(d) == /\ pipe[d].stage # "none" /\ pipe[d].at # "again"
                /\ ~(pipe[d].stage = "running" /\ pipe[d].at = "report")

\* Somebody is going to write over "deploying".  The second write of a pipeline
\* does not count: the safety net may lose it.
StatusInv == ~stuck /\ status = "deploying" => \E d \in Deployments : WillWrite(d)

\* Deployments are inserted one after the other.
InOrder == \E k \in 0..MaxDeployments : Inserted = 1..k

IInv ==
  /\ RowsOK /\ InOrder
  /\ \A d \in Deployments : PipelineInv(d)
  /\ StatusInv
  /\ EveryCoreHasARow

-----------------------------------------------------------------------------
(* The inductive invariant behind the three properties of a system whose   *)
(* tasks do not overlap.                                                   *)

\* The rest of the types.
CountsOK ==
  /\ made \in [Links -> Nat] /\ rows \in [Links -> Nat]
  /\ service \in [Services -> {"none", "up", "down", "deleted"}]
  /\ overlap \in BOOLEAN /\ lost \in BOOLEAN /\ drifted \in BOOLEAN

\* One task at a time.  A pipeline is that of the latest deployment, what its
\* last stage wrote is still there, and so is what a request has read.
Told(d) == \/ Final(pipe[d].stage) /\ pipe[d].at = "again"
           \/ pipe[d].stage = "running" /\ pipe[d].at = "report"
OneTask ==
  /\ \A r, q \in Requests : req[r].at # "idle" /\ req[q].at # "idle" => r = q
  /\ Acting => Active = {}
  /\ \A d \in Active : Inserted = 1..d /\ (Told(d) => status = pipe[d].stage)
  /\ \A r \in Requests : req[r].at \in {"insert", "call"} =>
       req[r].ref = ref /\ req[r].node = LatestNode

\* The links recorded are the first ones, those before the one a pipeline is at.
LinksInOrder ==
  /\ \E k \in 0..NumProtocols : rows = [l \in Links |-> IF l <= k THEN 1 ELSE 0]
  /\ \A d \in Active : pipe[d].at \in {"post", "record"} =>
       rows = [l \in Links |-> IF l < pipe[d].link THEN 1 ELSE 0]

Recording == {d \in Deployments : pipe[d].at = "record"}

\* A link is made once and then recorded.
LinksMade ==
  /\ Recording = {} => made = rows
  /\ \A d \in Recording : made = [rows EXCEPT ![pipe[d].link] = @ + 1]

\* A service is referred to, but for the one whose reference is being stored.
ServiceTrue ==
  /\ \A d \in Active : IF pipe[d].at = "store" THEN ref = 0 /\ pipe[d].ref # 0
                       ELSE pipe[d].ref = ref
  /\ \A s \in Services : Exists(s) =>
       s = ref \/ \E d \in Active : pipe[d].at = "store" /\ pipe[d].ref = s

Probed(d) == pipe[d].stage = "running" \/ pipe[d].at \in {"provision", "post", "record"}
Marking == \E r \in Requests : req[r].at = "mark"

\* From the probe on the Core is up, and what the status says is true as soon
\* as no task is there to change it.
CoreTrue ==
  provider = "local" =>
    /\ \A d \in Active : Probed(d) => core[dep[d].node] = "up"
    /\ status = "running" /\ Active = {} /\ ~Marking =>
         LatestNode \in Nodes /\ core[LatestNode] = "up"
    /\ Marking \/ (status \in {"stopped", "deleted"} /\ Active = {}) =>
         (LatestNode # "none" => core[LatestNode] # "up")

\* Each task finds what the one before it left.
SoloInv ==
  /\ CountsOK
  /\ ~overlap => OneTask /\ LinksInOrder
  /\ ~overlap /\ ~lost => LinksMade /\ ServiceTrue
  /\ ~overlap /\ ~lost /\ ~stuck /\ ~drifted => CoreTrue

=============================================================================
