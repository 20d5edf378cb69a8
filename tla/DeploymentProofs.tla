-------------------------- MODULE DeploymentProofs --------------------------
(***************************************************************************)
(* Proofs that an instance's status settles, that no Core is forgotten,    *)
(* and that without overlapping tasks and unknown outcomes the status is   *)
(* true, the default links are made once and every service is known.       *)
(***************************************************************************)
EXTENDS Deployment, TLAPS

\* The initial state satisfies the inductive invariant.
LEMMA InitInv == Init => IInv
<1> SUFFICES ASSUME Init PROVE IInv
  OBVIOUS
<1>1. RowsOK
  <2>1. NoRow \in Rows /\ NoPipe \in Pipes
    BY DeploymentAssumption DEF NoRow, NoPipe, Rows, Pipes, Stages, Places, FinalStatuses, Links
  <2>2. NoRequest \in RequestRows
    BY DeploymentAssumption DEF NoRequest, RequestRows
  <2>3. /\ dep \in [Deployments -> Rows] /\ pipe \in [Deployments -> Pipes]
        /\ req \in [Requests -> RequestRows]
    BY <2>1, <2>2 DEF Init
  <2>4. core \in [Nodes -> {"absent", "up", "down"}]
    BY DEF Init
  <2>5. ref \in 0..MaxDeployments
    BY DeploymentAssumption DEF Init
  <2>6. stuck \in BOOLEAN
    BY Zenon DEF Init
  <2>7. /\ provider \in Providers /\ workers \subseteq Nodes
        /\ status \in FinalStatuses \cup {"stopped", "deploying", "deleted"}
    BY DEF Init
  <2>8. QED
    BY <2>3, <2>4, <2>5, <2>6, <2>7 DEF RowsOK
<1>2. \A d \in Deployments : PipelineInv(d)
  BY DEF Init, NoRow, NoPipe, PipelineInv, Final, Written
<1>3. InOrder
  <2>1. 0 \in 0..MaxDeployments /\ Inserted = 1..0
    BY DeploymentAssumption DEF Init, Inserted, NoRow
  <2>2. QED
    BY <2>1 DEF InOrder
<1>4. StatusInv /\ EveryCoreHasARow
  BY DEF Init, StatusInv, EveryCoreHasARow
<1>5. QED
  BY <1>1, <1>2, <1>3, <1>4 DEF IInv

-----------------------------------------------------------------------------
(* What a step does to its pipeline: where it comes from, where it goes    *)
(* to.  The rest of the proofs looks at these only.                        *)

From(d, stage, at) == pipe[d].stage = stage /\ pipe[d].at = at
To(d, stage, at) == /\ pipe'[d].stage = stage /\ pipe'[d].at = at
                    /\ pipe'[d].ref = pipe[d].ref /\ pipe'[d].link = pipe[d].link
Failing(d) == To(d, "failed", "report")
Ending(d) == pipe'[d] = NoPipe
PipesFrame(d) == /\ pipe' \in [Deployments -> Pipes]
                 /\ \A e \in Deployments \ {d} : pipe'[e] = pipe[e]

\* One pipeline's row is replaced.
LEMMA RowStep ==
  ASSUME RowsOK, NEW d \in Deployments, NEW row \in Pipes, pipe' = [pipe EXCEPT ![d] = row]
  PROVE  pipe'[d] = row /\ PipesFrame(d)
  BY DEF RowsOK, PipesFrame

\* A stage is entered,
LEMMA EnterTo ==
  ASSUME RowsOK, NEW d \in Deployments, NEW stage \in Stages \ {"none"}, Enter(d, stage)
  PROVE  To(d, stage, FirstPlace(stage)) /\ PipesFrame(d)
<1> DEFINE row == [pipe[d] EXCEPT !.stage = stage, !.at = FirstPlace(stage)]
<1>1. pipe[d] \in Pipes
  BY DEF RowsOK
<1>2. FirstPlace(stage) \in Places
  BY DEF FirstPlace, Places
<1>3. /\ row \in Pipes /\ row.stage = stage /\ row.at = FirstPlace(stage)
      /\ row.ref = pipe[d].ref /\ row.link = pipe[d].link
  BY <1>1, <1>2 DEF Pipes
<1>4. pipe' = [pipe EXCEPT ![d] = row]
  BY DEF Enter
<1> HIDE DEF row
<1>5. QED
  BY <1>3, <1>4, RowStep DEF To

\* the safety net,
LEMMA FailTo ==
  ASSUME RowsOK, NEW d \in Deployments, Fail(d)
  PROVE  Failing(d) /\ PipesFrame(d)
<1>1. "failed" \in Stages \ {"none"} /\ FirstPlace("failed") = "report"
  BY DEF Stages, FinalStatuses, FirstPlace
<1>2. QED
  BY <1>1, EnterTo DEF Fail, Failing

\* another place of the same stage,
LEMMA AtTo ==
  ASSUME RowsOK, NEW d \in Deployments, NEW at \in Places, pipe' = [pipe EXCEPT ![d].at = at]
  PROVE  To(d, pipe[d].stage, at) /\ PipesFrame(d)
<1> DEFINE row == [pipe[d] EXCEPT !.at = at]
<1>1. pipe[d] \in Pipes
  BY DEF RowsOK
<1>2. /\ row \in Pipes /\ row.stage = pipe[d].stage /\ row.at = at
      /\ row.ref = pipe[d].ref /\ row.link = pipe[d].link
  BY <1>1 DEF Pipes
<1>3. pipe' = [pipe EXCEPT ![d] = row]
  OBVIOUS
<1> HIDE DEF row
<1>4. QED
  BY <1>2, <1>3, RowStep DEF To

\* or the end.
LEMMA EndTo ==
  ASSUME RowsOK, NEW d \in Deployments, pipe' = [pipe EXCEPT ![d] = NoPipe]
  PROVE  Ending(d) /\ PipesFrame(d)
<1>1. NoPipe \in Pipes
  BY DeploymentAssumption DEF NoPipe, Pipes, Places, Stages, Links
<1>2. QED
  BY <1>1, RowStep DEF Ending

\* What raises: in the safety net it ends the pipeline, elsewhere it leads there.
LEMMA BreakTo ==
  ASSUME RowsOK, NEW d \in Deployments, Break(d)
  PROVE  /\ PipesFrame(d)
         /\ \/ pipe[d].stage # "failed" /\ Failing(d) /\ stuck' = stuck
            \/ /\ pipe[d].stage = "failed" /\ Ending(d)
               /\ stuck' = (stuck \/ pipe[d].at # "again")
<1>1. CASE pipe[d].stage = "failed"
  BY <1>1, EndTo DEF Break
<1>2. CASE pipe[d].stage # "failed"
  BY <1>2, FailTo DEF Break
<1>3. QED
  BY <1>1, <1>2

\* Where a write to the instance's row leads to,
LEMMA NextTo ==
  ASSUME RowsOK, NEW d \in Deployments, pipe[d].at \in {"instance", "again"},
         pipe[d].stage \in FinalStatuses \/ pipe[d].at = "instance",
         pipe' = [pipe EXCEPT ![d] = NextPlace(d)]
  PROVE  /\ PipesFrame(d)
         /\ \/ ~Final(pipe[d].stage) /\ To(d, pipe[d].stage, "work")
            \/ Final(pipe[d].stage) /\ pipe[d].at = "instance" /\ To(d, pipe[d].stage, "again")
            \/ From(d, "running", "again") /\ To(d, "running", "report")
            \/ From(d, "failed", "again") /\ Ending(d)
<1>1. CASE ~Final(pipe[d].stage)
  <2>1. pipe' = [pipe EXCEPT ![d].at = "work"]
    BY <1>1 DEF NextPlace, Final
  <2>2. QED
    BY <1>1, <2>1, AtTo DEF Places
<1>2. CASE Final(pipe[d].stage) /\ pipe[d].at = "instance"
  <2>1. pipe' = [pipe EXCEPT ![d].at = "again"]
    BY <1>2 DEF NextPlace
  <2>2. QED
    BY <1>2, <2>1, AtTo DEF Places
<1>3. CASE From(d, "running", "again")
  <2>1. pipe' = [pipe EXCEPT ![d].at = "report"]
    BY <1>3 DEF NextPlace, From, Final
  <2>2. QED
    BY <1>3, <2>1, AtTo DEF Places, From
<1>4. CASE From(d, "failed", "again")
  <2>1. pipe' = [pipe EXCEPT ![d] = NoPipe]
    BY <1>4 DEF NextPlace, From, Final
  <2>2. QED
    BY <1>4, <2>1, EndTo
<1>5. QED
  BY <1>1, <1>2, <1>3, <1>4 DEF Final, From, FinalStatuses

\* and a log.
LEMMA ReportTo ==
  ASSUME RowsOK, NEW d \in Deployments, Report(d), ~Break(d), pipe[d].stage \in FinalStatuses
  PROVE  /\ PipesFrame(d) /\ UNCHANGED stuck
         /\ \/ pipe[d].stage = "running" /\ Ending(d)
            \/ pipe[d].stage = "failed" /\ To(d, "failed", "deployment")
<1>1. CASE pipe[d].stage = "running"
  <2>1. pipe' = [pipe EXCEPT ![d] = NoPipe] /\ UNCHANGED stuck
    BY <1>1 DEF Report
  <2>2. QED
    BY <1>1, <2>1, EndTo
<1>2. CASE pipe[d].stage = "failed"
  <2>1. pipe' = [pipe EXCEPT ![d].at = "deployment"] /\ UNCHANGED stuck
    BY <1>2 DEF Report
  <2>2. QED
    BY <1>2, <2>1, AtTo DEF Places
<1>3. QED
  BY <1>1, <1>2 DEF FinalStatuses

\* The work of the stages changes no status.
Working == {"work", "provision", "post", "record", "store", "poll"}
WorkSteps(d) ==
  \/ WorkFails(d) \/ Build(d) \/ Start(d) \/ Probe(d)
  \/ Provision(d) \/ PostLink(d) \/ RecordLink(d)
  \/ CreateService(d) \/ StoreService(d) \/ Configure(d) \/ Trigger(d) \/ Poll(d)

\* Where it leads to, and from where.
Led(d) ==
  \/ pipe[d].at \in Working /\ Failing(d)
  \/ /\ provider # "local" /\ From(d, "preparing", "work")
     /\ pipe'[d].stage = "preparing" /\ pipe'[d].at = "store"
  \/ /\ \/ provider # "local" /\ From(d, "preparing", "work")
        \/ pipe[d].at = "store"
     /\ To(d, "building", "instance")
  \/ From(d, "building", "work") /\ To(d, "starting", "instance")
  \/ provider = "local" /\ From(d, "starting", "work") /\ To(d, "health_check", "instance")
  \/ provider # "local" /\ From(d, "starting", "work") /\ To(d, "starting", "poll")
  \/ pipe[d].at = "poll" /\ To(d, "health_check", "instance")
  \/ From(d, "health_check", "work") /\ To(d, "health_check", "provision")
  \/ /\ pipe[d].at = "provision"
     /\ pipe'[d].stage = pipe[d].stage /\ pipe'[d].at = "post" /\ pipe'[d].link = 1
     /\ pipe'[d].ref = pipe[d].ref
  \/ pipe[d].at = "post" /\ To(d, pipe[d].stage, "record")
  \/ /\ pipe[d].at = "record"
     /\ pipe'[d].stage = pipe[d].stage /\ pipe'[d].at = "post"
     /\ pipe'[d].link = pipe[d].link + 1 /\ pipe'[d].ref = pipe[d].ref
  \/ pipe[d].at \in {"provision", "post", "record"} /\ To(d, "running", "deployment")

\* A link that is recorded or given up leads to the last stage, or the safety net.
LEMMA ProceedTo ==
  ASSUME RowsOK, NEW d \in Deployments, Proceed(d)
  PROVE  (To(d, "running", "deployment") \/ Failing(d)) /\ PipesFrame(d)
<1>1. "running" \in Stages \ {"none"} /\ FirstPlace("running") = "deployment"
  BY DEF Stages, FinalStatuses, FirstPlace
<1>2. CASE Fail(d)
  BY <1>2, FailTo
<1>3. CASE Enter(d, "running")
  BY <1>1, <1>3, EnterTo
<1>4. QED
  BY <1>2, <1>3 DEF Proceed

\* Where the work of a stage leads to.
LEMMA WorkTo ==
  ASSUME RowsOK, NEW d \in Deployments, WorkSteps(d)
  PROVE  Led(d) /\ PipesFrame(d)
<1>1. pipe[d] \in Pipes
  BY DEF RowsOK
<1>2. /\ \A stage \in {"building", "starting", "health_check"} :
           Enter(d, stage) => To(d, stage, "instance") /\ PipesFrame(d)
      /\ \A at \in {"provision", "record", "poll"} :
           pipe' = [pipe EXCEPT ![d].at = at] => To(d, pipe[d].stage, at) /\ PipesFrame(d)
  <2>1. ASSUME NEW stage \in {"building", "starting", "health_check"}, Enter(d, stage)
        PROVE  To(d, stage, "instance") /\ PipesFrame(d)
    <3>1. stage \in Stages \ {"none"} /\ FirstPlace(stage) = "instance"
      BY DEF Stages, FirstPlace
    <3>2. QED
      BY <2>1, <3>1, EnterTo
  <2>2. QED
    BY <2>1, AtTo DEF Places
<1>3. CASE WorkFails(d) \/ Build(d) \/ Configure(d) \/ Poll(d)
  <2>1. CASE WorkFails(d)
    BY <2>1, FailTo DEF WorkFails, Led, Working
  <2>2. CASE Build(d)
    BY <1>2, <2>2 DEF Build, Work, Led, From
  <2>3. CASE Configure(d)
    BY <1>2, <2>3 DEF Configure, Work, Led, From
  <2>4. CASE Poll(d)
    <3>1. CASE Fail(d)
      BY <2>4, <3>1, FailTo DEF Poll, Led, Working
    <3>2. CASE Enter(d, "health_check")
      BY <1>2, <2>4, <3>2 DEF Poll, Led
    <3>3. QED
      BY <2>4, <3>1, <3>2 DEF Poll
  <2>5. QED
    BY <1>3, <2>1, <2>2, <2>3, <2>4
<1>4. CASE Start(d)
  <2>1. provider = "local" /\ From(d, "starting", "work") /\ (Enter(d, "health_check") \/ Fail(d))
    BY <1>4 DEF Start, Work, From
  <2>2. CASE Fail(d)
    BY <2>1, <2>2, FailTo DEF Led, Working, From
  <2>3. CASE Enter(d, "health_check")
    BY <1>2, <2>1, <2>3 DEF Led
  <2>4. QED
    BY <2>1, <2>2, <2>3
<1>5. CASE Probe(d) \/ Trigger(d)
  <2>1. CASE Probe(d)
    BY <1>2, <2>1 DEF Probe, Work, Led, From
  <2>2. CASE Trigger(d) /\ Fail(d)
    BY <2>2, FailTo DEF Trigger, Work, Led, Working
  <2>3. CASE Trigger(d) /\ pipe' = [pipe EXCEPT ![d].at = "poll"]
    BY <1>2, <2>3 DEF Trigger, Work, Led, From
  <2>4. QED
    BY <1>5, <2>1, <2>2, <2>3 DEF Trigger
<1>6. CASE Provision(d)
  <2>1. CASE Proceed(d)
    BY <1>6, <2>1, ProceedTo DEF Provision, Led, Working
  <2>2. CASE pipe' = [pipe EXCEPT ![d].at = "post", ![d].link = 1]
    <3> DEFINE row == [pipe[d] EXCEPT !.at = "post", !.link = 1]
    <3>0. 1 \in Links
      BY DeploymentAssumption DEF Links
    <3>1. /\ row \in Pipes /\ row.stage = pipe[d].stage /\ row.at = "post" /\ row.link = 1
          /\ row.ref = pipe[d].ref
      BY <1>1, <3>0 DEF Pipes, Places
    <3>2. pipe' = [pipe EXCEPT ![d] = row]
      BY <2>2
    <3> HIDE DEF row
    <3>3. QED
      BY <1>6, <3>1, <3>2, RowStep DEF Provision, Led
  <2>3. QED
    BY <1>6, <2>1, <2>2 DEF Provision
<1>7. CASE PostLink(d)
  <2>1. pipe[d].at = "post" /\ (Proceed(d) \/ pipe' = [pipe EXCEPT ![d].at = "record"])
    BY <1>7 DEF PostLink
  <2>2. QED
    BY <1>2, <2>1, ProceedTo DEF Led, Working
<1>8. CASE RecordLink(d)
  <2>1. CASE Proceed(d)
    BY <1>8, <2>1, ProceedTo DEF RecordLink, Led, Working
  <2>2. CASE /\ pipe[d].link < NumProtocols
             /\ pipe' = [pipe EXCEPT ![d].at = "post", ![d].link = pipe[d].link + 1]
    <3> DEFINE row == [pipe[d] EXCEPT !.at = "post", !.link = pipe[d].link + 1]
    <3>0. pipe[d].link + 1 \in Links
      BY <1>1, <2>2, DeploymentAssumption DEF Pipes, Links
    <3>1. /\ row \in Pipes /\ row.stage = pipe[d].stage /\ row.at = "post"
          /\ row.link = pipe[d].link + 1 /\ row.ref = pipe[d].ref
      BY <1>1, <3>0 DEF Pipes, Places
    <3>2. pipe' = [pipe EXCEPT ![d] = row]
      BY <2>2
    <3> HIDE DEF row
    <3>3. QED
      BY <1>8, <3>1, <3>2, RowStep DEF RecordLink, Led
  <2>3. QED
    BY <1>8, <2>1, <2>2 DEF RecordLink
<1>9. CASE CreateService(d)
  <2>1. provider # "local" /\ From(d, "preparing", "work")
    BY <1>9 DEF CreateService, Work, From
  <2>2. CASE Fail(d)
    BY <2>1, <2>2, FailTo DEF Led, Working, From
  <2>3. CASE Enter(d, "building")
    BY <1>2, <2>1, <2>3 DEF Led
  <2>4. ASSUME NEW s \in Services, pipe' = [pipe EXCEPT ![d].at = "store", ![d].ref = s]
        PROVE  Led(d) /\ PipesFrame(d)
    <3> DEFINE row == [pipe[d] EXCEPT !.at = "store", !.ref = s]
    <3>0. s \in 0..MaxDeployments
      BY DeploymentAssumption DEF Services
    <3>1. row \in Pipes /\ row.stage = pipe[d].stage /\ row.at = "store"
      BY <1>1, <3>0 DEF Pipes, Places
    <3>2. pipe' = [pipe EXCEPT ![d] = row]
      BY <2>4
    <3> HIDE DEF row
    <3>3. QED
      BY <2>1, <3>1, <3>2, RowStep DEF Led, From
  <2>5. QED
    BY <1>9, <2>2, <2>3, <2>4 DEF CreateService
<1>10. CASE StoreService(d)
  <2>1. pipe[d].at = "store" /\ (Fail(d) \/ Enter(d, "building"))
    BY <1>10 DEF StoreService
  <2>2. QED
    BY <1>2, <2>1, FailTo DEF Led, Working
<1>11. QED
  BY <1>3, <1>4, <1>5, <1>6, <1>7, <1>8, <1>9, <1>10 DEF WorkSteps

-----------------------------------------------------------------------------
\* The latest deployment is the one with the largest number.
LEMMA LatestFacts ==
  ASSUME RowsOK, InOrder
  PROVE  /\ LatestNode \in Nodes \cup {"none"}
         /\ Inserted = {} => LatestNode = "none"
         /\ \A d \in Deployments : Inserted = 1..d => LatestNode = dep[d].node
<1>1. CASE Inserted = {}
  <2>1. LatestNode = "none"
    BY <1>1 DEF LatestNode
  <2>2. \A d \in Deployments : Inserted # 1..d
    BY <1>1 DEF Deployments
  <2>3. QED
    BY <2>1, <2>2
<1>2. CASE Inserted # {}
  <2>1. PICK k \in 0..MaxDeployments : Inserted = 1..k
    BY DEF InOrder
  <2>2. k \in Inserted /\ \A e \in Inserted : k >= e
    BY <1>2, <2>1
  <2>3. Max(Inserted) = k
    BY <2>1, <2>2 DEF Max
  <2>4. LatestNode = dep[k].node /\ k \in Deployments
    BY <1>2, <2>2, <2>3 DEF LatestNode, Inserted
  <2>5. \A d \in Deployments : Inserted = 1..d => d = k
    BY <2>1, <2>2, <2>4, DeploymentAssumption DEF Deployments
  <2>6. LatestNode \in Nodes \cup {"none"}
    BY <2>4 DEF RowsOK, Rows
  <2>7. QED
    BY <1>2, <2>4, <2>5, <2>6
<1>3. QED
  BY <1>1, <1>2

-----------------------------------------------------------------------------
(* IInv.                                                                   *)

\* A step of one pipeline: what is left to see is that pipeline's own
\* invariant, who writes over "deploying", and the Cores it adds.
LEMMA OnePipeline ==
  ASSUME IInv, RowsOK', NEW d \in Deployments, PipelineInv(d)', PipesFrame(d),
         UNCHANGED provider, \A e \in Deployments \ {d} : dep'[e] = dep[e],
         stuck => stuck',
         ~stuck' /\ status' = "deploying" =>
           WillWrite(d)' \/ (status = "deploying" /\ ~WillWrite(d)),
         dep[d].node \in {"none", dep'[d].node}, dep'[d].status # "none",
         dep[d].status # "none" \/ \A e \in Deployments \ Inserted : d <= e,
         \A n \in Nodes : core'[n] # "absent" => core[n] # "absent" \/ dep'[d].node = n
  PROVE  IInv'
<1>1. ASSUME NEW e \in Deployments PROVE PipelineInv(e)'
  <2>1. CASE e = d
    BY <2>1
  <2>2. CASE e # d
    <3>1. pipe'[e] = pipe[e] /\ dep'[e] = dep[e] /\ PipelineInv(e)
      BY <2>2 DEF PipesFrame, IInv
    <3>2. ~stuck' => ~stuck
      OBVIOUS
    <3>3. QED
      BY <3>1, <3>2 DEF PipelineInv, Written
  <2>3. QED
    BY <2>1, <2>2
<1>2. StatusInv'
  <2> SUFFICES ASSUME ~stuck', status' = "deploying" PROVE \E e \in Deployments : WillWrite(e)'
    BY DEF StatusInv
  <2>1. CASE WillWrite(d)'
    BY <2>1
  <2>2. CASE status = "deploying" /\ ~WillWrite(d)
    <3>1. ~stuck
      OBVIOUS
    <3>2. PICK e \in Deployments : WillWrite(e)
      BY <2>2, <3>1 DEF IInv, StatusInv
    <3>3. pipe'[e] = pipe[e]
      BY <2>2, <3>2 DEF PipesFrame
    <3>4. WillWrite(e)'
      BY <3>2, <3>3 DEF WillWrite
    <3>5. QED
      BY <3>4
  <2>3. QED
    BY <2>1, <2>2
<1>3. EveryCoreHasARow'
  <2> SUFFICES ASSUME NEW n \in Nodes, core'[n] # "absent"
               PROVE  \E e \in Inserted' : dep'[e].node = n
    BY DEF EveryCoreHasARow
  <2>1. CASE dep'[d].node = n
    BY <2>1 DEF Inserted
  <2>2. CASE dep'[d].node # n
    <3>1. PICK e \in Inserted : dep[e].node = n
      BY <2>2 DEF IInv, EveryCoreHasARow
    <3>2. e # d
      BY <2>2, <3>1, DeploymentAssumption
    <3>3. QED
      BY <3>1, <3>2 DEF Inserted
  <2>3. QED
    BY <2>1, <2>2
<1>4. InOrder'
  <2>1. PICK k \in 0..MaxDeployments : Inserted = 1..k
    BY DEF IInv, InOrder
  <2>2. CASE dep[d].status # "none"
    <3>1. Inserted' = Inserted
      BY <2>2 DEF Inserted
    <3>2. QED
      BY <3>1 DEF IInv, InOrder
  <2>3. CASE dep[d].status = "none"
    <3>1. Inserted' = Inserted \cup {d} /\ d \notin Inserted
      BY <2>3 DEF Inserted
    <3>2. d \in 1..MaxDeployments /\ d > k /\ k + 1 \in Deployments \ Inserted
      BY <2>1, <3>1, DeploymentAssumption DEF Deployments
    <3>3. d = k + 1
      BY <2>3, <3>2
    <3>4. Inserted' = 1..(k + 1) /\ k + 1 \in 0..MaxDeployments
      BY <2>1, <3>1, <3>2, <3>3, DeploymentAssumption
    <3>5. QED
      BY <3>4 DEF InOrder
  <2>4. QED
    BY <2>2, <2>3
<1>5. QED
  BY <1>1, <1>2, <1>3, <1>4 DEF IInv

\* A step that changes neither the pipelines, their rows nor what keeps the
\* status, and starts no Core.
LEMMA NoPipeline ==
  ASSUME IInv, RowsOK', UNCHANGED <<provider, dep, pipe>>,
         stuck => stuck', status' = "deploying" => status = "deploying" \/ stuck',
         \A n \in Nodes : core'[n] # "absent" => core[n] # "absent"
  PROVE  IInv'
<1>0. ~stuck' => ~stuck
  OBVIOUS
<1>1. ASSUME NEW e \in Deployments PROVE PipelineInv(e)'
  <2>1. pipe'[e] = pipe[e] /\ dep'[e] = dep[e] /\ PipelineInv(e)
    BY DEF IInv
  <2>2. QED
    BY <1>0, <2>1 DEF PipelineInv, Written
<1>2. StatusInv'
  BY <1>0 DEF IInv, StatusInv, WillWrite
<1>3. EveryCoreHasARow' /\ InOrder'
  BY DEF IInv, EveryCoreHasARow, InOrder, Inserted
<1>4. QED
  BY <1>1, <1>2, <1>3 DEF IInv

\* What raises outside of the stages' work: a pipeline that was to write still
\* is, or this is remembered.
LEMMA BreakStep ==
  ASSUME IInv, NEW d \in Deployments, pipe[d].at \notin {"none"}, Break(d),
         UNCHANGED <<provider, status, ref, req, workers, core, dep>>
  PROVE  IInv'
<1>1. RowsOK /\ PipelineInv(d) /\ pipe[d].stage # "none"
  BY DEF IInv, PipelineInv
<1>2. stuck \in BOOLEAN /\ dep[d].status # "none" /\ dep' = dep
  BY <1>1 DEF RowsOK, PipelineInv
<1>3. PipesFrame(d)
  BY <1>1, BreakTo
<1>4. CASE pipe[d].stage # "failed" /\ Failing(d) /\ stuck' = stuck
  <2>1. RowsOK'
    BY <1>1, <1>3, <1>4 DEF RowsOK, PipesFrame
  <2>2. PipelineInv(d)'
    BY <1>1, <1>2, <1>4 DEF PipelineInv, Failing, To, Final, Written
  <2>3. WillWrite(d)'
    BY <1>4 DEF WillWrite, Failing, To
  <2>4. QED
    BY <1>2, <1>3, <1>4, <2>1, <2>2, <2>3, OnePipeline
<1>5. CASE pipe[d].stage = "failed" /\ Ending(d) /\ stuck' = (stuck \/ pipe[d].at # "again")
  <2>1. stuck' \in BOOLEAN /\ (stuck => stuck') /\ (~stuck' => ~stuck /\ pipe[d].at = "again")
    BY <1>2, <1>5, Zenon
  <2>2. RowsOK'
    BY <1>1, <1>3, <2>1 DEF RowsOK, PipesFrame
  <2>3. pipe'[d].stage = "none" /\ pipe'[d].at = "none"
    BY <1>5 DEF Ending, NoPipe
  <2>4. ~stuck' => dep[d].status \in FinalStatuses
    BY <1>1, <1>5, <2>1 DEF PipelineInv, Written, Final
  <2>5. PipelineInv(d)'
    BY <1>2, <2>3, <2>4 DEF PipelineInv, Final, Written
  <2>6. ~stuck' => ~WillWrite(d)
    BY <2>1 DEF WillWrite
  <2>7. QED
    BY <1>2, <1>3, <2>1, <2>2, <2>5, <2>6, OnePipeline
<1>6. QED
  BY <1>1, <1>4, <1>5, BreakTo

\* The writes of _set_deployment and _set_instance, and the log: the
\* deployment's row,
LEMMA SetDeploymentStep ==
  ASSUME IInv, NEW d \in Deployments, SetDeployment(d)
  PROVE  IInv'
<1>1. /\ RowsOK /\ PipelineInv(d) /\ pipe[d].at = "deployment"
      /\ pipe[d] \in Pipes /\ dep[d] \in Rows
      /\ pipe[d].stage \in FinalStatuses /\ dep[d].status # "none"
  BY DEF IInv, SetDeployment, PipelineInv, Final, FinalStatuses, RowsOK
<1>2. UNCHANGED <<provider, status, ref, req, workers, core>>
  BY DEF SetDeployment, runs
<1>3. CASE /\ dep' = [dep EXCEPT ![d].status = pipe[d].stage]
           /\ pipe' = [pipe EXCEPT ![d].at = "instance"]
           /\ UNCHANGED stuck
  <2> DEFINE row == [dep[d] EXCEPT !.status = pipe[d].stage]
  <2>1. row \in Rows /\ row.status = pipe[d].stage /\ row.node = dep[d].node
    BY <1>1 DEF Rows
  <2>2. dep' = [dep EXCEPT ![d] = row]
    BY <1>3
  <2> HIDE DEF row
  <2>3. dep'[d] = row /\ dep' \in [Deployments -> Rows] /\ \A e \in Deployments \ {d} : dep'[e] = dep[e]
    BY <1>1, <2>1, <2>2 DEF RowsOK
  <2>4. To(d, pipe[d].stage, "instance") /\ PipesFrame(d)
    BY <1>1, <1>3, AtTo DEF Places
  <2>5. RowsOK'
    BY <1>1, <1>2, <1>3, <2>3, <2>4 DEF RowsOK, PipesFrame
  <2>6. PipelineInv(d)'
    BY <1>1, <1>2, <2>1, <2>3, <2>4 DEF PipelineInv, To, Final, FinalStatuses, Written
  <2>7. WillWrite(d)'
    BY <1>1, <2>4 DEF WillWrite, To, FinalStatuses
  <2>8. dep[d].node \in {"none", dep'[d].node} /\ dep'[d].status # "none"
    BY <1>1, <2>1, <2>3 DEF FinalStatuses
  <2>9. QED
    BY <1>1, <1>2, <1>3, <2>3, <2>4, <2>5, <2>6, <2>7, <2>8, OnePipeline
<1>4. CASE Break(d) /\ UNCHANGED dep
  BY <1>1, <1>2, <1>4, BreakStep
<1>5. QED
  BY <1>3, <1>4 DEF SetDeployment

\* the instance's row, whose last write ends the pipeline that failed,
LEMMA SetInstanceStep ==
  ASSUME IInv, NEW d \in Deployments, SetInstance(d)
  PROVE  IInv'
<1>1. /\ RowsOK /\ PipelineInv(d) /\ pipe[d].at \in {"instance", "again"}
      /\ pipe[d] \in Pipes /\ pipe[d].stage # "none" /\ dep[d].status # "none"
      /\ pipe[d].stage \in FinalStatuses \/ pipe[d].at = "instance"
  BY DEF IInv, SetInstance, PipelineInv, RowsOK, Final, FinalStatuses
<1>2. UNCHANGED <<provider, dep, ref, req, workers, core>>
  BY DEF SetInstance, runs
<1>3. CASE /\ status' = WriteStatus(pipe[d].stage)
           /\ pipe' = [pipe EXCEPT ![d] = NextPlace(d)]
           /\ UNCHANGED stuck
  <2>1. /\ PipesFrame(d)
        /\ \/ ~Final(pipe[d].stage) /\ To(d, pipe[d].stage, "work")
           \/ Final(pipe[d].stage) /\ pipe[d].at = "instance" /\ To(d, pipe[d].stage, "again")
           \/ From(d, "running", "again") /\ To(d, "running", "report")
           \/ From(d, "failed", "again") /\ Ending(d)
    BY <1>1, <1>3, NextTo
  <2>2. status' \in FinalStatuses \cup {"deploying"} /\ (status' = "deploying" => ~Final(pipe[d].stage))
    BY <1>3 DEF WriteStatus, Final, FinalStatuses
  <2>3. RowsOK'
    BY <1>1, <1>2, <1>3, <2>1, <2>2 DEF RowsOK, PipesFrame
  <2>4. PipelineInv(d)'
    BY <1>1, <1>2, <1>3, <2>1 DEF PipelineInv, To, From, Ending, NoPipe, Final, FinalStatuses, Written
  <2>5. status' = "deploying" => WillWrite(d)'
    BY <1>1, <2>1, <2>2 DEF WillWrite, To, From, Final
  <2>6. QED
    BY <1>1, <1>2, <1>3, <2>1, <2>3, <2>4, <2>5, OnePipeline
<1>4. CASE Break(d) /\ UNCHANGED status
  BY <1>1, <1>2, <1>4, BreakStep
<1>5. QED
  BY <1>3, <1>4 DEF SetInstance

\* and the log after the last write or before the safety net's.
LEMMA ReportStep ==
  ASSUME IInv, NEW d \in Deployments, Report(d)
  PROVE  IInv'
<1>1. /\ RowsOK /\ PipelineInv(d) /\ pipe[d].at = "report"
      /\ pipe[d] \in Pipes /\ pipe[d].stage \in FinalStatuses /\ dep[d].status # "none"
  BY DEF IInv, Report, PipelineInv, RowsOK, Final, FinalStatuses
<1>2. UNCHANGED <<provider, status, dep, ref, req, workers, core>>
  BY DEF Report, runs, table
<1>3. CASE ~Break(d)
  <2>1. /\ PipesFrame(d) /\ UNCHANGED stuck
        /\ \/ pipe[d].stage = "running" /\ Ending(d)
           \/ pipe[d].stage = "failed" /\ To(d, "failed", "deployment")
    BY <1>1, <1>3, ReportTo
  <2>2. RowsOK'
    BY <1>1, <1>2, <2>1 DEF RowsOK, PipesFrame
  <2>3. PipelineInv(d)'
    BY <1>1, <1>2, <2>1 DEF PipelineInv, To, Ending, NoPipe, Final, FinalStatuses, Written
  <2>4. WillWrite(d)' \/ ~WillWrite(d)
    BY <1>1, <2>1 DEF WillWrite, To
  <2>5. QED
    BY <1>1, <1>2, <2>1, <2>2, <2>3, <2>4, OnePipeline
<1>4. CASE Break(d)
  BY <1>1, <1>2, <1>4, BreakStep
<1>5. QED
  BY <1>3, <1>4

\* Only here a node is noted, and there was none before.
LEMMA PrepareStep ==
  ASSUME IInv, NEW d \in Deployments, Prepare(d)
  PROVE  IInv'
<1>1. /\ RowsOK /\ PipelineInv(d) /\ provider = "local" /\ From(d, "preparing", "work")
      /\ pipe[d] \in Pipes /\ dep[d] \in Rows /\ dep[d].status # "none"
  BY DEF IInv, Prepare, Work, From, RowsOK, PipelineInv
<1>2. To(d, "building", "instance") /\ PipesFrame(d)
  BY <1>1, EnterTo DEF Prepare, Stages, FirstPlace
<1>3. PICK n \in Nodes : dep' = [dep EXCEPT ![d].node = n]
  BY <1>1, DeploymentAssumption DEF Prepare, Pickable, StoreNode, RowsOK
<1> DEFINE row == [dep[d] EXCEPT !.node = n]
<1>4. row \in Rows /\ row.node = n /\ row.status = dep[d].status
  BY <1>1 DEF Rows
<1>5. dep' = [dep EXCEPT ![d] = row]
  BY <1>3
<1> HIDE DEF row
<1>6. dep'[d] = row /\ dep' \in [Deployments -> Rows] /\ \A e \in Deployments \ {d} : dep'[e] = dep[e]
  BY <1>1, <1>4, <1>5 DEF RowsOK
<1>7. UNCHANGED <<provider, status, ref, req, workers, core, stuck>>
  BY DEF Prepare, runs, history
<1>8. RowsOK'
  BY <1>1, <1>2, <1>6, <1>7 DEF RowsOK, PipesFrame
<1>9. PipelineInv(d)'
  BY <1>1, <1>2, <1>4, <1>6, <1>7 DEF PipelineInv, From, To, Final, Written
<1>10. WillWrite(d)'
  BY <1>2 DEF WillWrite, To
<1>11. dep[d].node = "none" /\ dep'[d].status # "none"
  BY <1>1, <1>4, <1>6 DEF PipelineInv, From
<1>12. QED
  BY <1>1, <1>2, <1>6, <1>7, <1>8, <1>9, <1>10, <1>11, OnePipeline

\* The work of the other stages.  Only a launch starts a Core, on the node that
\* was noted.
LEMMA WorkStep ==
  ASSUME IInv, NEW d \in Deployments, WorkSteps(d)
  PROVE  IInv'
<1>1. RowsOK /\ PipelineInv(d) /\ pipe[d] \in Pipes
  BY DEF IInv, RowsOK
<1>2. Led(d) /\ PipesFrame(d)
  BY <1>1, WorkTo
<1>3. UNCHANGED <<provider, status, dep, req, workers, stuck>>
  BY DEF WorkSteps, WorkFails, Build, Start, Probe, Provision, PostLink, RecordLink, CreateService,
     StoreService, Configure, Trigger, Poll, table, history
<1>4. ref' \in 0..MaxDeployments
  BY <1>1 DEF WorkSteps, WorkFails, Build, Start, Probe, Provision, PostLink, RecordLink,
     CreateService, StoreService, Configure, Trigger, Poll, StoreRef, RowsOK, Pipes
<1>5. pipe[d].stage # "none" /\ dep[d].status # "none" /\ ~Final(pipe[d].stage)
  BY <1>1, <1>2 DEF PipelineInv, Led, Working, From, Final
<1>6. /\ core' \in [Nodes -> {"absent", "up", "down"}]
      /\ \A n \in Nodes : core'[n] # "absent" => core[n] # "absent" \/ dep'[d].node = n
  <2>1. CASE Start(d)
    <3>1. provider = "local" /\ pipe[d].stage = "starting"
      BY <2>1 DEF Start, Work
    <3>2. dep[d].node \in Nodes /\ NodeOr(dep[d].node) = dep[d].node
      BY <1>1, <3>1, DeploymentAssumption DEF PipelineInv, NodeOr
    <3>3. PICK c \in {"absent", "up", "down"} : core' = [core EXCEPT ![dep[d].node] = c]
      BY <2>1, <3>2 DEF Start
    <3>4. QED
      BY <1>1, <1>3, <3>2, <3>3 DEF RowsOK
  <2>2. CASE core' = core
    BY <1>1, <2>2 DEF RowsOK
  <2>3. QED
    BY <2>1, <2>2 DEF WorkSteps, WorkFails, Build, Probe, Provision, PostLink, RecordLink,
       CreateService, StoreService, Configure, Trigger, Poll, runs
<1>7. RowsOK'
  BY <1>1, <1>2, <1>3, <1>4, <1>6 DEF RowsOK, PipesFrame
<1>8. PipelineInv(d)'
  BY <1>1, <1>2, <1>3, <1>5 DEF PipelineInv, Led, Working, Failing, From, To, Final, Written
<1>9. WillWrite(d)'
  BY <1>2, <1>5 DEF WillWrite, Led, Failing, From, To, Final
<1>10. QED
  BY <1>1, <1>2, <1>3, <1>5, <1>6, <1>7, <1>8, <1>9, OnePipeline

\* A request's row is replaced.
LEMMA RequestTo ==
  ASSUME RowsOK, NEW r \in Requests, NEW row \in RequestRows, req' = [req EXCEPT ![r] = row]
  PROVE  /\ req'[r] = row /\ req' \in [Requests -> RequestRows]
         /\ \A q \in Requests \ {r} : req'[q] = req[q]
  BY DEF RowsOK

\* A deployment is queued: its row was empty, and its pipeline is the one that
\* will write over the status.
LEMMA QueueTo ==
  ASSUME IInv, NEW r \in Requests, Queue(r)
  PROVE  \E d \in Deployments \ Inserted :
           /\ \A e \in Deployments \ Inserted : d <= e
           /\ dep'[d].status = "deploying" /\ dep'[d].node = "none"
           /\ dep' \in [Deployments -> Rows] /\ \A e \in Deployments \ {d} : dep'[e] = dep[e]
           /\ pipe'[d].stage = "preparing" /\ pipe'[d].at = "instance"
           /\ pipe'[d].ref = req[r].ref /\ PipesFrame(d)
<1> DEFINE row == [status |-> "deploying", node |-> "none"]
           new == [NoPipe EXCEPT !.stage = "preparing", !.at = "instance", !.ref = req[r].ref]
<1>1. RowsOK /\ req[r] \in RequestRows
  BY DEF IInv, RowsOK
<1>2. PICK d \in Deployments \ Inserted :
        /\ \A e \in Deployments \ Inserted : d <= e
        /\ dep' = [dep EXCEPT ![d] = row] /\ pipe' = [pipe EXCEPT ![d] = new]
  BY DEF Queue
<1>3. 1 \in Links
  BY DeploymentAssumption DEF Links
<1>4. /\ row \in Rows /\ row.status = "deploying" /\ row.node = "none"
      /\ new \in Pipes /\ new.stage = "preparing" /\ new.at = "instance" /\ new.ref = req[r].ref
  BY <1>1, <1>3 DEF Rows, Pipes, Stages, Places, NoPipe, RequestRows
<1> HIDE DEF row, new
<1>5. pipe'[d] = new /\ PipesFrame(d)
  BY <1>1, <1>2, <1>4, RowStep
<1>6. /\ dep'[d] = row /\ dep' \in [Deployments -> Rows]
      /\ \A e \in Deployments \ {d} : dep'[e] = dep[e]
  BY <1>1, <1>2, <1>4 DEF RowsOK
<1>7. QED
  BY <1>2, <1>4, <1>5, <1>6

\* The row of no request.
LEMMA NoRequestRow == NoRequest \in RequestRows /\ NoRequest.at = "idle"
  BY DeploymentAssumption DEF NoRequest, RequestRows

\* The new pipeline's own invariant holds.
LEMMA QueueStep ==
  ASSUME IInv, NEW r \in Requests, Queue(r)
  PROVE  IInv'
<1>1. RowsOK
  BY DEF IInv
<1>2. PICK d \in Deployments \ Inserted :
        /\ \A e \in Deployments \ Inserted : d <= e
        /\ dep'[d].status = "deploying" /\ dep'[d].node = "none"
        /\ dep' \in [Deployments -> Rows] /\ \A e \in Deployments \ {d} : dep'[e] = dep[e]
        /\ pipe'[d].stage = "preparing" /\ pipe'[d].at = "instance" /\ PipesFrame(d)
  BY QueueTo
<1>3. dep[d].node = "none"
  BY <1>2 DEF IInv, PipelineInv, Inserted
<1>4. UNCHANGED <<provider, status, ref, workers, core, stuck>>
  BY DEF Queue, runs, history
<1>5. req' \in [Requests -> RequestRows]
  BY <1>1, NoRequestRow, RequestTo DEF Queue
<1>6. RowsOK'
  BY <1>1, <1>2, <1>4, <1>5 DEF RowsOK, PipesFrame
<1>7. PipelineInv(d)'
  BY <1>2 DEF PipelineInv, Final, Written
<1>8. WillWrite(d)'
  BY <1>2 DEF WillWrite
<1>9. QED
  BY <1>2, <1>3, <1>4, <1>6, <1>7, <1>8, OnePipeline

\* What the other steps of a request make of its row.
LEMMA Asked ==
  ASSUME IInv, NEW r \in Requests,
         \/ Begin(r) \/ Read(r) \/ ReadFails(r)
         \/ CallStop(r) \/ CallDelete(r) \/ CallRailway(r) \/ Mark(r)
  PROVE  \E row \in RequestRows :
           /\ req' = [req EXCEPT ![r] = row]
           /\ \/ Begin(r) /\ row.at = "read"
              \/ /\ Read(r) /\ row.at \in {"insert", "call"}
                 /\ row.ref = ref /\ row.node = LatestNode
              \/ ~Begin(r) /\ ~Read(r) /\ row.at \in {"idle", "mark"}
<1>1. RowsOK /\ InOrder /\ req[r] \in RequestRows
  BY DEF IInv, RowsOK
<1>2. CASE Begin(r)
  <2>1. PICK op \in {"deploy", "redeploy", "stop", "delete", "restart"} :
          req' = [req EXCEPT ![r].op = op, ![r].at = "read"]
    BY <1>2 DEF Begin
  <2> DEFINE row == [req[r] EXCEPT !.op = op, !.at = "read"]
  <2>2. row \in RequestRows /\ row.at = "read"
    BY <1>1 DEF RequestRows
  <2>3. req' = [req EXCEPT ![r] = row]
    BY <2>1
  <2> HIDE DEF row
  <2>4. QED
    BY <1>2, <2>2, <2>3
<1>3. CASE Read(r)
  <2> DEFINE at == IF req[r].op \in {"deploy", "redeploy"} THEN "insert" ELSE "call"
             row == [op |-> req[r].op, ref |-> ref, node |-> LatestNode, at |-> at]
  <2>1. LatestNode \in Nodes \cup {"none"}
    BY <1>1, LatestFacts
  <2>2. ref \in 0..MaxDeployments /\ req[r].op \in {"none", "deploy", "redeploy", "stop", "delete", "restart"}
    BY <1>1 DEF RowsOK, RequestRows
  <2>3. at \in {"insert", "call"}
    OBVIOUS
  <2>4. req' = [req EXCEPT ![r] = row]
    BY <1>3 DEF Read
  <2> HIDE DEF at
  <2>5. row \in RequestRows /\ row.at \in {"insert", "call"} /\ row.ref = ref /\ row.node = LatestNode
    BY <2>1, <2>2, <2>3 DEF RequestRows
  <2> HIDE DEF row
  <2>6. QED
    BY <1>3, <2>4, <2>5
<1>4. CASE req' = [req EXCEPT ![r] = NoRequest]
  <2>1. ~Begin(r) /\ ~Read(r)
    <3>1. req'[r].at = "idle"
      BY <1>1, <1>4, NoRequestRow DEF RowsOK
    <3>2. QED
      BY <1>1, <1>2, <1>3, <3>1 DEF Begin, Read, RowsOK
  <2>2. QED
    BY <1>4, <2>1, NoRequestRow
<1>5. CASE req' = [req EXCEPT ![r].at = "mark"]
  <2> DEFINE row == [req[r] EXCEPT !.at = "mark"]
  <2>1. row \in RequestRows /\ row.at = "mark"
    BY <1>1 DEF RequestRows
  <2>2. req' = [req EXCEPT ![r] = row]
    BY <1>5
  <2> HIDE DEF row
  <2>3. QED
    BY <1>1, <1>2, <1>3, <2>1, <2>2 DEF RowsOK
<1>6. QED
  BY <1>2, <1>3, <1>4, <1>5 DEF ReadFails, CallStop, StopRefused, CallDelete, CallRailway, Mark

\* The steps of requests leave rows and pipelines alone and start no Core; what
\* Railway's restart leaves behind is remembered.
LEMMA RequestSteps ==
  ASSUME IInv, NEW r \in Requests,
         \/ Begin(r) \/ Read(r) \/ ReadFails(r)
         \/ CallStop(r) \/ CallDelete(r) \/ CallRailway(r) \/ Mark(r)
  PROVE  IInv'
<1>1. RowsOK /\ req[r] \in RequestRows
  BY DEF IInv, RowsOK
<1>2. UNCHANGED <<provider, ref, dep, pipe, workers>>
  BY DEF Begin, Read, ReadFails, CallStop, CallDelete, CallRailway, Mark, table
<1>3. req' \in [Requests -> RequestRows]
  BY <1>1, Asked, RequestTo
<1>4. /\ core' \in [Nodes -> {"absent", "up", "down"}]
      /\ \A n \in Nodes : core'[n] # "absent" => core[n] # "absent"
  <2>1. CASE core' = core
    BY <1>1, <2>1 DEF RowsOK
  <2>2. CASE CallStop(r)
    <3> DEFINE n == NodeOr(req[r].node)
    <3>1. core' = core \/ (core[n] # "absent" /\ core' = [core EXCEPT ![n] = "down"])
      BY <2>2 DEF CallStop
    <3>2. n \in Nodes
      BY <1>1, DeploymentAssumption DEF NodeOr, RequestRows
    <3> HIDE DEF n
    <3>3. QED
      BY <1>1, <2>1, <3>1, <3>2 DEF RowsOK
  <2>3. CASE CallDelete(r)
    <3> DEFINE n == req[r].node
    <3>1. core' = core \/ (n # "none" /\ core' = [core EXCEPT ![n] = "absent"])
      BY <2>3 DEF CallDelete
    <3>2. n \in Nodes \cup {"none"}
      BY <1>1 DEF RequestRows
    <3> HIDE DEF n
    <3>3. QED
      BY <1>1, <2>1, <3>1, <3>2 DEF RowsOK
  <2>4. QED
    BY <2>1, <2>2, <2>3 DEF Begin, Read, ReadFails, CallRailway, Mark, runs
<1>5. /\ status' \in FinalStatuses \cup {"stopped", "deploying", "deleted"}
      /\ stuck' \in BOOLEAN /\ (stuck => stuck')
      /\ status' = "deploying" => status = "deploying" \/ stuck'
  <2>1. stuck \in BOOLEAN /\ status \in FinalStatuses \cup {"stopped", "deploying", "deleted"}
    BY <1>1 DEF RowsOK
  <2>2. CASE UNCHANGED <<status, stuck>>
    BY <2>1, <2>2
  <2>3. CASE /\ status' = MarkedStatus(req[r].op)
             /\ stuck' = (stuck \/ req[r].op = "restart")
    <3>1. stuck' \in BOOLEAN /\ (stuck => stuck') /\ (req[r].op = "restart" => stuck')
      BY <2>1, <2>3, Zenon
    <3>2. /\ status' \in {"stopped", "deploying", "deleted"}
          /\ status' = "deploying" => req[r].op = "restart"
      BY <2>3 DEF MarkedStatus
    <3>3. QED
      BY <3>1, <3>2
  <2>4. QED
    BY <2>2, <2>3 DEF Begin, Read, ReadFails, CallStop, CallDelete, CallRailway, Mark, table, history
<1>6. RowsOK'
  BY <1>1, <1>2, <1>3, <1>4, <1>5 DEF RowsOK
<1>7. QED
  BY <1>2, <1>4, <1>5, <1>6, NoPipeline

\* A Core that goes down or comes up was there before.
LEMMA DriftStep ==
  ASSUME IInv, NEW n \in Nodes, CoreDrifts(n)
  PROVE  IInv'
<1>1. UNCHANGED <<provider, status, dep, ref, pipe, req, workers, stuck>>
  BY DEF CoreDrifts, table
<1>2. PICK c \in {"up", "down"} : core' = [core EXCEPT ![n] = c] /\ core[n] # "absent"
  BY DEF CoreDrifts
<1>3. /\ core' \in [Nodes -> {"absent", "up", "down"}]
      /\ \A m \in Nodes : core'[m] # "absent" => core[m] # "absent"
  BY <1>2 DEF IInv, RowsOK
<1>4. RowsOK'
  BY <1>1, <1>3 DEF IInv, RowsOK
<1>5. QED
  BY <1>1, <1>3, <1>4, NoPipeline

\* The Workers' table matters to the choice of a node only.
LEMMA WorkersSteps ==
  ASSUME IInv, NEW n \in Nodes, Heartbeat(n) \/ UpdateWorker(n)
  PROVE  IInv'
<1>1. UNCHANGED <<provider, status, dep, ref, pipe, req, core, stuck>>
  BY DEF Heartbeat, UpdateWorker, table, runs, history
<1>2. workers' \subseteq Nodes
  BY DEF Heartbeat, UpdateWorker, IInv, RowsOK
<1>3. RowsOK'
  BY <1>1, <1>2 DEF IInv, RowsOK
<1>4. QED
  BY <1>1, <1>3, NoPipeline

\* A Console that restarts forgets its pipelines, and that is remembered.
LEMMA RestartStep ==
  ASSUME IInv, ConsoleRestarts
  PROVE  IInv'
<1>1. RowsOK /\ NoPipe \in Pipes
  BY DeploymentAssumption DEF IInv, NoPipe, Pipes, Places, Stages, Links
<1>2. /\ UNCHANGED <<provider, status, dep, ref, workers, core>>
      /\ pipe' = [d \in Deployments |-> NoPipe] /\ stuck'
      /\ req' \in [Requests -> RequestRows]
  BY NoRequestRow DEF ConsoleRestarts, table, runs
<1>3. stuck' \in BOOLEAN
  BY Zenon DEF ConsoleRestarts
<1>4. RowsOK'
  BY <1>1, <1>2, <1>3 DEF RowsOK
<1>5. ASSUME NEW d \in Deployments PROVE PipelineInv(d)'
  BY <1>2 DEF IInv, PipelineInv, NoPipe, Final, Written
<1>6. StatusInv' /\ EveryCoreHasARow' /\ InOrder'
  BY <1>2 DEF IInv, StatusInv, EveryCoreHasARow, InOrder, Inserted
<1>7. QED
  BY <1>4, <1>5, <1>6 DEF IInv

\* Every step preserves the inductive invariant.
LEMMA StepInv == IInv /\ [Next]_vars => IInv'
<1> SUFFICES ASSUME IInv, [Next]_vars PROVE IInv'
  OBVIOUS
<1>1. CASE \E d \in Deployments : PipelineStep(d)
  <2>1. PICK d \in Deployments : PipelineStep(d)
    BY <1>1
  <2>2. SetDeployment(d) \/ SetInstance(d) \/ Report(d) \/ Prepare(d) \/ WorkSteps(d)
    BY <2>1 DEF PipelineStep, WorkSteps
  <2>3. QED
    BY <2>2, SetDeploymentStep, SetInstanceStep, ReportStep, PrepareStep, WorkStep
<1>2. CASE \E r \in Requests : RequestStep(r)
  BY <1>2, QueueStep, RequestSteps DEF RequestStep
<1>3. CASE \E n \in Nodes : Heartbeat(n) \/ UpdateWorker(n) \/ CoreDrifts(n)
  BY <1>3, WorkersSteps, DriftStep
<1>4. CASE ConsoleRestarts
  BY <1>4, RestartStep
<1>5. CASE UNCHANGED vars
  <2>1. UNCHANGED <<provider, status, dep, ref, workers, pipe, req, core, stuck>>
    BY <1>5 DEF vars
  <2>2. RowsOK'
    BY <2>1 DEF IInv, RowsOK
  <2>3. QED
    BY <2>1, <2>2, NoPipeline
<1>6. QED
  BY <1>1, <1>2, <1>3, <1>4, <1>5 DEF Next

\* The rows, the pipelines and what runs agree as IInv says, in every state the
\* Console and its providers reach, whichever statements and calls fail.
THEOREM Invariance == Spec => []IInv
  BY InitInv, StepInv, PTL DEF Spec

\* With any number of nodes, protocols, deployments and requests, whatever
\* pipelines and requests overlap and whichever calls and statements fail: when
\* no task is left, neither the instance nor a deployment is "deploying"
\* (_run_pipeline's safety net), unless a statement of the safety net itself
\* failed, or the Console or a Railway service was restarted.
THEOREM Settles == Spec => []StatusSettles
<1>1. IInv => StatusSettles
  <2> SUFFICES ASSUME IInv, Quiet, ~stuck PROVE /\ status # "deploying"
                 /\ \A d \in Inserted : dep[d].status \in {"running", "failed"}
    BY DEF StatusSettles
  <2>1. \A d \in Deployments : pipe[d].stage = "none"
    BY DEF Quiet, Active
  <2>2. status # "deploying"
    BY <2>1 DEF IInv, StatusInv, WillWrite
  <2>3. \A d \in Inserted : dep[d].status \in {"running", "failed"}
    BY <2>1 DEF IInv, PipelineInv, Inserted, FinalStatuses
  <2>4. QED
    BY <2>2, <2>3
<1>2. QED
  BY Invariance, <1>1, PTL

\* However launches and statements fail, Cores die and nodes come and go, a node
\* that has the instance's Core is named by a row of deployments (Prepare stores
\* it before the launch).
THEOREM NoCoreForgotten == Spec => []EveryCoreHasARow
<1>1. IInv => EveryCoreHasARow
  BY DEF IInv
<1>2. QED
  BY Invariance, <1>1, PTL

-----------------------------------------------------------------------------
(* SoloInv.                                                                *)

\* The initial state satisfies it.
LEMMA InitSolo == Init => SoloInv
<1> SUFFICES ASSUME Init PROVE SoloInv
  OBVIOUS
<1>1. Active = {} /\ ~Acting /\ ~Marking /\ Recording = {}
  BY DEF Init, Active, Acting, Marking, Recording, NoPipe, NoRequest
<1>2. CountsOK
  <2>1. /\ made \in [Links -> Nat] /\ rows \in [Links -> Nat]
        /\ service \in [Services -> {"none", "up", "down", "deleted"}]
    BY DEF Init
  <2>2. overlap \in BOOLEAN /\ lost \in BOOLEAN /\ drifted \in BOOLEAN
    BY Zenon DEF Init
  <2>3. QED
    BY <2>1, <2>2 DEF CountsOK
<1>3. OneTask
  BY <1>1 DEF OneTask, Acting
<1>4. LinksInOrder
  <2>1. 0 \in 0..NumProtocols
    BY DeploymentAssumption
  <2>2. \A l \in Links : ~(l <= 0)
    BY DEF Links
  <2>3. rows = [l \in Links |-> IF l <= 0 THEN 1 ELSE 0]
    BY <2>2 DEF Init
  <2>4. QED
    BY <1>1, <2>1, <2>3 DEF LinksInOrder
<1>5. LinksMade /\ ServiceTrue
  BY <1>1 DEF Init, LinksMade, ServiceTrue, Exists
<1>6. CoreTrue
  <2>1. LatestNode = "none"
    BY DEF Init, LatestNode, Inserted, NoRow
  <2>2. status = "stopped"
    BY DEF Init
  <2>3. QED
    BY <1>1, <2>1, <2>2 DEF CoreTrue
<1>7. QED
  BY <1>2, <1>3, <1>4, <1>5, <1>6 DEF SoloInv

\* The counters stay numbers, the history variables truth values.
LEMMA CountsStep == IInv /\ CountsOK /\ Next => CountsOK'
<1> SUFFICES ASSUME IInv, CountsOK, Next PROVE CountsOK'
  OBVIOUS
<1>1. \A d \in Deployments : pipe[d] \in Pipes
  BY DEF IInv, RowsOK
<1>2. made' \in [Links -> Nat] /\ rows' \in [Links -> Nat]
  <2>1. CASE UNCHANGED <<made, rows>>
    BY <2>1 DEF CountsOK
  <2>2. ASSUME NEW d \in Deployments, PostLink(d) PROVE made' \in [Links -> Nat] /\ rows' \in [Links -> Nat]
    <3>1. rows' = rows /\ (made' = made \/ made' = [made EXCEPT ![pipe[d].link] = @ + 1])
      BY <2>2 DEF PostLink
    <3>2. QED
      BY <3>1 DEF CountsOK
  <2>3. ASSUME NEW d \in Deployments, RecordLink(d) PROVE made' \in [Links -> Nat] /\ rows' \in [Links -> Nat]
    <3>1. made' = made /\ (rows' = rows \/ rows' = [rows EXCEPT ![pipe[d].link] = @ + 1])
      BY <2>3 DEF RecordLink, runs
    <3>2. QED
      BY <3>1 DEF CountsOK
  <2>4. ASSUME NEW d \in Deployments, PipelineStep(d), ~PostLink(d), ~RecordLink(d)
        PROVE  UNCHANGED <<made, rows>>
    BY <2>4 DEF PipelineStep, SetDeployment, SetInstance, Report, WorkFails, Prepare, Build, Start,
       Probe, Provision, CreateService, StoreService, Configure, Trigger, Poll, runs
  <2>5. ASSUME NEW r \in Requests, RequestStep(r) PROVE UNCHANGED <<made, rows>>
    BY <2>5 DEF RequestStep, Begin, Read, ReadFails, Queue, CallStop, CallDelete, CallRailway, Mark, runs
  <2>6. ASSUME \/ \E n \in Nodes : Heartbeat(n) \/ UpdateWorker(n) \/ CoreDrifts(n)
               \/ ConsoleRestarts
        PROVE  UNCHANGED <<made, rows>>
    BY <2>6 DEF Heartbeat, UpdateWorker, CoreDrifts, ConsoleRestarts, runs
  <2>7. QED
    BY <2>1, <2>2, <2>3, <2>4, <2>5, <2>6 DEF Next
<1>3. service' \in [Services -> {"none", "up", "down", "deleted"}]
  <2>1. CASE UNCHANGED service
    BY <2>1 DEF CountsOK
  <2>2. ASSUME NEW d \in Deployments, PipelineStep(d)
        PROVE  \/ UNCHANGED service
               \/ \E s \in 0..MaxDeployments, as \in {"up", "down"} : service' = [service EXCEPT ![s] = as]
    <3>1. CASE CreateService(d)
      <4>1. \A s \in Services : s \in 0..MaxDeployments
        BY DeploymentAssumption DEF Services
      <4>2. QED
        BY <3>1, <4>1 DEF CreateService
    <3>2. CASE Trigger(d)
      BY <1>1, <3>2 DEF Trigger, Pipes
    <3>3. QED
      BY <2>2, <3>1, <3>2 DEF PipelineStep, SetDeployment, SetInstance, Report, WorkFails, Prepare,
         Build, Start, Probe, Provision, PostLink, RecordLink, StoreService, Configure, Poll, runs
  <2>3. ASSUME NEW r \in Requests, RequestStep(r)
        PROVE  \/ UNCHANGED service
               \/ \E s \in 0..MaxDeployments, as \in {"up", "down", "deleted"} :
                    service' = [service EXCEPT ![s] = as]
    <3>1. CASE CallRailway(r)
      <4>1. req[r].ref \in 0..MaxDeployments
        BY DEF IInv, RowsOK, RequestRows
      <4>2. AtRailway(req[r].op) \in {"up", "down", "deleted"}
        BY DEF AtRailway
      <4>3. UNCHANGED service \/ service' = [service EXCEPT ![req[r].ref] = AtRailway(req[r].op)]
        BY <3>1 DEF CallRailway
      <4>4. QED
        BY <4>1, <4>2, <4>3
    <3>2. QED
      BY <2>3, <3>1 DEF RequestStep, Begin, Read, ReadFails, Queue, CallStop, CallDelete, Mark, runs
  <2>4. ASSUME \/ \E n \in Nodes : Heartbeat(n) \/ UpdateWorker(n) \/ CoreDrifts(n)
               \/ ConsoleRestarts
        PROVE  UNCHANGED service
    BY <2>4 DEF Heartbeat, UpdateWorker, CoreDrifts, ConsoleRestarts, runs
  <2>5. QED
    BY <2>1, <2>2, <2>3, <2>4 DEF Next, CountsOK
<1>4. overlap' \in BOOLEAN /\ lost' \in BOOLEAN /\ drifted' \in BOOLEAN
  <2>0. overlap \in BOOLEAN /\ lost \in BOOLEAN /\ drifted \in BOOLEAN
    BY DEF CountsOK
  <2>1. ASSUME NEW d \in Deployments, PipelineStep(d)
        PROVE  /\ overlap' = overlap
               /\ lost' = lost \/ lost' = TRUE
               /\ drifted' = drifted \/ drifted' = FALSE
    BY <2>1, Zenon DEF PipelineStep, SetDeployment, SetInstance, Report, WorkFails, Prepare, Build, Start,
       Probe, Provision, PostLink, RecordLink, CreateService, StoreService, Configure, Trigger,
       Poll, history
  <2>2. ASSUME NEW r \in Requests, RequestStep(r)
        PROVE  /\ overlap' = overlap \/ overlap' = (overlap \/ ~Quiet)
               /\ lost' = lost \/ lost' = TRUE \/ lost' = (lost \/ req[r].node # "none")
               /\ drifted' = drifted \/ drifted' = FALSE
    BY <2>2, Zenon DEF RequestStep, Begin, Read, ReadFails, Queue, CallStop, CallDelete, CallRailway, Mark, history
  <2>3. ASSUME \/ \E n \in Nodes : Heartbeat(n) \/ UpdateWorker(n) \/ CoreDrifts(n)
               \/ ConsoleRestarts
        PROVE  /\ overlap' = overlap
               /\ lost' = lost \/ lost' = TRUE
               /\ drifted' = drifted \/ drifted' = TRUE
    BY <2>3, Zenon DEF Heartbeat, UpdateWorker, CoreDrifts, ConsoleRestarts, history
  <2>4. QED
    BY <2>0, <2>1, <2>2, <2>3, Zenon DEF Next
<1>5. QED
  BY <1>2, <1>3, <1>4 DEF CountsOK

-----------------------------------------------------------------------------
\* Where any step of a pipeline leads to, and what it wrote.
Moved(d) ==
  \/ Led(d)
  \/ From(d, "preparing", "work") /\ To(d, "building", "instance")
  \/ pipe[d].at = "deployment" /\ To(d, pipe[d].stage, "instance")
  \/ ~Final(pipe[d].stage) /\ To(d, pipe[d].stage, "work")
  \/ /\ Final(pipe[d].stage) /\ pipe[d].at = "instance"
     /\ To(d, pipe[d].stage, "again") /\ status' = pipe[d].stage
  \/ From(d, "running", "again") /\ To(d, "running", "report") /\ status' = "running"
  \/ From(d, "failed", "again") /\ Ending(d) /\ status' = "failed"
  \/ From(d, "running", "report") /\ Ending(d) /\ UNCHANGED status
  \/ From(d, "failed", "report") /\ To(d, "failed", "deployment")
  \/ pipe[d].at \in {"deployment", "instance", "again", "report"} /\ Failing(d)
  \/ From(d, "failed", "again") /\ Ending(d) /\ UNCHANGED status
  \/ pipe[d].stage = "failed" /\ Ending(d) /\ stuck'

\* Every step of a pipeline is one of these.
LEMMA MovedTo ==
  ASSUME IInv, NEW d \in Deployments, PipelineStep(d)
  PROVE  /\ Moved(d) /\ PipesFrame(d)
         /\ pipe[d].stage # "none" /\ Inserted' = Inserted
         /\ \A e \in Deployments : pipe[d].stage # "preparing" => dep'[e].node = dep[e].node
         /\ UNCHANGED <<provider, req, overlap>>
<1>1. RowsOK /\ PipelineInv(d) /\ stuck \in BOOLEAN
  BY DEF IInv, RowsOK
<1>2. UNCHANGED <<provider, req, overlap>>
  BY DEF PipelineStep, SetDeployment, SetInstance, Report, WorkFails, Prepare, Build, Start, Probe,
     Provision, PostLink, RecordLink, CreateService, StoreService, Configure, Trigger, Poll, history
<1>3. ASSUME Break(d), pipe[d].at \in {"deployment", "instance", "again", "report"}, UNCHANGED status
      PROVE  Moved(d) /\ PipesFrame(d)
  <2>1. CASE pipe[d].stage # "failed" /\ Failing(d)
    BY <1>1, <1>3, <2>1, BreakTo DEF Moved
  <2>2. CASE pipe[d].stage = "failed" /\ Ending(d) /\ stuck' = (stuck \/ pipe[d].at # "again")
    <3>1. stuck' \/ pipe[d].at = "again"
      BY <2>2, Zenon
    <3>2. QED
      BY <1>1, <1>3, <2>2, <3>1, BreakTo DEF Moved, From
  <2>3. QED
    BY <1>1, <1>3, <2>1, <2>2, BreakTo
<1>4. CASE WorkSteps(d)
  <2>1. Led(d) /\ PipesFrame(d)
    BY <1>1, <1>4, WorkTo
  <2>2. dep' = dep
    BY <1>4 DEF WorkSteps, WorkFails, Build, Start, Probe, Provision, PostLink, RecordLink, CreateService,
       StoreService, Configure, Trigger, Poll, table
  <2>3. pipe[d].stage # "none"
    BY <1>1, <2>1 DEF PipelineInv, Led, Working, From
  <2>4. QED
    BY <1>2, <2>1, <2>2, <2>3 DEF Moved, Inserted
<1>5. CASE Prepare(d)
  <2>1. From(d, "preparing", "work")
    BY <1>5 DEF Prepare, Work, From
  <2>2. To(d, "building", "instance") /\ PipesFrame(d)
    BY <1>1, <1>5, EnterTo DEF Prepare, Stages, FirstPlace
  <2>3. \E n : dep' = [dep EXCEPT ![d].node = n]
    BY <1>5 DEF Prepare, StoreNode
  <2>4. Inserted' = Inserted
    BY <1>1, <2>3 DEF Inserted, RowsOK, Rows
  <2>5. QED
    BY <1>2, <2>1, <2>2, <2>4 DEF Moved, From
<1>6. CASE SetDeployment(d)
  <2>1. /\ pipe[d].at = "deployment" /\ pipe[d].stage \in FinalStatuses
        /\ dep[d].status # "none" /\ UNCHANGED status
    BY <1>1, <1>6 DEF SetDeployment, PipelineInv, Final, FinalStatuses
  <2>2. dep' = dep \/ dep' = [dep EXCEPT ![d].status = pipe[d].stage]
    BY <1>6 DEF SetDeployment
  <2>3. Inserted' = Inserted /\ \A e \in Deployments : dep'[e].node = dep[e].node
    BY <1>1, <2>1, <2>2 DEF Inserted, RowsOK, Rows, FinalStatuses
  <2>4. CASE pipe' = [pipe EXCEPT ![d].at = "instance"]
    BY <1>1, <1>2, <2>1, <2>3, <2>4, AtTo DEF Places, Moved, FinalStatuses
  <2>5. CASE Break(d)
    BY <1>2, <1>3, <2>1, <2>3, <2>5 DEF FinalStatuses
  <2>6. QED
    BY <1>6, <2>4, <2>5 DEF SetDeployment
<1>7. CASE SetInstance(d)
  <2>1. /\ pipe[d].at \in {"instance", "again"} /\ pipe[d].stage # "none" /\ dep' = dep
        /\ pipe[d].stage \in FinalStatuses \/ pipe[d].at = "instance"
    BY <1>1, <1>7 DEF SetInstance, PipelineInv, Final, FinalStatuses
  <2>2. CASE status' = WriteStatus(pipe[d].stage) /\ pipe' = [pipe EXCEPT ![d] = NextPlace(d)]
    <3>1. Final(pipe[d].stage) => status' = pipe[d].stage
      BY <2>2 DEF WriteStatus
    <3>2. /\ PipesFrame(d)
          /\ \/ ~Final(pipe[d].stage) /\ To(d, pipe[d].stage, "work")
             \/ Final(pipe[d].stage) /\ pipe[d].at = "instance" /\ To(d, pipe[d].stage, "again")
             \/ From(d, "running", "again") /\ To(d, "running", "report")
             \/ From(d, "failed", "again") /\ Ending(d)
      BY <1>1, <2>1, <2>2, NextTo
    <3>3. Moved(d)
      BY <3>1, <3>2 DEF Moved, From, Final
    <3>4. QED
      BY <1>2, <2>1, <3>2, <3>3 DEF Inserted
  <2>3. CASE Break(d) /\ UNCHANGED status
    BY <1>2, <1>3, <2>1, <2>3 DEF Inserted
  <2>4. QED
    BY <1>7, <2>2, <2>3 DEF SetInstance
<1>8. CASE Report(d)
  <2>1. /\ pipe[d].at = "report" /\ pipe[d].stage \in FinalStatuses
        /\ dep' = dep /\ UNCHANGED status
    BY <1>1, <1>8 DEF Report, PipelineInv, Final, FinalStatuses, table
  <2>2. CASE Break(d)
    BY <1>2, <1>3, <2>1, <2>2 DEF Inserted, FinalStatuses
  <2>3. CASE ~Break(d)
    BY <1>1, <1>2, <1>8, <2>1, <2>3, ReportTo DEF Moved, From, Inserted, FinalStatuses
  <2>4. QED
    BY <2>2, <2>3
<1>9. QED
  BY <1>4, <1>5, <1>6, <1>7, <1>8 DEF PipelineStep, WorkSteps

\* The pipeline of a step is the only task there is.
LEMMA Alone ==
  ASSUME IInv, OneTask, NEW d \in Deployments, pipe[d].stage # "none"
  PROVE  Active = {d} /\ ~Acting /\ Inserted = 1..d
<1>1. d \in Active
  BY DEF Active
<1>2. ~Acting /\ Inserted = 1..d /\ \A e \in Active : Inserted = 1..e
  BY <1>1 DEF OneTask
<1>3. ASSUME NEW e \in Active PROVE e = d
  <2>1. e \in Deployments /\ 1..e = 1..d
    BY <1>2 DEF Active
  <2>2. QED
    BY <2>1, DeploymentAssumption DEF Deployments
<1>4. QED
  BY <1>1, <1>2, <1>3

\* A pipeline stays the only task, and tells what it wrote.
LEMMA PipelineOneTask ==
  ASSUME IInv, OneTask, NEW d \in Deployments, PipelineStep(d)
  PROVE  OneTask' /\ ~Acting' /\ Active' \subseteq {d}
<1>1. /\ Moved(d) /\ PipesFrame(d) /\ pipe[d].stage # "none"
      /\ Inserted' = Inserted /\ UNCHANGED req
  BY MovedTo
<1>2. Active = {d} /\ ~Acting /\ Inserted = 1..d
  BY <1>1, Alone
<1>3. ~Acting' /\ Active' \subseteq {d}
  BY <1>1, <1>2 DEF Acting, Active, PipesFrame
<1>4. pipe'[d].stage # "none" => (Told(d)' => status' = pipe'[d].stage)
  <2>1. PipelineInv(d) /\ (Told(d) => status = pipe[d].stage)
    BY <1>2 DEF OneTask, IInv
  <2>2. QED
    BY <1>1, <2>1 DEF Told, Moved, Led, From, To, Failing, Ending, Final, NoPipe, Working, PipelineInv
<1>5. QED
  BY <1>1, <1>2, <1>3, <1>4 DEF OneTask, Acting, Active

\* The links: a pipeline that neither looks for them, makes nor records one
\* leaves them as they are.
LEMMA PipelineLinks ==
  ASSUME IInv, CountsOK, OneTask, LinksInOrder, NEW d \in Deployments, PipelineStep(d)
  PROVE  LinksInOrder' /\ (LinksMade /\ ~lost' => LinksMade')
<1>1. /\ Moved(d) /\ PipesFrame(d) /\ PipelineInv(d) /\ pipe[d].stage # "none"
      /\ pipe[d] \in Pipes
  BY MovedTo DEF IInv, RowsOK
<1>2. Active = {d} /\ Active' \subseteq {d}
  BY <1>1, Alone, PipelineOneTask
<1>3. /\ \A e \in Deployments \ {d} : pipe[e].at = "none" /\ pipe'[e].at = "none"
      /\ pipe[d].link \in Links
  BY <1>1, <1>2 DEF IInv, PipelineInv, Active, PipesFrame, Pipes
<1>4. Recording = (IF pipe[d].at = "record" THEN {d} ELSE {})
      /\ Recording' = (IF pipe'[d].at = "record" THEN {d} ELSE {})
  BY <1>3 DEF Recording
<1>5. CASE UNCHANGED <<made, rows>> /\ pipe[d].at # "record" /\ pipe'[d].at \notin {"post", "record"}
  BY <1>2, <1>4, <1>5 DEF LinksInOrder, LinksMade
<1>6. CASE Provision(d)
  <2>1. UNCHANGED <<made, rows>> /\ pipe[d].at = "provision"
    BY <1>6 DEF Provision, runs
  <2>2. pipe'[d].at = "post" => pipe'[d].link = 1 /\ \A l \in Links : rows[l] = 0
    <3>1. CASE Proceed(d)
      BY <1>1, <3>1, ProceedTo DEF To, Failing, IInv
    <3>2. CASE LinkWanted
      BY <1>1, <2>1, <3>2 DEF LinkWanted, Moved, Led, From, To, Failing, PipelineInv, Final, Working, Ending, NoPipe
    <3>3. QED
      BY <1>6, <3>1, <3>2 DEF Provision
  <2>3. pipe'[d].at # "record"
    BY <1>1, <2>1 DEF Moved, Led, From, To, Failing, PipelineInv, Final, Working, Ending, NoPipe
  <2>4. CASE pipe'[d].at = "post"
    <3>1. \A l \in Links : ~(l < 1)
      BY DEF Links
    <3>2. rows = [l \in Links |-> IF l < 1 THEN 1 ELSE 0]
      BY <2>2, <2>4, <3>1 DEF CountsOK
    <3>3. \A e \in Active' : pipe'[e].link = 1
      BY <1>2, <2>2, <2>4
    <3>4. QED
      BY <1>4, <2>1, <2>3, <3>2, <3>3 DEF LinksInOrder, LinksMade
  <2>5. QED
    BY <1>5, <2>1, <2>3, <2>4
<1>7. CASE PostLink(d)
  <2>1. /\ UNCHANGED rows /\ pipe[d].at = "post"
        /\ rows = [l \in Links |-> IF l < pipe[d].link THEN 1 ELSE 0]
    BY <1>2, <1>7 DEF PostLink, LinksInOrder
  <2>2. /\ pipe'[d].at # "post"
        /\ pipe'[d].at = "record" => pipe'[d].link = pipe[d].link
    BY <1>1, <2>1 DEF Moved, Led, From, To, Failing, PipelineInv, Final, Working, Ending, NoPipe
  <2>3. LinksInOrder'
    BY <1>2, <2>1, <2>2 DEF LinksInOrder
  <2>4. ASSUME LinksMade, ~lost' PROVE LinksMade'
    <3>1. made = rows
      BY <1>4, <2>1, <2>4 DEF LinksMade
    <3>2. CASE made' = made /\ Proceed(d)
      <4>1. pipe'[d].at # "record"
        BY <3>2, ProceedTo DEF To, Failing, IInv
      <4>2. QED
        BY <1>4, <2>1, <3>1, <3>2, <4>1 DEF LinksMade
    <3>3. CASE made' = [made EXCEPT ![pipe[d].link] = @ + 1] /\ pipe' = [pipe EXCEPT ![d].at = "record"]
      <4>1. pipe'[d].at = "record"
        BY <3>3, AtTo DEF To, IInv, Places
      <4>2. QED
        BY <1>4, <2>1, <2>2, <3>1, <3>3, <4>1 DEF LinksMade
    <3>4. QED
      BY <1>7, <2>4, <3>2, <3>3 DEF PostLink
  <2>5. QED
    BY <2>3, <2>4
<1>8. CASE RecordLink(d)
  <2> DEFINE k == pipe[d].link
  <2>1. /\ UNCHANGED made /\ pipe[d].at = "record" /\ k \in Nat
        /\ k \in 1..NumProtocols
        /\ rows = [l \in Links |-> IF l < k THEN 1 ELSE 0]
    BY <1>2, <1>3, <1>8 DEF RecordLink, LinksInOrder, runs, Links
  <2>2. pipe'[d].at # "record" /\ (pipe'[d].at = "post" => pipe'[d].link = k + 1)
    BY <1>1, <2>1 DEF Moved, Led, From, To, Failing, PipelineInv, Final, Working, Ending, NoPipe
  <2>3. CASE rows' = [rows EXCEPT ![k] = @ + 1]
    <3>1. rows' = [l \in Links |-> IF l <= k THEN 1 ELSE 0]
      <4> HIDE DEF k
      <4>1. rows' = [l \in Links |-> IF l = k THEN rows[k] + 1 ELSE rows[l]]
        BY <2>1, <2>3
      <4>2. ASSUME NEW l \in Links
            PROVE  (IF l = k THEN rows[k] + 1 ELSE rows[l]) = IF l <= k THEN 1 ELSE 0
        BY <2>1 DEF Links
      <4>3. QED
        BY <4>1, <4>2
    <3>2. rows' = [l \in Links |-> IF l < k + 1 THEN 1 ELSE 0]
      <4>1. \A l \in Links : l <= k <=> l < k + 1
        BY <2>1 DEF Links
      <4>2. QED
        BY <3>1, <4>1
    <3>3. LinksInOrder'
      <4>1. k \in 0..NumProtocols
        BY <2>1, DeploymentAssumption
      <4>2. QED
        BY <1>2, <2>2, <3>1, <3>2, <4>1 DEF LinksInOrder
    <3>4. LinksMade => LinksMade'
      BY <1>4, <2>1, <2>2, <2>3 DEF LinksMade
    <3>5. QED
      BY <3>3, <3>4
  <2>4. CASE rows' = rows /\ Proceed(d) /\ lost'
    <3>1. pipe'[d].at \notin {"post", "record"}
      BY <2>4, ProceedTo DEF To, Failing, IInv
    <3>2. QED
      BY <1>2, <2>4, <3>1 DEF LinksInOrder
  <2>5. QED
    BY <1>8, <2>3, <2>4 DEF RecordLink
<1>9. CASE ~Provision(d) /\ ~PostLink(d) /\ ~RecordLink(d)
  <2>1. UNCHANGED <<made, rows>> /\ pipe[d].at \notin {"provision", "post", "record"}
    BY <1>1, <1>9 DEF PipelineStep, SetDeployment, SetInstance, Report, WorkFails, Prepare, Build,
       Start, Probe, CreateService, StoreService, Configure, Trigger, Poll, Work, runs
  <2>2. pipe'[d].at \notin {"post", "record"}
    BY <1>1, <2>1 DEF Moved, Led, From, To, Failing, Ending, NoPipe
  <2>3. QED
    BY <1>5, <2>1, <2>2
<1>10. QED
  BY <1>6, <1>7, <1>8, <1>9

\* The services: one is made by a pipeline that knows of none, and referred to
\* when it has stored its reference.
LEMMA PipelineServices ==
  ASSUME IInv, OneTask, ServiceTrue, NEW d \in Deployments, PipelineStep(d), ~lost'
  PROVE  ServiceTrue'
<1>1. /\ Moved(d) /\ PipesFrame(d) /\ PipelineInv(d) /\ pipe[d].stage # "none"
      /\ pipe[d] \in Pipes /\ RowsOK
  BY MovedTo DEF IInv, RowsOK
<1>2. Active = {d} /\ Active' \subseteq {d}
  BY <1>1, Alone, PipelineOneTask
<1>3. 0 \notin Services
  BY DEF Services
<1>4. CASE UNCHANGED ref /\ (\A s \in Services : Exists(s)' => Exists(s))
           /\ pipe[d].at # "store" /\ pipe'[d].at # "store"
  <2>1. pipe'[d].stage # "none" => pipe'[d].ref = pipe[d].ref
    BY <1>1, <1>4 DEF Moved, Led, From, To, Failing, Ending, NoPipe
  <2>2. pipe[d].ref = ref /\ \A s \in Services : Exists(s) => s = ref
    BY <1>2, <1>4 DEF ServiceTrue
  <2>3. \A e \in Active' : e = d /\ pipe'[d].stage # "none"
    BY <1>2 DEF Active
  <2>4. QED
    BY <1>4, <2>1, <2>2, <2>3 DEF ServiceTrue
<1>5. CASE CreateService(d)
  <2>1. UNCHANGED ref /\ From(d, "preparing", "work")
    BY <1>5 DEF CreateService, Work, From
  <2>2. pipe[d].ref = ref /\ \A s \in Services : Exists(s) => s = ref
    BY <1>2, <2>1 DEF ServiceTrue, From
  <2>3. CASE Enter(d, "building") /\ UNCHANGED service
    <3>1. To(d, "building", "instance")
      BY <1>1, <2>3, EnterTo DEF Stages, FirstPlace
    <3>2. QED
      BY <1>4, <2>1, <2>3, <3>1 DEF From, To, Exists
  <2>4. ASSUME NEW s \in Services, pipe[d].ref = 0, service' = [service EXCEPT ![s] = "down"],
               pipe' = [pipe EXCEPT ![d].at = "store", ![d].ref = s]
        PROVE  ServiceTrue'
    <3> DEFINE row == [pipe[d] EXCEPT !.at = "store", !.ref = s]
    <3>0. s \in 0..MaxDeployments
      BY DeploymentAssumption DEF Services
    <3>1. row \in Pipes /\ row.at = "store" /\ row.ref = s /\ row.stage = "preparing"
      BY <1>1, <2>1, <3>0 DEF Pipes, Places, From
    <3>2. pipe' = [pipe EXCEPT ![d] = row]
      BY <2>4
    <3> HIDE DEF row
    <3>3. pipe'[d].at = "store" /\ pipe'[d].ref = s /\ pipe'[d].stage = "preparing"
      BY <1>1, <3>1, <3>2, RowStep
    <3>4. \A t \in Services : Exists(t)' => t = s \/ Exists(t)
      BY <2>4 DEF Exists
    <3>5. Active' = {d} /\ s # 0 /\ ref' = 0
      BY <1>2, <1>3, <2>1, <2>2, <2>4, <3>3 DEF Active
    <3>6. QED
      BY <1>3, <2>2, <2>4, <3>3, <3>4, <3>5 DEF ServiceTrue
  <2>5. QED
    BY <1>5, <2>3, <2>4 DEF CreateService
<1>6. CASE StoreService(d)
  <2>1. /\ UNCHANGED service /\ pipe[d].at = "store"
        /\ ref' = pipe[d].ref /\ Enter(d, "building")
    BY <1>6 DEF StoreService, StoreRef, runs
  <2>2. To(d, "building", "instance")
    BY <1>1, <2>1, EnterTo DEF Stages, FirstPlace
  <2>3. \A s \in Services : Exists(s) => s = pipe[d].ref
    BY <1>2, <1>3, <2>1 DEF ServiceTrue
  <2>4. QED
    BY <1>2, <2>1, <2>2, <2>3 DEF ServiceTrue, Exists, To
<1>7. CASE ~CreateService(d) /\ ~StoreService(d)
  <2>1. UNCHANGED ref /\ pipe[d].at # "store" /\ ~From(d, "none", "none")
    BY <1>1, <1>7 DEF PipelineStep, SetDeployment, SetInstance, Report, WorkFails, Prepare, Build,
       Start, Probe, Provision, PostLink, RecordLink, Configure, Trigger, Poll, Work, From
  <2>2. \A s \in Services : Exists(s)' => Exists(s)
    <3>1. CASE Trigger(d)
      BY <3>1 DEF Trigger, Exists
    <3>2. CASE UNCHANGED service
      BY <3>2 DEF Exists
    <3>3. QED
      BY <1>7, <3>1, <3>2 DEF PipelineStep, SetDeployment, SetInstance, Report, WorkFails, Prepare, Build,
         Start, Probe, Provision, PostLink, RecordLink, Configure, Poll, runs
  <2>3. pipe'[d].at # "store"
    <3>1. CASE WorkFails(d)
      BY <1>1, <3>1, FailTo DEF WorkFails, Failing, To
    <3>2. CASE Configure(d)
      BY <1>1, <3>2, EnterTo DEF Configure, Stages, FirstPlace, To
    <3>3. CASE provider = "local" \/ pipe[d].at # "work" \/ pipe[d].stage # "preparing"
      BY <1>1, <3>3 DEF Moved, Led, From, To, Failing, Ending, NoPipe, PipelineInv
    <3>4. QED
      BY <1>7, <3>1, <3>2, <3>3 DEF PipelineStep, SetDeployment, SetInstance, Report, Prepare, Build,
         Start, Probe, Provision, PostLink, RecordLink, Trigger, Poll, Work
  <2>4. QED
    BY <1>4, <2>1, <2>2, <2>3
<1>8. QED
  BY <1>5, <1>6, <1>7

\* The Core: from the probe on it is up, and a pipeline that ends leaves a
\* status that says so or that it failed.
LEMMA PipelineCore ==
  ASSUME IInv, OneTask, ~stuck /\ ~drifted => CoreTrue, NEW d \in Deployments, PipelineStep(d),
         ~stuck', ~drifted'
  PROVE  CoreTrue'
<1>1. /\ Moved(d) /\ PipesFrame(d) /\ PipelineInv(d) /\ pipe[d].stage # "none"
      /\ UNCHANGED <<provider, req>> /\ Inserted' = Inserted
      /\ pipe[d].stage # "preparing" => dep'[d].node = dep[d].node
  BY MovedTo DEF IInv
<1>2. Active = {d} /\ Active' \subseteq {d} /\ Inserted = 1..d /\ ~Acting'
  BY <1>1, Alone, PipelineOneTask
<1>3. ~Marking'
  BY <1>2 DEF Acting, Marking
<1> SUFFICES ASSUME provider = "local" PROVE CoreTrue'
  BY <1>1 DEF CoreTrue
<1>4. ~stuck /\ (Probe(d) \/ CoreTrue)
  <2>1. ~stuck
    BY Zenon DEF PipelineStep, SetDeployment, SetInstance, Report, Break, WorkFails, Prepare, Build,
       Start, Probe, Provision, PostLink, RecordLink, CreateService, StoreService, Configure,
       Trigger, Poll, history
  <2>2. Probe(d) \/ UNCHANGED drifted
    BY DEF PipelineStep, SetDeployment, SetInstance, Report, WorkFails, Prepare, Build,
       Start, Provision, PostLink, RecordLink, CreateService, StoreService, Configure,
       Trigger, Poll, history
  <2>3. QED
    BY <2>1, <2>2
<1>5. Probed(d)' => core'[dep'[d].node] = "up"
  <2>1. CASE Probe(d)
    <3>1. core[NodeOr(dep[d].node)] = "up" /\ pipe[d].stage = "health_check" /\ UNCHANGED core
      BY <2>1 DEF Probe, Healthy, Work, runs
    <3>2. NodeOr(dep[d].node) = dep[d].node
      BY <1>1, <3>1, DeploymentAssumption DEF PipelineInv, NodeOr
    <3>3. QED
      BY <1>1, <3>1, <3>2
  <2>2. CASE ~Probe(d)
    <3>1. Probed(d)' => Probed(d)
      <4>1. CASE WorkFails(d)
        BY <1>1, <4>1, FailTo DEF WorkFails, Failing, To, Probed, IInv
      <4>2. CASE ~From(d, "health_check", "work")
        BY <1>1, <4>2 DEF Moved, Led, From, To, Failing, Ending, NoPipe, Probed
      <4>3. QED
        BY <2>2, <4>1, <4>2 DEF PipelineStep, SetDeployment, SetInstance, Report, Prepare, Build, Start,
           Provision, PostLink, RecordLink, CreateService, StoreService, Configure, Trigger, Poll, Work, From
    <3>2. (Probed(d) => UNCHANGED core)
      <4>1. Probed(d) => ~Start(d)
        BY <1>1 DEF Probed, Start, Work, PipelineInv
      <4>2. Start(d) \/ UNCHANGED core
        BY DEF PipelineStep, SetDeployment, SetInstance, Report, WorkFails, Prepare, Build, Probe,
           Provision, PostLink, RecordLink, CreateService, StoreService, Configure, Trigger, Poll, runs
      <4>3. QED
        BY <4>1, <4>2
    <3>3. CoreTrue
      BY <1>4, <2>2
    <3>4. QED
      BY <1>1, <1>2, <3>1, <3>2, <3>3 DEF CoreTrue, Probed, PipelineInv
  <2>3. QED
    BY <2>1, <2>2
<1>6. CASE pipe'[d].stage # "none"
  BY <1>2, <1>3, <1>5, <1>6 DEF CoreTrue, Active
<1>7. CASE pipe'[d].stage = "none"
  <2>1. Told(d) => status = pipe[d].stage
    BY <1>2 DEF OneTask
  <2>2. \/ status' = "failed"
        \/ status' = "running" /\ From(d, "running", "report")
    BY <1>1, <1>7, <2>1 DEF Moved, Led, From, To, Failing, Ending, PipelineInv, Final, Told, Working
  <2>3. Active' = {}
    BY <1>2, <1>7 DEF Active
  <2>4. CASE status' = "failed"
    BY <1>3, <2>3, <2>4 DEF CoreTrue
  <2>5. CASE status' = "running" /\ From(d, "running", "report")
    <3>1. UNCHANGED <<dep, core>> /\ ~Probe(d)
      BY <1>1, <2>5 DEF From, PipelineStep, SetDeployment, SetInstance, Report, WorkFails, Prepare,
         Build, Start, Probe, Provision, PostLink, RecordLink, CreateService, StoreService,
         Configure, Trigger, Poll, Work, runs, table
    <3>2. core[dep[d].node] = "up"
      BY <1>2, <1>4, <2>5, <3>1 DEF CoreTrue, Probed, From
    <3>3. dep[d].node \in Nodes
      BY <1>1, <2>5 DEF PipelineInv, From
    <3>4. LatestNode' = dep[d].node
      <4>1. LatestNode = dep[d].node
        BY <1>2, LatestFacts DEF IInv
      <4>2. QED
        BY <3>1, <4>1 DEF LatestNode, Inserted
    <3>5. QED
      BY <1>3, <2>3, <2>5, <3>1, <3>2, <3>3, <3>4 DEF CoreTrue
  <2>6. QED
    BY <2>2, <2>4, <2>5
<1>8. QED
  BY <1>6, <1>7

\* Together.
LEMMA SoloPipeline ==
  ASSUME IInv, SoloInv, CountsOK', NEW d \in Deployments, PipelineStep(d)
  PROVE  SoloInv'
<1>1. overlap' = overlap
  BY MovedTo
<1>2. ~lost' => ~lost
  BY Zenon DEF PipelineStep, SetDeployment, SetInstance, Report, WorkFails, Prepare, Build,
     Start, Probe, Provision, PostLink, RecordLink, CreateService, StoreService, Configure,
     Trigger, Poll, history
<1>3. ~overlap' => OneTask' /\ LinksInOrder'
  BY <1>1, PipelineOneTask, PipelineLinks DEF SoloInv
<1>4. ~overlap' /\ ~lost' => LinksMade' /\ ServiceTrue'
  BY <1>1, <1>2, PipelineLinks, PipelineServices DEF SoloInv
<1>5. ~overlap' /\ ~lost' /\ ~stuck' /\ ~drifted' => CoreTrue'
  BY <1>1, <1>2, PipelineCore DEF SoloInv
<1>6. QED
  BY <1>3, <1>4, <1>5 DEF SoloInv

\* A request is queued: its pipeline is the only task, and knows of the service
\* the request has read of.
LEMMA SoloQueue ==
  ASSUME IInv, SoloInv, CountsOK', NEW r \in Requests, Queue(r)
  PROVE  SoloInv'
<1>1. PICK d \in Deployments \ Inserted :
        /\ \A e \in Deployments \ Inserted : d <= e
        /\ dep'[d].status = "deploying" /\ dep'[d].node = "none"
        /\ dep' \in [Deployments -> Rows] /\ \A e \in Deployments \ {d} : dep'[e] = dep[e]
        /\ pipe'[d].stage = "preparing" /\ pipe'[d].at = "instance"
        /\ pipe'[d].ref = req[r].ref /\ PipesFrame(d)
  BY QueueTo
<1>2. /\ UNCHANGED <<ref, made, rows, service, overlap, lost, stuck, drifted>>
      /\ req[r].at = "insert" /\ req' = [req EXCEPT ![r] = NoRequest]
  BY DEF Queue, runs, history
<1>3. req'[r].at = "idle" /\ \A q \in Requests \ {r} : req'[q] = req[q]
  BY <1>2, NoRequestRow, RequestTo DEF IInv
<1>4. Inserted' = 1..d
  <2>1. PICK k \in 0..MaxDeployments : Inserted = 1..k
    BY DEF IInv, InOrder
  <2>2. Inserted' = Inserted \cup {d}
    BY <1>1 DEF Inserted
  <2>3. d \in 1..MaxDeployments /\ d > k /\ k + 1 \in Deployments \ Inserted
    BY <1>1, <2>1, DeploymentAssumption DEF Deployments
  <2>4. d = k + 1
    BY <1>1, <2>3
  <2>5. QED
    BY <2>1, <2>2, <2>3, <2>4
<1> SUFFICES ASSUME ~overlap
             PROVE  /\ OneTask' /\ LinksInOrder'
                    /\ ~lost => LinksMade' /\ ServiceTrue'
                    /\ CoreTrue'
  BY <1>2 DEF SoloInv
<1>5. OneTask /\ LinksInOrder
  BY DEF SoloInv
<1>6. Active = {} /\ Active' = {d} /\ ~Acting' /\ req[r].ref = ref
  <2>1. Acting /\ \A q \in Requests \ {r} : req[q].at = "idle"
    BY <1>2, <1>5 DEF OneTask, Acting
  <2>2. Active = {}
    BY <1>5, <2>1 DEF OneTask
  <2>3. ~Acting'
    BY <1>3, <2>1 DEF Acting
  <2>4. Active' = {d}
    BY <1>1, <2>2 DEF Active, PipesFrame
  <2>5. QED
    BY <1>2, <1>5, <2>2, <2>3, <2>4 DEF OneTask
<1>7. OneTask'
  BY <1>1, <1>4, <1>6 DEF OneTask, Acting, Told, Final
<1>8. LinksInOrder'
  BY <1>1, <1>2, <1>5, <1>6 DEF LinksInOrder
<1>9. Recording = {} /\ Recording' = {}
  <2>1. \A e \in Deployments : pipe[e].at = "none"
    BY <1>6 DEF IInv, PipelineInv, Active
  <2>2. QED
    BY <1>1, <2>1 DEF Recording, PipesFrame
<1>10. ~lost => LinksMade' /\ ServiceTrue'
  <2>1. LinksMade => LinksMade'
    BY <1>2, <1>9 DEF LinksMade
  <2>2. ServiceTrue => ServiceTrue'
    BY <1>1, <1>2, <1>6 DEF ServiceTrue, Exists
  <2>3. QED
    BY <2>1, <2>2 DEF SoloInv
<1>11. CoreTrue'
  BY <1>1, <1>6 DEF CoreTrue, Probed, Marking, Acting
<1>12. QED
  BY <1>7, <1>8, <1>10, <1>11

\* The other steps of a request change no link, and a service only as the
\* reference it has read says.
LEMMA SoloAsked ==
  ASSUME IInv, SoloInv, CountsOK', NEW r \in Requests,
         \/ Begin(r) \/ Read(r) \/ ReadFails(r)
         \/ CallStop(r) \/ CallDelete(r) \/ CallRailway(r) \/ Mark(r)
  PROVE  SoloInv'
<1>1. UNCHANGED <<provider, ref, dep, pipe, made, rows>>
  BY DEF Begin, Read, ReadFails, CallStop, CallDelete, CallRailway, Mark, table, runs
<1>2. PICK row \in RequestRows :
        /\ req' = [req EXCEPT ![r] = row]
        /\ \/ Begin(r) /\ row.at = "read"
           \/ /\ Read(r) /\ row.at \in {"insert", "call"}
              /\ row.ref = ref /\ row.node = LatestNode
           \/ ~Begin(r) /\ ~Read(r) /\ row.at \in {"idle", "mark"}
  BY Asked
<1>3. req'[r] = row /\ \A q \in Requests \ {r} : req'[q] = req[q]
  BY <1>2, RequestTo DEF IInv
<1>4. UNCHANGED <<Inserted, Active, Recording, LatestNode>>
  BY <1>1 DEF Inserted, Active, Recording, LatestNode
<1>5. ~overlap' => ~overlap /\ (Begin(r) => Quiet)
  BY Zenon DEF Begin, Read, ReadFails, CallStop, CallDelete, CallRailway, Mark, history
<1>6. ~lost' => ~lost
  BY Zenon DEF Begin, Read, ReadFails, CallStop, CallDelete, CallRailway, Mark, history
<1> SUFFICES ASSUME ~overlap'
             PROVE  /\ OneTask' /\ LinksInOrder'
                    /\ ~lost' => LinksMade' /\ ServiceTrue'
                    /\ ~lost' /\ ~stuck' /\ ~drifted' => CoreTrue'
  BY DEF SoloInv
<1>7. OneTask /\ LinksInOrder /\ ~overlap
  BY <1>5 DEF SoloInv
<1>8. Active = {} /\ \A q \in Requests \ {r} : req[q].at = "idle"
  <2>1. CASE Begin(r)
    BY <1>5, <2>1 DEF Quiet, Acting
  <2>2. CASE ~Begin(r)
    <3>1. req[r].at # "idle"
      BY <2>2 DEF Read, ReadFails, CallStop, CallDelete, CallRailway, Mark
    <3>2. QED
      BY <1>7, <3>1 DEF OneTask, Acting
  <2>3. QED
    BY <2>1, <2>2
<1>9. \A q \in Requests \ {r} : req'[q].at = "idle"
  BY <1>3, <1>8
<1>10. OneTask'
  BY <1>1, <1>2, <1>3, <1>4, <1>8, <1>9 DEF OneTask, Acting
<1>11. LinksInOrder' /\ (LinksMade => LinksMade')
  BY <1>1, <1>4, <1>7 DEF LinksInOrder, LinksMade
<1>12. ~lost' => ServiceTrue'
  <2> SUFFICES ASSUME ~lost' PROVE ServiceTrue'
    OBVIOUS
  <2>1. ServiceTrue
    BY <1>6, <1>7 DEF SoloInv
  <2>2. \A s \in Services : Exists(s)' => Exists(s)
    <3>1. CASE CallRailway(r)
      <4>1. \/ UNCHANGED service
            \/ /\ Exists(req[r].ref)
               /\ service' = [service EXCEPT ![req[r].ref] = AtRailway(req[r].op)]
        BY <3>1 DEF CallRailway
      <4>2. service \in [Services -> {"none", "up", "down", "deleted"}]
        BY DEF SoloInv, CountsOK
      <4>3. CASE UNCHANGED service
        BY <4>3 DEF Exists
      <4>4. ASSUME Exists(req[r].ref), NEW a, service' = [service EXCEPT ![req[r].ref] = a],
                   NEW s \in Services, Exists(s)'
            PROVE  Exists(s)
        <5>1. CASE s = req[r].ref
          BY <4>4, <5>1
        <5>2. CASE s # req[r].ref
          BY <4>2, <4>4, <5>2 DEF Exists
        <5>3. QED
          BY <5>1, <5>2
      <4>5. QED
        BY <4>1, <4>3, <4>4
    <3>2. CASE UNCHANGED service
      BY <3>2 DEF Exists
    <3>3. QED
      BY <3>1, <3>2 DEF Begin, Read, ReadFails, CallStop, CallDelete, Mark, runs
  <2>3. QED
    BY <1>1, <1>4, <1>8, <2>1, <2>2 DEF ServiceTrue
<1>13. ~lost' /\ ~stuck' /\ ~drifted' => CoreTrue'
  <2> SUFFICES ASSUME ~lost', ~stuck', ~drifted', provider = "local"
               PROVE  CoreTrue'
    BY <1>1 DEF CoreTrue
  <2>1. /\ Marking' <=> row.at = "mark"
        /\ Marking <=> req[r].at = "mark"
    BY <1>3, <1>8, <1>9 DEF Marking
  <2>2. /\ req' = [req EXCEPT ![r].at = "mark"] => row.at = "mark"
        /\ req' = [req EXCEPT ![r] = NoRequest] => row.at = "idle"
    BY <1>3, NoRequestRow DEF IInv, RowsOK, RequestRows
  <2>3. ~stuck /\ (~drifted => CoreTrue)
    <3>1. ~stuck
      BY Zenon DEF Begin, Read, ReadFails, CallStop, CallDelete, CallRailway, Mark, history
    <3>2. QED
      BY <1>6, <1>7, <3>1 DEF SoloInv
  <2>4. LatestNode \in Nodes \cup {"none"}
    BY LatestFacts DEF IInv
  <2>5. ASSUME row.at = "mark", LatestNode # "none" => core'[LatestNode] # "up" PROVE CoreTrue'
    BY <1>4, <1>8, <2>1, <2>5 DEF CoreTrue
  <2>6. ASSUME row.at # "mark", req[r].at # "mark", UNCHANGED <<status, core, drifted>> PROVE CoreTrue'
    BY <1>1, <1>4, <1>8, <2>1, <2>3, <2>6 DEF CoreTrue
  <2>7. CASE CallStop(r)
    <3>1. req[r].node = LatestNode /\ req[r].at # "mark" /\ UNCHANGED status
      BY <1>7, <2>7 DEF CallStop, OneTask, table
    <3>2. CASE /\ core' = [core EXCEPT ![NodeOr(req[r].node)] = "down"]
               /\ req' = [req EXCEPT ![r].at = "mark"]
      <4>1. LatestNode # "none" => core'[LatestNode] = "down"
        BY <2>4, <3>1, <3>2 DEF NodeOr, IInv, RowsOK
      <4>2. QED
        BY <2>2, <2>5, <3>2, <4>1
    <3>3. CASE UNCHANGED <<core, drifted>> /\ req' = StopRefused(r)
      BY <2>2, <2>6, <3>1, <3>3 DEF StopRefused
    <3>4. QED
      BY <2>7, <3>2, <3>3 DEF CallStop
  <2>8. CASE CallDelete(r)
    <3>1. req[r].node = LatestNode /\ req' = [req EXCEPT ![r].at = "mark"]
      BY <1>7, <2>8 DEF CallDelete, OneTask
    <3>2. CASE UNCHANGED core /\ lost' = (lost \/ req[r].node # "none")
      <4>1. LatestNode = "none"
        BY <3>1, <3>2, Zenon
      <4>2. QED
        BY <2>2, <2>5, <3>1, <4>1
    <3>3. CASE core' = [core EXCEPT ![req[r].node] = "absent"]
      <4>1. LatestNode # "none" => core'[LatestNode] = "absent"
        BY <2>4, <3>1, <3>3 DEF IInv, RowsOK
      <4>2. QED
        BY <2>2, <2>5, <3>1, <4>1
    <3>4. QED
      BY <2>8, <3>2, <3>3 DEF CallDelete
  <2>9. CASE Mark(r)
    <3>1. /\ UNCHANGED <<core, drifted>> /\ req[r].at = "mark"
          /\ req' = [req EXCEPT ![r] = NoRequest]
          /\ status' = MarkedStatus(req[r].op)
      BY <2>9 DEF Mark, runs
    <3>2. req[r].op # "restart"
      BY <2>9, Zenon DEF Mark
    <3>3. status' \in {"stopped", "deleted"}
      BY <3>1, <3>2 DEF MarkedStatus
    <3>4. CoreTrue
      BY <2>3, <3>1
    <3>5. LatestNode # "none" => core[LatestNode] # "up"
      BY <2>1, <3>1, <3>4 DEF CoreTrue
    <3>6. QED
      BY <1>4, <1>8, <2>1, <2>2, <3>1, <3>3, <3>5 DEF CoreTrue
  <2>10. CASE Begin(r) \/ Read(r) \/ ReadFails(r)
    <3>1. UNCHANGED <<status, core, drifted>> /\ req[r].at # "mark"
      BY <2>10 DEF Begin, Read, ReadFails, table, runs, history
    <3>2. row.at # "mark"
      <4>1. CASE ReadFails(r)
        BY <1>2, <2>2, <4>1 DEF ReadFails
      <4>2. CASE Begin(r) \/ Read(r)
        BY <1>2, <4>2
      <4>3. QED
        BY <2>10, <4>1, <4>2
    <3>3. QED
      BY <2>6, <3>1, <3>2
  <2>11. QED
    BY <2>7, <2>8, <2>9, <2>10 DEF CallRailway
<1>14. QED
  BY <1>10, <1>11, <1>12, <1>13, <1>6, <1>7 DEF SoloInv

\* What changes by itself changes nothing SoloInv tells, or is remembered.
LEMMA SoloRest ==
  ASSUME IInv, SoloInv, CountsOK',
         \/ \E n \in Nodes : Heartbeat(n) \/ UpdateWorker(n) \/ CoreDrifts(n)
         \/ ConsoleRestarts \/ UNCHANGED vars
  PROVE  SoloInv'
<1>1. CASE ConsoleRestarts
  <2>1. /\ pipe' = [d \in Deployments |-> NoPipe] /\ req' = [r \in Requests |-> NoRequest]
        /\ lost' /\ UNCHANGED <<overlap, rows>>
    BY <1>1 DEF ConsoleRestarts
  <2>2. Active' = {} /\ ~Acting'
    BY <2>1 DEF Active, Acting, NoPipe, NoRequest
  <2>3. OneTask'
    BY <2>2 DEF OneTask, Acting
  <2>4. ~overlap' => LinksInOrder'
    BY <2>1, <2>2 DEF SoloInv, LinksInOrder
  <2>5. QED
    BY <2>1, <2>3, <2>4 DEF SoloInv
<1>2. CASE ~ConsoleRestarts
  <2>1. UNCHANGED <<provider, status, ref, dep, pipe, req, made, rows, service, overlap, lost, stuck>>
    BY <1>2 DEF Heartbeat, UpdateWorker, CoreDrifts, vars, table, runs, history
  <2>2. drifted' \/ UNCHANGED <<core, drifted>>
    BY <1>2 DEF Heartbeat, UpdateWorker, CoreDrifts, vars, runs, history
  <2>3. UNCHANGED <<Inserted, Active, Recording, LatestNode, Acting, Marking>>
    BY <2>1 DEF Inserted, Active, Recording, LatestNode, Acting, Marking
  <2>4. OneTask => OneTask'
    BY <2>1, <2>3 DEF OneTask, Told
  <2>5. LinksInOrder => LinksInOrder'
    BY <2>1, <2>3 DEF LinksInOrder
  <2>6. (LinksMade => LinksMade') /\ (ServiceTrue => ServiceTrue')
    BY <2>1, <2>3 DEF LinksMade, ServiceTrue, Exists
  <2>7. UNCHANGED core => (CoreTrue => CoreTrue')
    BY <2>1, <2>3 DEF CoreTrue, Probed
  <2>8. QED
    BY <2>1, <2>2, <2>4, <2>5, <2>6, <2>7 DEF SoloInv
<1>3. QED
  BY <1>1, <1>2

\* Every step preserves SoloInv.
LEMMA SoloStep == IInv /\ SoloInv /\ [Next]_vars => SoloInv'
<1> SUFFICES ASSUME IInv, SoloInv, [Next]_vars PROVE SoloInv'
  OBVIOUS
<1>1. CountsOK'
  <2>1. CASE UNCHANGED vars
    BY <2>1 DEF vars, SoloInv, CountsOK
  <2>2. QED
    BY <2>1, CountsStep DEF SoloInv
<1>2. QED
  BY <1>1, SoloPipeline, SoloQueue, SoloAsked, SoloRest DEF Next, RequestStep

\* In a system whose tasks do not overlap each task finds what the one before
\* it left, as SoloInv says.
THEOREM SoloInvariance == Spec => []SoloInv
  BY Invariance, InitSolo, SoloStep, PTL DEF Spec

\* With any number of nodes, protocols and deployments, after whatever failed:
\* when no task is left, what the status says is true of the Core at the latest
\* deployment's node (_resolve_endpoint, stop_instance, delete_from_provider),
\* if tasks did not overlap, outcomes are known and recorded, the safety net
\* worked and no Core changed by itself since.
THEOREM StatusTold == Spec => []StatusIsTrue
<1>1. IInv /\ SoloInv => StatusIsTrue
  <2> SUFFICES ASSUME IInv, SoloInv, Quiet, provider = "local", ~overlap, ~lost, ~stuck, ~drifted
               PROVE  /\ status = "running" => Resolved = LatestNode /\ core[Resolved] = "up"
                      /\ status \in {"stopped", "deleted"} /\ LatestNode # "none" => core[LatestNode] # "up"
    BY DEF StatusIsTrue
  <2>1. CoreTrue /\ Active = {} /\ ~Marking
    BY DEF SoloInv, Quiet, Acting, Marking
  <2>2. LatestNode \in Nodes => NodeOr(LatestNode) = LatestNode
    BY DeploymentAssumption DEF NodeOr
  <2>3. QED
    BY <2>1, <2>2 DEF CoreTrue, Resolved
<1>2. QED
  BY Invariance, SoloInvariance, <1>1, PTL

\* With any number of protocols, whatever fails between and after the calls for
\* them: the default links are recorded in order, each once, and none that is
\* not recorded was made (_provision_default_link), if tasks did not overlap
\* and, for what was made, outcomes are known and recorded.
THEOREM LinkMadeOnce == Spec => []OneDefaultLink
<1>1. SoloInv => OneDefaultLink
  BY DEF SoloInv, OneDefaultLink, LinksInOrder, LinksMade, Recording
<1>2. QED
  BY SoloInvariance, <1>1, PTL

\* Whatever fails in pipelines, stops, restarts and deletes: when no task is
\* left there is no Railway service but the one of provider_ref, if tasks did
\* not overlap and outcomes are known and recorded.
THEOREM ServicesAreKnown == Spec => []NoServiceIsLost
<1>1. SoloInv => NoServiceIsLost
  BY DEF SoloInv, NoServiceIsLost, ServiceTrue, Quiet
<1>2. QED
  BY SoloInvariance, <1>1, PTL
=============================================================================
