---------------------------- MODULE MCDeployment ----------------------------
(***************************************************************************)
(* States that no property tells apart, nor any step that follows, are     *)
(* taken as one (VIEW).  A history variable that is set makes the          *)
(* properties that exclude it hold for good, and what only they look at no *)
(* longer matters; a pipeline in its last stage needs no reference; a      *)
(* request uses less of what it has read from step to step.                *)
(***************************************************************************)
EXTENDS Deployment

\* redeploy is a deploy that does not look at the status, so that "deploying"
\* keeps no deployment from being queued.
StatusSeen ==
  CASE status = "deleted" -> "deleted"
    [] stuck -> "any"
    [] status = "deploying" -> "deploying"
    [] provider # "local" \/ overlap \/ lost -> "settled"
    [] OTHER -> status

RowSeen(d) ==
  <<dep[d].node,
    CASE dep[d].status = "none" -> "none"
      [] stuck -> "any"
      [] dep[d].status = "deploying" -> "deploying"
      [] OTHER -> "final">>

Carried(d) ==
  <<pipe[d].stage, pipe[d].at, IF Final(pipe[d].stage) THEN 0 ELSE pipe[d].ref,
    IF pipe[d].at \in {"post", "record"} THEN pipe[d].link ELSE 1>>

Asked(r) ==
  CASE req[r].at = "insert" -> <<"insert", req[r].ref>>
    [] req[r].at = "call" -> <<"call", req[r].op, req[r].ref, req[r].node>>
    [] req[r].at = "read" /\ req[r].op = "redeploy" -> <<"read", "deploy">>
    [] OTHER -> <<req[r].at, req[r].op>>

LinksSeen == IF overlap THEN <<LinkWanted>>
             ELSE IF lost THEN <<rows>> ELSE <<rows, made>>

Picks == \E d \in Deployments : dep[d].status = "none" \/ pipe[d].stage = "preparing"
WorkersSeen == IF provider = "local" /\ Picks THEN workers ELSE {}

\* Nothing is left that could fail: no Core, no default link, and the status
\* and the services have been given up.
GivenUp == provider = "railway" /\ stuck /\ (overlap \/ lost)

View ==
  IF GivenUp THEN <<>> ELSE
  <<provider, StatusSeen, ref, core, service, LinksSeen, WorkersSeen,
    [d \in Deployments |-> RowSeen(d)], [d \in Deployments |-> Carried(d)],
    [r \in Requests |-> Asked(r)],
    overlap, overlap \/ lost, stuck, overlap \/ lost \/ stuck \/ drifted>>
=============================================================================
