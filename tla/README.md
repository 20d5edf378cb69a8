# Voidz: formal models of the relay runtime and its control plane

TLA+ models of Voidz, checked with TLC on small instances and, where marked,
proved with TLAPS for every value of their constants. Modules are translated
from the Python source under `src/`; `PROJECT.json` maps each definition to the
lines it stands for, lists the runs, the hazards and the theorems.

## 1. The system

Voidz sells access to proxies. A **Core** (one process per instance) relays
traffic; a **Worker** (one per machine) launches Cores; the **Console** is the
control plane: owners, instances, plans, customers, and the background loops
that keep every region's Core in line with the database.

```
 client --WebSocket / XHTTP--> [gateway or proxy] --> Core --TCP--> target
                                                       ^
 admin --HTTP--> Console --HTTP--> Worker --launches, forwards /core/api--+
                   |  loops: reconcile 20 s, device lock 2 s
                   +-- PostgreSQL
```

### Components

| Component | State | Operations | What makes it hard | Correct when |
|---|---|---|---|---|
| Link store (`core/state.py`, `core/app.py`) | links: active, limit, used, expiry, device cap, `allowed_ips` | POST / PATCH / DELETE of `/core/api/links`, `use` | edited under live tunnels | quota and switches take effect on open tunnels too |
| Connection tracker (`core/state.py`) | open connections, kill callbacks | register, remove, kick, slot check | connections admitted before a lock | a lock ends every connection it leaves out |
| Quota gate (`relay/base.py`) | pending bytes, verdict, adaptive batch | add, flush | two pumps share it; it lets bytes through on credit | what is unbilled, or passes after a cut-off, is bounded |
| WebSocket tunnels (`relay/vless.py`, `trojan.py`, `shadowsocks.py`) | handler stage, two pump tasks | admission, handshake, connect, relay, close | either side ends first; cancellation | a tunnel always gives its slot back |
| XHTTP engine (`relay/xhttp.py`) | session table by key; per session writer, pump, queue, reorder buffer | stream-up, packet-up, downlink, teardown, kill, reaper | several requests per session, teardown by key from five places, awaits in between | no session or upstream without an owner; packets in order |
| Core persistence (`StateStore`) | JSON file, debounce flags | load, save, schedule_save, flush | an edit during a save, a shutdown, a crash | an answered edit reaches the file |
| Quota service (Console `services/quota.py`, `routers/plans.py`) | customer rows, `_pending_disable`, one link per region and protocol | create, provision, edit, reconcile tick, delete | remote calls that fail one by one, administrator edits during a tick, restart | who is over the limit is off everywhere; who was re-enabled stays on |
| Device enforcement (`services/quota.py`) | presence, pushed lock per region | 2 s tick | stale views, linger, intruders between view and push | no more than the cap hold a slot for long |
| Deployments (`services/deployments.py`, `railway.py`, `workers.py`, `routers/instances.py`) | deployment and instance rows | pipelines, deploy, redeploy, stop, restart, delete | background pipelines against user actions, statements and calls that fail one by one, lost answers, Cores that die or come back, restart | rows and what runs agree in the end |
| Worker (`worker/main.py`, `driver.py`, `registry.py`) | handles, ports, registry file | launch, stop, restart, remove, forward, recovery | relaunch, orphan processes, ports | one process per instance, no port leaked |
| Gateway (`services/gateway.py`), direct edge (`worker/main.py`) | two tasks per tunnel | relay WebSockets and HTTP between client and Core | whichever side ends first, a link that breaks, refusals after the accept | a pipe each way; an end on one side is an end on the other |
| Accounts, admin, heartbeats, domains, rate limiter | database rows | request handlers | checks followed by writes | caps and uniqueness |
| Database layer, pages, frontend, launcher | schema, HTML | - | - | not modelled: input, output, layout |

Core calls nobody; the Console calls Cores through Workers; only the Console
writes the database. Inside a Core everything runs on one asyncio loop, so two
handlers interleave exactly at the awaits that can suspend. `LinkStore`'s and
`XHttpEngine`'s locks guard sections without awaits and never suspend anybody;
they do not appear in the models.

The hazards of this code, each at the line where it bites, are in
`PROJECT.json`, with the properties that would catch them or a note that says
why none does.

## 2. Modules

### LinkRelay: a Core's links, tunnels and quota gates

One Core with its management API (`Manage`) and any number of WebSocket tunnels
(`Tunnel`). The three protocols differ in when the link is known: VLESS has it
in the path, so the slot is taken before the first frame (`OpenVless`, then
`FirstFrame`); Trojan and Shadowsocks find it from the first frame
(`OpenByFirstFrame`). From there on they share `Connected`, the two pumps
(`Chunk`, `PumpEnds`), `CancelOtherPump` (`asyncio.wait(FIRST_COMPLETED)`) and
`Closed` (`ConnectionTracker.remove`).

- `pending`, `ok`: the gate. The batch size adapts to the traffic's rate and
  the clock, so whether `add` flushes is a choice, except at `QUOTA_MAX_BATCH`
  (`MustFlush`), where it always does.
- `unbilled`, `denied`: history variables. Bytes let through less bytes
  charged; bytes let through since the link was last allowed.
- `killers`, `kicked`, `open`: kill callbacks still held, those called, and
  sockets not closed yet. `kick` only schedules the close (`KillCloses`).
- A POST of a link may bring `allowed_ips` and `used_bytes` of its own, without a
  kick (`app.py:240-247`); the Console only ever sends an empty lock, and
  `CreateLink` takes neither.
- Headers, encryption, statistics and wording are left out. A chunk is its
  length, 1..`MaxChunk`.

### XHttpSession: the session table of an XHTTP engine

Session objects (`Sessions`) and keys (`Keys`) are kept apart: the code looks
up and tears down by key, while uploads and pumps hold on to the object. An
upload is identified with the upstream connection it may open; `writer[s]` is
the upload whose connection session `s` has, `held[u]` the writer a stream-up
loop keeps in a local variable. `Teardown` is the part of `teardown` up to its
first await, `CloseWriter` the part after the cancelled pump ended, `WaitClosed`
the rest. `doomed` and `stale` are the keys that scheduled kill callbacks (or
leaving clients) and the reaper are going to tear down. Quota refusals, size
caps and header errors are among the reasons of `UploadFails` and `PumpEnds`;
what they do to the session is the same. `locked` says whether the pushed
`allowed_ips` leaves the client of these sessions out.

Two simplifications: the pump of one session that tears down another session
under the same key counts as ended at once, though it awaits that teardown; and
the reaper may take its next key before the previous teardown is over.

### PacketUp: the order of packets

The uplink of one packet-up session. A POST is `<<seq, copy>>`; several copies
of a number are repeats. Each handler goes through `body` (awaiting the request
body), `connecting` and `draining`; everything else it does is one step.
`sent[c]` is what was written to the connection that POST `c` opened. A write
into a connection that breaks inside the loop is `WriteCut`. A request that had
its session object before a teardown goes on using it, as in the code.

### QuotaReconcile: one customer of the Console

The database row, the customer's links (one per region and protocol), the
reconcile loop and one request at a time. `tick` and `admin` are where the two
coroutines stand and what they hold in local variables: the loop keeps limit
and expiry from the start of its tick, a request keeps the `active` and
`used_bytes_cached` of the row it read. Every database statement and worker
call is a step.

- A tick: `StartTick`, `AddUp` per link, `StoreUsage`, `CutOff`, `PushOff` per
  link, `Settle`; then `BeginRetry` or `NothingToRetry`, `PushOff`, `SettleRetry`.
- A request: `Request`, one of `Extend`, `ChangeLimit`, `ResetUsage` and
  `SetActive`; `Restore`, `Forget`, and `SwitchLink` per link; or
  `ReprovisionLink` per link. Only the first looks at the row.
- While `unsettled`, requests come and anything may fail, or not: a call is not
  answered, with or without its effect (`Call`); a tick ends by a database error
  (`TickFails`); the Console restarts and loses `_pending_disable` (`Restart`).
  After `CalmDown` the loop is alone with the traffic, for the liveness.
- `cut` and `mixed` are history: a cut-off that nobody has interfered with, and
  a tick during which a request was served.

Abstracted: a request body has one field; requests do not overlap; the links of
one region are read one by one although one answer holds them all, which only
adds interleavings; a link's own expiry is left to the Core and to `Relay`
being no more than possible. Not modelled: creation and deletion, `max_devices`
(see DeviceEnforce), several customers (they share nothing but the tick).

### DeviceEnforce: the device cap across regions

One customer whose links in several regions share a cap. `conn[r]` is who is
connected to region `r`'s Core and for how long, `lock[r]` and `local[r]` the
`allowed_ips` and `max_devices` of its link. The tick of
`enforce_device_limits` is `BeginTick` (the row is read), `Read` per region,
`Decide` (`_update_presence`, confirmation, linger, the choice of holders),
`Push` and `Remember` per region that is due, `EndTick`; `presence` and `cache`
are the two module-level dictionaries. An administrator's edit, or
`reprovision_customer`, is `BeginEdit`, `EditRegion` per region and `EndEdit`
(`forget_device_lock`). Ages are counted in ticks and saturate just above the
threshold they are compared with; addresses of equal age come in either order.
`trouble` counts edits (whose calls may fail), unanswered calls and restarts of
the Console. A Core is reduced to what `LinkRelay` says of its lock: `Admits`
and `Kick`.

### Deployment: an instance, its deployments and what runs

`status` and `ref` are columns of the instance's row, `dep` its deployments in
the order they started, `pipe` where each deployment's pipeline stands and what
it holds in local variables, `req` the same for lifecycle requests. A stage of
a pipeline writes the deployment's row (`SetDeployment`), then the instance's
(`SetInstance`), then does its work: `Prepare`, `Build`, `Start`, `Probe`,
`Provision` and, for one protocol after the other, `PostLink` and `RecordLink`
at a Worker; `CreateService`, `StoreService`, `Configure`, `Trigger`, `Poll` at
Railway. `Report` is the log that ends a pipeline or begins its safety net. A
request is `Begin`, which looks at the status, `Read`, which reads what it works
with, and then `Queue`, or one of `CallStop`, `CallDelete`, `CallRailway`, and
`Mark`, which writes the status.

Every statement may fail without having its effect: in the work of a stage
(`WorkFails`), in a request (`ReadFails`), and as a second disjunct of each
action that writes. What raises in a pipeline leads to its safety net (`Fail`),
what raises in the safety net ends the task (`Break`). A call to a provider is
one step: it has its effect, or fails without it, or has it and the answer is
lost. A launch that fails may have stopped the Core that was there. `CoreDrifts`
is what Cores and Workers do by themselves: a Core dies, or a Worker that starts
launches what is in its registry, the instances that were stopped as well.
`Heartbeat` and `UpdateWorker` move the set of nodes `pick_worker` may choose
from.

Four history variables say what a property leaves out. `overlap`: a request
began while another or a pipeline was under way. `lost`: it is not known, or not
recorded, what a call did, because it failed after it had its effect, a delete
failed before it had it, the statement that should record the effect failed, or
the Console was restarted. `stuck`: a status was left to a task that does not
exist, because the safety net's own statements failed, the Console was
restarted, or a service was, whose "deploying" no pipeline ends. `drifted`: a
Core went down or came up by itself since the last probe or stop that said what
runs.

Reads that follow each other and are about unrelated rows are one step, and so
are the choice of a node and the statement that stores it. An instance keeps its
provider: with Railway configured, the next pipeline of a local instance goes
there (`deployments.py:129`), which is not modelled, and neither is a service
that goes down at Railway by itself.

### WorkerNode: a Worker, its Cores and their files

`handle` and `used` are the driver's handles and the port allocator, `registry`
the file that outlives the Worker, `job` the handlers that are waiting (and
`"boot"`, the relaunch loop, whose snapshot is `left`), `core` the processes or
containers, `disk` each instance's `state.json`, as the set of edits it holds.
Both drivers are in one module; `Alone` (the process driver) marks where they
differ. `Launch`, `Stop` (stop and restart) and `Remove` begin a request,
`Stopped`, `Spawned`, `Removed` go on after its awaits, `StopFails`,
`SpawnFails`, `RunTimesOut`, `RemoveFails` are what can go wrong there.
`WorkerDies` (alone, or with its pod), `WorkerStarts` and `RelaunchNext` are the
restart. `Load`, `Edit`, `Save`, `SaveFails`, `FlushState` and `Exit` are a
Core's `StateStore`: the debounced save with its second round, and the last
save of the lifespan.

`upset` is a history variable with what the code makes no provision for, so
that the properties hold of the rest: two handlers at work on one instance, a
Core that outlives its Worker, a kill with unsaved edits, a failed command, a
process removed while it runs (`remove` drops the handle and then `stop` does
not know it), a removal before the relaunch.

### RelayChain and Pipe: from the client to the Core

`RelayChain` is the Worker's direct route (`hops = 1`) or the gateway followed
by the Worker (`hops = 2`), for a WebSocket or for the streamed response to a
GET (an XHTTP downlink). A relay accepts, dials the next hop (`Dial`) or refuses
(`Refuse`), then runs two tasks (`Take`, `Send`, `Return`); the first to return
has the other cancelled with what it holds (`Cancel`, `FIRST_COMPLETED`), and
both sides are closed (`CloseClient`). `net` is what is under way on each link,
closes included. `LinkBreaks` loses a suffix of both directions.

`Pipe` is the abstract specification of one direction: frames come out in
order and once, and a pipe that ends as complete has delivered everything.
`RelayChain` instantiates it twice with a refinement mapping: `Down` (Core to
client) and `Up`; `TunnelIsPipes` is `Down!Spec /\ Up!Spec`. `DownEnd` and
`UpEnd` map the end of a tunnel; it counts as complete when the other direction
is drained and no connection broke, since a task that is cancelled drops the
frame it holds: the relays promise no more.

### MC modules and proofs

`MCLinkRelay` and `MCPacketUp` give constants values that a `.cfg` cannot
express. `MCDeployment` defines a `VIEW`, under which TLC takes states as one
when no property tells them, or any step that follows, apart: a history variable
that is set, and never reset, makes the properties that exclude it hold for good,
and with them what only they look at is dropped from the state (the one that is
reset, `drifted`, is dropped only beside such a variable); a local variable is
dropped once it is not used any more. With one deployment the run was made
without the view as well. The other runs instantiate their module directly.
`LinkRelayProofs`,
`PacketUpProofs`, `XHttpProofs`, `QuotaProofs`, `WorkerNodeProofs`,
`DeploymentProofs` and `RelayChainProofs` hold the theorems (section 5), and
`SetSums` the lemmas on sums over finite sets that two of them use.

## 3. Runs

| Run | Checks | Shows |
|---|---|---|
| `link_quota` | `TypeOK`, `UnbilledBelowBatch`, `CutoffBelowBatch` | two tunnels, four pumps and the API on one link: credit does not add up beyond one batch per tunnel |
| `link_devices` | `LockKicksOutsiders`, `KickedLeaves`, `DevicesGrowWithinCap` | cap and lock changes racing with opens: outsiders are told to close, go, and the cap is kept |
| `xhttp` | `TypeOK`, `SlotHasOwner`, `OpenUpstreamHasOwner`, `TornDownLeaves`, `LockFreesSlots`, `IdleReaped` | teardown by key never strands a session that holds a device slot; the ways an upstream is stranded are exactly those named in the property; teardowns end, locks empty the tracker, idle sessions go |
| `xhttp_kick` (violation) | `KickedStopsRelaying` | a connect that returns after the kick relays on, out of anybody's reach |
| `packet_order` | `TypeOK`, `EachStreamIsPrefix`, `NothingLost`, `CompleteStream`, `BufferCapped` | any order, repetition or loss of POSTs yields a prefix of the stream |
| `packet_overflow` (violation) | `OverflowOnlyWhenFull` | popped packets stay counted, so an empty buffer overflows |
| `quota` | `TypeOK`, `UnconfirmedIsRetried`, `CutOnlyInBreach`, `CutReachesEveryLink`, `BreachIsCut` | every edit against the tick, with failures at each call: a disable that did not arrive everywhere is kept for retry; a tick left alone cuts off nobody by mistake; once failures and requests end, breaches are cut off on every link |
| `quota_reenable` (violation) | `ReEnableSticks` | a re-enable during the disable is undone by the retry |
| `worker` | `PortsApart`, `EveryCoreIsTended`, `EditsSurvive`, `KnownIsRegistered`, `EditsAreSaved`, `RegisteredIsRelaunched` | two instances, overlapping requests, failed commands, crashes of Core, Worker and pod: no port is shared, no second Core runs on one data directory, answered edits survive, registered instances come back |
| `deployment` | `StatusSettles`, `StatusIsTrue`, `EveryCoreHasARow`, `OneDefaultLink`, `NoServiceIsLost` | two deployments of one instance with two links at either provider, against stops, deletes, failing statements and calls, moving nodes, Cores that die and come back, a restart: the last status is final and true, links are recorded in order and once, and whatever was started is still named by a row |
| `devices` | `HoldersStay`, `OverCapEnds`, `LockIsLifted` | the 2 s tick over two regions against clients, an edit, a lost call or a restart: holders keep their slots, the device too many goes, the lock does not outlive its holders |
| `chain` | `RefusalIsTold`, `TunnelIsPipes`, `LeavingReachesCore`, `EndReachesClient` | one and two relays, WebSocket and GET, either side ending, one link breaking: each direction implements `Pipe`, and an end or a refusal on one side is told on the other |

Deadlock checking is on for `deployment`, `devices`, `quota` and
`quota_reenable`: those systems never stop. It is off where everything is used
once or bounded, so that the model stops when all has been used: tunnels,
uploads and POSTs of the Core's models, the requests of `worker`, the tunnel of
`chain`.

### Bounds

- `link_quota`: one link, two tunnels, one address; batch 3, chunks of up to 2,
  usage up to 4, limits 0 and 3. A chunk can end below, at or above a batch and
  below, at or above the limit; two tunnels are what it takes for one to
  exhaust the link while the other holds credit. Two links would only be two
  copies: a tunnel touches no link but its own.
- `link_devices`: two addresses, cap 0 or 1, locks open or `{a}`; batch 1, so
  every chunk flushes and the gate is out of the way.
- `xhttp`: one key, two session objects, a stream-up and a packet-up request:
  enough for a torn-down session and its successor under the same key and for
  two requests that connect for the same session. With a second key the
  liveness properties no longer finish in reasonable time; sessions under
  different keys meet only in the cap per link and in the reaper's list, and
  the safety properties are proved for any number of keys.
- `packet_order`: packets 0 to 3, of which 0 and 2 are posted twice, a buffer
  of two packets and four bytes, packet 3 of two bytes: both caps bite.
  `packet_overflow`: four packets posted once, a cap of two bytes.
- `quota`: two links, limits 0 (unlimited) and 2, one unit of traffic per
  link: each link alone stays below the limit, both reach it, so a link that is
  counted as nothing or a reset of one of them matters; two links also are what
  it takes for one answer to come and the other not. `quota_reenable` has one
  limit and one kind of request.
- `worker`: two instances and two ports, so that ports can be confused and can
  run out; two requests at a time, three in all: two that overlap and one after
  them, or a launch, a redeploy and a removal; three Cores at a time, an orphan
  or a leftover container beside both instances; one edit; one fault, at any
  point. Two faults are not explored, and with one edit no edit meets a save
  that is under way; a second edit does not finish in reasonable time. The
  proof of `EditsSurvive` (`EditsKept`) is for any edits and any faults.
- `deployment`: two nodes and two deployments, which is what a move needs; two
  protocols, so that provisioning can fail between one link and the next; one
  request at a time, beside up to two pipelines; failures without limit. Requests
  that overlap each other, and any number of nodes, deployments and protocols,
  are left to the proofs: all five properties of the run are theorems too.
- `devices`: two regions, two addresses, caps 0 and 1: the second address is
  always the one too many. Confirmation and linger take one tick each; the
  clients open or close four connections and one thing goes wrong. `HoldersStay`
  is about ticks in which nothing has.
- `chain`: at most two relays, which is all there is; two frames each way, one
  in a task's hand and one behind it; one connection breaks, at any link and at
  any length of what was under way.

The bounds that are not constants of the code are named so where they are
declared: `MaxUsed` (no chunk arrives on a link that has used this much, in
LinkRelay and QuotaReconcile), `Sessions`, `MaxDeployments` (no request queues
another one), `MaxCores`,
`MaxRequests`, `MaxFaults`, `MaxMoves`, `MaxTrouble`, `MaxFrames`, `MaxLost`.

### Fairness

- `TunnelProgress`: the handshake waits at most `ws_handshake_timeout`, the
  connect at most `upstream_connect_timeout`; the event loop runs every ready
  task (the handler after `asyncio.wait`, a scheduled `ws.close`); the up pump's
  `receive` or `send` ends on a closed WebSocket, and a `drain` that is blocked
  on a dead upstream on `TCP_USER_TIMEOUT` (20 s), as does `wait_closed`. One
  weak fairness per tunnel is enough because progress moves it on at each stage.
  Nothing is assumed of clients, of traffic or of the management API.
- `FairSpec` of XHttpSession: cancelled pumps and scheduled teardowns run,
  connections finish closing, the reaper wakes up every `REAPER_INTERVAL` and
  gets to each key on its list. Uploads, pumps that were not cancelled, clients
  and the lock are not fair.
- `FairSpec` of QuotaReconcile: `reconcile_loop` runs a tick every
  `RECONCILE_INTERVAL` (20 s) and a worker call is answered or times out; nothing
  is assumed of requests. The two liveness properties are about behaviours in
  which failures and requests come to an end (`<>~unsettled`): while a region is
  down nothing can reach it.
- `FairSpec` of WorkerNode: each handler goes on after its await (a process ends
  or is killed after ten seconds, `docker` commands end or time out), the
  platform restarts the Worker, the relaunch loop goes on, and a Core loads,
  saves when its two seconds are over, and exits when told. One condition for all
  handlers and one for all Cores is enough, since each ends after a few steps.
  Requests, edits and faults are not fair.
- `FairSpec` of DeviceEnforce: `device_enforce_loop` runs its steps for ever,
  and a request that was begun is served. Clients are not fair; they stop
  because their moves are bounded, which is the case in which the Console
  should catch up.
- `FairSpec` of RelayChain: handlers and both tasks of each relay are scheduled,
  the Core and the client go on reading. A relay's task that watches its client
  is fair for a WebSocket, and for a GET only in the Worker, which polls while
  the response is silent (`_until_client_gone`); the gateway's relay of a GET
  has no poll, so whether it notices depends on the server.
- Deployment has no liveness property and no fairness: polls of a provider are
  limited by the code, and a restart of the Console ends pipelines for good.

## 4. Findings

1. *A kicked stream-up request can go on relaying* (`xhttp_kick`).
   `_open_tcp_for_session` installs writer and pump in the session object
   after its connect without looking at `closed`; a teardown in between, or
   before the first chunk, has already removed the session and found no writer
   to close. `ConnectionTracker.kick` promises to disconnect every such
   connection. In `OpenUpstreamHasOwner` these connections are `late`.
2. *Overflow of an empty buffer* (`packet_overflow`). `seq_buf_bytes` is never
   reduced when packets are popped, so 4 MiB of reordered packets in total, not
   at a time, end a session.
3. *A re-enable can be undone* (`quota_reenable`). `reconcile_once` adds the
   customer to `_pending_disable` after all calls of the disable; a request that
   enables the customer in between has already called `forget_pending_disable`.
   The retry does not look at the row and disables every link: the customer is
   active in the database and off in all regions, with no retry left.
4. *A redeploy keeps the links* (`worker`, `EditsSurvive`). `plans.py:299-303`
   gives as a reason for `add_missing_links` that a Core keeps its links in
   memory, so that "a redeploy, moving the instance to another worker" leaves
   the customer with no link there. The Worker does otherwise: a relaunch stops
   the old Core but keeps its data directory, "so links and state survive"
   (`main.py:145`), and the new Core loads `state.json` from it. The model
   follows the code, and `EditsSurvive` holds of a redeploy, a restart and a
   relaunch on one Worker; of the two cases in the comment only the move to
   another one loses links, which `EditsSurvive` says nothing about.

The models contain more that no property rules out, because no code tries to;
where a property would fail of it, its history variables name and exclude it.

- Quota: a Console restart, or a database error between the update of the row
  and the end of the push, forgets that a disable was not confirmed; the result
  of an administrator's push is dropped; a tick that began before a usage reset
  judges by the usage before it.
- Devices: an edit of `max_devices` to 0 whose patch fails in one region, or
  overtakes a push, leaves that region's lock for ever, since a tick no longer
  looks at a customer without a cap (`LockIsLifted` asks for one);
  `forget_device_lock`'s docstring says the next tick recomputes it. The
  addresses of a region that does not answer are taken for gone after the linger.
- Deployments: a Console restart, a restart of a Railway service, and a database
  error in the safety net of a pipeline (`deployments.py:135-137`), which writes
  to the database that has just failed, leave a status that nothing ends, after
  which deploy answers 409. The Railway pipeline fails as soon as Railway lists a
  deployment, since `deployments.py:201` uses `STATUS_MAP` without importing it.
  A failed launch is not undone on the Worker, though
  `src/docs/ARCHITECTURE.md:86` says it is cleaned up.
- Default links: one link of several counts as all of them, so a failure halfway
  leaves the others unmade for ever. A first link, or a Railway service, that was
  made but could not be recorded is made a second time by the next deploy.
- What a stop reaches: stop and delete look only at the node of the latest
  deployment. A redeploy to another node leaves the old Core running out of their
  reach, and makes no link on the new one; a deployment that failed before it had
  a node sends a stop to the default node and a delete to none, and until a new
  deployment has picked its node the gateway resolves to the default one.
  `EveryCoreHasARow` shows no more than that some row names the node.
- What runs: a stopped instance stays in its Worker's registry and comes back
  when the Worker starts; a Core that dies leaves the status "running", and so
  does a stop whose last statement fails (`deployments.py:381`).
- Worker: with Docker a redeploy, a restart and the relaunch fail on the name of
  the old container, which `docker stop` does not remove; a failed spawn of a
  process keeps its port; removing a running process instance leaves the process; a crash
  in the middle of `registry.json`'s write loses every entry, since the file is
  not replaced atomically.
- Gateway: it closes a WebSocket with a plain 1000 whatever the Core's code was
  (`RefusalIsTold` leaves it out), and may not notice a client that left an idle
  GET (`LeavingReachesCore` leaves it out).

Two POSTs of packet 0 that both find no writer both connect and the first
connection loses its owner; `NothingLost`, `CompleteStream` and
`OpenUpstreamHasOwner` name this case and exclude it. No document promises
otherwise.

## 5. Proofs

`LinkRelayProofs` proves, for any links, tunnels, addresses, limits, caps,
locks, batch and chunk sizes, under `BoundsAssumption` only:

- `TypeCorrect`: `Spec => []TypeOK`;
- `Billing`, `Cutoff`: `UnbilledBelowBatch` and `CutoffBelowBatch`. Neither is
  inductive: a flush resets `pending`, so what was let through must be tied to
  it. `GateInv` says that a gate that has not refused has let through exactly
  `pending` beyond what it charged, and that one that has refused holds
  nothing; `DenyInv` says that what passed since the link was last allowed is
  still pending, so the next flush, at a batch at the latest, sees it.
  `StageInv` confines pumps to the relaying stage. The lemma `GateStep` states
  what any gate operation does, whichever it is; `RewriteGates` that an edit of
  a link restarts the count of the tunnels it allows and no other;
- `DeviceLock`: `LockKicksOutsiders`, with `KillInv`: whoever has not been
  kicked can still be;
- `DeviceCap`: `DevicesGrowWithinCap`. Tunnels are not assumed to be finite in
  number; `FewTunnels` is the invariant that those registered are, so that the
  devices on a link can be counted. Every step is a `DeviceStep`: no device is
  added, or the one that `DeviceSlotAvailable` has just let in, with cap and
  lock as it found them;
- `Invariance`: `Spec => []IInv`, all of the above together.

`PacketUpProofs` proves, for any number of packets, POSTs and repeats, any
sizes and caps, under `PacketAssumption`: `TypeCorrect` and `Order`, that every
connection is sent a prefix of the stream. `WriterInv` strengthens it: a POST
that has not connected has sent nothing, and `next_seq` is the length of what
the writer in use was sent until that connection breaks (`WriteCut` leaves
`next_seq` behind after a failed first write). `Kept` and `Complete` prove
`NothingLost` and `CompleteStream` with a second invariant on top of the first,
`LossInv`: in a session that lives and was not reopened, what was accepted is
held back or below `next_seq`, and `next_seq` itself is never held back, which
is what the end of the popping loop establishes and `Turn` preserves.
`Capped` proves `BufferCapped` from `HeldInv`: what is held back is never more
than `buf_bytes` says. Storing a packet raises both by its size, popping one
lowers only what is held, which is also why the buffer overflows too early
(`packet_overflow`).

`XHttpProofs` proves, for any keys, session objects, uploads and cap, under
`SessionAssumption`: `TypeCorrect`, `SlotOwned` and `UpstreamOwned`. `TableInv`
makes `SlotHasOwner` inductive: a table entry refers back to its key through
`key`, so that a teardown by key pops no other session's entry. `UploadInv`
says that an upload that was sent holds a session that is not new; without it a
connect could install its writer in an object that is created only later. The
lemmas `TeardownKeeps` and `GetKeeps` say once what the two shared operations
do, `StageStep` and `SmallStep` what any step may do to sessions without
stranding an upstream.

`QuotaProofs` proves, for any number of links, limits and edits, under
`QuotaAssumption`: `TypeCorrect`, which takes the bound `SumBound` on the usage
a tick has added up so far, and `Retried` (`UnconfirmedIsRetried`). `CutHolds`
strengthens it: while a cut is undisturbed no request is switching links on,
and if every call of the push so far was confirmed, the links it passed are off.
`OnlyInBreach` proves `CutOnlyInBreach` with `FigureInv` on top: in a tick that
no request interferes with, the limit it compares with is the row's, and the sum
so far is at most the true usage of the links it passed. A region may not
answer, and traffic goes on while the tick waits, but both only make the figure
too small.

`WorkerNodeProofs` proves, for any instances, ports, Cores and requests at a
time, either driver and any number of faults, under `WorkerAssumption`:
`PortsStayApart`, `Registry`, `Tended` and `EditsKept`. `PortsApart` is nearly
inductive; it needs that jobs do not outlive the Worker, whose restart empties
the set of used ports. `KnownIsRegistered` needs `RegisteredAt`: for an instance
that nothing upset at most one job is at work on it, so no removal can
unregister what a launch registers. `CoreInv` carries the other two. Its part
`TendedAt` says that what runs for an instance is the Core of its handle or one
a removal is about to take away, that the Core being stopped is the handle's,
and that nothing runs for an instance while one is being spawned: hence no
second Core on one data directory (`EveryCoreIsTended`). `SavedAt` says that a
Core which has no save scheduled has nothing to save, and that without a Core
whatever was answered is on the disk: hence `EditsSurvive`.

`DeploymentProofs` proves, for any nodes, providers, protocols and deployments,
and requests that overlap in any way, under `DeploymentAssumption`, with any
statement or call failing: `Settles` (`StatusSettles`), `NoCoreForgotten`
(`EveryCoreHasARow`), `StatusTold` (`StatusIsTrue`), `LinkMadeOnce`
(`OneDefaultLink`) and `ServicesAreKnown` (`NoServiceIsLost`). Two inductive
invariants carry them. `IInv` (theorem `Invariance`) is about any behaviour:
`PipelineInv` says that a node is noted once, before the launch, and that a final
stage is in the deployment's row before it is in the instance's; `InOrder` that
deployments are inserted one after the other; `StatusInv` that as long as the
instance is "deploying", and nothing got stuck, the first final write of some
pipeline is still to come (`WillWrite`). The second, repeated write of the same
status does not count, since the safety net that repeats it may lose it. The
lemmas state of each kind of step where it leads a pipeline from and to (`From`,
`To`, `Led`), so that the rest of the proof splits on places and not on actions.

`SoloInv` (theorem `SoloInvariance`) is about an instance on which tasks never
overlapped, and says what each task leaves behind for the next. Without overlap
there is one task at a time, what a request has read is still so, what a pipeline
wrote last is still there (`OneTask`), and the links recorded are the first ones
(`LinksInOrder`). If besides no outcome is lost, a link was made once, then
recorded (`LinksMade`), and a service that exists is referred to by the row or by
the pipeline that is about to store its reference (`ServiceTrue`). If nothing got
stuck or drifted either, the Core is up from the probe on and down after a stop
(`CoreTrue`).

`RelayChainProofs` proves, for any number of relays, frames and broken
connections, under `ChainAssumption`: `RefusalTold` (`RefusalIsTold`) and
`ChainIsPipes` (`TunnelIsPipes`), that each direction of a chain implements
`Pipe`: its initial states are a pipe's, every step maps to a step of the pipe
or changes nothing of it. Two invariants carry them; they stand at the start of
the module. `ChainInv` says that a chain is built from the client on and, while
no connection broke (`Intact`), taken down from one of its ends: a close in
flight comes from a relay that has ended, a task that has ended was told so from
upstream, or the client left, and a refusal is handed on by whoever closes.
`FlowInv` ties the frames on consecutive links together. It takes one number per
link, how many frames were taken off it so far: a link carries the next ones in
order (`LinksFlow`), a relay that has not been cancelled has sent, or holds, all
that it took (`RelayFlow`), both ends agree (`EndsFlow`), and as long as the end
is `Orderly` a close comes after the last frame of all (`Whole`).

`SetSums` proves what the sums of PacketUp and QuotaReconcile need: what
`MapThenSumSet` yields for the empty set, when an element is added or removed,
and that the sum grows with the set and with the function. The library's
theorem on induction over finite sets takes an operator and cannot be used; here
the subsets for which a statement holds are a set, and a smallest
counterexample, of which there is one because strict inclusion is well founded on
the subsets of a finite set, is refuted (`GoodSets`). In the same way the
function that defines the fold is shown to exist (`TableExists`).

Each inductive invariant was checked with TLC, at the bounds of the module's
run, before it was proved. It is the last section of the module it belongs to,
but for RelayChain's, which need operators of their own and stand at the start
of `RelayChainProofs`; those of Deployment were checked with one deployment. `OneTask`
failed at first: the model did not count a deploy that begins during another
request as an overlap of tasks.

Every safety property of a passing run is a theorem, for every value of the
constants, except one. Model-checked only:

- `HoldersStay`, the action property of DeviceEnforce. The tick picks the
  holders with `SelectSeq`, which the prover takes as a primitive without a
  definition, so nothing about the order that it keeps can be concluded;
- all liveness: `KickedLeaves`, `TornDownLeaves`, `LockFreesSlots`, `IdleReaped`,
  `CutReachesEveryLink`, `BreachIsCut`, `EditsAreSaved`, `RegisteredIsRelaunched`,
  `OverCapEnds`, `LockIsLifted`, `LeavingReachesCore` and `EndReachesClient`.
  Fairness and ENABLED are out of the prover's reach.

No module uses a RECURSIVE operator.

## 6. Not modelled, and what could come next

Not modelled, with the reason (see also `PROJECT.json`):

- accounts, sessions, custom domains, plan and customer creation and deletion:
  single statements on rows; `create_domain` fails for a missing import, the cap
  of 25 instances and unique names are checked before the insert and not with it;
- token formats, header rewriting, the status and subscription pages, the
  database layer, the frontend: data, wording and layout;
- HTTP uploads through the relays, which they only pass on, and back-pressure;
- the rate limiter, which has no caller; the launcher and deployment files.

Next candidates, in order: `HoldersStay` as a theorem, with the order of
presence stated without `SelectSeq`; an abstract customer that is on or off,
which QuotaReconcile implements; two faults in `worker`; the hazards that no
property covers yet (section 1).
