------------------------------ MODULE LinkRelay ------------------------------
(***************************************************************************)
(* One Voidz Core process: its link store, its connection tracker, the     *)
(* management API that edits links, and the WebSocket tunnels (VLESS,      *)
(* Trojan, Shadowsocks) that relay traffic through a shared quota gate.    *)
(*                                                                         *)
(* The process is a single asyncio thread, so an action is the code between*)
(* two awaits that can really suspend.  LinkStore's lock never suspends    *)
(* anybody: no critical section of it contains an await.                   *)
(***************************************************************************)
EXTENDS Integers, FiniteSets

CONSTANTS
  Links,       \* link uuids
  Tunnels,     \* WebSocket connections; each is opened at most once
  Ips,         \* client addresses
  Limits,      \* the values limit_bytes is given (0: unlimited)
  Caps,        \* the values max_devices is given (0: unlimited)
  Locks,       \* the address lists the Console pushes as allowed_ips
  MaxBatch,    \* QUOTA_MAX_BATCH: a gate holding this much always flushes
  MaxChunk,    \* the largest chunk one receive() or read() returns
  MaxUsed      \* bound of the model: a link that used this much gets no traffic

ASSUME BoundsAssumption ==
  /\ MaxBatch \in Nat \ {0}
  /\ MaxChunk \in Nat \ {0}
  /\ MaxUsed \in Nat
  /\ Limits \subseteq Nat
  /\ Caps \subseteq Nat
  /\ Locks \subseteq SUBSET Ips
  /\ Links # {} /\ Ips # {}

VARIABLES
  stored,      \* LinkStore._links: the uuids it holds
  link,        \* the policy of each link (meaningful for stored ones)
  pc,          \* where each tunnel's handler stands
  on,          \* the link a tunnel was admitted to
  ip,          \* the client address of a tunnel
  pumps,       \* the relay directions still running in a tunnel
  open,        \* tunnels whose WebSocket is still open
  killers,     \* ConnectionTracker._kill
  kicked,      \* tunnels whose kill callback has been called
  pending,     \* QuotaGate.pending
  ok,          \* QuotaGate.ok
  unbilled,    \* history: bytes the gate let through less those it charged
  denied       \* history: bytes let through since the link was last allowed

gateVars == <<pending, ok, unbilled, denied>>
trackVars == <<on, ip, killers, kicked>>
vars == <<stored, link, pc, on, ip, pumps, open, killers, kicked,
          pending, ok, unbilled, denied>>

Directions == {"up", "down"}
Stages == {"idle", "handshake", "connecting", "relaying", "closing", "done"}

Policy == [active : BOOLEAN, limit : Limits \cup {0}, used : Nat, cap : Caps \cup {0},
           allowed : SUBSET Ips, expired : BOOLEAN]

\* What Link.__init__ gives a link when the request body names nothing.
DefaultPolicy == [active |-> TRUE, limit |-> 0, used |-> 0, cap |-> 0,
                  allowed |-> {}, expired |-> FALSE]

\* A link is in the store, active, not expired and under its limit.
IsAllowed(l) ==
  /\ l \in stored
  /\ link[l].active
  /\ ~link[l].expired
  /\ link[l].limit > 0 => link[l].used < link[l].limit

\* Tunnels the tracker holds: register() ... remove().
Registered == {t \in Tunnels : pc[t] \in {"handshake", "connecting", "relaying", "closing"}}
On(l) == {t \in Registered : on[t] = l}
ActiveIps(l) == {ip[t] : t \in On(l)}

\* The link and address of a tunnel that is not connected mean nothing.
AnyLink == CHOOSE l \in Links : TRUE
AnyIp == CHOOSE i \in Ips : TRUE

\* Mutants: the lock is consulted only when a cap is set; the last slot is
\* given out twice.
LockNeedsCap(l, i) ==
  \/ link[l].cap = 0
  \/ i \in link[l].allowed
  \/ /\ link[l].allowed = {}
     /\ i \in ActiveIps(l) \/ Cardinality(ActiveIps(l)) < link[l].cap
OneSlotTooMany(l, i) ==
  IF link[l].allowed # {} THEN i \in link[l].allowed
  ELSE \/ link[l].cap = 0
       \/ i \in ActiveIps(l)
       \/ Cardinality(ActiveIps(l)) <= link[l].cap

DeviceSlotAvailable(l, i) ==
  IF link[l].allowed # {} THEN i \in link[l].allowed
  ELSE \/ link[l].cap = 0
       \/ i \in ActiveIps(l)
       \/ Cardinality(ActiveIps(l)) < link[l].cap

Init ==
  /\ stored = {}
  /\ link = [l \in Links |-> DefaultPolicy]
  /\ pc = [t \in Tunnels |-> "idle"]
  /\ on = [t \in Tunnels |-> AnyLink]
  /\ ip = [t \in Tunnels |-> AnyIp]
  /\ pumps = [t \in Tunnels |-> {}]
  /\ open = Tunnels
  /\ killers = {} /\ kicked = {}
  /\ pending = [t \in Tunnels |-> 0]
  /\ ok = [t \in Tunnels |-> TRUE]
  /\ unbilled = [t \in Tunnels |-> 0]
  /\ denied = [t \in Tunnels |-> 0]

-----------------------------------------------------------------------------
(* The management API: POST, PATCH and DELETE /core/api/links.             *)

\* The history counter restarts for tunnels of a link that is allowed (again).
Readmit(l) ==
  denied' = [t \in Tunnels |-> IF on[t] = l /\ IsAllowed(l)' THEN 0 ELSE denied[t]]

Rewrite(l, policy) ==
  /\ link' = [link EXCEPT ![l] = policy]
  /\ Readmit(l)
  /\ UNCHANGED <<pc, on, ip, pumps, open, pending, ok, unbilled>>

\* ConnectionTracker.kick: calls, and forgets, the kill callbacks of the
\* connections of l from outside `keep`.
Kick(l, keep) ==
  LET out == {t \in On(l) \cap killers : ip[t] \notin keep}
  IN  /\ killers' = killers \ out
      /\ kicked' = kicked \cup out

\* POST replaces the whole Link object: usage and device lock start afresh.  (The
\* body may give both; the Console only ever gives a lock, which is empty.)
CreateLink(l, active, limit, cap, expired) ==
  /\ stored' = stored \cup {l}
  /\ Rewrite(l, [DefaultPolicy EXCEPT !.active = active, !.limit = limit, !.cap = cap,
                                       !.expired = expired])
  /\ UNCHANGED <<killers, kicked>>

PatchActive(l, active) ==
  /\ l \in stored
  /\ UNCHANGED <<stored, killers, kicked>>
  /\ Rewrite(l, [link[l] EXCEPT !.active = active])

PatchAllowedIps(l, allowed) ==
  /\ l \in stored
  /\ UNCHANGED stored
  /\ Rewrite(l, [link[l] EXCEPT !.allowed = allowed])
  /\ IF allowed # {} THEN Kick(l, allowed) ELSE UNCHANGED <<killers, kicked>>

\* update_customer changes the cap and lifts the lock in one body.
PatchCap(l, cap) ==
  /\ l \in stored
  /\ UNCHANGED <<stored, killers, kicked>>
  /\ Rewrite(l, [link[l] EXCEPT !.cap = cap, !.allowed = {}])

PatchTerms(l, limit, expired, reset) ==
  /\ l \in stored
  /\ UNCHANGED <<stored, killers, kicked>>
  /\ Rewrite(l, [link[l] EXCEPT !.limit = limit, !.expired = expired,
                                !.used = IF reset THEN 0 ELSE @])

\* DELETE drops the link; its tunnels are not touched.
DeleteLink(l) ==
  /\ l \in stored
  /\ stored' = stored \ {l}
  /\ link' = [link EXCEPT ![l] = DefaultPolicy]
  /\ UNCHANGED <<pc, on, ip, pumps, open, killers, kicked, gateVars>>

\* The clock passes expires_at (a link without one never takes this step).
Expire(l) ==
  /\ l \in stored
  /\ link' = [link EXCEPT ![l].expired = TRUE]
  /\ UNCHANGED <<stored, pc, on, ip, pumps, open, killers, kicked, gateVars>>

Manage ==
  \E l \in Links :
    \/ \E active \in BOOLEAN, limit \in Limits, cap \in Caps, expired \in BOOLEAN :
         CreateLink(l, active, limit, cap, expired)
    \/ \E active \in BOOLEAN : PatchActive(l, active)
    \/ \E allowed \in Locks : PatchAllowedIps(l, allowed)
    \/ \E cap \in Caps : PatchCap(l, cap)
    \/ \E limit \in Limits, expired \in BOOLEAN, reset \in BOOLEAN :
         PatchTerms(l, limit, expired, reset)
    \/ DeleteLink(l)
    \/ Expire(l)

-----------------------------------------------------------------------------
(* The quota gate of a tunnel, shared by its two pumps.                    *)

\* Mutants: the size test is dropped; it looks at the bytes before this chunk.
FlushOnTimerOnly(t, n) == FALSE
FlushBeforeAdding(t, n) == pending[t] >= MaxBatch

\* QuotaGate.add flushes once the batch is full, or when 0.25 s have passed.
\* batch_bytes adapts between two bounds, so only at MaxBatch is it certain.
MustFlush(t, n) == pending[t] + n >= MaxBatch

\* LinkStore.use accepts a charge of n bytes.
Use(t, n) == link' = [link EXCEPT ![on[t]].used = @ + n]

\* The bound on traffic: no chunk arrives on a link that has used this much.
Arrives(l, n) == link[l].used + n <= MaxUsed

\* n bytes go through, of which and of the earlier ones `charge` are billed.
Pass(t, n, charge) ==
  /\ unbilled' = [unbilled EXCEPT ![t] = @ + n - charge]
  /\ denied' = [denied EXCEPT ![t] = IF IsAllowed(on[t]) THEN 0 ELSE @ + n]

\* add() keeps the bytes pending and lets the chunk through unchecked.
Hold(t, n) ==
  /\ ok[t] /\ ~MustFlush(t, n)
  /\ pending' = [pending EXCEPT ![t] = @ + n]
  /\ Pass(t, n, 0)
  /\ UNCHANGED <<link, ok>>

\* add() flushes and the link is charged.
Charge(t, n) ==
  /\ ok[t] /\ IsAllowed(on[t])
  /\ Use(t, pending[t] + n)
  /\ pending' = [pending EXCEPT ![t] = 0]
  /\ Pass(t, n, pending[t] + n)
  /\ UNCHANGED ok

\* Mutant: a refused flush does not shut the gate for the other pump.
RefuseOnePumpOnly(t) ==
  /\ ~ok[t] \/ ~IsAllowed(on[t])
  /\ pending' = [pending EXCEPT ![t] = 0]
  /\ UNCHANGED <<link, ok, unbilled, denied>>

\* add() flushes and LinkStore.use refuses: what was pending is never billed.
Refuse(t) ==
  /\ ~ok[t] \/ ~IsAllowed(on[t])
  /\ pending' = [pending EXCEPT ![t] = 0]
  /\ ok' = [ok EXCEPT ![t] = FALSE]
  /\ UNCHANGED <<link, unbilled, denied>>

\* QuotaGate.flush, in the finally clause of both pumps.
Flush(t) ==
  /\ pending' = [pending EXCEPT ![t] = 0]
  /\ UNCHANGED denied
  /\ \/ /\ pending[t] = 0
        /\ UNCHANGED <<link, ok, unbilled>>
     \/ /\ pending[t] > 0 /\ ok[t] /\ IsAllowed(on[t])
        /\ Use(t, pending[t])
        /\ unbilled' = [unbilled EXCEPT ![t] = @ - pending[t]]
        /\ UNCHANGED ok
     \/ /\ pending[t] > 0 /\ (~ok[t] \/ ~IsAllowed(on[t]))
        /\ ok' = [ok EXCEPT ![t] = FALSE]
        /\ UNCHANGED <<link, unbilled>>

Admit(t, n) == Arrives(on[t], n) /\ (Hold(t, n) \/ Charge(t, n))

-----------------------------------------------------------------------------
(* The tunnel handlers.                                                    *)

\* The slot check and register() run with no await between them.
Register(t, l, i) ==
  /\ pc[t] = "idle"
  /\ IsAllowed(l)
  /\ DeviceSlotAvailable(l, i)
  /\ on' = [on EXCEPT ![t] = l]
  /\ ip' = [ip EXCEPT ![t] = i]
  /\ killers' = killers \cup {t}
  /\ UNCHANGED kicked

\* vless_ws_tunnel: the path names the link, the first frame comes later.
OpenVless(t, l, i) ==
  /\ Register(t, l, i)
  /\ pc' = [pc EXCEPT ![t] = "handshake"]
  /\ UNCHANGED <<stored, link, pumps, open, gateVars>>

\* trojan_ws_tunnel, shadowsocks_ws_tunnel: the first frame identifies the
\* link, so admission and the first gate.add are one step.  The gate is new and
\* the link was just found allowed: the add passes.
OpenByFirstFrame(t, l, i, n) ==
  /\ Register(t, l, i)
  /\ Arrives(l, n)
  /\ pc' = [pc EXCEPT ![t] = "connecting"]
  /\ \/ /\ n < MaxBatch
        /\ pending' = [pending EXCEPT ![t] = n]
        /\ unbilled' = [unbilled EXCEPT ![t] = n]
        /\ UNCHANGED link
     \/ /\ link' = [link EXCEPT ![l].used = @ + n]
        /\ UNCHANGED <<pending, unbilled>>
  /\ UNCHANGED <<stored, pumps, open, ok, denied>>

\* The handler returns: ConnectionTracker.remove, and the gate is garbage.
Leave(t) ==
  /\ pc' = [pc EXCEPT ![t] = "done"]
  /\ on' = [on EXCEPT ![t] = AnyLink]
  /\ ip' = [ip EXCEPT ![t] = AnyIp]
  /\ killers' = killers \ {t}
  /\ pending' = [pending EXCEPT ![t] = 0]
  /\ open' = open \ {t}
  /\ UNCHANGED <<stored, kicked>>

FirstFrame(t, n) ==
  /\ pc[t] = "handshake" /\ t \in open
  /\ \/ /\ Admit(t, n)
        /\ pc' = [pc EXCEPT ![t] = "connecting"]
        /\ UNCHANGED <<stored, pumps, open, trackVars>>
     \/ /\ Refuse(t)
        /\ Leave(t)
        /\ UNCHANGED pumps

\* Handshake timeout, disconnect, empty frame, wrong credential, bad header.
HandshakeFails(t) ==
  /\ pc[t] = "handshake"
  /\ Leave(t)
  /\ UNCHANGED <<link, pumps, ok, unbilled, denied>>

\* open_connection fails or times out.  The gate is not flushed on this path.
ConnectFails(t) ==
  /\ pc[t] = "connecting"
  /\ Leave(t)
  /\ UNCHANGED <<link, pumps, ok, unbilled, denied>>

Connected(t) ==
  /\ pc[t] = "connecting"
  /\ pc' = [pc EXCEPT ![t] = "relaying"]
  /\ pumps' = [pumps EXCEPT ![t] = Directions]
  /\ UNCHANGED <<stored, link, open, trackVars, gateVars>>

StopPump(t, d) ==
  /\ pumps' = [pumps EXCEPT ![t] = @ \ {d}]
  /\ UNCHANGED <<stored, pc, trackVars>>

\* One chunk through pump_ws_to_tcp ("up") or pump_tcp_to_ws ("down").
Chunk(t, d, n) ==
  /\ d \in pumps[t]
  /\ d = "up" => t \in open
  /\ \/ /\ Admit(t, n)
        /\ UNCHANGED <<stored, pc, pumps, open, trackVars>>
     \/ /\ Refuse(t)
        /\ StopPump(t, d)
        /\ open' = open \ {t}

\* A pump ends on EOF, a reset or a closed WebSocket, and flushes the gate.
PumpEnds(t, d) ==
  /\ d \in pumps[t]
  /\ Flush(t)
  /\ StopPump(t, d)
  /\ UNCHANGED open

\* Mutant: the handler waits for both pumps.
AwaitBothPumps(t) ==
  /\ pc[t] = "relaying" /\ pumps[t] = {}
  /\ pc' = [pc EXCEPT ![t] = "closing"]
  /\ UNCHANGED <<stored, link, pumps, open, trackVars, gateVars>>

\* asyncio.wait(FIRST_COMPLETED): the pump that is left is cancelled, its
\* finally clause flushes, and the handler starts closing the upstream.
CancelOtherPump(t) ==
  /\ pc[t] = "relaying" /\ pumps[t] # Directions
  /\ IF pumps[t] = {} THEN UNCHANGED <<link, gateVars>> ELSE Flush(t)
  /\ pumps' = [pumps EXCEPT ![t] = {}]
  /\ pc' = [pc EXCEPT ![t] = "closing"]
  /\ UNCHANGED <<stored, open, trackVars>>

\* writer.wait_closed() returned: connections.remove().
Closed(t) ==
  /\ pc[t] = "closing"
  /\ Leave(t)
  /\ UNCHANGED <<link, pumps, ok, unbilled, denied>>

\* The client goes away, or the task kill() scheduled runs ws.close().
ClientGone(t) ==
  /\ t \in open /\ t \in Registered
  /\ open' = open \ {t}
  /\ UNCHANGED <<stored, link, pc, pumps, trackVars, gateVars>>

KillCloses(t) ==
  /\ t \in kicked /\ t \in open
  /\ open' = open \ {t}
  /\ UNCHANGED <<stored, link, pc, pumps, trackVars, gateVars>>

Tunnel(t) ==
  \/ \E l \in Links, i \in Ips : OpenVless(t, l, i)
  \/ \E l \in Links, i \in Ips, n \in 1..MaxChunk : OpenByFirstFrame(t, l, i, n)
  \/ \E n \in 1..MaxChunk : FirstFrame(t, n)
  \/ HandshakeFails(t)
  \/ Connected(t)
  \/ ConnectFails(t)
  \/ \E d \in Directions, n \in 1..MaxChunk : Chunk(t, d, n)
  \/ \E d \in Directions : PumpEnds(t, d)
  \/ CancelOtherPump(t)
  \/ Closed(t)
  \/ ClientGone(t)
  \/ KillCloses(t)

Next == Manage \/ \E t \in Tunnels : Tunnel(t)

\* The event loop runs every ready task; a handshake and a connect time out,
\* the up pump sees a closed WebSocket, a closing upstream closes.
TunnelProgress(t) ==
  \/ HandshakeFails(t)
  \/ Connected(t) \/ ConnectFails(t)
  \/ PumpEnds(t, "up") /\ t \notin open
  \/ CancelOtherPump(t)
  \/ Closed(t)
  \/ KillCloses(t)

Spec == Init /\ [][Next]_vars
FairSpec == Spec /\ \A t \in Tunnels : WF_vars(TunnelProgress(t))

-----------------------------------------------------------------------------
(* Properties.                                                             *)

TypeOK ==
  /\ stored \subseteq Links
  /\ link \in [Links -> Policy]
  /\ pc \in [Tunnels -> Stages]
  /\ on \in [Tunnels -> Links]
  /\ ip \in [Tunnels -> Ips]
  /\ pumps \in [Tunnels -> SUBSET Directions]
  /\ open \subseteq Tunnels
  /\ killers \subseteq Tunnels
  /\ kicked \subseteq Tunnels
  /\ pending \in [Tunnels -> 0..(MaxBatch - 1)]
  /\ ok \in [Tunnels -> BOOLEAN]
  /\ unbilled \in [Tunnels -> Int]
  /\ denied \in [Tunnels -> Nat]

\* However a tunnel ends, and whatever is done to its link meanwhile, the bytes
\* it relayed without billing them stay below one batch: batching and the bytes
\* a refused flush drops cannot add up.
UnbilledBelowBatch == \A t \in Tunnels : unbilled[t] < MaxBatch

\* Once its link is disabled, expired, exhausted or deleted, an open tunnel
\* relays less than one more batch, for as long as the link stays that way.
CutoffBelowBatch == \A t \in Tunnels : denied[t] < MaxBatch

\* While a link is locked to some addresses, every connection it still has from
\* another address has been told to close, whenever it was opened.
LockKicksOutsiders ==
  \A t \in Registered :
    (on[t] \in stored /\ link[on[t]].allowed # {} /\ ip[t] \notin link[on[t]].allowed)
      => t \in kicked

\* A link's devices only grow in number up to its cap, or under a lock that
\* names the newcomer, however opens, closes and cap changes interleave.
DevicesGrowWithinCap ==
  [][\A l \in Links :
       Cardinality(ActiveIps(l)') > Cardinality(ActiveIps(l)) =>
         \/ link'[l].cap = 0
         \/ Cardinality(ActiveIps(l)') <= link'[l].cap
         \/ ActiveIps(l)' \ ActiveIps(l) \subseteq link'[l].allowed]_vars

\* A kicked connection gives up its device slot.
KickedLeaves == \A t \in Tunnels : t \in kicked ~> t \notin Registered

-----------------------------------------------------------------------------
(* The inductive invariant behind the safety properties.                   *)

\* Pumps only run in the relaying stage.
StageInv == \A t \in Tunnels : pc[t] # "relaying" => pumps[t] = {}

\* A gate that has not refused yet has let through exactly what is pending
\* beyond what it charged; one that has refused holds nothing.
GateInv ==
  \A t \in Tunnels :
    /\ unbilled[t] < MaxBatch
    /\ ok[t] /\ pc[t] # "done" => unbilled[t] = pending[t]
    /\ ~ok[t] => pending[t] = 0
    /\ pc[t] = "idle" => ok[t] /\ pending[t] = 0 /\ denied[t] = 0

\* Every byte let through since the link was last allowed is still pending,
\* until the refusal that shuts the gate.
DenyInv ==
  \A t \in Tunnels :
    /\ denied[t] < MaxBatch
    /\ ok[t] /\ pc[t] # "done" => denied[t] <= pending[t]
    /\ pc[t] # "done" /\ IsAllowed(on[t]) => denied[t] = 0

\* The tracker can still kill every connection it has not killed yet.
KillInv == \A t \in Registered : t \in killers \cup kicked

IInv == TypeOK /\ StageInv /\ GateInv /\ DenyInv /\ KillInv /\ LockKicksOutsiders

=============================================================================
