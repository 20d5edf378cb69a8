---------------------------- MODULE XHttpSession ----------------------------
(***************************************************************************)
(* The session table of one XHttpEngine: the sessions a client opens under *)
(* one link, the uploads that feed them, the downlink pumps, and all that  *)
(* tears a session down: uploads, pumps, a client that leaves,             *)
(* ConnectionTracker.kick and the idle reaper.                             *)
(*                                                                         *)
(* A session is looked up and torn down by its key, yet uploads and pumps  *)
(* keep the session object across awaits: keys and objects are kept apart  *)
(* here.  The engine's lock never suspends anybody (no critical section of *)
(* it awaits).  The order of packets is in module PacketUp.                *)
(***************************************************************************)
EXTENDS Integers, FiniteSets

CONSTANTS
  Keys,         \* the (uuid, session_id) pairs of one link
  Sessions,     \* session objects: the bound on how many are ever created
  Streams,      \* stream-up POST requests
  Packets,      \* packet-up POST requests
  MaxSessions,  \* MAX_SESSIONS_PER_LINK
  None

Uploads == Streams \cup Packets

ASSUME SessionAssumption ==
  /\ Keys # {} /\ Sessions # {}
  /\ Streams \cap Packets = {}
  /\ None \notin Sessions \cup Uploads
  /\ MaxSessions \in Nat

VARIABLES
  table,     \* XHttpEngine.sessions: the session object under each key
  key,       \* the key a session object was created under
  stage,     \* the life of a session object
  writer,    \* sess["writer"], as the upload that opened the connection
  task,      \* the downlink task a teardown cancelled and awaits
  idle,      \* sessions not seen for longer than their idle limit
  clients,   \* sessions with a downlink GET waiting for data
  pc,        \* where each upload stands
  on,        \* the session object an upload holds
  held,      \* the writer a stream-up loop holds in its local variable
  conn,      \* the upstream connection each upload opened
  pump,      \* the downlink task of that connection
  locked,    \* allowed_ips leaves this client out
  killers,   \* sessions whose kill callback the tracker still has
  doomed,    \* keys that a scheduled task is going to tear down
  stale,     \* keys on the reaper's list
  kicked,    \* history: sessions whose kill callback was called
  late       \* history: uploads that connected after their session's writer was closed

sessionVars == <<table, key, stage, writer, task, idle>>
uploadVars == <<pc, on, held>>
lockVars == <<locked, killers, kicked>>
vars == <<table, key, stage, writer, task, idle, clients, pc, on, held, conn,
          pump, locked, killers, doomed, stale, kicked, late>>

AnyKey == CHOOSE k \in Keys : TRUE
AnySession == CHOOSE s \in Sessions : TRUE

\* register() ... remove(): the session holds a device slot.
Registered == {s \in Sessions : stage[s] \in {"live", "awaiting", "closing"}}

Init ==
  /\ table = [k \in Keys |-> None]
  /\ key = [s \in Sessions |-> AnyKey]
  /\ stage = [s \in Sessions |-> "new"]
  /\ writer = [s \in Sessions |-> None]
  /\ task = [s \in Sessions |-> None]
  /\ idle = {} /\ clients = {}
  /\ pc = [u \in Uploads |-> "unsent"]
  /\ on = [u \in Uploads |-> AnySession]
  /\ held = [u \in Uploads |-> None]
  /\ conn = [u \in Uploads |-> "none"]
  /\ pump = [u \in Uploads |-> "none"]
  /\ locked = FALSE /\ killers = {} /\ kicked = {}
  /\ doomed = {} /\ stale = {}
  /\ late = {}

-----------------------------------------------------------------------------
(* get_or_create_session.                                                  *)

Admit(k, s) ==
  /\ stage[s] = "new"
  /\ table' = [table EXCEPT ![k] = s]
  /\ key' = [key EXCEPT ![s] = k]
  /\ stage' = [stage EXCEPT ![s] = "live"]
  /\ killers' = killers \cup {s}
  /\ UNCHANGED <<idle, writer, task, locked, kicked>>

\* Mutant: the key is given a new session object whatever it held.
AlwaysCreate(k, s) == ~locked /\ Admit(k, s)

\* The key's session, which counts as seen, or a new one.  A refusal (caps,
\* link not allowed, device lock) changes nothing.
GetOrCreate(k, s) ==
  \/ /\ table[k] = s
     /\ idle' = idle \ {s}
     /\ UNCHANGED <<table, key, stage, writer, task, lockVars>>
  \/ /\ table[k] = None
     /\ Cardinality({j \in Keys : table[j] # None}) < MaxSessions
     /\ ~locked
     /\ Admit(k, s)

-----------------------------------------------------------------------------
(* teardown.                                                               *)

\* connections.remove(); the None put in the queue ends a waiting GET, unless
\* the queue is full.
Unregister(s) ==
  /\ killers' = killers \ {s}
  /\ UNCHANGED <<locked, kicked>>

\* The pump of u has been cancelled.
NeverCancelled(u) == FALSE  \* mutant: the task is awaited, not cancelled
Cancelled(u) == \E s \in Sessions : stage[s] = "awaiting" /\ task[s] = u

\* teardown of key k up to its first await: pop the session, cancel its
\* downlink task.  A session that never connected is finished at once.  A pump
\* that tears its own session down awaits itself, which asyncio refuses one
\* turn of the loop later: it has ended for this purpose.
Teardown(k) ==
  \/ /\ table[k] = None
     /\ UNCHANGED <<sessionVars, lockVars>>
  \/ LET s == table[k] IN
     /\ s # None
     /\ table' = [table EXCEPT ![k] = None]
     /\ idle' = idle \ {s}
     /\ UNCHANGED <<key, writer>>
     /\ \/ /\ writer[s] = None
           /\ stage' = [stage EXCEPT ![s] = "gone"]
           /\ Unregister(s)
           /\ UNCHANGED task
        \/ /\ writer[s] # None
           /\ stage' = [stage EXCEPT ![s] = "awaiting"]
           /\ task' = [task EXCEPT ![s] = writer[s]]
           /\ UNCHANGED lockVars

CloseConnection(s, w) ==
  /\ stage[s] = "awaiting" /\ pump[task[s]] = "ended"
  /\ conn' = [conn EXCEPT ![w] = "closed"]
  /\ stage' = [stage EXCEPT ![s] = "closing"]
  /\ UNCHANGED <<table, key, writer, task, idle, clients, uploadVars, pump,
                 lockVars, doomed, stale, late>>

\* Mutant: the writer is the one found before the task was awaited.
CloseFirstWriter(s) == CloseConnection(s, task[s])

\* The awaited task has ended: sess["writer"] is read now, and closed.
CloseWriter(s) == CloseConnection(s, writer[s])

WaitClosed(s) ==
  /\ stage[s] = "closing"
  /\ stage' = [stage EXCEPT ![s] = "gone"]
  /\ Unregister(s)
  /\ UNCHANGED <<table, key, writer, task, idle, clients, uploadVars, pump,
                 conn, doomed, stale, late>>

-----------------------------------------------------------------------------
(* Uploads.                                                                *)

\* A POST finds or makes its session; a stream-up loop takes the writer along.
Upload(u, k, s) ==
  /\ pc[u] = "unsent"
  /\ GetOrCreate(k, s)
  /\ pc' = [pc EXCEPT ![u] = "reading"]
  /\ on' = [on EXCEPT ![u] = s]
  /\ held' = [held EXCEPT ![u] = IF u \in Streams THEN writer[s] ELSE None]
  /\ UNCHANGED <<clients, pump, conn, doomed, stale, late>>

\* The writer the next bytes of an upload go to.
Target(u) == IF u \in Streams THEN held[u] ELSE writer[on[u]]

\* Each chunk of a stream counts as a sign of life, a packet's body does not.
Seen(u) == idle' = IF u \in Streams THEN idle \ {on[u]} ELSE idle

\* The first chunk, or packet 0, starts the upstream connection.
StartConnect(u) ==
  /\ pc[u] = "reading" /\ Target(u) = None
  /\ pc' = [pc EXCEPT ![u] = "connecting"]
  /\ Seen(u)
  /\ UNCHANGED <<table, key, stage, writer, task, clients, on, held, conn, pump,
                 lockVars, doomed, stale, late>>

\* The next bytes of an upload would be written to an upstream connection.
CanRelay(u) ==
  /\ pc[u] = "reading"
  /\ Target(u) # None
  /\ conn[Target(u)] = "open"

\* A chunk, or a packet, is written to the upstream connection; the request of
\* a packet then only waits for the write buffer to drain.
Relay(u) ==
  /\ CanRelay(u)
  /\ pc' = [pc EXCEPT ![u] = IF u \in Packets THEN "draining" ELSE @]
  /\ Seen(u)
  /\ UNCHANGED <<table, key, stage, writer, task, clients, on, held, conn, pump,
                 lockVars, doomed, stale, late>>

\* A stream ends, a packet is buffered or drained, its client leaves mid-body.
UploadEnds(u) ==
  /\ pc[u] \in {"reading", "draining"}
  /\ pc' = [pc EXCEPT ![u] = "ended"]
  /\ UNCHANGED <<sessionVars, clients, on, held, conn, pump, lockVars, doomed,
                 stale, late>>

\* open_connection succeeded: writer and downlink task are put in the session
\* object the upload holds, whatever became of that meanwhile.
Connected(u) ==
  /\ pc[u] = "connecting"
  /\ conn' = [conn EXCEPT ![u] = "open"]
  /\ pump' = [pump EXCEPT ![u] = "running"]
  /\ writer' = [writer EXCEPT ![on[u]] = u]
  /\ held' = [held EXCEPT ![u] = IF u \in Streams THEN u ELSE None]
  /\ pc' = [pc EXCEPT ![u] = IF u \in Streams THEN "reading" ELSE "ended"]
  /\ late' = IF stage[on[u]] \in {"closing", "gone"} THEN late \cup {u} ELSE late
  /\ UNCHANGED <<table, key, stage, task, idle, clients, on, lockVars, doomed, stale>>

\* Quota refusal, oversize body, closed transport, aborted stream, failed
\* connect or drain: the session under the key goes.
UploadFails(u) ==
  /\ pc[u] \in {"reading", "connecting", "draining"}
  /\ pc' = [pc EXCEPT ![u] = "ended"]
  /\ Teardown(key[on[u]])
  /\ UNCHANGED <<clients, on, held, conn, pump, doomed, stale, late>>

-----------------------------------------------------------------------------
(* The downlink: the pump of a connection and the GET that drains it.      *)

\* Remote EOF, a read error, a refused flush, cancellation.  The finally clause
\* tears down whatever session is under the key by now.
PumpEnds(u) ==
  /\ pump[u] = "running"
  /\ pump' = [pump EXCEPT ![u] = "ended"]
  /\ Teardown(key[on[u]])
  /\ UNCHANGED <<clients, uploadVars, conn, doomed, stale, late>>

OpenDownlink(k, s) ==
  /\ GetOrCreate(k, s)
  /\ clients' = clients \cup {s}
  /\ UNCHANGED <<uploadVars, conn, pump, doomed, stale, late>>

\* The pump's data reaches the client.
Deliver(s) ==
  /\ s \in clients
  /\ \E u \in Uploads : on[u] = s /\ pump[u] # "none"
  /\ idle' = idle \ {s}
  /\ UNCHANGED <<table, key, stage, writer, task, clients, uploadVars, conn, pump,
                 lockVars, doomed, stale, late>>

ClientLeaves(s) ==
  /\ s \in clients
  /\ clients' = clients \ {s}
  /\ doomed' = doomed \cup {key[s]}
  /\ UNCHANGED <<sessionVars, uploadVars, conn, pump, lockVars, stale, late>>

DownlinkEnds(s) ==
  /\ s \in clients /\ stage[s] = "gone"
  /\ clients' = clients \ {s}
  /\ UNCHANGED <<sessionVars, uploadVars, conn, pump, lockVars, doomed, stale, late>>

-----------------------------------------------------------------------------
(* Kicks, scheduled teardowns and the reaper.                              *)

\* Mutant: only sessions that reached their upstream are killed.
KickConnected(s) == s \in killers /\ writer[s] # None

Kickable(s) == s \in killers

\* allowed_ips is pushed without this client's address; kick() calls, and
\* forgets, the kill callbacks, each of which schedules a teardown by key.
Lock ==
  LET out == {s \in Registered : Kickable(s)}
  IN  /\ ~locked /\ locked' = TRUE
      /\ killers' = killers \ out
      /\ kicked' = kicked \cup out
      /\ doomed' = doomed \cup {key[s] : s \in out}
      /\ UNCHANGED <<sessionVars, clients, uploadVars, conn, pump, stale, late>>

Unlock ==
  /\ locked /\ locked' = FALSE
  /\ UNCHANGED <<sessionVars, clients, uploadVars, conn, pump, killers, kicked,
                 doomed, stale, late>>

TeardownTask(k) ==
  /\ k \in doomed
  /\ doomed' = doomed \ {k}
  /\ Teardown(k)
  /\ UNCHANGED <<clients, uploadVars, conn, pump, stale, late>>

\* 30 s, or 90 s with an upstream, pass without the session being seen.
GoesIdle(s) ==
  /\ stage[s] = "live"
  /\ idle' = idle \cup {s}
  /\ UNCHANGED <<table, key, stage, writer, task, clients, uploadVars, conn, pump,
                 lockVars, doomed, stale, late>>

\* Mutant: sessions with an upstream are never stale.
StaleUnconnected(s) == s \in idle /\ writer[s] = None

IsStale(s) == s \in idle

\* Mutant: the reaper lists the sessions, not their keys.
StaleSessions == {s \in Sessions : IsStale(s)}

StaleKeys == {k \in Keys : table[k] # None /\ IsStale(table[k])}

\* The reaper lists stale keys, then tears them down one after the other; a
\* key may have been used, or given to a new session, by the time it gets there.
Scan ==
  /\ stale = {}
  /\ stale' = StaleKeys
  /\ UNCHANGED <<sessionVars, clients, uploadVars, conn, pump, lockVars, doomed, late>>

Reap(k) ==
  /\ k \in stale
  /\ stale' = stale \ {k}
  /\ Teardown(k)
  /\ UNCHANGED <<clients, uploadVars, conn, pump, doomed, late>>

Request ==
  \/ \E u \in Uploads, k \in Keys, s \in Sessions : Upload(u, k, s)
  \/ \E k \in Keys, s \in Sessions : OpenDownlink(k, s)

Progress ==
  \/ \E u \in Uploads :
       StartConnect(u) \/ Relay(u) \/ UploadEnds(u) \/ Connected(u) \/ UploadFails(u)
         \/ PumpEnds(u)
  \/ \E s \in Sessions :
       CloseWriter(s) \/ WaitClosed(s) \/ Deliver(s) \/ ClientLeaves(s)
         \/ DownlinkEnds(s) \/ GoesIdle(s)

Control ==
  \/ Lock \/ Unlock \/ Scan
  \/ \E k \in Keys : TeardownTask(k) \/ Reap(k)

Next == Request \/ Progress \/ Control

Spec == Init /\ [][Next]_vars

\* The event loop runs scheduled tasks and cancelled pumps, a closed transport
\* finishes closing, and the reaper wakes up every REAPER_INTERVAL.
FairSpec ==
  /\ Spec
  /\ \A u \in Uploads : WF_vars(Cancelled(u) /\ PumpEnds(u))
  /\ \A s \in Sessions : WF_vars(CloseWriter(s) \/ WaitClosed(s))
  /\ \A k \in Keys : WF_vars(TeardownTask(k)) /\ WF_vars(Reap(k))
  /\ WF_vars(Scan)

-----------------------------------------------------------------------------
(* Properties.                                                             *)

TypeOK ==
  /\ table \in [Keys -> Sessions \cup {None}]
  /\ key \in [Sessions -> Keys]
  /\ stage \in [Sessions -> {"new", "live", "awaiting", "closing", "gone"}]
  /\ writer \in [Sessions -> Uploads \cup {None}]
  /\ task \in [Sessions -> Uploads \cup {None}]
  /\ idle \subseteq Sessions /\ clients \subseteq Sessions
  /\ pc \in [Uploads -> {"unsent", "reading", "connecting", "draining", "ended"}]
  /\ on \in [Uploads -> Sessions]
  /\ held \in [Uploads -> Uploads \cup {None}]
  /\ conn \in [Uploads -> {"none", "open", "closed"}]
  /\ pump \in [Uploads -> {"none", "running", "ended"}]
  /\ locked \in BOOLEAN
  /\ killers \subseteq Sessions /\ kicked \subseteq Sessions
  /\ doomed \subseteq Keys /\ stale \subseteq Keys
  /\ late \subseteq Uploads

\* A session that holds a device slot and is not being torn down is the one
\* under its key, so that a kick, the reaper or its client can still end it.
SlotHasOwner == \A s \in Sessions : stage[s] = "live" <=> \E k \in Keys : table[k] = s

\* teardown leaves no upstream connection open behind it: an open one belongs
\* to a session whose writer is still to be closed, or it connected after that,
\* or another upload of the session connected over it.
OpenUpstreamHasOwner ==
  \A u \in Uploads : conn[u] = "open" =>
    \/ stage[on[u]] \in {"live", "awaiting"}
    \/ u \in late
    \/ writer[on[u]] # u

\* Whoever tears a session down, and whatever its pump is doing, the device
\* slot it holds is given back.
TornDownLeaves ==
  \A s \in Sessions : stage[s] \in {"awaiting", "closing"} ~> stage[s] = "gone"

\* After a device lock is pushed, the clients it leaves out lose every slot,
\* also those of sessions that have not reached their upstream yet.
LockFreesSlots == locked ~> (~locked \/ Registered = {})

\* An idle session is used again or torn down.
IdleReaped ==
  \A s \in Sessions : (stage[s] = "live" /\ s \in idle) ~> (stage[s] # "live" \/ s \notin idle)

\* A connection that was kicked relays nothing once its teardown is over.
KickedStopsRelaying ==
  \A u \in Uploads : on[u] \in kicked /\ stage[on[u]] = "gone" => ~CanRelay(u)

-----------------------------------------------------------------------------
(* The inductive invariant behind SlotHasOwner and OpenUpstreamHasOwner.   *)

\* The table and the sessions that live refer to each other.
TableInv ==
  /\ \A k \in Keys : table[k] # None => stage[table[k]] = "live" /\ key[table[k]] = k
  /\ \A s \in Sessions : stage[s] = "live" => table[key[s]] = s

\* An upload that was sent has a session, and sessions never become new again.
UploadInv == \A u \in Uploads : pc[u] # "unsent" => stage[on[u]] # "new"

IInv == TypeOK /\ TableInv /\ UploadInv /\ OpenUpstreamHasOwner

=============================================================================
