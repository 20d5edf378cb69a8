----------------------------- MODULE RelayChain -----------------------------
(***************************************************************************)
(* The relays between a client and a Core: the Worker alone for a direct-  *)
(* region config, the Console's gateway and then the Worker for the shared *)
(* domain.  A WebSocket relay accepts first, dials the next one, pumps     *)
(* frames both ways with two tasks, and when the first of them ends        *)
(* cancels the other and closes both sides.  An HTTP relay of a GET (an    *)
(* XHTTP downlink) streams the response and looks now and then whether     *)
(* its client is still there.                                              *)
(*                                                                         *)
(* Link 0 joins the client and relay 1, link h joins relay h and the next  *)
(* one, the last link ends at the Core.  A frame is its number, a close is *)
(* its code, and a close is the last thing in its direction of a link.     *)
(* The end of a response and a status other than 200 are closes too.       *)
(***************************************************************************)
EXTENDS Integers, Sequences, SequencesExt

CONSTANTS
  MaxHops,    \* 1: the Worker's direct route, 2: the gateway's
  MaxFrames,  \* frames in each direction
  MaxLost     \* connections that break without a closing handshake

ASSUME ChainAssumption == MaxHops \in Nat \ {0} /\ MaxFrames \in 0..999 /\ MaxLost \in Nat

Links == 0..MaxHops
Relays == 1..MaxHops
Dirs == {"down", "up"}
Kinds == {"ws", "get"}

\* Close codes of the protocol and of the relays.
Normal == 1000
GoingAway == 1001
Abnormal == 1006
Rejected == 1008
Unavailable == 1014
Codes == {Normal, GoingAway, Abnormal, Rejected, Unavailable}

VARIABLES
  hops,    \* relays between the client and the Core
  kind,    \* what they relay: a WebSocket or the response to a GET
  stage,   \* how far each relay's handler is
  ended,   \* one of its two tasks has returned
  hand,    \* the frame each task has taken and not yet sent (0: none)
  net,     \* what is under way on each link
  sent,    \* frames sent down by the Core and up by the client
  got,     \* frames received by the client and by the Core
  core,    \* the Core's end: absent, open or why it ended
  client,  \* the client's end: on, left or told
  told,    \* the close code the client was told
  lost     \* connections that broke so far

vars == <<hops, kind, stage, ended, hand, net, sent, got, core, client, told, lost>>
path == <<hops, kind>>
endVars == <<sent, got, core, client, told, lost>>

Init ==
  /\ hops \in Relays /\ kind \in Kinds
  /\ stage = [h \in Relays |-> IF h = 1 THEN "accepted" ELSE "absent"]
  /\ ended = [h \in Relays |-> FALSE]
  /\ hand = [h \in Relays |-> [d \in Dirs |-> 0]]
  /\ net = [i \in Links |-> [d \in Dirs |-> <<>>]]
  /\ sent = [d \in Dirs |-> 0]
  /\ got = [d \in Dirs |-> <<>>]
  /\ core = "absent" /\ client = "on" /\ told = 0 /\ lost = 0

IsClose(x) == x >= 1000
Closed(q) == q # <<>> /\ IsClose(Last(q))
HasFrame(q) == q # <<>> /\ ~IsClose(Head(q))
AtClose(q) == q # <<>> /\ IsClose(Head(q))
Put(q, x) == IF Closed(q) THEN q ELSE Append(q, x)

Other(d) == IF d = "down" THEN "up" ELSE "down"
From(h, d) == IF d = "down" THEN h ELSE h - 1
To(h, d) == IF d = "down" THEN h - 1 ELSE h

-----------------------------------------------------------------------------
(* A relay.                                                                *)

\* The endpoint or the instance is unknown or not running, or the connection
\* fails: the client gets a close code of its own.
Refuse(h) ==
  /\ stage[h] = "accepted"
  /\ \E code \in {Rejected, Unavailable} : net' = [net EXCEPT ![h - 1].down = Put(@, code)]
  /\ stage' = [stage EXCEPT ![h] = "done"]
  /\ UNCHANGED <<path, ended, hand, endVars>>

Dial(h) ==
  /\ stage[h] = "accepted"
  /\ IF h = hops
     THEN stage' = [stage EXCEPT ![h] = "pumping"] /\ core' = "open"
     ELSE stage' = [stage EXCEPT ![h] = "pumping", ![h + 1] = "accepted"] /\ UNCHANGED core
  /\ UNCHANGED <<path, ended, hand, net, sent, got, client, told, lost>>

\* Mutant: a task starts on the next frame while one is still being sent.
Overtakes(h, d) == stage[h] = "pumping"
MayTake(h, d) == stage[h] = "pumping" /\ hand[h][d] = 0

\* A task of the relay: ws.receive() or the iteration over upstream, which is
\* all there is to the relay of a GET.
Take(h, d) ==
  /\ MayTake(h, d)
  /\ HasFrame(net[From(h, d)][d])
  /\ hand' = [hand EXCEPT ![h][d] = Head(net[From(h, d)][d])]
  /\ net' = [net EXCEPT ![From(h, d)][d] = Tail(@)]
  /\ UNCHANGED <<path, stage, ended, endVars>>

\* The task sends what it holds.  When the other side has closed, the send
\* fails as soon as the close has arrived, and the task returns.
Send(h, d) ==
  /\ stage[h] = "pumping" /\ hand[h][d] # 0
  /\ \/ /\ net' = [net EXCEPT ![To(h, d)][d] = Put(@, hand[h][d])]
        /\ hand' = [hand EXCEPT ![h][d] = 0]
        /\ UNCHANGED ended
     \/ /\ Closed(net[To(h, d)][Other(d)])
        /\ ended' = [ended EXCEPT ![h] = TRUE]
        /\ UNCHANGED <<net, hand>>
  /\ UNCHANGED <<path, stage, endVars>>

\* Mutant: the disconnect message of the client is taken for an empty frame.
MissesDisconnect(h, d) == d = "down" /\ AtClose(net[From(h, d)][d])
SeesClose(h, d) == AtClose(net[From(h, d)][d])

\* websocket.disconnect, or the end of the iteration over upstream.  The server
\* may also tell the relay of a GET that its client is gone.
Return(h, d) ==
  /\ stage[h] = "pumping" /\ ~ended[h] /\ hand[h][d] = 0
  /\ SeesClose(h, d)
  /\ ended' = [ended EXCEPT ![h] = TRUE]
  /\ UNCHANGED <<path, stage, hand, net, endVars>>

\* Mutant: the relay waits for both tasks.
BothEnded(h) == ended[h] /\ \A d \in Dirs : AtClose(net[From(h, d)][d])
FirstEnded(h) == ended[h]

\* FIRST_COMPLETED: the other task is cancelled with what it holds, and
\* leaving the block closes the connection upstream.
Cancel(h) ==
  /\ stage[h] = "pumping" /\ FirstEnded(h)
  /\ stage' = [stage EXCEPT ![h] = "closing"]
  /\ hand' = [hand EXCEPT ![h] = [d \in Dirs |-> 0]]
  /\ net' = [net EXCEPT ![h].up = Put(@, Normal)]
  /\ UNCHANGED <<path, ended, endVars>>

\* Mutant: every relay closes with a plain 1000.
PlainCode(h) == Normal
\* The Worker carries the Core's code, the gateway closes a WebSocket with the
\* default; a response keeps its status and breaks off as it did upstream.
CloseCode(h) ==
  IF (h = hops \/ kind = "get") /\ Closed(net[h].down) THEN Last(net[h].down) ELSE Normal

\* ws.close(), which a client that left makes fail.
CloseClient(h) ==
  /\ stage[h] = "closing"
  /\ stage' = [stage EXCEPT ![h] = "done"]
  /\ net' = [net EXCEPT ![h - 1].down = Put(@, CloseCode(h))]
  /\ UNCHANGED <<path, ended, hand, endVars>>

-----------------------------------------------------------------------------
(* The Core and the client.                                                *)

CoreSends ==
  /\ core = "open" /\ sent["down"] < MaxFrames
  /\ sent' = [sent EXCEPT !["down"] = @ + 1]
  /\ net' = [net EXCEPT ![hops].down = Put(@, sent["down"] + 1)]
  /\ UNCHANGED <<path, stage, ended, hand, got, core, client, told, lost>>

CoreReads ==
  /\ core = "open" /\ net[hops].up # <<>>
  /\ IF HasFrame(net[hops].up)
     THEN /\ got' = [got EXCEPT !["up"] = Append(@, Head(net[hops].up))]
          /\ net' = [net EXCEPT ![hops].up = Tail(@)]
          /\ UNCHANGED core
     ELSE core' = "left" /\ UNCHANGED <<got, net>>
  /\ UNCHANGED <<path, stage, ended, hand, sent, client, told, lost>>

\* The tunnel is over, or the Core refuses the credential, device or quota; a
\* response is refused by its status.
CoreEnds ==
  /\ core = "open"
  /\ \/ core' = "finished" /\ net' = [net EXCEPT ![hops].down = Put(@, Normal)]
     \/ /\ kind = "get" => sent["down"] = 0
        /\ core' = "refused" /\ net' = [net EXCEPT ![hops].down = Put(@, Rejected)]
  /\ UNCHANGED <<path, stage, ended, hand, sent, got, client, told, lost>>

ClientSends ==
  /\ client = "on" /\ kind = "ws" /\ sent["up"] < MaxFrames
  /\ sent' = [sent EXCEPT !["up"] = @ + 1]
  /\ net' = [net EXCEPT ![0].up = Put(@, sent["up"] + 1)]
  /\ UNCHANGED <<path, stage, ended, hand, got, core, client, told, lost>>

ClientReads ==
  /\ client = "on" /\ net[0].down # <<>>
  /\ IF HasFrame(net[0].down)
     THEN /\ got' = [got EXCEPT !["down"] = Append(@, Head(net[0].down))]
          /\ net' = [net EXCEPT ![0].down = Tail(@)]
          /\ UNCHANGED <<client, told>>
     ELSE client' = "told" /\ told' = Head(net[0].down) /\ UNCHANGED <<got, net>>
  /\ UNCHANGED <<path, stage, ended, hand, sent, core, lost>>

ClientLeaves ==
  /\ client = "on" /\ client' = "left"
  /\ net' = [net EXCEPT ![0].up = Put(@, GoingAway)]
  /\ UNCHANGED <<path, stage, ended, hand, sent, got, core, told, lost>>

\* A connection breaks (a crash, a ping that is not answered): what was under
\* way is lost from some point on, and both sides notice.  Once the client
\* and the Core are both done it makes no difference.
LinkBreaks(i) ==
  /\ lost < MaxLost /\ lost' = lost + 1
  /\ client = "on" \/ core \in {"absent", "open"}
  /\ IF i = hops THEN core = "open" ELSE stage[i + 1] # "absent"
  /\ \E down \in 0..Len(net[i].down), up \in 0..Len(net[i].up) :
       net' = [net EXCEPT ![i] = [down |-> Put(SubSeq(@.down, 1, down), Abnormal),
                                  up |-> Put(SubSeq(@.up, 1, up), Abnormal)]]
  /\ UNCHANGED <<path, stage, ended, hand, sent, got, core, client, told>>

-----------------------------------------------------------------------------
Task(h, d) == Take(h, d) \/ Send(h, d) \/ Return(h, d)
Handler(h) == Refuse(h) \/ Dial(h) \/ Cancel(h) \/ CloseClient(h)

Next ==
  \/ \E h \in Relays : Handler(h) \/ \E d \in Dirs : Task(h, d)
  \/ CoreSends \/ CoreReads \/ CoreEnds
  \/ ClientSends \/ ClientReads \/ ClientLeaves
  \/ \E i \in 0..hops : LinkBreaks(i)

Spec == Init /\ [][Next]_vars

\* A relay is sure to learn that its client is gone: from ws.receive(), or in
\* the Worker, which polls while the response is silent (_until_client_gone).
Watches(h) == kind = "ws" \/ (h = hops /\ hand[h].down = 0 /\ net[h].down = <<>>)

\* Every handler and task is scheduled, and both ends go on reading.
FairSpec ==
  /\ Spec
  /\ \A h \in Relays :
       WF_vars(Handler(h)) /\ WF_vars(Task(h, "down")) /\ WF_vars(Watches(h) /\ Task(h, "up"))
  /\ WF_vars(CoreReads) /\ WF_vars(ClientReads)

-----------------------------------------------------------------------------
Frames(n) == [k \in 1..n |-> k]
Drained(d) == Len(got[d]) = sent[d]

\* Down to the client the chain is a pipe: no frame is lost, doubled or out
\* of order before the end, and when the Core finishes while nothing the
\* client said is under way, the client gets everything before the close.
DownEnd ==
  CASE client = "on" -> "open"
    [] client = "told" /\ core = "finished" /\ lost = 0 /\ Drained("up") -> "complete"
    [] OTHER -> "broken"
Down == INSTANCE Pipe WITH sent <- Frames(sent["down"]), got <- got["down"], end <- DownEnd

\* Up to the Core it is one too: what a client said before it left arrives,
\* if it had received all that the Core sent.
UpEnd ==
  CASE core \in {"absent", "open"} -> "open"
    [] core = "left" /\ client = "left" /\ lost = 0 /\ Drained("down") -> "complete"
    [] OTHER -> "broken"
Up == INSTANCE Pipe WITH sent <- Frames(sent["up"]), got <- got["up"], end <- UpEnd

\* The chain is a pipe each way.
TunnelIsPipes == Down!Spec /\ Up!Spec

\* A client the Core refused is told so ("which makes a refused connection
\* indistinguishable from a finished one", _forward_ws), but for WebSockets
\* through the gateway.
RefusalIsTold ==
  (hops = 1 \/ kind = "get") /\ core = "refused" /\ client = "told" /\ lost = 0
    => told = Rejected

\* A client that leaves does not stay connected at the Core ("nothing else
\* notices the client left", _until_client_gone), but for GETs through the
\* gateway, which has no such poll.
LeavingReachesCore ==
  (client = "left" /\ (hops = 1 \/ kind = "ws")) ~> [](core # "open")

\* A tunnel that is over upstream ends for the client.
EndReachesClient ==
  (core \in {"left", "finished", "refused"} \/ \E h \in Relays : stage[h] = "done")
    ~> client # "on"

=============================================================================
