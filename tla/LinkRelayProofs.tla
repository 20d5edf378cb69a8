--------------------------- MODULE LinkRelayProofs ---------------------------
(***************************************************************************)
(* Safety of one Core's tunnels, for any number of links, tunnels and      *)
(* addresses and any batch and chunk size.                                 *)
(***************************************************************************)
EXTENDS LinkRelay, FiniteSetTheorems, TLAPS

\* The placeholder link and address of a tunnel that is not connected exist.
LEMMA Placeholders == AnyLink \in Links /\ AnyIp \in Ips
  BY BoundsAssumption DEF AnyLink, AnyIp

-----------------------------------------------------------------------------
(* Type correctness.                                                       *)

\* Everything starts in its type.
LEMMA InitType == Init => TypeOK
  BY Placeholders, BoundsAssumption
  DEF Init, TypeOK, Policy, DefaultPolicy, Stages

\* Rewriting one link's policy keeps every variable in its type.
LEMMA RewriteType ==
  ASSUME TypeOK, NEW l \in Links, NEW policy \in Policy, Rewrite(l, policy),
         stored' \subseteq Links, killers' \subseteq Tunnels, kicked' \subseteq Tunnels
  PROVE TypeOK'
<1>1. link' \in [Links -> Policy]
  BY DEF Rewrite, TypeOK
<1>2. denied' \in [Tunnels -> Nat]
  BY DEF Rewrite, Readmit, TypeOK
<1>. QED
  BY <1>1, <1>2 DEF Rewrite, TypeOK

\* The management API keeps every variable in its type.
LEMMA ManageType == TypeOK /\ Manage => TypeOK'
<1> SUFFICES ASSUME TypeOK, NEW l \in Links, 
               \/ \E active \in BOOLEAN, limit \in Limits, cap \in Caps, expired \in BOOLEAN :
                    CreateLink(l, active, limit, cap, expired)
               \/ \E active \in BOOLEAN : PatchActive(l, active)
               \/ \E allowed \in Locks : PatchAllowedIps(l, allowed)
               \/ \E cap \in Caps : PatchCap(l, cap)
               \/ \E limit \in Limits, expired \in BOOLEAN, reset \in BOOLEAN :
                    PatchTerms(l, limit, expired, reset)
               \/ DeleteLink(l)
               \/ Expire(l)
             PROVE TypeOK'
  BY DEF Manage
<1>0. link[l] \in Policy /\ DefaultPolicy \in Policy
  BY DEF TypeOK, Policy, DefaultPolicy
<1>1. ASSUME NEW active \in BOOLEAN, NEW limit \in Limits, NEW cap \in Caps,
             NEW expired \in BOOLEAN, CreateLink(l, active, limit, cap, expired)
      PROVE TypeOK'
  <2>1. [DefaultPolicy EXCEPT !.active = active, !.limit = limit, !.cap = cap,
                               !.expired = expired] \in Policy
    BY <1>0 DEF Policy
  <2>. QED BY <1>1, <2>1, RewriteType DEF CreateLink, TypeOK
<1>2. ASSUME NEW active \in BOOLEAN, PatchActive(l, active) PROVE TypeOK'
  <2>1. [link[l] EXCEPT !.active = active] \in Policy
    BY <1>0 DEF Policy
  <2>. QED BY <1>2, <2>1, RewriteType DEF PatchActive, TypeOK
<1>3. ASSUME NEW allowed \in Locks, PatchAllowedIps(l, allowed) PROVE TypeOK'
  <2>1. [link[l] EXCEPT !.allowed = allowed] \in Policy
    BY <1>0, BoundsAssumption DEF Policy
  <2>2. killers' \subseteq Tunnels /\ kicked' \subseteq Tunnels
    BY <1>3 DEF PatchAllowedIps, Kick, TypeOK, On, Registered
  <2>. QED BY <1>3, <2>1, <2>2, RewriteType DEF PatchAllowedIps, TypeOK
<1>4. ASSUME NEW cap \in Caps, PatchCap(l, cap) PROVE TypeOK'
  <2>1. [link[l] EXCEPT !.cap = cap, !.allowed = {}] \in Policy
    BY <1>0 DEF Policy
  <2>. QED BY <1>4, <2>1, RewriteType DEF PatchCap, TypeOK
<1>5. ASSUME NEW limit \in Limits, NEW expired \in BOOLEAN, NEW reset \in BOOLEAN,
             PatchTerms(l, limit, expired, reset)
      PROVE TypeOK'
  <2>1. [link[l] EXCEPT !.limit = limit, !.expired = expired,
                        !.used = IF reset THEN 0 ELSE @] \in Policy
    BY <1>0 DEF Policy
  <2>. QED BY <1>5, <2>1, RewriteType DEF PatchTerms, TypeOK
<1>6. CASE DeleteLink(l)
  BY <1>0, <1>6 DEF DeleteLink, gateVars, TypeOK
<1>7. CASE Expire(l)
  BY <1>0, <1>7 DEF Expire, gateVars, TypeOK, Policy
<1>. QED BY <1>1, <1>2, <1>3, <1>4, <1>5, <1>6, <1>7

\* Admitting a chunk, refusing one and flushing keep the gate and the links typed.
LEMMA GateType ==
  ASSUME TypeOK, NEW t \in Tunnels, NEW n \in Nat,
         Admit(t, n) \/ Refuse(t) \/ Flush(t)
  PROVE  /\ link' \in [Links -> Policy]
         /\ pending' \in [Tunnels -> 0..(MaxBatch - 1)]
         /\ ok' \in [Tunnels -> BOOLEAN]
         /\ unbilled' \in [Tunnels -> Int]
         /\ denied' \in [Tunnels -> Nat]
<1>0. pending[t] \in 0..(MaxBatch - 1) /\ on[t] \in Links /\ MaxBatch \in Nat \ {0}
  BY BoundsAssumption DEF TypeOK
<1>1. link[on[t]] \in Policy
  BY <1>0 DEF TypeOK
<1>2. ASSUME NEW m \in Nat, Use(t, m) PROVE link' \in [Links -> Policy]
  <2>1. link[on[t]].used + m \in Nat
    BY <1>1 DEF Policy
  <2>2. [link[on[t]] EXCEPT !.used = link[on[t]].used + m] \in Policy
    BY <1>1, <2>1 DEF Policy
  <2>3. link' = [link EXCEPT ![on[t]] = [link[on[t]] EXCEPT !.used = link[on[t]].used + m]]
    BY <1>2 DEF Use
  <2>. QED BY <1>0, <2>2, <2>3 DEF TypeOK
<1>3. ASSUME NEW c \in Int, Pass(t, n, c)
      PROVE unbilled' \in [Tunnels -> Int] /\ denied' \in [Tunnels -> Nat]
  BY <1>3 DEF Pass, TypeOK
<1>4. CASE Hold(t, n)
  BY <1>0, <1>3, <1>4 DEF Hold, MustFlush, TypeOK
<1>5. CASE Charge(t, n)
  BY <1>0, <1>2, <1>3, <1>5 DEF Charge, TypeOK
<1>6. CASE Refuse(t)
  BY <1>0, <1>6 DEF Refuse, TypeOK
<1>7. CASE Flush(t)
  <2>1. pending' \in [Tunnels -> 0..(MaxBatch - 1)] /\ denied' \in [Tunnels -> Nat]
    BY <1>0, <1>7 DEF Flush, TypeOK
  <2>2. ok' \in [Tunnels -> BOOLEAN]
    BY <1>7 DEF Flush, TypeOK
  <2>3. unbilled' \in [Tunnels -> Int]
    BY <1>0, <1>7 DEF Flush, TypeOK
  <2>4. link' = link \/ Use(t, pending[t])
    BY <1>7 DEF Flush
  <2>5. pending[t] \in Nat
    BY <1>0
  <2>6. link' \in [Links -> Policy]
    BY <1>2, <2>4, <2>5 DEF TypeOK
  <2>. QED BY <2>1, <2>2, <2>3, <2>6
<1>. QED BY <1>4, <1>5, <1>6, <1>7 DEF Admit

\* Admission binds the tunnel to a link and an address.
LEMMA RegisterType ==
  ASSUME TypeOK, NEW t \in Tunnels, NEW l \in Links, NEW i \in Ips, Register(t, l, i)
  PROVE  /\ on' \in [Tunnels -> Links]
         /\ ip' \in [Tunnels -> Ips]
         /\ killers' \subseteq Tunnels
         /\ kicked' \subseteq Tunnels
         /\ l \in stored
  BY DEF Register, TypeOK, IsAllowed

\* A tunnel that leaves is unbound.
LEMMA LeaveType ==
  ASSUME TypeOK, NEW t \in Tunnels, Leave(t)
  PROVE  /\ pc' \in [Tunnels -> Stages]
         /\ on' \in [Tunnels -> Links]
         /\ ip' \in [Tunnels -> Ips]
         /\ open' \subseteq Tunnels
         /\ killers' \subseteq Tunnels
         /\ kicked' \subseteq Tunnels
         /\ pending' \in [Tunnels -> 0..(MaxBatch - 1)]
         /\ stored' \subseteq Links
  BY Placeholders, BoundsAssumption DEF Leave, TypeOK, Stages

\* So does every step of a tunnel.
LEMMA TunnelType == ASSUME TypeOK, NEW t \in Tunnels, Tunnel(t) PROVE TypeOK'
<1>0. 1..MaxChunk \subseteq Nat
  BY BoundsAssumption
<1>1. ASSUME NEW l \in Links, NEW i \in Ips, OpenVless(t, l, i) PROVE TypeOK'
  BY <1>1, RegisterType DEF OpenVless, gateVars, TypeOK, Stages
<1>2. ASSUME NEW l \in Links, NEW i \in Ips, NEW n \in 1..MaxChunk,
             OpenByFirstFrame(t, l, i, n)
      PROVE TypeOK'
  <2>1. link[l].used + n \in Nat /\ link[l] \in Policy
    BY <1>0 DEF TypeOK, Policy
  <2>2. [link[l] EXCEPT !.used = link[l].used + n] \in Policy
    BY <2>1 DEF Policy
  <2>3. link' = link \/ link' = [link EXCEPT ![l] = [link[l] EXCEPT !.used = link[l].used + n]]
    BY <1>2 DEF OpenByFirstFrame
  <2>4. link' \in [Links -> Policy]
    BY <2>2, <2>3 DEF TypeOK
  <2>5. /\ pending' \in [Tunnels -> 0..(MaxBatch - 1)]
        /\ unbilled' \in [Tunnels -> Int]
    BY <1>2, <1>0, BoundsAssumption DEF OpenByFirstFrame, TypeOK
  <2>6. /\ stored' \subseteq Links
        /\ pc' \in [Tunnels -> Stages]
        /\ pumps' \in [Tunnels -> SUBSET Directions]
        /\ open' \subseteq Tunnels
        /\ ok' \in [Tunnels -> BOOLEAN]
        /\ denied' \in [Tunnels -> Nat]
    BY <1>2 DEF OpenByFirstFrame, TypeOK, Stages
  <2>7. Register(t, l, i)
    BY <1>2 DEF OpenByFirstFrame
  <2>. QED BY <2>4, <2>5, <2>6, <2>7, RegisterType DEF TypeOK
<1>3. ASSUME NEW n \in 1..MaxChunk, FirstFrame(t, n) PROVE TypeOK'
  <2>1. CASE Admit(t, n) /\ pc' = [pc EXCEPT ![t] = "connecting"]
             /\ UNCHANGED <<stored, pumps, open, trackVars>>
    BY <2>1, <1>0, GateType DEF trackVars, TypeOK, Stages
  <2>2. CASE Refuse(t) /\ Leave(t) /\ UNCHANGED pumps
    BY <2>2, <1>0, GateType, LeaveType DEF TypeOK
  <2>. QED BY <1>3, <2>1, <2>2 DEF FirstFrame
<1>4. CASE HandshakeFails(t)
  BY <1>4, LeaveType DEF HandshakeFails, TypeOK
<1>5. CASE Connected(t)
  BY <1>5 DEF Connected, trackVars, gateVars, TypeOK, Stages
<1>6. CASE ConnectFails(t)
  BY <1>6, LeaveType DEF ConnectFails, TypeOK
<1>7. ASSUME NEW d \in Directions, NEW n \in 1..MaxChunk, Chunk(t, d, n) PROVE TypeOK'
  <2>1. CASE Admit(t, n) /\ UNCHANGED <<stored, pc, pumps, open, trackVars>>
    BY <2>1, <1>0, GateType DEF trackVars, TypeOK
  <2>2. CASE Refuse(t) /\ StopPump(t, d) /\ open' = open \ {t}
    BY <2>2, <1>0, GateType DEF StopPump, trackVars, TypeOK
  <2>. QED BY <1>7, <2>1, <2>2 DEF Chunk
<1>8. ASSUME NEW d \in Directions, PumpEnds(t, d) PROVE TypeOK'
  BY <1>8, GateType DEF PumpEnds, StopPump, trackVars, TypeOK
<1>9. CASE CancelOtherPump(t)
  BY <1>9, GateType DEF CancelOtherPump, trackVars, gateVars, TypeOK, Stages
<1>10. CASE Closed(t)
  BY <1>10, LeaveType DEF Closed, TypeOK
<1>11. CASE ClientGone(t)
  BY <1>11 DEF ClientGone, trackVars, gateVars, TypeOK
<1>12. CASE KillCloses(t)
  BY <1>12 DEF KillCloses, trackVars, gateVars, TypeOK
<1>. QED
  BY <1>1, <1>2, <1>3, <1>4, <1>5, <1>6, <1>7, <1>8, <1>9, <1>10, <1>11, <1>12 DEF Tunnel

\* Every variable of a Core stays in its type, whatever the management API and
\* the tunnels do; in particular a gate never holds a full batch.
THEOREM TypeCorrect == Spec => []TypeOK
<1>1. TypeOK /\ [Next]_vars => TypeOK'
  <2>1. TypeOK /\ UNCHANGED vars => TypeOK'
    BY DEF vars, TypeOK
  <2>. QED BY <2>1, ManageType, TunnelType DEF Next
<1>. QED BY InitType, <1>1, PTL DEF Spec

-----------------------------------------------------------------------------
(* The quota gates.                                                        *)

GateSafe == StageInv /\ GateInv /\ DenyInv

\* A gate that was never used is safe.
LEMMA InitGates == Init => GateSafe
  BY BoundsAssumption DEF Init, GateSafe, StageInv, GateInv, DenyInv

\* Charging a link never makes any link allowed.
LEMMA UseKeepsDenied ==
  ASSUME TypeOK, NEW k \in Links, NEW m \in Nat, UNCHANGED stored,
         link' = [link EXCEPT ![k].used = @ + m],
         NEW l \in Links, IsAllowed(l)'
  PROVE IsAllowed(l)
<1>1. link[l] \in Policy /\ link[k] \in Policy
  BY DEF TypeOK
<1>2. link'[l].active = link[l].active /\ link'[l].expired = link[l].expired
      /\ link'[l].limit = link[l].limit
  BY DEF TypeOK, Policy
<1>3. link'[l].used \in {link[l].used, link[l].used + m}
  BY DEF TypeOK, Policy
<1>4. link[l].used \in Nat /\ link[l].limit \in Nat
  BY <1>1, BoundsAssumption DEF Policy
<1>. QED BY <1>2, <1>3, <1>4 DEF IsAllowed

\* Editing a link restarts the count of the tunnels it allows and no other.
LEMMA RewriteGates ==
  ASSUME TypeOK, GateSafe, NEW l \in Links, NEW policy, Rewrite(l, policy),
         stored' = stored \/ stored' = stored \cup {l}
  PROVE GateSafe'
<1>1. StageInv'
  BY DEF GateSafe, StageInv, Rewrite
<1>2. ASSUME NEW u \in Tunnels, on[u] # l PROVE IsAllowed(on[u])' => IsAllowed(on[u])
  BY <1>2 DEF Rewrite, TypeOK, IsAllowed
<1>3. \A u \in Tunnels : denied'[u] = IF on[u] = l /\ IsAllowed(l)' THEN 0 ELSE denied[u]
  BY DEF Rewrite, Readmit
<1>4. GateInv'
  BY <1>3 DEF GateSafe, GateInv, Rewrite
<1>5. DenyInv'
  <2> SUFFICES ASSUME NEW u \in Tunnels
               PROVE  /\ denied'[u] < MaxBatch
                      /\ ok[u] /\ pc[u] # "done" => denied'[u] <= pending[u]
                      /\ pc[u] # "done" /\ IsAllowed(on[u])' => denied'[u] = 0
    BY DEF DenyInv, Rewrite
  <2>1. pending[u] \in Nat /\ denied[u] \in Nat
    BY BoundsAssumption DEF TypeOK
  <2>2. CASE on[u] = l
    <3>1. IsAllowed(on[u])' <=> IsAllowed(l)'
      BY <2>2 DEF Rewrite, IsAllowed
    <3>2. denied'[u] = IF IsAllowed(l)' THEN 0 ELSE denied[u]
      BY <2>2, <1>3
    <3>3. denied[u] < MaxBatch /\ (ok[u] /\ pc[u] # "done" => denied[u] <= pending[u])
      BY DEF GateSafe, DenyInv
    <3>4. CASE IsAllowed(l)'
      BY <2>1, <3>2, <3>4, BoundsAssumption
    <3>5. CASE ~IsAllowed(l)'
      BY <3>1, <3>2, <3>3, <3>5
    <3>. QED BY <3>4, <3>5
  <2>3. CASE on[u] # l
    BY <2>1, <2>3, <1>2, <1>3 DEF GateSafe, DenyInv
  <2>. QED BY <2>2, <2>3
<1>. QED BY <1>1, <1>4, <1>5 DEF GateSafe

\* A step that takes allowance away from links and leaves gates alone is safe.
LEMMA QuietGates ==
  ASSUME TypeOK, GateSafe, UNCHANGED <<pc, on, pumps, pending, ok, unbilled, denied>>,
         \A l \in Links : IsAllowed(l)' => IsAllowed(l)
  PROVE GateSafe'
  BY DEF TypeOK, GateSafe, StageInv, GateInv, DenyInv

\* No edit of a link lets a gate run past its batch.
LEMMA ManageGates == ASSUME TypeOK, GateSafe, Manage PROVE GateSafe'
<1> SUFFICES ASSUME NEW l \in Links, 
               \/ \E active \in BOOLEAN, limit \in Limits, cap \in Caps, expired \in BOOLEAN :
                    CreateLink(l, active, limit, cap, expired)
               \/ \E active \in BOOLEAN : PatchActive(l, active)
               \/ \E allowed \in Locks : PatchAllowedIps(l, allowed)
               \/ \E cap \in Caps : PatchCap(l, cap)
               \/ \E limit \in Limits, expired \in BOOLEAN, reset \in BOOLEAN :
                    PatchTerms(l, limit, expired, reset)
               \/ DeleteLink(l)
               \/ Expire(l)
             PROVE GateSafe'
  BY DEF Manage
<1>1. CASE \E active \in BOOLEAN, limit \in Limits, cap \in Caps, expired \in BOOLEAN :
             CreateLink(l, active, limit, cap, expired)
  BY <1>1, RewriteGates DEF CreateLink
<1>2. CASE \E active \in BOOLEAN : PatchActive(l, active)
  BY <1>2, RewriteGates DEF PatchActive
<1>3. CASE \E allowed \in Locks : PatchAllowedIps(l, allowed)
  BY <1>3, RewriteGates DEF PatchAllowedIps
<1>4. CASE \E cap \in Caps : PatchCap(l, cap)
  BY <1>4, RewriteGates DEF PatchCap
<1>5. CASE \E limit \in Limits, expired \in BOOLEAN, reset \in BOOLEAN :
             PatchTerms(l, limit, expired, reset)
  BY <1>5, RewriteGates DEF PatchTerms
<1>6. CASE DeleteLink(l)
  <2>1. \A k \in Links : IsAllowed(k)' => IsAllowed(k)
    BY <1>6 DEF DeleteLink, IsAllowed, TypeOK
  <2>. QED BY <1>6, <2>1, QuietGates DEF DeleteLink, gateVars
<1>7. CASE Expire(l)
  <2>1. \A k \in Links : IsAllowed(k)' => IsAllowed(k)
    BY <1>7 DEF Expire, IsAllowed, TypeOK, Policy
  <2>. QED BY <1>7, <2>1, QuietGates DEF Expire, gateVars
<1>. QED BY <1>1, <1>2, <1>3, <1>4, <1>5, <1>6, <1>7

\* What one gate operation of tunnel t does, whichever it is: it leaves the
\* other gates alone, allows no link, and keeps the books of its own gate.
LEMMA GateStep ==
  ASSUME TypeOK, GateSafe, NEW t \in Tunnels, NEW n \in Nat, UNCHANGED stored,
         pc[t] \notin {"idle", "done"},
         Admit(t, n) \/ Refuse(t) \/ Flush(t)
  PROVE  /\ \A l \in Links : IsAllowed(l)' => IsAllowed(l)
         /\ \A u \in Tunnels \ {t} :
              /\ pending'[u] = pending[u] /\ ok'[u] = ok[u]
              /\ unbilled'[u] = unbilled[u] /\ denied'[u] = denied[u]
         /\ unbilled'[t] < MaxBatch
         /\ ok'[t] => unbilled'[t] = pending'[t]
         /\ ~ok'[t] => pending'[t] = 0
         /\ denied'[t] < MaxBatch
         /\ ok'[t] => denied'[t] <= pending'[t]
         /\ IsAllowed(on[t]) => denied'[t] = 0
<1>0. /\ pending[t] \in Nat /\ denied[t] \in Nat /\ unbilled[t] \in Int
      /\ MaxBatch \in Nat \ {0} /\ ok[t] \in BOOLEAN /\ on[t] \in Links
      /\ pending[t] < MaxBatch
  BY BoundsAssumption DEF TypeOK
<1>1. /\ unbilled[t] < MaxBatch
      /\ ok[t] => unbilled[t] = pending[t]
      /\ ~ok[t] => pending[t] = 0
      /\ denied[t] < MaxBatch
      /\ ok[t] => denied[t] <= pending[t]
      /\ IsAllowed(on[t]) => denied[t] = 0
  BY DEF GateSafe, GateInv, DenyInv
<1>2. CASE Hold(t, n)
  <2>1. /\ pending' = [pending EXCEPT ![t] = @ + n]
        /\ ok[t] /\ ok' = ok /\ link' = link
        /\ unbilled' = [unbilled EXCEPT ![t] = @ + n - 0]
        /\ denied' = [denied EXCEPT ![t] = IF IsAllowed(on[t]) THEN 0 ELSE @ + n]
        /\ pending[t] + n < MaxBatch
    BY <1>0, <1>2 DEF Hold, Pass, MustFlush
  <2>2. \A l \in Links : IsAllowed(l)' => IsAllowed(l)
    BY <2>1 DEF IsAllowed
  <2>. QED BY <1>0, <1>1, <2>1, <2>2 DEF TypeOK
<1>3. CASE Charge(t, n)
  <2>1. /\ pending' = [pending EXCEPT ![t] = 0]
        /\ ok[t] /\ ok' = ok /\ IsAllowed(on[t])
        /\ unbilled' = [unbilled EXCEPT ![t] = @ + n - (pending[t] + n)]
        /\ denied' = [denied EXCEPT ![t] = 0]
        /\ Use(t, pending[t] + n)
    BY <1>3 DEF Charge, Pass
  <2>2. ASSUME NEW l \in Links, IsAllowed(l)' PROVE IsAllowed(l)
    <3>1. pending[t] + n \in Nat
      BY <1>0
    <3>2. link' = [link EXCEPT ![on[t]].used = @ + (pending[t] + n)]
      BY <2>1 DEF Use
    <3>. QED BY <1>0, <2>2, <3>1, <3>2, UseKeepsDenied
  <2>. QED BY <1>0, <1>1, <2>1, <2>2 DEF TypeOK
<1>4. CASE Refuse(t)
  <2>1. \A l \in Links : IsAllowed(l)' => IsAllowed(l)
    BY <1>4 DEF Refuse, IsAllowed
  <2>. QED BY <1>0, <1>1, <1>4, <2>1 DEF Refuse, TypeOK
<1>5. CASE Flush(t)
  <2>1. pending' = [pending EXCEPT ![t] = 0] /\ denied' = denied
    BY <1>5 DEF Flush
  <2>2. CASE pending[t] = 0 /\ UNCHANGED <<link, ok, unbilled>>
    <3>1. \A l \in Links : IsAllowed(l)' => IsAllowed(l)
      BY <2>2 DEF IsAllowed
    <3>. QED BY <1>0, <1>1, <2>1, <2>2, <3>1 DEF TypeOK
  <2>3. CASE /\ pending[t] > 0 /\ ok[t] /\ IsAllowed(on[t])
             /\ Use(t, pending[t])
             /\ unbilled' = [unbilled EXCEPT ![t] = @ - pending[t]]
             /\ UNCHANGED ok
    <3>1. \A l \in Links : IsAllowed(l)' => IsAllowed(l)
      BY <1>0, <2>3, UseKeepsDenied DEF Use
    <3>. QED BY <1>0, <1>1, <2>1, <2>3, <3>1 DEF TypeOK
  <2>4. CASE /\ pending[t] > 0 /\ (~ok[t] \/ ~IsAllowed(on[t]))
             /\ ok' = [ok EXCEPT ![t] = FALSE]
             /\ UNCHANGED <<link, unbilled>>
    <3>1. \A l \in Links : IsAllowed(l)' => IsAllowed(l)
      BY <2>4 DEF IsAllowed
    <3>. QED BY <1>0, <1>1, <2>1, <2>4, <3>1 DEF TypeOK
  <2>. QED BY <1>5, <2>2, <2>3, <2>4 DEF Flush
<1>. QED BY <1>2, <1>3, <1>4, <1>5 DEF Admit

\* A gate step of a running tunnel that leaves the tunnel's binding alone, and
\* does not start pumps, keeps the gates safe.
LEMMA GateStepSafe ==
  ASSUME TypeOK, GateSafe, NEW t \in Tunnels, NEW n \in Nat,
         UNCHANGED <<stored, on>>,
         pc[t] \notin {"idle", "done"},
         pc'[t] # "idle",
         \A u \in Tunnels \ {t} : pc'[u] = pc[u] /\ pumps'[u] = pumps[u],
         pc'[t] # "relaying" => pumps'[t] = {},
         Admit(t, n) \/ Refuse(t) \/ Flush(t)
  PROVE GateSafe'
<1>1. StageInv'
  BY DEF GateSafe, StageInv
<1>2. ASSUME NEW u \in Tunnels, IsAllowed(on[u])' PROVE IsAllowed(on[u])
  <2>1. PICK k \in Links : k = on[u] /\ k = on'[u]
    BY DEF TypeOK
  <2>2. IsAllowed(k)'
    BY <1>2, <2>1 DEF IsAllowed
  <2>3. IsAllowed(k)
    BY <2>2, GateStep
  <2>. QED BY <2>1, <2>3 DEF IsAllowed
<1>3. GateInv'
  BY GateStep DEF GateSafe, GateInv
<1>4. DenyInv'
  BY <1>2, GateStep DEF GateSafe, DenyInv
<1>. QED BY <1>1, <1>3, <1>4 DEF GateSafe

\* A tunnel that leaves takes its gate with it.
LEMMA LeaveGates ==
  ASSUME TypeOK, GateSafe, NEW t \in Tunnels, Leave(t), UNCHANGED pumps, pumps[t] = {},
         \/ UNCHANGED <<link, ok, unbilled, denied>>
         \/ Refuse(t) /\ pc[t] = "handshake"
  PROVE GateSafe'
<1>1. StageInv'
  BY DEF GateSafe, StageInv, Leave, TypeOK
<1>2. ASSUME NEW u \in Tunnels \ {t}, IsAllowed(on[u])' PROVE IsAllowed(on[u])
  <2>1. PICK k \in Links : k = on[u] /\ k = on'[u]
    BY DEF TypeOK, Leave
  <2>2. link' = link /\ stored' = stored
    BY DEF Leave, Refuse
  <2>. QED BY <1>2, <2>1, <2>2 DEF IsAllowed
<1>3. /\ unbilled' = unbilled /\ denied' = denied
      /\ pending' = [pending EXCEPT ![t] = 0]
      /\ pc' = [pc EXCEPT ![t] = "done"]
      /\ \A u \in Tunnels \ {t} : ok'[u] = ok[u]
  BY DEF Leave, Refuse, TypeOK
<1>4. GateInv'
  BY <1>3, BoundsAssumption DEF GateSafe, GateInv, TypeOK
<1>5. DenyInv'
  BY <1>2, <1>3, BoundsAssumption DEF GateSafe, DenyInv, TypeOK
<1>. QED BY <1>1, <1>4, <1>5 DEF GateSafe

\* Neither does any step of a tunnel.
LEMMA TunnelGates == ASSUME TypeOK, GateSafe, NEW t \in Tunnels, Tunnel(t) PROVE GateSafe'
<1>0. 1..MaxChunk \subseteq Nat
  BY BoundsAssumption
<1>1. ASSUME NEW l \in Links, NEW i \in Ips, OpenVless(t, l, i) PROVE GateSafe'
  <2>1. UNCHANGED <<link, stored, pumps, pending, ok, unbilled, denied>>
    BY <1>1 DEF OpenVless, gateVars
  <2>2. /\ pc[t] = "idle" /\ pc' = [pc EXCEPT ![t] = "handshake"]
        /\ on' = [on EXCEPT ![t] = l]
    BY <1>1 DEF OpenVless, Register
  <2>3. \A u \in Tunnels \ {t} : IsAllowed(on[u])' <=> IsAllowed(on[u])
    BY <2>1, <2>2 DEF IsAllowed, TypeOK
  <2>4. StageInv' /\ GateInv'
    BY <2>1, <2>2 DEF GateSafe, StageInv, GateInv, TypeOK
  <2>5. DenyInv'
    BY <2>1, <2>2, <2>3, BoundsAssumption DEF GateSafe, GateInv, DenyInv, TypeOK
  <2>. QED BY <2>4, <2>5 DEF GateSafe
<1>2. ASSUME NEW l \in Links, NEW i \in Ips, NEW n \in 1..MaxChunk,
             OpenByFirstFrame(t, l, i, n)
      PROVE GateSafe'
  <2>1. UNCHANGED <<stored, pumps, ok, denied>>
    BY <1>2 DEF OpenByFirstFrame
  <2>2. /\ pc[t] = "idle" /\ pc' = [pc EXCEPT ![t] = "connecting"]
        /\ on' = [on EXCEPT ![t] = l]
    BY <1>2 DEF OpenByFirstFrame, Register
  <2>3. \/ link' = link
        \/ link' = [link EXCEPT ![l].used = @ + n]
    BY <1>2 DEF OpenByFirstFrame
  <2>4. ASSUME NEW u \in Tunnels \ {t}, IsAllowed(on[u])' PROVE IsAllowed(on[u])
    <3>1. PICK k \in Links : k = on[u] /\ k = on'[u]
      BY <2>2 DEF TypeOK
    <3>2. IsAllowed(k)'
      BY <2>4, <3>1 DEF IsAllowed
    <3>3. CASE link' = link
      BY <2>1, <3>1, <3>2, <3>3 DEF IsAllowed
    <3>4. CASE link' = [link EXCEPT ![l].used = @ + n]
      BY <1>0, <2>1, <3>1, <3>2, <3>4, UseKeepsDenied
    <3>. QED BY <2>3, <3>3, <3>4
  <2>5. \/ /\ n < MaxBatch
           /\ pending' = [pending EXCEPT ![t] = n]
           /\ unbilled' = [unbilled EXCEPT ![t] = n]
        \/ UNCHANGED <<pending, unbilled>>
    BY <1>2 DEF OpenByFirstFrame
  <2>6. StageInv' /\ GateInv'
    BY <2>1, <2>2, <2>5 DEF GateSafe, StageInv, GateInv, TypeOK
  <2>7. DenyInv'
    BY <1>0, <2>1, <2>2, <2>4, <2>5, BoundsAssumption
    DEF GateSafe, GateInv, DenyInv, TypeOK
  <2>. QED BY <2>6, <2>7 DEF GateSafe
<1>3. ASSUME NEW n \in 1..MaxChunk, FirstFrame(t, n) PROVE GateSafe'
  <2>1. pc[t] = "handshake" /\ pumps[t] = {}
    BY <1>3 DEF FirstFrame, GateSafe, StageInv
  <2>2. CASE Admit(t, n) /\ pc' = [pc EXCEPT ![t] = "connecting"]
             /\ UNCHANGED <<stored, pumps, open, trackVars>>
    BY <1>0, <2>1, <2>2, GateStepSafe DEF trackVars, TypeOK
  <2>3. CASE Refuse(t) /\ Leave(t) /\ UNCHANGED pumps
    BY <2>1, <2>3, LeaveGates
  <2>. QED BY <1>3, <2>2, <2>3 DEF FirstFrame
<1>4. CASE HandshakeFails(t)
  BY <1>4, LeaveGates DEF HandshakeFails, GateSafe, StageInv
<1>5. CASE Connected(t)
  BY <1>5 DEF Connected, trackVars, gateVars, GateSafe, StageInv, GateInv, DenyInv,
              IsAllowed, TypeOK
<1>6. CASE ConnectFails(t)
  BY <1>6, LeaveGates DEF ConnectFails, GateSafe, StageInv
<1>7. ASSUME NEW d \in Directions, NEW n \in 1..MaxChunk, Chunk(t, d, n) PROVE GateSafe'
  <2>1. pc[t] = "relaying"
    BY <1>7 DEF Chunk, GateSafe, StageInv
  <2>2. CASE Admit(t, n) /\ UNCHANGED <<stored, pc, pumps, open, trackVars>>
    BY <1>0, <2>1, <2>2, GateStepSafe DEF trackVars
  <2>3. CASE Refuse(t) /\ StopPump(t, d)
    BY <1>0, <2>1, <2>3, GateStepSafe DEF StopPump, trackVars, TypeOK
  <2>. QED BY <1>7, <2>2, <2>3 DEF Chunk
<1>8. ASSUME NEW d \in Directions, PumpEnds(t, d) PROVE GateSafe'
  <2>1. pc[t] = "relaying"
    BY <1>8 DEF PumpEnds, GateSafe, StageInv
  <2>. QED BY <1>8, <2>1, GateStepSafe DEF PumpEnds, StopPump, trackVars, TypeOK
<1>9. CASE CancelOtherPump(t)
  <2>1. /\ pc[t] = "relaying"
        /\ pumps' = [pumps EXCEPT ![t] = {}]
        /\ pc' = [pc EXCEPT ![t] = "closing"]
        /\ UNCHANGED <<stored, on>>
    BY <1>9 DEF CancelOtherPump, trackVars
  <2>2. CASE Flush(t)
    BY <2>1, <2>2, GateStepSafe DEF TypeOK
  <2>3. CASE UNCHANGED <<link, gateVars>>
    BY <2>1, <2>3 DEF gateVars, GateSafe, StageInv, GateInv, DenyInv, IsAllowed, TypeOK
  <2>. QED BY <1>9, <2>2, <2>3 DEF CancelOtherPump
<1>10. CASE Closed(t)
  BY <1>10, LeaveGates DEF Closed, GateSafe, StageInv
<1>11. CASE ClientGone(t)
  BY <1>11, QuietGates DEF ClientGone, trackVars, gateVars, IsAllowed
<1>12. CASE KillCloses(t)
  BY <1>12, QuietGates DEF KillCloses, trackVars, gateVars, IsAllowed
<1>. QED
  BY <1>1, <1>2, <1>3, <1>4, <1>5, <1>6, <1>7, <1>8, <1>9, <1>10, <1>11, <1>12 DEF Tunnel

-----------------------------------------------------------------------------
(* The device lock.                                                        *)

LockSafe == KillInv /\ LockKicksOutsiders

\* A step that adds no connection, forgets no kill callback of a connection that
\* stays, and locks no link, is safe.
LEMMA QuietLocks ==
  ASSUME TypeOK, LockSafe,
         Registered' \subseteq Registered, stored' \subseteq stored,
         kicked' = kicked,
         \A t \in Registered' : /\ t \in killers => t \in killers'
                                /\ on'[t] = on[t] /\ ip'[t] = ip[t]
                                /\ link'[on[t]].allowed = link[on[t]].allowed
  PROVE LockSafe'
<1>1. KillInv'
  BY DEF LockSafe, KillInv
<1>2. LockKicksOutsiders'
  BY DEF LockSafe, LockKicksOutsiders
<1>. QED BY <1>1, <1>2 DEF LockSafe

\* Pushing a lock kicks all that it leaves out; the other edits lock out nobody.
LEMMA ManageLocks == ASSUME TypeOK, LockSafe, Manage PROVE LockSafe'
<1>0. UNCHANGED <<pc, on, ip>>
  BY DEF Manage, CreateLink, PatchActive, PatchAllowedIps, PatchCap, PatchTerms,
         DeleteLink, Expire, Rewrite
<1>1. Registered' = Registered
  BY <1>0 DEF Registered
<1> SUFFICES ASSUME NEW l \in Links, 
               \/ \E active \in BOOLEAN, limit \in Limits, cap \in Caps, expired \in BOOLEAN :
                    CreateLink(l, active, limit, cap, expired)
               \/ \E active \in BOOLEAN : PatchActive(l, active)
               \/ \E allowed \in Locks : PatchAllowedIps(l, allowed)
               \/ \E cap \in Caps : PatchCap(l, cap)
               \/ \E limit \in Limits, expired \in BOOLEAN, reset \in BOOLEAN :
                    PatchTerms(l, limit, expired, reset)
               \/ DeleteLink(l)
               \/ Expire(l)
             PROVE LockSafe'
  BY DEF Manage
\* Every edit but the pushed lock leaves l unlocked or as it was.
<1>2. ASSUME UNCHANGED <<killers, kicked>>,
             \A k \in Links \ {l} : link'[k] = link[k] /\ (k \in stored' <=> k \in stored),
             \/ link'[l].allowed = {}
             \/ link'[l].allowed = link[l].allowed /\ (l \in stored' <=> l \in stored)
      PROVE LockSafe'
  <2>1. KillInv'
    BY <1>1, <1>2 DEF LockSafe, KillInv
  <2>2. LockKicksOutsiders'
    BY <1>0, <1>1, <1>2 DEF LockSafe, LockKicksOutsiders, TypeOK, Registered
  <2>. QED BY <2>1, <2>2 DEF LockSafe
<1>3. ASSUME NEW active \in BOOLEAN, NEW limit \in Limits, NEW cap \in Caps,
             NEW expired \in BOOLEAN, CreateLink(l, active, limit, cap, expired)
      PROVE LockSafe'
  BY <1>2, <1>3 DEF CreateLink, Rewrite, DefaultPolicy, TypeOK
<1>4. ASSUME NEW active \in BOOLEAN, PatchActive(l, active) PROVE LockSafe'
  BY <1>2, <1>4 DEF PatchActive, Rewrite, TypeOK, Policy
<1>5. ASSUME NEW allowed \in Locks, PatchAllowedIps(l, allowed) PROVE LockSafe'
  <2>1. /\ link' = [link EXCEPT ![l] = [link[l] EXCEPT !.allowed = allowed]]
        /\ stored' = stored
    BY <1>5 DEF PatchAllowedIps, Rewrite
  <2>2. link'[l].allowed = allowed /\ \A k \in Links \ {l} : link'[k] = link[k]
    BY <2>1 DEF TypeOK, Policy
  <2>3. CASE allowed = {}
    BY <1>2, <1>5, <2>1, <2>2, <2>3 DEF PatchAllowedIps
  <2>4. CASE allowed # {}
    <3> DEFINE out == {t \in On(l) \cap killers : ip[t] \notin allowed}
    <3>1. killers' = killers \ out /\ kicked' = kicked \cup out
      BY <1>5, <2>4 DEF PatchAllowedIps, Kick
    <3>2. KillInv'
      BY <1>1, <3>1 DEF LockSafe, KillInv
    <3>3. ASSUME NEW t \in Registered, on[t] \in stored, link'[on[t]].allowed # {},
                 ip[t] \notin link'[on[t]].allowed
          PROVE t \in kicked'
      <4>1. CASE on[t] = l
        <5>1. t \in On(l) /\ ip[t] \notin allowed
          BY <3>3, <4>1, <2>2 DEF On
        <5>2. t \in killers \/ t \in kicked
          BY <3>3 DEF LockSafe, KillInv
        <5>. QED BY <5>1, <5>2, <3>1
      <4>2. CASE on[t] # l
        BY <4>2, <3>1, <3>3, <2>2 DEF LockSafe, LockKicksOutsiders, Registered, TypeOK
      <4>. QED BY <4>1, <4>2
    <3>4. LockKicksOutsiders'
      BY <1>0, <1>1, <2>1, <3>3 DEF LockKicksOutsiders
    <3>. QED BY <3>2, <3>4 DEF LockSafe
  <2>. QED BY <2>3, <2>4
<1>6. ASSUME NEW cap \in Caps, PatchCap(l, cap) PROVE LockSafe'
  BY <1>2, <1>6 DEF PatchCap, Rewrite, TypeOK, Policy
<1>7. ASSUME NEW limit \in Limits, NEW expired \in BOOLEAN, NEW reset \in BOOLEAN,
             PatchTerms(l, limit, expired, reset)
      PROVE LockSafe'
  BY <1>2, <1>7 DEF PatchTerms, Rewrite, TypeOK, Policy
<1>8. CASE DeleteLink(l)
  BY <1>2, <1>8 DEF DeleteLink, DefaultPolicy, TypeOK
<1>9. CASE Expire(l)
  BY <1>2, <1>9 DEF Expire, TypeOK, Policy
<1>. QED BY <1>3, <1>4, <1>5, <1>6, <1>7, <1>8, <1>9

\* A gate operation charges a link and touches nothing else of its policy.
LEMMA GateKeepsLocks ==
  ASSUME TypeOK, NEW t \in Tunnels, NEW n \in Nat, Admit(t, n) \/ Refuse(t) \/ Flush(t),
         NEW l \in Links
  PROVE link'[l].allowed = link[l].allowed
<1>1. ASSUME NEW m \in Nat, Use(t, m) PROVE link'[l].allowed = link[l].allowed
  BY <1>1 DEF Use, TypeOK, Policy
<1>2. pending[t] \in Nat
  BY BoundsAssumption DEF TypeOK
<1>3. \/ link' = link \/ Use(t, pending[t]) \/ Use(t, pending[t] + n)
  BY DEF Admit, Hold, Charge, Refuse, Flush
<1>. QED BY <1>1, <1>2, <1>3

\* The slot check admits no outsider of a lock.
LEMMA RegisterLocks ==
  ASSUME TypeOK, LockSafe, NEW t \in Tunnels, NEW l \in Links, NEW i \in Ips,
         Register(t, l, i), stored' = stored,
         \A k \in Links : link'[k].allowed = link[k].allowed,
         \A u \in Tunnels \ {t} : pc'[u] = pc[u]
  PROVE LockSafe'
<1>1. Registered' \subseteq Registered \cup {t}
  BY DEF Registered
<1>2. on' = [on EXCEPT ![t] = l] /\ ip' = [ip EXCEPT ![t] = i]
      /\ killers' = killers \cup {t} /\ kicked' = kicked
  BY DEF Register
<1>3. KillInv'
  BY <1>1, <1>2 DEF LockSafe, KillInv
<1>4. link[l].allowed # {} => i \in link[l].allowed
  BY DEF Register, DeviceSlotAvailable
<1>5. LockKicksOutsiders'
  BY <1>1, <1>2, <1>4 DEF LockSafe, LockKicksOutsiders, Registered, TypeOK
<1>. QED BY <1>3, <1>5 DEF LockSafe

\* A tunnel that leaves is not registered any more.
LEMMA LeaveLocks ==
  ASSUME TypeOK, LockSafe, NEW t \in Tunnels, Leave(t), link' = link
  PROVE LockSafe'
<1>1. Registered' \subseteq Registered \ {t} /\ Registered \subseteq Tunnels
  BY DEF Leave, Registered, TypeOK
<1>. QED BY <1>1, QuietLocks DEF Leave, TypeOK

\* No step of a tunnel brings in an outsider or forgets one.
LEMMA TunnelLocks == ASSUME TypeOK, LockSafe, NEW t \in Tunnels, Tunnel(t) PROVE LockSafe'
<1>0. 1..MaxChunk \subseteq Nat
  BY BoundsAssumption
\* A gate step of a connected tunnel, with the tracker left alone.
<1>a. ASSUME UNCHANGED <<stored, trackVars>>, Registered' = Registered,
             \/ link' = link
             \/ \E n \in Nat : Admit(t, n) \/ Refuse(t) \/ Flush(t)
      PROVE LockSafe'
  <2>1. \A l \in Links : link'[l].allowed = link[l].allowed
    BY <1>a, GateKeepsLocks
  <2>2. \A u \in Registered : on[u] \in Links
    BY DEF Registered, TypeOK
  <2>. QED BY <1>a, <2>1, <2>2, QuietLocks DEF trackVars
<1>1. ASSUME NEW l \in Links, NEW i \in Ips, OpenVless(t, l, i) PROVE LockSafe'
  BY <1>1, RegisterLocks DEF OpenVless, TypeOK
<1>2. ASSUME NEW l \in Links, NEW i \in Ips, NEW n \in 1..MaxChunk,
             OpenByFirstFrame(t, l, i, n)
      PROVE LockSafe'
  <2>0. link' = link \/ link' = [link EXCEPT ![l].used = @ + n]
    BY <1>2 DEF OpenByFirstFrame
  <2>1. \A k \in Links : link'[k].allowed = link[k].allowed
    BY <2>0 DEF TypeOK, Policy
  <2>. QED BY <1>2, <2>1, RegisterLocks DEF OpenByFirstFrame, TypeOK
<1>3. ASSUME NEW n \in 1..MaxChunk, FirstFrame(t, n) PROVE LockSafe'
  <2>1. CASE Admit(t, n) /\ pc' = [pc EXCEPT ![t] = "connecting"]
             /\ UNCHANGED <<stored, pumps, open, trackVars>>
    <3>1. Registered' = Registered
      BY <1>3, <2>1 DEF FirstFrame, Registered, TypeOK
    <3>. QED BY <1>0, <1>a, <2>1, <3>1
  <2>2. CASE Refuse(t) /\ Leave(t)
    BY <2>2, LeaveLocks DEF Refuse
  <2>. QED BY <1>3, <2>1, <2>2 DEF FirstFrame
<1>4. CASE HandshakeFails(t)
  BY <1>4, LeaveLocks DEF HandshakeFails
<1>5. CASE Connected(t)
  <2>1. Registered' = Registered
    BY <1>5 DEF Connected, Registered, TypeOK
  <2>. QED BY <1>5, <1>a, <2>1 DEF Connected
<1>6. CASE ConnectFails(t)
  BY <1>6, LeaveLocks DEF ConnectFails
<1>7. ASSUME NEW d \in Directions, NEW n \in 1..MaxChunk, Chunk(t, d, n) PROVE LockSafe'
  <2>1. UNCHANGED <<stored, pc, trackVars>> /\ (Admit(t, n) \/ Refuse(t))
    BY <1>7 DEF Chunk, StopPump
  <2>2. Registered' = Registered
    BY <2>1 DEF Registered
  <2>. QED BY <1>0, <1>a, <2>1, <2>2
<1>8. ASSUME NEW d \in Directions, PumpEnds(t, d) PROVE LockSafe'
  <2>1. UNCHANGED <<stored, pc, trackVars>> /\ Flush(t)
    BY <1>8 DEF PumpEnds, StopPump
  <2>2. Registered' = Registered
    BY <2>1 DEF Registered
  <2>. QED BY <1>a, <2>1, <2>2
<1>9. CASE CancelOtherPump(t)
  <2>1. Registered' = Registered
    BY <1>9 DEF CancelOtherPump, Registered, TypeOK
  <2>2. link' = link \/ Flush(t)
    BY <1>9 DEF CancelOtherPump
  <2>. QED BY <1>9, <1>a, <2>1, <2>2 DEF CancelOtherPump
<1>10. CASE Closed(t)
  BY <1>10, LeaveLocks DEF Closed
<1>11. CASE ClientGone(t)
  BY <1>11, <1>a DEF ClientGone, Registered
<1>12. CASE KillCloses(t)
  BY <1>12, <1>a DEF KillCloses, Registered
<1>. QED
  BY <1>1, <1>2, <1>3, <1>4, <1>5, <1>6, <1>7, <1>8, <1>9, <1>10, <1>11, <1>12 DEF Tunnel

-----------------------------------------------------------------------------
(* The theorems.                                                           *)

\* The inductive invariant holds in every state a Core reaches.
THEOREM Invariance == Spec => []IInv
<1> DEFINE J == TypeOK /\ GateSafe /\ LockSafe
<1>1. Init => J
  BY InitType, InitGates DEF Init, LockSafe, KillInv, LockKicksOutsiders, Registered
<1>2. J /\ [Next]_vars => J'
  <2> SUFFICES ASSUME J, [Next]_vars PROVE J'
    OBVIOUS
  <2>1. CASE Manage
    BY <2>1, ManageType, ManageGates, ManageLocks
  <2>2. CASE \E t \in Tunnels : Tunnel(t)
    BY <2>2, TunnelType, TunnelGates, TunnelLocks
  <2>3. CASE UNCHANGED vars
    BY <2>3 DEF vars, TypeOK, GateSafe, StageInv, GateInv, DenyInv, IsAllowed,
                LockSafe, KillInv, LockKicksOutsiders, Registered
  <2>. QED BY <2>1, <2>2, <2>3 DEF Next
<1>3. J => IInv
  BY DEF IInv, GateSafe, LockSafe
<1>. QED BY <1>1, <1>2, <1>3, PTL DEF Spec

\* What a tunnel relays without billing it to its link stays below one batch,
\* whatever happens to the link and however the tunnel ends.
THEOREM Billing == Spec => []UnbilledBelowBatch
<1>1. IInv => UnbilledBelowBatch
  BY DEF IInv, GateInv, UnbilledBelowBatch
<1>. QED BY Invariance, <1>1, PTL

\* A tunnel relays less than one batch after its link stopped being allowed.
THEOREM Cutoff == Spec => []CutoffBelowBatch
<1>1. IInv => CutoffBelowBatch
  BY DEF IInv, DenyInv, CutoffBelowBatch
<1>. QED BY Invariance, <1>1, PTL

\* No connection from outside a device lock survives it untold.
THEOREM DeviceLock == Spec => []LockKicksOutsiders
<1>1. IInv => LockKicksOutsiders
  BY DEF IInv
<1>. QED BY Invariance, <1>1, PTL
-----------------------------------------------------------------------------
(* The devices of a link.  A Core may see any number of tunnels, but only  *)
(* finitely many at a time.                                                *)

FewTunnels == IsFiniteSet(Registered)

\* The devices of link l: the same or fewer, or one more that was given a slot.
DeviceStep(l) ==
  \/ ActiveIps(l)' \subseteq ActiveIps(l)
  \/ \E i \in Ips :
       /\ ActiveIps(l)' = ActiveIps(l) \cup {i}
       /\ DeviceSlotAvailable(l, i)
       /\ link'[l].cap = link[l].cap /\ link'[l].allowed = link[l].allowed

\* A step that registers nobody, and moves nobody who stays, adds no device.
LEMMA NobodyNew ==
  ASSUME Registered' \subseteq Registered, NEW l \in Links,
         \A u \in Registered' : on'[u] = on[u] /\ ip'[u] = ip[u]
  PROVE  DeviceStep(l)
<1>1. On(l)' \subseteq On(l) /\ On(l)' \subseteq Registered'
  BY DEF On
<1>2. ActiveIps(l)' \subseteq ActiveIps(l)
  BY <1>1 DEF ActiveIps
<1>. QED BY <1>2 DEF DeviceStep

\* A step that leaves the tracker alone.
LEMMA SameTracker ==
  ASSUME UNCHANGED <<pc, on, ip>>
  PROVE  Registered' \subseteq Registered /\ \A l \in Links : DeviceStep(l)
<1>1. Registered' = Registered
  BY DEF Registered
<1>. QED BY <1>1, NobodyNew

\* A tunnel that goes from one stage to another and is not new.
LEMMA StageMoves ==
  ASSUME TypeOK, NEW t \in Tunnels, NEW stage \in Stages, pc[t] # "idle", pc[t] # "done",
         pc' = [pc EXCEPT ![t] = stage], UNCHANGED <<on, ip>>
  PROVE  Registered' \subseteq Registered /\ \A l \in Links : DeviceStep(l)
<1>1. pc \in [Tunnels -> Stages]
  BY DEF TypeOK
<1>2. Registered' \subseteq Registered
  <2> SUFFICES ASSUME NEW u \in Registered' PROVE u \in Registered
    OBVIOUS
  <2>1. CASE u = t
    BY <1>1, <2>1 DEF Registered, Stages
  <2>2. CASE u # t
    BY <1>1, <2>2 DEF Registered
  <2>. QED BY <2>1, <2>2
<1>. QED BY <1>2, NobodyNew

\* A tunnel that leaves takes its address with it.
LEMMA LeaveMoves ==
  ASSUME TypeOK, NEW t \in Tunnels, Leave(t)
  PROVE  Registered' \subseteq Registered /\ \A l \in Links : DeviceStep(l)
<1>1. pc \in [Tunnels -> Stages] /\ on \in [Tunnels -> Links] /\ ip \in [Tunnels -> Ips]
  BY DEF TypeOK
<1>2. /\ pc' = [pc EXCEPT ![t] = "done"]
      /\ on' = [on EXCEPT ![t] = AnyLink]
      /\ ip' = [ip EXCEPT ![t] = AnyIp]
  BY DEF Leave
<1>3. t \notin Registered' /\ Registered' \subseteq Registered
  BY <1>1, <1>2 DEF Registered
<1>4. \A u \in Registered' : on'[u] = on[u] /\ ip'[u] = ip[u]
  <2> SUFFICES ASSUME NEW u \in Registered' PROVE on'[u] = on[u] /\ ip'[u] = ip[u]
    OBVIOUS
  <2>1. u \in Tunnels /\ u # t
    BY <1>3 DEF Registered
  <2>. QED BY <1>1, <1>2, <2>1
<1>. QED BY <1>3, <1>4, NobodyNew

\* A tunnel that is admitted gives its link at most one device more, and only
\* by DeviceSlotAvailable.
LEMMA RegisterMoves ==
  ASSUME TypeOK, NEW t \in Tunnels, NEW k \in Links, NEW i \in Ips, NEW stage,
         Register(t, k, i), stage \in {"handshake", "connecting"},
         pc' = [pc EXCEPT ![t] = stage],
         \A l \in Links : link'[l].cap = link[l].cap /\ link'[l].allowed = link[l].allowed
  PROVE  Registered' = Registered \cup {t} /\ \A l \in Links : DeviceStep(l)
<1>1. pc \in [Tunnels -> Stages] /\ on \in [Tunnels -> Links] /\ ip \in [Tunnels -> Ips]
  BY DEF TypeOK
<1>2. /\ pc[t] = "idle"
      /\ DeviceSlotAvailable(k, i)
      /\ on' = [on EXCEPT ![t] = k]
      /\ ip' = [ip EXCEPT ![t] = i]
  BY DEF Register
<1>3. Registered' = Registered \cup {t} /\ t \notin Registered
  BY <1>1, <1>2 DEF Registered
<1>4. \A u \in Registered : on'[u] = on[u] /\ ip'[u] = ip[u]
  BY <1>1, <1>2, <1>3 DEF Registered
<1>5. on'[t] = k /\ ip'[t] = i
  BY <1>1, <1>2
<1>6. ASSUME NEW l \in Links PROVE DeviceStep(l)
  <2>0. \A u \in On(l) : ip'[u] = ip[u]
    BY <1>4 DEF On
  <2>1. CASE l = k
    <3>1. On(l)' = On(l) \cup {t}
      BY <1>3, <1>4, <1>5, <2>1 DEF On
    <3>2. ActiveIps(l)' = ActiveIps(l) \cup {i}
      BY <1>5, <2>0, <3>1 DEF ActiveIps
    <3>. QED BY <1>2, <2>1, <3>2 DEF DeviceStep
  <2>2. CASE l # k
    <3>1. On(l)' = On(l)
      BY <1>3, <1>4, <1>5, <2>2 DEF On
    <3>2. ActiveIps(l)' \subseteq ActiveIps(l)
      BY <2>0, <3>1 DEF ActiveIps
    <3>. QED BY <3>2 DEF DeviceStep
  <2>. QED BY <2>1, <2>2
<1>. QED BY <1>3, <1>6

\* Every step of a tunnel: the tracker gains at most that tunnel.
LEMMA TunnelMoves ==
  ASSUME TypeOK, NEW t \in Tunnels, Tunnel(t)
  PROVE  Registered' \subseteq Registered \cup {t} /\ \A l \in Links : DeviceStep(l)
<1>1. ASSUME NEW l \in Links, NEW i \in Ips, OpenVless(t, l, i)
      PROVE  Registered' \subseteq Registered \cup {t} /\ \A k \in Links : DeviceStep(k)
  <2>1. /\ Register(t, l, i)
        /\ pc' = [pc EXCEPT ![t] = "handshake"]
        /\ UNCHANGED link
    BY <1>1 DEF OpenVless
  <2>. QED BY <2>1, RegisterMoves
<1>2. ASSUME NEW l \in Links, NEW i \in Ips, NEW n \in 1..MaxChunk,
             OpenByFirstFrame(t, l, i, n)
      PROVE  Registered' \subseteq Registered \cup {t} /\ \A k \in Links : DeviceStep(k)
  <2>1. /\ Register(t, l, i)
        /\ pc' = [pc EXCEPT ![t] = "connecting"]
    BY <1>2 DEF OpenByFirstFrame
  <2>2. link' = link \/ link' = [link EXCEPT ![l].used = @ + n]
    BY <1>2 DEF OpenByFirstFrame
  <2>3. ASSUME NEW k \in Links
        PROVE  link'[k].cap = link[k].cap /\ link'[k].allowed = link[k].allowed
    BY <2>2 DEF TypeOK, Policy
  <2>. QED BY <2>1, <2>3, RegisterMoves
<1>3. ASSUME NEW n \in 1..MaxChunk, FirstFrame(t, n)
      PROVE  Registered' \subseteq Registered \cup {t} /\ \A l \in Links : DeviceStep(l)
  <2>1. CASE pc' = [pc EXCEPT ![t] = "connecting"] /\ UNCHANGED trackVars
    BY <1>3, <2>1, StageMoves DEF FirstFrame, trackVars, Stages
  <2>2. CASE Leave(t)
    BY <2>2, LeaveMoves
  <2>. QED BY <1>3, <2>1, <2>2 DEF FirstFrame
<1>4. CASE HandshakeFails(t) \/ ConnectFails(t) \/ Closed(t)
  BY <1>4, LeaveMoves DEF HandshakeFails, ConnectFails, Closed
<1>5. CASE Connected(t)
  BY <1>5, StageMoves DEF Connected, trackVars, Stages
<1>6. CASE CancelOtherPump(t)
  BY <1>6, StageMoves DEF CancelOtherPump, trackVars, Stages
<1>7. CASE \/ \E d \in Directions, n \in 1..MaxChunk : Chunk(t, d, n)
           \/ \E d \in Directions : PumpEnds(t, d)
           \/ ClientGone(t)
           \/ KillCloses(t)
  BY <1>7, SameTracker DEF Chunk, PumpEnds, StopPump, ClientGone, KillCloses, trackVars
<1>. QED BY <1>1, <1>2, <1>3, <1>4, <1>5, <1>6, <1>7 DEF Tunnel

\* The management API admits nobody.
LEMMA ManageMoves ==
  ASSUME Manage PROVE Registered' \subseteq Registered /\ \A l \in Links : DeviceStep(l)
<1>1. UNCHANGED <<pc, on, ip>>
  BY DEF Manage, CreateLink, PatchActive, PatchAllowedIps, PatchCap, PatchTerms, DeleteLink,
         Expire, Rewrite
<1>. QED BY <1>1, SameTracker

\* Every step of a Core keeps the connected tunnels finite and is a DeviceStep.
LEMMA DevicesMove ==
  ASSUME TypeOK, FewTunnels, [Next]_vars
  PROVE  FewTunnels' /\ \A l \in Links : DeviceStep(l)
<1>1. CASE Manage
  BY <1>1, ManageMoves, FS_Subset DEF FewTunnels
<1>2. ASSUME NEW t \in Tunnels, Tunnel(t)
      PROVE  FewTunnels' /\ \A l \in Links : DeviceStep(l)
  <2>1. Registered' \subseteq Registered \cup {t} /\ \A l \in Links : DeviceStep(l)
    BY <1>2, TunnelMoves
  <2>2. IsFiniteSet(Registered \cup {t})
    BY FS_AddElement DEF FewTunnels
  <2>. QED BY <2>1, <2>2, FS_Subset DEF FewTunnels
<1>3. CASE UNCHANGED vars
  BY <1>3, SameTracker, FS_Subset DEF vars, FewTunnels
<1>. QED BY <1>1, <1>2, <1>3 DEF Next

\* The devices of a link are finitely many.
LEMMA FewDevices ==
  ASSUME FewTunnels, NEW l
  PROVE  IsFiniteSet(ActiveIps(l)) /\ Cardinality(ActiveIps(l)) \in Nat
<1> DEFINE address == [t \in On(l) |-> ip[t]]
<1>1. On(l) \in SUBSET Registered
  BY DEF On
<1>2. IsFiniteSet(On(l))
  BY <1>1, FS_Subset DEF FewTunnels
<1>3. address \in Surjection(On(l), ActiveIps(l))
  BY DEF Surjection, ActiveIps
<1> HIDE DEF address
<1>4. IsFiniteSet(ActiveIps(l))
  BY <1>2, <1>3, FS_Surjection
<1>. QED BY <1>4, FS_CardinalityType

\* A cap is a number.
LEMMA CapType == ASSUME TypeOK, NEW l \in Links PROVE link[l].cap \in Nat
<1>1. link[l] \in Policy
  BY DEF TypeOK
<1>2. link[l].cap \in Caps \cup {0}
  BY <1>1 DEF Policy
<1>3. Caps \cup {0} \subseteq Nat
  BY BoundsAssumption
<1>. QED BY <1>2, <1>3, Zenon

\* Such a step keeps to the cap, or to the lock.
LEMMA StepWithinCap ==
  ASSUME TypeOK, FewTunnels, NEW l \in Links, DeviceStep(l),
         Cardinality(ActiveIps(l)') > Cardinality(ActiveIps(l))
  PROVE  \/ link'[l].cap = 0
         \/ Cardinality(ActiveIps(l)') <= link'[l].cap
         \/ ActiveIps(l)' \ ActiveIps(l) \subseteq link'[l].allowed
<1> DEFINE before == ActiveIps(l)
           after == ActiveIps(l)'
<1>1. IsFiniteSet(before) /\ Cardinality(before) \in Nat
  BY FewDevices
<1>2. Cardinality(after) > Cardinality(before)
  OBVIOUS
<1> HIDE DEF before, after
<1>3. ~(after \subseteq before)
  <2> SUFFICES ASSUME after \subseteq before PROVE FALSE
    OBVIOUS
  <2>1. IsFiniteSet(after) /\ Cardinality(after) <= Cardinality(before)
    BY <1>1, FS_Subset
  <2>2. Cardinality(after) \in Nat
    BY <2>1, FS_CardinalityType
  <2>. QED BY <1>1, <1>2, <2>1, <2>2
<1>4. PICK i \in Ips : /\ after = before \cup {i}
                       /\ DeviceSlotAvailable(l, i)
                       /\ link'[l].cap = link[l].cap
                       /\ link'[l].allowed = link[l].allowed
  BY <1>3, Zenon DEF DeviceStep, before, after
<1>5. i \notin before
  BY <1>3, <1>4
<1>6. Cardinality(after) = Cardinality(before) + 1
  BY <1>1, <1>4, <1>5, FS_AddElement
<1>7. \/ i \in link[l].allowed
      \/ link[l].cap = 0
      \/ Cardinality(before) < link[l].cap
  BY <1>4, <1>5 DEF DeviceSlotAvailable, before
<1>8. link[l].cap \in Nat
  BY CapType
<1>9. \/ link'[l].cap = 0
      \/ Cardinality(after) <= link'[l].cap
      \/ after \ before \subseteq link'[l].allowed
  BY <1>1, <1>4, <1>6, <1>7, <1>8
<1>. QED BY <1>9 DEF before, after

\* is_device_slot_available keeps the devices of a link within its cap, for any
\* number of tunnels, addresses and links and any cap: the check and register()
\* are one step, and no other step admits anybody.
THEOREM DeviceCap == Spec => DevicesGrowWithinCap
<1>1. Init => FewTunnels
  <2>1. Init => Registered = {}
    BY DEF Init, Registered
  <2>. QED BY <2>1, FS_EmptySet DEF FewTunnels
<1>2. TypeOK /\ FewTunnels /\ [Next]_vars =>
        /\ FewTunnels'
        /\ [\A l \in Links :
              Cardinality(ActiveIps(l)') > Cardinality(ActiveIps(l)) =>
                \/ link'[l].cap = 0
                \/ Cardinality(ActiveIps(l)') <= link'[l].cap
                \/ ActiveIps(l)' \ ActiveIps(l) \subseteq link'[l].allowed]_vars
  BY DevicesMove, StepWithinCap
<1>. QED BY TypeCorrect, <1>1, <1>2, PTL DEF Spec, DevicesGrowWithinCap

=============================================================================
