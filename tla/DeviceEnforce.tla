---------------------------- MODULE DeviceEnforce ----------------------------
(***************************************************************************)
(* The device cap of one customer across the regions of a plan: the        *)
(* Console's two-second tick, which reads who is connected where, keeps    *)
(* the first addresses as holders of the slots and pushes them as a lock,  *)
(* the Cores that obey the lock, and the administrator's edits.            *)
(*                                                                         *)
(* Time is counted in ticks.  An age grows by one when a tick begins and   *)
(* stops at the threshold it is compared with.                             *)
(***************************************************************************)
EXTENDS Integers, Sequences, FiniteSets, SequencesExt, FiniteSetsExt

CONSTANTS
  NumRegions,  \* the plan's instances
  Ips,         \* client addresses: the Console's idea of a device
  Caps,        \* the values max_devices is given (0: unlimited)
  Confirm,     \* DEVICE_CONFIRM_SECONDS in ticks
  Linger,      \* DEVICE_LINGER_SECONDS in ticks
  MaxMoves,    \* connections the clients open and close
  MaxTrouble,  \* edits, calls that fail and restarts of the Console, together
  Unset        \* _UNSET: no lock is known to be in place

ASSUME DeviceAssumption ==
  /\ NumRegions \in Nat \ {0}
  /\ Caps \subseteq Nat /\ Caps # {}
  /\ {Confirm, Linger, MaxMoves, MaxTrouble} \subseteq Nat

\* Every loop over the regions goes by their position.
Regions == 1..NumRegions

VARIABLES
  cap,       \* the customer's row: max_devices
  conn,      \* who is connected in each region, with the connection's age
  lock,      \* allowed_ips of the region's link (empty: open)
  local,     \* max_devices of the region's link
  presence,  \* _device_presence: addresses in the order of their arrival
  cache,     \* _device_allowed_ips of each region
  tick,      \* the tick and its local variables
  edit,      \* the request that edits max_devices, or creates the links again
  trouble,   \* edits, failed calls and restarts so far
  moves      \* connections opened and closed by the clients so far

coreVars == <<conn, lock, local>>
vars == <<cap, conn, lock, local, presence, cache, tick, edit, trouble, moves>>

Away == -1
NoTick == [stage |-> "idle", at |-> 1, cap |-> 0, want |-> {},
           seen |-> [r \in Regions |-> {}], intruder |-> {}]
NoEdit == [stage |-> "idle", at |-> 1]

\* create_customer in every region.
Init ==
  /\ cap \in Caps
  /\ conn = [r \in Regions |-> [a \in Ips |-> Away]]
  /\ lock = [r \in Regions |-> {}]
  /\ local = [r \in Regions |-> cap]
  /\ presence = <<>>
  /\ cache = [r \in Regions |-> Unset]
  /\ tick = NoTick /\ edit = NoEdit
  /\ trouble = 0 /\ moves = 0

In(r) == {a \in Ips : conn[r][a] # Away}
Connected == UNION {In(r) : r \in Regions}
\* The oldest connections are told apart from those that are just confirmed.
Oldest == Confirm + 1
Older(age) == IF age = Away THEN Away ELSE Min({age + 1, Oldest})

Move == moves < MaxMoves /\ moves' = moves + 1
Trouble == trouble < MaxTrouble /\ trouble' = trouble + 1

-----------------------------------------------------------------------------
(* A region's Core.                                                        *)

\* device_slot_available: the lock, or without one the region's own count.
Admits(r, a) ==
  IF lock[r] # {} THEN a \in lock[r]
  ELSE local[r] = 0 \/ a \in In(r) \/ Cardinality(In(r)) < local[r]

Connect(r, a) ==
  /\ Move
  /\ a \notin In(r) /\ Admits(r, a)
  /\ conn' = [conn EXCEPT ![r][a] = 0]
  /\ UNCHANGED <<cap, lock, local, presence, cache, tick, edit, trouble>>

Disconnect(r, a) ==
  /\ Move
  /\ a \in In(r)
  /\ conn' = [conn EXCEPT ![r][a] = Away]
  /\ UNCHANGED <<cap, lock, local, presence, cache, tick, edit, trouble>>

\* Mutant: the lock holds for connections to come only.
NoKick(r, allowed) == conn[r]
Kick(r, allowed) ==
  [a \in Ips |-> IF allowed = {} \/ a \in allowed THEN conn[r][a] ELSE Away]

PatchLock(r, allowed) ==
  /\ lock' = [lock EXCEPT ![r] = allowed]
  /\ conn' = [conn EXCEPT ![r] = Kick(r, allowed)]

-----------------------------------------------------------------------------
(* enforce_device_limits.                                                  *)

\* The rows with a cap are read, and the time; without a cap the tick only
\* drops what is remembered of the customer.
BeginTick ==
  /\ tick.stage = "idle"
  /\ conn' = [r \in Regions |-> [a \in Ips |-> Older(conn[r][a])]]
  /\ IF cap > 0
     THEN /\ tick' = [NoTick EXCEPT !.stage = "read", !.cap = cap]
          /\ presence' = [k \in DOMAIN presence |->
                           [presence[k] EXCEPT !.age = Min({@ + 1, Oldest}),
                                               !.gone = Min({@ + 1, Linger + 1})]]
          /\ UNCHANGED cache
     ELSE /\ presence' = <<>>
          /\ cache' = [r \in Regions |-> Unset]
          /\ UNCHANGED tick
  /\ UNCHANGED <<cap, lock, local, edit, trouble, moves>>

\* _live_ips_by_region: a region that does not answer is absent.
Read ==
  /\ tick.stage = "read" /\ tick.at \in Regions
  /\ LET r == tick.at IN
     \/ /\ tick' = [tick EXCEPT !.at = @ + 1,
                      !.seen[r] = {<<a, conn[r][a]>> : a \in In(r)}]
        /\ UNCHANGED trouble
     \/ /\ Trouble
        /\ tick' = [tick EXCEPT !.at = @ + 1]
  /\ UNCHANGED <<cap, coreVars, presence, cache, edit, moves>>

Seen == UNION {tick.seen[r] : r \in Regions}
SeenIps == {s[1] : s \in Seen}
AgeOf(a) == Max({s[2] : s \in {t \in Seen : t[1] = a}})

Leaves(rec) == rec.ip \notin SeenIps /\ rec.gone > Linger

Stay == SelectSeq([k \in DOMAIN presence |->
                    IF presence[k].ip \in SeenIps THEN [presence[k] EXCEPT !.gone = 0]
                                                  ELSE presence[k]],
                  LAMBDA rec : ~Leaves(rec))

\* _update_presence.  Addresses are in the order of their first connection;
\* among those past the threshold a new one may have come first.
Old == {Stay[k].ip : k \in DOMAIN Stay}
Arrivals == {[ip |-> a, age |-> AgeOf(a), gone |-> 0] : a \in SeenIps \ Old}
Updates ==
  {p \in SetToSeqs({Stay[k] : k \in DOMAIN Stay} \cup Arrivals) :
     /\ \A i, j \in DOMAIN p : i < j => p[i].age >= p[j].age
     /\ SelectSeq(p, LAMBDA rec : rec.ip \in Old) = Stay}

\* Mutant: only more devices than allowed are a reason for a lock.
AboveCap(n) == n > tick.cap
AtCap(n) == n >= tick.cap

\* The addresses that hold a slot, and the lock that follows.
Holders(p) == SelectSeq(p, LAMBDA rec : rec.age >= Confirm)
First(h) == {h[k].ip : k \in 1..Min({tick.cap, Len(h)})}

Desired(p) == IF AtCap(Len(Holders(p))) THEN First(Holders(p)) ELSE {}

\* Somebody slipped in before the lock reached this region.
Intruder(r, want) == want # {} /\ \E s \in tick.seen[r] : s[1] \notin want

\* What the readings say is moves before the first push.
Decide ==
  /\ tick.stage = "read" /\ tick.at \notin Regions
  /\ presence' \in Updates
  /\ LET want == Desired(presence')
     IN tick' = [NoTick EXCEPT !.stage = "push", !.cap = tick.cap, !.want = want,
                  !.intruder = {r \in Regions : Intruder(r, want)}]
  /\ UNCHANGED <<cap, coreVars, cache, edit, trouble, moves>>

\* The regions the loop still has to push the lock to.
Due == {r \in tick.at..NumRegions : cache[r] # tick.want \/ r \in tick.intruder}

\* _push_allowed_ips; a fault loses the patch or its answer.
Push ==
  /\ tick.stage = "push" /\ Due # {}
  /\ LET r == Min(Due) IN
     \/ /\ PatchLock(r, tick.want)
        /\ tick' = [tick EXCEPT !.stage = "pushed", !.at = r]
        /\ UNCHANGED trouble
     \/ /\ Trouble
        /\ PatchLock(r, tick.want) \/ UNCHANGED <<lock, conn>>
        /\ tick' = [tick EXCEPT !.stage = "lost", !.at = r]
  /\ UNCHANGED <<cap, local, presence, cache, edit, moves>>

\* Mutant: a push that failed counts as one that was taken.
AssumeTaken == tick.want
Taken == IF tick.stage = "pushed" THEN tick.want ELSE Unset

\* The answer is back: the lock is remembered, whatever happened meanwhile.
Remember ==
  /\ tick.stage \in {"pushed", "lost"}
  /\ cache' = [cache EXCEPT ![tick.at] = Taken]
  /\ tick' = [tick EXCEPT !.stage = "push", !.at = @ + 1]
  /\ UNCHANGED <<cap, coreVars, presence, edit, trouble, moves>>

EndTick ==
  /\ tick.stage = "push" /\ Due = {}
  /\ tick' = NoTick
  /\ UNCHANGED <<cap, coreVars, presence, cache, edit, trouble, moves>>

-----------------------------------------------------------------------------
(* update_customer with max_devices, or reprovision_customer.              *)

BeginEdit ==
  /\ edit.stage = "idle" /\ Trouble
  /\ cap' \in Caps
  /\ edit' = [stage |-> "patch", at |-> 1]
  /\ UNCHANGED <<coreVars, presence, cache, tick, moves>>

OpenLink(r) == lock' = [lock EXCEPT ![r] = {}] /\ local' = [local EXCEPT ![r] = cap]

\* The new cap and an empty lock; a region that fails is left as it is.
EditRegion ==
  /\ edit.stage = "patch" /\ edit.at \in Regions
  /\ OpenLink(edit.at) \/ UNCHANGED <<lock, local>>
  /\ edit' = [edit EXCEPT !.at = @ + 1]
  /\ UNCHANGED <<cap, conn, presence, cache, tick, trouble, moves>>

\* forget_device_lock.
ForgetLock == presence' = <<>> /\ cache' = [r \in Regions |-> Unset]

EndEdit ==
  /\ edit.stage = "patch" /\ edit.at \notin Regions
  /\ ForgetLock
  /\ edit' = NoEdit
  /\ UNCHANGED <<cap, coreVars, tick, trouble, moves>>

ConsoleRestarts ==
  /\ Trouble
  /\ presence' = <<>> /\ cache' = [r \in Regions |-> Unset]
  /\ tick' = NoTick /\ edit' = NoEdit
  /\ UNCHANGED <<cap, coreVars, moves>>

TickStep == BeginTick \/ Read \/ Decide \/ Push \/ Remember \/ EndTick
EditStep == EditRegion \/ EndEdit

Next ==
  \/ \E r \in Regions, a \in Ips : Connect(r, a) \/ Disconnect(r, a)
  \/ TickStep \/ EditStep
  \/ BeginEdit \/ ConsoleRestarts

Spec == Init /\ [][Next]_vars

\* device_enforce_loop goes on for ever; requests are served.
FairSpec == Spec /\ WF_vars(TickStep) /\ WF_vars(EditStep)

-----------------------------------------------------------------------------
Present == {presence[k].ip : k \in DOMAIN presence}

\* Holders keep their slots: as long as calls are answered and nobody
\* edits the cap, a lock known to be in place is replaced only by one that
\* keeps everybody who is still around, and lifted only when somebody is gone
\* ("the extra device got straight back in - forever", the docstring of
\* enforce_device_limits).
HoldersStay ==
  [][\A r \in Regions :
       /\ lock[r] # {} /\ cache[r] = lock[r] /\ lock'[r] # lock[r]
       /\ trouble = 0
       => IF lock'[r] = {} THEN lock[r] \ Present # {}
                           ELSE lock[r] \cap Present \subseteq lock'[r]]_vars

OverCap == Cardinality(Connected) > cap
StaleLock == \E r \in Regions : lock[r] # {} /\ lock[r] \cap Connected = {}

\* More devices than allowed do not stay connected, in whichever regions they
\* are: the lock reaches them (DEVICE_CONFIRM_SECONDS, intruder, the kick in
\* the Core), even when an edit raced the push of a lock.
OverCapEnds == []<>(cap = 0 \/ ~OverCap)

\* While there is a cap, a lock whose holders have all left does not stay: the
\* slots are given to the next device (DEVICE_LINGER_SECONDS, forget_device_lock).
LockIsLifted == []<>(cap = 0 \/ ~StaleLock)

=============================================================================
