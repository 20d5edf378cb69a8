---------------------------- MODULE QuotaProofs ----------------------------
(* Proofs that a customer whom the reconcile loop has switched off is not   *)
(* left on in a region it could not reach.                                  *)
EXTENDS QuotaReconcile, SetSums, TLAPS

\* The usage of all links together.
LEMMA UsedRange == AllUsed = 0..(NumLinks * MaxUsed) /\ NumLinks * MaxUsed \in Nat
<1>1. Cardinality(Links) = NumLinks
  <2>1. Cardinality(1..NumLinks) = IF 1 > NumLinks THEN 0 ELSE NumLinks - 1 + 1
    BY QuotaAssumption, FS_Interval
  <2>2. QED
    BY <2>1, QuotaAssumption DEF Links
<1>2. QED
  BY <1>1, QuotaAssumption DEF AllUsed

\* The usage of one more link keeps the partial sum in bounds.
LEMMA SumOfOneMore ==
  ASSUME NEW at \in 1..NumLinks, NEW used \in Int, used <= (at - 1) * MaxUsed,
         NEW n \in 0..MaxUsed
  PROVE  used + n <= at * MaxUsed
<1>1. at * MaxUsed = (at - 1) * MaxUsed + MaxUsed
  BY QuotaAssumption
<1>2. (at - 1) * MaxUsed \in Int /\ MaxUsed \in Int
  BY QuotaAssumption
<1>3. QED
  BY <1>1, <1>2

\* Some links together have used no more than all of them may.
LEMMA SumOfSome ==
  ASSUME NEW k \in 0..NumLinks
  PROVE  k * MaxUsed <= NumLinks * MaxUsed
  BY QuotaAssumption

Ticks == [stage : {"idle", "sum", "cut", "push", "retry", "repush"},
          at : 1..(NumLinks + 1), used : AllUsed, ok : BOOLEAN,
          limit : Limits \cup {0}, expired : BOOLEAN]
Requests == [stage : AllEdits \cup {"idle", "zero", "restore", "forget", "switch"},
             at : Links, used : AllUsed, active : BOOLEAN]
Rows == [active : BOOLEAN, limit : Limits, used : AllUsed, expired : BOOLEAN]

\* The initial values of the local variables have their types.
LEMMA Blank ==
  /\ 0 \in AllUsed /\ 1 \in 1..(NumLinks + 1) /\ 1 \in Links
  /\ \A stage \in {"idle", "sum", "cut", "push", "retry", "repush"} :
       /\ [NoTick EXCEPT !.stage = stage] \in Ticks
       /\ [NoTick EXCEPT !.stage = stage].stage = stage
       /\ [NoTick EXCEPT !.stage = stage].at = 1
       /\ [NoTick EXCEPT !.stage = stage].used = 0
  /\ NoTick \in Ticks /\ NoTick.stage = "idle" /\ NoTick.at = 1 /\ NoTick.used = 0
  /\ NoRequest \in Requests
<1>1. 0 \in AllUsed /\ 1 \in 1..(NumLinks + 1) /\ 1 \in Links
  BY UsedRange, QuotaAssumption DEF Links
<1>2. NoTick \in Ticks
  BY <1>1 DEF NoTick, Ticks
<1>3. NoRequest \in Requests
  BY <1>1 DEF NoRequest, Requests
<1>4. QED
  BY <1>1, <1>2, <1>3 DEF NoTick, Ticks

\* The initial states satisfy the inductive invariant.
LEMMA InitInv == Init => IInv
<1> SUFFICES ASSUME Init PROVE IInv
  OBVIOUS
<1>1. row \in Rows
  BY Blank DEF Init, Rows
<1>2. spent \in [Links -> 0..MaxUsed]
  BY QuotaAssumption DEF Init
<1>3. unsettled \in BOOLEAN /\ pending \in BOOLEAN /\ cut \in BOOLEAN /\ mixed \in BOOLEAN
  BY Zenon DEF Init
<1>4. on \subseteq Links /\ tick \in Ticks /\ admin \in Requests
  BY Blank DEF Init
<1>5. TypeOK
  BY <1>1, <1>2, <1>3, <1>4 DEF TypeOK, Rows, Ticks, Requests
<1>6. SumBound
  BY Blank, QuotaAssumption DEF Init, SumBound
<1>7. CutHolds /\ UnconfirmedIsRetried
  BY Zenon DEF Init, CutHolds, UnconfirmedIsRetried
<1>8. QED
  BY <1>5, <1>6, <1>7 DEF IInv

-----------------------------------------------------------------------------
(* Types.                                                                  *)

\* The Boolean variables stay Boolean.
LEMMA BooleanSteps ==
  ASSUME TypeOK, Next
  PROVE  /\ unsettled' \in BOOLEAN /\ pending' \in BOOLEAN
         /\ cut' \in BOOLEAN /\ mixed' \in BOOLEAN
<1>1. unsettled \in BOOLEAN /\ pending \in BOOLEAN /\ cut \in BOOLEAN /\ mixed \in BOOLEAN
  BY DEF TypeOK
<1>2. CASE Reconcile
  BY <1>1, <1>2, Zenon DEF Reconcile, StartTick, StoreUsage, CutOff, Settle, BeginRetry,
     NothingToRetry, SettleRetry, AddUp, PushOff, StillPending, history
<1>3. CASE Administer
  BY <1>1, <1>3, Zenon DEF Administer, Request, Extend, ResetUsage, Restore, Forget,
     ChangeLimit, SetActive, ResetLink, SwitchLink, ReprovisionLink, history
<1>4. CASE Environment
  BY <1>1, <1>4, Zenon DEF Environment, Expire, CalmDown, Restart, TickFails,
     Relay, history
<1>5. QED
  BY <1>2, <1>3, <1>4 DEF Next

\* The links' flags and counters.
LEMMA LinkSteps ==
  ASSUME TypeOK, Next
  PROVE  on' \subseteq Links /\ spent' \in [Links -> 0..MaxUsed]
<1>1. /\ on \subseteq Links /\ spent \in [Links -> 0..MaxUsed] /\ MaxUsed \in Nat
      /\ admin.at \in Links
  BY QuotaAssumption DEF TypeOK
<1>2. CASE UNCHANGED linkVars
  BY <1>1, <1>2 DEF linkVars
<1>3. CASE PushOff
  BY <1>1, <1>3 DEF PushOff, Call, SwitchOff, linkVars
<1>4. CASE ResetLink
  BY <1>1, <1>4 DEF ResetLink, Call, linkVars
<1>5. CASE SwitchLink
  BY <1>1, <1>5 DEF SwitchLink, Call, Switch, SwitchOn, SwitchOff, linkVars
<1>6. CASE ReprovisionLink
  BY <1>1, <1>6 DEF ReprovisionLink, Call, linkVars
<1>7. CASE \E l \in Links : Relay(l)
  BY <1>1, <1>7 DEF Relay
<1>8. QED
  BY <1>2, <1>3, <1>4, <1>5, <1>6, <1>7 DEF Next, Reconcile, StartTick, StoreUsage, CutOff,
     Settle, BeginRetry, NothingToRetry, SettleRetry, AddUp, Administer, Request, Extend,
     ChangeLimit, ResetUsage, Restore, SetActive, Forget, Environment, Expire,
     CalmDown, Restart, TickFails

\* The customer's row.
LEMMA RowSteps ==
  ASSUME TypeOK, Next
  PROVE  row' \in Rows
<1>1. row \in Rows /\ tick.used \in AllUsed /\ 0 \in AllUsed
  BY Blank DEF TypeOK, Rows
<1>2. CASE UNCHANGED row
  BY <1>1, <1>2
<1>3. CASE StoreUsage
  BY <1>1, <1>3 DEF StoreUsage, Rows
<1>4. CASE CutOff
  BY <1>1, <1>4 DEF CutOff, Rows
<1>5. CASE Extend \/ ResetUsage \/ Restore \/ \E limit \in Limits : ChangeLimit(limit)
  BY <1>1, <1>5 DEF Extend, ResetUsage, Restore, ChangeLimit, Rows
<1>6. CASE \E active \in BOOLEAN : SetActive(active)
  BY <1>1, <1>6 DEF SetActive, Rows
<1>7. CASE Expire
  BY <1>1, <1>7 DEF Expire, Rows
<1>8. QED
  BY <1>2, <1>3, <1>4, <1>5, <1>6, <1>7 DEF Next, Reconcile, StartTick, PushOff,
     Settle, BeginRetry, NothingToRetry, SettleRetry, AddUp, Administer, Request,
     Forget, ResetLink, SwitchLink, ReprovisionLink, Environment,
     CalmDown, Restart, TickFails, Relay

\* The loop's local variables, the sum among them.
LEMMA TickSteps ==
  ASSUME TypeOK, SumBound, Next
  PROVE  tick' \in Ticks /\ SumBound'
<1>1. tick \in Ticks /\ row \in Rows /\ spent \in [Links -> 0..MaxUsed]
  BY DEF TypeOK, Ticks, Rows
<1>2. CASE UNCHANGED tick
  BY <1>1, <1>2 DEF SumBound
<1>3. CASE \E stage \in {"idle", "sum", "cut", "push", "retry", "repush"} :
             tick' = [NoTick EXCEPT !.stage = stage]
  BY <1>3, Blank, QuotaAssumption DEF SumBound
<1>4. CASE StartTick
  <2> DEFINE new == [NoTick EXCEPT !.stage = "sum", !.limit = row.limit,
                                   !.expired = row.expired]
  <2>1. new \in Ticks /\ new.used = 0 /\ new.at = 1
    BY <1>1, Blank DEF Ticks, Rows, NoTick
  <2>2. CASE tick' = new
    BY <2>1, <2>2, QuotaAssumption DEF SumBound
  <2>3. QED
    BY <1>3, <1>4, <2>2 DEF StartTick
<1>5. CASE AddUp
  <2>1. /\ tick.at \in 1..NumLinks /\ tick.used \in AllUsed /\ tick.used \in Int
        /\ 0 <= tick.used /\ tick.used <= (tick.at - 1) * MaxUsed
    BY <1>1, <1>5, UsedRange DEF AddUp, Links, Ticks, SumBound
  <2>2. spent[tick.at] \in 0..MaxUsed /\ 0 \in 0..MaxUsed
    BY <1>1, <2>1, QuotaAssumption DEF Links
  <2>3. PICK n \in 0..MaxUsed : tick' = [tick EXCEPT !.at = @ + 1, !.used = @ + n]
    BY <1>5, <2>2 DEF AddUp, Counted
  <2>4. tick.used + n <= tick.at * MaxUsed
    BY <2>1, SumOfOneMore
  <2>5. tick.at + 1 \in 1..(NumLinks + 1)
    BY <2>1, QuotaAssumption
  <2>6. tick.at * MaxUsed <= NumLinks * MaxUsed
    <3>1. tick.at \in 0..NumLinks
      BY <2>1, QuotaAssumption
    <3>2. QED
      BY <3>1, SumOfSome
  <2>7. tick.used + n \in AllUsed
    <3>1. /\ tick.at * MaxUsed \in Int /\ NumLinks * MaxUsed \in Int
          /\ tick.used + n \in Int /\ 0 <= tick.used + n
      BY <2>1, QuotaAssumption
    <3>2. QED
      BY <2>4, <2>6, <3>1, UsedRange
  <2>8. /\ tick' \in Ticks /\ tick'.at = tick.at + 1 /\ tick'.used = tick.used + n
    BY <1>1, <2>3, <2>5, <2>7 DEF Ticks
  <2>9. SumBound'
    <3>1. tick'.at - 1 = tick.at
      BY <2>1, <2>8
    <3>2. QED
      BY <2>4, <2>8, <3>1 DEF SumBound
  <2>10. QED
    BY <2>8, <2>9
<1>6. CASE PushOff
  <2>1. PICK answered \in BOOLEAN :
          tick' = [tick EXCEPT !.at = @ + 1, !.ok = AllAnswered(answered)]
    BY <1>6 DEF PushOff
  <2>2. AllAnswered(answered) \in BOOLEAN
    BY <1>1, Zenon DEF AllAnswered
  <2>3. tick.at \in 1..NumLinks /\ tick.at + 1 \in 1..(NumLinks + 1)
    BY <1>6, QuotaAssumption DEF PushOff, Links
  <2>4. /\ tick' \in Ticks /\ tick'.at = tick.at + 1 /\ tick'.used = tick.used
    BY <1>1, <2>1, <2>2, <2>3 DEF Ticks
  <2>5. /\ tick.used \in Int /\ tick.used <= (tick.at - 1) * MaxUsed
    BY <1>1, UsedRange DEF Ticks, SumBound
  <2>6. tick.used + 0 <= tick.at * MaxUsed
    <3>1. 0 \in 0..MaxUsed
      BY QuotaAssumption
    <3>2. QED
      BY <2>3, <2>5, <3>1, SumOfOneMore
  <2>7. SumBound'
    <3>1. tick'.at - 1 = tick.at /\ tick.used + 0 = tick.used
      BY <2>3, <2>4, <2>5
    <3>2. QED
      BY <2>4, <2>6, <3>1 DEF SumBound
  <2>8. QED
    BY <2>4, <2>7
<1>7. QED
  BY <1>2, <1>3, <1>4, <1>5, <1>6, Blank DEF Next, Reconcile, StoreUsage, CutOff, Goto, NoTick,
     Settle, BeginRetry, NothingToRetry, SettleRetry, Administer, Request, Extend,
     ChangeLimit, ResetUsage, Restore, SetActive, Forget, ResetLink, SwitchLink, ReprovisionLink,
     Environment, CalmDown, Restart, TickFails, Relay, Expire

\* The request's local variables.
LEMMA AdminSteps ==
  ASSUME TypeOK, Next
  PROVE  admin' \in Requests
<1>1. /\ admin \in Requests /\ row \in Rows /\ 0 \in AllUsed /\ 1 \in Links
      /\ NoRequest \in Requests
  BY Blank DEF TypeOK, Requests, Rows
<1>2. CASE UNCHANGED admin
  BY <1>1, <1>2
<1>3. CASE \E stage \in AllEdits \cup {"idle", "zero", "restore", "forget", "switch"} :
             \/ admin' = [admin EXCEPT !.stage = stage]
             \/ admin' = [NoRequest EXCEPT !.stage = stage]
  BY <1>1, <1>3 DEF Requests
<1>4. CASE \E stage \in AllEdits \cup {"idle", "zero", "restore", "forget", "switch"},
              active \in BOOLEAN : admin' = [NoRequest EXCEPT !.stage = stage, !.active = active]
  BY <1>1, <1>4 DEF Requests
<1>5. CASE \E edit \in Edits : Request(edit)
  <2>1. PICK edit \in AllEdits :
          admin' = [stage |-> edit, at |-> 1, active |-> row.active,
                    used |-> IF edit \in {"extend", "limit"} THEN row.used ELSE 0]
    BY <1>5, QuotaAssumption DEF Request
  <2>2. row.active \in BOOLEAN /\ row.used \in AllUsed
    BY <1>1 DEF Rows
  <2>3. QED
    BY <1>1, <2>1, <2>2 DEF Requests
<1>6. ASSUME NEW last \in Requests, Advance(last) PROVE admin' \in Requests
  <2>1. CASE admin.at # NumLinks
    <3>1. admin.at \in Links /\ admin.at + 1 \in Links
      BY <1>1, <2>1, QuotaAssumption DEF Requests, Links
    <3>2. QED
      BY <1>1, <1>6, <2>1, <3>1 DEF Advance, Requests
  <2>2. CASE admin.at = NumLinks
    BY <1>6, <2>2 DEF Advance
  <2>3. QED
    BY <2>1, <2>2
<1>7. [admin EXCEPT !.stage = "restore", !.at = 1] \in Requests
  BY <1>1 DEF Requests
<1>8. CASE Reconcile
  BY <1>2, <1>8 DEF Reconcile, StartTick, StoreUsage, CutOff, Settle, BeginRetry,
     NothingToRetry, SettleRetry, AddUp, PushOff
<1>9. CASE Extend \/ ResetUsage \/ Restore \/ \E limit \in Limits : ChangeLimit(limit)
  BY <1>1, <1>3, <1>9 DEF Extend, ResetUsage, Restore, ChangeLimit, Then, Return, NoRequest
<1>10. CASE Forget \/ \E active \in BOOLEAN : SetActive(active)
  BY <1>3, <1>4, <1>10 DEF Forget, SetActive, PushActive, NoRequest
<1>11. CASE ResetLink \/ SwitchLink \/ ReprovisionLink
  BY <1>1, <1>6, <1>7, <1>11 DEF ResetLink, SwitchLink, ReprovisionLink
<1>12. CASE Environment
  BY <1>1, <1>2, <1>12 DEF Environment, Expire, CalmDown, Restart, TickFails, Relay
<1>13. QED
  BY <1>5, <1>8, <1>9, <1>10, <1>11, <1>12 DEF Next, Administer

-----------------------------------------------------------------------------
(* The cut.                                                                *)

\* Where the loop stands after all links, the confirmed ones are all of them.
LEMMA AllConfirmed ==
  ASSUME IInv, cut, tick.stage \in {"push", "repush"}, tick.ok, tick.at \notin Links
  PROVE  on = {}
<1>1. tick.at = NumLinks + 1 /\ on \subseteq Links
  BY QuotaAssumption DEF IInv, TypeOK, Links
<1>2. 1..(tick.at - 1) = Links
  BY <1>1, QuotaAssumption DEF Links
<1>3. on \cap 1..(tick.at - 1) = {}
  BY DEF IInv, CutHolds
<1>4. QED
  BY <1>1, <1>2, <1>3

\* Only CutOff sets it.
LEMMA CutFrom == Next /\ cut' => cut \/ CutOff
<1> SUFFICES ASSUME Next, cut', ~CutOff PROVE cut
  OBVIOUS
<1>1. CASE Reconcile
  BY <1>1, Zenon DEF Reconcile, StartTick, StoreUsage, Settle, BeginRetry,
     NothingToRetry, SettleRetry, AddUp, PushOff, history
<1>2. CASE Administer
  BY <1>2, Zenon DEF Administer, Request, Extend, ResetUsage, Restore, Forget,
     ChangeLimit, SetActive, ResetLink, SwitchLink, ReprovisionLink, history
<1>3. CASE Environment
  BY <1>3, Zenon DEF Environment, Expire, CalmDown, Restart, TickFails,
     Relay, history
<1>4. QED
  BY <1>1, <1>2, <1>3 DEF Next

\* The invariant, in a state where the loop's cut holds.
HeldCut ==
  /\ ~Switching
  /\ tick.stage \in {"push", "repush"} /\ tick.ok => on \cap 1..(tick.at - 1) = {}
  /\ tick.stage # "push" => pending \/ on = {}

\* A step of the loop keeps a cut whole, or begins one.
LEMMA ReconcileHolds ==
  ASSUME IInv, Reconcile, cut', cut \/ CutOff
  PROVE  HeldCut'
<1>1. /\ on \subseteq Links /\ tick \in Ticks
      /\ cut => HeldCut
  BY DEF IInv, TypeOK, Ticks, CutHolds, UnconfirmedIsRetried, HeldCut
<1>2. admin' = admin
  BY DEF Reconcile, StartTick, StoreUsage, CutOff, Settle, BeginRetry, NothingToRetry,
     SettleRetry, AddUp, PushOff
<1>3. ~Switching'
  <2>1. CASE CutOff
    BY <1>2, <2>1, Zenon DEF CutOff, Switching
  <2>2. CASE cut
    BY <1>1, <1>2, <2>2 DEF HeldCut, Switching
  <2>3. QED
    BY <2>1, <2>2
<1>4. CASE CutOff
  <2>1. tick'.stage = "push" /\ tick'.at = 1
    BY <1>4, Blank DEF CutOff, Goto
  <2>2. on' \cap 1..(tick'.at - 1) = {}
    BY <2>1
  <2>3. QED
    BY <1>3, <2>1, <2>2 DEF HeldCut
<1>5. CASE cut /\ (StartTick \/ AddUp \/ StoreUsage \/ BeginRetry \/ NothingToRetry)
  <2>1. UNCHANGED <<on, pending>> /\ tick.stage # "push"
    BY <1>5 DEF StartTick, AddUp, StoreUsage, BeginRetry, NothingToRetry, linkVars
  <2>2. \/ tick'.stage \notin {"push", "repush"}
        \/ tick'.stage = "repush" /\ tick'.at = 1
    <3>1. CASE StartTick
      <4>1. [NoTick EXCEPT !.stage = "sum", !.limit = row.limit, !.expired = row.expired].stage
              = "sum"
        BY DEF NoTick
      <4>2. QED
        BY <3>1, <4>1, Blank DEF StartTick
    <3>2. CASE AddUp
      BY <1>1, <3>2 DEF AddUp, Ticks
    <3>3. CASE StoreUsage \/ BeginRetry \/ NothingToRetry
      BY <3>3, Blank DEF StoreUsage, BeginRetry, NothingToRetry, Goto
    <3>4. QED
      BY <1>5, <3>1, <3>2, <3>3
  <2>3. pending \/ on = {}
    BY <1>1, <1>5, <2>1 DEF HeldCut
  <2>4. tick'.stage = "repush" => on' \cap 1..(tick'.at - 1) = {}
    BY <2>2
  <2>5. QED
    BY <1>3, <2>1, <2>2, <2>3, <2>4, Zenon DEF HeldCut
<1>6. CASE cut /\ PushOff
  <2>1. PICK answered \in BOOLEAN :
          /\ Call(SwitchOff(tick.at), answered)
          /\ tick' = [tick EXCEPT !.at = @ + 1, !.ok = AllAnswered(answered)]
    BY <1>6 DEF PushOff
  <2>2. /\ tick'.stage = tick.stage /\ tick'.at = tick.at + 1
        /\ tick'.ok = AllAnswered(answered) /\ pending' = pending
        /\ tick.at \in Links /\ tick.stage \in {"push", "repush"}
    BY <1>1, <1>6, <2>1 DEF Ticks, PushOff
  <2>3. on' \subseteq on
    BY <2>1 DEF Call, SwitchOff, linkVars
  <2>4. ASSUME tick'.ok PROVE on' \cap 1..(tick'.at - 1) = {}
    <3>1. tick.ok /\ answered
      BY <2>2, <2>4, Zenon DEF AllAnswered
    <3>2. on' = on \ {tick.at}
      BY <2>1, <3>1 DEF Call, SwitchOff
    <3>3. on \cap 1..(tick.at - 1) = {}
      BY <1>1, <1>6, <2>2, <3>1 DEF HeldCut
    <3>4. 1..(tick'.at - 1) = 1..(tick.at - 1) \cup {tick.at}
      BY <2>2, QuotaAssumption DEF Links
    <3>5. QED
      BY <3>2, <3>3, <3>4
  <2>5. tick'.stage # "push" => pending' \/ on' = {}
    BY <1>1, <1>6, <2>2, <2>3 DEF HeldCut
  <2>6. QED
    BY <1>3, <2>4, <2>5, Zenon DEF HeldCut
<1>7. CASE cut /\ (Settle \/ SettleRetry)
  <2>1. /\ tick.stage \in {"push", "repush"} /\ tick.at \notin Links
        /\ tick'.stage \notin {"push", "repush"}
        /\ on' = on
    BY <1>7, Blank DEF Settle, SettleRetry, Goto, linkVars
  <2>2. tick.ok => on = {}
    BY <1>7, <2>1, AllConfirmed
  <2>3. CASE Settle
    <3>1. pending' \/ tick.ok
      BY <2>3, Zenon DEF Settle
    <3>2. QED
      BY <1>3, <2>1, <2>2, <3>1 DEF HeldCut
  <2>4. CASE SettleRetry
    <3>1. pending' \/ ~pending \/ tick.ok
      BY <2>4, Zenon DEF SettleRetry, StillPending
    <3>2. pending \/ on = {}
      BY <1>1, <1>7, <2>4 DEF SettleRetry, HeldCut
    <3>3. QED
      BY <1>3, <2>1, <2>2, <3>1, <3>2 DEF HeldCut
  <2>5. QED
    BY <1>7, <2>3, <2>4
<1>8. QED
  BY <1>4, <1>5, <1>6, <1>7 DEF Reconcile

\* A request that switches links on ends the cut before.
LEMMA AdministerHolds ==
  ASSUME IInv, Administer, cut', cut
  PROVE  HeldCut'
<1>1. HeldCut
  BY DEF IInv, CutHolds, UnconfirmedIsRetried, HeldCut
<1>2. admin.stage \notin {"forget", "switch", "reprovision"}
  BY <1>1 DEF HeldCut, Switching
<1>3. ~SetActive(TRUE) /\ ~SetActive(FALSE)
  BY Zenon DEF SetActive
<1>4. UNCHANGED <<on, pending, tick>>
  BY <1>2, <1>3 DEF Administer, Request, Extend, ResetUsage, Restore, Forget,
     ChangeLimit, SetActive, ResetLink, SwitchLink, ReprovisionLink, linkVars, Call
<1>5. ~Switching'
  <2>1. admin \in Requests
    BY DEF IInv, TypeOK, Requests
  <2>2. CASE \E edit \in Edits : Request(edit)
    <3>1. PICK edit \in Edits : Request(edit)
      BY <2>2
    <3>2. admin'.stage = edit
      BY <3>1 DEF Request
    <3>3. edit # "reprovision"
      BY <3>1, Zenon DEF Request
    <3>4. edit \notin {"forget", "switch"}
      BY <3>1, QuotaAssumption DEF AllEdits
    <3>5. QED
      BY <3>2, <3>3, <3>4 DEF Switching
  <2>3. CASE Extend \/ ResetUsage \/ \E limit \in Limits : ChangeLimit(limit)
    BY <2>1, <2>3 DEF Extend, ResetUsage, ChangeLimit, Then, Requests, Switching
  <2>4. CASE Restore
    <3>1. admin' = NoRequest
      BY <2>4, Zenon DEF Restore, Return
    <3>2. QED
      BY <3>1 DEF NoRequest, Switching
  <2>5. CASE ResetLink
    <3>1. \/ admin' = [admin EXCEPT !.stage = "restore", !.at = 1]
          \/ admin' = [admin EXCEPT !.at = @ + 1]
      BY <2>5 DEF ResetLink, Advance
    <3>2. admin'.stage \in {"restore", admin.stage}
      BY <2>1, <3>1 DEF Requests
    <3>3. QED
      BY <1>2, <3>2 DEF Switching
  <2>6. CASE Forget \/ SwitchLink \/ ReprovisionLink
    BY <1>2, <2>6 DEF Forget, SwitchLink, ReprovisionLink
  <2>7. QED
    BY <1>3, <2>2, <2>3, <2>4, <2>5, <2>6 DEF Administer
<1>6. QED
  BY <1>1, <1>4, <1>5 DEF HeldCut

\* Whatever else happens either leaves a cut whole or ends it.
LEMMA EnvironmentHolds ==
  ASSUME IInv, Environment, cut', cut
  PROVE  HeldCut'
<1>1. HeldCut
  BY DEF IInv, CutHolds, UnconfirmedIsRetried, HeldCut
<1>2. CASE Expire \/ CalmDown \/ \E l \in Links : Relay(l)
  <2>1. UNCHANGED <<on, pending, tick, admin>>
    BY <1>2 DEF Expire, CalmDown, Relay, linkVars
  <2>2. QED
    BY <1>1, <2>1 DEF HeldCut, Switching
<1>3. CASE Restart
  BY <1>3, Zenon DEF Restart
<1>4. CASE TickFails
  <2>1. UNCHANGED <<on, pending, admin>> /\ tick'.stage = "idle"
    BY <1>4, Blank DEF TickFails, linkVars
  <2>2. tick.stage # "push"
    BY <1>4, Zenon DEF TickFails
  <2>3. QED
    BY <1>1, <2>1, <2>2 DEF HeldCut, Switching
<1>5. QED
  BY <1>2, <1>3, <1>4 DEF Environment

\* Every step preserves the inductive invariant.
LEMMA StepInv == IInv /\ [Next]_vars => IInv'
<1> SUFFICES ASSUME IInv, [Next]_vars PROVE IInv'
  OBVIOUS
<1>1. CASE Next
  <2>1. TypeOK' /\ SumBound'
    BY <1>1, BooleanSteps, LinkSteps, RowSteps, TickSteps, AdminSteps
       DEF IInv, TypeOK, Rows, Ticks, Requests
  <2>2. cut' => HeldCut'
    BY <1>1, CutFrom, ReconcileHolds, AdministerHolds, EnvironmentHolds
       DEF Next, Reconcile
  <2>3. CutHolds' /\ UnconfirmedIsRetried'
    BY <2>2 DEF CutHolds, UnconfirmedIsRetried, HeldCut
  <2>4. QED
    BY <2>1, <2>3 DEF IInv
<1>2. CASE UNCHANGED vars
  BY <1>2 DEF IInv, TypeOK, SumBound, CutHolds, UnconfirmedIsRetried, Switching, vars, linkVars
<1>3. QED
  BY <1>1, <1>2

\* A cut and what is remembered of it agree as IInv says, in every state the
\* loop and the requests reach.
THEOREM Invariance == Spec => []IInv
  BY InitInv, StepInv, PTL DEF Spec

\* With any number of links every value stays in its range; for the usage that a
\* tick adds up (_sum_usage) this takes the bound on each partial sum.
THEOREM TypeCorrect == Spec => []TypeOK
<1>1. IInv => TypeOK
  BY DEF IInv
<1>2. QED
  BY Invariance, <1>1, PTL

\* With any number of links, whichever worker calls fail, are lost or take
\* effect unanswered and whatever requests and ticks overlap: a customer whom
\* the loop has switched off is off on every link or is going to be retried
\* (_pending_disable), until a request, a Console restart or a database
\* failure during the push interferes.
THEOREM Retried == Spec => []UnconfirmedIsRetried
<1>1. IInv => UnconfirmedIsRetried
  BY DEF IInv
<1>2. QED
  BY Invariance, <1>1, PTL

-----------------------------------------------------------------------------
(* The figures of a tick.                                                  *)

\* The sums, and what the links have used.
LEMMA UsageSums ==
  /\ Total = SumOf(spent, Links)
  /\ SoFar = SumOf(spent, 1..(tick.at - 1))
  BY DEF Total, SoFar, SumOf, MapThenSumSet, MapThenFoldSet

\* What is compared are numbers.
LEMMA FigureType == ASSUME TypeOK PROVE row.limit \in Int /\ tick.used \in Int
<1>1. row \in Rows /\ tick \in Ticks
  BY DEF TypeOK, Rows, Ticks
<1>2. row.limit \in Limits /\ tick.used \in AllUsed
  BY <1>1 DEF Rows, Ticks
<1>3. Limits \subseteq Int /\ AllUsed \subseteq Int
  BY UsedRange, QuotaAssumption
<1>4. QED
  BY <1>2, <1>3, Zenon

\* The links are finitely many, and so are those before one of them.
LEMMA LinksBefore ==
  ASSUME NEW at \in 1..(NumLinks + 1)
  PROVE  IsFiniteSet(1..(at - 1)) /\ 1..(at - 1) \subseteq Links /\ IsFiniteSet(Links)
<1>1. 1 \in Int /\ at - 1 \in Int /\ NumLinks \in Int /\ at - 1 <= NumLinks
  BY QuotaAssumption
<1>2. IsFiniteSet(1..(at - 1)) /\ IsFiniteSet(1..NumLinks)
  BY <1>1, FS_Interval
<1>3. QED
  BY <1>1, <1>2 DEF Links

\* No request has been served, or the links have used more: sums do not fall.
LEMMA UsageGrows ==
  ASSUME TypeOK, TypeOK', tick' = tick, \A l \in Links : spent[l] <= spent'[l]
  PROVE  /\ Total <= Total' /\ SoFar <= SoFar'
         /\ Total \in Nat /\ Total' \in Nat /\ SoFar \in Nat /\ SoFar' \in Nat
<1>1. /\ \A l \in Links : spent[l] \in Nat /\ spent'[l] \in Nat
      /\ tick.at \in 1..(NumLinks + 1)
  BY QuotaAssumption DEF TypeOK
<1> DEFINE some == 1..(tick.at - 1)
<1>2. IsFiniteSet(some) /\ some \subseteq Links /\ IsFiniteSet(Links)
  BY <1>1, LinksBefore
<1>3. /\ Total = SumOf(spent, Links) /\ Total' = SumOf(spent', Links)
      /\ SoFar = SumOf(spent, some) /\ SoFar' = SumOf(spent', some)
  BY DEF Total, SoFar, SumOf, MapThenSumSet, MapThenFoldSet
<1> HIDE DEF some
<1>4. SumOf(spent, Links) <= SumOf(spent', Links)
  BY <1>1, <1>2, SumGrows
<1>5. SumOf(spent, some) <= SumOf(spent', some)
  BY <1>1, <1>2, SumGrows
<1>6. /\ SumOf(spent, Links) \in Nat /\ SumOf(spent', Links) \in Nat
      /\ SumOf(spent, some) \in Nat /\ SumOf(spent', some) \in Nat
  BY <1>1, <1>2, SumNat
<1>7. QED
  BY <1>3, <1>4, <1>5, <1>6

\* A tick starts with nothing added up.
LEMMA StartFigures ==
  ASSUME TypeOK, StartTick, tick'.stage = "sum", ~mixed'
  PROVE  FigureInv'
<1>1. row.active
  <2>1. [NoTick EXCEPT !.stage = "retry"].stage = "retry"
    BY Blank
  <2>2. QED
    BY <2>1 DEF StartTick
<1>2. tick' = [stage |-> "sum", at |-> 1, used |-> 0, ok |-> TRUE,
               limit |-> row.limit, expired |-> row.expired]
  BY <1>1 DEF StartTick, NoTick
<1>3. admin'.stage = "idle"
  BY <1>1, Zenon DEF StartTick
<1>4. SoFar' = 0
  <2>1. SoFar' = SumOf(spent', 1..(tick'.at - 1))
    BY DEF SoFar, SumOf, MapThenSumSet, MapThenFoldSet
  <2>2. 1..(tick'.at - 1) = {}
    BY <1>2
  <2>3. SumOf(spent', {}) = 0
    BY FS_EmptySet, SumRec
  <2>4. QED
    BY <2>1, <2>2, <2>3
<1>5. row' = row
  BY DEF StartTick
<1>6. QED
  BY <1>2, <1>3, <1>4, <1>5 DEF FigureInv

\* A link that answers is counted with what it has used, one that does not with
\* nothing.
LEMMA AddFigures ==
  ASSUME TypeOK, FigureInv, AddUp, ~mixed'
  PROVE  FigureInv'
<1>1. PICK n \in {spent[tick.at], 0} : tick' = [tick EXCEPT !.at = @ + 1, !.used = @ + n]
  BY DEF AddUp, Counted
<1>2. /\ tick.stage = "sum" /\ tick.at \in Links
      /\ UNCHANGED <<row, spent, admin, mixed>>
  BY DEF AddUp, linkVars, history
<1>3. tick \in Ticks /\ \A l \in Links : spent[l] \in Nat
  BY QuotaAssumption DEF TypeOK, Ticks
<1>4. /\ tick'.stage = "sum" /\ tick'.at = tick.at + 1 /\ tick'.used = tick.used + n
      /\ tick'.limit = tick.limit /\ tick'.expired = tick.expired
  BY <1>1, <1>2, <1>3 DEF Ticks
<1>5. ~mixed
  BY <1>2
<1>6. /\ admin.stage = "idle" /\ tick.limit = row.limit /\ (tick.expired => row.expired)
      /\ tick.used <= SoFar
  BY <1>2, <1>5 DEF FigureInv
<1> DEFINE some == 1..(tick.at - 1)
<1>7. /\ IsFiniteSet(some) /\ some \subseteq Links /\ tick.at \notin some
      /\ 1..(tick'.at - 1) = some \cup {tick.at}
  BY <1>2, <1>4, LinksBefore, QuotaAssumption DEF Links
<1>8. SoFar = SumOf(spent, some)
  BY UsageSums
<1>9. SoFar' = SumOf(spent, some \cup {tick.at})
  <2>1. SoFar' = SumOf(spent', 1..(tick'.at - 1))
    BY DEF SoFar, SumOf, MapThenSumSet, MapThenFoldSet
  <2>2. QED
    BY <1>2, <1>7, <2>1
<1> HIDE DEF some
<1>10. SoFar' = spent[tick.at] + SoFar
  <2>1. \A l \in some \cup {tick.at} : spent[l] \in Nat
    BY <1>2, <1>3, <1>7
  <2>2. SumOf(spent, some \cup {tick.at}) = spent[tick.at] + SumOf(spent, some)
    BY <1>7, <2>1, SumAdd
  <2>3. QED
    BY <1>8, <1>9, <2>2
<1>11. SoFar \in Nat /\ tick.used \in Int /\ spent[tick.at] \in Nat
  <2>1. SumOf(spent, some) \in Nat
    BY <1>3, <1>7, SumNat
  <2>2. tick.used \in Int
    BY <1>3, UsedRange DEF Ticks
  <2>3. QED
    BY <1>2, <1>3, <1>8, <2>1, <2>2
<1>12. tick'.used <= SoFar'
  BY <1>1, <1>4, <1>6, <1>10, <1>11
<1>13. QED
  BY <1>2, <1>4, <1>6, <1>12 DEF FigureInv

\* After the last link the sum is at most the total, so what the tick finds over
\* the limit is.
LEMMA StoreFigures ==
  ASSUME TypeOK, FigureInv, StoreUsage, ~mixed', tick'.stage = "cut"
  PROVE  FigureInv'
<1>1. [NoTick EXCEPT !.stage = "retry"].stage = "retry"
  BY Blank
<1>2. /\ tick.stage = "sum" /\ tick.at \notin Links
      /\ tick.expired \/ OverQuota(tick.limit, tick.used)
      /\ UNCHANGED <<spent, admin>>
      /\ row' = [row EXCEPT !.used = tick.used]
  BY <1>1 DEF StoreUsage, Goto, linkVars
<1>3. mixed' = mixed
  BY <1>2, Zenon DEF StoreUsage
<1>4. /\ admin.stage = "idle" /\ tick.limit = row.limit /\ (tick.expired => row.expired)
      /\ tick.used <= SoFar
  BY <1>2, <1>3 DEF FigureInv
<1>5. row \in Rows /\ tick \in Ticks /\ \A l \in Links : spent[l] \in Nat
  BY QuotaAssumption DEF TypeOK, Ticks, Rows
<1>6. row'.limit = row.limit /\ row'.expired = row.expired
  BY <1>2, <1>5 DEF Rows
<1>7. 1..(tick.at - 1) = Links
  BY <1>2, <1>5, QuotaAssumption DEF Ticks, Links
<1>8. SoFar = SumOf(spent, Links) /\ Total' = SumOf(spent, Links)
  <2>1. Total' = SumOf(spent', Links)
    BY DEF Total, SumOf, MapThenSumSet, MapThenFoldSet
  <2>2. QED
    BY <1>2, <1>7, <2>1, UsageSums
<1>9. Total' \in Nat
  <2>1. 1 \in Int /\ NumLinks \in Int
    BY QuotaAssumption
  <2>2. IsFiniteSet(Links)
    BY <2>1, FS_Interval DEF Links
  <2>3. QED
    BY <1>5, <1>8, <2>2, SumNat
<1>10. tick.used \in Int /\ row.limit \in Int
  BY FigureType
<1>11. Breach'
  BY <1>2, <1>4, <1>6, <1>8, <1>9, <1>10 DEF Breach, OverQuota
<1>12. QED
  BY <1>2, <1>4, <1>11 DEF FigureInv

\* Traffic and time only bring the customer nearer to a breach.
LEMMA DriftFigures ==
  ASSUME TypeOK, TypeOK', FigureInv, UNCHANGED <<tick, admin, mixed>>,
         row'.limit = row.limit, row.expired => row'.expired,
         \A l \in Links : spent[l] <= spent'[l]
  PROVE  FigureInv'
<1>1. /\ Total <= Total' /\ SoFar <= SoFar'
      /\ Total \in Nat /\ Total' \in Nat /\ SoFar \in Nat /\ SoFar' \in Nat
  BY UsageGrows
<1>2. row.limit \in Int /\ tick.used \in Int
  BY FigureType
<1>3. Breach => Breach'
  BY <1>1, <1>2 DEF Breach
<1>4. tick.used <= SoFar => tick'.used <= SoFar'
  BY <1>1, <1>2
<1>5. QED
  BY <1>3, <1>4, Zenon DEF FigureInv

\* A request acts only where its coroutine stands, so no tick that is unmixed is
\* under way then; one that comes during a tick mixes it.
LEMMA AdminFigures ==
  ASSUME FigureInv, Administer
  PROVE  FigureInv'
<1>1. tick' = tick
  BY DEF Administer, Request, Extend, ResetUsage, Restore, Forget, ChangeLimit, SetActive,
         ResetLink, SwitchLink, ReprovisionLink
<1>2. CASE \E edit \in Edits : Request(edit)
  <2>1. mixed' = (mixed \/ tick.stage \in {"sum", "cut"})
    BY <1>2, Zenon DEF Request
  <2>2. QED
    BY <1>1, <2>1, Zenon DEF FigureInv
<1>3. CASE ~\E edit \in Edits : Request(edit)
  <2>1. admin.stage # "idle"
    BY <1>3 DEF Administer, Extend, ResetUsage, Restore, Forget, ChangeLimit, SetActive,
         ResetLink, SwitchLink, ReprovisionLink
  <2>2. mixed' = mixed
    BY <1>3, Zenon DEF Administer, Extend, ResetUsage, Restore, Forget, ChangeLimit,
         SetActive, ResetLink, SwitchLink, ReprovisionLink, history
  <2>3. QED
    BY <1>1, <2>1, <2>2, Zenon DEF FigureInv
<1>4. QED
  BY <1>2, <1>3

\* Every step preserves what a tick's figures are worth.
LEMMA StepFigures == IInv /\ FigureInv /\ [Next]_vars => FigureInv'
<1> SUFFICES ASSUME IInv, FigureInv, [Next]_vars PROVE FigureInv'
  OBVIOUS
<1>1. TypeOK /\ TypeOK'
  BY StepInv DEF IInv
<1>2. tick \in Ticks /\ spent \in [Links -> 0..MaxUsed] /\ row \in Rows
  BY <1>1 DEF TypeOK, Ticks, Rows
<1>3. CASE UNCHANGED <<row, spent, tick, admin, mixed>>
  <2>1. \A l \in Links : spent[l] <= spent'[l]
    BY <1>2, <1>3, QuotaAssumption
  <2>2. QED
    BY <1>1, <1>3, <2>1, DriftFigures
<1>4. CASE Reconcile
  <2>0. SUFFICES ASSUME tick'.stage \in {"sum", "cut"}, ~mixed' PROVE FigureInv'
    BY Zenon DEF FigureInv
  <2>1. CASE StartTick
    <3>1. tick'.stage = "sum"
      BY <2>0, <2>1, Blank DEF StartTick, NoTick
    <3>2. QED
      BY <1>1, <2>0, <2>1, <3>1, StartFigures
  <2>2. CASE AddUp
    BY <1>1, <2>0, <2>2, AddFigures
  <2>3. CASE StoreUsage
    <3>1. tick'.stage = "cut"
      BY <2>0, <2>3, Blank DEF StoreUsage, Goto
    <3>2. QED
      BY <1>1, <2>0, <2>3, <3>1, StoreFigures
  <2>4. CASE PushOff
    <3>1. tick'.stage = tick.stage /\ tick.stage \in {"push", "repush"}
      BY <1>2, <2>4 DEF PushOff, Ticks
    <3>2. QED
      BY <2>0, <3>1
  <2>5. CASE CutOff \/ Settle \/ BeginRetry \/ NothingToRetry \/ SettleRetry
    BY <2>0, <2>5, Blank DEF CutOff, Settle, BeginRetry, NothingToRetry, SettleRetry, Goto
  <2>6. QED
    BY <1>4, <2>1, <2>2, <2>3, <2>4, <2>5 DEF Reconcile
<1>5. CASE Administer
  BY <1>5, AdminFigures
<1>6. CASE Expire
  <2>1. /\ UNCHANGED <<spent, tick, admin, mixed>>
        /\ row' = [row EXCEPT !.expired = TRUE]
    BY <1>6 DEF Expire, linkVars, history
  <2>2. row'.limit = row.limit /\ row'.expired
    BY <1>2, <2>1 DEF Rows
  <2>3. \A l \in Links : spent[l] <= spent'[l]
    BY <1>2, <2>1, QuotaAssumption
  <2>4. QED
    BY <1>1, <2>1, <2>2, <2>3, DriftFigures
<1>7. CASE \E l \in Links : Relay(l)
  <2>1. PICK l \in Links : Relay(l)
    BY <1>7
  <2>2. /\ UNCHANGED <<row, tick, admin, mixed>>
        /\ spent' = [spent EXCEPT ![l] = @ + 1]
    BY <2>1 DEF Relay, history
  <2>3. \A k \in Links : spent[k] <= spent'[k]
    BY <1>2, <2>2, QuotaAssumption
  <2>4. QED
    BY <1>1, <2>2, <2>3, DriftFigures
<1>8. CASE Restart \/ TickFails
  BY <1>8, Blank DEF Restart, TickFails, FigureInv
<1>9. CASE CalmDown \/ UNCHANGED vars
  BY <1>3, <1>9 DEF CalmDown, vars, linkVars, history
<1>10. QED
  BY <1>4, <1>5, <1>6, <1>7, <1>8, <1>9 DEF Next, Environment

\* reconcile_once, with any number of links, however old the figures are by
\* which it decides and whatever regions do not answer: unless a request was
\* served meanwhile, it switches off only a customer who is in breach.
THEOREM OnlyInBreach == Spec => CutOnlyInBreach
<1>1. Init => FigureInv
  BY Blank DEF Init, FigureInv
<1>2. FigureInv => [CutOff => mixed \/ Breach]_vars
  <2>1. FigureInv /\ CutOff => mixed \/ Breach
    BY Zenon DEF FigureInv, CutOff
  <2>2. QED
    BY <2>1
<1>3. QED
  BY Invariance, StepFigures, <1>1, <1>2, PTL DEF Spec, CutOnlyInBreach

=============================================================================
