--------------------------- MODULE QuotaReconcile ---------------------------
(***************************************************************************)
(* One customer of the Console: the database row, the customer's links in  *)
(* the regions' Cores, the reconcile loop that adds up their traffic and   *)
(* switches the customer off, and the administrator's edits.               *)
(*                                                                         *)
(* The loop and a request are coroutines of one event loop; each of their  *)
(* database statements and worker calls is an await, hence a step of its   *)
(* own.  A worker call has its effect on the link in that step.            *)
(***************************************************************************)
EXTENDS Integers, FiniteSets, FiniteSetsExt

CONSTANTS
  NumLinks,  \* the customer's links: one for each region and protocol
  Limits,    \* the values limit_bytes is given (0: unlimited)
  Edits,     \* what requests ask for: a subset of AllEdits
  MaxUsed    \* bound of the model: a link that used this much gets no traffic

AllEdits == {"extend", "limit", "reset", "enable", "disable", "reprovision"}

ASSUME QuotaAssumption ==
  /\ NumLinks \in Nat \ {0}
  /\ Limits \subseteq Nat /\ Limits # {}
  /\ Edits \subseteq AllEdits
  /\ MaxUsed \in Nat

\* Every loop over the links goes by the position of their regions.
Links == 1..NumLinks

VARIABLES
  row,       \* the customer's row in the database
  on,        \* links that are active in their Core
  spent,     \* used_bytes of each link
  unsettled, \* requests come; worker calls, the database and the Console may fail
  pending,   \* _pending_disable holds the customer
  tick,      \* the reconcile loop and its local variables
  admin,     \* the request being served and its local variables
  cut,       \* history: the loop has switched the customer off, and no request
             \* or failure has interfered
  mixed      \* history: a request was being served during this tick

linkVars == <<on, spent>>
history == <<cut, mixed>>
vars == <<row, on, spent, unsettled, pending, tick, admin, cut, mixed>>

NoTick == [stage |-> "idle", at |-> 1, used |-> 0, ok |-> TRUE,
           limit |-> 0, expired |-> FALSE]
NoRequest == [stage |-> "idle", at |-> 1, used |-> 0, active |-> FALSE]

\* create_customer, with every region reached.
Init ==
  /\ row \in [active : {TRUE}, limit : Limits, used : {0}, expired : {FALSE}]
  /\ on = Links
  /\ spent = [l \in Links |-> 0]
  /\ unsettled = TRUE
  /\ pending = FALSE
  /\ tick = NoTick
  /\ admin = NoRequest
  /\ cut = FALSE /\ mixed = FALSE

\* A worker call has its effect on the links or leaves them alone, and is answered
\* unless it fails: a region is down, or the answer is lost.
Call(effect, answered) ==
  \/ effect /\ answered
  \/ unsettled /\ ~answered /\ (effect \/ UNCHANGED linkVars)

SwitchOff(l) == on' = on \ {l} /\ UNCHANGED spent
SwitchOn(l) == on' = on \cup {l} /\ UNCHANGED spent
Switch(l, active) == IF active THEN SwitchOn(l) ELSE SwitchOff(l)

-----------------------------------------------------------------------------
(* reconcile_once.                                                         *)

Goto(stage) == tick' = [NoTick EXCEPT !.stage = stage]

\* Mutants: an unlimited customer is over quota; so is only one above the limit.
AboveLimit(limit, used) == used >= limit
OverByMore(limit, used) == limit > 0 /\ used > limit

OverQuota(limit, used) == limit > 0 /\ used >= limit

\* Mutant: a link is counted once for every protocol.
CountedTwice(l) == 2 * spent[l]
Counted(l) == spent[l]

\* The rows of active customers are read: limit and expiry as they are now.
StartTick ==
  /\ tick.stage = "idle"
  /\ tick' = IF row.active
             THEN [NoTick EXCEPT !.stage = "sum", !.limit = row.limit,
                                 !.expired = row.expired]
             ELSE [NoTick EXCEPT !.stage = "retry"]
  /\ mixed' = (row.active /\ admin.stage # "idle")
  /\ UNCHANGED <<row, linkVars, unsettled, pending, admin, cut>>

\* _sum_usage: a link whose region does not answer counts for nothing.
AddUp ==
  /\ tick.stage = "sum" /\ tick.at \in Links
  /\ \E n \in {Counted(tick.at)} \cup (IF unsettled THEN {0} ELSE {}) :
       tick' = [tick EXCEPT !.at = @ + 1, !.used = @ + n]
  /\ UNCHANGED <<row, linkVars, unsettled, pending, admin, history>>

StoreUsage ==
  /\ tick.stage = "sum" /\ tick.at \notin Links
  /\ row' = [row EXCEPT !.used = tick.used]
  /\ IF tick.expired \/ OverQuota(tick.limit, tick.used)
     THEN Goto("cut") /\ UNCHANGED mixed
     ELSE Goto("retry") /\ mixed' = FALSE
  /\ UNCHANGED <<linkVars, unsettled, pending, admin, cut>>

\* A request that is about to set, or is setting, the links' active flag.
Switching == admin.stage \in {"forget", "switch", "reprovision"}

CutOff ==
  /\ tick.stage = "cut"
  /\ row' = [row EXCEPT !.active = FALSE]
  /\ Goto("push")
  /\ cut' = ~Switching
  /\ mixed' = FALSE
  /\ UNCHANGED <<linkVars, unsettled, pending, admin>>

\* Mutant: the last link's answer is taken for all of them.
LastAnswer(answered) == answered
AllAnswered(answered) == tick.ok /\ answered

\* set_customer_active(False), right after the cut or as a retry.
PushOff ==
  /\ tick.stage \in {"push", "repush"} /\ tick.at \in Links
  /\ \E answered \in BOOLEAN :
       /\ Call(SwitchOff(tick.at), answered)
       /\ tick' = [tick EXCEPT !.at = @ + 1, !.ok = AllAnswered(answered)]
  /\ UNCHANGED <<row, unsettled, pending, admin, history>>

Settle ==
  /\ tick.stage = "push" /\ tick.at \notin Links
  /\ pending' = ~tick.ok
  /\ Goto("retry")
  /\ UNCHANGED <<row, linkVars, unsettled, admin, history>>

\* The second half of a tick: retry what was not confirmed, this tick's included.
BeginRetry ==
  /\ tick.stage = "retry" /\ pending
  /\ Goto("repush")
  /\ UNCHANGED <<row, linkVars, unsettled, pending, admin, history>>

NothingToRetry ==
  /\ tick.stage = "retry" /\ ~pending
  /\ tick' = NoTick
  /\ UNCHANGED <<row, linkVars, unsettled, pending, admin, history>>

\* Mutant: one retry is all there is.
RetryOnce == FALSE
StillPending == pending /\ ~tick.ok

SettleRetry ==
  /\ tick.stage = "repush" /\ tick.at \notin Links
  /\ pending' = StillPending
  /\ tick' = NoTick
  /\ UNCHANGED <<row, linkVars, unsettled, admin, history>>

\* A database error ends the tick, or keeps the customer pending in a retry.
TickFails ==
  /\ unsettled /\ tick.stage # "idle"
  /\ tick' = NoTick
  /\ cut' = (cut /\ tick.stage # "push")
  /\ mixed' = FALSE
  /\ UNCHANGED <<row, linkVars, unsettled, pending, admin>>

Reconcile ==
  \/ StartTick \/ StoreUsage \/ CutOff \/ Settle \/ BeginRetry \/ NothingToRetry
  \/ SettleRetry \/ AddUp \/ PushOff

-----------------------------------------------------------------------------
(* update_customer, with one field in its body, and reprovision_customer.  *)

Then(stage) == admin' = [admin EXCEPT !.stage = stage]
Return == admin' = NoRequest

\* The loop over the links goes on; after the last one comes `last`.
Advance(last) == admin' = IF admin.at = NumLinks THEN last ELSE [admin EXCEPT !.at = @ + 1]

\* The row is read here, and only here.
Request(edit) ==
  /\ unsettled /\ admin.stage = "idle"
  /\ admin' = [stage |-> edit, at |-> 1, active |-> row.active,
               used |-> IF edit \in {"extend", "limit"} THEN row.used ELSE 0]
  /\ mixed' = (mixed \/ tick.stage \in {"sum", "cut"})
  /\ cut' = (cut /\ edit # "reprovision")
  /\ UNCHANGED <<row, linkVars, unsettled, pending, tick>>

\* expires_at is pushed to the links as well, which the model leaves to Core.
Extend ==
  /\ admin.stage = "extend"
  /\ row' = [row EXCEPT !.expired = FALSE]
  /\ Then("restore")
  /\ UNCHANGED <<linkVars, unsettled, pending, tick, history>>

ChangeLimit(limit) ==
  /\ admin.stage = "limit"
  /\ row' = [row EXCEPT !.limit = limit]
  /\ Then("restore")
  /\ UNCHANGED <<linkVars, unsettled, pending, tick, history>>

ResetUsage ==
  /\ admin.stage = "reset"
  /\ row' = [row EXCEPT !.used = 0]
  /\ Then("zero")
  /\ UNCHANGED <<linkVars, unsettled, pending, tick, history>>

\* The loop of patch_customer_links({"reset_usage"}); its result is not looked at.
ResetLink ==
  /\ admin.stage = "zero"
  /\ \E answered \in BOOLEAN :
       Call(spent' = [spent EXCEPT ![admin.at] = 0] /\ UNCHANGED on, answered)
  /\ Advance([admin EXCEPT !.stage = "restore", !.at = 1])
  /\ UNCHANGED <<row, unsettled, pending, tick, history>>

\* The customer who no longer breaches a limit is restored, by the usage that
\* was read when the request came.
Restore ==
  /\ admin.stage = "restore"
  /\ IF ~admin.active /\ ~row.expired /\ ~OverQuota(row.limit, admin.used)
     THEN /\ row' = [row EXCEPT !.active = TRUE]
          /\ admin' = [NoRequest EXCEPT !.stage = "forget"]
          /\ cut' = FALSE
     ELSE Return /\ UNCHANGED <<row, cut>>
  /\ UNCHANGED <<linkVars, unsettled, pending, tick, mixed>>

\* The loop of set_customer_active(active); its result is not looked at.
PushActive(active) ==
  admin' = [NoRequest EXCEPT !.stage = "switch", !.active = active]

SetActive(active) ==
  /\ admin.stage = IF active THEN "enable" ELSE "disable"
  /\ row' = [row EXCEPT !.active = active]
  /\ IF active THEN admin' = [NoRequest EXCEPT !.stage = "forget"] ELSE PushActive(FALSE)
  /\ cut' = FALSE
  /\ UNCHANGED <<linkVars, unsettled, pending, tick, mixed>>

\* forget_pending_disable.
Forget ==
  /\ admin.stage = "forget"
  /\ pending' = FALSE
  /\ PushActive(TRUE)
  /\ UNCHANGED <<row, linkVars, unsettled, tick, history>>

SwitchLink ==
  /\ admin.stage = "switch"
  /\ \E answered \in BOOLEAN : Call(Switch(admin.at, admin.active), answered)
  /\ Advance(NoRequest)
  /\ UNCHANGED <<row, unsettled, pending, tick, history>>

\* provision_customer_links posts the link anew: its usage starts at zero.
ReprovisionLink ==
  /\ admin.stage = "reprovision"
  /\ \E answered \in BOOLEAN :
       Call(/\ on' = IF admin.active THEN on \cup {admin.at} ELSE on \ {admin.at}
            /\ spent' = [spent EXCEPT ![admin.at] = 0], answered)
  /\ Advance(NoRequest)
  /\ UNCHANGED <<row, unsettled, pending, tick, history>>

Administer ==
  \/ \E edit \in Edits : Request(edit)
  \/ Extend \/ ResetUsage \/ Restore \/ Forget
  \/ \E limit \in Limits : ChangeLimit(limit)
  \/ \E active \in BOOLEAN : SetActive(active)
  \/ ResetLink \/ SwitchLink \/ ReprovisionLink

-----------------------------------------------------------------------------
(* Traffic, time and failures.                                             *)

Relay(l) ==
  /\ l \in on /\ spent[l] < MaxUsed
  /\ spent' = [spent EXCEPT ![l] = @ + 1]
  /\ UNCHANGED <<row, on, unsettled, pending, tick, admin, history>>

Expire ==
  /\ ~row.expired
  /\ row' = [row EXCEPT !.expired = TRUE]
  /\ UNCHANGED <<linkVars, unsettled, pending, tick, admin, history>>

\* From here on nothing fails and no request comes.
CalmDown ==
  /\ unsettled /\ admin.stage = "idle"
  /\ unsettled' = FALSE
  /\ UNCHANGED <<row, linkVars, pending, tick, admin, history>>

\* The Console restarts: _pending_disable is in memory only.
Restart ==
  /\ unsettled
  /\ pending' = FALSE /\ tick' = NoTick /\ admin' = NoRequest
  /\ cut' = FALSE /\ mixed' = FALSE
  /\ UNCHANGED <<row, linkVars, unsettled>>

Environment ==
  \/ Expire \/ CalmDown \/ Restart \/ TickFails
  \/ \E l \in Links : Relay(l)

Next == Reconcile \/ Administer \/ Environment

Spec == Init /\ [][Next]_vars

\* reconcile_loop runs a tick every RECONCILE_INTERVAL, and every call it makes
\* is answered or times out.
FairSpec == Spec /\ WF_vars(Reconcile)

-----------------------------------------------------------------------------
(* Properties.                                                             *)

Total == MapThenSumSet(LAMBDA l : spent[l], Links)
AllUsed == 0..(Cardinality(Links) * MaxUsed)

TypeOK ==
  /\ row \in [active : BOOLEAN, limit : Limits, used : AllUsed, expired : BOOLEAN]
  /\ on \subseteq Links
  /\ spent \in [Links -> 0..MaxUsed]
  /\ unsettled \in BOOLEAN /\ pending \in BOOLEAN
  /\ tick \in [stage : {"idle", "sum", "cut", "push", "retry", "repush"},
               at : 1..(NumLinks + 1), used : AllUsed, ok : BOOLEAN,
               limit : Limits \cup {0}, expired : BOOLEAN]
  /\ admin \in [stage : AllEdits \cup {"idle", "zero", "restore", "forget", "switch"},
                at : Links, used : AllUsed, active : BOOLEAN]
  /\ cut \in BOOLEAN /\ mixed \in BOOLEAN

\* A customer the loop has switched off is off on every link, or is going to be
\* retried, whichever calls failed, were lost or were applied unanswered.
UnconfirmedIsRetried == cut /\ tick.stage # "push" => pending \/ on = {}

Breach == row.expired \/ (row.limit > 0 /\ Total >= row.limit)

\* Unless a request was served during the tick, the loop switches off only a
\* customer who does breach a limit at that moment, however old its figures are.
CutOnlyInBreach == [][CutOff => mixed \/ Breach]_vars

\* In the end every link of a customer who was switched off is off.
CutReachesEveryLink == <>~unsettled => (cut ~> (~cut \/ on = {}))

\* In the end a customer in breach is switched off.
BreachIsCut == <>~unsettled => ((row.active /\ Breach) ~> (~row.active \/ ~Breach))

\* What forget_pending_disable promises: no retry of an earlier disable starts
\* for a customer whom a request has enabled again.
ReEnableSticks == [][BeginRetry /\ admin.stage = "idle" => ~row.active]_vars

-----------------------------------------------------------------------------
(* The inductive invariant behind TypeOK and UnconfirmedIsRetried.         *)

\* What has been added up so far.
SumBound == tick.used <= (tick.at - 1) * MaxUsed

\* While the loop's cut holds no request is switching links on, and the links
\* that a push has been confirmed for are off.
CutHolds ==
  cut => /\ ~Switching
         /\ tick.stage \in {"push", "repush"} /\ tick.ok => on \cap 1..(tick.at - 1) = {}

IInv == TypeOK /\ SumBound /\ CutHolds /\ UnconfirmedIsRetried

\* The usage, by now, of the links that this tick has added up.
SoFar == MapThenSumSet(LAMBDA l : spent[l], 1..(tick.at - 1))

\* Given IInv, the inductive invariant behind CutOnlyInBreach: the figures of a
\* tick no request interferes with are never above the true ones, and the
\* terms it has read are the row's.
FigureInv ==
  tick.stage \in {"sum", "cut"} /\ ~mixed =>
    /\ admin.stage = "idle"
    /\ tick.stage = "sum" => /\ tick.limit = row.limit
                             /\ tick.expired => row.expired
                             /\ tick.used <= SoFar
    /\ tick.stage = "cut" => Breach

=============================================================================
