-------------------------- MODULE RelayChainProofs --------------------------
(* Proofs that a chain of relays is a pipe each way and that a refused client *)
(* is told so, for every number of relays, frames and broken connections.     *)
EXTENDS RelayChain, TLAPS

-----------------------------------------------------------------------------
(* The state of every relay and of both ends.                              *)

Frame == 0..999
Stages == {"absent", "accepted", "pumping", "closing", "done"}

\* A close is the last thing in a queue.
Queue == {q \in Seq(Nat) : \A k \in 1..Len(q) - 1 : ~IsClose(q[k])}

TypesOK ==
  /\ hops \in Relays /\ kind \in Kinds
  /\ stage \in [Relays -> Stages]
  /\ ended \in [Relays -> BOOLEAN]
  /\ hand \in [Relays -> [Dirs -> Frame]]
  /\ net \in [Links -> [Dirs -> Queue]]
  /\ sent \in [Dirs -> 0..MaxFrames]
  /\ got \in [Dirs -> Seq(Nat)]
  /\ core \in {"absent", "open", "left", "finished", "refused"}
  /\ client \in {"on", "left", "told"}
  /\ told \in Nat /\ lost \in Nat

\* A relay is reached when the one before it has dialled.
Path == 1..hops
Dialled(h) == IF h = hops THEN core # "absent" ELSE stage[h + 1] # "absent"
Refused(h) == stage[h] = "done" /\ ~Dialled(h)
Refusal == \E h \in Path : Refused(h)

StagesOK ==
  /\ \A h \in Relays : h > hops => stage[h] = "absent"
  /\ \A g, h \in Path : g < h /\ stage[h] # "absent" => stage[g + 1] # "absent"
  /\ \A h \in Path : Dialled(h) => stage[h] \notin {"absent", "accepted"}
  /\ \A h \in Path : stage[h] \in {"pumping", "closing"} => Dialled(h)
  /\ \A h \in Path : ended[h] => Dialled(h)
  /\ \A h \in Path : Dialled(h) /\ stage[h] \in {"closing", "done"} => ended[h]
  /\ Refusal => core = "absent"

-----------------------------------------------------------------------------
(* While no connection broke, a chain is taken down from one of its ends.  *)

UpCloses ==
  /\ Closed(net[0].up) => client = "left"
  /\ \A h \in Path : Closed(net[h].up) => ended[h] /\ stage[h] \in {"closing", "done"}

DownCloses ==
  /\ \A h \in Path : Closed(net[h - 1].down) => stage[h] = "done"
  /\ Closed(net[hops].down) => core \in {"finished", "refused"}

\* A task ends because of what is upstream, unless the client left.
EndsDown ==
  client # "left" =>
    \A h \in Path : ended[h] =>
      /\ Closed(net[h].down)
      /\ core \in {"finished", "refused"} \/ Refusal

EndsOK ==
  /\ core = "left" => client = "left"
  /\ client = "told" => Closed(net[0].down) /\ told = Last(net[0].down)

\* The Core's refusal is carried by whoever closes.
RefusalCarried ==
  core = "refused" /\ client # "left" =>
    /\ Closed(net[hops].down) /\ Last(net[hops].down) = Rejected
    /\ hops = 1 \/ kind = "get" =>
         \A h \in Path : Closed(net[h - 1].down) => Last(net[h - 1].down) = Rejected

Intact == lost = 0 => UpCloses /\ DownCloses /\ EndsDown /\ EndsOK /\ RefusalCarried

ChainInv == TypesOK /\ StagesOK /\ Intact

-----------------------------------------------------------------------------
(* Frames.  e[i] frames have been taken off link i of the direction d.     *)

Source(d) == IF d = "down" THEN hops ELSE 0
Sink(d) == IF d = "down" THEN 0 ELSE hops
Before(d, i, j) == IF d = "down" THEN j < i ELSE i < j

Carries(q, n) == \A k \in 1..Len(q) : IsClose(q[k]) \/ q[k] = n + k
Fill(q) == IF Closed(q) THEN Len(q) - 1 ELSE Len(q)
Held(h, d) == IF hand[h][d] = 0 THEN 0 ELSE 1

\* What each link carries follows what was taken off it, and was taken off
\* the links before it.
LinksFlow(d, e) ==
  /\ \A i \in 0..hops : Carries(net[i][d], e[i]) /\ e[i] + Fill(net[i][d]) <= sent[d]
  /\ \A i, j \in 0..hops : Before(d, i, j) => e[j] + Fill(net[j][d]) <= e[i]

EndsFlow(d, e) ==
  /\ e[Sink(d)] = Len(got[d]) /\ \A k \in 1..Len(got[d]) : got[d][k] = k
  /\ ~Closed(net[Source(d)][d]) => e[Source(d)] + Len(net[Source(d)][d]) = sent[d]

\* A relay that has not been cancelled has sent, or holds, all that it took.
RelayFlow(h, d, e) ==
  /\ hand[h][d] # 0 => hand[h][d] = e[From(h, d)]
  /\ stage[h] \notin {"closing", "done"} /\ ~Closed(net[To(h, d)][d]) =>
       e[From(h, d)] = e[To(h, d)] + Len(net[To(h, d)][d]) + Held(h, d)

\* While the end of the tunnel comes from its source, and everything that was
\* said against it has arrived, a close comes after all the frames.
Orderly(d) ==
  /\ lost = 0 /\ Drained(Other(d))
  /\ IF d = "down" THEN client = "on" /\ core = "finished"
     ELSE client = "left" /\ core \in {"absent", "open"} /\ ~Refusal

Whole(d, e) ==
  /\ \A i \in 0..hops : Closed(net[i][d]) => e[i] + Fill(net[i][d]) = sent[d]
  /\ \A h \in Path : ended[h] =>
       /\ AtClose(net[From(h, d)][d]) /\ hand[h][d] = 0
       /\ ~Closed(net[To(h, d)][d]) => e[From(h, d)] = e[To(h, d)] + Len(net[To(h, d)][d])

InOrder(d, e) == LinksFlow(d, e) /\ EndsFlow(d, e) /\ \A h \in Path : RelayFlow(h, d, e)
Flow(d, e) == InOrder(d, e) /\ (Orderly(d) => Whole(d, e))

Flows(d) == \E e \in [Links -> Nat] : Flow(d, e)
FlowInv == \A d \in Dirs : Flows(d)

-----------------------------------------------------------------------------
(* Queues.                                                                 *)

\* What the operators on queues say, by length and index.
LEMMA ByIndex ==
  ASSUME NEW q \in Seq(Nat)
  PROVE  /\ Len(q) \in Nat
         /\ Closed(q) <=> (Len(q) > 0 /\ q[Len(q)] >= 1000)
         /\ AtClose(q) <=> (Len(q) > 0 /\ q[1] >= 1000)
         /\ HasFrame(q) <=> (Len(q) > 0 /\ q[1] < 1000)
         /\ Len(q) > 0 => Head(q) = q[1] /\ q[1] \in Nat /\ q[Len(q)] \in Nat
         /\ Last(q) = q[Len(q)]
         /\ (q = <<>>) <=> (Len(q) = 0)
<1>1. Len(q) \in Nat
  OBVIOUS
<1>2. (q = <<>>) <=> (Len(q) = 0)
  <2>1. Len(q) = 0 => q = <<>>
    OBVIOUS
  <2>2. q = <<>> => Len(q) = 0
    OBVIOUS
  <2>3. QED
    BY <2>1, <2>2
<1>3. Len(q) > 0 => Head(q) = q[1]
  BY <1>2
<1>4. Last(q) = q[Len(q)]
  BY DEF Last
<1>5. Closed(q) <=> (Len(q) > 0 /\ q[Len(q)] >= 1000)
  BY <1>1, <1>2, <1>4 DEF Closed, IsClose
<1>6. AtClose(q) <=> (Len(q) > 0 /\ q[1] >= 1000)
  BY <1>1, <1>2, <1>3 DEF AtClose, IsClose
<1>7. HasFrame(q) <=> (Len(q) > 0 /\ q[1] < 1000)
  <2>1. Len(q) > 0 => q[1] \in Nat
    BY <1>1
  <2>2. QED
    BY <1>1, <1>2, <1>3, <2>1 DEF HasFrame, IsClose
<1>8. Len(q) > 0 => q[1] \in Nat /\ q[Len(q)] \in Nat
  BY <1>1
<1>9. QED
  BY <1>1, <1>2, <1>3, <1>4, <1>5, <1>6, <1>7, <1>8

\* All its entries but the last are frames.
LEMMA QueueByIndex ==
  ASSUME NEW q \in Seq(Nat)
  PROVE  q \in Queue <=> \A k \in 1..Len(q) - 1 : q[k] < 1000
<1>1. \A k \in 1..Len(q) - 1 : q[k] \in Nat
  OBVIOUS
<1>2. QED
  BY <1>1 DEF Queue, IsClose

\* What a queue carries, by index.
LEMMA CarriesByIndex ==
  ASSUME NEW q \in Seq(Nat), NEW n \in Nat
  PROVE  Carries(q, n) <=> \A k \in 1..Len(q) : q[k] >= 1000 \/ q[k] = n + k
  BY DEF Carries, IsClose

\* What is in a queue, and what its last entry says of it.
LEMMA QueueFacts ==
  ASSUME NEW q \in Queue
  PROVE  /\ q \in Seq(Nat) /\ Len(q) \in Nat
         /\ Fill(q) \in Nat /\ Fill(q) <= Len(q) /\ (~Closed(q) => Fill(q) = Len(q))
         /\ AtClose(q) => Closed(q) /\ Fill(q) = 0 /\ Len(q) = 1 /\ Head(q) = Last(q)
         /\ Closed(q) => Last(q) \in Nat /\ Last(q) >= 1000 /\ Fill(q) = Len(q) - 1
         /\ Closed(q) /\ Fill(q) = 0 => AtClose(q)
         /\ HasFrame(q) => ~AtClose(q)
<1>1. q \in Seq(Nat) /\ Len(q) \in Nat /\ \A k \in 1..Len(q) : q[k] \in Nat
  BY DEF Queue
<1>2. \A k \in 1..Len(q) - 1 : q[k] < 1000
  BY <1>1, QueueByIndex
<1>3. /\ Closed(q) <=> (Len(q) > 0 /\ q[Len(q)] >= 1000)
      /\ AtClose(q) <=> (Len(q) > 0 /\ q[1] >= 1000)
      /\ HasFrame(q) <=> (Len(q) > 0 /\ q[1] < 1000)
      /\ Len(q) > 0 => Head(q) = q[1] /\ q[1] \in Nat /\ q[Len(q)] \in Nat
      /\ Last(q) = q[Len(q)]
  BY <1>1, ByIndex
<1>4. Fill(q) = IF Closed(q) THEN Len(q) - 1 ELSE Len(q)
  BY DEF Fill
<1>5. AtClose(q) => Len(q) = 1
  <2> SUFFICES ASSUME AtClose(q), Len(q) # 1 PROVE FALSE
    OBVIOUS
  <2>1. Len(q) > 1 /\ q[1] >= 1000
    BY <1>1, <1>3
  <2>2. 1 \in 1..Len(q) - 1
    BY <1>1, <2>1
  <2>3. q[1] < 1000 /\ q[1] \in Nat
    BY <1>2, <1>3, <2>1, <2>2
  <2>4. QED
    BY <2>1, <2>3
<1>6. AtClose(q) => Closed(q) /\ Fill(q) = 0 /\ Head(q) = Last(q)
  <2> SUFFICES ASSUME AtClose(q) PROVE Closed(q) /\ Fill(q) = 0 /\ Head(q) = Last(q)
    OBVIOUS
  <2>1. Len(q) = 1 /\ q[1] >= 1000
    BY <1>3, <1>5
  <2>2. Closed(q) /\ Head(q) = Last(q)
    BY <1>3, <2>1
  <2>3. QED
    BY <1>4, <2>1, <2>2
<1>7. Closed(q) => Last(q) \in Nat /\ Last(q) >= 1000 /\ Fill(q) = Len(q) - 1 /\ Len(q) > 0
  BY <1>3, <1>4
<1>8. Closed(q) /\ Fill(q) = 0 => AtClose(q)
  <2> SUFFICES ASSUME Closed(q), Fill(q) = 0 PROVE AtClose(q)
    OBVIOUS
  <2>1. Len(q) = 1
    BY <1>1, <1>7
  <2>2. QED
    BY <1>3, <2>1
<1>9. HasFrame(q) => ~AtClose(q)
  BY <1>3
<1>10. Fill(q) \in Nat /\ Fill(q) <= Len(q) /\ (~Closed(q) => Fill(q) = Len(q))
  BY <1>1, <1>4, <1>7
<1>11. QED
  BY <1>1, <1>5, <1>6, <1>7, <1>8, <1>9, <1>10

\* A frame or a close put behind what is in an open queue.
LEMMA Appended ==
  ASSUME NEW q \in Queue, NEW x \in Nat, ~Closed(q)
  PROVE  /\ Put(q, x) \in Queue /\ Len(Put(q, x)) = Len(q) + 1 /\ Last(Put(q, x)) = x
         /\ Closed(Put(q, x)) <=> (x >= 1000)
         /\ \A n \in Nat : Carries(q, n) /\ (x >= 1000 \/ x = n + Len(q) + 1)
                             => Carries(Put(q, x), n)
<1>1. PICK p : p = Append(q, x)
  OBVIOUS
<1>2. Put(q, x) = p
  BY <1>1 DEF Put
<1>3. q \in Seq(Nat) /\ Len(q) \in Nat
  BY QueueFacts
<1>4. /\ p \in Seq(Nat) /\ Len(p) = Len(q) + 1 /\ p[Len(q) + 1] = x
      /\ \A k \in 1..Len(q) : p[k] = q[k]
  BY <1>1, <1>3
<1>5. Last(p) = x /\ (Closed(p) <=> x >= 1000)
  BY <1>3, <1>4, ByIndex
<1>6. p \in Queue
  <2>1. \A k \in 1..Len(q) - 1 : q[k] < 1000
    BY <1>3, QueueByIndex
  <2>2. Len(q) > 0 => q[Len(q)] < 1000
    <3>1. /\ Closed(q) <=> (Len(q) > 0 /\ q[Len(q)] >= 1000)
          /\ Len(q) > 0 => q[Len(q)] \in Nat
      BY <1>3, ByIndex
    <3>2. QED
      BY <3>1
  <2>3. ASSUME NEW k \in 1..Len(p) - 1 PROVE p[k] < 1000
    <3>1. k \in 1..Len(q) /\ p[k] = q[k]
      BY <1>3, <1>4
    <3>2. CASE k = Len(q)
      BY <1>3, <2>2, <3>1, <3>2
    <3>3. CASE k # Len(q)
      <4>1. k \in 1..Len(q) - 1
        BY <1>3, <3>1, <3>3
      <4>2. QED
        BY <2>1, <3>1, <4>1
    <3>4. QED
      BY <3>2, <3>3
  <2>4. QED
    BY SMTT(30), <1>4, <2>3, QueueByIndex
<1>7. ASSUME NEW n \in Nat, Carries(q, n), x >= 1000 \/ x = n + Len(q) + 1
      PROVE  Carries(p, n)
  <2>1. \A k \in 1..Len(q) : q[k] >= 1000 \/ q[k] = n + k
    BY <1>3, <1>7, CarriesByIndex
  <2>2. ASSUME NEW k \in 1..Len(p) PROVE p[k] >= 1000 \/ p[k] = n + k
    <3>1. CASE k \in 1..Len(q)
      BY SMTT(30), <1>4, <2>1, <3>1
    <3>2. CASE k = Len(q) + 1
      BY <1>3, <1>4, <1>7, <3>2
    <3>3. QED
      BY <1>3, <1>4, <3>1, <3>2
  <2>3. QED
    BY <1>4, <2>2, CarriesByIndex
<1>8. QED
  BY <1>2, <1>4, <1>5, <1>6, <1>7

\* A frame is put behind the others, unless the queue is closed.
LEMMA PutFrame ==
  ASSUME NEW q \in Queue, NEW x \in Frame
  PROVE  /\ Put(q, x) \in Queue /\ (Closed(Put(q, x)) <=> Closed(q))
         /\ Closed(q) => Put(q, x) = q
         /\ ~Closed(q) => Len(Put(q, x)) = Len(q) + 1 /\ Fill(Put(q, x)) = Fill(q) + 1
         /\ \A n \in Nat : Carries(q, n) /\ x = n + Len(q) + 1 => Carries(Put(q, x), n)
<1>1. CASE Closed(q)
  <2>1. Put(q, x) = q
    BY <1>1 DEF Put
  <2>2. QED
    BY <1>1, <2>1
<1>2. CASE ~Closed(q)
  <2>1. /\ Put(q, x) \in Queue /\ Len(Put(q, x)) = Len(q) + 1 /\ ~Closed(Put(q, x))
        /\ \A n \in Nat : Carries(q, n) /\ x = n + Len(q) + 1 => Carries(Put(q, x), n)
    <3>1. x \in Nat /\ ~(x >= 1000)
      BY DEF Frame
    <3>2. QED
      BY <1>2, <3>1, Appended
  <2>2. Fill(q) = Len(q) /\ Fill(Put(q, x)) = Len(Put(q, x))
    BY <1>2, <2>1 DEF Fill
  <2>3. QED
    BY <1>2, <2>1, <2>2
<1>3. QED
  BY <1>1, <1>2

\* A close is put behind what is there, and stays.
LEMMA PutClose ==
  ASSUME NEW q \in Queue, NEW c \in Nat, c >= 1000
  PROVE  /\ Put(q, c) \in Queue /\ Closed(Put(q, c)) /\ Fill(Put(q, c)) = Fill(q)
         /\ Closed(q) => Put(q, c) = q
         /\ ~Closed(q) => Last(Put(q, c)) = c
         /\ \A n \in Nat : Carries(q, n) => Carries(Put(q, c), n)
<1>1. CASE Closed(q)
  <2>1. Put(q, c) = q
    BY <1>1 DEF Put
  <2>2. QED
    BY <1>1, <2>1
<1>2. CASE ~Closed(q)
  <2>1. /\ Put(q, c) \in Queue /\ Len(Put(q, c)) = Len(q) + 1 /\ Closed(Put(q, c))
        /\ Last(Put(q, c)) = c
        /\ \A n \in Nat : Carries(q, n) => Carries(Put(q, c), n)
    <3>1. c >= 1000
      OBVIOUS
    <3>2. QED
      BY <1>2, <3>1, Appended
  <2>2. Len(q) \in Nat /\ Fill(q) = Len(q) /\ Fill(Put(q, c)) = Len(Put(q, c)) - 1
    BY <1>2, <2>1, QueueFacts
  <2>3. QED
    BY <1>2, <2>1, <2>2
<1>3. QED
  BY <1>1, <1>2

\* The first frame is the next one, and the rest follows it.
LEMMA TakeOne ==
  ASSUME NEW q \in Queue, HasFrame(q)
  PROVE  /\ Head(q) \in Frame /\ Tail(q) \in Queue
         /\ (Closed(Tail(q)) <=> Closed(q)) /\ (Closed(q) => Last(Tail(q)) = Last(q))
         /\ Len(Tail(q)) = Len(q) - 1 /\ Fill(q) >= 1 /\ Fill(Tail(q)) = Fill(q) - 1
         /\ \A n \in Nat : Carries(q, n) => Head(q) = n + 1 /\ Carries(Tail(q), n + 1)
<1>1. PICK t : t = Tail(q)
  OBVIOUS
<1>2. q \in Seq(Nat) /\ Len(q) \in Nat
  BY QueueFacts
<1>3. Len(q) >= 1 /\ q[1] < 1000 /\ q[1] \in Nat /\ Head(q) = q[1] /\ q # <<>>
  <2>1. /\ HasFrame(q) <=> (Len(q) > 0 /\ q[1] < 1000)
        /\ Len(q) > 0 => Head(q) = q[1] /\ q[1] \in Nat
        /\ (q = <<>>) <=> (Len(q) = 0)
    BY <1>2, ByIndex
  <2>2. Len(q) > 0 /\ q[1] < 1000
    BY <2>1
  <2>3. QED
    BY <1>2, <2>1, <2>2
<1>4. q[1] \in Frame
  <2>1. ASSUME NEW x \in Nat, x < 1000 PROVE x \in Frame
    BY <2>1 DEF Frame
  <2>2. QED
    BY <1>3, <2>1
<1>5. /\ t \in Seq(Nat) /\ Len(t) = Len(q) - 1
      /\ \A k \in 1..Len(t) : t[k] = q[k + 1] /\ k + 1 \in 1..Len(q)
  BY <1>1, <1>2, <1>3
<1>6. Len(t) > 0 => t[Len(t)] = q[Len(q)]
  BY <1>2, <1>5
<1>7. (Closed(t) <=> Closed(q)) /\ (Closed(q) => Last(t) = Last(q))
  <2>1. /\ (Closed(q) <=> (Len(q) > 0 /\ q[Len(q)] >= 1000)) /\ Last(q) = q[Len(q)]
        /\ (Closed(t) <=> (Len(t) > 0 /\ t[Len(t)] >= 1000)) /\ Last(t) = t[Len(t)]
    BY <1>2, <1>5, ByIndex
  <2>2. CASE Len(t) = 0
    BY <1>2, <1>3, <1>5, <2>1, <2>2
  <2>3. CASE Len(t) > 0
    <3>1. Len(q) > 0 /\ t[Len(t)] = q[Len(q)]
      BY <1>3, <1>6, <2>3
    <3>2. QED
      BY <2>1, <2>3, <3>1
  <2>4. QED
    BY <1>2, <1>3, <1>5, <2>2, <2>3
<1>8. Fill(q) >= 1 /\ Fill(t) = Fill(q) - 1
  <2>1. Closed(q) => Len(q) # 1
    <3>1. Closed(q) <=> (Len(q) > 0 /\ q[Len(q)] >= 1000)
      BY <1>2, ByIndex
    <3>2. QED
      BY <1>3, <3>1
  <2>2. QED
    BY <1>2, <1>3, <1>5, <1>7, <2>1 DEF Fill
<1>9. t \in Queue
  <2>1. \A k \in 1..Len(q) - 1 : q[k] < 1000
    BY <1>2, QueueByIndex
  <2>2. ASSUME NEW k \in 1..Len(t) - 1 PROVE t[k] < 1000
    <3>1. k \in 1..Len(t) /\ k + 1 \in 1..Len(q) - 1
      BY <1>2, <1>5
    <3>3. t[k] = q[k + 1]
      BY <1>5, <3>1
    <3>2. QED
      BY <2>1, <3>1, <3>3
  <2>3. QED
    BY <1>5, <2>2, QueueByIndex
<1>10. ASSUME NEW n \in Nat, Carries(q, n) PROVE q[1] = n + 1 /\ Carries(t, n + 1)
  <2>1. \A k \in 1..Len(q) : q[k] >= 1000 \/ q[k] = n + k
    BY <1>2, <1>10, CarriesByIndex
  <2>2. q[1] = n + 1
    BY <1>2, <1>3, <2>1
  <2>3. ASSUME NEW k \in 1..Len(t) PROVE t[k] >= 1000 \/ t[k] = (n + 1) + k
    <3>1. k + 1 \in 1..Len(q) /\ t[k] = q[k + 1]
      BY <1>5
    <3>2. q[k + 1] >= 1000 \/ q[k + 1] = n + (k + 1)
      BY <2>1, <3>1
    <3>3. QED
      BY <3>1, <3>2
  <2>4. QED
    BY <1>5, <2>2, <2>3, CarriesByIndex
<1>11. QED
  BY <1>1, <1>3, <1>4, <1>5, <1>7, <1>8, <1>9, <1>10

\* A connection that breaks keeps the beginning of what was under way.
LEMMA CutShort ==
  ASSUME NEW q \in Queue, NEW k \in 0..Len(q), NEW c \in Nat, c >= 1000
  PROVE  LET p == Put(SubSeq(q, 1, k), c) IN
         /\ p \in Queue /\ Closed(p) /\ Fill(p) <= Fill(q)
         /\ \A n \in Nat : Carries(q, n) => Carries(p, n)
<1>1. PICK s : s = SubSeq(q, 1, k)
  OBVIOUS
<1>2. q \in Seq(Nat) /\ Len(q) \in Nat /\ k \in Nat /\ k <= Len(q)
  BY QueueFacts
<1>3. s \in Seq(Nat) /\ Len(s) = k /\ \A m \in 1..k : s[m] = q[m]
  BY <1>1, <1>2
<1>4. s \in Queue
  <2>1. \A m \in 1..Len(q) - 1 : q[m] < 1000
    BY <1>2, QueueByIndex
  <2>2. \A m \in 1..Len(s) - 1 : s[m] < 1000
    BY <1>2, <1>3, <2>1
  <2>3. QED
    BY <1>3, <2>2, QueueByIndex
<1>5. Fill(s) <= Fill(q)
  <2>1. Closed(q) <=> (Len(q) > 0 /\ q[Len(q)] >= 1000)
    BY <1>2, ByIndex
  <2>2. Closed(s) <=> (Len(s) > 0 /\ s[Len(s)] >= 1000)
    BY <1>3, ByIndex
  <2>3. k = Len(q) => (Closed(s) <=> Closed(q))
    BY <1>2, <1>3, <2>1, <2>2
  <2>4. QED
    BY <1>2, <1>3, <2>3 DEF Fill
<1>6. ASSUME NEW n \in Nat, Carries(q, n) PROVE Carries(s, n)
  <2>1. \A m \in 1..Len(q) : q[m] >= 1000 \/ q[m] = n + m
    BY <1>2, <1>6, CarriesByIndex
  <2>2. ASSUME NEW m \in 1..Len(s) PROVE s[m] >= 1000 \/ s[m] = n + m
    <3>1. m \in 1..Len(q) /\ s[m] = q[m]
      BY <1>2, <1>3
    <3>2. QED
      BY <2>1, <3>1
  <2>3. QED
    BY <1>3, <2>2, CarriesByIndex
<1>7. /\ Put(s, c) \in Queue /\ Closed(Put(s, c)) /\ Fill(Put(s, c)) = Fill(s)
      /\ \A n \in Nat : Carries(s, n) => Carries(Put(s, c), n)
  BY <1>4, PutClose
<1>8. QED
  BY <1>1, <1>5, <1>6, <1>7

-----------------------------------------------------------------------------
(* Types and stages.                                                       *)

\* Frames are numbers.
LEMMA FramesCount == ASSUME NEW n \in Frame PROVE n \in Nat /\ n < 1000
  BY DEF Frame

\* One entry of a function of functions is replaced.
LEMMA ReplaceOne ==
  ASSUME NEW S, NEW T, NEW V, NEW f \in [S -> [T -> V]], NEW s \in S, NEW t \in T, NEW v \in V
  PROVE  /\ [f EXCEPT ![s][t] = v] \in [S -> [T -> V]]
         /\ [f EXCEPT ![s][t] = v][s][t] = v
         /\ \A a \in S, b \in T : a # s \/ b # t => [f EXCEPT ![s][t] = v][a][b] = f[a][b]
  OBVIOUS

\* One queue is replaced.
LEMMA PutAt ==
  ASSUME TypesOK, NEW i \in Links, NEW d \in Dirs, NEW q \in Queue,
         net' = [net EXCEPT ![i][d] = q]
  PROVE  /\ net' \in [Links -> [Dirs -> Queue]]
         /\ net'[i][d] = q
         /\ \A j \in Links, c \in Dirs : j # i \/ c # d => net'[j][c] = net[j][c]
  BY ReplaceOne DEF TypesOK

\* The two directions.
LEMMA Directions == Dirs = {"down", "up"} /\ "down" \in Dirs /\ "up" \in Dirs
  BY DEF Dirs

\* Where a relay's links are.
LEMMA Places ==
  ASSUME TypesOK, NEW h \in Relays
  PROVE  /\ h \in Nat /\ h >= 1 /\ h \in Links /\ h - 1 \in Links
         /\ \A d \in Dirs : From(h, d) \in Links /\ To(h, d) \in Links
         /\ 0 \in Links /\ hops \in Links /\ hops \in Nat /\ hops >= 1 /\ hops <= MaxHops
         /\ hops \in Relays /\ Path \subseteq Relays
  BY ChainAssumption DEF TypesOK, Relays, Links, From, To, Dirs, Path

\* Every close has the code of a close.
LEMMA CodesClose ==
  ASSUME TypesOK, NEW h \in Relays
  PROVE  CloseCode(h) \in Nat /\ CloseCode(h) >= 1000
<1>1. net[h].down \in Queue
  BY Places DEF TypesOK, Dirs
<1>2. QED
  BY <1>1, QueueFacts DEF CloseCode, Normal

\* Each action keeps the types.
LEMMA RefuseTypes == ASSUME TypesOK, NEW h \in Relays, Refuse(h) PROVE TypesOK'
<1>1. PICK code \in {Rejected, Unavailable} : net' = [net EXCEPT ![h - 1].down = Put(@, code)]
  BY DEF Refuse
<1>2. h - 1 \in Links /\ "down" \in Dirs /\ net[h - 1].down \in Queue
  BY Places, Directions DEF TypesOK
<1>3. Put(net[h - 1].down, code) \in Queue
  BY <1>2, PutClose DEF Rejected, Unavailable
<1>4. net' \in [Links -> [Dirs -> Queue]]
  BY <1>1, <1>2, <1>3, PutAt
<1>5. stage' \in [Relays -> Stages]
  BY DEF Refuse, TypesOK, Stages
<1>6. QED
  BY <1>4, <1>5 DEF Refuse, TypesOK, path, endVars

\* A relay that dials keeps them.
LEMMA DialTypes == ASSUME TypesOK, NEW h \in Relays, Dial(h) PROVE TypesOK'
<1>1. stage' \in [Relays -> Stages]
  <2>1. "pumping" \in Stages /\ "accepted" \in Stages /\ stage \in [Relays -> Stages]
    BY DEF TypesOK, Stages
  <2>2. \/ stage' = [stage EXCEPT ![h] = "pumping"]
        \/ stage' = [stage EXCEPT ![h] = "pumping", ![h + 1] = "accepted"]
    BY DEF Dial
  <2>3. QED
    BY <2>1, <2>2
<1>2. core' \in {"absent", "open", "left", "finished", "refused"}
  BY DEF Dial, TypesOK
<1>3. QED
  BY <1>1, <1>2 DEF Dial, TypesOK, path

\* So does a task that takes a frame, sends it or returns.
LEMMA TaskTypes ==
  ASSUME TypesOK, NEW h \in Relays, NEW d \in Dirs, Task(h, d)
  PROVE  TypesOK'
<1>1. From(h, d) \in Links /\ To(h, d) \in Links
  BY Places
<1>2. net[From(h, d)][d] \in Queue /\ net[To(h, d)][d] \in Queue /\ hand[h][d] \in Frame
  BY <1>1 DEF TypesOK
<1>3. CASE Take(h, d)
  <2>1. Head(net[From(h, d)][d]) \in Frame /\ Tail(net[From(h, d)][d]) \in Queue
    BY <1>2, <1>3, TakeOne DEF Take
  <2>2. net' = [net EXCEPT ![From(h, d)][d] = Tail(net[From(h, d)][d])]
    BY <1>3 DEF Take
  <2>3. net' \in [Links -> [Dirs -> Queue]]
    BY <1>1, <2>1, <2>2, PutAt
  <2>4. hand' \in [Relays -> [Dirs -> Frame]]
    <3>1. hand' = [hand EXCEPT ![h][d] = Head(net[From(h, d)][d])]
      BY <1>3 DEF Take
    <3>2. hand \in [Relays -> [Dirs -> Frame]]
      BY DEF TypesOK
    <3>3. QED
      BY <2>1, <3>1, <3>2, ReplaceOne
  <2>5. QED
    BY <1>3, <2>3, <2>4 DEF Take, TypesOK, path, endVars
<1>4. CASE Send(h, d)
  <2>1. Put(net[To(h, d)][d], hand[h][d]) \in Queue
    BY <1>2, PutFrame
  <2>2. net' = [net EXCEPT ![To(h, d)][d] = Put(net[To(h, d)][d], hand[h][d])] \/ net' = net
    BY <1>4 DEF Send
  <2>3. net' \in [Links -> [Dirs -> Queue]]
    BY <1>1, <2>1, <2>2, PutAt DEF TypesOK
  <2>4. hand' \in [Relays -> [Dirs -> Frame]]
    <3>1. hand' = [hand EXCEPT ![h][d] = 0] \/ hand' = hand
      BY <1>4 DEF Send
    <3>2. 0 \in Frame
      BY DEF Frame
    <3>4. hand \in [Relays -> [Dirs -> Frame]]
      BY DEF TypesOK
    <3>3. QED
      BY <3>1, <3>2, <3>4, ReplaceOne
  <2>5. ended' \in [Relays -> BOOLEAN]
    <3>1. ended' = [ended EXCEPT ![h] = TRUE] \/ ended' = ended
      BY <1>4 DEF Send
    <3>2. QED
      BY <3>1 DEF TypesOK
  <2>6. QED
    BY <1>4, <2>3, <2>4, <2>5 DEF Send, TypesOK, path, endVars
<1>5. CASE Return(h, d)
  BY <1>5 DEF Return, TypesOK, path, endVars
<1>6. QED
  BY <1>3, <1>4, <1>5 DEF Task

\* So does a relay that cancels its tasks.
LEMMA CancelTypes == ASSUME TypesOK, NEW h \in Relays, Cancel(h) PROVE TypesOK'
<1>1. h \in Links /\ "up" \in Dirs /\ net[h].up \in Queue
  BY Places, Directions DEF TypesOK
<1>2. Put(net[h].up, Normal) \in Queue
  BY <1>1, PutClose DEF Normal
<1>3. net' = [net EXCEPT ![h]["up"] = Put(net[h].up, Normal)]
  BY DEF Cancel
<1>4. net' \in [Links -> [Dirs -> Queue]]
  BY <1>1, <1>2, <1>3, PutAt
<1>5. stage' \in [Relays -> Stages]
  BY DEF Cancel, TypesOK, Stages
<1>6. hand' \in [Relays -> [Dirs -> Frame]]
  <2>1. hand' = [hand EXCEPT ![h] = [d \in Dirs |-> 0]] /\ hand \in [Relays -> [Dirs -> Frame]]
    BY DEF Cancel, TypesOK
  <2>2. [d \in Dirs |-> 0] \in [Dirs -> Frame]
    BY DEF Frame
  <2>3. QED
    BY <2>1, <2>2
<1>7. QED
  BY <1>4, <1>5, <1>6 DEF Cancel, TypesOK, path, endVars

\* So does a relay that closes towards its client.
LEMMA CloseClientTypes == ASSUME TypesOK, NEW h \in Relays, CloseClient(h) PROVE TypesOK'
<1>1. h - 1 \in Links /\ "down" \in Dirs /\ net[h - 1].down \in Queue
  BY Places, Directions DEF TypesOK
<1>2. Put(net[h - 1].down, CloseCode(h)) \in Queue
  BY <1>1, PutClose, CodesClose
<1>3. net' = [net EXCEPT ![h - 1]["down"] = Put(net[h - 1].down, CloseCode(h))]
  BY DEF CloseClient
<1>4. net' \in [Links -> [Dirs -> Queue]]
  BY <1>1, <1>2, <1>3, PutAt
<1>5. stage' \in [Relays -> Stages]
  BY DEF CloseClient, TypesOK, Stages
<1>6. QED
  BY <1>4, <1>5 DEF CloseClient, TypesOK, path, endVars

\* Where the ends are.
LEMMA EndPlaces ==
  ASSUME TypesOK
  PROVE  /\ 0 \in Links /\ hops \in Links
         /\ net[0].up \in Queue /\ net[0].down \in Queue
         /\ net[hops].up \in Queue /\ net[hops].down \in Queue
         /\ \A i \in 0..hops : i \in Links
<1>1. 0 \in Links /\ hops \in Links /\ \A i \in 0..hops : i \in Links
  BY ChainAssumption DEF TypesOK, Relays, Links
<1>2. \A i \in Links : net[i].up \in Queue /\ net[i].down \in Queue
  BY Directions DEF TypesOK
<1>3. QED
  BY <1>1, <1>2

\* Frames have small numbers.
LEMMA NextFrame ==
  ASSUME TypesOK, NEW d \in Dirs, sent[d] < MaxFrames
  PROVE  sent[d] \in Nat /\ sent[d] + 1 \in Frame /\ sent[d] + 1 \in 0..MaxFrames
<1>1. ASSUME NEW m \in 0..999, NEW n \in 0..m, n < m
      PROVE  n \in Nat /\ n + 1 \in Frame /\ n + 1 \in 0..m
  BY <1>1 DEF Frame
<1>2. sent[d] \in 0..MaxFrames
  BY DEF TypesOK
<1>3. MaxFrames \in 0..999
  BY ChainAssumption
<1>4. QED
  BY ZenonT(60), <1>1, <1>2, <1>3

\* So do the ends, when they send,
LEMMA CoreSendsTypes == ASSUME TypesOK, CoreSends PROVE TypesOK'
<1>1. hops \in Links /\ "down" \in Dirs /\ net[hops].down \in Queue /\ sent["down"] < MaxFrames
  BY EndPlaces, Directions DEF CoreSends
<1>2. sent["down"] + 1 \in Frame /\ sent["down"] + 1 \in 0..MaxFrames
  BY <1>1, NextFrame
<1>3. Put(net[hops].down, sent["down"] + 1) \in Queue
  BY <1>1, <1>2, PutFrame
<1>4. net' = [net EXCEPT ![hops]["down"] = Put(net[hops].down, sent["down"] + 1)]
  BY DEF CoreSends
<1>5. net' \in [Links -> [Dirs -> Queue]]
  BY <1>1, <1>3, <1>4, PutAt
<1>6. sent' = [sent EXCEPT !["down"] = sent["down"] + 1] /\ sent \in [Dirs -> 0..MaxFrames]
  BY DEF CoreSends, TypesOK
<1>7. sent' \in [Dirs -> 0..MaxFrames]
  BY <1>1, <1>2, <1>6
<1>8. QED
  BY <1>5, <1>7 DEF CoreSends, TypesOK, path

\* from either side,
LEMMA ClientSendsTypes == ASSUME TypesOK, ClientSends PROVE TypesOK'
<1>1. 0 \in Links /\ "up" \in Dirs /\ net[0].up \in Queue /\ sent["up"] < MaxFrames
  BY EndPlaces, Directions DEF ClientSends
<1>2. sent["up"] + 1 \in Frame /\ sent["up"] + 1 \in 0..MaxFrames
  BY <1>1, NextFrame
<1>3. Put(net[0].up, sent["up"] + 1) \in Queue
  BY <1>1, <1>2, PutFrame
<1>4. net' = [net EXCEPT ![0]["up"] = Put(net[0].up, sent["up"] + 1)]
  BY DEF ClientSends
<1>5. net' \in [Links -> [Dirs -> Queue]]
  BY <1>1, <1>3, <1>4, PutAt
<1>6. sent' = [sent EXCEPT !["up"] = sent["up"] + 1] /\ sent \in [Dirs -> 0..MaxFrames]
  BY DEF ClientSends, TypesOK
<1>7. sent' \in [Dirs -> 0..MaxFrames]
  BY <1>1, <1>2, <1>6
<1>8. QED
  BY <1>5, <1>7 DEF ClientSends, TypesOK, path

\* when they read,
LEMMA CoreReadsTypes == ASSUME TypesOK, CoreReads PROVE TypesOK'
<1>1. hops \in Links /\ "up" \in Dirs /\ net[hops].up \in Queue
  BY EndPlaces, Directions
<1>2. CASE HasFrame(net[hops].up)
  <2>1. Head(net[hops].up) \in Frame /\ Tail(net[hops].up) \in Queue
    <3>1. \A q \in Queue : HasFrame(q) => Head(q) \in Frame /\ Tail(q) \in Queue
      BY TakeOne
    <3>2. QED
      BY <1>1, <1>2, <3>1
  <2>2. net' = [net EXCEPT ![hops]["up"] = Tail(net[hops].up)]
    BY <1>2 DEF CoreReads
  <2>3. net' \in [Links -> [Dirs -> Queue]]
    BY <1>1, <2>1, <2>2, PutAt
  <2>4. Head(net[hops].up) \in Nat /\ got["up"] \in Seq(Nat)
    <3>1. \A n \in Frame : n \in Nat
      BY DEF Frame
    <3>2. got["up"] \in Seq(Nat)
      BY <1>1 DEF TypesOK
    <3>3. QED
      BY <2>1, <3>1, <3>2
  <2>5. Append(got["up"], Head(net[hops].up)) \in Seq(Nat)
    BY <2>4
  <2>6. /\ got' = [got EXCEPT !["up"] = Append(got["up"], Head(net[hops].up))]
        /\ got \in [Dirs -> Seq(Nat)]
    BY <1>2 DEF CoreReads, TypesOK
  <2>7. got' \in [Dirs -> Seq(Nat)]
    BY <1>1, <2>5, <2>6
  <2>8. QED
    BY <1>2, <2>3, <2>7 DEF CoreReads, TypesOK, path
<1>3. CASE ~HasFrame(net[hops].up)
  <2>3. core' = "left" /\ UNCHANGED <<hops, kind, stage, ended, hand, net, sent, got, client, told, lost>>
    BY <1>3 DEF CoreReads, path
  <2>4. QED
    BY <2>3 DEF TypesOK
<1>4. QED
  BY <1>2, <1>3

\* from either side,
LEMMA ClientReadsTypes == ASSUME TypesOK, ClientReads PROVE TypesOK'
<1>1. 0 \in Links /\ "down" \in Dirs /\ net[0].down \in Queue
  BY EndPlaces, Directions
<1>2. CASE HasFrame(net[0].down)
  <2>1. Head(net[0].down) \in Frame /\ Tail(net[0].down) \in Queue
    <3>1. \A q \in Queue : HasFrame(q) => Head(q) \in Frame /\ Tail(q) \in Queue
      BY TakeOne
    <3>2. QED
      BY <1>1, <1>2, <3>1
  <2>2. net' = [net EXCEPT ![0]["down"] = Tail(net[0].down)]
    BY <1>2 DEF ClientReads
  <2>3. net' \in [Links -> [Dirs -> Queue]]
    BY <1>1, <2>1, <2>2, PutAt
  <2>4. Head(net[0].down) \in Nat /\ got["down"] \in Seq(Nat)
    <3>1. \A n \in Frame : n \in Nat
      BY DEF Frame
    <3>2. got["down"] \in Seq(Nat)
      BY <1>1 DEF TypesOK
    <3>3. QED
      BY <2>1, <3>1, <3>2
  <2>5. Append(got["down"], Head(net[0].down)) \in Seq(Nat)
    BY <2>4
  <2>6. /\ got' = [got EXCEPT !["down"] = Append(got["down"], Head(net[0].down))]
        /\ got \in [Dirs -> Seq(Nat)]
    BY <1>2 DEF ClientReads, TypesOK
  <2>7. got' \in [Dirs -> Seq(Nat)]
    BY <1>1, <2>5, <2>6
  <2>8. QED
    BY <1>2, <2>3, <2>7 DEF ClientReads, TypesOK, path
<1>3. CASE ~HasFrame(net[0].down)
  <2>1. AtClose(net[0].down)
    BY <1>3 DEF ClientReads, HasFrame, AtClose
  <2>2. Head(net[0].down) \in Nat
    BY <1>1, <2>1, QueueFacts
  <2>3. /\ client' = "told" /\ told' = Head(net[0].down)
          /\ UNCHANGED <<hops, kind, stage, ended, hand, net, sent, got, core, lost>>
    BY <1>3 DEF ClientReads, path
  <2>4. QED
    BY <2>2, <2>3 DEF TypesOK
<1>4. QED
  BY <1>2, <1>3

\* and when they close,
LEMMA CoreEndsTypes == ASSUME TypesOK, CoreEnds PROVE TypesOK'
<1>1. hops \in Links /\ "down" \in Dirs /\ net[hops].down \in Queue
  BY EndPlaces, Directions
<1>2. PICK c \in {Normal, Rejected} : net' = [net EXCEPT ![hops]["down"] = Put(net[hops].down, c)]
  BY DEF CoreEnds
<1>3. Put(net[hops].down, c) \in Queue
  BY <1>1, PutClose DEF Normal, Rejected
<1>4. net' \in [Links -> [Dirs -> Queue]]
  BY <1>1, <1>2, <1>3, PutAt
<1>5. core' \in {"finished", "refused"}
  BY DEF CoreEnds
<1>6. QED
  BY <1>4, <1>5 DEF CoreEnds, TypesOK, path

\* from either side.
LEMMA ClientLeavesTypes == ASSUME TypesOK, ClientLeaves PROVE TypesOK'
<1>1. 0 \in Links /\ "up" \in Dirs /\ net[0].up \in Queue
  BY EndPlaces, Directions
<1>2. net' = [net EXCEPT ![0]["up"] = Put(net[0].up, GoingAway)]
  BY DEF ClientLeaves
<1>3. Put(net[0].up, GoingAway) \in Queue
  BY <1>1, PutClose DEF GoingAway
<1>4. net' \in [Links -> [Dirs -> Queue]]
  BY <1>1, <1>2, <1>3, PutAt
<1>5. QED
  BY <1>4 DEF ClientLeaves, TypesOK, path

\* What a broken connection leaves of one link, and of the others.
LEMMA BrokenLink ==
  ASSUME TypesOK, NEW i \in 0..hops, LinkBreaks(i)
  PROVE  /\ net' \in [Links -> [Dirs -> Queue]]
         /\ \A j \in Links, d \in Dirs :
              IF j = i
              THEN /\ Closed(net'[j][d]) /\ Fill(net'[j][d]) <= Fill(net[j][d])
                   /\ \A n \in Nat : Carries(net[j][d], n) => Carries(net'[j][d], n)
              ELSE net'[j][d] = net[j][d]
<1>1. i \in Links
  BY EndPlaces
<1>2. net[i].down \in Queue /\ net[i].up \in Queue
  BY <1>1, Directions DEF TypesOK
<1>3. PICK k \in 0..Len(net[i].down), m \in 0..Len(net[i].up) :
        net' = [net EXCEPT ![i] = [down |-> Put(SubSeq(net[i].down, 1, k), Abnormal),
                                   up |-> Put(SubSeq(net[i].up, 1, m), Abnormal)]]
  BY DEF LinkBreaks
<1> DEFINE p == Put(SubSeq(net[i].down, 1, k), Abnormal)
           q == Put(SubSeq(net[i].up, 1, m), Abnormal)
<1>4. /\ p \in Queue /\ Closed(p) /\ Fill(p) <= Fill(net[i].down)
      /\ \A n \in Nat : Carries(net[i].down, n) => Carries(p, n)
  BY <1>2, CutShort DEF Abnormal
<1>5. /\ q \in Queue /\ Closed(q) /\ Fill(q) <= Fill(net[i].up)
      /\ \A n \in Nat : Carries(net[i].up, n) => Carries(q, n)
  BY <1>2, CutShort DEF Abnormal
<1>6. net' = [net EXCEPT ![i] = [down |-> p, up |-> q]]
  BY <1>3
<1> HIDE DEF p, q
<1>7. [down |-> p, up |-> q] \in [Dirs -> Queue]
  BY <1>4, <1>5 DEF Dirs
<1>8. net' \in [Links -> [Dirs -> Queue]]
  BY <1>6, <1>7 DEF TypesOK
<1>9. net'[i]["down"] = p /\ net'[i]["up"] = q
  BY <1>1, <1>6 DEF TypesOK
<1>10. \A j \in Links : j # i => net'[j] = net[j]
  BY <1>6 DEF TypesOK
<1>11. QED
  BY <1>4, <1>5, <1>8, <1>9, <1>10, Directions

\* So does a connection that breaks.
LEMMA BreakTypes == ASSUME TypesOK, NEW i \in 0..hops, LinkBreaks(i) PROVE TypesOK'
<1>1. net' \in [Links -> [Dirs -> Queue]]
  BY BrokenLink
<1>2. lost' \in Nat
  BY DEF LinkBreaks, TypesOK
<1>3. UNCHANGED <<hops, kind, stage, ended, hand, sent, got, core, client, told>>
  BY DEF LinkBreaks, path
<1>4. QED
  BY <1>1, <1>2, <1>3 DEF TypesOK

\* Types are kept.
LEMMA StepTypes == TypesOK /\ [Next]_vars => TypesOK'
<1> SUFFICES ASSUME TypesOK, [Next]_vars PROVE TypesOK'
  OBVIOUS
<1>1. CASE \E h \in Relays : Handler(h)
  BY <1>1, RefuseTypes, DialTypes, CancelTypes, CloseClientTypes DEF Handler
<1>2. CASE \E h \in Relays, d \in Dirs : Task(h, d)
  BY <1>2, TaskTypes
<1>3. CASE CoreSends \/ CoreReads \/ CoreEnds \/ ClientSends \/ ClientReads \/ ClientLeaves
  BY <1>3, CoreSendsTypes, CoreReadsTypes, CoreEndsTypes,
     ClientSendsTypes, ClientReadsTypes, ClientLeavesTypes
<1>4. CASE \E i \in 0..hops : LinkBreaks(i)
  BY <1>4, BreakTypes
<1>5. CASE UNCHANGED vars
  BY <1>5 DEF TypesOK, vars
<1>6. QED
  BY <1>1, <1>2, <1>3, <1>4, <1>5 DEF Next

\* Dialled, Refused and Refusal are about stages and the Core only.
LEMMA StagesKept ==
  ASSUME TypesOK, StagesOK, UNCHANGED <<hops, stage>>, (core' = "absent") <=> (core = "absent"),
         \A h \in Relays : ended'[h] <=> ended[h] \/ (stage[h] = "pumping" /\ ended'[h])
  PROVE  StagesOK'
<1>1. \A h \in Path : h \in Relays
  BY ChainAssumption DEF TypesOK, Relays, Path
<1>2. Path' = Path /\ (Refusal' <=> Refusal)
  BY DEF Path, Refusal, Refused, Dialled
<1>3. \A h \in Path : Dialled(h)' <=> Dialled(h)
  BY DEF Dialled
<1>4. QED
  BY <1>1, <1>2, <1>3 DEF StagesOK

\* A refused relay is the last that was reached, and the Core is not.
LEMMA RefuseStages ==
  ASSUME TypesOK, StagesOK, NEW h \in Relays, Refuse(h)
  PROVE  StagesOK' /\ Refusal' /\ h \in Path /\ core = "absent"
<1>1. /\ stage[h] = "accepted" /\ stage' = [stage EXCEPT ![h] = "done"]
      /\ UNCHANGED <<hops, core, ended>>
  BY DEF Refuse, path, endVars
<1>2. h \in Path /\ \A g \in Path : g \in Relays
  <2>1. h <= hops
    BY <1>1, Places DEF StagesOK
  <2>2. QED
    BY <2>1, Places DEF Path
<1>3. stage'[h] = "done" /\ \A g \in Relays : g # h => stage'[g] = stage[g]
  BY <1>1 DEF TypesOK
<1>4. Path' = Path /\ hops \in Relays /\ hops \in Path
  BY <1>1, Places DEF Path
<1>5. \A g \in Path : Dialled(g)' <=> Dialled(g)
  <2> TAKE g \in Path
  <2>1. CASE g = hops
    BY <1>1, <2>1 DEF Dialled
  <2>2. CASE g # hops
    <3>1. g + 1 \in Path
      BY <2>2, Places DEF Path
    <3>2. stage'[g + 1] # "absent" <=> stage[g + 1] # "absent"
      BY <1>1, <1>2, <1>3, <3>1
    <3>3. QED
      BY <1>1, <2>2, <3>2 DEF Dialled
  <2>3. QED
    BY <2>1, <2>2
<1>6. ~Dialled(h)
  BY <1>1, <1>2 DEF StagesOK
<1>7. core = "absent"
  <2>1. CASE h = hops
    BY <1>6, <2>1 DEF Dialled
  <2>2. CASE h # hops
    <3>1. stage[h + 1] = "absent" /\ h < hops
      BY <1>2, <1>6, <2>2, Places DEF Dialled, Path
    <3>2. stage[hops] = "absent"
      BY <1>2, <1>4, <3>1 DEF StagesOK
    <3>3. QED
      BY <1>4, <3>2 DEF StagesOK, Dialled
  <2>3. QED
    BY <2>1, <2>2
<1>8. Refusal'
  BY <1>2, <1>3, <1>4, <1>5, <1>6 DEF Refusal, Refused
<1>9. \A g, k \in Path : g < k /\ stage'[k] # "absent" => stage'[g + 1] # "absent"
  <2> SUFFICES ASSUME NEW g \in Path, NEW k \in Path, g < k, stage'[k] # "absent"
               PROVE  stage'[g + 1] # "absent"
    OBVIOUS
  <2>1. stage[k] # "absent"
    BY <1>1, <1>2, <1>3
  <2>2. stage[g + 1] # "absent"
    BY <2>1 DEF StagesOK
  <2>3. g + 1 \in Relays
    BY <1>2, Places DEF Path
  <2>4. QED
    BY <1>3, <2>2, <2>3
<1>10. StagesOK'
  <2>1. \A g \in Relays : g > hops => stage'[g] = "absent"
    BY <1>2, <1>3, Places DEF StagesOK, Path
  <2>2. \A g \in Path : /\ Dialled(g) => stage'[g] \notin {"absent", "accepted"}
                        /\ stage'[g] \in {"pumping", "closing"} => Dialled(g)
                        /\ ended[g] => Dialled(g)
                        /\ Dialled(g) /\ stage'[g] \in {"closing", "done"} => ended[g]
    BY <1>2, <1>3, <1>6 DEF StagesOK
  <2>3. QED
    BY <1>1, <1>4, <1>5, <1>7, <1>9, <2>1, <2>2 DEF StagesOK
<1>11. QED
  BY <1>2, <1>7, <1>8, <1>10

\* A relay that dials reaches the next one.
LEMMA DialStages ==
  ASSUME TypesOK, StagesOK, NEW h \in Relays, Dial(h)
  PROVE  /\ StagesOK' /\ core = "absent" /\ h \in Path /\ ~Refusal
         /\ \A g \in Path : stage[g] \in {"closing", "done"} => stage'[g] = stage[g]
<1>1. stage[h] = "accepted" /\ UNCHANGED <<hops, ended>>
  BY DEF Dial, path
<1>2. h \in Path /\ \A g \in Path : g \in Relays
  <2>1. h <= hops
    BY <1>1, Places DEF StagesOK
  <2>2. QED
    BY <2>1, Places DEF Path
<1>3. Path' = Path /\ hops \in Relays /\ hops \in Path
  BY <1>1, Places DEF Path
<1>4. ~Dialled(h)
  BY <1>1, <1>2 DEF StagesOK
<1>7. ~Refusal
  <2> SUFFICES ASSUME NEW g \in Path, stage[g] = "done", ~Dialled(g) PROVE FALSE
    BY DEF Refusal, Refused
  <2>1. CASE g < h
    <3>1. stage[g + 1] # "absent" /\ g # hops
      BY <1>1, <1>2, <2>1, Places DEF StagesOK, Path
    <3>2. QED
      BY <3>1 DEF Dialled
  <2>2. CASE h < g
    <3>1. stage[h + 1] # "absent" /\ h # hops
      BY <1>2, <2>2, Places DEF StagesOK, Path
    <3>2. QED
      BY <1>4, <3>1 DEF Dialled
  <2>3. CASE g = h
    BY <1>1, <2>3
  <2>4. QED
    BY <1>2, <2>1, <2>2, <2>3, Places DEF Path
<1>5. CASE h = hops
  <2>1. stage' = [stage EXCEPT ![h] = "pumping"] /\ core' = "open" /\ core = "absent"
    BY <1>4, <1>5 DEF Dial, Dialled
  <2>2. stage'[h] = "pumping" /\ \A g \in Relays : g # h => stage'[g] = stage[g]
    BY <2>1 DEF TypesOK
  <2>3. \A g \in Path : g # h => g + 1 \in Path /\ g < hops
    BY <1>5, Places DEF Path
  <2>4. \A g \in Path : stage'[g] # "absent" <=> stage[g] # "absent"
    BY <1>1, <1>2, <2>2
  <2>5. \A g \in Path : g # h => stage[g + 1] # "absent" /\ stage'[g + 1] # "absent"
    BY <1>1, <1>3, <1>5, <2>3, <2>4 DEF StagesOK
  <2>6. \A g \in Path : Dialled(g)' /\ (g # h => Dialled(g))
    BY <1>1, <1>5, <2>1, <2>5 DEF Dialled
  <2>7. ~Refusal'
    BY <1>3, <2>6 DEF Refusal, Refused
  <2>8. \A g, k \in Path : g < k /\ stage'[k] # "absent" => stage'[g + 1] # "absent"
    BY <1>5, <2>5, Places DEF Path
  <2>9. \A g \in Relays : g > hops => stage'[g] = "absent"
    BY <1>5, <2>2, Places DEF StagesOK
  <2>10. \A g \in Path : /\ stage'[g] \notin {"absent", "accepted"}
                         /\ stage'[g] \in {"closing", "done"} => ended[g]
    BY <1>2, <2>2, <2>6 DEF StagesOK
  <2>11. StagesOK'
    BY <1>1, <1>3, <2>6, <2>7, <2>8, <2>9, <2>10 DEF StagesOK
  <2>12. QED
    BY <1>1, <1>2, <1>7, <2>1, <2>2, <2>11
<1>6. CASE h # hops
  <2>1. /\ stage' = [stage EXCEPT ![h] = "pumping", ![h + 1] = "accepted"] /\ core' = core
        /\ stage[h + 1] = "absent" /\ h < hops /\ h + 1 \in Path
    BY <1>2, <1>4, <1>6, Places DEF Dial, Dialled, Path
  <2>2. /\ stage'[h] = "pumping" /\ stage'[h + 1] = "accepted"
        /\ \A g \in Relays : g # h /\ g # h + 1 => stage'[g] = stage[g]
    BY <1>2, <2>1, Places DEF TypesOK
  <2>3. stage[hops] = "absent"
    BY <1>2, <1>3, <2>1 DEF StagesOK
  <2>4. core = "absent"
    BY <1>3, <2>3 DEF StagesOK, Dialled
  <2>5. \A g \in Path : stage[g] # "absent" => stage'[g] # "absent"
    BY <1>2, <2>2
  <2>6. \A g \in Path : Dialled(g)' <=> (Dialled(g) \/ g = h)
    <3> TAKE g \in Path
    <3>1. CASE g = h
      BY <1>1, <1>6, <2>2, <3>1 DEF Dialled
    <3>2. CASE g = hops
      BY <1>1, <1>6, <2>1, <3>2 DEF Dialled
    <3>3. CASE g # h /\ g # hops
      <4>1. g + 1 \in Relays /\ g + 1 # h + 1
        BY <3>3, Places DEF Path
      <4>2. stage'[g + 1] # "absent" <=> stage[g + 1] # "absent"
        BY <1>1, <2>2, <4>1
      <4>3. QED
        BY <1>1, <3>3, <4>2 DEF Dialled
    <3>4. QED
      BY <3>1, <3>2, <3>3
  <2>7. ~Dialled(h + 1)
    BY <2>1 DEF StagesOK
  <2>8. \A g, k \in Path : g < k /\ stage'[k] # "absent" => stage'[g + 1] # "absent"
    <3> SUFFICES ASSUME NEW g \in Path, NEW k \in Path, g < k, stage'[k] # "absent", g # h
                 PROVE  stage'[g + 1] # "absent"
      BY <2>2
    <3>1. g + 1 \in Path
      BY Places DEF Path
    <3>2. CASE k # h + 1
      <4>1. stage[k] # "absent"
        BY <1>1, <1>2, <2>2, <3>2
      <4>2. QED
        BY <2>5, <3>1, <4>1 DEF StagesOK
    <3>3. CASE k = h + 1
      <4>1. g < h
        BY <1>2, <3>3, Places DEF Path
      <4>2. QED
        BY <1>1, <1>2, <2>5, <3>1, <4>1 DEF StagesOK
    <3>4. QED
      BY <3>2, <3>3
  <2>9. \A g \in Relays : g > hops => stage'[g] = "absent"
    <3>1. \A g \in Relays : g > hops => g # h /\ g # h + 1 /\ stage[g] = "absent"
      BY <1>2, <2>1, Places DEF StagesOK, Path
    <3>2. QED
      BY <2>2, <3>1
  <2>10. \A g \in Path :
           /\ (Dialled(g) \/ g = h) => stage'[g] \notin {"absent", "accepted"}
           /\ stage'[g] \in {"pumping", "closing"} => Dialled(g) \/ g = h
           /\ (Dialled(g) \/ g = h) /\ stage'[g] \in {"closing", "done"} => ended[g]
    BY <1>2, <2>2, <2>7 DEF StagesOK
  <2>11. Refusal' => core' = "absent"
    BY <2>1, <2>4
  <2>12. StagesOK'
    BY <1>1, <1>3, <2>6, <2>8, <2>9, <2>10, <2>11 DEF StagesOK
  <2>13. QED
    BY <1>1, <1>2, <1>7, <2>1, <2>2, <2>4, <2>12
<1>8. QED
  BY <1>5, <1>6, <1>7

\* A task of the relay has returned.
LEMMA CancelStages ==
  ASSUME TypesOK, StagesOK, NEW h \in Relays, Cancel(h) \/ CloseClient(h)
  PROVE  /\ StagesOK' /\ (Refusal' <=> Refusal) /\ Path' = Path /\ h \in Path /\ ended[h]
         /\ stage'[h] \in {"closing", "done"} /\ \A g \in Relays : g # h => stage'[g] = stage[g]
<1>1. /\ stage[h] \in {"pumping", "closing"} /\ UNCHANGED <<hops, core, ended>>
      /\ stage[h] = "pumping" => ended[h]
      /\ \/ Cancel(h) /\ stage' = [stage EXCEPT ![h] = "closing"]
         \/ CloseClient(h) /\ stage[h] = "closing" /\ stage' = [stage EXCEPT ![h] = "done"]
  BY DEF Cancel, CloseClient, FirstEnded, path, endVars
<1>2. h \in Path /\ \A g \in Path : g \in Relays
  <2>1. h <= hops
    BY <1>1, Places DEF StagesOK
  <2>2. QED
    BY <2>1, Places DEF Path
<1>3. Dialled(h) /\ ended[h]
  BY <1>1, <1>2 DEF StagesOK
<1>4. /\ stage'[h] \in {"closing", "done"} /\ \A g \in Relays : g # h => stage'[g] = stage[g]
  BY <1>1 DEF TypesOK
<1>5. Path' = Path
  BY <1>1 DEF Path
<1>6. \A g \in Relays : stage'[g] # "absent" <=> stage[g] # "absent"
  BY <1>1, <1>4
<1>7. \A g \in Path : Dialled(g)' <=> Dialled(g)
  <2> TAKE g \in Path
  <2>1. g # hops => g + 1 \in Relays
    BY Places DEF Path
  <2>2. QED
    BY <1>1, <1>6, <2>1 DEF Dialled
<1>8. Refusal' <=> Refusal
  BY <1>1, <1>2, <1>3, <1>4, <1>5, <1>7 DEF Refusal, Refused
<1>9. \A g \in Path : /\ Dialled(g) => stage'[g] \notin {"absent", "accepted"}
                      /\ stage'[g] \in {"pumping", "closing"} => Dialled(g)
                      /\ Dialled(g) /\ stage'[g] \in {"closing", "done"} => ended[g]
  BY <1>2, <1>3, <1>4 DEF StagesOK
<1>10. \A g, k \in Path : g < k /\ stage'[k] # "absent" => stage'[g + 1] # "absent"
  <2> SUFFICES ASSUME NEW g \in Path, NEW k \in Path, g < k, stage'[k] # "absent"
               PROVE  stage'[g + 1] # "absent"
    OBVIOUS
  <2>1. g + 1 \in Relays /\ k \in Relays
    BY <1>2, Places DEF Path
  <2>2. QED
    BY <1>6, <2>1 DEF StagesOK
<1>11. \A g \in Relays : g > hops => stage'[g] = "absent"
  BY <1>6 DEF StagesOK
<1>12. StagesOK'
  BY <1>1, <1>5, <1>7, <1>8, <1>9, <1>10, <1>11 DEF StagesOK
<1>13. QED
  BY <1>2, <1>3, <1>4, <1>5, <1>8, <1>12

\* The stages fit together after every step.
LEMMA StepStages == TypesOK /\ StagesOK /\ [Next]_vars => StagesOK'
<1> SUFFICES ASSUME TypesOK, StagesOK, [Next]_vars PROVE StagesOK'
  OBVIOUS
<1>1. CASE \E h \in Relays : Handler(h)
  BY <1>1, RefuseStages, DialStages, CancelStages DEF Handler
<1>2. CASE \E h \in Relays, d \in Dirs : Task(h, d)
  <2>1. PICK h \in Relays, d \in Dirs : Task(h, d)
    BY <1>2
  <2>2. /\ UNCHANGED <<hops, stage, core>>
        /\ ended' = ended \/ (stage[h] = "pumping" /\ ended' = [ended EXCEPT ![h] = TRUE])
    BY <2>1 DEF Task, Take, Send, Return, MayTake, path, endVars
  <2>3. \A g \in Relays : ended'[g] <=> ended[g] \/ (stage[g] = "pumping" /\ ended'[g])
    BY <2>2 DEF TypesOK
  <2>4. QED
    BY <2>2, <2>3, StagesKept
<1>3. CASE \/ CoreSends \/ CoreReads \/ CoreEnds \/ ClientSends \/ ClientReads \/ ClientLeaves
           \/ \E i \in 0..hops : LinkBreaks(i)
           \/ UNCHANGED vars
  <2>1. UNCHANGED <<hops, stage, ended>> /\ ((core' = "absent") <=> (core = "absent"))
    BY <1>3 DEF CoreSends, CoreReads, CoreEnds, ClientSends, ClientReads, ClientLeaves,
                LinkBreaks, vars, path
  <2>2. QED
    BY <2>1, StagesKept
<1>4. QED
  BY <1>1, <1>2, <1>3 DEF Next

-----------------------------------------------------------------------------
(* While no connection breaks.                                             *)

ChainClean == UpCloses /\ DownCloses /\ EndsDown /\ EndsOK /\ RefusalCarried

\* Relays of the path, and their links.
LEMMA PathPlaces ==
  ASSUME TypesOK
  PROVE  /\ hops \in Path /\ hops \in Relays /\ hops \in Nat /\ hops >= 1
         /\ \A h \in Path : /\ h \in Relays /\ h \in Nat /\ h >= 1 /\ h <= hops
                            /\ h \in Links /\ h - 1 \in Links
                            /\ h # 1 => h - 1 \in Path
                            /\ h # hops => h + 1 \in Path
  BY ChainAssumption DEF TypesOK, Relays, Links, Path

\* Moving frames closes nothing.
LEMMA SameCloses ==
  ASSUME TypesOK, ChainClean, UNCHANGED <<hops, kind, stage, ended, core, client, told>>,
         \A i \in Links, d \in Dirs :
           /\ Closed(net'[i][d]) <=> Closed(net[i][d])
           /\ Closed(net[i][d]) => Last(net'[i][d]) = Last(net[i][d])
  PROVE  ChainClean'
<1>1. \A i \in Links : /\ Closed(net'[i].up) <=> Closed(net[i].up)
                       /\ Closed(net'[i].down) <=> Closed(net[i].down)
                       /\ Closed(net[i].down) => Last(net'[i].down) = Last(net[i].down)
  BY Directions
<1>2. Path' = Path /\ (Refusal' <=> Refusal) /\ 0 \in Links /\ hops \in Links
  BY EndPlaces DEF Path, Refusal, Refused, Dialled
<1>3. UpCloses'
  BY <1>1, <1>2, PathPlaces DEF ChainClean, UpCloses
<1>4. DownCloses'
  BY <1>1, <1>2, PathPlaces DEF ChainClean, DownCloses
<1>5. EndsDown'
  BY <1>1, <1>2, PathPlaces DEF ChainClean, EndsDown
<1>6. EndsOK'
  BY <1>1, <1>2 DEF ChainClean, EndsOK
<1>7. RefusalCarried'
  BY <1>1, <1>2, PathPlaces DEF ChainClean, RefusalCarried
<1>8. QED
  BY <1>3, <1>4, <1>5, <1>6, <1>7 DEF ChainClean

\* The same of one queue that is replaced.
LEMMA SameClose ==
  ASSUME TypesOK, ChainClean, UNCHANGED <<hops, kind, stage, ended, core, client, told>>,
         NEW i \in Links, NEW d \in Dirs, NEW q \in Queue, net' = [net EXCEPT ![i][d] = q],
         Closed(q) <=> Closed(net[i][d]), Closed(net[i][d]) => Last(q) = Last(net[i][d])
  PROVE  ChainClean'
<1>1. net'[i][d] = q /\ \A j \in Links, c \in Dirs : j # i \/ c # d => net'[j][c] = net[j][c]
  <2>1. net' = [net EXCEPT ![i][d] = q]
    OBVIOUS
  <2>2. net'[i][d] = q
    BY <2>1 DEF TypesOK
  <2>3. \A j \in Links, c \in Dirs : j # i \/ c # d => net'[j][c] = net[j][c]
    BY <2>1, PutAt
  <2>4. QED
    BY <2>2, <2>3
<1>2. \A j \in Links, c \in Dirs : /\ Closed(net'[j][c]) <=> Closed(net[j][c])
                                   /\ Closed(net[j][c]) => Last(net'[j][c]) = Last(net[j][c])
  BY <1>1
<1>3. QED
  BY <1>2, SameCloses

\* Whatever closed the Core's side of a relay came from the Core, or from a
\* relay that refused.
LEMMA ClosedAbove ==
  ASSUME TypesOK, StagesOK, ChainClean, client # "left", NEW h \in Path, Closed(net[h].down)
  PROVE  core \in {"finished", "refused"} \/ Refusal
<1>1. CASE h = hops
  BY <1>1 DEF ChainClean, DownCloses
<1>2. CASE h # hops
  <2>1. h + 1 \in Path /\ (h + 1) - 1 = h
    BY <1>2, PathPlaces
  <2>2. stage[h + 1] = "done"
    BY <2>1 DEF ChainClean, DownCloses
  <2>3. CASE ~Dialled(h + 1)
    BY <2>1, <2>2, <2>3 DEF Refusal, Refused
  <2>4. CASE Dialled(h + 1)
    <3>1. ended[h + 1]
      BY <2>1, <2>2, <2>4 DEF StagesOK
    <3>2. QED
      BY <2>1, <3>1 DEF ChainClean, EndsDown
  <2>5. QED
    BY <2>3, <2>4
<1>3. QED
  BY <1>1, <1>2

\* A relay whose client's side is closed is done, unless the client left.
LEMMA OpenBelow ==
  ASSUME TypesOK, ChainClean, client # "left", NEW h \in Path, Closed(net[h - 1].up)
  PROVE  stage[h] = "done"
<1>1. h # 1
  BY DEF ChainClean, UpCloses
<1>2. h - 1 \in Path
  BY <1>1, PathPlaces
<1>3. ended[h - 1]
  BY <1>2 DEF ChainClean, UpCloses
<1>4. Closed(net[h - 1].down)
  BY <1>2, <1>3 DEF ChainClean, EndsDown
<1>5. QED
  BY <1>4 DEF ChainClean, DownCloses

\* A task returns because something upstream is closed.
LEMMA TaskEnds ==
  ASSUME TypesOK, StagesOK, ChainClean, NEW h \in Path, stage[h] = "pumping",
         ended' = [ended EXCEPT ![h] = TRUE],
         UNCHANGED <<hops, kind, stage, net, core, client, told>>,
         Closed(net[h].down) \/ Closed(net[h - 1].up)
  PROVE  ChainClean'
<1>1. Path' = Path /\ (Refusal' <=> Refusal) /\ \A g \in Path : g \in Relays
  BY PathPlaces DEF Path, Refusal, Refused, Dialled
<1>2. ended'[h] /\ \A g \in Relays : (g # h => ended'[g] = ended[g]) /\ (ended[g] => ended'[g])
  BY <1>1 DEF TypesOK
<1>3. UpCloses'
  BY <1>1, <1>2 DEF ChainClean, UpCloses
<1>4. DownCloses' /\ EndsOK' /\ RefusalCarried'
  BY <1>1 DEF ChainClean, DownCloses, EndsOK, RefusalCarried
<1>5. ASSUME client # "left"
      PROVE  Closed(net[h].down) /\ (core \in {"finished", "refused"} \/ Refusal)
  <2>1. Closed(net[h].down)
    BY <1>5, OpenBelow
  <2>2. QED
    BY <1>5, <2>1, ClosedAbove
<1>6. EndsDown'
  <2>1. ASSUME client # "left", NEW g \in Path, ended'[g]
        PROVE  Closed(net[g].down) /\ (core \in {"finished", "refused"} \/ Refusal)
    <3>1. CASE g = h
      BY <1>5, <2>1, <3>1
    <3>2. CASE g # h
      BY <1>1, <1>2, <2>1, <3>2 DEF ChainClean, EndsDown
    <3>3. QED
      BY <3>1, <3>2
  <2>2. QED
    BY <1>1, <2>1 DEF EndsDown
<1>7. QED
  BY <1>3, <1>4, <1>6 DEF ChainClean

\* What a task does to the closes.
LEMMA TaskClean ==
  ASSUME TypesOK, StagesOK, ChainClean, NEW h \in Relays, NEW d \in Dirs, Task(h, d)
  PROVE  ChainClean'
<1>1. From(h, d) \in Links /\ To(h, d) \in Links
  BY Places
<1>2. net[From(h, d)][d] \in Queue /\ net[To(h, d)][d] \in Queue /\ hand[h][d] \in Frame
  BY <1>1 DEF TypesOK
<1>3. stage[h] = "pumping"
  BY DEF Task, Take, Send, Return, MayTake
<1>4. h \in Path
  <2>1. h <= hops
    BY <1>3, Places DEF StagesOK
  <2>2. QED
    BY <2>1, Places DEF Path
<1>5. UNCHANGED <<hops, kind, stage, core, client, told>>
  BY DEF Task, Take, Send, Return, path, endVars
<1>6. CASE Take(h, d)
  <2>1. PICK q \in Queue : q = Tail(net[From(h, d)][d])
    BY <1>2, <1>6, TakeOne DEF Take
  <2>2. /\ Closed(q) <=> Closed(net[From(h, d)][d])
        /\ Closed(net[From(h, d)][d]) => Last(q) = Last(net[From(h, d)][d])
    BY <1>2, <1>6, <2>1, TakeOne DEF Take
  <2>3. net' = [net EXCEPT ![From(h, d)][d] = q] /\ ended' = ended
    BY <1>6, <2>1 DEF Take
  <2>4. QED
    BY <1>1, <1>5, <2>1, <2>2, <2>3, SameClose
<1>7. CASE Send(h, d)
  <2>1. CASE net' = [net EXCEPT ![To(h, d)][d] = Put(@, hand[h][d])] /\ ended' = ended
    <3>1. PICK q \in Queue : q = Put(net[To(h, d)][d], hand[h][d])
      BY <1>2, PutFrame
    <3>2. /\ Closed(q) <=> Closed(net[To(h, d)][d])
          /\ Closed(net[To(h, d)][d]) => q = net[To(h, d)][d]
      BY <1>2, <3>1, PutFrame
    <3>3. net' = [net EXCEPT ![To(h, d)][d] = q]
      BY <2>1, <3>1
    <3>4. QED
      BY <1>1, <1>5, <2>1, <3>1, <3>2, <3>3, SameClose
  <2>2. CASE Closed(net[To(h, d)][Other(d)]) /\ ended' = [ended EXCEPT ![h] = TRUE] /\ net' = net
    <3>1. Closed(net[h].down) \/ Closed(net[h - 1].up)
      BY <2>2 DEF To, Other, Dirs
    <3>2. QED
      BY <1>3, <1>4, <1>5, <2>2, <3>1, TaskEnds
  <2>3. QED
    BY <1>7, <2>1, <2>2 DEF Send
<1>8. CASE Return(h, d)
  <2>1. AtClose(net[From(h, d)][d]) /\ ended' = [ended EXCEPT ![h] = TRUE] /\ net' = net
    BY <1>8 DEF Return, SeesClose
  <2>2. Closed(net[From(h, d)][d])
    BY <1>2, <2>1, QueueFacts
  <2>3. Closed(net[h].down) \/ Closed(net[h - 1].up)
    BY <2>2 DEF From, Dirs
  <2>4. QED
    BY <1>3, <1>4, <1>5, <2>1, <2>3, TaskEnds
<1>9. QED
  BY <1>6, <1>7, <1>8 DEF Task

\* One queue gets a close: what there is to say of the others.
LEMMA OneClose ==
  ASSUME TypesOK, NEW i \in Links, NEW d \in Dirs, NEW code \in Nat, code >= 1000,
         net' = [net EXCEPT ![i][d] = Put(@, code)]
  PROVE  /\ Closed(net'[i][d])
         /\ Closed(net[i][d]) => net'[i][d] = net[i][d]
         /\ ~Closed(net[i][d]) => Last(net'[i][d]) = code
         /\ Fill(net'[i][d]) = Fill(net[i][d])
         /\ \A n \in Nat : Carries(net[i][d], n) => Carries(net'[i][d], n)
         /\ \A j \in Links, c \in Dirs : j # i \/ c # d => net'[j][c] = net[j][c]
<1>1. net[i][d] \in Queue
  BY DEF TypesOK
<1>2. PICK q : q = Put(net[i][d], code)
  OBVIOUS
<1>3. /\ q \in Queue /\ Closed(q) /\ Fill(q) = Fill(net[i][d])
      /\ Closed(net[i][d]) => q = net[i][d]
      /\ ~Closed(net[i][d]) => Last(q) = code
      /\ \A n \in Nat : Carries(net[i][d], n) => Carries(q, n)
  BY <1>1, <1>2, PutClose
<1>4. net' = [net EXCEPT ![i][d] = q]
  BY <1>2
<1>5. net'[i][d] = q
  BY <1>4 DEF TypesOK
<1>6. \A j \in Links, c \in Dirs : j # i \/ c # d => net'[j][c] = net[j][c]
  BY <1>3, <1>4, PutAt
<1>7. QED
  BY <1>3, <1>5, <1>6

\* A relay that refuses closes a link that nothing upstream was told of.
LEMMA RefuseClean ==
  ASSUME TypesOK, StagesOK, ChainClean, NEW h \in Relays, Refuse(h)
  PROVE  ChainClean'
<1>1. PICK code \in {Rejected, Unavailable} : net' = [net EXCEPT ![h - 1].down = Put(@, code)]
  BY DEF Refuse
<1>2. /\ stage[h] = "accepted" /\ stage' = [stage EXCEPT ![h] = "done"]
      /\ UNCHANGED <<hops, kind, ended, core, client, told>>
  BY DEF Refuse, path, endVars
<1>3. Refusal' /\ h \in Path /\ core = "absent"
  BY RefuseStages
<1>4. Path' = Path /\ h - 1 \in Links /\ hops # h - 1 /\ 0 \in Links /\ hops \in Links
  BY <1>2, <1>3, PathPlaces, EndPlaces DEF Path
<1>5. /\ Closed(net'[h - 1].down)
      /\ \A i \in Links : /\ net'[i].up = net[i].up
                          /\ i # h - 1 => net'[i].down = net[i].down
  <2>1. code \in Nat /\ code >= 1000
    BY DEF Rejected, Unavailable
  <2>2. net' = [net EXCEPT ![h - 1]["down"] = Put(@, code)]
    BY <1>1
  <2>3. "down" \in Dirs
    BY Directions
  <2>4. /\ Closed(net'[h - 1]["down"])
        /\ ~Closed(net[h - 1]["down"]) => Last(net'[h - 1]["down"]) = code
    BY <1>4, <2>1, <2>2, <2>3, OneClose
  <2>5. \A j \in Links, c \in Dirs : j # h - 1 \/ c # "down" => net'[j][c] = net[j][c]
    BY <1>4, <2>1, <2>2, <2>3, OneClose
  <2>6. QED
    BY <2>4, <2>5, Directions
<1>6. stage'[h] = "done" /\ \A g \in Relays : g # h => stage'[g] = stage[g]
  BY <1>2 DEF TypesOK
<1>7. UpCloses'
  BY <1>2, <1>4, <1>5, <1>6, PathPlaces DEF ChainClean, UpCloses
<1>8. DownCloses'
  BY <1>2, <1>3, <1>4, <1>5, <1>6, PathPlaces DEF ChainClean, DownCloses
<1>9. EndsDown'
  <2>1. \A i \in Links : Closed(net[i].down) => Closed(net'[i].down)
    BY <1>5
  <2>2. QED
    BY <1>2, <1>3, <1>4, <2>1, PathPlaces DEF ChainClean, EndsDown
<1>10. EndsOK'
  <2>1. ASSUME client = "told" PROVE h - 1 # 0
    <3>1. Closed(net[0].down)
      BY <2>1 DEF ChainClean, EndsOK
    <3>2. ~Closed(net[h - 1].down)
      BY <1>2, <1>3 DEF ChainClean, DownCloses
    <3>3. QED
      BY <3>1, <3>2
  <2>2. QED
    BY <1>2, <1>3, <1>4, <1>5, <2>1 DEF ChainClean, EndsOK
<1>11. RefusalCarried'
  BY <1>2, <1>3 DEF RefusalCarried
<1>12. QED
  BY <1>7, <1>8, <1>9, <1>10, <1>11 DEF ChainClean

\* A relay that dials closes nothing.
LEMMA DialClean ==
  ASSUME TypesOK, StagesOK, ChainClean, NEW h \in Relays, Dial(h)
  PROVE  ChainClean'
<1>1. /\ UNCHANGED <<hops, kind, ended, net, client, told>> /\ core' \in {"absent", "open"}
  BY DialStages DEF Dial, path
<1>2. /\ core = "absent" /\ ~Refusal
      /\ \A g \in Path : stage[g] \in {"closing", "done"} => stage'[g] = stage[g]
  BY DialStages
<1>3. Path' = Path
  BY <1>1 DEF Path
<1>4. UpCloses'
  BY <1>1, <1>2, <1>3 DEF ChainClean, UpCloses
<1>5. DownCloses'
  BY <1>1, <1>2, <1>3 DEF ChainClean, DownCloses
<1>6. EndsDown'
  BY <1>1, <1>2, <1>3 DEF ChainClean, EndsDown
<1>7. EndsOK' /\ RefusalCarried'
  BY <1>1, <1>2 DEF ChainClean, EndsOK, RefusalCarried
<1>8. QED
  BY <1>4, <1>5, <1>6, <1>7 DEF ChainClean

\* A relay cancels its tasks when one of them has ended.
LEMMA CancelClean ==
  ASSUME TypesOK, StagesOK, ChainClean, NEW h \in Relays, Cancel(h)
  PROVE  ChainClean'
<1>1. /\ stage[h] = "pumping" /\ net' = [net EXCEPT ![h].up = Put(@, Normal)]
      /\ UNCHANGED <<hops, kind, ended, core, client, told>>
  BY DEF Cancel, path, endVars
<1>2. /\ (Refusal' <=> Refusal) /\ Path' = Path /\ h \in Path /\ ended[h]
      /\ stage'[h] \in {"closing", "done"} /\ \A g \in Relays : g # h => stage'[g] = stage[g]
  BY CancelStages
<1>3. h \in Links /\ 0 \in Links /\ h # 0
  BY <1>2, PathPlaces, EndPlaces
<1>4. \A i \in Links : /\ net'[i].down = net[i].down
                       /\ i # h => net'[i].up = net[i].up
  BY <1>1, <1>3, OneClose, Directions DEF Normal
<1>5. UpCloses'
  BY <1>1, <1>2, <1>3, <1>4, PathPlaces DEF ChainClean, UpCloses
<1>6. DownCloses'
  BY <1>1, <1>2, <1>4, PathPlaces, EndPlaces DEF ChainClean, DownCloses
<1>7. EndsDown'
  BY <1>1, <1>2, <1>4, PathPlaces DEF ChainClean, EndsDown
<1>8. EndsOK'
  BY <1>1, <1>3, <1>4 DEF ChainClean, EndsOK
<1>9. RefusalCarried'
  BY <1>1, <1>2, <1>4, PathPlaces, EndPlaces DEF ChainClean, RefusalCarried
<1>10. QED
  BY <1>5, <1>6, <1>7, <1>8, <1>9 DEF ChainClean

\* A relay that closes hands on the code it was closed with.
LEMMA CloseClientClean ==
  ASSUME TypesOK, StagesOK, ChainClean, NEW h \in Relays, CloseClient(h)
  PROVE  ChainClean'
<1>1. /\ stage[h] = "closing" /\ stage' = [stage EXCEPT ![h] = "done"]
      /\ net' = [net EXCEPT ![h - 1].down = Put(@, CloseCode(h))]
      /\ UNCHANGED <<hops, kind, ended, core, client, told>>
  BY DEF CloseClient, path, endVars
<1>2. /\ (Refusal' <=> Refusal) /\ Path' = Path /\ h \in Path /\ ended[h]
      /\ \A g \in Relays : g # h => stage'[g] = stage[g]
  BY CancelStages
<1>3. stage'[h] = "done"
  BY <1>1 DEF TypesOK
<1>4. h - 1 \in Links /\ 0 \in Links /\ hops \in Links /\ h - 1 # hops
  BY <1>2, PathPlaces, EndPlaces
<1>5. /\ Closed(net'[h - 1].down)
      /\ ~Closed(net[h - 1].down) => Last(net'[h - 1].down) = CloseCode(h)
      /\ \A i \in Links : /\ net'[i].up = net[i].up
                          /\ i # h - 1 => net'[i].down = net[i].down
  <2>1. CloseCode(h) \in Nat /\ CloseCode(h) >= 1000
    BY CodesClose
  <2>2. net' = [net EXCEPT ![h - 1]["down"] = Put(@, CloseCode(h))]
    BY <1>1
  <2>3. "down" \in Dirs
    BY Directions
  <2>4. /\ Closed(net'[h - 1]["down"])
        /\ ~Closed(net[h - 1]["down"]) => Last(net'[h - 1]["down"]) = CloseCode(h)
    BY <1>4, <2>1, <2>2, <2>3, OneClose
  <2>5. \A j \in Links, c \in Dirs : j # h - 1 \/ c # "down" => net'[j][c] = net[j][c]
    BY <1>4, <2>1, <2>2, <2>3, OneClose
  <2>6. QED
    BY <2>4, <2>5, Directions
<1>6. ~Closed(net[h - 1].down)
  BY <1>1, <1>2 DEF ChainClean, DownCloses
<1>7. UpCloses'
  BY <1>1, <1>2, <1>3, <1>4, <1>5, PathPlaces DEF ChainClean, UpCloses
<1>8. DownCloses'
  BY <1>1, <1>2, <1>3, <1>4, <1>5, PathPlaces DEF ChainClean, DownCloses
<1>9. EndsDown'
  <2>1. \A i \in Links : Closed(net[i].down) => Closed(net'[i].down)
    BY <1>5
  <2>2. QED
    BY <1>1, <1>2, <2>1, PathPlaces DEF ChainClean, EndsDown
<1>10. EndsOK'
  <2>1. client = "told" => h - 1 # 0
    BY <1>6 DEF ChainClean, EndsOK
  <2>2. QED
    BY <1>1, <1>4, <1>5, <2>1 DEF ChainClean, EndsOK
<1>11. RefusalCarried'
  <2> SUFFICES ASSUME core = "refused", client # "left"
               PROVE  /\ Closed(net'[hops].down) /\ Last(net'[hops].down) = Rejected
                      /\ hops = 1 \/ kind = "get" =>
                           \A g \in Path : Closed(net'[g - 1].down) => Last(net'[g - 1].down) = Rejected
    BY <1>1, <1>2 DEF RefusalCarried
  <2>1. Closed(net[hops].down) /\ Last(net[hops].down) = Rejected
    BY DEF ChainClean, RefusalCarried
  <2>2. ASSUME hops = 1 \/ kind = "get" PROVE CloseCode(h) = Rejected
    <3>1. Closed(net[h].down)
      BY <1>2 DEF ChainClean, EndsDown
    <3>2. h = hops \/ kind = "get"
      BY <1>2, <2>2, PathPlaces
    <3>3. CloseCode(h) = Last(net[h].down)
      BY <3>1, <3>2 DEF CloseCode
    <3>4. CASE h = hops
      BY <2>1, <3>3, <3>4
    <3>5. CASE h # hops
      <4>1. h + 1 \in Path /\ (h + 1) - 1 = h
        BY <1>2, <3>5, PathPlaces
      <4>2. QED
        BY <2>2, <3>1, <3>3, <4>1 DEF ChainClean, RefusalCarried
    <3>6. QED
      BY <3>4, <3>5
  <2>3. ASSUME hops = 1 \/ kind = "get", NEW g \in Path, Closed(net'[g - 1].down)
        PROVE  Last(net'[g - 1].down) = Rejected
    <3>1. CASE g - 1 = h - 1
      BY <1>5, <1>6, <2>2, <2>3, <3>1
    <3>2. CASE g - 1 # h - 1
      <4>1. net'[g - 1].down = net[g - 1].down
        BY <1>5, <3>2, PathPlaces
      <4>2. QED
        BY <2>3, <4>1 DEF ChainClean, RefusalCarried
    <3>3. QED
      BY <3>1, <3>2
  <2>4. QED
    BY <1>4, <1>5, <2>1, <2>3
<1>12. QED
  BY <1>7, <1>8, <1>9, <1>10, <1>11 DEF ChainClean

\* The Core closes a chain that is open all the way.
LEMMA CoreEndsClean ==
  ASSUME TypesOK, StagesOK, ChainClean, CoreEnds
  PROVE  ChainClean'
<1>1. PICK code \in {Normal, Rejected} :
        /\ net' = [net EXCEPT ![hops].down = Put(@, code)]
        /\ core' \in {"finished", "refused"} /\ (core' = "refused" => code = Rejected)
  BY DEF CoreEnds
<1>2. core = "open" /\ UNCHANGED <<hops, kind, stage, ended, client, told>>
  BY DEF CoreEnds, path
<1>3. Path' = Path /\ hops \in Links /\ 0 \in Links /\ hops # 0 /\ hops \in Path
  BY <1>2, PathPlaces, EndPlaces DEF Path
<1>4. /\ Closed(net'[hops].down)
      /\ ~Closed(net[hops].down) => Last(net'[hops].down) = code
      /\ \A i \in Links : /\ net'[i].up = net[i].up
                          /\ i # hops => net'[i].down = net[i].down
  <2>1. code \in Nat /\ code >= 1000
    BY DEF Normal, Rejected
  <2>2. net' = [net EXCEPT ![hops]["down"] = Put(@, code)]
    BY <1>1
  <2>3. "down" \in Dirs
    BY Directions
  <2>4. /\ Closed(net'[hops]["down"])
        /\ ~Closed(net[hops]["down"]) => Last(net'[hops]["down"]) = code
    BY <1>3, <2>1, <2>2, <2>3, OneClose
  <2>5. \A j \in Links, c \in Dirs : j # hops \/ c # "down" => net'[j][c] = net[j][c]
    BY <1>3, <2>1, <2>2, <2>3, OneClose
  <2>6. QED
    BY <2>4, <2>5, Directions
<1>5. ~Refusal /\ ~Closed(net[hops].down)
  BY <1>2 DEF StagesOK, ChainClean, DownCloses
<1>6. ASSUME client # "left", NEW h \in Path PROVE ~ended[h]
  BY <1>2, <1>5, <1>6 DEF ChainClean, EndsDown
<1>7. UpCloses'
  BY <1>2, <1>3, <1>4, PathPlaces DEF ChainClean, UpCloses
<1>8. DownCloses'
  <2>1. \A h \in Path : h - 1 # hops
    BY PathPlaces
  <2>2. QED
    BY <1>1, <1>2, <1>3, <1>4, <2>1, PathPlaces DEF ChainClean, DownCloses
<1>9. EndsDown'
  BY <1>2, <1>3, <1>6 DEF EndsDown
<1>10. EndsOK'
  BY <1>1, <1>2, <1>3, <1>4 DEF ChainClean, EndsOK
<1>11. RefusalCarried'
  <2> SUFFICES ASSUME core' = "refused", client # "left"
               PROVE  /\ Closed(net'[hops].down) /\ Last(net'[hops].down) = Rejected
                      /\ \A g \in Path : ~Closed(net'[g - 1].down)
    BY <1>2, <1>3 DEF RefusalCarried
  <2>1. ASSUME NEW g \in Path, Closed(net'[g - 1].down) PROVE FALSE
    <3>1. g - 1 # hops /\ g - 1 \in Links
      BY PathPlaces
    <3>2. stage[g] = "done"
      BY <1>4, <2>1, <3>1 DEF ChainClean, DownCloses
    <3>3. Dialled(g)
      BY <1>5, <3>2 DEF Refusal, Refused
    <3>4. ended[g]
      BY <3>2, <3>3 DEF StagesOK
    <3>5. QED
      BY <1>6, <3>4
  <2>2. QED
    BY <1>1, <1>4, <1>5, <2>1
<1>12. QED
  BY <1>7, <1>8, <1>9, <1>10, <1>11 DEF ChainClean

\* The client closes upwards only.
LEMMA ClientLeavesClean ==
  ASSUME TypesOK, StagesOK, ChainClean, ClientLeaves
  PROVE  ChainClean'
<1>1. /\ client' = "left" /\ net' = [net EXCEPT ![0].up = Put(@, GoingAway)]
      /\ UNCHANGED <<hops, kind, stage, ended, core, told>>
  BY DEF ClientLeaves, path
<1>2. Path' = Path /\ 0 \in Links
  BY <1>1, EndPlaces DEF Path
<1>3. \A i \in Links : /\ net'[i].down = net[i].down
                       /\ i # 0 => net'[i].up = net[i].up
  BY <1>1, <1>2, OneClose, Directions DEF GoingAway
<1>4. UpCloses'
  BY <1>1, <1>2, <1>3, PathPlaces DEF ChainClean, UpCloses
<1>5. DownCloses'
  BY <1>1, <1>2, <1>3, PathPlaces DEF ChainClean, DownCloses
<1>6. EndsDown' /\ EndsOK' /\ RefusalCarried'
  BY <1>1 DEF EndsDown, EndsOK, RefusalCarried
<1>7. QED
  BY <1>4, <1>5, <1>6 DEF ChainClean

\* An end that reads a close learns why.
LEMMA ReadsClean ==
  ASSUME TypesOK, StagesOK, ChainClean, CoreReads \/ ClientReads
  PROVE  ChainClean'
<1>1. /\ 0 \in Links /\ hops \in Links /\ net[0].down \in Queue /\ net[hops].up \in Queue
      /\ "up" \in Dirs /\ "down" \in Dirs
  BY EndPlaces, Directions
<1>2. CASE CoreReads /\ HasFrame(net[hops].up)
  <2>1. PICK q \in Queue : q = Tail(net[hops].up)
    BY <1>1, <1>2, TakeOne
  <2>2. /\ Closed(q) <=> Closed(net[hops].up)
        /\ Closed(net[hops].up) => Last(q) = Last(net[hops].up)
    BY <1>1, <1>2, <2>1, TakeOne
  <2>3. /\ net' = [net EXCEPT ![hops]["up"] = q]
        /\ UNCHANGED <<hops, kind, stage, ended, core, client, told>>
    BY <1>2, <2>1 DEF CoreReads, path
  <2>4. QED
    BY <1>1, <2>1, <2>2, <2>3, SameClose
<1>3. CASE ClientReads /\ HasFrame(net[0].down)
  <2>1. PICK q \in Queue : q = Tail(net[0].down)
    BY <1>1, <1>3, TakeOne
  <2>2. /\ Closed(q) <=> Closed(net[0].down)
        /\ Closed(net[0].down) => Last(q) = Last(net[0].down)
    BY <1>1, <1>3, <2>1, TakeOne
  <2>3. /\ net' = [net EXCEPT ![0]["down"] = q]
        /\ UNCHANGED <<hops, kind, stage, ended, core, client, told>>
    BY <1>3, <2>1 DEF ClientReads, path
  <2>4. QED
    BY <1>1, <2>1, <2>2, <2>3, SameClose
<1>4. CASE CoreReads /\ ~HasFrame(net[hops].up)
  <2>1. /\ core = "open" /\ core' = "left" /\ AtClose(net[hops].up)
        /\ UNCHANGED <<hops, kind, stage, ended, net, client, told>>
    BY <1>4 DEF CoreReads, HasFrame, AtClose, path
  <2>2. Closed(net[hops].up)
    BY <1>1, <2>1, QueueFacts
  <2>3. ended[hops] /\ ~Refusal /\ ~Closed(net[hops].down)
    BY <2>1, <2>2, PathPlaces DEF ChainClean, UpCloses, DownCloses, StagesOK
  <2>4. client = "left"
    BY <2>1, <2>3, PathPlaces DEF ChainClean, EndsDown
  <2>5. Path' = Path
    BY <2>1 DEF Path
  <2>6. UpCloses' /\ DownCloses' /\ EndsDown' /\ EndsOK' /\ RefusalCarried'
    BY <2>1, <2>3, <2>4, <2>5
       DEF ChainClean, UpCloses, DownCloses, EndsDown, EndsOK, RefusalCarried
  <2>7. QED
    BY <2>6 DEF ChainClean
<1>5. CASE ClientReads /\ ~HasFrame(net[0].down)
  <2>1. /\ client = "on" /\ client' = "told" /\ AtClose(net[0].down) /\ told' = Head(net[0].down)
        /\ UNCHANGED <<hops, kind, stage, ended, net, core>>
    BY <1>5 DEF ClientReads, HasFrame, AtClose, path
  <2>2. Closed(net[0].down) /\ Head(net[0].down) = Last(net[0].down)
    BY <1>1, <2>1, QueueFacts
  <2>3. Path' = Path /\ (Refusal' <=> Refusal)
    BY <2>1 DEF Path, Refusal, Refused, Dialled
  <2>4. UpCloses' /\ DownCloses'
    BY <2>1, <2>3 DEF ChainClean, UpCloses, DownCloses
  <2>5. EndsDown' /\ EndsOK' /\ RefusalCarried'
    BY <2>1, <2>2, <2>3 DEF ChainClean, EndsDown, EndsOK, RefusalCarried
  <2>6. QED
    BY <2>4, <2>5 DEF ChainClean
<1>6. QED
  BY <1>2, <1>3, <1>4, <1>5

\* A frame sent by an end closes nothing.
LEMMA SendsClean ==
  ASSUME TypesOK, StagesOK, ChainClean, CoreSends \/ ClientSends
  PROVE  ChainClean'
<1>1. /\ 0 \in Links /\ hops \in Links /\ net[0].up \in Queue /\ net[hops].down \in Queue
      /\ "up" \in Dirs /\ "down" \in Dirs
  BY EndPlaces, Directions
<1>2. CASE CoreSends
  <2>1. sent["down"] + 1 \in Frame
    BY <1>1, <1>2, NextFrame DEF CoreSends
  <2>2. PICK q \in Queue : q = Put(net[hops].down, sent["down"] + 1)
    BY <1>1, <2>1, PutFrame
  <2>3. (Closed(q) <=> Closed(net[hops].down)) /\ (Closed(net[hops].down) => q = net[hops].down)
    BY <1>1, <2>1, <2>2, PutFrame
  <2>4. /\ net' = [net EXCEPT ![hops]["down"] = q]
        /\ UNCHANGED <<hops, kind, stage, ended, core, client, told>>
    BY <1>2, <2>2 DEF CoreSends, path
  <2>5. QED
    BY <1>1, <2>2, <2>3, <2>4, SameClose
<1>3. CASE ClientSends
  <2>1. sent["up"] + 1 \in Frame
    BY <1>1, <1>3, NextFrame DEF ClientSends
  <2>2. PICK q \in Queue : q = Put(net[0].up, sent["up"] + 1)
    BY <1>1, <2>1, PutFrame
  <2>3. (Closed(q) <=> Closed(net[0].up)) /\ (Closed(net[0].up) => q = net[0].up)
    BY <1>1, <2>1, <2>2, PutFrame
  <2>4. /\ net' = [net EXCEPT ![0]["up"] = q]
        /\ UNCHANGED <<hops, kind, stage, ended, core, client, told>>
    BY <1>3, <2>2 DEF ClientSends, path
  <2>5. QED
    BY <1>1, <2>2, <2>3, <2>4, SameClose
<1>4. QED
  BY <1>2, <1>3

\* While no connection breaks the chain stays clean.
LEMMA StepIntact == ChainInv /\ [Next]_vars => Intact'
<1> SUFFICES ASSUME ChainInv, [Next]_vars, lost' = 0 PROVE ChainClean'
  BY DEF Intact, ChainClean
<1>1. TypesOK /\ StagesOK /\ (lost = 0 => ChainClean)
  BY DEF ChainInv, Intact, ChainClean
<1>2. CASE \E h \in Relays : Handler(h)
  <2>1. lost = 0
    BY <1>2 DEF Handler, Refuse, Dial, Cancel, CloseClient, endVars
  <2>2. QED
    BY <1>1, <1>2, <2>1, RefuseClean, DialClean, CancelClean, CloseClientClean DEF Handler
<1>3. CASE \E h \in Relays, d \in Dirs : Task(h, d)
  <2>1. lost = 0
    BY <1>3 DEF Task, Take, Send, Return, endVars
  <2>2. QED
    BY <1>1, <1>3, <2>1, TaskClean
<1>4. CASE CoreSends \/ CoreReads \/ CoreEnds \/ ClientSends \/ ClientReads \/ ClientLeaves
  <2>1. lost = 0
    BY <1>4 DEF CoreSends, CoreReads, CoreEnds, ClientSends, ClientReads, ClientLeaves
  <2>2. QED
    BY <1>1, <1>4, <2>1, SendsClean, ReadsClean, CoreEndsClean, ClientLeavesClean
<1>5. CASE \E i \in 0..hops : LinkBreaks(i)
  <2>1. lost' = lost + 1 /\ lost \in Nat
    BY <1>1, <1>5 DEF LinkBreaks, TypesOK
  <2>2. QED
    BY <2>1
<1>6. CASE UNCHANGED vars
  <2>1. lost = 0 /\ UNCHANGED <<hops, kind, stage, ended, net, core, client, told>>
    BY <1>6 DEF vars
  <2>2. QED
    BY <1>1, <2>1, SameCloses
<1>7. QED
  BY <1>2, <1>3, <1>4, <1>5, <1>6 DEF Next

\* Nothing is closed to begin with.
LEMMA InitChain == Init => ChainInv
<1> SUFFICES ASSUME Init PROVE ChainInv
  OBVIOUS
<1>1. /\ hops \in Relays /\ kind \in Kinds /\ hops \in Nat /\ hops >= 1 /\ 1 \in Relays
      /\ core = "absent" /\ client = "on" /\ told = 0 /\ lost = 0
  BY ChainAssumption DEF Init, Relays
<1>2. \A h \in Relays : /\ stage[h] = IF h = 1 THEN "accepted" ELSE "absent"
                        /\ ended[h] = FALSE
  BY DEF Init
<1>3. <<>> \in Queue /\ ~Closed(<<>>)
  <2>1. <<>> \in Seq(Nat) /\ Len(<<>>) = 0
    OBVIOUS
  <2>2. QED
    BY <2>1 DEF Queue, Closed
<1>4. TypesOK
  <2>1. stage \in [Relays -> Stages]
    BY DEF Init, Stages
  <2>2. hand \in [Relays -> [Dirs -> Frame]]
    BY DEF Init, Frame
  <2>3. net \in [Links -> [Dirs -> Queue]]
    BY <1>3 DEF Init
  <2>4. sent \in [Dirs -> 0..MaxFrames] /\ got \in [Dirs -> Seq(Nat)]
    BY ChainAssumption DEF Init
  <2>5. ended \in [Relays -> BOOLEAN]
    BY DEF Init
  <2>6. QED
    BY <1>1, <2>1, <2>2, <2>3, <2>4, <2>5 DEF TypesOK
<1>5. \A i \in Links, d \in Dirs : ~Closed(net[i][d])
  BY <1>3 DEF Init
<1>6. \A h \in Path : h \in Relays /\ h \in Nat /\ h >= 1
  BY <1>4, PathPlaces
<1>7. \A h \in Path : ~Dialled(h)
  BY <1>1, <1>2, <1>4, <1>6, PathPlaces DEF Dialled
<1>8. StagesOK
  <2>1. ~Refusal
    BY <1>2, <1>6 DEF Refusal, Refused
  <2>2. QED
    BY <1>1, <1>2, <1>6, <1>7, <2>1 DEF StagesOK, Relays
<1>9. Intact
  <2>1. \A i \in Links : ~Closed(net[i].up) /\ ~Closed(net[i].down)
    BY <1>5, Directions
  <2>2. UpCloses /\ DownCloses
    BY <1>4, <2>1, PathPlaces, EndPlaces DEF UpCloses, DownCloses
  <2>3. EndsDown /\ EndsOK /\ RefusalCarried
    BY <1>1, <1>2, <1>6 DEF EndsDown, EndsOK, RefusalCarried
  <2>4. QED
    BY <2>2, <2>3 DEF Intact
<1>10. QED
  BY <1>4, <1>8, <1>9 DEF ChainInv

\* Relays, links and both ends agree as ChainInv says, in every state.
THEOREM ChainInvariance == Spec => []ChainInv
<1>1. ChainInv /\ [Next]_vars => ChainInv'
  BY StepTypes, StepStages, StepIntact DEF ChainInv
<1>2. QED
  BY InitChain, <1>1, PTL DEF Spec

\* A refused client is told so, however many relays there are between it and
\* the Core that refused it (_forward_ws: the close code is carried; a response
\* keeps its status).
THEOREM RefusalTold == Spec => []RefusalIsTold
<1>1. ChainInv => RefusalIsTold
  <2> SUFFICES ASSUME ChainInv, hops = 1 \/ kind = "get", core = "refused", client = "told",
                      lost = 0
               PROVE  told = Rejected
    BY DEF RefusalIsTold
  <2>1. Closed(net[0].down) /\ told = Last(net[0].down) /\ 1 \in Path /\ 1 - 1 = 0
    BY PathPlaces DEF ChainInv, Intact, EndsOK, Path
  <2>2. QED
    BY <2>1 DEF ChainInv, Intact, RefusalCarried
<1>2. QED
  BY ChainInvariance, <1>1, PTL

-----------------------------------------------------------------------------
(* Frames stay in order.                                                   *)

\* Where links are in a direction.
LEMMA AlongThePath ==
  ASSUME TypesOK, NEW d \in Dirs
  PROVE  /\ Source(d) \in 0..hops /\ Sink(d) \in 0..hops /\ \A i \in 0..hops : i \in Links
         /\ \A h \in Path : /\ From(h, d) \in 0..hops /\ To(h, d) \in 0..hops
                            /\ From(h, d) # To(h, d) /\ Before(d, From(h, d), To(h, d))
                            /\ To(h, d) # Source(d) /\ From(h, d) # Sink(d)
         /\ \A g, h \in Path : g # h => From(g, d) # From(h, d) /\ To(g, d) # To(h, d)
         /\ \A i \in 0..hops : /\ ~Before(d, i, i) /\ ~Before(d, i, Source(d))
                               /\ i # Sink(d) => Before(d, i, Sink(d))
         /\ \A h \in Path, i \in 0..hops :
              Before(d, i, To(h, d)) => i = From(h, d) \/ Before(d, i, From(h, d))
<1>1. hops \in Nat /\ hops >= 1 /\ \A i \in 0..hops : i \in Links
  BY PathPlaces, EndPlaces
<1>2. CASE d = "down"
  BY <1>1, <1>2 DEF Source, Sink, From, To, Before, Path
<1>3. CASE d = "up"
  BY <1>1, <1>3 DEF Source, Sink, From, To, Before, Path
<1>4. QED
  BY <1>2, <1>3, Directions

\* The numbers that Flow is about.
LEMMA Counts ==
  ASSUME TypesOK, NEW d \in Dirs, NEW e \in [Links -> Nat], NEW i \in 0..hops
  PROVE  /\ net[i][d] \in Queue /\ e[i] \in Nat /\ Len(net[i][d]) \in Nat
         /\ Fill(net[i][d]) \in Nat /\ sent[d] \in Nat
         /\ ~Closed(net[i][d]) => Fill(net[i][d]) = Len(net[i][d])
<1>1. i \in Links
  BY AlongThePath
<1>2. net[i][d] \in Queue /\ sent[d] \in 0..MaxFrames
  BY <1>1 DEF TypesOK
<1>3. sent[d] \in Nat
  BY <1>2
<1>4. QED
  BY <1>1, <1>2, <1>3, QueueFacts

\* A step that at most closes links and empties the hands of relays that are
\* cancelled.
LEMMA FlowKept ==
  ASSUME TypesOK, TypesOK', NEW d \in Dirs, NEW e \in [Links -> Nat], InOrder(d, e),
         hops' = hops, got'[d] = got[d], sent'[d] = sent[d],
         \A i \in 0..hops :
           \/ net'[i][d] = net[i][d]
           \/ /\ Closed(net'[i][d]) /\ Fill(net'[i][d]) <= Fill(net[i][d])
              /\ \A n \in Nat : Carries(net[i][d], n) => Carries(net'[i][d], n),
         \A h \in Path : /\ hand'[h][d] = hand[h][d] \/ hand'[h][d] = 0
                         /\ stage'[h] \notin {"closing", "done"} =>
                              stage[h] \notin {"closing", "done"} /\ hand'[h][d] = hand[h][d]
  PROVE  InOrder(d, e)'
<1>1. \A i \in 0..hops : /\ e[i] \in Nat /\ Fill(net[i][d]) \in Nat /\ Fill(net'[i][d]) \in Nat
                         /\ sent[d] \in Nat
  <2>1. \A i \in 0..hops : net'[i][d] \in Queue
    BY AlongThePath DEF TypesOK
  <2>2. \A i \in 0..hops : Fill(net'[i][d]) \in Nat
    BY <2>1, QueueFacts
  <2>3. QED
    BY <2>2, Counts
<1>2. \A i \in 0..hops : /\ Fill(net'[i][d]) <= Fill(net[i][d])
                         /\ ~Closed(net'[i][d]) => net'[i][d] = net[i][d]
                         /\ Carries(net[i][d], e[i]) => Carries(net'[i][d], e[i])
  BY <1>1
<1>3. Path' = Path /\ Source(d)' = Source(d) /\ Sink(d)' = Sink(d)
  BY DEF Path, Source, Sink
<1>4. LinksFlow(d, e)'
  <2>1. \A i \in 0..hops : Carries(net'[i][d], e[i]) /\ e[i] + Fill(net'[i][d]) <= sent'[d]
    BY <1>1, <1>2 DEF InOrder, LinksFlow
  <2>2. \A i, j \in 0..hops : Before(d, i, j) => e[j] + Fill(net'[j][d]) <= e[i]
    BY <1>1, <1>2 DEF InOrder, LinksFlow
  <2>3. QED
    BY <2>1, <2>2 DEF LinksFlow
<1>5. EndsFlow(d, e)'
  BY <1>2, <1>3, AlongThePath DEF InOrder, EndsFlow
<1>6. \A h \in Path : RelayFlow(h, d, e)'
  BY ZenonT(60), <1>2, AlongThePath DEF InOrder, RelayFlow, Held, From, To
<1>7. QED
  BY <1>3, <1>4, <1>5, <1>6 DEF InOrder

\* A relay takes the next frame.
LEMMA FlowTakes ==
  ASSUME TypesOK, NEW d \in Dirs, NEW e \in [Links -> Nat], InOrder(d, e),
         NEW h \in Path, NEW f, f = [e EXCEPT ![From(h, d)] = @ + 1],
         HasFrame(net[From(h, d)][d]), hand[h][d] = 0,
         stage[h] \notin {"closing", "done"},
         UNCHANGED <<hops, got, sent, stage>>,
         net' = [net EXCEPT ![From(h, d)][d] = Tail(@)],
         hand' = [hand EXCEPT ![h][d] = Head(net[From(h, d)][d])]
  PROVE  f \in [Links -> Nat] /\ InOrder(d, f)'
<1> DEFINE i == From(h, d)
           q == net[i][d]
<1>1. /\ i \in 0..hops /\ i \in Links /\ i # Sink(d) /\ q \in Queue
      /\ To(h, d) \in 0..hops /\ To(h, d) # i
  BY AlongThePath, Counts
<1>2. /\ Head(q) \in Frame /\ Tail(q) \in Queue /\ (Closed(Tail(q)) <=> Closed(q))
      /\ Len(Tail(q)) = Len(q) - 1 /\ Fill(q) >= 1 /\ Fill(Tail(q)) = Fill(q) - 1
      /\ \A n \in Nat : Carries(q, n) => Head(q) = n + 1 /\ Carries(Tail(q), n + 1)
  BY <1>1, TakeOne
<1>3. \A j \in 0..hops : j \in Links /\ e[j] \in Nat /\ Fill(net[j][d]) \in Nat /\ Len(net[j][d]) \in Nat
  BY Counts, AlongThePath
<1>4. f \in [Links -> Nat] /\ f[i] = e[i] + 1 /\ \A j \in Links : j # i => f[j] = e[j]
  BY <1>1, <1>3
<1>5. net'[i][d] = Tail(q) /\ \A j \in Links : j # i => net'[j][d] = net[j][d]
  BY <1>1 DEF TypesOK
<1>6. hand'[h][d] = Head(q) /\ \A g \in Relays : g # h => hand'[g][d] = hand[g][d]
  BY PathPlaces DEF TypesOK
<1>7. Head(q) = e[i] + 1 /\ Carries(Tail(q), e[i] + 1) /\ e[i] + Fill(q) <= sent[d] /\ sent[d] \in Nat
  BY <1>1, <1>2, <1>3, Counts DEF InOrder, LinksFlow
<1>8. Path' = Path /\ Source(d)' = Source(d) /\ Sink(d)' = Sink(d) /\ sent'[d] = sent[d] /\ got'[d] = got[d]
  BY DEF Path, Source, Sink
<1>9. LinksFlow(d, f)'
  <2>1. ASSUME NEW j \in 0..hops
        PROVE  Carries(net'[j][d], f[j]) /\ f[j] + Fill(net'[j][d]) <= sent[d]
    <3>1. CASE j = i
      <4>1. f[j] = e[i] + 1 /\ net'[j][d] = Tail(q)
        BY <1>4, <1>5, <3>1
      <4>2. (e[i] + 1) + (Fill(q) - 1) <= sent[d]
        BY <1>1, <1>3, <1>7
      <4>3. QED
        BY <1>2, <1>7, <4>1, <4>2
    <3>2. CASE j # i
      BY <1>3, <1>4, <1>5, <3>2 DEF InOrder, LinksFlow
    <3>3. QED
      BY <3>1, <3>2
  <2>2. ASSUME NEW j \in 0..hops, NEW k \in 0..hops, Before(d, j, k)
        PROVE  f[k] + Fill(net'[k][d]) <= f[j]
    <3>1. e[k] + Fill(net[k][d]) <= e[j] /\ j # k
      BY <2>2, AlongThePath DEF InOrder, LinksFlow
    <3>2. f[k] + Fill(net'[k][d]) = e[k] + Fill(net[k][d])
      <4>1. CASE k = i
        <5>1. f[k] = e[i] + 1 /\ Fill(net'[k][d]) = Fill(q) - 1
          BY <1>2, <1>4, <1>5, <4>1
        <5>2. QED
          BY <1>1, <1>3, <4>1, <5>1
      <4>2. CASE k # i
        BY <1>3, <1>4, <1>5, <4>2
      <4>3. QED
        BY <4>1, <4>2
    <3>3. e[j] <= f[j]
      BY <1>3, <1>4
    <3>4. QED
      BY <1>3, <1>4, <3>1, <3>2, <3>3
  <2>3. QED
    BY <1>8, <2>1, <2>2 DEF LinksFlow
<1>10. EndsFlow(d, f)'
  <2>1. f[Sink(d)] = e[Sink(d)]
    BY <1>1, <1>4, AlongThePath
  <2>2. ASSUME ~Closed(net'[Source(d)][d])
        PROVE  f[Source(d)] + Len(net'[Source(d)][d]) = sent[d]
    <3>1. CASE Source(d) = i
      <4>1. ~Closed(q) /\ f[i] = e[i] + 1 /\ Len(net'[i][d]) = Len(q) - 1
        BY <1>2, <1>4, <1>5, <2>2, <3>1
      <4>2. e[i] + Len(q) = sent[d]
        BY <3>1, <4>1 DEF InOrder, EndsFlow
      <4>3. QED
        BY <1>1, <1>3, <3>1, <4>1, <4>2
    <3>2. CASE Source(d) # i
      BY <1>4, <1>5, <2>2, <3>2, AlongThePath DEF InOrder, EndsFlow
    <3>3. QED
      BY <3>1, <3>2
  <2>3. QED
    BY <1>8, <2>1, <2>2 DEF InOrder, EndsFlow
<1>11. ASSUME NEW g \in Path PROVE RelayFlow(g, d, f)'
  <2>1. From(g, d)' = From(g, d) /\ To(g, d)' = To(g, d) /\ g \in Relays
    BY PathPlaces DEF From, To
  <2>2. CASE g = h
    <3>1. hand'[g][d] = f[i] /\ Held(g, d)' = 1
      BY <1>1, <1>3, <1>4, <1>6, <1>7, <2>2 DEF Held
    <3>2. ASSUME ~Closed(net'[To(h, d)][d])
          PROVE  f[i] = f[To(h, d)] + Len(net'[To(h, d)][d]) + 1
      <4>1. net'[To(h, d)][d] = net[To(h, d)][d] /\ f[To(h, d)] = e[To(h, d)]
        BY <1>1, <1>3, <1>4, <1>5
      <4>2. e[i] = e[To(h, d)] + Len(net[To(h, d)][d]) + 0
        BY <3>2, <4>1 DEF InOrder, RelayFlow, Held
      <4>3. QED
        BY <1>1, <1>3, <1>4, <4>1, <4>2
    <3>3. QED
      BY <2>1, <2>2, <3>1, <3>2 DEF RelayFlow
  <2>3. CASE g # h
    <3>1. /\ From(g, d) # i /\ From(g, d) \in 0..hops /\ To(g, d) \in 0..hops
          /\ hand'[g][d] = hand[g][d]
      BY <1>6, <2>1, <2>3, AlongThePath
    <3>2. /\ f[From(g, d)] = e[From(g, d)] /\ Held(g, d)' = Held(g, d)
          /\ Closed(net'[To(g, d)][d]) <=> Closed(net[To(g, d)][d])
      BY <1>2, <1>3, <1>4, <1>5, <3>1 DEF Held
    <3>3. f[To(g, d)] + Len(net'[To(g, d)][d]) = e[To(g, d)] + Len(net[To(g, d)][d])
      <4>1. CASE To(g, d) = i
        <5>1. f[To(g, d)] = e[i] + 1 /\ Len(net'[To(g, d)][d]) = Len(q) - 1
          BY <1>2, <1>4, <1>5, <4>1
        <5>2. QED
          BY <1>1, <1>3, <4>1, <5>1
      <4>2. CASE To(g, d) # i
        BY <1>3, <1>4, <1>5, <3>1, <4>2
      <4>3. QED
        BY <4>1, <4>2
    <3>4. QED
      BY <2>1, <3>1, <3>2, <3>3 DEF InOrder, RelayFlow
  <2>4. QED
    BY <2>2, <2>3
<1>12. QED
  BY <1>4, <1>8, <1>9, <1>10, <1>11 DEF InOrder

\* A relay sends what it holds.
LEMMA FlowSends ==
  ASSUME TypesOK, NEW d \in Dirs, NEW e \in [Links -> Nat], InOrder(d, e),
         NEW h \in Path, hand[h][d] # 0, stage[h] \notin {"closing", "done"},
         UNCHANGED <<hops, got, sent, stage>>,
         net' = [net EXCEPT ![To(h, d)][d] = Put(@, hand[h][d])],
         hand' = [hand EXCEPT ![h][d] = 0]
  PROVE  InOrder(d, e)'
<1> DEFINE o == To(h, d)
           q == net[o][d]
           x == hand[h][d]
<1>1. /\ o \in 0..hops /\ o \in Links /\ o # Source(d) /\ q \in Queue
      /\ From(h, d) \in 0..hops /\ From(h, d) # o
  BY AlongThePath, Counts
<1>2. x \in Frame /\ x = e[From(h, d)]
  BY PathPlaces DEF TypesOK, InOrder, RelayFlow
<1>3. \A j \in 0..hops : j \in Links /\ e[j] \in Nat /\ Fill(net[j][d]) \in Nat /\ Len(net[j][d]) \in Nat
  BY Counts, AlongThePath
<1>4. PICK p : p = Put(q, x)
  OBVIOUS
<1>5. /\ Closed(p) <=> Closed(q)
      /\ Closed(q) => p = q
      /\ ~Closed(q) => Len(p) = Len(q) + 1 /\ Fill(p) = Fill(q) + 1
      /\ \A n \in Nat : Carries(q, n) /\ x = n + Len(q) + 1 => Carries(p, n)
  BY <1>1, <1>2, <1>4, PutFrame
<1>6. net'[o][d] = p /\ \A j \in Links : j # o => net'[j][d] = net[j][d]
  BY <1>1, <1>4 DEF TypesOK
<1>7. hand'[h][d] = 0 /\ \A g \in Relays : g # h => hand'[g][d] = hand[g][d]
  BY PathPlaces DEF TypesOK
<1>8. Path' = Path /\ Source(d)' = Source(d) /\ Sink(d)' = Sink(d) /\ sent'[d] = sent[d] /\ got'[d] = got[d]
  BY DEF Path, Source, Sink
<1>9. ASSUME ~Closed(q) PROVE x = e[o] + Len(q) + 1 /\ Fill(q) = Len(q)
  BY <1>1, <1>2, <1>9, Counts DEF InOrder, RelayFlow, Held
<1>10. Carries(q, e[o]) /\ e[o] + Fill(q) <= sent[d] /\ sent[d] \in Nat
  BY <1>1, Counts DEF InOrder, LinksFlow
<1>11. Carries(p, e[o])
  BY <1>1, <1>3, <1>5, <1>9, <1>10
<1>12. Closed(q) \/ e[o] + Fill(p) = e[From(h, d)]
  BY <1>1, <1>2, <1>3, <1>5, <1>9
<1>13. LinksFlow(d, e)'
  <2>1. ASSUME NEW j \in 0..hops
        PROVE  Carries(net'[j][d], e[j]) /\ e[j] + Fill(net'[j][d]) <= sent[d]
    <3>1. CASE j = o
      <4>1. e[From(h, d)] <= sent[d]
        BY <1>1, <1>3, <1>10 DEF InOrder, LinksFlow
      <4>2. e[o] + Fill(p) <= sent[d]
        BY <1>5, <1>10, <1>12, <4>1
      <4>3. QED
        BY <1>6, <1>1, <1>11, <3>1, <4>2
    <3>2. CASE j # o
      BY <1>3, <1>6, <3>2 DEF InOrder, LinksFlow
    <3>3. QED
      BY <3>1, <3>2
  <2>2. ASSUME NEW j \in 0..hops, NEW k \in 0..hops, Before(d, j, k)
        PROVE  e[k] + Fill(net'[k][d]) <= e[j]
    <3>1. e[k] + Fill(net[k][d]) <= e[j]
      BY <2>2 DEF InOrder, LinksFlow
    <3>2. CASE k = o /\ ~Closed(q)
      <4>1. j = From(h, d) \/ Before(d, j, From(h, d))
        BY <2>2, <3>2, AlongThePath
      <4>2. e[From(h, d)] <= e[j]
        <5>1. CASE j = From(h, d)
          BY <1>3, <5>1
        <5>2. CASE Before(d, j, From(h, d))
          <6>1. e[From(h, d)] + Fill(net[From(h, d)][d]) <= e[j]
            BY <1>1, <5>2 DEF InOrder, LinksFlow
          <6>2. QED
            BY <1>1, <1>3, <6>1
        <5>3. QED
          BY <4>1, <5>1, <5>2
      <4>3. net'[k][d] = p
        BY <1>6, <3>2
      <4>4. QED
        BY <1>12, <3>2, <4>2, <4>3
    <3>3. CASE k # o \/ Closed(q)
      <4>1. net'[k][d] = net[k][d]
        BY <1>3, <1>5, <1>6, <3>3
      <4>2. QED
        BY <3>1, <4>1
    <3>4. QED
      BY <3>2, <3>3
  <2>3. QED
    BY <1>8, <2>1, <2>2 DEF LinksFlow
<1>14. EndsFlow(d, e)'
  <2>1. net'[Source(d)][d] = net[Source(d)][d]
    BY <1>1, <1>6, AlongThePath
  <2>2. QED
    BY <1>8, <2>1 DEF InOrder, EndsFlow
<1>15. ASSUME NEW g \in Path PROVE RelayFlow(g, d, e)'
  <2>1. From(g, d)' = From(g, d) /\ To(g, d)' = To(g, d) /\ g \in Relays
    BY PathPlaces DEF From, To
  <2>2. CASE g = h
    <3>1. hand'[g][d] = 0 /\ Held(g, d)' = 0
      BY <1>7, <2>2 DEF Held
    <3>2. ASSUME ~Closed(net'[o][d])
          PROVE  e[From(h, d)] = e[o] + Len(net'[o][d]) + 0
      <4>1. ~Closed(q) /\ Len(net'[o][d]) = Len(q) + 1
        BY <1>5, <1>6, <3>2
      <4>2. QED
        BY <1>1, <1>2, <1>3, <1>9, <4>1
    <3>3. QED
      BY <2>1, <2>2, <3>1, <3>2 DEF RelayFlow
  <2>3. CASE g # h
    <3>1. /\ To(g, d) # o /\ From(g, d) \in 0..hops /\ To(g, d) \in 0..hops
          /\ hand'[g][d] = hand[g][d]
      BY <1>7, <2>1, <2>3, AlongThePath
    <3>2. net'[To(g, d)][d] = net[To(g, d)][d] /\ Held(g, d)' = Held(g, d)
      BY <1>3, <1>6, <3>1 DEF Held
    <3>3. QED
      BY <2>1, <3>1, <3>2 DEF InOrder, RelayFlow
  <2>4. QED
    BY <2>2, <2>3
<1>16. QED
  BY <1>8, <1>13, <1>14, <1>15 DEF InOrder

\* An end sends the next frame.
LEMMA FlowEnters ==
  ASSUME TypesOK, NEW d \in Dirs, NEW e \in [Links -> Nat], InOrder(d, e),
         sent[d] < MaxFrames, UNCHANGED <<hops, got, hand, stage>>,
         net' = [net EXCEPT ![Source(d)][d] = Put(@, sent[d] + 1)],
         sent' = [sent EXCEPT ![d] = @ + 1]
  PROVE  InOrder(d, e)'
<1> DEFINE s == Source(d)
           q == net[s][d]
           x == sent[d] + 1
<1>1. s \in 0..hops /\ s \in Links /\ q \in Queue
  BY AlongThePath, Counts
<1>2. x \in Frame /\ sent[d] \in Nat /\ sent'[d] = sent[d] + 1
  BY NextFrame DEF TypesOK
<1>3. \A j \in 0..hops : j \in Links /\ e[j] \in Nat /\ Fill(net[j][d]) \in Nat /\ Len(net[j][d]) \in Nat
  BY Counts, AlongThePath
<1>4. PICK p : p = Put(q, x)
  OBVIOUS
<1>5. /\ Closed(p) <=> Closed(q)
      /\ Closed(q) => p = q
      /\ ~Closed(q) => Len(p) = Len(q) + 1 /\ Fill(p) = Fill(q) + 1
      /\ \A n \in Nat : Carries(q, n) /\ x = n + Len(q) + 1 => Carries(p, n)
  BY <1>1, <1>2, <1>4, PutFrame
<1>6. net'[s][d] = p /\ \A j \in Links : j # s => net'[j][d] = net[j][d]
  BY <1>1, <1>4 DEF TypesOK
<1>7. Path' = Path /\ s' = s /\ Sink(d)' = Sink(d)
  BY DEF Path, Source, Sink
<1>8. ASSUME ~Closed(q) PROVE e[s] + Len(q) = sent[d] /\ Fill(q) = Len(q)
  BY <1>1, <1>8, Counts DEF InOrder, EndsFlow
<1>9. Carries(p, e[s])
  BY <1>1, <1>2, <1>3, <1>5, <1>8 DEF InOrder, LinksFlow
<1>10. LinksFlow(d, e)'
  <2>1. ASSUME NEW j \in 0..hops
        PROVE  Carries(net'[j][d], e[j]) /\ e[j] + Fill(net'[j][d]) <= sent'[d]
    <3>1. e[j] + Fill(net[j][d]) <= sent[d] /\ Carries(net[j][d], e[j])
      BY DEF InOrder, LinksFlow
    <3>2. CASE j = s /\ ~Closed(q)
      <4>1. Fill(net'[j][d]) = Fill(q) + 1
        BY <1>5, <1>6, <3>2
      <4>2. QED
        BY <1>2, <1>3, <1>6, <1>9, <3>1, <3>2, <4>1
    <3>3. CASE j # s \/ Closed(q)
      <4>1. net'[j][d] = net[j][d]
        BY <1>3, <1>5, <1>6, <3>3
      <4>2. QED
        BY <1>2, <1>3, <3>1, <4>1
    <3>4. QED
      BY <3>2, <3>3
  <2>2. ASSUME NEW j \in 0..hops, NEW k \in 0..hops, Before(d, j, k)
        PROVE  e[k] + Fill(net'[k][d]) <= e[j]
    <3>1. k # s
      BY <2>2, AlongThePath
    <3>2. net'[k][d] = net[k][d]
      BY <1>3, <1>6, <3>1
    <3>3. QED
      BY <2>2, <3>2 DEF InOrder, LinksFlow
  <2>3. QED
    BY <1>7, <2>1, <2>2 DEF LinksFlow
<1>11. EndsFlow(d, e)'
  <2>1. ASSUME ~Closed(net'[s][d]) PROVE e[s] + Len(net'[s][d]) = sent'[d]
    <3>1. ~Closed(q) /\ Len(net'[s][d]) = Len(q) + 1
      BY <1>5, <1>6, <2>1
    <3>2. QED
      BY <1>1, <1>2, <1>3, <1>8, <3>1
  <2>2. QED
    BY <1>7, <2>1 DEF InOrder, EndsFlow
<1>12. ASSUME NEW g \in Path PROVE RelayFlow(g, d, e)'
  <2>1. From(g, d)' = From(g, d) /\ To(g, d)' = To(g, d) /\ To(g, d) # s /\ To(g, d) \in 0..hops
    BY AlongThePath DEF From, To
  <2>2. net'[To(g, d)][d] = net[To(g, d)][d] /\ Held(g, d)' = Held(g, d)
    BY <1>3, <1>6, <2>1 DEF Held
  <2>3. QED
    BY <2>1, <2>2 DEF InOrder, RelayFlow
<1>13. QED
  BY <1>7, <1>10, <1>11, <1>12 DEF InOrder

\* The other end receives the next frame.
LEMMA FlowExits ==
  ASSUME TypesOK, NEW d \in Dirs, NEW e \in [Links -> Nat], InOrder(d, e),
         NEW f, f = [e EXCEPT ![Sink(d)] = @ + 1],
         HasFrame(net[Sink(d)][d]), UNCHANGED <<hops, sent, hand, stage>>,
         net' = [net EXCEPT ![Sink(d)][d] = Tail(@)],
         got' = [got EXCEPT ![d] = Append(@, Head(net[Sink(d)][d]))]
  PROVE  f \in [Links -> Nat] /\ InOrder(d, f)'
<1> DEFINE i == Sink(d)
           q == net[i][d]
<1>1. i \in 0..hops /\ i \in Links /\ q \in Queue
  BY AlongThePath, Counts
<1>2. /\ Head(q) \in Frame /\ Tail(q) \in Queue /\ (Closed(Tail(q)) <=> Closed(q))
      /\ Len(Tail(q)) = Len(q) - 1 /\ Fill(q) >= 1 /\ Fill(Tail(q)) = Fill(q) - 1
      /\ \A n \in Nat : Carries(q, n) => Head(q) = n + 1 /\ Carries(Tail(q), n + 1)
  BY <1>1, TakeOne
<1>3. \A j \in 0..hops : j \in Links /\ e[j] \in Nat /\ Fill(net[j][d]) \in Nat /\ Len(net[j][d]) \in Nat
  BY Counts, AlongThePath
<1>4. f \in [Links -> Nat] /\ f[i] = e[i] + 1 /\ \A j \in Links : j # i => f[j] = e[j]
  BY <1>1, <1>3
<1>5. net'[i][d] = Tail(q) /\ \A j \in Links : j # i => net'[j][d] = net[j][d]
  BY <1>1 DEF TypesOK
<1>6. got'[d] = Append(got[d], Head(q)) /\ got[d] \in Seq(Nat) /\ Head(q) \in Nat
  <2>1. got' = [got EXCEPT ![d] = Append(got[d], Head(q))] /\ got \in [Dirs -> Seq(Nat)]
    BY DEF TypesOK
  <2>2. Head(q) \in Nat
    BY <1>2, FramesCount
  <2> HIDE DEF q
  <2>3. QED
    BY <2>1, <2>2
<1>7. Head(q) = e[i] + 1 /\ Carries(Tail(q), e[i] + 1) /\ e[i] + Fill(q) <= sent[d] /\ sent[d] \in Nat
  BY <1>1, <1>2, <1>3, Counts DEF InOrder, LinksFlow
<1>8. Path' = Path /\ Source(d)' = Source(d) /\ i' = i /\ sent'[d] = sent[d]
  BY DEF Path, Source, Sink
<1>9. LinksFlow(d, f)'
  <2>1. ASSUME NEW j \in 0..hops
        PROVE  Carries(net'[j][d], f[j]) /\ f[j] + Fill(net'[j][d]) <= sent[d]
    <3>1. CASE j = i
      <4>1. f[j] = e[i] + 1 /\ net'[j][d] = Tail(q)
        BY <1>4, <1>5, <3>1
      <4>2. (e[i] + 1) + (Fill(q) - 1) <= sent[d]
        BY <1>1, <1>3, <1>7
      <4>3. QED
        BY <1>2, <1>7, <4>1, <4>2
    <3>2. CASE j # i
      BY <1>3, <1>4, <1>5, <3>2 DEF InOrder, LinksFlow
    <3>3. QED
      BY <3>1, <3>2
  <2>2. ASSUME NEW j \in 0..hops, NEW k \in 0..hops, Before(d, j, k)
        PROVE  f[k] + Fill(net'[k][d]) <= f[j]
    <3>1. e[k] + Fill(net[k][d]) <= e[j] /\ j # k
      BY <2>2, AlongThePath DEF InOrder, LinksFlow
    <3>2. f[k] + Fill(net'[k][d]) = e[k] + Fill(net[k][d])
      <4>1. CASE k = i
        <5>1. f[k] = e[i] + 1 /\ Fill(net'[k][d]) = Fill(q) - 1
          BY <1>2, <1>4, <1>5, <4>1
        <5>2. QED
          BY <1>1, <1>3, <4>1, <5>1
      <4>2. CASE k # i
        BY <1>3, <1>4, <1>5, <4>2
      <4>3. QED
        BY <4>1, <4>2
    <3>3. e[j] <= f[j]
      BY <1>3, <1>4
    <3>4. QED
      BY <1>3, <1>4, <3>1, <3>2, <3>3
  <2>3. QED
    BY <1>8, <2>1, <2>2 DEF LinksFlow
<1>10. EndsFlow(d, f)'
  <2>1. e[i] = Len(got[d]) /\ \A k \in 1..Len(got[d]) : got[d][k] = k
    BY DEF InOrder, EndsFlow
  <2>2. f[i] = Len(got'[d])
    BY <1>4, <1>6, <2>1
  <2>3. \A k \in 1..Len(got'[d]) : got'[d][k] = k
    BY <1>6, <1>7, <2>1
  <2>4. ASSUME ~Closed(net'[Source(d)][d])
        PROVE  f[Source(d)] + Len(net'[Source(d)][d]) = sent[d]
    <3>1. CASE Source(d) = i
      <4>1. ~Closed(q) /\ f[i] = e[i] + 1 /\ Len(net'[i][d]) = Len(q) - 1
        BY <1>2, <1>4, <1>5, <2>4, <3>1
      <4>2. e[i] + Len(q) = sent[d]
        BY <3>1, <4>1 DEF InOrder, EndsFlow
      <4>3. QED
        BY <1>1, <1>3, <3>1, <4>1, <4>2
    <3>2. CASE Source(d) # i
      BY <1>4, <1>5, <2>4, <3>2, AlongThePath DEF InOrder, EndsFlow
    <3>3. QED
      BY <3>1, <3>2
  <2>5. QED
    BY <1>8, <2>2, <2>3, <2>4 DEF EndsFlow
<1>11. ASSUME NEW g \in Path PROVE RelayFlow(g, d, f)'
  <2>1. /\ From(g, d)' = From(g, d) /\ To(g, d)' = To(g, d)
        /\ From(g, d) # i /\ From(g, d) \in 0..hops /\ To(g, d) \in 0..hops
    BY AlongThePath DEF From, To
  <2>2. /\ f[From(g, d)] = e[From(g, d)] /\ Held(g, d)' = Held(g, d)
        /\ Closed(net'[To(g, d)][d]) <=> Closed(net[To(g, d)][d])
    BY <1>2, <1>3, <1>4, <1>5, <2>1 DEF Held
  <2>3. f[To(g, d)] + Len(net'[To(g, d)][d]) = e[To(g, d)] + Len(net[To(g, d)][d])
    <3>1. CASE To(g, d) = i
      <4>1. f[To(g, d)] = e[i] + 1 /\ Len(net'[To(g, d)][d]) = Len(q) - 1
        BY <1>2, <1>4, <1>5, <3>1
      <4>2. QED
        BY <1>1, <1>3, <3>1, <4>1
    <3>2. CASE To(g, d) # i
      BY <1>3, <1>4, <1>5, <2>1, <3>2
    <3>3. QED
      BY <3>1, <3>2
  <2>4. QED
    BY <2>1, <2>2, <2>3 DEF InOrder, RelayFlow
<1>12. QED
  BY <1>4, <1>8, <1>9, <1>10, <1>11 DEF InOrder

-----------------------------------------------------------------------------
(* A tunnel that ends in order hands over everything.                      *)

\* Taking a frame loses none of those before a close.
LEMMA WholeTakes ==
  ASSUME TypesOK, NEW d \in Dirs, NEW e \in [Links -> Nat], Whole(d, e),
         NEW h \in Path, NEW f, f = [e EXCEPT ![From(h, d)] = @ + 1],
         HasFrame(net[From(h, d)][d]), UNCHANGED <<hops, sent, ended>>,
         net' = [net EXCEPT ![From(h, d)][d] = Tail(@)],
         hand' = [hand EXCEPT ![h][d] = Head(net[From(h, d)][d])]
  PROVE  Whole(d, f)'
<1> DEFINE i == From(h, d)
           q == net[i][d]
<1>1. i \in 0..hops /\ i \in Links /\ q \in Queue
  BY AlongThePath, Counts
<1>2. /\ Closed(Tail(q)) <=> Closed(q)
      /\ Len(Tail(q)) = Len(q) - 1 /\ Fill(Tail(q)) = Fill(q) - 1 /\ ~AtClose(q)
  BY SMTT(30), <1>1, TakeOne, QueueFacts
<1>3. \A j \in 0..hops : j \in Links /\ e[j] \in Nat /\ Fill(net[j][d]) \in Nat /\ Len(net[j][d]) \in Nat
  BY Counts, AlongThePath
<1>4. f[i] = e[i] + 1 /\ \A j \in Links : j # i => f[j] = e[j]
  BY <1>1, <1>3
<1>5. net'[i][d] = Tail(q) /\ \A j \in Links : j # i => net'[j][d] = net[j][d]
  BY <1>1 DEF TypesOK
<1>6. \A g \in Relays : g # h => hand'[g][d] = hand[g][d]
  BY PathPlaces DEF TypesOK
<1>7. Path' = Path /\ sent'[d] = sent[d]
  BY DEF Path
<1>8. ASSUME NEW j \in 0..hops
      PROVE  /\ Closed(net'[j][d]) <=> Closed(net[j][d])
             /\ f[j] + Fill(net'[j][d]) = e[j] + Fill(net[j][d])
             /\ f[j] + Len(net'[j][d]) = e[j] + Len(net[j][d])
  <2>1. CASE j = i
    <3>1. /\ f[j] = e[i] + 1 /\ Len(net'[j][d]) = Len(q) - 1 /\ Fill(net'[j][d]) = Fill(q) - 1
          /\ Closed(net'[j][d]) <=> Closed(q)
      BY <1>2, <1>4, <1>5, <2>1
    <3>2. e[i] \in Nat /\ Fill(q) \in Nat /\ Len(q) \in Nat
      BY <1>1, <1>3
    <3>3. /\ (e[i] + 1) + (Fill(q) - 1) = e[i] + Fill(q)
          /\ (e[i] + 1) + (Len(q) - 1) = e[i] + Len(q)
      <4> HIDE DEF i, q
      <4>1. QED
        BY <3>2
    <3>4. QED
      BY <2>1, <3>1, <3>3
  <2>2. CASE j # i
    <3>1. j \in Links
      BY <1>3
    <3>2. f[j] = e[j] /\ net'[j][d] = net[j][d]
      BY <1>4, <1>5, <2>2, <3>1
    <3>3. QED
      BY <3>2
  <2>3. QED
    BY <2>1, <2>2
<1>9. ASSUME NEW j \in 0..hops, Closed(net'[j][d]) PROVE f[j] + Fill(net'[j][d]) = sent[d]
  BY <1>8, <1>9 DEF Whole
<1>10. ASSUME NEW g \in Path, ended[g]
       PROVE  /\ AtClose(net'[From(g, d)][d]) /\ hand'[g][d] = 0
              /\ ~Closed(net'[To(g, d)][d]) => f[From(g, d)] = f[To(g, d)] + Len(net'[To(g, d)][d])
  <2>1. /\ AtClose(net[From(g, d)][d]) /\ hand[g][d] = 0
        /\ ~Closed(net[To(g, d)][d]) => e[From(g, d)] = e[To(g, d)] + Len(net[To(g, d)][d])
    BY <1>10 DEF Whole
  <2>2. From(g, d) # i /\ g # h /\ From(g, d) \in 0..hops /\ To(g, d) \in 0..hops /\ g \in Relays
    BY <1>2, <2>1, AlongThePath, PathPlaces
  <2>3. f[From(g, d)] = e[From(g, d)] /\ net'[From(g, d)][d] = net[From(g, d)][d]
    BY <1>3, <1>4, <1>5, <2>2
  <2>4. QED
    BY <1>6, <1>8, <2>1, <2>2, <2>3
<1>11. QED
  BY <1>7, <1>9, <1>10 DEF Whole, From, To

\* Nor does sending it.
LEMMA WholeSends ==
  ASSUME TypesOK, NEW d \in Dirs, NEW e \in [Links -> Nat], Whole(d, e),
         NEW h \in Path, hand[h][d] # 0, UNCHANGED <<hops, sent, ended>>,
         net' = [net EXCEPT ![To(h, d)][d] = Put(@, hand[h][d])],
         hand' = [hand EXCEPT ![h][d] = 0]
  PROVE  Whole(d, e)'
<1> DEFINE o == To(h, d)
           q == net[o][d]
<1>1. o \in 0..hops /\ o \in Links /\ q \in Queue /\ hand[h][d] \in Frame
  BY AlongThePath, Counts, PathPlaces DEF TypesOK
<1>2. PICK p : p = Put(q, hand[h][d])
  OBVIOUS
<1>3. (Closed(p) <=> Closed(q)) /\ (Closed(q) => p = q)
  BY <1>1, <1>2, PutFrame
<1>4. net'[o][d] = p /\ \A j \in Links : j # o => net'[j][d] = net[j][d]
  BY <1>1, <1>2 DEF TypesOK
<1>5. \A g \in Relays : g # h => hand'[g][d] = hand[g][d]
  BY PathPlaces DEF TypesOK
<1>6. Path' = Path /\ sent'[d] = sent[d]
  BY DEF Path
<1>7. \A j \in 0..hops : Closed(net'[j][d]) => net'[j][d] = net[j][d]
  BY <1>3, <1>4, AlongThePath
<1>8. ASSUME NEW j \in 0..hops, Closed(net'[j][d]) PROVE e[j] + Fill(net'[j][d]) = sent[d]
  BY <1>7, <1>8 DEF Whole
<1>9. ASSUME NEW g \in Path, ended[g]
      PROVE  /\ AtClose(net'[From(g, d)][d]) /\ hand'[g][d] = 0
             /\ ~Closed(net'[To(g, d)][d]) => e[From(g, d)] = e[To(g, d)] + Len(net'[To(g, d)][d])
  <2>1. /\ AtClose(net[From(g, d)][d]) /\ hand[g][d] = 0
        /\ ~Closed(net[To(g, d)][d]) => e[From(g, d)] = e[To(g, d)] + Len(net[To(g, d)][d])
    BY <1>9 DEF Whole
  <2>2. g # h /\ From(g, d) \in 0..hops /\ To(g, d) \in 0..hops /\ To(g, d) # o /\ g \in Relays
    BY <2>1, AlongThePath, PathPlaces
  <2>3. net'[To(g, d)][d] = net[To(g, d)][d]
    BY <1>4, <2>2, AlongThePath
  <2>4. net'[From(g, d)][d] = net[From(g, d)][d]
    <3>1. net[From(g, d)][d] \in Queue
      BY <2>2, Counts
    <3>2. Closed(net[From(g, d)][d])
      BY <2>1, <3>1, QueueFacts
    <3>3. QED
      BY <1>3, <1>4, <2>2, <3>2, AlongThePath
  <2>5. QED
    BY <1>5, <2>1, <2>2, <2>3, <2>4
<1>10. QED
  BY <1>6, <1>8, <1>9 DEF Whole, From, To

\* Nor does receiving it at the end.
LEMMA WholeExits ==
  ASSUME TypesOK, NEW d \in Dirs, NEW e \in [Links -> Nat], Whole(d, e),
         NEW f, f = [e EXCEPT ![Sink(d)] = @ + 1],
         HasFrame(net[Sink(d)][d]), UNCHANGED <<hops, sent, hand, ended>>,
         net' = [net EXCEPT ![Sink(d)][d] = Tail(@)]
  PROVE  Whole(d, f)'
<1> DEFINE i == Sink(d)
           q == net[i][d]
<1>1. i \in 0..hops /\ i \in Links /\ q \in Queue
  BY AlongThePath, Counts
<1>2. /\ Closed(Tail(q)) <=> Closed(q)
      /\ Len(Tail(q)) = Len(q) - 1 /\ Fill(Tail(q)) = Fill(q) - 1
  BY <1>1, TakeOne
<1>3. \A j \in 0..hops : j \in Links /\ e[j] \in Nat /\ Fill(net[j][d]) \in Nat /\ Len(net[j][d]) \in Nat
  BY Counts, AlongThePath
<1>4. f[i] = e[i] + 1 /\ \A j \in Links : j # i => f[j] = e[j]
  BY <1>1, <1>3
<1>5. net'[i][d] = Tail(q) /\ \A j \in Links : j # i => net'[j][d] = net[j][d]
  BY <1>1 DEF TypesOK
<1>6. Path' = Path /\ sent'[d] = sent[d]
  BY DEF Path
<1>7. ASSUME NEW j \in 0..hops
      PROVE  /\ Closed(net'[j][d]) <=> Closed(net[j][d])
             /\ f[j] + Fill(net'[j][d]) = e[j] + Fill(net[j][d])
             /\ f[j] + Len(net'[j][d]) = e[j] + Len(net[j][d])
  <2>1. CASE j = i
    <3>1. /\ f[j] = e[i] + 1 /\ Len(net'[j][d]) = Len(q) - 1 /\ Fill(net'[j][d]) = Fill(q) - 1
          /\ Closed(net'[j][d]) <=> Closed(q)
      BY <1>2, <1>4, <1>5, <2>1
    <3>2. e[i] \in Nat /\ Fill(q) \in Nat /\ Len(q) \in Nat
      BY <1>1, <1>3
    <3>3. /\ (e[i] + 1) + (Fill(q) - 1) = e[i] + Fill(q)
          /\ (e[i] + 1) + (Len(q) - 1) = e[i] + Len(q)
      <4> HIDE DEF i, q
      <4>1. QED
        BY <3>2
    <3>4. QED
      BY <2>1, <3>1, <3>3
  <2>2. CASE j # i
    <3>1. j \in Links
      BY <1>3
    <3>2. f[j] = e[j] /\ net'[j][d] = net[j][d]
      BY <1>4, <1>5, <2>2, <3>1
    <3>3. QED
      BY <3>2
  <2>3. QED
    BY <2>1, <2>2
<1>8. ASSUME NEW j \in 0..hops, Closed(net'[j][d]) PROVE f[j] + Fill(net'[j][d]) = sent[d]
  BY <1>7, <1>8 DEF Whole
<1>9. ASSUME NEW g \in Path, ended[g]
      PROVE  /\ AtClose(net'[From(g, d)][d]) /\ hand[g][d] = 0
             /\ ~Closed(net'[To(g, d)][d]) => f[From(g, d)] = f[To(g, d)] + Len(net'[To(g, d)][d])
  <2>1. /\ AtClose(net[From(g, d)][d]) /\ hand[g][d] = 0
        /\ ~Closed(net[To(g, d)][d]) => e[From(g, d)] = e[To(g, d)] + Len(net[To(g, d)][d])
    BY <1>9 DEF Whole
  <2>2. From(g, d) # i /\ From(g, d) \in 0..hops /\ To(g, d) \in 0..hops
    BY AlongThePath
  <2>3. f[From(g, d)] = e[From(g, d)] /\ net'[From(g, d)][d] = net[From(g, d)][d]
    BY <1>3, <1>4, <1>5, <2>2
  <2>4. QED
    BY <1>7, <2>1, <2>2, <2>3
<1>10. QED
  BY <1>6, <1>8, <1>9 DEF Whole, From, To

\* A task that returns at a close has handed over what came before it.
LEMMA WholeReturns ==
  ASSUME TypesOK, NEW d \in Dirs, NEW e \in [Links -> Nat], InOrder(d, e), Whole(d, e),
         NEW h \in Path, stage[h] = "pumping", hand[h][d] = 0, AtClose(net[From(h, d)][d]),
         ended' = [ended EXCEPT ![h] = TRUE], UNCHANGED <<hops, sent, hand, net>>
  PROVE  Whole(d, e)'
<1>1. \A g \in Path : g # h => ended'[g] = ended[g]
  BY PathPlaces DEF TypesOK
<1>2. ASSUME ~Closed(net[To(h, d)][d])
      PROVE  e[From(h, d)] = e[To(h, d)] + Len(net[To(h, d)][d])
  <2>1. e[From(h, d)] = e[To(h, d)] + Len(net[To(h, d)][d]) + 0
    BY <1>2 DEF InOrder, RelayFlow, Held
  <2>2. e[To(h, d)] \in Nat /\ Len(net[To(h, d)][d]) \in Nat
    BY AlongThePath, Counts
  <2>3. QED
    BY <2>1, <2>2
<1>3. \A g \in Path : ended'[g] =>
        /\ AtClose(net[From(g, d)][d]) /\ hand[g][d] = 0
        /\ ~Closed(net[To(g, d)][d]) => e[From(g, d)] = e[To(g, d)] + Len(net[To(g, d)][d])
  BY <1>1, <1>2 DEF Whole
<1>4. QED
  BY <1>3 DEF Whole, Path, From, To

\* A relay that was told of the end closes what it has filled.
LEMMA WholeCloses ==
  ASSUME TypesOK, NEW d \in Dirs, NEW e \in [Links -> Nat], Whole(d, e),
         NEW h \in Path, ended[h], UNCHANGED <<hops, sent, ended>>,
         \A g \in Path : hand'[g][d] = hand[g][d] \/ hand'[g][d] = 0,
         \A i \in 0..hops : i # To(h, d) => net'[i][d] = net[i][d],
         \/ net'[To(h, d)][d] = net[To(h, d)][d]
         \/ \E code \in Nat : code >= 1000 /\ net'[To(h, d)][d] = Put(net[To(h, d)][d], code)
  PROVE  Whole(d, e)'
<1> DEFINE o == To(h, d)
           q == net[o][d]
<1>1. /\ o \in 0..hops /\ q \in Queue /\ From(h, d) \in 0..hops /\ e[o] \in Nat /\ Len(q) \in Nat
      /\ ~Closed(q) => Fill(q) = Len(q)
  BY AlongThePath, Counts
<1>2. Fill(net'[o][d]) = Fill(q) /\ (Closed(q) => net'[o][d] = q)
      /\ (~Closed(net'[o][d]) => net'[o][d] = q)
  BY <1>1, PutClose
<1>3. /\ AtClose(net[From(h, d)][d])
      /\ ~Closed(q) => e[From(h, d)] = e[o] + Len(q)
  BY DEF Whole
<1>4. e[From(h, d)] = sent[d]
  <2>1. net[From(h, d)][d] \in Queue /\ e[From(h, d)] \in Nat
    BY <1>1, Counts
  <2>2. Closed(net[From(h, d)][d]) /\ Fill(net[From(h, d)][d]) = 0
    BY <1>3, <2>1, QueueFacts
  <2>3. e[From(h, d)] + 0 = sent[d]
    BY <1>1, <2>2 DEF Whole
  <2>4. QED
    BY <2>1, <2>3
<1>5. ASSUME NEW j \in 0..hops, Closed(net'[j][d]) PROVE e[j] + Fill(net'[j][d]) = sent[d]
  <2>1. CASE j = o /\ ~Closed(q)
    BY <1>1, <1>2, <1>3, <1>4, <2>1
  <2>2. CASE j # o \/ Closed(q)
    BY <1>2, <1>5, <2>2 DEF Whole
  <2>3. QED
    BY <2>1, <2>2
<1>6. ASSUME NEW g \in Path, ended[g]
      PROVE  /\ AtClose(net'[From(g, d)][d]) /\ hand'[g][d] = 0
             /\ ~Closed(net'[To(g, d)][d]) => e[From(g, d)] = e[To(g, d)] + Len(net'[To(g, d)][d])
  <2>1. /\ AtClose(net[From(g, d)][d]) /\ hand[g][d] = 0
        /\ ~Closed(net[To(g, d)][d]) => e[From(g, d)] = e[To(g, d)] + Len(net[To(g, d)][d])
    BY <1>6 DEF Whole
  <2>2. From(g, d) \in 0..hops /\ To(g, d) \in 0..hops
    BY AlongThePath
  <2>3. Closed(net[From(g, d)][d])
    BY <2>1, <2>2, Counts, QueueFacts
  <2>4. net'[From(g, d)][d] = net[From(g, d)][d]
    BY <1>2, <2>2, <2>3
  <2>5. ~Closed(net'[To(g, d)][d]) => net'[To(g, d)][d] = net[To(g, d)][d]
    BY <1>2, <2>2
  <2>6. QED
    BY <2>1, <2>4, <2>5
<1>7. Path' = Path /\ sent'[d] = sent[d]
  BY DEF Path
<1>8. QED
  BY <1>5, <1>6, <1>7 DEF Whole, From, To

\* An end that closes an open tunnel has sent everything.
LEMMA WholeStarts ==
  ASSUME TypesOK, NEW d \in Dirs, NEW e \in [Links -> Nat], InOrder(d, e),
         \A h \in Path : ~ended[h], \A i \in 0..hops : ~Closed(net[i][d]),
         UNCHANGED <<hops, sent, ended>>, NEW code \in Nat, code >= 1000,
         net' = [net EXCEPT ![Source(d)][d] = Put(@, code)]
  PROVE  Whole(d, e)'
<1>1. Source(d) \in 0..hops /\ Source(d) \in Links
  BY AlongThePath
<1>2. net' = [net EXCEPT ![Source(d)][d] = Put(net[Source(d)][d], code)] /\ net[Source(d)][d] \in Queue
  BY <1>1, Counts
<1>3. net'[Source(d)][d] = Put(net[Source(d)][d], code) /\ \A i \in Links : i # Source(d) => net'[i][d] = net[i][d]
  BY <1>1, <1>2 DEF TypesOK
<1>4. Fill(net'[Source(d)][d]) = Fill(net[Source(d)][d])
  BY <1>2, <1>3, PutClose
<1>5. e[Source(d)] + Fill(net[Source(d)][d]) = sent[d]
  BY <1>1, Counts DEF InOrder, EndsFlow
<1>6. \A i \in 0..hops : Closed(net'[i][d]) => i = Source(d)
  BY <1>3, AlongThePath
<1>7. e[Source(d)] + Fill(net'[Source(d)][d]) = sent[d]
  BY <1>4, <1>5
<1>8. \A i \in 0..hops : Closed(net'[i][d]) => e[i] + Fill(net'[i][d]) = sent[d]
  BY <1>6, <1>7
<1>9. QED
  BY <1>8 DEF Whole, Path

\* Nothing in this direction changes.
LEMMA WholeSame ==
  ASSUME TypesOK, NEW d \in Dirs, NEW e \in [Links -> Nat], Whole(d, e),
         hops' = hops, sent'[d] = sent[d],
         \A i \in 0..hops : net'[i][d] = net[i][d],
         \A h \in Path : ended'[h] = ended[h] /\ hand'[h][d] = hand[h][d]
  PROVE  Whole(d, e)'
<1>1. \A h \in Path : From(h, d) \in 0..hops /\ To(h, d) \in 0..hops
  BY AlongThePath
<1>2. Path' = Path
  BY DEF Path
<1>3. \A i \in 0..hops : Closed(net'[i][d]) => e[i] + Fill(net'[i][d]) = sent'[d]
  BY DEF Whole
<1>4. \A h \in Path : ended'[h] =>
        /\ AtClose(net'[From(h, d)][d]) /\ hand'[h][d] = 0
        /\ ~Closed(net'[To(h, d)][d]) => e[From(h, d)] = e[To(h, d)] + Len(net'[To(h, d)][d])
  BY <1>1 DEF Whole
<1>5. QED
  BY <1>2, <1>3, <1>4 DEF Whole, From, To

\* The other direction.
LEMMA BothWays ==
  ASSUME NEW d \in Dirs
  PROVE  /\ Other(d) \in Dirs /\ Other(d) # d
         /\ \A c \in Dirs : c # d => c = Other(d) /\ Other(c) = d
         /\ \A h : From(h, Other(d)) = To(h, d) /\ To(h, Other(d)) = From(h, d)
  BY Directions DEF Other, From, To

\* The end of an orderly tunnel does not come from the far side of a relay.
LEMMA NotFromBelow ==
  ASSUME ChainInv, NEW d \in Dirs, Orderly(d), NEW e \in [Links -> Nat], Whole(d, e),
         NEW h \in Path, stage[h] = "pumping"
  PROVE  ~Closed(net[To(h, d)][Other(d)])
<1>1. TypesOK /\ StagesOK /\ ChainClean
  BY DEF ChainInv, Intact, ChainClean, Orderly
<1>2. CASE d = "down"
  <2>1. client # "left" /\ To(h, d) = h - 1 /\ Other(d) = "up"
    BY <1>2 DEF Orderly, To, Other
  <2>2. ~Closed(net[h - 1].up)
    BY <1>1, <2>1, OpenBelow
  <2>3. QED
    BY <2>1, <2>2
<1>3. CASE d = "up"
  <2>1. To(h, d) = h /\ Other(d) = "down" /\ core \in {"absent", "open"} /\ ~Refusal
    BY <1>3 DEF Orderly, To, Other
  <2>2. ASSUME Closed(net[h].down) PROVE FALSE
    <3>1. h # hops
      BY <1>1, <2>1, <2>2 DEF ChainClean, DownCloses
    <3>2. h + 1 \in Path /\ h + 1 \in Relays /\ (h + 1) - 1 = h
      BY <1>1, <3>1, PathPlaces
    <3>3. stage[h + 1] = "done"
      BY <1>1, <2>2, <3>2 DEF ChainClean, DownCloses
    <3>4. Dialled(h + 1)
      BY <2>1, <3>2, <3>3 DEF Refusal, Refused
    <3>5. ended[h + 1]
      BY <1>1, <3>2, <3>3, <3>4 DEF StagesOK
    <3>6. AtClose(net[h].up)
      BY <1>3, <3>2, <3>5 DEF Whole, From
    <3>7. Closed(net[h].up)
      <4>1. net[h]["up"] \in Queue
        BY <1>1, PathPlaces, Directions DEF TypesOK
      <4>2. QED
        BY <3>6, <4>1, QueueFacts
    <3>8. QED
      BY <1>1, <3>7 DEF ChainClean, UpCloses
  <2>3. QED
    BY <2>1, <2>2
<1>4. QED
  BY <1>2, <1>3, Directions

\* When all that was said against an orderly end has arrived, no relay still
\* holds some of it.
LEMMA NothingHeld ==
  ASSUME ChainInv, NEW d \in Dirs, Orderly(d), NEW g \in [Links -> Nat], InOrder(Other(d), g),
         NEW h \in Path, stage[h] = "pumping"
  PROVE  hand[h][Other(d)] = 0
<1> DEFINE o == Other(d)
<1>1. TypesOK /\ StagesOK /\ ChainClean /\ o \in Dirs
  BY BothWays DEF ChainInv, Intact, ChainClean, Orderly
<1>2. ~Closed(net[To(h, o)][o])
  <2>1. CASE d = "down"
    BY <1>1, <2>1 DEF ChainClean, UpCloses, To, Other
  <2>2. CASE d = "up"
    BY <1>1, <2>2 DEF ChainClean, DownCloses, To, Other
  <2>3. QED
    BY <2>1, <2>2, Directions
<1>3. Len(got[o]) = sent[o]
  BY DEF Orderly, Drained
<1> HIDE DEF o
<1>4. /\ From(h, o) \in 0..hops /\ To(h, o) \in 0..hops /\ Sink(o) \in 0..hops
      /\ To(h, o) # Sink(o) => Before(o, To(h, o), Sink(o))
  BY <1>1, AlongThePath
<1>5. /\ g[From(h, o)] \in Nat /\ g[To(h, o)] \in Nat /\ g[Sink(o)] \in Nat
      /\ Fill(net[From(h, o)][o]) \in Nat /\ Fill(net[Sink(o)][o]) \in Nat
      /\ Len(net[To(h, o)][o]) \in Nat /\ sent[o] \in Nat
  BY <1>1, <1>4, Counts
<1>6. InOrder(o, g)
  BY DEF o
<1>7. g[From(h, o)] <= sent[o]
  <2>1. g[From(h, o)] + Fill(net[From(h, o)][o]) <= sent[o]
    BY <1>4, <1>6 DEF InOrder, LinksFlow
  <2>2. QED
    BY <1>5, <2>1
<1>8. sent[o] <= g[To(h, o)]
  <2>1. g[Sink(o)] = sent[o]
    BY <1>3, <1>6 DEF InOrder, EndsFlow
  <2>2. CASE To(h, o) = Sink(o)
    BY <1>5, <2>1, <2>2
  <2>3. CASE To(h, o) # Sink(o)
    <3>1. g[Sink(o)] + Fill(net[Sink(o)][o]) <= g[To(h, o)]
      BY <1>4, <1>6, <2>3 DEF InOrder, LinksFlow
    <3>2. QED
      BY <1>5, <2>1, <3>1
  <2>4. QED
    BY <2>2, <2>3
<1>9. ASSUME hand[h][o] # 0 PROVE FALSE
  <2>1. g[From(h, o)] = g[To(h, o)] + Len(net[To(h, o)][o]) + 1
    BY <1>2, <1>6, <1>9 DEF InOrder, RelayFlow, Held
  <2>2. QED
    BY <1>5, <1>7, <1>8, <2>1
<1>10. QED
  BY <1>9 DEF o

\* A task of a relay takes a frame, sends it or returns.
LEMMA TaskFlow ==
  ASSUME ChainInv, TypesOK', NEW d \in Dirs, Flows(d), Flows(Other(d)),
         NEW h \in Relays, NEW c \in Dirs, Task(h, c)
  PROVE  Flows(d)'
<1>1. PICK e \in [Links -> Nat] : Flow(d, e)
  BY DEF Flows
<1>2. PICK g \in [Links -> Nat] : Flow(Other(d), g)
  BY DEF Flows
<1>3. TypesOK /\ StagesOK /\ InOrder(d, e) /\ InOrder(Other(d), g) /\ (Orderly(d) => Whole(d, e))
  BY <1>1, <1>2 DEF ChainInv, Flow
<1>4. stage[h] = "pumping" /\ UNCHANGED <<hops, stage, sent, got, core, client, lost>>
  BY DEF Task, Take, MayTake, Send, Return, path, endVars
<1>5. h \in Path
  BY <1>3, <1>4, Places DEF StagesOK, Path, Relays
<1>6. (Orderly(d)' <=> Orderly(d)) /\ Path' = Path
  BY <1>4 DEF Orderly, Drained, Refusal, Refused, Dialled, Path
<1>7. \A k \in Path : k \in Relays
  BY <1>3, PathPlaces
<1>8. \A i \in 0..hops : i \in Links
  BY <1>3, AlongThePath
<1>9. CASE Take(h, c) /\ c = d
  <2>1. PICK f : f = [e EXCEPT ![From(h, d)] = @ + 1]
    OBVIOUS
  <2>2. /\ HasFrame(net[From(h, d)][d]) /\ hand[h][d] = 0 /\ UNCHANGED ended
        /\ net' = [net EXCEPT ![From(h, d)][d] = Tail(@)]
        /\ hand' = [hand EXCEPT ![h][d] = Head(net[From(h, d)][d])]
    BY <1>9 DEF Take, MayTake
  <2>3. f \in [Links -> Nat] /\ InOrder(d, f)'
    BY <1>3, <1>4, <1>5, <2>1, <2>2, FlowTakes
  <2>4. Whole(d, e) => Whole(d, f)'
    BY <1>3, <1>4, <1>5, <2>1, <2>2, WholeTakes
  <2>5. QED
    BY <1>3, <1>6, <2>3, <2>4 DEF Flows, Flow
<1>10. CASE c = d /\ hand[h][d] # 0 /\ UNCHANGED ended
            /\ net' = [net EXCEPT ![To(h, d)][d] = Put(@, hand[h][d])]
            /\ hand' = [hand EXCEPT ![h][d] = 0]
  <2>1. InOrder(d, e)'
    BY <1>3, <1>4, <1>5, <1>10, FlowSends
  <2>2. Whole(d, e) => Whole(d, e)'
    BY <1>3, <1>4, <1>5, <1>10, WholeSends
  <2>3. QED
    BY <1>3, <1>6, <2>1, <2>2 DEF Flows, Flow
<1>11. CASE c # d /\ UNCHANGED ended /\ \A k \in Relays : hand'[k][d] = hand[k][d]
            /\ \A i \in Links : net'[i][d] = net[i][d]
  <2>1. InOrder(d, e)'
    BY <1>3, <1>4, <1>7, <1>8, <1>11, FlowKept
  <2>2. Whole(d, e) => Whole(d, e)'
    BY <1>3, <1>4, <1>7, <1>8, <1>11, WholeSame
  <2>3. QED
    BY <1>3, <1>6, <2>1, <2>2 DEF Flows, Flow
<1>12. CASE ended' = [ended EXCEPT ![h] = TRUE] /\ UNCHANGED <<net, hand>>
            /\ (Send(h, c) \/ Return(h, c))
  <2>1. InOrder(d, e)'
    BY <1>3, <1>4, <1>12, FlowKept
  <2>2. ASSUME Orderly(d) PROVE c = d /\ hand[h][d] = 0 /\ AtClose(net[From(h, d)][d])
    <3>1. ~Closed(net[To(h, d)][Other(d)]) /\ hand[h][Other(d)] = 0
      BY <1>3, <1>4, <1>5, <2>2, NotFromBelow, NothingHeld
    <3>2. CASE Return(h, c)
      <4>1. AtClose(net[From(h, c)][c]) /\ hand[h][c] = 0
        BY <3>2 DEF Return, SeesClose
      <4>2. ASSUME c # d PROVE FALSE
        <5>1. c = Other(d) /\ From(h, c) = To(h, d)
          BY <4>2, BothWays
        <5>2. AtClose(net[To(h, d)][Other(d)])
          BY <4>1, <5>1
        <5>3. net[To(h, d)][Other(d)] \in Queue
          BY SMTT(30), <1>3, Places, BothWays DEF TypesOK
        <5>4. QED
          BY <3>1, <5>2, <5>3, QueueFacts
      <4>3. QED
        BY <4>1, <4>2
    <3>3. CASE Send(h, c)
      <4>1. hand[h][c] # 0
        BY <3>3 DEF Send
      <4>2. Closed(net[To(h, c)][Other(c)])
        <5>1. c = d
          BY <3>1, <4>1, BothWays
        <5>2. \/ net' = [net EXCEPT ![To(h, c)][c] = Put(@, hand[h][c])] /\ hand' = [hand EXCEPT ![h][c] = 0]
              \/ Closed(net[To(h, c)][Other(c)])
          BY <3>3 DEF Send
        <5>3. hand' = hand
          BY <1>12
        <5>4. [hand EXCEPT ![h][c] = 0][h][c] = 0
          BY <1>3 DEF TypesOK
        <5>5. QED
          BY <4>1, <5>2, <5>3, <5>4
      <4>3. QED
        BY <3>1, <4>1, <4>2, BothWays
    <3>4. QED
      BY <1>12, <3>2, <3>3
  <2>3. ASSUME Orderly(d) PROVE Whole(d, e)'
    BY <1>3, <1>4, <1>5, <1>12, <2>2, <2>3, WholeReturns
  <2>4. QED
    BY <1>6, <2>1, <2>3 DEF Flows, Flow
<1>13. QED
  <2>1. CASE Take(h, c)
    <3>1. ASSUME c # d
          PROVE  UNCHANGED ended /\ (\A k \in Relays : hand'[k][d] = hand[k][d])
                 /\ \A i \in Links : net'[i][d] = net[i][d]
      <4>1. /\ UNCHANGED ended
            /\ net' = [net EXCEPT ![From(h, c)][c] = Tail(@)]
            /\ hand' = [hand EXCEPT ![h][c] = Head(net[From(h, c)][c])]
        BY <2>1 DEF Take
      <4>2. QED
        BY <1>3, <3>1, <4>1 DEF TypesOK
    <3>2. QED
      BY <1>9, <1>11, <2>1, <3>1
  <2>2. CASE /\ Send(h, c) /\ UNCHANGED ended
             /\ net' = [net EXCEPT ![To(h, c)][c] = Put(@, hand[h][c])]
             /\ hand' = [hand EXCEPT ![h][c] = 0]
    <3>1. ASSUME c # d
          PROVE  UNCHANGED ended /\ (\A k \in Relays : hand'[k][d] = hand[k][d])
                 /\ \A i \in Links : net'[i][d] = net[i][d]
      BY <1>3, <2>2, <3>1 DEF TypesOK
    <3>2. hand[h][c] # 0
      BY <2>2 DEF Send
    <3>3. QED
      BY <1>10, <1>11, <2>2, <3>1, <3>2
  <2>3. CASE Return(h, c)
    BY <1>12, <2>3 DEF Return
  <2>4. CASE Send(h, c) /\ ended' = [ended EXCEPT ![h] = TRUE] /\ UNCHANGED <<net, hand>>
    BY <1>12, <2>4
  <2>5. QED
    BY <2>1, <2>2, <2>3, <2>4 DEF Task, Send

\* A link is closed in one direction, seen from either.
LEMMA CloseSeen ==
  ASSUME TypesOK, NEW i \in Links, NEW c \in Dirs, NEW code \in Nat, code >= 1000,
         net' = [net EXCEPT ![i][c] = Put(@, code)], NEW d \in Dirs, NEW j \in Links
  PROVE  /\ \/ net'[j][d] = net[j][d]
            \/ /\ Closed(net'[j][d]) /\ Fill(net'[j][d]) = Fill(net[j][d])
               /\ \A n \in Nat : Carries(net[j][d], n) => Carries(net'[j][d], n)
         /\ j # i \/ d # c => net'[j][d] = net[j][d]
         /\ net'[j][d] = net[j][d] \/ net'[j][d] = Put(net[j][d], code)
<1>1. \/ net'[j][d] = net[j][d]
      \/ /\ Closed(net'[j][d]) /\ Fill(net'[j][d]) = Fill(net[j][d])
         /\ \A n \in Nat : Carries(net[j][d], n) => Carries(net'[j][d], n)
  <2>1. CASE j = i /\ d = c
    <3>1. /\ Closed(net'[i][c]) /\ Fill(net'[i][c]) = Fill(net[i][c])
          /\ \A n \in Nat : Carries(net[i][c], n) => Carries(net'[i][c], n)
      BY OneClose
    <3>2. QED
      BY <2>1, <3>1
  <2>2. CASE j # i \/ d # c
    BY <2>2, OneClose
  <2>3. QED
    BY <2>1, <2>2
<1>2. j # i \/ d # c => net'[j][d] = net[j][d]
  BY OneClose
<1>3. net'[j][d] = net[j][d] \/ net'[j][d] = Put(net[j][d], code)
  <2>1. net[i][c] \in Queue
    BY DEF TypesOK
  <2>2. Put(net[i][c], code) \in Queue
    BY <2>1, PutClose
  <2>3. net'[i][c] = Put(net[i][c], code)
    BY ZenonT(60), <2>2, PutAt
  <2>4. QED
    BY <1>2, <2>3
<1>4. QED
  BY <1>1, <1>2, <1>3

\* A relay refuses, dials, cancels its tasks or closes.
LEMMA HandlerFlow ==
  ASSUME ChainInv, TypesOK', NEW d \in Dirs, Flows(d), NEW h \in Relays, Handler(h)
  PROVE  Flows(d)'
<1>1. PICK e \in [Links -> Nat] : Flow(d, e)
  BY DEF Flows
<1>2. TypesOK /\ StagesOK /\ InOrder(d, e) /\ (Orderly(d) => Whole(d, e))
  BY <1>1 DEF ChainInv, Flow
<1>3. UNCHANGED <<hops, ended, sent, got, client, lost>>
  BY DEF Handler, Refuse, Dial, Cancel, CloseClient, path, endVars
<1>4. (\A k \in Path : k \in Relays) /\ (\A i \in 0..hops : i \in Links) /\ "up" \in Dirs /\ "down" \in Dirs
  BY <1>2, PathPlaces, AlongThePath, Directions
<1>5. h \in Links /\ h - 1 \in Links /\ From(h, d) \in Links /\ To(h, d) \in Links
  BY <1>2, Places
<1>6. CASE Refuse(h)
  <2>1. core = "absent" /\ UNCHANGED core /\ Refusal'
    BY <1>2, <1>6, RefuseStages DEF Refuse, endVars
  <2>2. PICK code \in {Rejected, Unavailable} : net' = [net EXCEPT ![h - 1]["down"] = Put(@, code)]
    BY <1>6 DEF Refuse
  <2>3. code \in Nat /\ code >= 1000
    BY <2>2 DEF Rejected, Unavailable
  <2>4. \A i \in Links : \/ net'[i][d] = net[i][d]
                         \/ /\ Closed(net'[i][d]) /\ Fill(net'[i][d]) = Fill(net[i][d])
                            /\ \A n \in Nat : Carries(net[i][d], n) => Carries(net'[i][d], n)
    BY <1>2, <1>4, <1>5, <2>2, <2>3, CloseSeen
  <2>5. \A i \in 0..hops : Fill(net[i][d]) <= Fill(net[i][d])
    BY <1>2, Counts
  <2>6. hand' = hand /\ stage' = [stage EXCEPT ![h] = "done"] /\ stage[h] = "accepted"
    BY <1>6 DEF Refuse
  <2>7. \A k \in Path : stage'[k] \notin {"closing", "done"} => stage[k] \notin {"closing", "done"}
    BY <1>2, <1>4, <2>6 DEF TypesOK
  <2>8. InOrder(d, e)'
    BY <1>2, <1>3, <1>4, <2>4, <2>5, <2>6, <2>7, FlowKept
  <2>9. ~Orderly(d)'
    BY <2>1 DEF Orderly
  <2>10. QED
    BY <2>8, <2>9 DEF Flows, Flow
<1>7. CASE Dial(h)
  <2>1. /\ core = "absent" /\ ~Refusal
        /\ \A k \in Path : stage[k] \in {"closing", "done"} => stage'[k] = stage[k]
    BY <1>2, <1>7, DialStages
  <2>2. UNCHANGED <<net, hand>> /\ core' \in {"absent", "open"}
    BY <1>7, <2>1 DEF Dial
  <2>3. \A k \in Path : stage'[k] \notin {"closing", "done"} => stage[k] \notin {"closing", "done"}
    BY <2>1
  <2>4. InOrder(d, e)'
    BY <1>2, <1>3, <2>2, <2>3, FlowKept
  <2>5. Orderly(d)' => Orderly(d)
    BY <1>3, <2>1, <2>2 DEF Orderly, Drained
  <2>6. Whole(d, e) => Whole(d, e)'
    BY <1>2, <1>3, <2>2, WholeSame
  <2>7. QED
    BY <1>2, <2>4, <2>5, <2>6 DEF Flows, Flow
<1>8. CASE Cancel(h) \/ CloseClient(h)
  <2>1. /\ (Refusal' <=> Refusal) /\ h \in Path /\ ended[h] /\ stage'[h] \in {"closing", "done"}
        /\ \A k \in Relays : k # h => stage'[k] = stage[k]
    BY <1>2, <1>8, CancelStages
  <2>2. Orderly(d)' <=> Orderly(d)
    BY <1>3, <1>8, <2>1 DEF Orderly, Drained, Cancel, CloseClient, endVars
  <2>3. \A k \in Relays : /\ hand'[k][d] = hand[k][d] \/ hand'[k][d] = 0
                          /\ k # h => hand'[k][d] = hand[k][d]
    <3>1. hand' = hand \/ hand' = [hand EXCEPT ![h] = [c \in Dirs |-> 0]]
      BY <1>8 DEF Cancel, CloseClient
    <3>2. QED
      BY <1>2, <3>1 DEF TypesOK
  <2>4. PICK code \in Nat :
          /\ code >= 1000
          /\ \/ net' = [net EXCEPT ![h]["up"] = Put(@, code)]
             \/ net' = [net EXCEPT ![h - 1]["down"] = Put(@, code)]
    <3>1. CloseCode(h) \in Nat /\ CloseCode(h) >= 1000 /\ Normal \in Nat /\ Normal >= 1000
      BY <1>2, CodesClose DEF Normal
    <3>2. \/ net' = [net EXCEPT ![h]["up"] = Put(@, Normal)]
          \/ net' = [net EXCEPT ![h - 1]["down"] = Put(@, CloseCode(h))]
      BY <1>8 DEF Cancel, CloseClient
    <3>3. QED
      BY <3>1, <3>2
  <2>5. \A i \in Links : \/ net'[i][d] = net[i][d]
                         \/ /\ Closed(net'[i][d]) /\ Fill(net'[i][d]) = Fill(net[i][d])
                            /\ \A n \in Nat : Carries(net[i][d], n) => Carries(net'[i][d], n)
    BY <1>2, <1>4, <1>5, <2>4, CloseSeen
  <2>6. \A i \in 0..hops : Fill(net[i][d]) <= Fill(net[i][d])
    BY <1>2, Counts
  <2>7. InOrder(d, e)'
    BY <1>2, <1>3, <1>4, <2>1, <2>3, <2>5, <2>6, FlowKept
  <2>8. /\ \A i \in Links : i # To(h, d) => net'[i][d] = net[i][d]
        /\ net'[To(h, d)][d] = net[To(h, d)][d] \/ net'[To(h, d)][d] = Put(net[To(h, d)][d], code)
    <3>1. \A i \in Links : net'[i][d] = net[i][d] \/ net'[i][d] = Put(net[i][d], code)
      BY <1>2, <1>4, <1>5, <2>4, CloseSeen
    <3>2. \A i \in Links : i # To(h, d) => net'[i][d] = net[i][d]
      <4>1. CASE d = "up"
        <5>1. To(h, d) = h
          BY <4>1 DEF To
        <5>2. QED
          BY <1>2, <1>4, <1>5, <2>4, <4>1, <5>1, CloseSeen
      <4>2. CASE d = "down"
        <5>1. To(h, d) = h - 1
          BY <4>2 DEF To
        <5>2. QED
          BY <1>2, <1>4, <1>5, <2>4, <4>2, <5>1, CloseSeen
      <4>3. QED
        BY <4>1, <4>2, Directions
    <3>3. QED
      BY <1>5, <3>1, <3>2
  <2>9. Whole(d, e) => Whole(d, e)'
    BY <1>2, <1>3, <1>4, <2>1, <2>3, <2>4, <2>8, WholeCloses
  <2>10. QED
    BY <1>2, <2>2, <2>7, <2>9 DEF Flows, Flow
<1>9. QED
  BY <1>6, <1>7, <1>8 DEF Handler

\* A step that only concerns the other direction.
LEMMA OtherWay ==
  ASSUME TypesOK, TypesOK', NEW d \in Dirs, Flows(d), UNCHANGED <<hops, stage, ended, hand>>,
         got'[d] = got[d], sent'[d] = sent[d], \A i \in Links : net'[i][d] = net[i][d],
         Orderly(d)' => Orderly(d)
  PROVE  Flows(d)'
<1>1. PICK e \in [Links -> Nat] : Flow(d, e)
  BY DEF Flows
<1>2. InOrder(d, e) /\ (Orderly(d) => Whole(d, e)) /\ \A i \in 0..hops : i \in Links
  BY <1>1, AlongThePath DEF Flow
<1>3. InOrder(d, e)'
  BY <1>2, FlowKept
<1>4. Whole(d, e) => Whole(d, e)'
  BY <1>2, WholeSame
<1>5. QED
  BY <1>2, <1>3, <1>4 DEF Flows, Flow

\* What arrives are the first of the frames that were sent.
LEMMA Arrived ==
  ASSUME TypesOK, NEW d \in Dirs, Flows(d)
  PROVE  /\ Len(got[d]) \in Nat /\ sent[d] \in Nat /\ Len(got[d]) <= sent[d]
         /\ \A k \in 1..Len(got[d]) : got[d][k] = k
<1>1. PICK e \in [Links -> Nat] : InOrder(d, e)
  BY DEF Flows, Flow
<1>2. Sink(d) \in 0..hops
  BY AlongThePath
<1>3. e[Sink(d)] \in Nat /\ Fill(net[Sink(d)][d]) \in Nat /\ sent[d] \in Nat
  BY <1>2, Counts
<1>4. e[Sink(d)] + Fill(net[Sink(d)][d]) <= sent[d]
  BY <1>1, <1>2 DEF InOrder, LinksFlow
<1>5. e[Sink(d)] = Len(got[d]) /\ \A k \in 1..Len(got[d]) : got[d][k] = k
  BY <1>1 DEF InOrder, EndsFlow
<1>6. QED
  BY <1>3, <1>4, <1>5

\* An end sends a frame.
LEMMA SendsFlow ==
  ASSUME ChainInv, TypesOK', NEW d \in Dirs, Flows(d), Flows(Other(d)), CoreSends \/ ClientSends
  PROVE  Flows(d)'
<1>1. PICK e \in [Links -> Nat] : Flow(d, e)
  BY DEF Flows
<1>2. TypesOK /\ InOrder(d, e) /\ "up" \in Dirs /\ "down" \in Dirs /\ Other(d) \in Dirs
  BY <1>1, Directions, BothWays DEF ChainInv, Flow
<1>3. PICK c \in Dirs :
        /\ c = "down" => core = "open"
        /\ c = "up" => client = "on"
        /\ sent[c] < MaxFrames /\ sent' = [sent EXCEPT ![c] = @ + 1]
        /\ net' = [net EXCEPT ![Source(c)][c] = Put(@, sent[c] + 1)]
        /\ UNCHANGED <<hops, stage, ended, hand, got, core, client, lost>>
  <2>1. CASE CoreSends
    BY <1>2, <2>1 DEF CoreSends, Source, path
  <2>2. CASE ClientSends
    BY <1>2, <2>2 DEF ClientSends, Source, path
  <2>3. QED
    BY <2>1, <2>2
<1>4. CASE c = d
  <2>1. InOrder(d, e)'
    BY <1>2, <1>3, <1>4, FlowEnters
  <2>2. ~Orderly(d)'
    BY <1>3, <1>4, Directions DEF Orderly
  <2>3. QED
    BY <2>1, <2>2 DEF Flows, Flow
<1>5. CASE c # d
  <2>1. c = Other(d)
    BY <1>5, BothWays
  <2>2. Len(got[c]) \in Nat /\ sent[c] \in Nat /\ Len(got[c]) <= sent[c]
    BY <1>2, <2>1, Arrived
  <2>3. sent'[c] = sent[c] + 1 /\ sent'[d] = sent[d]
    BY <1>2, <1>3, <1>5 DEF TypesOK
  <2>4. ~Orderly(d)'
    <3>1. Len(got[c]) # sent[c] + 1
      BY <2>2
    <3>2. QED
      BY <1>3, <2>1, <2>3, <3>1 DEF Orderly, Drained
  <2>5. \A i \in Links : net'[i][d] = net[i][d]
    BY <1>2, <1>3, <1>5 DEF TypesOK
  <2>6. QED
    BY <1>2, <1>3, <2>3, <2>4, <2>5, OtherWay
<1>6. QED
  BY <1>4, <1>5

\* An end receives a frame or sees the close.
LEMMA ReadsFlow ==
  ASSUME ChainInv, TypesOK', NEW d \in Dirs, Flows(d), CoreReads \/ ClientReads
  PROVE  Flows(d)'
<1>1. PICK e \in [Links -> Nat] : Flow(d, e)
  BY DEF Flows
<1>2. TypesOK /\ InOrder(d, e) /\ (Orderly(d) => Whole(d, e)) /\ "up" \in Dirs /\ "down" \in Dirs
  BY <1>1, Directions DEF ChainInv, Flow
<1>3. PICK c \in Dirs :
        /\ c = "up" => core = "open"
        /\ c = "down" => client = "on"
        /\ UNCHANGED <<hops, stage, ended, hand, sent, lost>>
        /\ \/ /\ HasFrame(net[Sink(c)][c])
              /\ got' = [got EXCEPT ![c] = Append(@, Head(net[Sink(c)][c]))]
              /\ net' = [net EXCEPT ![Sink(c)][c] = Tail(@)]
              /\ UNCHANGED <<core, client>>
           \/ /\ UNCHANGED <<got, net>>
              /\ c = "up" => core' = "left"
              /\ c = "down" => client' = "told"
  <2>1. CASE CoreReads
    <3>1. /\ core = "open"
          /\ IF HasFrame(net[Sink("up")]["up"])
             THEN /\ got' = [got EXCEPT !["up"] = Append(@, Head(net[Sink("up")]["up"]))]
                  /\ net' = [net EXCEPT ![Sink("up")]["up"] = Tail(@)]
                  /\ UNCHANGED core
             ELSE core' = "left" /\ UNCHANGED <<got, net>>
          /\ UNCHANGED <<hops, stage, ended, hand, sent, client, lost>>
      BY <2>1 DEF CoreReads, Sink, path
    <3>2. QED
      BY <1>2, <3>1
  <2>2. CASE ClientReads
    <3>1. /\ client = "on"
          /\ IF HasFrame(net[Sink("down")]["down"])
             THEN /\ got' = [got EXCEPT !["down"] = Append(@, Head(net[Sink("down")]["down"]))]
                  /\ net' = [net EXCEPT ![Sink("down")]["down"] = Tail(@)]
                  /\ UNCHANGED client
             ELSE client' = "told" /\ UNCHANGED <<got, net>>
          /\ UNCHANGED <<hops, stage, ended, hand, sent, core, lost>>
      BY <2>2 DEF ClientReads, Sink, path
    <3>2. QED
      BY <1>2, <3>1
  <2>3. QED
    BY <2>1, <2>2
<1>4. CASE c # d
  <2>1. ~Orderly(d)'
    BY <1>3, <1>4, Directions DEF Orderly
  <2>2. got'[d] = got[d]
    BY <1>2, <1>3, <1>4 DEF TypesOK
  <2>3. \A i \in Links : net'[i][d] = net[i][d]
    <3>1. net' = net \/ net' = [net EXCEPT ![Sink(c)][c] = Tail(@)]
      BY <1>3
    <3>2. ASSUME NEW q, net' = [net EXCEPT ![Sink(c)][c] = q]
          PROVE  \A i \in Links : net'[i][d] = net[i][d]
      BY <1>2, <1>4, <3>2 DEF TypesOK
    <3>3. QED
      BY <3>1, <3>2
  <2>4. QED
    BY <1>2, <1>3, <2>1, <2>2, <2>3, OtherWay
<1>5. CASE c = d /\ UNCHANGED <<got, net>> /\ (c = "up" => core' = "left") /\ (c = "down" => client' = "told")
  <2>1. ~Orderly(d)'
    BY <1>5, Directions DEF Orderly
  <2>2. QED
    BY <1>2, <1>3, <1>5, <2>1, OtherWay
<1>6. CASE /\ c = d /\ HasFrame(net[Sink(c)][c])
           /\ got' = [got EXCEPT ![c] = Append(@, Head(net[Sink(c)][c]))]
           /\ net' = [net EXCEPT ![Sink(c)][c] = Tail(@)]
           /\ UNCHANGED <<core, client>>
  <2>1. PICK f : f = [e EXCEPT ![Sink(d)] = @ + 1]
    OBVIOUS
  <2>2. f \in [Links -> Nat] /\ InOrder(d, f)'
    BY <1>2, <1>3, <1>6, <2>1, FlowExits
  <2>3. Whole(d, e) => Whole(d, f)'
    BY <1>2, <1>3, <1>6, <2>1, WholeExits
  <2>4. Orderly(d)' => Orderly(d)
    <3>1. got'[Other(d)] = got[Other(d)]
      BY <1>2, <1>6, BothWays DEF TypesOK
    <3>2. QED
      BY <1>3, <1>6, <3>1 DEF Orderly, Drained, Refusal, Refused, Dialled, Path
  <2>5. QED
    BY <1>2, <2>2, <2>3, <2>4 DEF Flows, Flow
<1>7. QED
  BY <1>3, <1>4, <1>5, <1>6

\* An end closes.
LEMMA StartsFlow ==
  ASSUME ChainInv, TypesOK', NEW d \in Dirs, Flows(d), CoreEnds \/ ClientLeaves
  PROVE  Flows(d)'
<1>1. PICK e \in [Links -> Nat] : Flow(d, e)
  BY DEF Flows
<1>2. TypesOK /\ StagesOK /\ InOrder(d, e) /\ "up" \in Dirs /\ "down" \in Dirs
  BY <1>1, Directions DEF ChainInv, Flow
<1>3. PICK c \in Dirs, code \in Nat :
        /\ c = "down" => core = "open" /\ core' \in {"finished", "refused"} /\ UNCHANGED client
        /\ c = "up" => client = "on" /\ client' = "left" /\ UNCHANGED core
        /\ code >= 1000 /\ net' = [net EXCEPT ![Source(c)][c] = Put(@, code)]
        /\ UNCHANGED <<hops, stage, ended, hand, sent, got, lost>>
  <2>1. CASE CoreEnds
    <3>1. Normal \in Nat /\ Rejected \in Nat /\ Normal >= 1000 /\ Rejected >= 1000
      BY DEF Normal, Rejected
    <3>2. \/ net' = [net EXCEPT ![Source("down")]["down"] = Put(@, Normal)]
          \/ net' = [net EXCEPT ![Source("down")]["down"] = Put(@, Rejected)]
      BY <2>1 DEF CoreEnds, Source
    <3>3. /\ core = "open" /\ core' \in {"finished", "refused"}
          /\ UNCHANGED <<hops, stage, ended, hand, sent, got, client, lost>>
      BY <2>1 DEF CoreEnds, path
    <3>4. QED
      BY <1>2, <3>1, <3>2, <3>3
  <2>2. CASE ClientLeaves
    <3>1. GoingAway \in Nat /\ GoingAway >= 1000
      BY DEF GoingAway
    <3>2. /\ client = "on" /\ client' = "left"
          /\ net' = [net EXCEPT ![Source("up")]["up"] = Put(@, GoingAway)]
          /\ UNCHANGED <<hops, stage, ended, hand, sent, got, core, lost>>
      BY <2>2 DEF ClientLeaves, path, Source
    <3>3. QED
      BY <1>2, <3>1, <3>2
  <2>3. QED
    BY <2>1, <2>2
<1>4. Source(c) \in Links /\ \A i \in 0..hops : i \in Links
  BY <1>2, AlongThePath
<1>5. CASE c # d
  <2>1. ~Orderly(d)'
    BY <1>3, <1>5, Directions DEF Orderly
  <2>2. \A i \in Links : net'[i][d] = net[i][d]
    BY <1>2, <1>3, <1>5 DEF TypesOK
  <2>3. QED
    BY <1>2, <1>3, <2>1, <2>2, OtherWay
<1>6. CASE c = d
  <2>1. \A i \in Links : \/ net'[i][d] = net[i][d]
                         \/ /\ Closed(net'[i][d]) /\ Fill(net'[i][d]) = Fill(net[i][d])
                            /\ \A n \in Nat : Carries(net[i][d], n) => Carries(net'[i][d], n)
    BY <1>2, <1>3, <1>4, <1>6, CloseSeen
  <2>2. \A i \in 0..hops : Fill(net[i][d]) <= Fill(net[i][d])
    BY <1>2, Counts
  <2>3. InOrder(d, e)'
    BY <1>2, <1>3, <1>4, <2>1, <2>2, FlowKept
  <2>4. ASSUME Orderly(d)'
        PROVE  (\A h \in Path : ~ended[h]) /\ \A i \in 0..hops : ~Closed(net[i][d])
    <3>1. ChainClean
      BY <1>3, <2>4 DEF ChainInv, Intact, ChainClean, Orderly
    <3>2. ~Refusal /\ client = "on" /\ core \in {"absent", "open"}
      <4>1. CASE c = "down"
        BY <1>2, <1>3, <1>6, <2>4, <4>1 DEF Orderly, StagesOK
      <4>2. CASE c = "up"
        BY <1>3, <1>6, <2>4, <4>2 DEF Orderly, Refusal, Refused, Dialled, Path
      <4>3. QED
        BY <4>1, <4>2, Directions
    <3>3. ASSUME NEW h \in Path, ended[h] PROVE FALSE
      BY <3>1, <3>2, <3>3 DEF ChainClean, EndsDown
    <3>4. CASE d = "down"
      <4>1. ASSUME NEW h \in Path, Closed(net[h - 1].down) PROVE FALSE
        BY <1>2, <3>1, <3>2, <3>3, <4>1 DEF ChainClean, DownCloses, StagesOK, Refusal, Refused
      <4>2. ~Closed(net[hops].down)
        BY <3>1, <3>2 DEF ChainClean, DownCloses
      <4>3. \A i \in 0..hops : i = hops \/ (i + 1 \in Path /\ (i + 1) - 1 = i)
        BY <1>2, PathPlaces DEF Path
      <4>4. \A i \in 0..hops : ~Closed(net[i].down)
        BY <4>1, <4>2, <4>3
      <4>5. QED
        BY <3>3, <3>4, <4>4
    <3>5. CASE d = "up"
      <4>1. \A h \in Path : ~Closed(net[h].up)
        BY <3>1, <3>3 DEF ChainClean, UpCloses
      <4>2. ~Closed(net[0].up)
        BY <3>1, <3>2 DEF ChainClean, UpCloses
      <4>3. \A i \in 0..hops : i = 0 \/ i \in Path
        BY <1>2, PathPlaces DEF Path
      <4>4. \A i \in 0..hops : ~Closed(net[i].up)
        BY <4>1, <4>2, <4>3
      <4>5. QED
        BY <3>3, <3>5, <4>4
    <3>6. QED
      BY <3>4, <3>5, Directions
  <2>5. ASSUME Orderly(d)' PROVE Whole(d, e)'
    BY <1>2, <1>3, <1>6, <2>4, <2>5, WholeStarts
  <2>6. QED
    BY <2>3, <2>5 DEF Flows, Flow
<1>7. QED
  BY <1>5, <1>6

\* A connection breaks.
LEMMA BreakFlow ==
  ASSUME ChainInv, TypesOK', NEW d \in Dirs, Flows(d), NEW i \in 0..hops, LinkBreaks(i)
  PROVE  Flows(d)'
<1>1. PICK e \in [Links -> Nat] : Flow(d, e)
  BY DEF Flows
<1>2. TypesOK /\ InOrder(d, e) /\ \A j \in 0..hops : j \in Links
  BY <1>1, AlongThePath DEF ChainInv, Flow
<1>3. UNCHANGED <<hops, stage, hand, sent, got>> /\ lost' = lost + 1 /\ lost \in Nat
  BY <1>2 DEF LinkBreaks, path, TypesOK
<1>4. InOrder(d, e)'
  BY <1>2, <1>3, BrokenLink, FlowKept
<1>5. ~Orderly(d)'
  BY <1>3 DEF Orderly
<1>6. QED
  BY <1>4, <1>5 DEF Flows, Flow

\* Every step keeps the frames in order, and an orderly end whole.
LEMMA StepFlow == ChainInv /\ TypesOK' /\ FlowInv /\ [Next]_vars => FlowInv'
<1> SUFFICES ASSUME ChainInv, TypesOK', FlowInv, [Next]_vars, NEW d \in Dirs PROVE Flows(d)'
  BY DEF FlowInv, Dirs
<1>1. Flows(d) /\ Flows(Other(d))
  BY BothWays DEF FlowInv
<1>2. CASE \E h \in Relays : Handler(h)
  BY <1>1, <1>2, HandlerFlow
<1>3. CASE \E h \in Relays, c \in Dirs : Task(h, c)
  BY <1>1, <1>3, TaskFlow
<1>4. CASE CoreSends \/ ClientSends
  BY <1>1, <1>4, SendsFlow
<1>5. CASE CoreReads \/ ClientReads
  BY <1>1, <1>5, ReadsFlow
<1>6. CASE CoreEnds \/ ClientLeaves
  BY <1>1, <1>6, StartsFlow
<1>7. CASE \E i \in 0..hops : LinkBreaks(i)
  BY <1>1, <1>7, BreakFlow
<1>8. CASE UNCHANGED vars
  <2>1. UNCHANGED <<hops, stage, ended, hand, net, sent, got, core, client, lost>>
    BY <1>8 DEF vars
  <2>2. Orderly(d)' => Orderly(d)
    BY <2>1 DEF Orderly, Drained, Refusal, Refused, Dialled, Path
  <2>3. TypesOK
    BY DEF ChainInv
  <2>4. QED
    BY <1>1, <2>1, <2>2, <2>3, OtherWay
<1>9. QED
  BY <1>2, <1>3, <1>4, <1>5, <1>6, <1>7, <1>8 DEF Next

\* Nothing has been taken off any link.
LEMMA InitFlow == Init => FlowInv
<1> SUFFICES ASSUME Init, NEW d \in Dirs PROVE Flows(d)
  BY DEF FlowInv
<1> DEFINE e == [i \in Links |-> 0]
<1>1. TypesOK /\ e \in [Links -> Nat]
  BY InitChain DEF ChainInv
<1>2. /\ \A i \in Links : net[i][d] = <<>>
      /\ sent[d] = 0 /\ got[d] = <<>> /\ client = "on" /\ core = "absent"
      /\ \A h \in Relays : hand[h][d] = 0
  BY DEF Init
<1>3. Len(<<>>) = 0 /\ ~Closed(<<>>) /\ Fill(<<>>) = 0 /\ Carries(<<>>, 0)
  BY DEF Closed, Fill, Carries
<1>4. /\ Source(d) \in 0..hops /\ Sink(d) \in 0..hops /\ \A i \in 0..hops : i \in Links /\ e[i] = 0
      /\ \A h \in Path : h \in Relays /\ From(h, d) \in 0..hops /\ To(h, d) \in 0..hops
  BY <1>1, AlongThePath, PathPlaces
<1> HIDE DEF e
<1>5. LinksFlow(d, e)
  BY <1>2, <1>3, <1>4 DEF LinksFlow
<1>6. EndsFlow(d, e)
  BY <1>2, <1>3, <1>4 DEF EndsFlow
<1>7. \A h \in Path : RelayFlow(h, d, e)
  BY <1>2, <1>3, <1>4 DEF RelayFlow, Held
<1>8. ~Orderly(d)
  BY <1>2 DEF Orderly
<1>9. QED
  BY <1>1, <1>5, <1>6, <1>7, <1>8 DEF Flows, Flow, InOrder

\* The frames that a tunnel carries, and that an orderly end loses none of them
\* (relay_ws: pump_ws_to_tcp and pump_tcp_to_ws, _forward_ws, proxy_ws).
THEOREM FlowInvariance == Spec => []FlowInv
<1>1. ChainInv /\ ChainInv' /\ FlowInv /\ [Next]_vars => FlowInv'
  BY StepFlow DEF ChainInv
<1>2. QED
  BY InitFlow, ChainInvariance, <1>1, PTL DEF Spec

-----------------------------------------------------------------------------
(* Each direction is a pipe.                                               *)

\* Sequences of numbered frames.
LEMMA FramesAre ==
  ASSUME NEW n \in Nat
  PROVE  /\ Frames(n) \in Seq(Nat) /\ Len(Frames(n)) = n /\ \A k \in 1..n : Frames(n)[k] = k
         /\ Append(Frames(n), n + 1) = Frames(n + 1)
<1>1. Frames(n) \in Seq(Nat) /\ Len(Frames(n)) = n /\ \A k \in 1..n : Frames(n)[k] = k
  BY DEF Frames
<1>2. /\ Frames(n + 1) \in Seq(Nat) /\ Len(Frames(n + 1)) = n + 1
      /\ \A k \in 1..n + 1 : Frames(n + 1)[k] = k
  BY DEF Frames
<1>3. PICK p : p = Append(Frames(n), n + 1)
  OBVIOUS
<1>4. p \in Seq(Nat) /\ Len(p) = n + 1 /\ \A k \in 1..n + 1 : p[k] = k
  BY <1>1, <1>3
<1>5. p = Frames(n + 1)
  BY <1>2, <1>4
<1>6. QED
  BY <1>1, <1>3, <1>5

\* A sequence of numbered frames is the first of them.
LEMMA AllFrames ==
  ASSUME NEW q \in Seq(Nat), \A k \in 1..Len(q) : q[k] = k
  PROVE  q = Frames(Len(q))
<1>1. Len(q) \in Nat
  OBVIOUS
<1>2. Frames(Len(q)) \in Seq(Nat) /\ Len(Frames(Len(q))) = Len(q) /\ \A k \in 1..Len(q) : Frames(Len(q))[k] = k
  BY <1>1, FramesAre
<1>3. QED
  BY <1>2

EndOf(d) == IF d = "down" THEN DownEnd ELSE UpEnd

\* The ends of the two pipes, case by case.
LEMMA EndCases ==
  /\ DownEnd = IF client = "on" THEN "open"
               ELSE IF client = "told" /\ core = "finished" /\ lost = 0 /\ Drained("up") THEN "complete"
               ELSE "broken"
  /\ DownEnd' = IF client' = "on" THEN "open"
                ELSE IF client' = "told" /\ core' = "finished" /\ lost' = 0 /\ Drained("up")' THEN "complete"
                ELSE "broken"
  /\ UpEnd = IF core \in {"absent", "open"} THEN "open"
             ELSE IF core = "left" /\ client = "left" /\ lost = 0 /\ Drained("down") THEN "complete"
             ELSE "broken"
  /\ UpEnd' = IF core' \in {"absent", "open"} THEN "open"
              ELSE IF core' = "left" /\ client' = "left" /\ lost' = 0 /\ Drained("down")' THEN "complete"
              ELSE "broken"
<1>1. DownEnd = IF client = "on" THEN "open"
                ELSE IF client = "told" /\ core = "finished" /\ lost = 0 /\ Drained("up") THEN "complete"
                ELSE "broken"
  BY DEF DownEnd
<1>2. DownEnd' = IF client' = "on" THEN "open"
                 ELSE IF client' = "told" /\ core' = "finished" /\ lost' = 0 /\ Drained("up")' THEN "complete"
                 ELSE "broken"
  BY DEF DownEnd
<1>3. UpEnd = IF core \in {"absent", "open"} THEN "open"
              ELSE IF core = "left" /\ client = "left" /\ lost = 0 /\ Drained("down") THEN "complete"
              ELSE "broken"
  BY DEF UpEnd
<1>4. UpEnd' = IF core' \in {"absent", "open"} THEN "open"
               ELSE IF core' = "left" /\ client' = "left" /\ lost' = 0 /\ Drained("down")' THEN "complete"
               ELSE "broken"
  BY DEF UpEnd
<1>5. QED
  BY <1>1, <1>2, <1>3, <1>4

\* What a step of a pipe is, in terms of the chain.
PipeStep(d) ==
  \/ sent'[d] = sent[d] + 1 /\ got'[d] = got[d] /\ EndOf(d)' = EndOf(d)
  \/ /\ EndOf(d) = "open" /\ EndOf(d)' = "open" /\ sent'[d] = sent[d]
     /\ Len(got[d]) < sent[d] /\ got'[d] = Append(got[d], Len(got[d]) + 1)
  \/ /\ EndOf(d) = "open" /\ sent'[d] = sent[d] /\ got'[d] = got[d]
     /\ \/ EndOf(d)' = "broken"
        \/ EndOf(d)' = "complete" /\ Len(got[d]) = sent[d]
  \/ sent'[d] = sent[d] /\ got'[d] = got[d] /\ EndOf(d)' = EndOf(d)

\* What has arrived is a prefix of what was sent.
FirstFrames == \A d \in Dirs : Len(got[d]) <= sent[d] /\ \A k \in 1..Len(got[d]) : got[d][k] = k

\* A close that ends an orderly tunnel is read after everything else.
LEMMA EndIsLast ==
  ASSUME TypesOK, NEW d \in Dirs, Flows(d), Orderly(d), AtClose(net[Sink(d)][d])
  PROVE  Len(got[d]) = sent[d]
<1>1. PICK e \in [Links -> Nat] : InOrder(d, e) /\ Whole(d, e)
  BY DEF Flows, Flow
<1>2. Sink(d) \in 0..hops
  BY AlongThePath
<1>3. e[Sink(d)] \in Nat /\ net[Sink(d)][d] \in Queue
  BY <1>2, Counts
<1>4. Closed(net[Sink(d)][d]) /\ Fill(net[Sink(d)][d]) = 0
  BY <1>3, QueueFacts
<1>5. e[Sink(d)] + 0 = sent[d]
  BY <1>1, <1>2, <1>4 DEF Whole
<1>6. QED
  BY <1>1, <1>3, <1>5 DEF InOrder, EndsFlow

\* A frame that is received is the next one.
LEMMA NextArrives ==
  ASSUME TypesOK, NEW d \in Dirs, Flows(d), NEW x, TypesOK',
         FirstFrames',
         got'[d] = Append(got[d], x), sent'[d] = sent[d]
  PROVE  x = Len(got[d]) + 1 /\ Len(got[d]) < sent[d]
<1>1. got[d] \in Seq(Nat) /\ got'[d] \in Seq(Nat)
  BY DEF TypesOK
<1>2. Len(got[d]) \in Nat /\ sent[d] \in Nat
  BY Arrived
<1>3. Len(got'[d]) = Len(got[d]) + 1 /\ got'[d][Len(got[d]) + 1] = x
  BY <1>1, <1>2
<1>4. Len(got'[d]) <= sent'[d] /\ \A k \in 1..Len(got'[d]) : got'[d][k] = k
  BY DEF FirstFrames
<1>5. QED
  BY <1>2, <1>3, <1>4

\* A relay hands over frames, and no more than that.
LEMMA RelayIsSilent ==
  ASSUME TypesOK, StagesOK, NEW d \in Dirs,
         NEW h \in Relays, Handler(h) \/ \E c \in Dirs : Task(h, c)
  PROVE  PipeStep(d)
<1>1. UNCHANGED <<sent, got, client, lost>>
  BY DEF Handler, Refuse, Dial, Cancel, CloseClient, Task, Take, Send, Return, endVars
<1>2. core' = core \/ (core = "absent" /\ core' \in {"absent", "open"})
  <2>1. CASE Dial(h)
    BY <2>1, DialStages DEF Dial
  <2>2. CASE ~Dial(h)
    BY <2>2 DEF Handler, Refuse, Cancel, CloseClient, Task, Take, Send, Return, endVars
  <2>3. QED
    BY <2>1, <2>2
<1>3. (Drained("up")' <=> Drained("up")) /\ (Drained("down")' <=> Drained("down"))
  BY <1>1 DEF Drained
<1>4. DownEnd' = DownEnd /\ UpEnd' = UpEnd
  BY <1>1, <1>2, <1>3, EndCases
<1>5. QED
  BY <1>1, <1>4 DEF PipeStep, EndOf

\* A frame that an end sends is sent into its pipe.
LEMMA SendIsSend ==
  ASSUME TypesOK, NEW d \in Dirs, CoreSends \/ ClientSends
  PROVE  PipeStep(d)
<1>1. CASE CoreSends
  <2>1. /\ core = "open" /\ UNCHANGED <<got, core, client, lost>>
        /\ sent'["down"] = sent["down"] + 1 /\ sent'["up"] = sent["up"]
    BY <1>1, Directions DEF CoreSends, TypesOK
  <2>2. DownEnd' = DownEnd /\ UpEnd' = UpEnd
    BY <2>1, EndCases
  <2>3. QED
    BY <2>1, <2>2, Directions DEF PipeStep, EndOf
<1>2. CASE ClientSends
  <2>1. /\ client = "on" /\ UNCHANGED <<got, core, client, lost>>
        /\ sent'["up"] = sent["up"] + 1 /\ sent'["down"] = sent["down"]
    BY <1>2, Directions DEF ClientSends, TypesOK
  <2>2. DownEnd' = DownEnd /\ UpEnd' = UpEnd
    BY <2>1, EndCases
  <2>3. QED
    BY <2>1, <2>2, Directions DEF PipeStep, EndOf
<1>3. QED
  BY <1>1, <1>2

\* A frame that is received is delivered; a close completes the pipe or breaks it.
LEMMA ReadIsDeliver ==
  ASSUME ChainInv, FlowInv, TypesOK', FirstFrames', NEW d \in Dirs, CoreReads \/ ClientReads
  PROVE  PipeStep(d)
<1>1. TypesOK /\ StagesOK /\ Flows("up") /\ Flows("down") /\ "up" \in Dirs /\ "down" \in Dirs
  BY Directions DEF ChainInv, FlowInv
<1>2. Sink("up") = hops /\ Sink("down") = 0 /\ Other("up") = "down" /\ Other("down") = "up"
  BY DEF Sink, Other
<1>3. CASE CoreReads /\ HasFrame(net[hops].up)
  <2>1. PICK x : x = Head(net[hops].up)
    OBVIOUS
  <2>2. /\ core = "open" /\ got' = [got EXCEPT !["up"] = Append(@, x)]
        /\ UNCHANGED <<sent, core, client, lost>>
    BY <1>3, <2>1 DEF CoreReads
  <2>3. got'["up"] = Append(got["up"], x) /\ got'["down"] = got["down"]
    BY <1>1, <2>2 DEF TypesOK
  <2>4. x = Len(got["up"]) + 1 /\ Len(got["up"]) < sent["up"]
    BY <1>1, <2>2, <2>3, NextArrives
  <2>5. UpEnd = "open" /\ UpEnd' = "open" /\ DownEnd' = DownEnd
    BY <2>2, EndCases
  <2>6. QED
    BY <2>2, <2>3, <2>4, <2>5, Directions DEF PipeStep, EndOf
<1>4. CASE CoreReads /\ ~HasFrame(net[hops].up)
  <2>1. /\ core = "open" /\ core' = "left" /\ UNCHANGED <<sent, got, client, lost>>
        /\ net[hops].up # <<>>
    BY <1>4 DEF CoreReads
  <2>2. UpEnd = "open" /\ DownEnd' = DownEnd
    BY <2>1, EndCases
  <2>3. UpEnd' = "broken" \/ (UpEnd' = "complete" /\ client = "left" /\ lost = 0 /\ Drained("down"))
    BY <2>1, EndCases DEF Drained
  <2>4. ASSUME client = "left", lost = 0, Drained("down")
        PROVE  Len(got["up"]) = sent["up"]
    <3>1. Orderly("up")
      BY <1>1, <1>2, <2>1, <2>4 DEF Orderly, StagesOK
    <3>2. AtClose(net[Sink("up")]["up"])
      BY <1>2, <1>4, <2>1 DEF AtClose, HasFrame
    <3>3. QED
      BY <1>1, <3>1, <3>2, EndIsLast
  <2>5. QED
    BY <2>1, <2>2, <2>3, <2>4, Directions DEF PipeStep, EndOf
<1>5. CASE ClientReads /\ HasFrame(net[0].down)
  <2>1. PICK x : x = Head(net[0].down)
    OBVIOUS
  <2>2. /\ client = "on" /\ got' = [got EXCEPT !["down"] = Append(@, x)]
        /\ UNCHANGED <<sent, core, client, lost>>
    BY <1>5, <2>1 DEF ClientReads
  <2>3. got'["down"] = Append(got["down"], x) /\ got'["up"] = got["up"]
    BY <1>1, <2>2 DEF TypesOK
  <2>4. x = Len(got["down"]) + 1 /\ Len(got["down"]) < sent["down"]
    BY <1>1, <2>2, <2>3, NextArrives
  <2>5. DownEnd = "open" /\ DownEnd' = "open" /\ UpEnd' = UpEnd
    BY <2>2, EndCases
  <2>6. QED
    BY <2>2, <2>3, <2>4, <2>5, Directions DEF PipeStep, EndOf
<1>6. CASE ClientReads /\ ~HasFrame(net[0].down)
  <2>1. /\ client = "on" /\ client' = "told" /\ UNCHANGED <<sent, got, core, lost>>
        /\ net[0].down # <<>>
    BY <1>6 DEF ClientReads
  <2>2. DownEnd = "open" /\ UpEnd' = UpEnd
    BY <2>1, EndCases
  <2>3. DownEnd' = "broken" \/ (DownEnd' = "complete" /\ core = "finished" /\ lost = 0 /\ Drained("up"))
    BY <2>1, EndCases DEF Drained
  <2>4. ASSUME core = "finished", lost = 0, Drained("up")
        PROVE  Len(got["down"]) = sent["down"]
    <3>1. Orderly("down")
      BY <1>2, <2>1, <2>4 DEF Orderly
    <3>2. AtClose(net[Sink("down")]["down"])
      BY <1>2, <1>6, <2>1 DEF AtClose, HasFrame
    <3>3. QED
      BY <1>1, <3>1, <3>2, EndIsLast
  <2>5. QED
    BY <2>1, <2>2, <2>3, <2>4, Directions DEF PipeStep, EndOf
<1>7. QED
  BY <1>3, <1>4, <1>5, <1>6

\* The Core does not finish a tunnel whose client was already told of an end.
LEMMA ToldIsOver ==
  ASSUME ChainInv, client = "told", lost = 0
  PROVE  core # "open"
<1>1. TypesOK /\ StagesOK /\ ChainClean
  BY DEF ChainInv, Intact, ChainClean
<1>2. 1 \in Path /\ 1 - 1 = 0
  BY <1>1, PathPlaces DEF Path
<1>3. Closed(net[0].down)
  BY <1>1 DEF ChainClean, EndsOK
<1>4. stage[1] = "done"
  BY <1>1, <1>2, <1>3 DEF ChainClean, DownCloses
<1>5. CASE Dialled(1)
  <2>1. ended[1]
    BY <1>1, <1>2, <1>4, <1>5 DEF StagesOK
  <2>2. core \in {"finished", "refused"} \/ Refusal
    BY <1>1, <1>2, <2>1 DEF ChainClean, EndsDown
  <2>3. QED
    BY <1>1, <2>2 DEF StagesOK
<1>6. CASE ~Dialled(1)
  <2>1. Refusal
    BY <1>2, <1>4, <1>6 DEF Refusal, Refused
  <2>2. QED
    BY <1>1, <2>1 DEF StagesOK
<1>7. QED
  BY <1>5, <1>6

\* The source that closes leaves the other pipe broken.
LEMMA EndIsBreak ==
  ASSUME ChainInv, NEW d \in Dirs,
         CoreEnds \/ ClientLeaves \/ \E i \in 0..hops : LinkBreaks(i)
  PROVE  PipeStep(d)
<1>1. UNCHANGED <<sent, got>> /\ (Drained("up")' <=> Drained("up")) /\ (Drained("down")' <=> Drained("down"))
  BY DEF CoreEnds, ClientLeaves, LinkBreaks, Drained
<1>2. CASE CoreEnds
  <2>1. core = "open" /\ core' \in {"finished", "refused"} /\ UNCHANGED <<client, lost>>
    BY <1>2 DEF CoreEnds
  <2>2. client = "told" => lost # 0
    BY <2>1, ToldIsOver
  <2>3. DownEnd' = DownEnd /\ UpEnd = "open" /\ UpEnd' = "broken"
    BY <2>1, <2>2, EndCases
  <2>4. QED
    BY <1>1, <2>3 DEF PipeStep, EndOf
<1>3. CASE ClientLeaves
  <2>1. client = "on" /\ client' = "left" /\ UNCHANGED <<core, lost>>
    BY <1>3 DEF ClientLeaves
  <2>2. core = "left" => lost # 0
    BY <2>1 DEF ChainInv, Intact, EndsOK
  <2>3. UpEnd' = UpEnd /\ DownEnd = "open" /\ DownEnd' = "broken"
    BY <2>1, <2>2, EndCases
  <2>4. QED
    BY <1>1, <2>3 DEF PipeStep, EndOf
<1>4. CASE \E i \in 0..hops : LinkBreaks(i)
  <2>1. client = "on" \/ core \in {"absent", "open"}
    BY <1>4 DEF LinkBreaks
  <2>2. UNCHANGED <<core, client>>
    BY <1>4 DEF LinkBreaks
  <2>3. UpEnd' = UpEnd /\ DownEnd' = DownEnd
    BY <2>1, <2>2, EndCases
  <2>4. QED
    BY <1>1, <2>3 DEF PipeStep, EndOf
<1>5. QED
  BY <1>2, <1>3, <1>4

\* Every step is one of each pipe, or none.
LEMMA StepIsPipes ==
  ASSUME ChainInv, FlowInv, TypesOK', FirstFrames', [Next]_vars, NEW d \in Dirs
  PROVE  PipeStep(d)
<1>1. TypesOK /\ StagesOK
  BY DEF ChainInv
<1>2. CASE \E h \in Relays : Handler(h) \/ \E c \in Dirs : Task(h, c)
  BY <1>1, <1>2, RelayIsSilent
<1>3. CASE CoreSends \/ ClientSends
  BY <1>1, <1>3, SendIsSend
<1>4. CASE CoreReads \/ ClientReads
  BY <1>4, ReadIsDeliver
<1>5. CASE CoreEnds \/ ClientLeaves \/ \E i \in 0..hops : LinkBreaks(i)
  BY <1>5, EndIsBreak
<1>6. CASE UNCHANGED vars
  <2>1. UNCHANGED <<sent, got, core, client, lost>>
    BY <1>6 DEF vars
  <2>2. (Drained("up")' <=> Drained("up")) /\ (Drained("down")' <=> Drained("down"))
    BY <2>1 DEF Drained
  <2>3. UpEnd' = UpEnd /\ DownEnd' = DownEnd
    BY <2>1, <2>2, EndCases
  <2>4. QED
    BY <2>1, <2>3 DEF PipeStep, EndOf
<1>7. QED
  BY <1>2, <1>3, <1>4, <1>5, <1>6 DEF Next

\* The same in terms of what Pipe calls sent, got and end.
LEMMA PipeSteps ==
  ASSUME TypesOK, NEW d \in Dirs, PipeStep(d), FirstFrames
  PROVE  LET S == Frames(sent[d])
             E == EndOf(d)
         IN  \/ S' = Append(S, Len(S) + 1) /\ got'[d] = got[d] /\ E' = E
             \/ /\ E = "open" /\ Len(got[d]) < Len(S) /\ got'[d] = Append(got[d], S[Len(got[d]) + 1])
                /\ S' = S /\ E' = E
             \/ E = "open" /\ got[d] = S /\ E' = "complete" /\ S' = S /\ got'[d] = got[d]
             \/ E = "open" /\ E' = "broken" /\ S' = S /\ got'[d] = got[d]
             \/ S' = S /\ got'[d] = got[d] /\ E' = E
<1>1. sent[d] \in Nat /\ got[d] \in Seq(Nat) /\ Len(got[d]) \in Nat
  BY ChainAssumption DEF TypesOK
<1>2. Len(Frames(sent[d])) = sent[d] /\ (\A k \in 1..sent[d] : Frames(sent[d])[k] = k)
      /\ Append(Frames(sent[d]), sent[d] + 1) = Frames(sent[d] + 1)
  BY <1>1, FramesAre
<1>3. sent'[d] = sent[d] + 1 => Frames(sent'[d]) = Append(Frames(sent[d]), Len(Frames(sent[d])) + 1)
  BY <1>2
<1>4. Len(got[d]) < sent[d] => Frames(sent[d])[Len(got[d]) + 1] = Len(got[d]) + 1
  BY <1>1, <1>2
<1>5. Len(got[d]) = sent[d] => got[d] = Frames(sent[d])
  BY <1>1, AllFrames DEF FirstFrames
<1>6. Frames(sent[d])' = Frames(sent'[d]) /\ (sent'[d] = sent[d] => Frames(sent[d])' = Frames(sent[d]))
  BY DEF Frames
<1>7. QED
  BY <1>2, <1>3, <1>4, <1>5, <1>6 DEF PipeStep

\* Both pipes are empty and open at first.
LEMMA InitIsPipes == Init => Down!Init /\ Up!Init
<1> SUFFICES ASSUME Init PROVE Down!Init /\ Up!Init
  OBVIOUS
<1>1. /\ sent["down"] = 0 /\ sent["up"] = 0 /\ got["down"] = <<>> /\ got["up"] = <<>>
      /\ client = "on" /\ core = "absent"
  BY Directions DEF Init
<1>2. Frames(0) = <<>>
  BY DEF Frames
<1>3. DownEnd = "open" /\ UpEnd = "open"
  BY <1>1, EndCases
<1>4. QED
  BY <1>1, <1>2, <1>3 DEF Down!Init, Up!Init

\* A chain of relays is a pipe each way: frames arrive in order, each of them
\* once, and an end that is handed down in order comes after all of them
\* (relay_ws, proxy_ws and _forward_ws, one after the other).
THEOREM ChainIsPipes == Spec => TunnelIsPipes
<1>1. TypesOK /\ FlowInv => FirstFrames
  BY Arrived DEF FlowInv, FirstFrames
<1>2. ChainInv /\ TypesOK' /\ FlowInv /\ FirstFrames' /\ [Next]_vars => [Down!Next]_Down!vars
  <2> SUFFICES ASSUME ChainInv, FlowInv, TypesOK', FirstFrames', [Next]_vars
               PROVE  [Down!Next]_Down!vars
    OBVIOUS
  <2>1. PipeStep("down") /\ TypesOK /\ FirstFrames /\ "down" \in Dirs
    BY <1>1, StepIsPipes, Directions DEF ChainInv
  <2>2. EndOf("down") = DownEnd /\ EndOf("down")' = DownEnd'
    BY DEF EndOf
  <2>3. QED
    BY <2>1, <2>2, PipeSteps DEF Down!Next, Down!Send, Down!Deliver, Down!Complete, Down!Break, Down!vars
<1>3. ChainInv /\ TypesOK' /\ FlowInv /\ FirstFrames' /\ [Next]_vars => [Up!Next]_Up!vars
  <2> SUFFICES ASSUME ChainInv, FlowInv, TypesOK', FirstFrames', [Next]_vars
               PROVE  [Up!Next]_Up!vars
    OBVIOUS
  <2>1. PipeStep("up") /\ TypesOK /\ FirstFrames /\ "up" \in Dirs
    BY <1>1, StepIsPipes, Directions DEF ChainInv
  <2>2. EndOf("up") = UpEnd /\ EndOf("up")' = UpEnd'
    BY DEF EndOf
  <2>3. QED
    BY <2>1, <2>2, PipeSteps DEF Up!Next, Up!Send, Up!Deliver, Up!Complete, Up!Break, Up!vars
<1>4. ChainInv => TypesOK
  BY DEF ChainInv
<1>5. QED
  BY InitIsPipes, ChainInvariance, FlowInvariance, <1>1, <1>2, <1>3, <1>4, PTL
     DEF Spec, TunnelIsPipes, Down!Spec, Up!Spec

=============================================================================
