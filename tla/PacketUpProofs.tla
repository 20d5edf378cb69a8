--------------------------- MODULE PacketUpProofs ---------------------------
(* Proofs that a packet-up session keeps its stream in order. *)
EXTENDS PacketUp, SetSums, TLAPS

\* What the loop writes in one go is a run of packets, in order.
LEMMA ConsecutiveRun ==
  ASSUME NEW first \in Nat, NEW end \in Nat, first <= end, end <= MaxSeq + 1
  PROVE  /\ Consecutive(first, end) \in Seq(Seqs)
         /\ Len(Consecutive(first, end)) = end - first
         /\ \A i \in 1..(end - first) : Consecutive(first, end)[i] = first + i - 1
<1> DEFINE n == end - first
           c == [i \in 1..n |-> first + i - 1]
<1>1. n \in Nat
  OBVIOUS
<1>2. \A i \in 1..n : first + i - 1 \in Seqs
  BY PacketAssumption DEF Seqs
<1>3. c \in [1..n -> Seqs]
  BY <1>2
<1>4. c \in Seq(Seqs) /\ Len(c) = n
  BY <1>1, <1>3
<1>5. QED
  BY <1>4 DEF Consecutive

\* A stream that is a prefix stays one when the run that starts where it ends
\* is appended.
LEMMA AppendRun ==
  ASSUME NEW s \in Seq(Seqs), \A i \in 1..Len(s) : s[i] = i - 1,
         NEW end \in Nat, Len(s) <= end, end <= MaxSeq + 1
  PROVE  /\ s \o Consecutive(Len(s), end) \in Seq(Seqs)
         /\ Len(s \o Consecutive(Len(s), end)) = end
         /\ \A i \in 1..end : (s \o Consecutive(Len(s), end))[i] = i - 1
<1> DEFINE c == Consecutive(Len(s), end)
<1>1. Len(s) \in Nat
  OBVIOUS
<1>2. /\ c \in Seq(Seqs)
      /\ Len(c) = end - Len(s)
      /\ \A i \in 1..(end - Len(s)) : c[i] = Len(s) + i - 1
  BY <1>1, ConsecutiveRun
<1> HIDE DEF c
<1>3. s \o c \in Seq(Seqs) /\ Len(s \o c) = end
  BY <1>2
<1>4. ASSUME NEW i \in 1..end
      PROVE  (s \o c)[i] = i - 1
  <2>1. CASE i <= Len(s)
    BY <2>1, <1>2
  <2>2. CASE i > Len(s)
    <3>1. (s \o c)[i] = c[i - Len(s)] /\ i - Len(s) \in 1..(end - Len(s))
      BY <2>2, <1>2
    <3>2. QED
      BY <3>1, <1>2
  <2>3. i <= Len(s) \/ i > Len(s)
    BY <1>1
  <2>4. QED
    BY <2>1, <2>2, <2>3, Zenon
<1>5. QED
  BY <1>3, <1>4 DEF c

\* The initial state satisfies the inductive invariant.
LEMMA InitInv == Init => IInv
<1> SUFFICES ASSUME Init PROVE IInv
  OBVIOUS
<1>1. <<>> \in Seq(Seqs) /\ Len(<<>>) = 0 /\ 1..0 = {}
  OBVIOUS
<1>2. TypeOK
  <2>1. sent \in [Posts -> Seq(Seqs)]
    BY <1>1 DEF Init
  <2>2. buf_bytes \in 0..MaxBytes /\ next_seq \in 0..(MaxSeq + 1)
    BY PacketAssumption DEF Init
  <2>3. QED
    BY <2>1, <2>2 DEF Init, TypeOK
<1>3. WriterInv
  BY <1>1, PacketAssumption DEF Init, WriterInv
<1>4. EachStreamIsPrefix
  BY <1>1 DEF Init, EachStreamIsPrefix
<1>5. QED
  BY <1>2, <1>3, <1>4 DEF IInv

\* Writing to connection c the packets from the end of its stream on.
LEMMA WriteStep ==
  ASSUME IInv, NEW c \in Posts, NEW end \in Nat,
         Len(sent[c]) <= end, end <= MaxSeq + 1, Write(c, Len(sent[c]), end)
  PROVE  /\ sent' \in [Posts -> Seq(Seqs)]
         /\ EachStreamIsPrefix'
         /\ Len(sent'[c]) = end
         /\ \A d \in Posts \ {c} : sent'[d] = sent[d]
<1> DEFINE t == sent[c] \o Consecutive(Len(sent[c]), end)
<1>1. sent[c] \in Seq(Seqs) /\ \A i \in 1..Len(sent[c]) : sent[c][i] = i - 1
  BY DEF IInv, TypeOK, EachStreamIsPrefix
<1>2. /\ t \in Seq(Seqs)
      /\ Len(t) = end
      /\ \A i \in 1..end : t[i] = i - 1
  BY <1>1, AppendRun
<1> HIDE DEF t
<1>3. sent' = [sent EXCEPT ![c] = t]
  BY DEF Write, t
<1>4. sent'[c] = t /\ \A d \in Posts \ {c} : sent'[d] = sent[d]
  BY <1>3 DEF IInv, TypeOK
<1>5. sent' \in [Posts -> Seq(Seqs)]
  BY <1>2, <1>3 DEF IInv, TypeOK
<1>6. EachStreamIsPrefix'
  <2> SUFFICES ASSUME NEW d \in Posts, NEW i \in 1..Len(sent'[d])
               PROVE  sent'[d][i] = i - 1
    BY DEF EachStreamIsPrefix
  <2>1. CASE d = c
    BY <1>2, <1>4, <2>1
  <2>2. CASE d # c
    BY <1>4, <2>2 DEF IInv, EachStreamIsPrefix
  <2>3. QED
    BY <2>1, <2>2
<1>7. QED
  BY <1>2, <1>4, <1>5, <1>6

\* A step that writes nothing and leaves the writer alone keeps the streams.
LEMMA SilentStep ==
  ASSUME IInv, TypeOK', UNCHANGED <<sent, writer, next_seq>>, broken \subseteq broken',
         \A d \in Posts : /\ pc'[d] \in {"unsent", "body", "connecting"} =>
                                pc[d] \in {"unsent", "body", "connecting"}
                          /\ pc[d] = "ended" => pc'[d] = "ended"
  PROVE  IInv'
<1>1. writer \in Posts \cup {None} /\ broken \subseteq Posts
  BY DEF IInv, TypeOK
<1>2. WriterInv'
  BY <1>1 DEF IInv, WriterInv
<1>3. EachStreamIsPrefix'
  BY DEF IInv, EachStreamIsPrefix
<1>4. QED
  BY <1>2, <1>3 DEF IInv

\* Only the POST that connects and the writer in use can have their streams
\* written to; both are over afterwards.
LEMMA Unsent ==
  ASSUME IInv, NEW r \in Posts, NEW c \in Posts, NEW stage \in {"draining", "ended"},
         pc' = [pc EXCEPT ![r] = stage],
         (c = r /\ stage = "ended") \/ (c = writer /\ pc[r] = "body"),
         \A d \in Posts \ {c} : sent'[d] = sent[d]
  PROVE  /\ pc'[c] = "ended"
         /\ \A d \in Posts :
              pc'[d] \in {"unsent", "body", "connecting"} => sent'[d] = <<>>
<1>1. pc \in [Posts -> {"unsent", "body", "connecting", "draining", "ended"}]
  BY DEF IInv, TypeOK
<1>2. pc'[c] = "ended"
  BY <1>1, PacketAssumption DEF IInv, WriterInv
<1>3. ASSUME NEW d \in Posts, pc'[d] \in {"unsent", "body", "connecting"}
      PROVE  sent'[d] = <<>>
  <2>1. d # c
    BY <1>2, <1>3
  <2>2. pc[d] \in {"unsent", "body", "connecting"}
    BY <1>1, <1>3
  <2>3. QED
    BY <2>1, <2>2 DEF IInv, WriterInv
<1>4. QED
  BY <1>2, <1>3

\* A run written to the writer in use counts in next_seq.
LEMMA RunStep ==
  ASSUME IInv, NEW r \in Posts, NEW c \in Posts, NEW stage \in {"draining", "ended"},
         WriteRun(c, Len(sent[c])), writer' = c, Len(sent[c]) \in Seqs,
         pc' = [pc EXCEPT ![r] = stage],
         (c = r /\ stage = "ended") \/ (c = writer /\ pc[r] = "body")
  PROVE  IInv'
<1>1. PICK end \in (Len(sent[c]) + 1)..(MaxSeq + 1) :
         /\ Popped(Len(sent[c]) + 1, end)
         /\ Write(c, Len(sent[c]), end)
         /\ next_seq' = end
  BY DEF WriteRun
<1>2. end \in Nat /\ Len(sent[c]) <= end /\ end <= MaxSeq + 1 /\ end \in 0..(MaxSeq + 1)
  BY <1>1, PacketAssumption DEF Seqs
<1>3. /\ sent' \in [Posts -> Seq(Seqs)]
      /\ EachStreamIsPrefix'
      /\ Len(sent'[c]) = end
      /\ \A d \in Posts \ {c} : sent'[d] = sent[d]
  BY <1>1, <1>2, WriteStep
<1>4. TypeOK'
  BY <1>1, <1>2, <1>3 DEF WriteRun, Popped, IInv, TypeOK
<1>5. WriterInv'
  BY <1>1, <1>3, Unsent DEF WriteRun, WriterInv
<1>6. QED
  BY <1>3, <1>4, <1>5 DEF IInv

\* A run that is cut short breaks the connection it was written to.
LEMMA CutStep ==
  ASSUME IInv, NEW r \in Posts, NEW c \in Posts, NEW stop \in Nat,
         Len(sent[c]) + 1 <= stop, stop <= MaxSeq,
         WriteCut(r, c, Len(sent[c]), stop), writer' = c, Len(sent[c]) \in Seqs,
         next_seq' \in 0..(MaxSeq + 1),
         c = r \/ (c = writer /\ pc[r] = "body")
  PROVE  IInv'
<1>1. stop \in Nat /\ Len(sent[c]) <= stop /\ stop <= MaxSeq + 1
  BY PacketAssumption DEF Seqs
<1>2. /\ sent' \in [Posts -> Seq(Seqs)]
      /\ EachStreamIsPrefix'
      /\ \A d \in Posts \ {c} : sent'[d] = sent[d]
  BY <1>1, WriteStep DEF WriteCut
<1>3. TypeOK'
  BY <1>2 DEF WriteCut, Popped, Goto, IInv, TypeOK
<1>4. WriterInv'
  BY <1>2, Unsent DEF WriteCut, Goto, WriterInv
<1>5. QED
  BY <1>2, <1>3, <1>4 DEF IInv

\* Every step of a handler preserves the inductive invariant.
LEMMA HandlerStep ==
  ASSUME IInv, NEW r \in Posts, Handler(r)
  PROVE  IInv'
<1> USE DEF Goto
<1>0. TypeOK /\ SeqOf(r) \in Seqs /\ SeqOf(r) \in Nat /\ SeqOf(r) <= MaxSeq /\ MaxSeq \in Nat
  BY PacketAssumption DEF IInv, SeqOf, Seqs
<1>1. CASE Post(r) \/ Abort(r) \/ StartConnect(r) \/ Drained(r)
  <2>1. TypeOK'
    BY <1>0, <1>1 DEF Post, Abort, StartConnect, Drained, sessionVars, TypeOK
  <2>2. QED
    BY <1>0, <1>1, <2>1, SilentStep
    DEF Post, Abort, StartConnect, Drained, sessionVars, TypeOK
<1>2. CASE Hold(r)
  <2>1. Size[SeqOf(r)] \in Nat /\ buf_bytes + Size[SeqOf(r)] \in 0..MaxBytes
    BY <1>0, <1>2, PacketAssumption DEF Hold, Fits, TypeOK
  <2>2. TypeOK'
    BY <1>0, <1>2, <2>1 DEF Hold, TypeOK
  <2>3. QED
    BY <1>0, <1>2, <2>2, SilentStep DEF Hold, TypeOK
<1>3. CASE Overflow(r) \/ TransportClosing(r) \/ Refused(r)
  <2>1. Fail(r)
    BY <1>3 DEF Overflow, TransportClosing, Refused
  <2>2. TypeOK'
    BY <1>0, <2>1 DEF Fail, sessionVars, TypeOK
  <2>3. QED
    BY <1>0, <2>1, <2>2, SilentStep DEF Fail, sessionVars, TypeOK
<1>4. CASE Connected(r)
  <2>1. sent[r] = <<>> /\ Len(sent[r]) = 0 /\ writer' = r
    BY <1>4 DEF Connected, IInv, WriterInv
  <2>2. CASE WriteRun(r, 0) /\ pc' = [pc EXCEPT ![r] = "ended"]
    <3>1. WriteRun(r, Len(sent[r])) /\ Len(sent[r]) \in Seqs
      BY <1>0, <2>1, <2>2 DEF Seqs
    <3>2. QED
      BY <2>1, <2>2, <3>1, RunStep
  <2>3. ASSUME NEW stop \in 1..MaxSeq, WriteCut(r, r, 0, stop), UNCHANGED next_seq
        PROVE  IInv'
    <3>1. WriteCut(r, r, Len(sent[r]), stop) /\ Len(sent[r]) \in Seqs
      BY <1>0, <2>1, <2>3 DEF Seqs
    <3>2. /\ stop \in Nat /\ Len(sent[r]) + 1 <= stop /\ stop <= MaxSeq
          /\ next_seq' \in 0..(MaxSeq + 1)
      BY <1>0, <2>1, <2>3 DEF TypeOK
    <3>3. QED
      BY <2>1, <3>1, <3>2, CutStep
  <2>4. QED
    BY <1>4, <2>2, <2>3 DEF Connected
<1>5. CASE InOrder(r)
  <2>1. writer \in Posts \ broken /\ Len(sent[writer]) = SeqOf(r) /\ UNCHANGED writer
    BY <1>0, <1>5 DEF InOrder, Turn, IInv, WriterInv, TypeOK
  <2>2. CASE WriteRun(writer, SeqOf(r)) /\ pc' = [pc EXCEPT ![r] = "draining"]
    <3>1. WriteRun(writer, Len(sent[writer])) /\ Len(sent[writer]) \in Seqs
      BY <1>0, <2>1, <2>2
    <3>2. writer' = writer /\ pc[r] = "body"
      BY <1>5, <2>1 DEF InOrder
    <3>3. QED
      BY <2>1, <2>2, <3>1, <3>2, RunStep
  <2>3. ASSUME NEW stop \in (SeqOf(r) + 1)..MaxSeq,
               WriteCut(r, writer, SeqOf(r), stop), next_seq' = stop
        PROVE  IInv'
    <3>1. WriteCut(r, writer, Len(sent[writer]), stop) /\ Len(sent[writer]) \in Seqs
      BY <1>0, <2>1, <2>3
    <3>2. writer' = writer /\ pc[r] = "body"
      BY <1>5, <2>1 DEF InOrder
    <3>3. /\ stop \in Nat /\ Len(sent[writer]) + 1 <= stop /\ stop <= MaxSeq
          /\ next_seq' \in 0..(MaxSeq + 1)
      BY <1>0, <2>1, <2>3
    <3>4. QED
      BY <2>1, <3>1, <3>2, <3>3, CutStep
  <2>4. QED
    BY <1>5, <2>2, <2>3 DEF InOrder
<1>6. QED
  BY <1>1, <1>2, <1>3, <1>4, <1>5 DEF Handler

\* The environment's steps preserve it too.
LEMMA OtherStep ==
  ASSUME IInv, TornDown \/ \E c \in Posts : Breaks(c)
  PROVE  IInv'
<1>1. TypeOK'
  BY DEF TornDown, Breaks, sessionVars, IInv, TypeOK
<1>2. QED
  BY <1>1, SilentStep DEF TornDown, Breaks, sessionVars

\* Every step preserves the inductive invariant.
LEMMA StepInv == IInv /\ [Next]_vars => IInv'
<1>1. CASE UNCHANGED vars
  BY <1>1 DEF vars, IInv, TypeOK, WriterInv, EachStreamIsPrefix
<1>2. CASE Next
  BY <1>2, HandlerStep, OtherStep DEF Next
<1>3. QED
  BY <1>1, <1>2

-----------------------------------------------------------------------------

\* Every variable keeps its type; in particular the byte counter never passes
\* MAX_SEQ_BUF_BYTES, whatever packets are held back.
THEOREM TypeCorrect == Spec => []TypeOK
<1>1. IInv => TypeOK
  BY DEF IInv
<1>2. QED
  BY InitInv, StepInv, <1>1, PTL DEF Spec

\* Any number of POSTs, repeated and interleaved in any way, on any number of
\* upstream connections: what a connection is sent is a prefix of the stream.
THEOREM Order == Spec => []EachStreamIsPrefix
<1>1. IInv => EachStreamIsPrefix
  BY DEF IInv
<1>2. QED
  BY InitInv, StepInv, <1>1, PTL DEF Spec

-----------------------------------------------------------------------------

\* The initial state has lost nothing.
LEMMA InitLoss == Init => LossInv
<1> SUFFICES ASSUME Init PROVE LossInv
  OBVIOUS
<1>1. writer = None /\ accepted = {} /\ \A c \in Posts : sent[c] = <<>>
  BY DEF Init
<1>2. QED
  BY <1>1 DEF LossInv

\* A step that writes nothing, and holds back every packet it accepts but never
\* the next one, loses nothing.
LEMMA SilentLoss ==
  ASSUME LossInv, UNCHANGED <<sent, writer, next_seq>>, closed => closed',
         seq_buf \subseteq seq_buf', accepted' \subseteq accepted \cup seq_buf',
         writer # None /\ next_seq \notin seq_buf => next_seq \notin seq_buf'
  PROVE  LossInv'
<1>1. Reopened' = Reopened
  BY DEF Reopened
<1>2. SUFFICES ASSUME ~Reopened, ~closed
               PROVE  (IF writer = None THEN accepted \subseteq seq_buf
                       ELSE /\ next_seq = Len(sent[writer])
                            /\ next_seq \notin seq_buf
                            /\ accepted \subseteq seq_buf \cup 0..(next_seq - 1))'
  BY <1>1 DEF LossInv
<1>3. QED
  BY <1>2 DEF LossInv

\* A run written to the connection in use, or to the session's first one.
LEMMA RunLoss ==
  ASSUME IInv, LossInv, NEW c \in Posts, WriteRun(c, Len(sent[c])), writer' = c,
         Len(sent[c]) \in Seqs
  PROVE  LossInv'
<1> DEFINE first == Len(sent[c])
<1>1. PICK end \in (first + 1)..(MaxSeq + 1) :
         /\ Run(first + 1, end)
         /\ Popped(first + 1, end)
         /\ Write(c, first, end)
         /\ next_seq' = end
  BY DEF WriteRun
<1>2. first \in Nat /\ end \in Nat /\ first < end /\ end <= MaxSeq + 1
  BY <1>1, PacketAssumption DEF Seqs
<1>3. Len(sent'[c]) = end /\ \A d \in Posts \ {c} : sent'[d] = sent[d]
  BY <1>1, <1>2, WriteStep
<1>4. sent'[c] # <<>> /\ c # None
  BY <1>2, <1>3, PacketAssumption
<1>5. Reopened => Reopened'
  BY <1>3, <1>4 DEF Reopened
<1>6. closed' = closed /\ accepted' = accepted \cup {first}
  BY DEF WriteRun
<1>7. SUFFICES ASSUME ~Reopened', ~closed'
               PROVE  /\ next_seq' \notin seq_buf'
                      /\ accepted' \subseteq seq_buf' \cup 0..(next_seq' - 1)
  BY <1>1, <1>3, <1>4 DEF LossInv
<1>8. ~Reopened /\ ~closed
  BY <1>5, <1>6, <1>7, Zenon
<1>9. writer \in {None, c}
  <2>1. writer \in Posts \cup {None}
    BY DEF IInv, TypeOK
  <2>2. writer \in Posts \ {c} => Reopened'
    BY <1>3, <1>4, PacketAssumption DEF Reopened, LossInv
  <2>3. QED
    BY <1>7, <2>1, <2>2
<1>10. accepted \subseteq seq_buf \cup 0..(first - 1)
  <2>1. CASE writer = None
    BY <1>8, <2>1 DEF LossInv
  <2>2. CASE writer = c
    BY <1>4, <1>8, <2>2 DEF LossInv
  <2>3. QED
    BY <1>9, <2>1, <2>2
<1>11. seq_buf' = seq_buf \ (first + 1)..(end - 1) /\ end \notin seq_buf
  BY <1>1 DEF Run, Popped
<1>12. QED
  <2>1. next_seq' \notin seq_buf'
    BY <1>1, <1>11
  <2>2. ASSUME NEW s \in accepted' PROVE s \in seq_buf' \cup 0..(end - 1)
    <3>1. s \in seq_buf \/ s \in 0..(first - 1) \/ s = first
      BY <1>6, <1>10
    <3>2. s \in seq_buf => s \in seq_buf' \/ s \in (first + 1)..(end - 1)
      BY <1>11
    <3>3. QED
      BY <1>2, <3>1, <3>2
  <2>3. QED
    BY <1>1, <2>1, <2>2

\* A run that is cut short ends the session.
LEMMA CutLoss ==
  ASSUME IInv, LossInv, NEW r \in Posts, NEW c \in Posts, NEW stop \in Nat,
         Len(sent[c]) + 1 <= stop, stop <= MaxSeq,
         WriteCut(r, c, Len(sent[c]), stop), writer' = c
  PROVE  LossInv'
<1>1. stop \in Nat /\ Len(sent[c]) <= stop /\ stop <= MaxSeq + 1 /\ Len(sent[c]) \in Nat
  BY PacketAssumption DEF IInv, TypeOK
<1>2. Len(sent'[c]) = stop
  BY <1>1, WriteStep DEF WriteCut
<1>3. sent'[c] # <<>> /\ c # None
  BY <1>1, <1>2, PacketAssumption
<1>4. closed'
  BY Zenon DEF WriteCut
<1>5. QED
  BY <1>3, <1>4 DEF LossInv

\* Every step keeps the accepted packets.
LEMMA StepLoss == IInv /\ LossInv /\ [Next]_vars => LossInv'
<1> SUFFICES ASSUME IInv, LossInv, [Next]_vars PROVE LossInv'
  OBVIOUS
<1>1. CASE UNCHANGED vars \/ TornDown \/ \E c \in Posts : Breaks(c)
  <2>1. UNCHANGED <<sent, writer, next_seq, seq_buf, accepted>>
    BY <1>1 DEF vars, TornDown, Breaks, sessionVars
  <2>2. closed => closed'
    BY <1>1, Zenon DEF vars, TornDown, Breaks
  <2>3. QED
    BY <2>1, <2>2, SilentLoss
<1>2. ASSUME NEW r \in Posts, Handler(r) PROVE LossInv'
  <2>0. SeqOf(r) \in Seqs /\ SeqOf(r) \in Nat /\ MaxSeq \in Nat
    BY PacketAssumption DEF SeqOf, Seqs
  <2>1. CASE Post(r) \/ Abort(r) \/ StartConnect(r) \/ Drained(r) \/ Overflow(r)
              \/ TransportClosing(r) \/ Refused(r)
    <3>1. UNCHANGED <<sent, writer, next_seq, seq_buf, accepted>>
      BY <2>1 DEF Post, Abort, StartConnect, Drained, Overflow, TransportClosing, Refused,
                  Fail, sessionVars
    <3>2. closed => closed'
      BY <2>1, Zenon DEF Post, Abort, StartConnect, Drained, Overflow, TransportClosing,
                         Refused, Fail
    <3>3. QED
      BY <3>1, <3>2, SilentLoss
  <2>2. CASE Hold(r)
    <3>1. /\ UNCHANGED <<sent, writer, next_seq>>
          /\ seq_buf' = seq_buf \cup {SeqOf(r)}
          /\ accepted' = accepted \cup {SeqOf(r)}
          /\ writer # None => SeqOf(r) # next_seq
      BY <2>2 DEF Hold, Early, Turn
    <3>2. closed => closed'
      BY <2>2, Zenon DEF Hold
    <3>3. QED
      BY <3>1, <3>2, SilentLoss
  <2>3. CASE Connected(r)
    <3>1. sent[r] = <<>> /\ Len(sent[r]) = 0 /\ writer' = r /\ 0 \in Seqs
      BY <2>0, <2>3 DEF Connected, IInv, WriterInv, Seqs
    <3>2. CASE WriteRun(r, 0)
      BY <3>1, <3>2, RunLoss
    <3>3. ASSUME NEW stop \in 1..MaxSeq, WriteCut(r, r, 0, stop) PROVE LossInv'
      <4>1. stop \in Nat /\ Len(sent[r]) + 1 <= stop /\ stop <= MaxSeq
        BY <2>0, <3>1, <3>3
      <4>2. QED
        BY <3>1, <3>3, <4>1, CutLoss
    <3>4. QED
      BY <2>3, <3>2, <3>3 DEF Connected
  <2>4. CASE InOrder(r)
    <3>1. writer \in Posts \ broken /\ Len(sent[writer]) = SeqOf(r) /\ UNCHANGED writer
      BY <2>0, <2>4 DEF InOrder, Turn, IInv, WriterInv, TypeOK
    <3>2. CASE WriteRun(writer, SeqOf(r))
      BY <2>0, <3>1, <3>2, RunLoss
    <3>3. ASSUME NEW stop \in (SeqOf(r) + 1)..MaxSeq, WriteCut(r, writer, SeqOf(r), stop)
          PROVE  LossInv'
      <4>1. stop \in Nat /\ Len(sent[writer]) + 1 <= stop /\ stop <= MaxSeq
        BY <2>0, <3>1, <3>3
      <4>2. QED
        BY <3>1, <3>3, <4>1, CutLoss
    <3>4. QED
      BY <2>4, <3>2, <3>3 DEF InOrder
  <2>5. QED
    BY <1>2, <2>1, <2>2, <2>3, <2>4 DEF Handler
<1>3. QED
  BY <1>1, <1>2 DEF Next

\* packet_up_upload drops no packet it has answered for, as long as its session
\* lives and packet 0 was connected once.
THEOREM Kept == Spec => []NothingLost
<1>1. IInv /\ LossInv => NothingLost
  <2> SUFFICES ASSUME IInv, LossInv, ~Reopened, ~closed, NEW s \in accepted, s \notin seq_buf
               PROVE  writer # None /\ \E i \in 1..Len(sent[writer]) : sent[writer][i] = s
    BY DEF NothingLost
  <2>1. writer # None
    BY DEF LossInv
  <2>2. writer \in Posts /\ sent[writer] \in Seq(Seqs) /\ s \in 0..(Len(sent[writer]) - 1)
    BY <2>1 DEF LossInv, IInv, TypeOK
  <2>3. s + 1 \in 1..Len(sent[writer]) /\ sent[writer][s + 1] = s
    BY <2>2 DEF IInv, EachStreamIsPrefix
  <2>4. QED
    BY <2>1, <2>3
<1>2. QED
  BY InitInv, InitLoss, StepInv, StepLoss, <1>1, PTL DEF Spec

\* The loop of packet_up_upload leaves no packet behind: once all are accepted
\* and there is a connection, all have been written.
THEOREM Complete == Spec => []CompleteStream
<1>1. IInv /\ LossInv => CompleteStream
  <2> SUFFICES ASSUME IInv, LossInv, ~Reopened, ~closed, writer # None, accepted = Seqs
               PROVE  Len(sent[writer]) = MaxSeq + 1
    BY DEF CompleteStream
  <2>1. /\ next_seq = Len(sent[writer]) /\ next_seq \notin seq_buf
        /\ Seqs \subseteq seq_buf \cup 0..(next_seq - 1)
        /\ next_seq \in 0..(MaxSeq + 1)
    BY DEF LossInv, IInv, TypeOK
  <2>2. next_seq \notin Seqs
    BY <2>1
  <2>3. QED
    BY <2>1, <2>2, PacketAssumption DEF Seqs
<1>2. QED
  BY InitInv, InitLoss, StepInv, StepLoss, <1>1, PTL DEF Spec

-----------------------------------------------------------------------------
(* The buffer and its caps.                                                *)

\* What is held back is a finite set of packets, its bytes a sum over it.
HeldFacts ==
  /\ IsFiniteSet(seq_buf)
  /\ BytesHeld = SumOf(Size, seq_buf)
  /\ Cardinality(seq_buf) \in Nat /\ BytesHeld \in Nat
  /\ \A s \in seq_buf : Size[s] \in Nat

\* Whatever the buffer holds, given its type.
LEMMA HeldIsSum == TypeOK => HeldFacts
<1> SUFFICES ASSUME TypeOK PROVE HeldFacts
  OBVIOUS
<1>1. seq_buf \subseteq 0..MaxSeq /\ MaxSeq \in Nat /\ 0 \in Int /\ MaxSeq \in Int
  BY PacketAssumption DEF TypeOK, Seqs
<1>2. IsFiniteSet(0..MaxSeq)
  BY <1>1, FS_Interval
<1>3. IsFiniteSet(seq_buf)
  BY <1>1, <1>2, FS_Subset
<1>4. BytesHeld = SumOf(Size, seq_buf)
  BY DEF BytesHeld, SumOf, MapThenSumSet, MapThenFoldSet
<1>5. \A s \in seq_buf : Size[s] \in Nat
  BY <1>1, PacketAssumption DEF Seqs
<1>6. SumOf(Size, seq_buf) \in Nat
  BY <1>3, <1>5, SumNat
<1>7. Cardinality(seq_buf) \in Nat
  BY <1>3, FS_CardinalityType
<1>8. QED
  BY <1>3, <1>4, <1>5, <1>6, <1>7 DEF HeldFacts

\* The initial buffer is empty.
LEMMA InitHeld == Init => HeldInv
<1> SUFFICES ASSUME Init PROVE HeldInv
  OBVIOUS
<1>1. TypeOK
  BY InitInv DEF IInv
<1>2. seq_buf = {} /\ buf_bytes = 0
  BY DEF Init
<1>3. SumOf(Size, {}) = 0
  BY FS_EmptySet, SumRec
<1>4. Cardinality({}) = 0
  BY FS_EmptySet
<1>5. QED
  BY <1>1, <1>2, <1>3, <1>4, HeldIsSum, PacketAssumption DEF HeldFacts, HeldInv

\* Taking packets out of the buffer lowers both counts; the counter stays.
LEMMA PopHeld ==
  ASSUME TypeOK, TypeOK', HeldInv, seq_buf' \subseteq seq_buf, UNCHANGED buf_bytes
  PROVE  HeldInv'
<1>1. /\ IsFiniteSet(seq_buf) /\ \A s \in seq_buf : Size[s] \in Nat
      /\ BytesHeld = SumOf(Size, seq_buf)
      /\ Cardinality(seq_buf) \in Nat /\ BytesHeld \in Nat
  BY HeldIsSum DEF HeldFacts
<1>2. /\ BytesHeld' = SumOf(Size, seq_buf')
      /\ Cardinality(seq_buf') \in Nat /\ BytesHeld' \in Nat
  <2>1. HeldFacts'
    BY HeldIsSum, PTL
  <2>2. QED
    BY <2>1 DEF HeldFacts
<1>3. Cardinality(seq_buf') <= Cardinality(seq_buf)
  BY <1>1, FS_Subset
<1>4. SumOf(Size, seq_buf') <= SumOf(Size, seq_buf)
  BY <1>1, SumSubset
<1>5. buf_bytes \in Int /\ MaxEntries \in Int
  BY PacketAssumption DEF TypeOK
<1>6. QED
  BY <1>1, <1>2, <1>3, <1>4, <1>5 DEF HeldInv

\* A packet is held back only while it fits; one held already changes nothing
\* but the counter.
LEMMA HoldHeld ==
  ASSUME TypeOK, TypeOK', HeldInv, NEW r \in Posts, Hold(r)
  PROVE  HeldInv'
<1> DEFINE s == SeqOf(r)
<1>1. s \in Seqs /\ Size[s] \in Nat
  BY PacketAssumption DEF SeqOf
<1>2. /\ Cardinality(seq_buf) < MaxEntries
      /\ seq_buf' = seq_buf \cup {s}
      /\ buf_bytes' = buf_bytes + Size[s]
  BY DEF Hold, Fits
<1>3. /\ IsFiniteSet(seq_buf) /\ \A x \in seq_buf : Size[x] \in Nat
      /\ BytesHeld = SumOf(Size, seq_buf)
      /\ Cardinality(seq_buf) \in Nat /\ BytesHeld \in Nat
  BY HeldIsSum DEF HeldFacts
<1>4. BytesHeld' = SumOf(Size, seq_buf') /\ BytesHeld' \in Nat
  <2>1. HeldFacts'
    BY HeldIsSum, PTL
  <2>2. QED
    BY <2>1 DEF HeldFacts
<1>5. buf_bytes \in Int /\ MaxEntries \in Int
  BY PacketAssumption DEF TypeOK
<1> HIDE DEF s
<1>6. Cardinality(seq_buf') <= Cardinality(seq_buf) + 1
  <2>1. Cardinality(seq_buf \cup {s}) =
          IF s \in seq_buf THEN Cardinality(seq_buf) ELSE Cardinality(seq_buf) + 1
    BY <1>3, FS_AddElement
  <2>2. QED
    BY <1>2, <1>3, <2>1
<1>7. CASE s \in seq_buf
  <2>1. seq_buf' = seq_buf
    BY <1>2, <1>7
  <2>2. QED
    BY <1>1, <1>2, <1>3, <1>4, <1>5, <2>1 DEF HeldInv
<1>8. CASE s \notin seq_buf
  <2>1. SumOf(Size, seq_buf \cup {s}) = Size[s] + SumOf(Size, seq_buf)
    BY <1>1, <1>3, <1>8, SumAdd
  <2>2. Cardinality(seq_buf') <= MaxEntries
    <3>1. Cardinality(seq_buf') \in Nat
      BY <1>2, <1>3, FS_AddElement, FS_CardinalityType
    <3>2. QED
      BY <1>2, <1>3, <1>5, <1>6, <3>1
  <2>3. BytesHeld' <= buf_bytes'
    BY <1>1, <1>2, <1>3, <1>4, <1>5, <2>1 DEF HeldInv
  <2>4. QED
    BY <2>2, <2>3 DEF HeldInv
<1>9. QED
  BY <1>7, <1>8

\* Every step keeps what is held back within the counter and the caps.
LEMMA StepHeld == IInv /\ HeldInv /\ [Next]_vars => HeldInv'
<1> SUFFICES ASSUME IInv, HeldInv, [Next]_vars PROVE HeldInv'
  OBVIOUS
<1>1. TypeOK /\ TypeOK'
  BY StepInv DEF IInv
<1>2. CASE UNCHANGED vars \/ TornDown \/ \E c \in Posts : Breaks(c)
  <2>1. UNCHANGED <<seq_buf, buf_bytes>>
    BY <1>2 DEF vars, TornDown, Breaks, sessionVars
  <2>2. QED
    BY <1>1, <2>1, PopHeld
<1>3. ASSUME NEW r \in Posts, Handler(r) PROVE HeldInv'
  <2>1. CASE Post(r) \/ Abort(r) \/ StartConnect(r) \/ Drained(r) \/ Overflow(r)
              \/ TransportClosing(r) \/ Refused(r)
    <3>1. UNCHANGED <<seq_buf, buf_bytes>>
      BY <2>1 DEF Post, Abort, StartConnect, Drained, Overflow, TransportClosing, Refused,
                  Fail, sessionVars
    <3>2. QED
      BY <1>1, <3>1, PopHeld
  <2>2. CASE Hold(r)
    BY <1>1, <2>2, HoldHeld
  <2>3. CASE Connected(r) \/ InOrder(r)
    <3>1. seq_buf' \subseteq seq_buf /\ UNCHANGED buf_bytes
      BY <2>3 DEF Connected, InOrder, WriteRun, WriteCut, Popped
    <3>2. QED
      BY <1>1, <3>1, PopHeld
  <2>4. QED
    BY <1>3, <2>1, <2>2, <2>3 DEF Handler
<1>4. QED
  BY <1>2, <1>3 DEF Next

\* The reorder buffer of a packet-up session stays within MAX_SEQ_BUF_ENTRIES
\* and MAX_SEQ_BUF_BYTES, counted from what it really holds.
THEOREM Capped == Spec => []BufferCapped
<1>1. IInv /\ HeldInv => BufferCapped
  <2> SUFFICES ASSUME IInv, HeldInv PROVE BufferCapped
    OBVIOUS
  <2>1. TypeOK
    BY DEF IInv
  <2>2. BytesHeld \in Nat /\ buf_bytes \in 0..MaxBytes /\ MaxBytes \in Nat
    BY <2>1, HeldIsSum, PacketAssumption DEF HeldFacts, TypeOK
  <2>3. QED
    BY <2>2 DEF HeldInv, BufferCapped
<1>2. QED
  BY InitInv, InitHeld, StepInv, StepHeld, <1>1, PTL DEF Spec

=============================================================================
