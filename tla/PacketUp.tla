------------------------------ MODULE PacketUp ------------------------------
(***************************************************************************)
(* The uplink of one packet-up session: its packets come as POST requests  *)
(* that are handled concurrently and out of order, are put in order by     *)
(* seq_buf and next_seq, and written to the upstream connection that       *)
(* packet 0 opens.                                                         *)
(*                                                                         *)
(* An action is the code of packet_up_upload between two of its awaits:    *)
(* the request body, the connect, the final drain.  The session object is  *)
(* the one the request got before its first await, torn down or not.       *)
(***************************************************************************)
EXTENDS Integers, Sequences, FiniteSets, FiniteSetsExt

CONSTANTS
  MaxSeq,      \* the last packet of the client's stream
  Posts,       \* the POSTs: <<seq, copy>>, a repeated packet has several
  Size,        \* the length of each packet
  MaxEntries,  \* MAX_SEQ_BUF_ENTRIES
  MaxBytes,    \* MAX_SEQ_BUF_BYTES
  None

Seqs == 0..MaxSeq

ASSUME PacketAssumption ==
  /\ MaxSeq \in Nat /\ MaxEntries \in Nat /\ MaxBytes \in Nat
  /\ Posts \subseteq Seqs \X Nat
  /\ Size \in [Seqs -> Nat]
  /\ None \notin Posts

VARIABLES
  pc,        \* where the handler of each POST stands
  seq_buf,   \* the packets held back (each is its own body)
  buf_bytes, \* sess["seq_buf_bytes"]
  next_seq,  \* sess["next_seq"]
  writer,    \* sess["writer"], as the POST that opened the connection
  sent,      \* what was written to the connection each POST opened
  broken,    \* connections that are closing
  closed,    \* the session has been torn down
  accepted   \* history: packets that were buffered or written

sessionVars == <<seq_buf, buf_bytes, next_seq, writer, sent, accepted>>
vars == <<pc, seq_buf, buf_bytes, next_seq, writer, sent, broken, closed, accepted>>

SeqOf(r) == r[1]

Init ==
  /\ pc = [r \in Posts |-> "unsent"]
  /\ seq_buf = {} /\ buf_bytes = 0
  /\ next_seq = 0
  /\ writer = None
  /\ sent = [r \in Posts |-> <<>>]
  /\ broken = {} /\ closed = FALSE
  /\ accepted = {}

-----------------------------------------------------------------------------
(* The reorder buffer.                                                     *)

\* Mutants: the caps are tested after the fact; the byte cap is forgotten.
FitsAlmost(s) ==
  Cardinality(seq_buf) <= MaxEntries /\ buf_bytes + Size[s] <= MaxBytes
FitsEntries(s) == Cardinality(seq_buf) < MaxEntries

Fits(s) ==
  Cardinality(seq_buf) < MaxEntries /\ buf_bytes + Size[s] <= MaxBytes

\* Mutant: only one packet follows.
OneMore(from, end) == end = IF from \in seq_buf THEN from + 1 ELSE from

\* The loop that pops packets from the buffer starts at `from` and stops before
\* `end`: the first packet that is not there.
Run(from, end) == end >= from /\ from..(end - 1) \subseteq seq_buf /\ end \notin seq_buf

\* Mutant: the buffer is emptied, not popped.
DropBuffer(from, end) == seq_buf' = {}

\* What the loop popped.  seq_buf_bytes is left alone.
Popped(from, end) == seq_buf' = seq_buf \ from..(end - 1)

\* The packets first, first + 1, ..., end - 1.
Consecutive(first, end) == [i \in 1..(end - first) |-> first + i - 1]

\* Mutant: a packet is written as it comes.
TurnAlways(s) == writer # None
Turn(s) == writer # None /\ s = next_seq

\* The packet has to wait: no connection and not packet 0, or not the next one.
Early(s) == IF writer = None THEN s # 0 ELSE ~Turn(s)

-----------------------------------------------------------------------------
(* packet_up_upload.                                                       *)

Goto(r, stage) == pc' = [pc EXCEPT ![r] = stage]

\* A request that finds the session torn down gets another session.
Post(r) ==
  /\ pc[r] = "unsent" /\ ~closed
  /\ Goto(r, "body")
  /\ UNCHANGED <<sessionVars, broken, closed>>

\* The client disconnects mid-body, "session kept".
Abort(r) ==
  /\ pc[r] = "body"
  /\ Goto(r, "ended")
  /\ UNCHANGED <<sessionVars, broken, closed>>

Hold(r) ==
  /\ pc[r] = "body" /\ Early(SeqOf(r)) /\ Fits(SeqOf(r))
  /\ seq_buf' = seq_buf \cup {SeqOf(r)}
  /\ buf_bytes' = buf_bytes + Size[SeqOf(r)]
  /\ accepted' = accepted \cup {SeqOf(r)}
  /\ Goto(r, IF writer = None THEN "ended" ELSE "draining")
  /\ UNCHANGED <<next_seq, writer, sent, broken, closed>>

\* Every failure ends in a teardown of the session.
Fail(r) ==
  /\ Goto(r, "ended")
  /\ closed' = TRUE
  /\ UNCHANGED <<sessionVars, broken>>

Overflow(r) ==
  /\ pc[r] = "body" /\ Early(SeqOf(r)) /\ ~Fits(SeqOf(r))
  /\ Fail(r)

StartConnect(r) ==
  /\ pc[r] = "body" /\ writer = None /\ SeqOf(r) = 0
  /\ Goto(r, "connecting")
  /\ UNCHANGED <<sessionVars, broken, closed>>

\* The packets from `first` to before `end` are written to connection c.
Write(c, first, end) == sent' = [sent EXCEPT ![c] = @ \o Consecutive(first, end)]

\* Packet `first` is written to c, and those in the buffer that follow it.
WriteRun(c, first) ==
  /\ \E end \in (first + 1)..(MaxSeq + 1) :
       /\ Run(first + 1, end)
       /\ Popped(first + 1, end)
       /\ Write(c, first, end)
       /\ next_seq' = end
  /\ accepted' = accepted \cup {first}
  /\ UNCHANGED <<buf_bytes, broken, closed>>

\* A write fails in the loop, which closes the transport: packet `stop` is
\* popped, found unwritable and dropped.
WriteCut(r, c, first, stop) ==
  /\ (first + 1)..stop \subseteq seq_buf
  /\ Popped(first + 1, stop + 1)
  /\ Write(c, first, stop)
  /\ broken' = broken \cup {c}
  /\ closed' = TRUE
  /\ accepted' = accepted \cup {first}
  /\ Goto(r, "ended")
  /\ UNCHANGED buf_bytes

\* The upstream is connected, packet 0 is written; next_seq is set last.
Connected(r) ==
  /\ pc[r] = "connecting"
  /\ writer' = r
  /\ \/ WriteRun(r, 0) /\ Goto(r, "ended")
     \/ (\E stop \in 1..MaxSeq : WriteCut(r, r, 0, stop)) /\ UNCHANGED next_seq

\* It is the packet's turn; next_seq counts every write.
InOrder(r) ==
  /\ pc[r] = "body" /\ Turn(SeqOf(r)) /\ writer \notin broken
  /\ UNCHANGED writer
  /\ \/ WriteRun(writer, SeqOf(r)) /\ Goto(r, "draining")
     \/ \E stop \in (SeqOf(r) + 1)..MaxSeq :
          WriteCut(r, writer, SeqOf(r), stop) /\ next_seq' = stop

TransportClosing(r) ==
  /\ pc[r] = "body" /\ Turn(SeqOf(r)) /\ writer \in broken
  /\ Fail(r)

\* Quota refusal or oversize body; failed connect; failed drain.
Refused(r) == pc[r] \in {"body", "connecting", "draining"} /\ Fail(r)

Drained(r) ==
  /\ pc[r] = "draining"
  /\ Goto(r, "ended")
  /\ UNCHANGED <<sessionVars, broken, closed>>

-----------------------------------------------------------------------------
(* The rest of the world.                                                  *)

\* The peer resets the connection, or a teardown closes it.
Breaks(c) ==
  /\ sent[c] # <<>> /\ c \notin broken
  /\ broken' = broken \cup {c}
  /\ UNCHANGED <<pc, sessionVars, closed>>

\* A kick, the reaper, the downlink pump or a leaving client.
TornDown ==
  /\ ~closed /\ closed' = TRUE
  /\ UNCHANGED <<pc, sessionVars, broken>>

Handler(r) ==
  \/ Post(r) \/ Abort(r) \/ Hold(r) \/ Overflow(r) \/ StartConnect(r) \/ Connected(r)
  \/ InOrder(r) \/ TransportClosing(r) \/ Refused(r) \/ Drained(r)

Next == TornDown \/ \E r \in Posts : Handler(r) \/ Breaks(r)

Spec == Init /\ [][Next]_vars

-----------------------------------------------------------------------------
(* Properties.                                                             *)

TypeOK ==
  /\ pc \in [Posts -> {"unsent", "body", "connecting", "draining", "ended"}]
  /\ seq_buf \subseteq Seqs
  /\ buf_bytes \in 0..MaxBytes
  /\ next_seq \in 0..(MaxSeq + 1)
  /\ writer \in Posts \cup {None}
  /\ sent \in [Posts -> Seq(Seqs)]
  /\ broken \subseteq Posts
  /\ closed \in BOOLEAN
  /\ accepted \subseteq Seqs

\* Whatever order, repetition or loss the requests suffer, what an upstream
\* connection is sent is a prefix of the client's stream: nothing out of
\* order, left out or twice.
EachStreamIsPrefix ==
  \A c \in Posts : \A i \in 1..Len(sent[c]) : sent[c][i] = i - 1

\* Packet 0 was posted again before the first one had connected.
Reopened == \E c, d \in Posts : c # d /\ sent[c] # <<>> /\ sent[d] # <<>>

\* While a session lives, a packet it accepted is either held back or on the connection in use.
NothingLost ==
  (~Reopened /\ ~closed) => \A s \in accepted :
    s \in seq_buf \/ (writer # None /\ \E i \in 1..Len(sent[writer]) : sent[writer][i] = s)

\* Once every packet is accepted and there is a connection, all have been
\* written: none is left behind in the buffer.
CompleteStream ==
  (~Reopened /\ ~closed /\ writer # None /\ accepted = Seqs) => Len(sent[writer]) = MaxSeq + 1

BytesHeld == MapThenSumSet(LAMBDA s : Size[s], seq_buf)

\* The buffer stays within its caps, in entries and in bytes.
BufferCapped == Cardinality(seq_buf) <= MaxEntries /\ BytesHeld <= MaxBytes

\* A session is torn down for overflow only when its buffer could not take
\* the packet.
OverflowOnlyWhenFull ==
  [][\A r \in Posts : Overflow(r) =>
       \/ Cardinality(seq_buf) >= MaxEntries
       \/ BytesHeld + Size[SeqOf(r)] > MaxBytes]_vars

-----------------------------------------------------------------------------
(* The inductive invariant behind the order of a stream.                   *)

\* A POST that has not connected has sent nothing, one that has is over, and
\* next_seq counts what the writer in use has been sent, until it breaks.
WriterInv ==
  /\ \A r \in Posts : pc[r] \in {"unsent", "body", "connecting"} => sent[r] = <<>>
  /\ writer # None => pc[writer] = "ended"
  /\ writer \in Posts \ broken => next_seq = Len(sent[writer])

IInv == TypeOK /\ WriterInv /\ EachStreamIsPrefix

\* Given IInv, the inductive invariant behind NothingLost and CompleteStream:
\* only the writer of a session that was not reopened has been sent anything,
\* next_seq is the first packet it lacks, and that one is not held back.
LossInv ==
  /\ writer = None => \A c \in Posts : sent[c] = <<>>
  /\ writer # None => sent[writer] # <<>>
  /\ (~Reopened /\ ~closed) =>
       IF writer = None THEN accepted \subseteq seq_buf
       ELSE /\ next_seq = Len(sent[writer])
            /\ next_seq \notin seq_buf
            /\ accepted \subseteq seq_buf \cup 0..(next_seq - 1)

\* The inductive invariant behind BufferCapped: what is held back is never more
\* than the byte counter says.
HeldInv == Cardinality(seq_buf) <= MaxEntries /\ BytesHeld <= buf_bytes

=============================================================================
