---------------------------- MODULE XHttpProofs ----------------------------
(* Proofs about who owns an XHTTP session's slot and its upstream. *)
EXTENDS XHttpSession, TLAPS

\* The initial state satisfies the inductive invariant.
LEMMA InitInv == Init => IInv
<1> SUFFICES ASSUME Init PROVE IInv
  OBVIOUS
<1>1. AnyKey \in Keys /\ AnySession \in Sessions
  BY SessionAssumption DEF AnyKey, AnySession
<1>2. TypeOK
  <2>1. locked \in BOOLEAN
    BY Zenon DEF Init
  <2>2. QED
    BY <1>1, <2>1 DEF Init, TypeOK
<1>3. TableInv /\ UploadInv /\ OpenUpstreamHasOwner
  BY <1>1 DEF Init, TableInv, UploadInv, OpenUpstreamHasOwner
<1>4. QED
  BY <1>2, <1>3 DEF IInv

\* The types of what teardown and get_or_create_session change.
TableOK ==
  /\ table \in [Keys -> Sessions \cup {None}]
  /\ key \in [Sessions -> Keys]
  /\ stage \in [Sessions -> {"new", "live", "awaiting", "closing", "gone"}]
  /\ writer \in [Sessions -> Uploads \cup {None}]
  /\ task \in [Sessions -> Uploads \cup {None}]
  /\ idle \subseteq Sessions
  /\ killers \subseteq Sessions

\* teardown moves at most one session on, and finishes only one that has no
\* writer.
LEMMA TeardownKeeps ==
  ASSUME TableOK, TableInv, NEW k \in Keys, Teardown(k)
  PROVE  /\ TableOK' /\ TableInv'
         /\ UNCHANGED <<key, writer, locked, kicked>>
         /\ \A s \in Sessions :
              \/ stage'[s] = stage[s]
              \/ stage[s] = "live" /\ stage'[s] = "awaiting"
              \/ stage[s] = "live" /\ stage'[s] = "gone" /\ writer[s] = None
<1>1. CASE UNCHANGED <<sessionVars, lockVars>>
  BY <1>1 DEF TableOK, TableInv, sessionVars, lockVars
<1>2. CASE table[k] # None
  <2>1. PICK s \in Sessions : s = table[k]
    BY <1>2 DEF TableOK
  <2>2. stage[s] = "live" /\ key[s] = k /\ s # None
    BY <1>2, <2>1 DEF TableInv
  <2>3. PICK next \in {"awaiting", "gone"} :
          /\ stage' = [stage EXCEPT ![s] = next]
          /\ next = "gone" => writer[s] = None
          /\ table' = [table EXCEPT ![k] = None]
          /\ idle' = idle \ {s}
          /\ UNCHANGED <<key, writer, locked, kicked>>
          /\ killers' \subseteq killers
          /\ task' = task \/ task' = [task EXCEPT ![s] = writer[s]]
    BY <1>2, <2>1, <2>2 DEF Teardown, Unregister, lockVars
  <2>4. TableOK'
    BY <2>3 DEF TableOK
  <2>5. TableInv'
    BY <2>1, <2>2, <2>3, SessionAssumption DEF TableOK, TableInv
  <2>6. QED
    BY <2>2, <2>3, <2>4, <2>5 DEF TableOK
<1>3. QED
  BY <1>1, <1>2 DEF Teardown

\* get_or_create_session returns a session that lives.
LEMMA GetKeeps ==
  ASSUME TableOK, TableInv, NEW k \in Keys, NEW s \in Sessions, GetOrCreate(k, s)
  PROVE  /\ TableOK' /\ TableInv'
         /\ UNCHANGED <<writer, locked, kicked>>
         /\ stage'[s] = "live"
         /\ \A t \in Sessions \ {s} : stage'[t] = stage[t]
<1>0. s # None
  BY SessionAssumption
<1>1. CASE table[k] = s /\ idle' = idle \ {s}
           /\ UNCHANGED <<table, key, stage, writer, task, lockVars>>
  BY <1>0, <1>1 DEF TableOK, TableInv, lockVars
<1>2. CASE table[k] = None /\ Admit(k, s)
  <2>1. /\ stage[s] = "new" /\ stage' = [stage EXCEPT ![s] = "live"]
        /\ table' = [table EXCEPT ![k] = s] /\ key' = [key EXCEPT ![s] = k]
        /\ killers' = killers \cup {s}
        /\ UNCHANGED <<idle, writer, task, locked, kicked>>
    BY <1>2 DEF Admit
  <2>2. TableOK'
    BY <2>1 DEF TableOK
  <2>3. /\ stage'[s] = "live" /\ table'[k] = s /\ key'[s] = k
        /\ \A t \in Sessions \ {s} : stage'[t] = stage[t] /\ key'[t] = key[t]
        /\ \A j \in Keys \ {k} : table'[j] = table[j]
    BY <2>1 DEF TableOK
  <2>4. ASSUME NEW j \in Keys, table'[j] # None
        PROVE  stage'[table'[j]] = "live" /\ key'[table'[j]] = j
    <3>1. CASE j = k
      BY <2>3, <3>1
    <3>2. CASE j # k
      <4>1. PICK t \in Sessions : t = table[j]
        BY <2>3, <2>4, <3>2 DEF TableOK
      <4>2. t # None /\ stage[t] = "live" /\ key[t] = j
        BY <2>3, <2>4, <3>2, <4>1 DEF TableInv
      <4>3. t # s
        BY <2>1, <4>2
      <4>4. QED
        BY <2>3, <3>2, <4>1, <4>2, <4>3
    <3>3. QED
      BY <3>1, <3>2
  <2>5. ASSUME NEW t \in Sessions, stage'[t] = "live"
        PROVE  table'[key'[t]] = t
    <3>1. CASE t = s
      BY <2>3, <3>1
    <3>2. CASE t # s
      <4>1. table[key[t]] = t /\ key'[t] = key[t] /\ key[t] \in Keys
        BY <2>3, <2>5, <3>2 DEF TableInv, TableOK
      <4>2. key[t] # k
        BY <1>2, <4>1, SessionAssumption
      <4>3. QED
        BY <2>3, <4>1, <4>2
    <3>3. QED
      BY <3>1, <3>2
  <2>6. TableInv'
    BY <2>4, <2>5 DEF TableInv
  <2>7. QED
    BY <2>1, <2>2, <2>3, <2>6
<1>3. QED
  BY <1>1, <1>2 DEF GetOrCreate

\* A step that leaves uploads and connections alone and moves sessions only as
\* teardown does, or to "live".
LEMMA StageStep ==
  ASSUME IInv, UNCHANGED <<writer, on, late>>, TypeOK', TableInv',
         \A s \in Sessions :
           \/ stage'[s] \in {stage[s], "live"}
           \/ stage[s] = "live" /\ stage'[s] = "awaiting"
           \/ stage[s] = "live" /\ stage'[s] = "gone" /\ writer[s] = None,
         \A u \in Uploads : conn'[u] = conn[u],
         \A u \in Uploads : pc'[u] = pc[u] \/ (pc[u] # "unsent" /\ pc'[u] # "unsent")
  PROVE  IInv'
<1>1. UploadInv'
  BY DEF IInv, TypeOK, UploadInv
<1>2. OpenUpstreamHasOwner'
  BY SessionAssumption DEF IInv, TypeOK, OpenUpstreamHasOwner
<1>3. QED
  BY <1>1, <1>2 DEF IInv

\* The types of what the sessions' table leaves out.
RestOK ==
  /\ clients \subseteq Sessions
  /\ pc \in [Uploads -> {"unsent", "reading", "connecting", "draining", "ended"}]
  /\ on \in [Uploads -> Sessions]
  /\ held \in [Uploads -> Uploads \cup {None}]
  /\ conn \in [Uploads -> {"none", "open", "closed"}]
  /\ pump \in [Uploads -> {"none", "running", "ended"}]
  /\ kicked \subseteq Sessions
  /\ doomed \subseteq Keys /\ stale \subseteq Keys
  /\ late \subseteq Uploads

\* The types, in the two groups that steps change.
LEMMA TypeParts == TypeOK <=> TableOK /\ RestOK /\ locked \in BOOLEAN
  BY Zenon DEF TypeOK, TableOK, RestOK

\* The same of the next state.
LEMMA TypePartsNext == TypeOK' <=> TableOK' /\ RestOK' /\ (locked \in BOOLEAN)'
  BY Zenon DEF TypeOK, TableOK, RestOK

\* A POST finds or makes its session.
LEMMA UploadStep ==
  ASSUME IInv, NEW u \in Uploads, NEW k \in Keys, NEW s \in Sessions, Upload(u, k, s)
  PROVE  IInv'
<1>1. TableOK /\ RestOK /\ locked \in BOOLEAN /\ TableInv
  BY TypeParts DEF IInv
<1>2. /\ TableOK' /\ TableInv' /\ stage'[s] = "live"
      /\ UNCHANGED <<writer, locked, kicked>>
      /\ \A t \in Sessions \ {s} : stage'[t] = stage[t]
  BY <1>1, GetKeeps DEF Upload
<1>3. /\ pc[u] = "unsent" /\ pc' = [pc EXCEPT ![u] = "reading"]
      /\ on' = [on EXCEPT ![u] = s]
      /\ held' = [held EXCEPT ![u] = IF u \in Streams THEN writer[s] ELSE None]
      /\ UNCHANGED <<clients, pump, conn, doomed, stale, late>>
  BY DEF Upload
<1>4. RestOK'
  <2>1. held' \in [Uploads -> Uploads \cup {None}]
    BY <1>1, <1>3 DEF RestOK, TableOK
  <2>2. QED
    BY <1>1, <1>2, <1>3, <2>1 DEF RestOK
<1>5. TypeOK'
  BY <1>1, <1>2, <1>4, TypePartsNext, Zenon
<1>6. UploadInv'
  BY <1>1, <1>2, <1>3 DEF IInv, UploadInv, RestOK
<1>7. OpenUpstreamHasOwner'
  <2>1. ASSUME NEW v \in Uploads, conn'[v] = "open"
        PROVE  \/ stage'[on'[v]] \in {"live", "awaiting"}
               \/ v \in late'
               \/ writer'[on'[v]] # v
    <3>1. CASE v = u
      BY <1>1, <1>2, <1>3, <3>1 DEF RestOK
    <3>2. CASE v # u
      BY <1>1, <1>2, <1>3, <2>1, <3>2 DEF RestOK, IInv, OpenUpstreamHasOwner
    <3>3. QED
      BY <3>1, <3>2
  <2>2. QED
    BY <2>1 DEF OpenUpstreamHasOwner
<1>8. QED
  BY <1>2, <1>5, <1>6, <1>7 DEF IInv

\* So does a GET.
LEMMA OpenDownlinkStep ==
  ASSUME IInv, NEW k \in Keys, NEW s \in Sessions, OpenDownlink(k, s)
  PROVE  IInv'
<1>1. TableOK /\ RestOK /\ locked \in BOOLEAN /\ TableInv
  BY TypeParts DEF IInv
<1>2. /\ TableOK' /\ TableInv' /\ stage'[s] = "live"
      /\ UNCHANGED <<writer, locked, kicked>>
      /\ \A t \in Sessions \ {s} : stage'[t] = stage[t]
  BY <1>1, GetKeeps DEF OpenDownlink
<1>3. clients' = clients \cup {s} /\ UNCHANGED <<pc, on, held, conn, pump, doomed, stale, late>>
  BY DEF OpenDownlink, uploadVars
<1>4. RestOK'
  BY <1>1, <1>2, <1>3 DEF RestOK
<1>5. TypeOK'
  BY <1>1, <1>2, <1>4, TypePartsNext, Zenon
<1>6. QED
  BY <1>2, <1>3, <1>5, StageStep

\* The steps that tear a session down.
LEMMA TeardownStep ==
  ASSUME IInv, NEW k \in Keys, Teardown(k), UNCHANGED <<on, conn, late>>, RestOK',
         \A u \in Uploads : pc'[u] = pc[u] \/ (pc[u] # "unsent" /\ pc'[u] # "unsent")
  PROVE  IInv'
<1>1. TableOK /\ locked \in BOOLEAN /\ TableInv
  BY TypeParts DEF IInv
<1>2. /\ TableOK' /\ TableInv'
      /\ UNCHANGED <<key, writer, locked, kicked>>
      /\ \A s \in Sessions :
           \/ stage'[s] = stage[s]
           \/ stage[s] = "live" /\ stage'[s] = "awaiting"
           \/ stage[s] = "live" /\ stage'[s] = "gone" /\ writer[s] = None
  BY <1>1, TeardownKeeps
<1>3. TypeOK'
  BY <1>1, <1>2, TypePartsNext, Zenon
<1>4. QED
  BY <1>2, <1>3, StageStep

\* An upload fails and tears its session down.
LEMMA UploadFailsStep ==
  ASSUME IInv, NEW u \in Uploads, UploadFails(u)
  PROVE  IInv'
<1>1. TableOK /\ RestOK /\ TableInv
  BY TypeParts DEF IInv
<1>2. /\ pc[u] # "unsent" /\ pc' = [pc EXCEPT ![u] = "ended"]
      /\ Teardown(key[on[u]]) /\ key[on[u]] \in Keys
      /\ UNCHANGED <<clients, on, held, conn, pump, doomed, stale, late>>
  BY <1>1 DEF UploadFails, RestOK, TableOK
<1>3. UNCHANGED kicked
  BY <1>1, <1>2, TeardownKeeps
<1>4. RestOK'
  BY <1>1, <1>2, <1>3 DEF RestOK
<1>5. QED
  BY <1>1, <1>2, <1>4, TeardownStep DEF RestOK

\* So does a pump that ends.
LEMMA PumpEndsStep ==
  ASSUME IInv, NEW u \in Uploads, PumpEnds(u)
  PROVE  IInv'
<1>1. TableOK /\ RestOK /\ TableInv
  BY TypeParts DEF IInv
<1>2. /\ pump' = [pump EXCEPT ![u] = "ended"]
      /\ Teardown(key[on[u]]) /\ key[on[u]] \in Keys
      /\ UNCHANGED <<clients, pc, on, held, conn, doomed, stale, late>>
  BY <1>1 DEF PumpEnds, RestOK, TableOK, uploadVars
<1>3. UNCHANGED kicked
  BY <1>1, <1>2, TeardownKeeps
<1>4. RestOK'
  BY <1>1, <1>2, <1>3 DEF RestOK
<1>5. QED
  BY <1>2, <1>4, TeardownStep

\* A scheduled teardown, or the reaper's.
LEMMA TeardownTaskStep ==
  ASSUME IInv, NEW k \in Keys, TeardownTask(k) \/ Reap(k)
  PROVE  IInv'
<1>1. TableOK /\ RestOK /\ TableInv
  BY TypeParts DEF IInv
<1>2. /\ doomed' \subseteq doomed /\ stale' \subseteq stale /\ Teardown(k)
      /\ UNCHANGED <<clients, pc, on, held, conn, pump, late>>
  BY DEF TeardownTask, Reap, uploadVars
<1>3. UNCHANGED kicked
  BY <1>1, <1>2, TeardownKeeps
<1>4. RestOK'
  BY <1>1, <1>2, <1>3 DEF RestOK
<1>5. QED
  BY <1>2, <1>4, TeardownStep

\* A connect returns: its upload becomes the writer, late or in time.
LEMMA ConnectedStep ==
  ASSUME IInv, NEW u \in Uploads, Connected(u)
  PROVE  IInv'
<1>1. TableOK /\ RestOK /\ locked \in BOOLEAN /\ TableInv
  BY TypeParts DEF IInv
<1>2. /\ pc[u] = "connecting"
      /\ conn' = [conn EXCEPT ![u] = "open"]
      /\ pump' = [pump EXCEPT ![u] = "running"]
      /\ writer' = [writer EXCEPT ![on[u]] = u]
      /\ held' = [held EXCEPT ![u] = IF u \in Streams THEN u ELSE None]
      /\ pc' = [pc EXCEPT ![u] = IF u \in Streams THEN "reading" ELSE "ended"]
      /\ late' = IF stage[on[u]] \in {"closing", "gone"} THEN late \cup {u} ELSE late
      /\ UNCHANGED <<table, key, stage, task, idle, clients, on, locked, killers,
                     kicked, doomed, stale>>
  BY DEF Connected, lockVars
<1>3. on[u] \in Sessions /\ stage[on[u]] # "new"
  BY <1>1, <1>2 DEF RestOK, IInv, UploadInv
<1>4. TableOK' /\ TableInv'
  BY <1>1, <1>2 DEF TableOK, TableInv
<1>5. PICK p \in {"reading", "ended"} : pc' = [pc EXCEPT ![u] = p]
  BY <1>2
<1>6. PICK h \in Uploads \cup {None} : held' = [held EXCEPT ![u] = h]
  BY <1>2
<1>7. RestOK'
  BY <1>1, <1>2, <1>5, <1>6 DEF RestOK
<1>8. TypeOK'
  BY <1>1, <1>2, <1>4, <1>7, TypePartsNext, Zenon
<1>9. UploadInv'
  BY <1>1, <1>2, <1>3, <1>5 DEF IInv, UploadInv, RestOK
<1>10. OpenUpstreamHasOwner'
  <2>1. ASSUME NEW v \in Uploads, conn'[v] = "open"
        PROVE  \/ stage'[on'[v]] \in {"live", "awaiting"}
               \/ v \in late'
               \/ writer'[on'[v]] # v
    <3>1. CASE v = u
      BY <1>1, <1>2, <1>3, <3>1 DEF TableOK
    <3>2. CASE v # u
      BY <1>1, <1>2, <2>1, <3>2 DEF RestOK, TableOK, IInv, OpenUpstreamHasOwner
    <3>3. QED
      BY <3>1, <3>2
  <2>2. QED
    BY <2>1 DEF OpenUpstreamHasOwner
<1>11. QED
  BY <1>4, <1>8, <1>9, <1>10 DEF IInv

\* teardown closes the writer it finds after its await.
LEMMA CloseWriterStep ==
  ASSUME IInv, NEW s \in Sessions, CloseWriter(s)
  PROVE  IInv'
<1>1. TableOK /\ RestOK /\ locked \in BOOLEAN /\ TableInv
  BY TypeParts DEF IInv
<1>2. /\ stage[s] = "awaiting"
      /\ conn' = [conn EXCEPT ![writer[s]] = "closed"]
      /\ stage' = [stage EXCEPT ![s] = "closing"]
      /\ UNCHANGED <<table, key, writer, task, idle, clients, pc, on, held, pump,
                     locked, killers, kicked, doomed, stale, late>>
  BY DEF CloseWriter, CloseConnection, uploadVars, lockVars
<1>3. TableOK' /\ TableInv'
  BY <1>1, <1>2, SessionAssumption DEF TableOK, TableInv
<1>4. RestOK'
  BY <1>1, <1>2 DEF RestOK
<1>5. TypeOK'
  BY <1>1, <1>2, <1>3, <1>4, TypePartsNext, Zenon
<1>6. \A u \in Uploads : conn'[u] = conn[u] \/ conn'[u] = "closed"
  BY <1>1, <1>2 DEF RestOK
<1>7. UploadInv'
  BY <1>1, <1>2 DEF IInv, UploadInv, RestOK, TableOK
<1>8. OpenUpstreamHasOwner'
  BY <1>1, <1>2, <1>6 DEF IInv, OpenUpstreamHasOwner, RestOK, TableOK
<1>9. QED
  BY <1>3, <1>5, <1>7, <1>8 DEF IInv

\* The remaining steps: they keep uploads that were sent sent, open no
\* connection, and move no session but out of the last stage.
LEMMA SmallStep ==
  ASSUME IInv, TableOK', RestOK', (locked \in BOOLEAN)', TableInv',
         UNCHANGED <<table, key, writer, on, conn, late>>,
         \A s \in Sessions : stage'[s] = stage[s] \/ (stage[s] = "closing" /\ stage'[s] = "gone"),
         \A u \in Uploads : pc'[u] = pc[u] \/ (pc[u] # "unsent" /\ pc'[u] # "unsent")
  PROVE  IInv'
<1>1. TypeOK'
  BY TypePartsNext, Zenon
<1>2. UploadInv'
  BY TypeParts DEF IInv, UploadInv, RestOK
<1>3. OpenUpstreamHasOwner'
  BY TypeParts DEF IInv, OpenUpstreamHasOwner, RestOK
<1>4. QED
  BY <1>1, <1>2, <1>3 DEF IInv

\* The other steps of an upload.
LEMMA OwnSteps ==
  ASSUME IInv,
         NEW u \in Uploads, StartConnect(u) \/ Relay(u) \/ UploadEnds(u)
  PROVE  IInv'
<1>1. TableOK /\ RestOK /\ locked \in BOOLEAN /\ TableInv
  BY TypeParts DEF IInv
<1>2. PICK p \in {"reading", "connecting", "draining", "ended"} : pc' = [pc EXCEPT ![u] = p]
  BY <1>1 DEF StartConnect, Relay, UploadEnds, CanRelay, RestOK
<1>3. /\ pc[u] # "unsent" /\ idle' \subseteq idle
      /\ UNCHANGED <<table, key, stage, writer, task, clients, on, held, conn, pump,
                     locked, killers, kicked, doomed, stale, late>>
  BY DEF StartConnect, Relay, UploadEnds, CanRelay, Seen, sessionVars, lockVars
<1>4. TableOK' /\ TableInv' /\ (locked \in BOOLEAN)'
  BY <1>1, <1>3 DEF TableOK, TableInv
<1>5. RestOK'
  BY <1>1, <1>2, <1>3 DEF RestOK
<1>6. QED
  BY <1>1, <1>2, <1>3, <1>4, <1>5, SmallStep DEF RestOK

\* The other steps of a session and of its client.
LEMMA SessionSteps ==
  ASSUME IInv, NEW s \in Sessions,
         WaitClosed(s) \/ Deliver(s) \/ ClientLeaves(s) \/ DownlinkEnds(s) \/ GoesIdle(s)
  PROVE  IInv'
<1>1. TableOK /\ RestOK /\ locked \in BOOLEAN /\ TableInv
  BY TypeParts DEF IInv
<1>2. /\ idle' \subseteq idle \cup {s} /\ clients' \subseteq clients
      /\ killers' \subseteq killers /\ doomed' \subseteq doomed \cup {key[s]}
      /\ UNCHANGED <<table, key, writer, task, pc, on, held, conn, pump, locked,
                     kicked, stale, late>>
  BY DEF WaitClosed, Deliver, ClientLeaves, DownlinkEnds, GoesIdle, Unregister,
         sessionVars, uploadVars, lockVars
<1>3. \/ UNCHANGED stage
      \/ stage[s] = "closing" /\ stage' = [stage EXCEPT ![s] = "gone"]
  BY DEF WaitClosed, Deliver, ClientLeaves, DownlinkEnds, GoesIdle, sessionVars
<1>4. TableOK' /\ TableInv' /\ (locked \in BOOLEAN)'
  BY <1>1, <1>2, <1>3, SessionAssumption DEF TableOK, TableInv
<1>5. RestOK'
  BY <1>1, <1>2 DEF RestOK, TableOK
<1>6. QED
  BY <1>1, <1>2, <1>3, <1>4, <1>5, SmallStep DEF TableOK

\* The lock and the reaper's scan.
LEMMA ControlSteps ==
  ASSUME IInv, Lock \/ Unlock \/ Scan
  PROVE  IInv'
<1>1. TableOK /\ RestOK /\ locked \in BOOLEAN /\ TableInv
  BY TypeParts DEF IInv
<1>2. /\ killers' \subseteq killers /\ kicked' \subseteq kicked \cup Sessions
      /\ stale' \subseteq stale \cup Keys
      /\ doomed' \subseteq doomed \cup Keys
      /\ UNCHANGED <<table, key, stage, writer, task, idle, clients, pc, on, held, conn,
                     pump, late>>
  <2>1. CASE Lock
    BY <1>1, <2>1 DEF Lock, Registered, TableOK, sessionVars, uploadVars
  <2>2. CASE Unlock
    BY <2>2 DEF Unlock, sessionVars, uploadVars
  <2>3. CASE Scan
    BY <2>3 DEF Scan, StaleKeys, sessionVars, uploadVars, lockVars
  <2>4. QED
    BY <2>1, <2>2, <2>3
<1>3. (locked \in BOOLEAN)'
  <2>1. CASE Lock
    BY <2>1, Zenon DEF Lock
  <2>2. CASE Unlock
    BY <2>2, Zenon DEF Unlock
  <2>3. CASE Scan
    BY <1>1, <2>3, Zenon DEF Scan, lockVars
  <2>4. QED
    BY <2>1, <2>2, <2>3
<1>4. TableOK' /\ TableInv'
  BY <1>1, <1>2 DEF TableOK, TableInv
<1>5. RestOK'
  BY <1>1, <1>2 DEF RestOK
<1>6. QED
  BY <1>2, <1>3, <1>4, <1>5, SmallStep

\* Every step preserves the inductive invariant.
LEMMA StepInv == IInv /\ [Next]_vars => IInv'
<1> SUFFICES ASSUME IInv, [Next]_vars PROVE IInv'
  OBVIOUS
<1>1. CASE Request
  BY <1>1, UploadStep, OpenDownlinkStep DEF Request
<1>2. CASE Progress
  BY <1>2, OwnSteps, ConnectedStep, UploadFailsStep, PumpEndsStep, CloseWriterStep,
     SessionSteps DEF Progress
<1>3. CASE Control
  BY <1>3, ControlSteps, TeardownTaskStep DEF Control
<1>4. CASE UNCHANGED vars
  BY <1>4, Zenon DEF vars, IInv, TypeOK, TableInv, UploadInv, OpenUpstreamHasOwner
<1>5. QED
  BY <1>1, <1>2, <1>3, <1>4 DEF Next

\* The invariant of the engine's sessions: table, objects and uploads agree.
THEOREM Invariance == Spec => []IInv
<1>1. QED
  BY InitInv, StepInv, PTL DEF Spec

\* Every step of the session code keeps the types of its state.
THEOREM TypeCorrect == Spec => []TypeOK
<1>1. IInv => TypeOK
  BY DEF IInv
<1>2. QED
  BY <1>1, Invariance, PTL

\* get_or_create_session and teardown change the table and the session's stage
\* together: a session that lives can always be found under its key.
THEOREM SlotOwned == Spec => []SlotHasOwner
<1>1. IInv => SlotHasOwner
  <2> SUFFICES ASSUME IInv, NEW s \in Sessions
               PROVE  stage[s] = "live" <=> \E k \in Keys : table[k] = s
    BY DEF SlotHasOwner
  <2>1. s # None /\ key[s] \in Keys
    BY SessionAssumption DEF IInv, TypeOK
  <2>2. QED
    BY <2>1 DEF IInv, TableInv
<1>2. QED
  BY <1>1, Invariance, PTL

\* teardown, which closes the writer it finds after its await, and upload_up,
\* which stores one after its own, leave no upstream open without an owner.
THEOREM UpstreamOwned == Spec => []OpenUpstreamHasOwner
<1>1. IInv => OpenUpstreamHasOwner
  BY DEF IInv
<1>2. QED
  BY <1>1, Invariance, PTL

=============================================================================
