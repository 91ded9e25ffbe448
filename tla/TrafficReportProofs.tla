------------------------- MODULE TrafficReportProofs -------------------------
(***************************************************************************)
(* Bytes are accounted for: the books of TrafficReport balance in every    *)
(* step but a start of the kernel and the end of the node, where they only *)
(* lose.  All steps but one move bytes from one place to another, and a    *)
(* byte is only added together with one that was carried or resent.        *)
(*                                                                         *)
(* Connections of the WebSocket client (WSClient) leave no reader behind   *)
(* but after a write that failed, and access records (AccessLog) are in    *)
(* one place at a time.                                                    *)
(***************************************************************************)
EXTENDS TrafficReport, AccessLog, WSClient, FiniteSetTheorems, SequenceTheorems, TLAPS

-----------------------------------------------------------------------------
(* Types *)

LEMMA ZeroType == Zero \in Flow
BY DEF Zero, Flow

LEMMA NobodyType == Nobody \in AddrMaps /\ Nobody # None
<1>1. Nobody \in AddrMaps
  BY DEF Nobody, AddrMaps
<1> QED BY <1>1, TrafficConstants

LEMMA PlusType ==
    ASSUME NEW a \in Flow, NEW b \in Flow
    PROVE  /\ Plus(a, b) \in Flow
           /\ \A u \in Users, d \in Dirs : Plus(a, b)[u][d] = a[u][d] + b[u][d]
BY DEF Plus, Flow

\* What a reading adds, and what it leaves to be read.
LEMMA DeltasType ==
    ASSUME TypeOK
    PROVE  Deltas \in Flow /\ Seen \in Flow
<1>1. counter \in Flow /\ lastSeen \in Flow
  BY DEF TypeOK
<1>2. ASSUME NEW u \in Users, NEW d \in Dirs
      PROVE  (IF counter[u][d] < lastSeen[u][d] THEN counter[u][d]
                                                ELSE counter[u][d] - lastSeen[u][d]) \in Nat
  BY <1>1 DEF Flow
<1>3. Deltas \in Flow
  BY <1>2 DEF Deltas, Flow
<1>4. Seen \in Flow
  BY <1>1 DEF Seen, Flow
<1> QED BY <1>3, <1>4

LEMMA PushType ==
    ASSUME TypeOK
    PROVE  /\ push.traffic \in Flow /\ push.alive \in AddrMaps \union {None}
           /\ Idle \in [at : {"idle", "start", "wire", "taken"}, traffic : Flow,
                        alive : AddrMaps \union {None}]
           /\ Flushed \in Report
<1>1. Idle \in [at : {"idle", "start", "wire", "taken"}, traffic : Flow,
                alive : AddrMaps \union {None}]
  BY ZeroType DEF Idle
<1>2. Flushed \in Report
  BY DEF Flushed, Report, TypeOK
<1> QED BY <1>1, <1>2 DEF TypeOK

LEMMA ToldType ==
    ASSUME TypeOK, NEW r \in [traffic : Flow, alive : AddrMaps \union {None}], Told(r)
    PROVE  billed' \in Flow /\ known' \in AddrMaps
BY PlusType DEF Told, TypeOK

LEMMA EmptyType == <<>> \in Seq(AddrMaps)
OBVIOUS

\* The torn map of addresses, and a channel with one message more or less.
LEMMA TearsType ==
    ASSUME TypeOK, Tears
    PROVE  /\ push' \in [at : {"idle", "start", "wire", "taken"}, traffic : Flow,
                         alive : AddrMaps \union {None}]
           /\ push'.at = push.at /\ push'.traffic = push.traffic
<1>1. Torn \subseteq AddrMaps \union {None}
  BY PushType DEF Torn
<1> QED BY <1>1 DEF Tears, TypeOK

LEMMA DeviceType ==
    ASSUME TypeOK, DeviceTick \/ DeviceTold \/ LinkLost
    PROVE  deviceCh' \in Seq(AddrMaps) /\ sure' \in BOOLEAN /\ known' \in AddrMaps
<1> USE DEF kernel, tracker, device, panel, bounds
<1>1. deviceCh \in Seq(AddrMaps) /\ snap \in AddrMaps /\ sure \in BOOLEAN /\ known \in AddrMaps
  BY DEF TypeOK
<1>2. CASE DeviceTick
  <2>1. deviceCh' \in Seq(AddrMaps)
    BY <1>1, <1>2 DEF DeviceTick, Queues
  <2>2. sure' \in BOOLEAN
    BY <1>2 DEF DeviceTick
  <2> QED BY <1>1, <1>2, <2>1, <2>2 DEF DeviceTick
<1>3. CASE DeviceTold
  <2>1. Head(deviceCh) \in AddrMaps /\ Tail(deviceCh) \in Seq(AddrMaps)
    BY <1>1, <1>3 DEF DeviceTold
  <2> QED BY <1>1, <1>3, <2>1 DEF DeviceTold
<1>4. CASE LinkLost
  BY <1>1, <1>4, EmptyType DEF LinkLost
<1> QED BY <1>2, <1>3, <1>4

LEMMA TypeInit == Init => TypeOK
<1> SUFFICES ASSUME Init PROVE TypeOK
  OBVIOUS
<1>1. Idle \in [at : {"idle", "start", "wire", "taken"}, traffic : Flow,
                alive : AddrMaps \union {None}]
  BY ZeroType DEF Idle
<1>2. last \in Report
  BY ZeroType DEF Init, InitAt, Report
<1> QED BY <1>1, <1>2, ZeroType, NobodyType, EmptyType DEF Init, InitAt, TypeOK

\* A byte more is a flow again.
LEMMA OneMore ==
    ASSUME NEW f \in Flow, NEW u \in Users, NEW d \in Dirs
    PROVE  /\ [f EXCEPT ![u][d] = @ + 1] \in Flow
           /\ \A v \in Users, e \in Dirs :
                 [f EXCEPT ![u][d] = @ + 1][v][e] =
                    IF v = u /\ e = d THEN f[v][e] + 1 ELSE f[v][e]
<1>1. f \in [Users -> [Dirs -> Nat]]
  BY DEF Flow
<1>2. f[u] \in [Dirs -> Nat] /\ f[u][d] + 1 \in Nat
  BY <1>1
<1>3. [f[u] EXCEPT ![d] = @ + 1] \in [Dirs -> Nat]
  BY <1>2
<1> QED BY <1>1, <1>2, <1>3 DEF Flow

LEMMA TypeNext == TypeOK /\ [Next]_vars => TypeOK'
<1> SUFFICES ASSUME TypeOK, [Next]_vars PROVE TypeOK'
  OBVIOUS
<1> USE DEF kernel, tracker, device, panel, bounds
<1>1. ASSUME NEW u \in Users, NEW d \in Dirs, Moves(u, d),
             counter' = [counter EXCEPT ![u][d] = @ + 1] \/ UNCHANGED counter
      PROVE  TypeOK'
  <2>1. carried \in Flow /\ counter \in Flow /\ carried' = [carried EXCEPT ![u][d] = @ + 1]
    BY <1>1 DEF Moves, TypeOK
  <2>2. /\ [carried EXCEPT ![u][d] = @ + 1] \in Flow
        /\ [counter EXCEPT ![u][d] = @ + 1] \in Flow
    BY <2>1, OneMore
  <2>3. carried' \in Flow /\ counter' \in Flow
    BY <1>1, <2>1, <2>2
  <2> QED BY <1>1, <2>3 DEF Moves, TypeOK
<1>2. CASE Drained \/ Devices
  <2>1. CASE Drained
    BY <2>1 DEF Drained, TypeOK
  <2>2. CASE Devices
    <3>1. PICK v \in Users, a \in Addrs :
            \E w \in {alive[v] \union {a}, alive[v] \ {a}} : alive' = [alive EXCEPT ![v] = w]
      BY <2>2 DEF Devices
    <3>2. alive \in [Users -> SUBSET Addrs]
      BY DEF TypeOK, AddrMaps
    <3>3. alive' \in AddrMaps
      BY <3>1, <3>2 DEF AddrMaps
    <3>4. moves' \in Nat
      BY <2>2 DEF Devices, TypeOK
    <3> QED BY <2>2, <3>3, <3>4 DEF Devices, TypeOK
  <2> QED BY <1>2, <2>1, <2>2
<1>3. CASE StartKernel \/ StopKernel
  <2>1. CASE StartKernel
    <3>1. draining' \in BOOLEAN
      BY <2>1 DEF StartKernel
    <3> QED BY <2>1, <3>1, ZeroType, NobodyType DEF StartKernel, Service, TypeOK
  <2>2. CASE StopKernel
    BY <2>2, NobodyType DEF StopKernel, Service, TypeOK
  <2> QED BY <1>3, <2>1, <2>2
<1>4. CASE Track
  <2>1. pending' \in Flow /\ lastSeen' \in Flow
    BY <1>4, DeltasType, PlusType DEF Track, TypeOK
  <2> QED BY <1>4, <2>1 DEF Track, Service, TypeOK
<1>5. CASE ReportTick
  <2>1. CASE skip > 0
    <3>1. skip' \in Nat
      BY <1>5, <2>1 DEF ReportTick, TypeOK
    <3> QED BY <1>5, <2>1, <3>1 DEF ReportTick, Service, TypeOK
  <2>2. CASE ~(skip > 0)
    <3>1. push' \in [at : {"idle", "start", "wire", "taken"}, traffic : Flow,
                     alive : AddrMaps \union {None}]
      BY <1>5, <2>2, PushType DEF ReportTick, Report
    <3>2. sure' \in BOOLEAN /\ UNCHANGED deviceCh
      BY <1>5, <2>2 DEF ReportTick, Flush, TypeOK
    <3> QED BY <1>5, <2>2, <3>1, <3>2, ZeroType DEF ReportTick, Flush, Service, TypeOK
  <2> QED BY <2>1, <2>2
<1>6. CASE PushSends
  BY <1>6 DEF PushSends, TypeOK
<1>7. CASE PanelTakes
  <2>1. billed' \in Flow /\ known' \in AddrMaps
    BY <1>7, PlusType DEF PanelTakes, Told, TypeOK
  <2> QED BY <1>7, <2>1 DEF PanelTakes, TypeOK
<1>8. CASE PushSucceeds
  BY <1>8, PushType DEF PushSucceeds, TypeOK
<1>9. CASE PushFails
  <2>1. pending' \in Flow /\ resent' \in Flow
    BY <1>9, PushType, PlusType DEF PushFails, Restore, RestoreTraffic, TypeOK
  <2>2. skip' \in Nat
    BY <1>9 DEF PushFails, Restore, OnFailure, TypeOK
  <2>3. push' \in [at : {"idle", "start", "wire", "taken"}, traffic : Flow,
                   alive : AddrMaps \union {None}]
    BY <1>9, PushType DEF PushFails, Restore
  <2>4. sure' \in BOOLEAN
    BY <1>9 DEF PushFails, TypeOK
  <2> QED BY <1>9, <2>1, <2>2, <2>3, <2>4 DEF PushFails, Restore, RestoreAliveIPs, TypeOK
<1>10. CASE FinalFlush
  <2>1. push' \in [at : {"idle", "start", "wire", "taken"}, traffic : Flow,
                   alive : AddrMaps \union {None}]
    BY <1>10, TearsType DEF FinalFlush
  <2>2. sure' \in BOOLEAN /\ UNCHANGED deviceCh
    BY <1>10 DEF FinalFlush, Flush, TypeOK
  <2> QED BY <1>10, <2>1, <2>2, ZeroType, PushType DEF FinalFlush, Flush, TypeOK
<1>11. CASE Crash \/ FinalFails
  <2>1. CASE Crash
    BY <2>1, NobodyType, EmptyType DEF Crash, Stopped, TypeOK
  <2>2. CASE FinalFails
    <3>1. failures' \in Nat /\ UNCHANGED <<panel, bytes, moves, restarts>>
      BY <2>2 DEF FinalFails, TypeOK
    <3> QED BY <2>2, <3>1, NobodyType, EmptyType DEF FinalFails, Stopped, TypeOK
  <2> QED BY <1>11, <2>1, <2>2
<1>12. CASE FinalTaken
  <2>1. billed' \in Flow /\ known' \in AddrMaps
    BY <1>12, PlusType DEF FinalTaken, Told, TypeOK, Report
  <2> QED BY <1>12, <2>1, NobodyType, EmptyType DEF FinalTaken, Stopped, TypeOK
<1>13. CASE UNCHANGED vars
  BY <1>13 DEF vars, TypeOK
<1>14. ASSUME NEW u \in Users, NEW d \in Dirs, Carry(u, d) \/ CarryUnread(u, d) PROVE TypeOK'
  BY <1>1, <1>14 DEF Carry, CarryUnread
<1>15. CASE DeviceTick
  BY <1>15, TearsType, DeviceType DEF DeviceTick, Service, TypeOK
<1>16. CASE DeviceTold \/ LinkLost
  BY <1>16, DeviceType DEF DeviceTold, LinkLost, TypeOK
<1> QED BY <1>15, <1>16, <1>2, <1>3, <1>4, <1>5, <1>6, <1>7, <1>8, <1>9, <1>10, <1>11, <1>12, <1>13, <1>14
        DEF Next, Push

\* Every field keeps its type; in particular no delta is ever negative.
THEOREM TypeCorrect == Spec => []TypeOK
BY TypeInit, TypeNext, PTL DEF Spec

-----------------------------------------------------------------------------
(* The books *)

Owed(u, d) == carried[u][d] + resent[u][d]

\* Bytes of the report goroutine and of the last report that are under way.
Pushed(u, d) == IF push.at \in {"start", "wire"} THEN push.traffic[u][d] ELSE 0
LastOne(u, d) == IF phase = "final" THEN last.traffic[u][d] ELSE 0

\* The entries of the books of one user and direction are natural numbers.
Entries(u, d) ==
    /\ billed[u][d] \in Nat /\ pending[u][d] \in Nat
    /\ carried[u][d] \in Nat /\ resent[u][d] \in Nat
    /\ push.traffic[u][d] \in Nat /\ last.traffic[u][d] \in Nat
    /\ Pushed(u, d) \in Nat /\ LastOne(u, d) \in Nat
    /\ counter[u][d] \in Nat /\ lastSeen[u][d] \in Nat
    /\ Deltas[u][d] \in Nat
    /\ Deltas[u][d] = IF counter[u][d] < lastSeen[u][d]
                         THEN counter[u][d] ELSE counter[u][d] - lastSeen[u][d]
    /\ Accounted(u, d) = billed[u][d] + (Pushed(u, d) + LastOne(u, d))
                            + pending[u][d] + Deltas[u][d]

LEMMA Books == TypeOK => \A u \in Users, d \in Dirs : Entries(u, d)
<1> SUFFICES ASSUME TypeOK, NEW u \in Users, NEW d \in Dirs PROVE Entries(u, d)
  OBVIOUS
<1>1. push.traffic \in Flow /\ last.traffic \in Flow
  BY DEF TypeOK, Report
<1>2. push.traffic[u][d] \in Nat /\ last.traffic[u][d] \in Nat
  BY <1>1 DEF Flow
<1>3. /\ billed[u][d] \in Nat /\ pending[u][d] \in Nat
      /\ carried[u][d] \in Nat /\ resent[u][d] \in Nat
  BY DEF TypeOK, Flow
<1>4. counter[u][d] \in Nat /\ lastSeen[u][d] \in Nat
  BY DEF TypeOK, Flow
<1>5. Deltas[u][d] = IF counter[u][d] < lastSeen[u][d]
                        THEN counter[u][d] ELSE counter[u][d] - lastSeen[u][d]
  BY DEF Deltas
<1>6. Deltas[u][d] \in Nat
  BY <1>4, <1>5
<1>7. Pushed(u, d) \in Nat /\ LastOne(u, d) \in Nat
  BY <1>2 DEF Pushed, LastOne
<1>8. Accounted(u, d) = billed[u][d] + (Pushed(u, d) + LastOne(u, d))
                           + pending[u][d] + Deltas[u][d]
  BY DEF Accounted, InFlight, Pushed, LastOne
<1> QED BY <1>2, <1>3, <1>4, <1>5, <1>6, <1>7, <1>8 DEF Entries

LEMMA BooksAfter == TypeOK' => (\A u \in Users, d \in Dirs : Entries(u, d))'
BY Books, PTL

\* A step loses nothing that was owed; it may lose what is accounted for.
Loses(u, d) == Accounted(u, d)' + Owed(u, d) <= Accounted(u, d) + Owed(u, d)'

\* A step keeps the books.
Keeps(u, d) == Accounted(u, d)' + Owed(u, d) = Accounted(u, d) + Owed(u, d)'

\* Steps that move no byte: the entries stay what they are.
LEMMA StillBooks ==
    ASSUME TypeOK, TypeOK', NEW u \in Users, NEW d \in Dirs,
           UNCHANGED <<billed, pending, counter, lastSeen, carried, resent>>,
           Pushed(u, d)' = Pushed(u, d), LastOne(u, d)' = LastOne(u, d)
    PROVE  Keeps(u, d)
<1>1. Entries(u, d) /\ Entries(u, d)'
  BY Books, BooksAfter
<1>2. Deltas[u][d]' = Deltas[u][d]
  BY DEF Deltas
<1>3. Owed(u, d)' = Owed(u, d) /\ Accounted(u, d)' = Accounted(u, d)
  BY <1>1, <1>2 DEF Entries, Owed
<1> QED BY <1>3 DEF Keeps

LEMMA StillSteps ==
    ASSUME TypeOK, TypeOK', NEW u \in Users, NEW d \in Dirs,
           \/ Drained \/ Devices \/ StopKernel \/ PushSends \/ PushSucceeds
           \/ DeviceTick \/ DeviceTold \/ LinkLost \/ UNCHANGED vars
    PROVE  Keeps(u, d)
<1> USE DEF kernel, tracker, device, panel, bounds
<1>1. UNCHANGED <<billed, pending, counter, lastSeen, carried, resent, phase, last>>
  BY DEF Drained, Devices, StopKernel, Service, PushSends, PushSucceeds, DeviceTick, DeviceTold,
         LinkLost, vars
<1>2. LastOne(u, d)' = LastOne(u, d)
  BY <1>1 DEF LastOne
<1>3. Pushed(u, d)' = Pushed(u, d)
  <2>1. CASE UNCHANGED push
    BY <2>1 DEF Pushed
  <2>2. CASE PushSends
    BY <2>2 DEF PushSends, Pushed, TypeOK
  <2>3. CASE PushSucceeds
    BY <2>3 DEF PushSucceeds, Idle, Pushed
  <2>4. CASE DeviceTick
    BY <2>4, TearsType DEF DeviceTick, Pushed
  <2> QED BY <2>1, <2>2, <2>3, <2>4 DEF Drained, Devices, StopKernel, DeviceTold, LinkLost, vars
<1> QED BY <1>1, <1>2, <1>3, StillBooks

\* A byte the live tracker counts is accounted for, unless it brings the counter
\* back to the value last seen before a reset.
LEMMA CarryBooks ==
    ASSUME TypeOK, TypeOK', NEW u \in Users, NEW d \in Dirs,
           NEW v \in Users, NEW e \in Dirs, Carry(v, e)
    PROVE  Loses(u, d) /\ (lastSeen[u][d] <= counter[u][d] => Keeps(u, d))
<1> USE DEF kernel, tracker, device, panel, bounds
<1>1. Entries(u, d) /\ Entries(u, d)'
  BY Books, BooksAfter
<1>2. /\ UNCHANGED <<billed, pending, lastSeen, resent, phase, push, last>>
      /\ carried' = [carried EXCEPT ![v][e] = @ + 1]
      /\ counter' = [counter EXCEPT ![v][e] = @ + 1]
  BY DEF Carry, Moves
<1>3. Pushed(u, d)' = Pushed(u, d) /\ LastOne(u, d)' = LastOne(u, d)
  BY <1>2 DEF Pushed, LastOne
<1>4. carried \in Flow /\ counter \in Flow
  BY DEF TypeOK
<1>5. /\ carried'[u][d] = IF u = v /\ d = e THEN carried[u][d] + 1 ELSE carried[u][d]
      /\ counter'[u][d] = IF u = v /\ d = e THEN counter[u][d] + 1 ELSE counter[u][d]
  BY <1>2, <1>4, OneMore
<1>6. CASE u = v /\ d = e
  <2>1. carried'[u][d] = carried[u][d] + 1 /\ counter'[u][d] = counter[u][d] + 1
    BY <1>5, <1>6
  <2>2. Owed(u, d)' = Owed(u, d) + 1
    BY <1>1, <1>2, <2>1 DEF Owed, Entries
  <2>3. /\ Deltas[u][d]' <= Deltas[u][d] + 1
        /\ lastSeen[u][d] <= counter[u][d] => Deltas[u][d]' = Deltas[u][d] + 1
    BY <1>1, <1>2, <2>1 DEF Entries
  <2>4. Accounted(u, d)' - Accounted(u, d) = Deltas[u][d]' - Deltas[u][d]
    BY <1>1, <1>2, <1>3 DEF Entries
  <2>5. Owed(u, d) \in Nat /\ Accounted(u, d) \in Nat /\ Accounted(u, d)' \in Nat
    BY <1>1 DEF Entries, Owed
  <2>6. Deltas[u][d]' \in Nat /\ Deltas[u][d] \in Nat
    BY <1>1 DEF Entries
  <2> QED BY <2>2, <2>3, <2>4, <2>5, <2>6 DEF Loses, Keeps
<1>7. CASE ~(u = v /\ d = e)
  <2>1. carried'[u][d] = carried[u][d] /\ counter'[u][d] = counter[u][d]
    BY <1>5, <1>7
  <2>2. Deltas[u][d]' = Deltas[u][d]
    BY <1>1, <1>2, <2>1 DEF Entries
  <2>3. Owed(u, d)' = Owed(u, d) /\ Accounted(u, d)' = Accounted(u, d)
    BY <1>1, <1>2, <1>3, <2>1, <2>2 DEF Entries, Owed
  <2>4. Owed(u, d) \in Nat /\ Accounted(u, d) \in Nat
    BY <1>1 DEF Entries, Owed
  <2> QED BY <2>3, <2>4 DEF Loses, Keeps
<1> QED BY <1>6, <1>7

\* A byte of a replaced box is owed and never accounted for.
LEMMA UnreadBooks ==
    ASSUME TypeOK, TypeOK', NEW u \in Users, NEW d \in Dirs,
           NEW v \in Users, NEW e \in Dirs, CarryUnread(v, e)
    PROVE  Loses(u, d)
<1> USE DEF kernel, tracker, device, panel, bounds
<1>1. Entries(u, d) /\ Entries(u, d)'
  BY Books, BooksAfter
<1>2. /\ UNCHANGED <<billed, pending, counter, lastSeen, resent, phase, push, last>>
      /\ carried' = [carried EXCEPT ![v][e] = @ + 1]
  BY DEF CarryUnread, Moves
<1>3. Pushed(u, d)' = Pushed(u, d) /\ LastOne(u, d)' = LastOne(u, d)
  BY <1>2 DEF Pushed, LastOne
<1>4. Deltas[u][d]' = Deltas[u][d]
  BY <1>2 DEF Deltas
<1>5. carried'[u][d] \in {carried[u][d], carried[u][d] + 1}
  BY <1>2, OneMore DEF TypeOK
<1>6. Accounted(u, d)' = Accounted(u, d) /\ Owed(u, d) <= Owed(u, d)'
  BY <1>1, <1>2, <1>3, <1>4, <1>5 DEF Entries, Owed
<1>7. Owed(u, d) \in Nat /\ Owed(u, d)' \in Nat /\ Accounted(u, d) \in Nat
  BY <1>1 DEF Entries, Owed
<1> QED BY <1>6, <1>7 DEF Loses

\* New counters: what was not read is lost, nothing is counted again.
LEMMA StartBooks ==
    ASSUME TypeOK, TypeOK', NEW u \in Users, NEW d \in Dirs, StartKernel
    PROVE  Loses(u, d)
<1> USE DEF kernel, tracker, device, panel, bounds
<1>1. Entries(u, d) /\ Entries(u, d)'
  BY Books, BooksAfter
<1>2. /\ UNCHANGED <<billed, pending, lastSeen, carried, resent, phase, push, last>>
      /\ counter' = Zero
  BY DEF StartKernel, Service
<1>3. Pushed(u, d)' = Pushed(u, d) /\ LastOne(u, d)' = LastOne(u, d)
  BY <1>2 DEF Pushed, LastOne
<1>4. counter'[u][d] = 0
  BY <1>2 DEF Zero
<1>5. Deltas[u][d]' = 0
  BY <1>1, <1>2, <1>4 DEF Entries
<1>6. Accounted(u, d)' <= Accounted(u, d) /\ Owed(u, d)' = Owed(u, d)
  BY <1>1, <1>2, <1>3, <1>5 DEF Entries, Owed
<1>7. Owed(u, d) \in Nat /\ Accounted(u, d) \in Nat /\ Accounted(u, d)' \in Nat
  BY <1>1 DEF Entries, Owed
<1> QED BY <1>6, <1>7 DEF Loses

\* A reading turns what was to be read into pending bytes.
LEMMA TrackBooks ==
    ASSUME TypeOK, TypeOK', NEW u \in Users, NEW d \in Dirs, Track
    PROVE  Keeps(u, d) /\ lastSeen'[u][d] \in {lastSeen[u][d], counter[u][d]}
<1> USE DEF kernel, tracker, device, panel, bounds
<1>1. Entries(u, d) /\ Entries(u, d)'
  BY Books, BooksAfter
<1>2. /\ UNCHANGED <<billed, counter, carried, resent, phase, push, last>>
      /\ pending' = Plus(pending, Deltas) /\ lastSeen' = Seen
  BY DEF Track, Service
<1>3. Pushed(u, d)' = Pushed(u, d) /\ LastOne(u, d)' = LastOne(u, d)
  BY <1>2 DEF Pushed, LastOne
<1>4. pending'[u][d] = pending[u][d] + Deltas[u][d]
  BY <1>2, DeltasType, PlusType DEF TypeOK
<1>5. lastSeen'[u][d] = IF Counted(u) THEN counter[u][d] ELSE lastSeen[u][d]
  BY <1>2 DEF Seen
<1>6. Deltas[u][d]' = 0
  <2>1. CASE Counted(u)
    BY <1>1, <1>2, <1>5, <2>1 DEF Entries
  <2>2. CASE ~Counted(u)
    <3>1. counter[u][d] = 0
      BY <1>1, <2>2 DEF Counted, Entries
    <3> QED BY <1>1, <1>2, <1>5, <2>2, <3>1 DEF Entries
  <2> QED BY <2>1, <2>2
<1>7. Accounted(u, d)' = Accounted(u, d) /\ Owed(u, d)' = Owed(u, d)
  BY <1>1, <1>2, <1>3, <1>4, <1>6 DEF Entries, Owed
<1> QED BY <1>5, <1>7 DEF Keeps

\* A flush takes the pending bytes along.
LEMMA ReportBooks ==
    ASSUME TypeOK, TypeOK', NEW u \in Users, NEW d \in Dirs, ReportTick
    PROVE  Keeps(u, d)
<1> USE DEF kernel, tracker, device, panel, bounds
<1>1. Entries(u, d) /\ Entries(u, d)'
  BY Books, BooksAfter
<1>2. UNCHANGED <<billed, counter, lastSeen, carried, resent, phase, last>>
  BY DEF ReportTick, Service, Flush
<1>3. LastOne(u, d)' = LastOne(u, d) /\ Deltas[u][d]' = Deltas[u][d]
  BY <1>2 DEF LastOne, Deltas
<1>4. Pushed(u, d) = 0
  BY DEF ReportTick, Pushed
<1>5. Pushed(u, d)' + pending'[u][d] = pending[u][d]
  <2>1. CASE skip > 0
    <3>1. UNCHANGED <<push, pending>>
      BY <2>1 DEF ReportTick
    <3> QED BY <1>1, <1>4, <3>1 DEF Pushed, Entries
  <2>2. CASE ~(skip > 0)
    <3>1. pending' = Zero /\ push'.at = "start" /\ push'.traffic = pending
      BY <2>2 DEF ReportTick, Flush, Flushed
    <3>2. Pushed(u, d)' = pending[u][d] /\ pending'[u][d] = 0
      BY <3>1 DEF Pushed, Zero
    <3> QED BY <1>1, <3>2 DEF Entries
  <2> QED BY <2>1, <2>2
<1>6. Accounted(u, d)' = Accounted(u, d) /\ Owed(u, d)' = Owed(u, d)
  BY <1>1, <1>2, <1>3, <1>4, <1>5 DEF Entries, Owed
<1> QED BY <1>6 DEF Keeps

\* The panel bills what it takes.
LEMMA TakenBooks ==
    ASSUME TypeOK, TypeOK', NEW u \in Users, NEW d \in Dirs, PanelTakes
    PROVE  Keeps(u, d)
<1> USE DEF kernel, tracker, device, panel, bounds
<1>1. Entries(u, d) /\ Entries(u, d)'
  BY Books, BooksAfter
<1>2. /\ UNCHANGED <<pending, counter, lastSeen, carried, resent, phase, last>>
      /\ billed' = Plus(billed, push.traffic)
      /\ push.at = "wire" /\ push'.at = "taken"
  BY DEF PanelTakes, Told, TypeOK
<1>3. LastOne(u, d)' = LastOne(u, d) /\ Deltas[u][d]' = Deltas[u][d]
  BY <1>2 DEF LastOne, Deltas
<1>4. Pushed(u, d) = push.traffic[u][d] /\ Pushed(u, d)' = 0
  BY <1>2 DEF Pushed
<1>5. billed'[u][d] = billed[u][d] + push.traffic[u][d]
  BY <1>2, PushType, PlusType DEF TypeOK
<1>6. Accounted(u, d)' = Accounted(u, d) /\ Owed(u, d)' = Owed(u, d)
  BY <1>1, <1>2, <1>3, <1>4, <1>5 DEF Entries, Owed
<1> QED BY <1>6 DEF Keeps

\* A report that failed is restored; if the panel had taken it, it is also resent.
LEMMA FailedBooks ==
    ASSUME TypeOK, TypeOK', NEW u \in Users, NEW d \in Dirs, PushFails
    PROVE  Keeps(u, d)
<1> USE DEF kernel, tracker, device, panel, bounds
<1>1. Entries(u, d) /\ Entries(u, d)'
  BY Books, BooksAfter
<1>2. /\ UNCHANGED <<billed, counter, lastSeen, carried, phase, last>>
      /\ pending' = Plus(pending, push.traffic)
      /\ push' = Idle
  BY DEF PushFails, Restore, RestoreTraffic
<1>3. LastOne(u, d)' = LastOne(u, d) /\ Deltas[u][d]' = Deltas[u][d]
  BY <1>2 DEF LastOne, Deltas
<1>4. Pushed(u, d)' = 0
  BY <1>2 DEF Pushed, Idle
<1>5. pending'[u][d] = pending[u][d] + push.traffic[u][d]
  BY <1>2, PushType, PlusType DEF TypeOK
<1>6. CASE push.at = "taken"
  <2>1. resent' = Plus(resent, push.traffic)
    BY <1>6 DEF PushFails
  <2>2. resent'[u][d] = resent[u][d] + push.traffic[u][d]
    BY <2>1, PushType, PlusType DEF TypeOK
  <2>3. Pushed(u, d) = 0
    BY <1>6 DEF Pushed
  <2>4. Owed(u, d)' = Owed(u, d) + push.traffic[u][d]
    BY <1>1, <1>2, <2>2 DEF Entries, Owed
  <2>5. Accounted(u, d)' = Accounted(u, d) + push.traffic[u][d]
    BY <1>1, <1>2, <1>3, <1>4, <1>5, <2>3 DEF Entries
  <2>6. Owed(u, d) \in Nat /\ Accounted(u, d) \in Nat /\ push.traffic[u][d] \in Nat
    BY <1>1 DEF Entries, Owed
  <2> QED BY <2>4, <2>5, <2>6 DEF Keeps
<1>7. CASE push.at = "wire"
  <2>1. resent' = resent /\ Pushed(u, d) = push.traffic[u][d]
    BY <1>7 DEF PushFails, Pushed
  <2>2. Accounted(u, d)' = Accounted(u, d) /\ Owed(u, d)' = Owed(u, d)
    BY <1>1, <1>2, <1>3, <1>4, <1>5, <2>1 DEF Entries, Owed
  <2> QED BY <2>2 DEF Keeps
<1> QED BY <1>6, <1>7 DEF PushFails

\* So does the flush at shutdown.
LEMMA FinalFlushBooks ==
    ASSUME TypeOK, TypeOK', NEW u \in Users, NEW d \in Dirs, FinalFlush
    PROVE  Keeps(u, d)
<1> USE DEF kernel, tracker, device, panel, bounds
<1>1. Entries(u, d) /\ Entries(u, d)'
  BY Books, BooksAfter
<1>2. /\ UNCHANGED <<billed, counter, lastSeen, carried, resent>>
      /\ phase = "run" /\ phase' = "final"
      /\ pending' = Zero /\ last'.traffic = pending
      /\ push'.at = push.at /\ push'.traffic = push.traffic
  BY TearsType DEF FinalFlush, Flush, Flushed
<1>3. Pushed(u, d)' = Pushed(u, d) /\ Deltas[u][d]' = Deltas[u][d]
  BY <1>2 DEF Pushed, Deltas
<1>4. LastOne(u, d) = 0 /\ LastOne(u, d)' = pending[u][d]
  BY <1>2 DEF LastOne
<1>5. pending'[u][d] = 0
  BY <1>2 DEF Zero
<1>6. Accounted(u, d)' = Accounted(u, d) /\ Owed(u, d)' = Owed(u, d)
  BY <1>1, <1>2, <1>3, <1>4, <1>5 DEF Entries, Owed
<1> QED BY <1>6 DEF Keeps

\* The last report is billed, or it is lost.
LEMMA StopBooks ==
    ASSUME TypeOK, TypeOK', NEW u \in Users, NEW d \in Dirs,
           FinalTaken \/ FinalFails \/ Crash
    PROVE  Loses(u, d)
<1> USE DEF kernel, tracker, device, panel, bounds
<1>1. Entries(u, d) /\ Entries(u, d)'
  BY Books, BooksAfter
<1>2. /\ UNCHANGED <<counter, lastSeen, pending, carried, resent, push, last>>
      /\ phase' \in {"stopped", "crashed"}
  BY DEF FinalTaken, FinalFails, Crash, Stopped
<1>3. Pushed(u, d)' = Pushed(u, d) /\ Deltas[u][d]' = Deltas[u][d]
  BY <1>2 DEF Pushed, Deltas
<1>4. LastOne(u, d)' = 0
  BY <1>2 DEF LastOne
<1>5. billed'[u][d] <= billed[u][d] + LastOne(u, d)
  <2>1. CASE FinalTaken
    <3>1. phase = "final" /\ billed' = Plus(billed, last.traffic)
      BY <2>1 DEF FinalTaken, Told
    <3>2. billed \in Flow /\ last.traffic \in Flow
      BY DEF TypeOK, Report
    <3>3. billed'[u][d] = billed[u][d] + last.traffic[u][d]
      BY <3>1, <3>2, PlusType
    <3>4. LastOne(u, d) = last.traffic[u][d]
      BY <3>1 DEF LastOne
    <3> QED BY <1>1, <3>3, <3>4 DEF Entries
  <2>2. CASE FinalFails \/ Crash
    <3>1. billed' = billed
      BY <2>2 DEF FinalFails, Crash
    <3> QED BY <1>1, <3>1 DEF Entries
  <2> QED BY <2>1, <2>2
<1>6. Accounted(u, d)' <= Accounted(u, d) /\ Owed(u, d)' = Owed(u, d)
  BY <1>1, <1>2, <1>3, <1>4, <1>5 DEF Entries, Owed
<1>7. Owed(u, d) \in Nat /\ Accounted(u, d) \in Nat /\ Accounted(u, d)' \in Nat
  BY <1>1 DEF Entries, Owed
<1> QED BY <1>6, <1>7 DEF Loses

-----------------------------------------------------------------------------
(* The invariants *)

\* Only a further start of the kernel leaves connections nobody reads.
FirstKernel == restarts = 0 => ~draining

IInv == TypeOK /\ NoByteTwice /\ NoByteLost /\ CountersGrow /\ FirstKernel

LEMMA BooksInit == Init => IInv
<1> SUFFICES ASSUME Init PROVE IInv
  OBVIOUS
<1>1. TypeOK
  BY TypeInit
<1>2. \A u \in Users, d \in Dirs : Entries(u, d)
  BY <1>1, Books
<1>3. ASSUME NEW u \in Users, NEW d \in Dirs
      PROVE  Accounted(u, d) = carried[u][d] + resent[u][d] /\ lastSeen[u][d] <= counter[u][d]
  <2>1. /\ billed[u][d] = 0 /\ pending[u][d] = 0 /\ carried[u][d] = 0 /\ resent[u][d] = 0
        /\ counter[u][d] = 0 /\ lastSeen[u][d] = 0
    BY DEF Init, InitAt, Zero
  <2>2. Pushed(u, d) = 0 /\ LastOne(u, d) = 0
    BY DEF Init, InitAt, Idle, Pushed, LastOne
  <2>3. Entries(u, d)
    BY <1>2
  <2> QED BY <2>1, <2>2, <2>3 DEF Entries
<1>4. carried \in Flow /\ resent \in Flow
  BY <1>1 DEF TypeOK
<1>5. NoByteTwice
  <2> SUFFICES ASSUME NEW u \in Users, NEW d \in Dirs
               PROVE  Accounted(u, d) <= carried[u][d] + resent[u][d]
    BY DEF NoByteTwice
  <2>1. carried[u][d] + resent[u][d] \in Nat
    BY <1>4 DEF Flow
  <2> QED BY <1>3, <2>1
<1>6. NoByteLost /\ CountersGrow
  BY <1>3 DEF NoByteLost, CountersGrow
<1>7. FirstKernel
  BY DEF Init, InitAt, FirstKernel
<1> QED BY <1>1, <1>5, <1>6, <1>7 DEF IInv

\* The first kernel stays the first one, and its counters only grow.
LEMMA GrowNext ==
    ASSUME TypeOK, TypeOK', CountersGrow, FirstKernel, [Next]_vars, restarts' = 0
    PROVE  /\ restarts = 0 /\ ~draining' /\ ~StartKernel
           /\ \A u \in Users, d \in Dirs : lastSeen'[u][d] <= counter'[u][d]
<1> USE DEF kernel, tracker, device, panel, bounds
<1>1. ~StartKernel
  BY DEF StartKernel, TypeOK
<1>2. restarts = 0
  BY <1>1 DEF Next, vars, Carry, CarryUnread, Moves, Drained, Devices, StopKernel, Track, ReportTick,
              Push, PushSends, PanelTakes, PushSucceeds, PushFails, FinalFlush, Crash,
              FinalTaken, FinalFails, DeviceTick, DeviceTold, LinkLost
<1>3. ~draining
  BY <1>2 DEF FirstKernel
<1>4. ~draining'
  BY <1>1, <1>3 DEF Next, vars, Carry, CarryUnread, Moves, Drained, Devices, StopKernel, Track,
              ReportTick, Push, PushSends, PanelTakes, PushSucceeds, PushFails, FinalFlush,
              Crash, FinalTaken, FinalFails, Stopped, DeviceTick, DeviceTold, LinkLost
<1>5. ASSUME NEW u \in Users, NEW d \in Dirs PROVE lastSeen'[u][d] <= counter'[u][d]
  <2>1. lastSeen[u][d] <= counter[u][d] /\ lastSeen[u][d] \in Nat /\ counter[u][d] \in Nat
    BY <1>2 DEF CountersGrow, TypeOK, Flow
  <2>2. CASE \E v \in Users, e \in Dirs : Carry(v, e)
    <3>1. PICK v \in Users, e \in Dirs : Carry(v, e)
      BY <2>2
    <3>2. counter'[u][d] \in {counter[u][d], counter[u][d] + 1} /\ lastSeen' = lastSeen
      BY <3>1, OneMore DEF Carry, Moves, TypeOK
    <3> QED BY <2>1, <3>2
  <2>3. CASE Track
    <3>1. lastSeen'[u][d] \in {lastSeen[u][d], counter[u][d]} /\ counter' = counter
      BY <2>3, TrackBooks DEF Track
    <3> QED BY <2>1, <3>1
  <2>4. CASE UNCHANGED <<counter, lastSeen>>
    BY <2>1, <2>4
  <2>5. \/ \E v \in Users, e \in Dirs : Carry(v, e)
        \/ Track
        \/ UNCHANGED <<counter, lastSeen>>
    BY <1>1 DEF Next, vars, CarryUnread, Moves, Drained, Devices, StopKernel, ReportTick, Flush,
                Push, PushSends, PanelTakes, PushSucceeds, PushFails, Restore, FinalFlush, Crash,
                FinalTaken, FinalFails, Stopped, DeviceTick, DeviceTold, LinkLost
  <2> QED BY <2>2, <2>3, <2>4, <2>5
<1> QED BY <1>1, <1>2, <1>4, <1>5

\* Every step keeps the books or only loses; the first kernel's books are kept until
\* the node stops.
LEMMA Balance ==
    ASSUME TypeOK, TypeOK', CountersGrow, FirstKernel, [Next]_vars, NEW u \in Users, NEW d \in Dirs
    PROVE  /\ Loses(u, d)
           /\ (restarts' = 0 /\ phase' \in {"run", "final"}) => Keeps(u, d)
<1>1. Entries(u, d) /\ Entries(u, d)'
  BY Books, BooksAfter
<1>2. Keeps(u, d) => Loses(u, d)
  <2>1. Accounted(u, d) \in Nat /\ Accounted(u, d)' \in Nat /\ Owed(u, d) \in Nat /\ Owed(u, d)' \in Nat
    BY <1>1 DEF Entries, Owed
  <2> QED BY <2>1 DEF Keeps, Loses
<1>3. CASE \E v \in Users, e \in Dirs : Carry(v, e)
  <2>1. PICK v \in Users, e \in Dirs : Carry(v, e)
    BY <1>3
  <2>2. Loses(u, d) /\ (lastSeen[u][d] <= counter[u][d] => Keeps(u, d))
    BY <2>1, CarryBooks
  <2>3. restarts' = 0 => lastSeen[u][d] <= counter[u][d]
    BY <2>1 DEF Carry, Moves, CountersGrow
  <2> QED BY <2>2, <2>3
<1>4. CASE \E v \in Users, e \in Dirs : CarryUnread(v, e)
  <2>1. PICK v \in Users, e \in Dirs : CarryUnread(v, e)
    BY <1>4
  <2>2. restarts' # 0
    BY <2>1 DEF CarryUnread, Moves, FirstKernel
  <2> QED BY <2>1, <2>2, UnreadBooks
<1>5. CASE StartKernel
  <2>1. restarts' # 0
    BY <1>5, GrowNext
  <2> QED BY <1>5, <2>1, StartBooks
<1>6. CASE \/ Drained \/ Devices \/ StopKernel \/ PushSends \/ PushSucceeds
           \/ DeviceTick \/ DeviceTold \/ LinkLost \/ UNCHANGED vars
  BY <1>2, <1>6, StillSteps
<1>7. CASE Track \/ ReportTick
  BY <1>2, <1>7, TrackBooks, ReportBooks
<1>8. CASE PanelTakes \/ PushFails \/ FinalFlush
  BY <1>2, <1>8, TakenBooks, FailedBooks, FinalFlushBooks
<1>9. CASE FinalTaken \/ FinalFails \/ Crash
  <2>1. phase' \in {"stopped", "crashed"}
    BY <1>9 DEF FinalTaken, FinalFails, Crash, Stopped
  <2> QED BY <1>9, <2>1, StopBooks
<1> QED BY <1>3, <1>4, <1>5, <1>6, <1>7, <1>8, <1>9 DEF Next, Push

LEMMA BooksNext == IInv /\ [Next]_vars => IInv'
<1> SUFFICES ASSUME IInv, [Next]_vars PROVE IInv'
  OBVIOUS
<1>1. TypeOK /\ TypeOK'
  BY TypeNext DEF IInv
<1>2. CountersGrow /\ FirstKernel /\ NoByteTwice /\ NoByteLost
  BY DEF IInv
<1>3. ASSUME NEW u \in Users, NEW d \in Dirs
      PROVE  /\ Accounted(u, d) \in Nat /\ Accounted(u, d)' \in Nat
             /\ Owed(u, d) \in Nat /\ Owed(u, d)' \in Nat
             /\ Loses(u, d)
             /\ (restarts' = 0 /\ phase' \in {"run", "final"}) => Keeps(u, d)
  <2>1. Entries(u, d) /\ Entries(u, d)'
    BY <1>1, Books, BooksAfter
  <2>2. /\ Accounted(u, d) \in Nat /\ Accounted(u, d)' \in Nat
        /\ Owed(u, d) \in Nat /\ Owed(u, d)' \in Nat
    BY <2>1 DEF Entries, Owed
  <2> QED BY <1>1, <1>2, <2>2, Balance
<1>4. NoByteTwice'
  <2> SUFFICES ASSUME NEW u \in Users, NEW d \in Dirs PROVE Accounted(u, d)' <= Owed(u, d)'
    BY DEF NoByteTwice, Owed
  <2>1. Accounted(u, d) <= Owed(u, d)
    BY <1>2 DEF NoByteTwice, Owed
  <2> QED BY <1>3, <2>1 DEF Loses
<1>5. NoByteLost'
  <2> SUFFICES ASSUME restarts' = 0, phase' \in {"run", "final"}, NEW u \in Users, NEW d \in Dirs
               PROVE  Accounted(u, d)' = Owed(u, d)'
    BY DEF NoByteLost, Owed
  <2>1. restarts = 0
    BY <1>1, <1>2, GrowNext
  <2>2. phase \in {"run", "final"}
    BY <1>1 DEF Next, vars, Carry, CarryUnread, Moves, Drained, Devices, StartKernel, StopKernel,
                Track, ReportTick, Service, Push, PushSends, PanelTakes, PushSucceeds, PushFails,
                FinalFlush, Crash, FinalTaken, FinalFails, Stopped, DeviceTick, DeviceTold, LinkLost
  <2>3. Accounted(u, d) = Owed(u, d)
    BY <1>2, <2>1, <2>2 DEF NoByteLost, Owed
  <2> QED BY <1>3, <2>3 DEF Keeps
<1>6. CountersGrow' /\ FirstKernel'
  <2>1. ASSUME restarts' = 0
        PROVE  ~draining' /\ \A u \in Users, d \in Dirs : lastSeen'[u][d] <= counter'[u][d]
    BY <1>1, <1>2, <2>1, GrowNext
  <2> QED BY <2>1 DEF CountersGrow, FirstKernel
<1> QED BY <1>1, <1>4, <1>5, <1>6 DEF IInv

LEMMA BooksHold == Spec => []IInv
BY BooksInit, BooksNext, PTL DEF Spec

\* The panel is never told more bytes than were moved and resent, however often the
\* kernel starts again and reports fail.
THEOREM BilledOnce == Spec => []NoByteTwice
<1>1. IInv => NoByteTwice
  BY DEF IInv
<1> QED BY <1>1, BooksHold, PTL

\* Until the kernel starts again or the node stops, every byte is billed, on its way,
\* pending or still in the counters.
THEOREM NothingLostOnTheWay == Spec => []NoByteLost
<1>1. IInv => NoByteLost
  BY DEF IInv
<1> QED BY <1>1, BooksHold, PTL

-----------------------------------------------------------------------------
(***************************************************************************)
(* Addresses.                                                              *)
(***************************************************************************)
\* While nothing is lost, what counts as reported is with the panel, or is what the push
\* under way carries, or the last of the device reports on their way.
AddressesKept ==
    (sure /\ phase = "run") =>
        \/ ~Carrying /\ deviceCh = <<>> /\ lastAliveHash \in {known, Nobody}
        \/ Carrying /\ deviceCh = <<>> /\ push.alive = lastAliveHash
        \/ ~Carrying /\ deviceCh # <<>> /\ deviceCh[Len(deviceCh)] = lastAliveHash

LEMMA AddressesNext == TypeOK /\ AddressesKept /\ [Next]_vars => AddressesKept'
<1> SUFFICES ASSUME TypeOK, AddressesKept, [Next]_vars, sure', phase' = "run"
             PROVE  \/ ~Carrying' /\ deviceCh' = <<>> /\ lastAliveHash' \in {known', Nobody}
                    \/ Carrying' /\ deviceCh' = <<>> /\ push'.alive = lastAliveHash'
                    \/ ~Carrying' /\ deviceCh' # <<>> /\ deviceCh'[Len(deviceCh')] = lastAliveHash'
  BY DEF AddressesKept
<1> USE DEF kernel, tracker, device, panel, bounds
<1>1. /\ push.at \in {"idle", "start", "wire", "taken"}
      /\ push \in [at : {"idle", "start", "wire", "taken"}, traffic : Flow, alive : AddrMaps \union {None}]
      /\ lastAliveHash \in AddrMaps /\ None \notin AddrMaps /\ snap \in AddrMaps
      /\ deviceCh \in Seq(AddrMaps) /\ sure \in BOOLEAN
  BY TrafficConstants DEF TypeOK
<1>2. CASE UNCHANGED <<push, device, lastAliveHash, known, phase>>
  BY <1>2 DEF AddressesKept, Carrying
<1>3. CASE ReportTick
  <2>1. phase = "run" /\ push.at = "idle" /\ UNCHANGED <<known, deviceCh>>
    BY <1>3 DEF ReportTick, Service, Flush
  <2>2. CASE skip > 0
    BY <1>2, <1>3, <2>1, <2>2 DEF ReportTick, Service
  <2>3. CASE ~(skip > 0)
    <3>1. /\ push'.at = "start" /\ lastAliveHash' = snap
          /\ push'.alive = IF snap = lastAliveHash THEN None ELSE snap
      BY <1>3, <2>3 DEF ReportTick, Flush, Flushed
    <3>2. Flush
      BY <1>3, <2>3 DEF ReportTick
    <3>3. CASE snap = lastAliveHash
      <4>1. sure
        BY <3>2, <3>3 DEF Flush
      <4> QED BY <2>1, <3>1, <3>3, <4>1 DEF AddressesKept, Carrying
    <3>4. CASE snap # lastAliveHash
      <4>1. deviceCh = <<>>
        BY <3>2, <3>4 DEF Flush
      <4> QED BY <1>1, <2>1, <3>1, <3>4, <4>1 DEF Carrying
    <3> QED BY <3>3, <3>4
  <2> QED BY <2>2, <2>3
<1>4. CASE PushSends
  <2>1. push'.at = "wire" /\ push'.alive = push.alive /\ push.at = "start"
        /\ UNCHANGED <<lastAliveHash, known, device, phase>>
    BY <1>1, <1>4 DEF PushSends
  <2> QED BY <2>1 DEF AddressesKept, Carrying
<1>5. CASE PanelTakes
  <2>1. push'.at = "taken" /\ push.at = "wire" /\ UNCHANGED <<lastAliveHash, device, phase>>
        /\ known' = IF push.alive \in {None, Nobody} THEN known ELSE push.alive
    BY <1>1, <1>5 DEF PanelTakes, Told
  <2> QED BY <1>1, <2>1 DEF AddressesKept, Carrying
<1>6. CASE PushSucceeds
  <2>1. push'.at = "idle" /\ push.at = "taken" /\ UNCHANGED <<lastAliveHash, known, device, phase>>
    BY <1>6 DEF PushSucceeds, Idle
  <2> QED BY <2>1 DEF AddressesKept, Carrying
<1>7. CASE PushFails
  <2>1. /\ push'.at = "idle" /\ UNCHANGED <<lastAliveHash, known, deviceCh, phase>>
        /\ sure /\ ~Carrying
    BY <1>7 DEF PushFails, Restore, RestoreAliveIPs, Idle, Carrying
  <2> QED BY <2>1 DEF AddressesKept, Carrying
<1>8. CASE DeviceTick
  <2>1. Queues(snap) /\ ~Carrying /\ lastAliveHash' = snap
    BY <1>8 DEF DeviceTick
  <2>2. deviceCh' # <<>> /\ deviceCh'[Len(deviceCh')] = snap
    BY <1>1, <2>1 DEF Queues
  <2>3. ~Carrying'
    <3>1. Torn = {push.alive} \/ (push.at = "start" /\ push.alive # None)
      BY DEF Torn, Racing
    <3>2. Torn = {push.alive} /\ push'.at = push.at
      BY <1>8, <2>1, <3>1, TearsType DEF Carrying, DeviceTick
    <3>3. push'.alive = push.alive
      BY <1>1, <1>8, <3>2 DEF DeviceTick, Tears
    <3> QED BY <2>1, <3>2, <3>3 DEF Carrying
  <2> QED BY <2>1, <2>2, <2>3
<1>9. CASE DeviceTold
  <2>1. /\ deviceCh # <<>> /\ known' = Head(deviceCh) /\ deviceCh' = Tail(deviceCh)
        /\ UNCHANGED <<push, lastAliveHash, sure, phase>>
    BY <1>9 DEF DeviceTold
  <2>2. ~Carrying /\ ~Carrying' /\ deviceCh[Len(deviceCh)] = lastAliveHash
    BY <2>1 DEF AddressesKept, Carrying
  <2>3. CASE Len(deviceCh) = 1
    BY <1>1, <2>1, <2>2, <2>3
  <2>4. CASE Len(deviceCh) # 1
    BY <1>1, <2>1, <2>2, <2>4
  <2> QED BY <2>3, <2>4
<1>10. CASE FinalFlush \/ Crash \/ FinalTaken \/ FinalFails \/ LinkLost
  BY <1>10 DEF FinalFlush, Crash, FinalTaken, FinalFails, Stopped, LinkLost
<1>11. CASE \/ \E u \in Users, d \in Dirs : Carry(u, d) \/ CarryUnread(u, d)
            \/ Drained \/ Devices \/ StartKernel \/ StopKernel \/ Track \/ UNCHANGED vars
  BY <1>2, <1>11 DEF Carry, CarryUnread, Moves, Drained, Devices, StartKernel, StopKernel, Track,
                     Service, vars
<1> QED BY <1>3, <1>4, <1>5, <1>6, <1>7, <1>8, <1>9, <1>10, <1>11 DEF Next, Push

\* But for reports that were lost or under way together, what the tracker takes for
\* reported is what the panel knows, or nothing: between a flush and the panel's answer
\* it is what the push carries, or the last device report.
THEOREM AddressesReported == Spec => []AddressesKnown
<1>1. Init => AddressesKept
  BY DEF Init, InitAt, Idle, Carrying, AddressesKept
<1>2. AddressesKept => AddressesKnown
  BY DEF AddressesKept, AddressesKnown
<1> QED BY <1>1, <1>2, TypeInit, TypeNext, AddressesNext, PTL DEF Spec

-----------------------------------------------------------------------------
(***************************************************************************)
(* The WebSocket client.                                                   *)
(***************************************************************************)
Stages  == {"dialling", "hello", "greeted", "open", "closing", "ended", "waiting", "returned"}
Runs    == [at : Stages, failed : BOOLEAN]
Wires   == [up : BOOLEAN, events : 0..MaxEvents]
Readers == {"none", "reads", "holds", "gone"}

\* Run is in the select loop of connect.
Connecting == run.at \in {"open", "closing"}

\* writeCh is there in the select loop only, a reader is left over only when it is not
\* waited for, and nothing was read of a connection that has not been made.
WSInv ==
    /\ WSTypeOK
    /\ connected <=> told = "up"
    /\ writeCh = NoChannel <=> ~Connecting
    /\ run.at \in {"hello", "greeted", "open", "closing"} => link > 0
    /\ handled <= link
    /\ \A c \in Links :
          /\ wire[c].events <= sent
          /\ c > link => reader[c] = "none"
          /\ reader[c] \in {"reads", "holds"} => c \in orphaned \/ (Connecting /\ c = link)
    /\ NoStrayReader

\* The type with the fields of wire and run taken apart.
LEMMA WSTypes ==
    ASSUME WSTypeOK
    PROVE  /\ run \in Runs /\ run.at \in Stages /\ run.failed \in BOOLEAN
           /\ wire \in [Links -> Wires]
           /\ \A c \in Links : wire[c].up \in BOOLEAN /\ wire[c].events \in 0..MaxEvents
           /\ reader \in [Links -> Readers]
BY DEF WSTypeOK, Runs, Stages, Wires, Readers

\* A status that is queued leaves the channel within its capacity.
LEMMA QueuedTyped ==
    ASSUME WSTypeOK, NEW s \in Statuses
    PROVE  Queued(s) \in Seq(Statuses) /\ Len(Queued(s)) <= StatusCap
<1>1. wsStatuses \in Seq(Statuses) /\ Len(wsStatuses) <= StatusCap /\ Len(wsStatuses) \in Nat
  BY LenProperties DEF WSTypeOK
<1>2. StatusCap \in Nat
  BY WSClientConstants
<1>3. Append(wsStatuses, s) \in Seq(Statuses) /\ Len(Append(wsStatuses, s)) = Len(wsStatuses) + 1
  BY <1>1, AppendProperties
<1> QED BY <1>1, <1>2, <1>3 DEF Queued

LEMMA NotifyTyped ==
    ASSUME WSTypeOK, NEW up \in BOOLEAN, Notify(up)
    PROVE  /\ told' = IF up THEN "up" ELSE "down"
           /\ wsStatuses' \in Seq(Statuses) /\ Len(wsStatuses') <= StatusCap
<1>1. [connected |-> up, resync |-> FALSE] \in Statuses
  BY DEF Statuses
<1> QED BY <1>1, QueuedTyped DEF Notify

LEMMA OnEventTyped ==
    ASSUME WSTypeOK, NEW c \in Links, OnEvent(c)
    PROVE  /\ handled' = c /\ overtaken' \in BOOLEAN /\ (overtaken' => overtaken \/ c < handled)
           /\ wsEvents' \in 0..EventCap
           /\ wsStatuses' \in Seq(Statuses) /\ Len(wsStatuses') <= StatusCap
<1>1. [connected |-> TRUE, resync |-> TRUE] \in Statuses
  BY DEF Statuses
<1>2. EventCap \in Nat /\ wsEvents \in 0..EventCap /\ overtaken \in BOOLEAN
      /\ wsStatuses \in Seq(Statuses) /\ Len(wsStatuses) <= StatusCap
  BY WSClientConstants DEF WSTypeOK
<1>3. handled' = c /\ overtaken' = (overtaken \/ c < handled)
  BY DEF OnEvent
<1>4. CASE wsEvents < EventCap
  BY <1>2, <1>3, <1>4 DEF OnEvent
<1>5. CASE ~(wsEvents < EventCap)
  BY <1>1, <1>2, <1>3, <1>5, QueuedTyped DEF OnEvent
<1> QED BY <1>4, <1>5

LEMMA AtTyped ==
    ASSUME WSTypeOK, NEW a \in Stages, At(a)
    PROVE  run' \in Runs /\ run'.at = a
BY WSTypes DEF At, Runs

\* What happens to the wire of one connection.
LEMMA WireUpTyped ==
    ASSUME WSTypeOK, NEW c \in Links, NEW b \in BOOLEAN, wire' = [wire EXCEPT ![c].up = b]
    PROVE  wire' \in [Links -> Wires] /\ \A d \in Links : wire'[d].events = wire[d].events
<1>1. wire \in [Links -> Wires]
  BY WSTypes
<1> DEFINE w == [wire[c] EXCEPT !.up = b]
<1>2. w \in Wires /\ w.events = wire[c].events
  BY <1>1 DEF Wires
<1>3. wire' = [wire EXCEPT ![c] = w]
  OBVIOUS
<1> HIDE DEF w
<1> QED BY <1>1, <1>2, <1>3

LEMMA WireEventsTyped ==
    ASSUME WSTypeOK, NEW c \in Links, NEW n \in 0..MaxEvents, wire' = [wire EXCEPT ![c].events = n]
    PROVE  /\ wire' \in [Links -> Wires]
           /\ \A d \in Links : wire'[d].events = IF d = c THEN n ELSE wire[d].events
<1>1. wire \in [Links -> Wires]
  BY WSTypes
<1> DEFINE w == [wire[c] EXCEPT !.events = n]
<1>2. w \in Wires /\ w.events = n
  BY <1>1 DEF Wires
<1>3. wire' = [wire EXCEPT ![c] = w]
  OBVIOUS
<1> HIDE DEF w
<1> QED BY <1>1, <1>2, <1>3

\* However connect returns, the wire is closed and writeCh is gone.
LEMMA ReturnTyped ==
    ASSUME WSTypeOK, NEW err \in BOOLEAN, ConnectReturns(err)
    PROVE  /\ run' \in Runs /\ run'.at = "ended" /\ run'.failed = err
           /\ wire' \in [Links -> Wires] /\ \A d \in Links : wire'[d].events = wire[d].events
           /\ writeCh' = NoChannel
<1>1. run' = [at |-> "ended", failed |-> err] /\ writeCh' = NoChannel
  BY DEF ConnectReturns
<1>2. run' \in Runs /\ run'.at = "ended" /\ run'.failed = err
  BY <1>1 DEF Runs, Stages
<1>3. wire \in [Links -> Wires]
  BY WSTypes
<1>4. \A d \in Links : [wire[d] EXCEPT !.up = FALSE] \in Wires
                       /\ [wire[d] EXCEPT !.up = FALSE].events = wire[d].events
  BY <1>3 DEF Wires
<1>5. wire' = [c \in Links |-> IF c = link THEN [wire[c] EXCEPT !.up = FALSE] ELSE wire[c]]
  BY DEF ConnectReturns
<1> QED BY <1>1, <1>2, <1>3, <1>4, <1>5

\* WSTypeOK, by the names of the types.
WSTyped ==
    /\ run \in Runs /\ connected \in BOOLEAN /\ link \in 0..MaxLinks
    /\ wire \in [Links -> Wires] /\ reader \in [Links -> Readers]
    /\ writeCh \in 0..WriteCap \union {NoChannel} /\ wsEvents \in 0..EventCap
    /\ wsStatuses \in Seq(Statuses) /\ Len(wsStatuses) <= StatusCap
    /\ down \in BOOLEAN /\ stopping \in BOOLEAN /\ told \in {"nothing", "up", "down"}
    /\ handled \in 0..MaxLinks /\ overtaken \in BOOLEAN /\ orphaned \subseteq Links
    /\ sent \in 0..MaxEvents

LEMMA WSTypedIs == WSTypeOK <=> WSTyped
BY DEF WSTypeOK, WSTyped, Runs, Stages, Wires, Readers

\* The steps of Run.
LEMMA ClientTyped ==
    ASSUME WSInv, Client
    PROVE  WSTyped'
<1>1. /\ WSTypeOK /\ WSTyped
      /\ writeCh = NoChannel <=> ~Connecting
      /\ run.at \in {"hello", "greeted", "open", "closing"} => link > 0
      /\ \A c \in Links : wire[c].events <= sent
  BY WSTypedIs DEF WSInv
<1>2. /\ MaxLinks \in Nat /\ MaxEvents \in Nat /\ WriteCap \in Nat
      /\ 0 \in 0..WriteCap \union {NoChannel} /\ NoChannel \in 0..WriteCap \union {NoChannel}
      /\ {"reads", "gone", "holds", "none"} \subseteq Readers
      /\ Stages = {"dialling", "hello", "greeted", "open", "closing", "ended", "waiting", "returned"}
  BY WSClientConstants DEF Readers, Stages
<1>3. \A c \in Links : wire[c].events \in 0..MaxEvents
  BY <1>1, WSTypes
<1>4. CASE Dial
  <2>1. link + 1 \in Links /\ link' = link + 1 /\ link' \in 0..MaxLinks
    BY <1>1, <1>2, <1>4 DEF Dial, Links, WSTyped
  <2>2. wire' \in [Links -> Wires]
    BY <1>1, <1>4, <2>1, WireUpTyped DEF Dial
  <2>3. run' \in Runs
    BY <1>1, <1>2, <1>4, AtTyped DEF Dial
  <2> QED BY <1>1, <1>4, <2>1, <2>2, <2>3 DEF Dial, WSTyped
<1>5. CASE DialFails \/ Refused
  <2>1. ConnectReturns(TRUE) /\ UNCHANGED orphaned
    BY <1>5 DEF DialFails, Refused
  <2> QED BY <1>1, <1>2, <2>1, ReturnTyped DEF ConnectReturns, WSTyped
<1>6. CASE Greeted
  <2>1. run' \in Runs
    BY <1>1, <1>2, <1>6, AtTyped DEF Greeted
  <2>2. told' \in {"nothing", "up", "down"} /\ wsStatuses' \in Seq(Statuses) /\ Len(wsStatuses') <= StatusCap
    BY <1>1, <1>6, NotifyTyped DEF Greeted
  <2> QED BY <1>1, <1>6, <2>1, <2>2 DEF Greeted, WSTyped
<1>7. CASE OpenAfterAuth \/ OpenAfterEvent
  <2>1. Open /\ link \in Links /\ UNCHANGED <<connected, link, down, stopping, told, orphaned, sent>>
    BY <1>1, <1>2, <1>7 DEF OpenAfterAuth, OpenAfterEvent, Links, WSTyped
  <2>2. run' \in Runs /\ writeCh' = 0 /\ reader' \in [Links -> Readers]
    BY <1>1, <1>2, <2>1, AtTyped DEF Open, WSTyped
  <2>3. CASE OpenAfterAuth
    BY <1>1, <1>2, <2>1, <2>2, <2>3 DEF OpenAfterAuth, WSTyped
  <2>4. CASE OpenAfterEvent
    <3>1. wire[link].events - 1 \in 0..MaxEvents /\ wire' = [wire EXCEPT ![link].events = wire[link].events - 1]
      BY <1>2, <1>3, <2>1, <2>4 DEF OpenAfterEvent
    <3>2. wire' \in [Links -> Wires]
      BY <1>1, <2>1, <3>1, WireEventsTyped
    <3>3. /\ handled' \in 0..MaxLinks /\ overtaken' \in BOOLEAN /\ wsEvents' \in 0..EventCap
          /\ wsStatuses' \in Seq(Statuses) /\ Len(wsStatuses') <= StatusCap
      BY <1>1, <2>1, <2>4, OnEventTyped DEF OpenAfterEvent, WSTyped
    <3> QED BY <1>1, <1>2, <2>1, <2>2, <3>2, <3>3 DEF WSTyped
  <2> QED BY <1>7, <2>3, <2>4
<1>8. CASE SelectDone
  <2>1. run' \in Runs
    BY <1>1, <1>2, <1>8, AtTyped DEF SelectDone
  <2> QED BY <1>1, <1>8, <2>1 DEF SelectDone, WSTyped
<1>9. CASE Closed \/ SelectErr \/ WriteFails
  <2>1. PICK err \in BOOLEAN : ConnectReturns(err)
    BY <1>9 DEF Closed, SelectErr, WriteFails
  <2>2. orphaned' \subseteq Links
    <3>1. WriteFails => link \in Links
      BY <1>1, <1>2 DEF WriteFails, Links, WSTyped
    <3>2. UNCHANGED orphaned \/ (WriteFails /\ orphaned' = orphaned \union {link})
      BY <1>9 DEF Closed, SelectErr, WriteFails
    <3> QED BY <1>1, <3>1, <3>2 DEF WSTyped
  <2> QED BY <1>1, <1>2, <2>1, <2>2, ReturnTyped DEF ConnectReturns, WSTyped
<1>10. CASE SelectWrite
  <2>1. writeCh \in 0..WriteCap
    BY <1>1, <1>10 DEF SelectWrite, Connecting, WSTyped
  <2>2. writeCh' \in 0..WriteCap
    BY <1>2, <1>10, <2>1 DEF SelectWrite
  <2> QED BY <1>1, <1>10, <2>2 DEF SelectWrite, WSTyped
<1>11. CASE Ended
  <2>1. run' \in Runs
    BY <1>1, <1>2, <1>11, AtTyped DEF Ended
  <2>2. told' \in {"nothing", "up", "down"} /\ wsStatuses' \in Seq(Statuses) /\ Len(wsStatuses') <= StatusCap
    <3>1. CASE Notify(FALSE)
      BY <1>1, <3>1, NotifyTyped
    <3> QED BY <1>1, <1>11, <3>1 DEF Ended, WSTyped
  <2> QED BY <1>1, <1>11, <2>1, <2>2 DEF Ended, WSTyped
<1>12. CASE Again \/ Leaves
  <2>1. run' \in Runs
    BY <1>1, <1>2, <1>12, AtTyped DEF Again, Leaves
  <2> QED BY <1>1, <1>12, <2>1 DEF Again, Leaves, WSTyped
<1> QED BY <1>4, <1>5, <1>6, <1>7, <1>8, <1>9, <1>10, <1>11, <1>12 DEF Client

\* The steps of the network, the readers and the service.
LEMMA AroundTyped ==
    ASSUME WSInv,
           \/ \E c \in Links : PanelSends(c) \/ Breaks(c) \/ Reader(c)
           \/ SendReport \/ TakeEvent \/ TakeStatus \/ Cancels
    PROVE  WSTyped'
<1>1. /\ WSTypeOK /\ WSTyped
      /\ \A c \in Links : wire[c].events <= sent
  BY WSTypedIs DEF WSInv
<1>2. /\ MaxLinks \in Nat /\ MaxEvents \in Nat /\ WriteCap \in Nat /\ EventCap \in Nat
      /\ {"reads", "gone", "holds", "none"} \subseteq Readers /\ Links = 1..MaxLinks
  BY WSClientConstants DEF Readers, Links
<1>3. \A c \in Links : wire[c].events \in 0..MaxEvents
  BY <1>1, WSTypes
<1>4. ASSUME NEW c \in Links, PanelSends(c) PROVE WSTyped'
  <2>1. sent < MaxEvents /\ sent' = sent + 1 /\ sent' \in 0..MaxEvents
    BY <1>1, <1>2, <1>4 DEF PanelSends, WSTyped
  <2>2. wire[c].events + 1 \in 0..MaxEvents /\ wire' = [wire EXCEPT ![c].events = wire[c].events + 1]
    BY <1>1, <1>2, <1>3, <1>4, <2>1, SMTT(30) DEF PanelSends, WSTyped
  <2>3. wire' \in [Links -> Wires]
    BY <1>1, <2>2, WireEventsTyped
  <2> QED BY <1>1, <1>4, <2>1, <2>3 DEF PanelSends, WSTyped
<1>5. ASSUME NEW c \in Links, Breaks(c) PROVE WSTyped'
  <2>1. wire' \in [Links -> Wires]
    BY <1>1, <1>5, WireUpTyped DEF Breaks
  <2> QED BY <1>1, <1>5, <2>1 DEF Breaks, WSTyped
<1>6. ASSUME NEW c \in Links, Reads(c) PROVE WSTyped'
  <2>1. wire[c].events - 1 \in 0..MaxEvents /\ wire' = [wire EXCEPT ![c].events = wire[c].events - 1]
    BY <1>2, <1>3, <1>6 DEF Reads
  <2>2. wire' \in [Links -> Wires]
    BY <1>1, <2>1, WireEventsTyped
  <2> QED BY <1>1, <1>2, <1>6, <2>2 DEF Reads, WSTyped
<1>7. ASSUME NEW c \in Links, Delivers(c) PROVE WSTyped'
  <2>1. /\ handled' \in 0..MaxLinks /\ overtaken' \in BOOLEAN /\ wsEvents' \in 0..EventCap
        /\ wsStatuses' \in Seq(Statuses) /\ Len(wsStatuses') <= StatusCap
    BY <1>1, <1>2, <1>7, OnEventTyped DEF Delivers
  <2> QED BY <1>1, <1>2, <1>7, <2>1 DEF Delivers, WSTyped
<1>8. ASSUME NEW c \in Links, ReaderEnds(c) PROVE WSTyped'
  BY <1>1, <1>2, <1>8 DEF ReaderEnds, WSTyped
<1>9. CASE SendReport
  <2>1. writeCh \in 0..WriteCap /\ writeCh' \in 0..WriteCap
    BY <1>1, <1>2, <1>9 DEF SendReport, WSTyped
  <2> QED BY <1>1, <1>9, <2>1 DEF SendReport, WSTyped
<1>10. CASE TakeEvent
  BY <1>1, <1>2, <1>10 DEF TakeEvent, WSTyped
<1>11. CASE TakeStatus
  <2>1. Tail(wsStatuses) \in Seq(Statuses) /\ Len(Tail(wsStatuses)) = Len(wsStatuses) - 1 /\ Len(wsStatuses) \in Nat
    BY <1>1, <1>11, HeadTailProperties, LenProperties DEF TakeStatus, WSTyped
  <2>2. StatusCap \in Nat
    BY WSClientConstants
  <2>3. wsStatuses' \in Seq(Statuses) /\ Len(wsStatuses') <= StatusCap
    BY <1>1, <1>11, <2>1, <2>2 DEF TakeStatus, WSTyped
  <2>4. down' \in BOOLEAN
    BY <1>11 DEF TakeStatus
  <2> QED BY <1>1, <1>11, <2>3, <2>4 DEF TakeStatus, WSTyped
<1>12. CASE Cancels
  BY <1>1, <1>12 DEF Cancels, WSTyped
<1> QED BY <1>4, <1>5, <1>6, <1>7, <1>8, <1>9, <1>10, <1>11, <1>12 DEF Reader

\* The rest of the invariant, by the names of its parts.
ReadersWaitedFor ==
    \A c \in Links :
        /\ c > link => reader[c] = "none"
        /\ reader[c] \in {"reads", "holds"} => c \in orphaned \/ (Connecting /\ c = link)

WSControl ==
    /\ connected <=> told = "up"
    /\ writeCh = NoChannel <=> ~Connecting
    /\ run.at \in {"hello", "greeted", "open", "closing"} => link > 0
    /\ run.at \in {"dialling", "hello", "waiting", "returned"} => ~connected
    /\ run.at \in {"greeted", "open", "closing"} => connected

WSOrder ==
    /\ handled <= link
    /\ overtaken => orphaned # {}

OnTheWire == \A c \in Links : wire[c].events <= sent

LEMMA WSInvIs == WSInv <=> WSTyped /\ WSControl /\ ReadersWaitedFor /\ WSOrder /\ OnTheWire
<1>1. WSTypeOK => link \in 0..MaxLinks /\ \A c \in Links : reader[c] \in Readers
  BY DEF WSTypeOK, Readers
<1> QED BY <1>1, WSTypedIs DEF WSInv, WSControl, ReadersWaitedFor, WSOrder, OnTheWire, NoStrayReader, Connecting

\* Every step of Run keeps the rest of the invariant.
LEMMA ClientKeeps ==
    ASSUME WSInv, Client
    PROVE  WSControl' /\ ReadersWaitedFor' /\ WSOrder' /\ OnTheWire'
<1>1. WSTypeOK /\ WSTyped /\ WSControl /\ ReadersWaitedFor /\ WSOrder /\ OnTheWire
  BY WSInvIs, WSTypedIs
<1>2. /\ link \in 0..MaxLinks /\ MaxLinks \in Nat /\ Links = 1..MaxLinks /\ MaxEvents \in Nat
      /\ handled \in 0..MaxLinks /\ sent \in 0..MaxEvents /\ run.at \in Stages
      /\ reader \in [Links -> Readers] /\ connected \in BOOLEAN /\ overtaken \in BOOLEAN
      /\ NoChannel \notin Nat
  BY <1>1, WSTypes, WSClientConstants DEF WSTyped, Links
<1>3. \A c \in Links : wire[c].events \in 0..MaxEvents
  BY <1>1, WSTypes
<1> DEFINE Remains == WSControl' /\ ReadersWaitedFor' /\ WSOrder' /\ OnTheWire'
<1> USE DEF WSControl, ReadersWaitedFor, WSOrder, OnTheWire, Connecting
<1>4. ASSUME Dial PROVE Remains
  <2>1. run'.at = "hello" /\ run.at = "dialling"
    BY <1>1, <1>4, AtTyped DEF Dial, Stages
  <2>2. link' = link + 1 /\ link' \in Links /\ \A c \in Links : wire'[c].events = wire[c].events
    BY <1>1, <1>2, <1>4, WireUpTyped DEF Dial
  <2> QED BY <1>1, <1>2, <1>4, <2>1, <2>2 DEF Dial
<1>5. ASSUME DialFails \/ Refused PROVE Remains
  <2>1. ConnectReturns(TRUE) /\ UNCHANGED orphaned /\ run.at \in {"dialling", "hello"}
    BY <1>5 DEF DialFails, Refused
  <2>2. run'.at = "ended" /\ writeCh' = NoChannel /\ \A c \in Links : wire'[c].events = wire[c].events
    BY <1>1, <2>1, ReturnTyped
  <2> QED BY <1>1, <1>2, <2>1, <2>2 DEF ConnectReturns
<1>6. ASSUME Greeted PROVE Remains
  <2>1. run'.at = "greeted" /\ run.at = "hello"
    BY <1>1, <1>6, AtTyped DEF Greeted, Stages
  <2>2. told' = "up" /\ connected' = TRUE
    BY <1>1, <1>6, NotifyTyped DEF Greeted
  <2> QED BY <1>1, <1>2, <1>6, <2>1, <2>2 DEF Greeted
<1>7. ASSUME OpenAfterAuth \/ OpenAfterEvent PROVE Remains
  <2>1. /\ Open /\ link \in Links /\ UNCHANGED <<connected, link, told, orphaned, sent>>
        /\ run.at = "greeted"
    BY <1>1, <1>2, <1>7 DEF OpenAfterAuth, OpenAfterEvent
  <2>2. run'.at = "open" /\ writeCh' = 0 /\ reader' = [reader EXCEPT ![link] = "reads"]
    BY <1>1, <2>1, AtTyped DEF Open, Stages
  <2>3. CASE OpenAfterAuth
    BY <1>1, <1>2, <2>1, <2>2, <2>3 DEF OpenAfterAuth
  <2>4. CASE OpenAfterEvent
    <3>1. wire[link].events - 1 \in 0..MaxEvents /\ wire' = [wire EXCEPT ![link].events = wire[link].events - 1]
      BY <1>2, <1>3, <2>1, <2>4 DEF OpenAfterEvent
    <3>2. \A c \in Links : wire'[c].events = IF c = link THEN wire[link].events - 1 ELSE wire[c].events
      BY <1>1, <2>1, <3>1, WireEventsTyped
    <3>3. handled' = link /\ (overtaken' => overtaken)
      BY <1>1, <1>2, <2>1, <2>4, OnEventTyped DEF OpenAfterEvent
    <3>4. OnTheWire'
      BY <1>1, <1>2, <1>3, <2>1, <3>2
    <3>5. WSControl' /\ ReadersWaitedFor' /\ WSOrder'
      BY <1>1, <1>2, <2>1, <2>2, <3>3
    <3> QED BY <3>4, <3>5
  <2> QED BY <1>7, <2>3, <2>4
<1>8. ASSUME SelectDone PROVE Remains
  <2>1. run'.at = "closing" /\ run.at = "open"
    BY <1>1, <1>8, AtTyped DEF SelectDone, Stages
  <2> QED BY <1>1, <1>2, <1>8, <2>1 DEF SelectDone
<1>9. ASSUME Closed \/ SelectErr \/ WriteFails PROVE Remains
  <2>1. PICK err \in BOOLEAN : ConnectReturns(err)
    BY <1>9 DEF Closed, SelectErr, WriteFails
  <2>2. run'.at = "ended" /\ writeCh' = NoChannel /\ \A c \in Links : wire'[c].events = wire[c].events
    BY <1>1, <2>1, ReturnTyped
  <2>3. \/ UNCHANGED orphaned /\ reader[link] = "gone"
        \/ orphaned' = orphaned \union {link}
    BY <1>9 DEF Closed, SelectErr, WriteFails
  <2>4. UNCHANGED <<connected, link, reader, told, handled, overtaken, sent>>
    BY <2>1 DEF ConnectReturns
  <2> QED BY <1>1, <1>2, <2>2, <2>3, <2>4
<1>10. ASSUME SelectWrite PROVE Remains
  <2>1. writeCh \in Nat /\ writeCh' \in Nat
    BY <1>1, <1>10, WSClientConstants DEF SelectWrite, WSTyped
  <2> QED BY <1>1, <1>2, <1>10, <2>1 DEF SelectWrite
<1>11. ASSUME Ended PROVE Remains
  <2>1. run'.at = "waiting" /\ run.at = "ended" /\ connected' = FALSE
    BY <1>1, <1>11, AtTyped DEF Ended, Stages
  <2>2. told' # "up"
    <3>1. CASE Notify(FALSE)
      BY <1>1, <3>1, NotifyTyped
    <3>2. CASE ~connected /\ UNCHANGED told
      BY <1>1, <3>2
    <3> QED BY <1>11, <3>1, <3>2 DEF Ended
  <2> QED BY <1>1, <1>2, <1>11, <2>1, <2>2 DEF Ended
<1>12. ASSUME Again \/ Leaves PROVE Remains
  <2>1. run'.at \in {"dialling", "returned"} /\ run.at = "waiting"
    BY <1>1, <1>12, AtTyped DEF Again, Leaves, Stages
  <2>2. UNCHANGED <<connected, link, wire, reader, writeCh, told, handled, overtaken, orphaned, sent>>
    BY <1>12 DEF Again, Leaves
  <2> QED BY <1>1, <1>2, <2>1, <2>2
<1> QED BY <1>4, <1>5, <1>6, <1>7, <1>8, <1>9, <1>10, <1>11, <1>12 DEF Client

\* And so does every other step.
LEMMA AroundKeeps ==
    ASSUME WSInv,
           \/ \E c \in Links : PanelSends(c) \/ Breaks(c) \/ Reader(c)
           \/ SendReport \/ TakeEvent \/ TakeStatus \/ Cancels
    PROVE  WSControl' /\ ReadersWaitedFor' /\ WSOrder' /\ OnTheWire'
<1>1. WSTypeOK /\ WSTyped /\ WSControl /\ ReadersWaitedFor /\ WSOrder /\ OnTheWire
  BY WSInvIs, WSTypedIs
<1>2. /\ link \in 0..MaxLinks /\ MaxLinks \in Nat /\ Links = 1..MaxLinks /\ MaxEvents \in Nat
      /\ handled \in 0..MaxLinks /\ sent \in 0..MaxEvents /\ run.at \in Stages
      /\ reader \in [Links -> Readers] /\ connected \in BOOLEAN /\ overtaken \in BOOLEAN
      /\ NoChannel \notin Nat
  BY <1>1, WSTypes, WSClientConstants DEF WSTyped, Links
<1>3. \A c \in Links : wire[c].events \in 0..MaxEvents
  BY <1>1, WSTypes
<1> DEFINE Remains == WSControl' /\ ReadersWaitedFor' /\ WSOrder' /\ OnTheWire'
<1> USE DEF WSControl, ReadersWaitedFor, WSOrder, OnTheWire, Connecting
<1>4. ASSUME NEW c \in Links, PanelSends(c) PROVE Remains
  <2>1. sent' = sent + 1 /\ wire' = [wire EXCEPT ![c].events = wire[c].events + 1] /\ sent < MaxEvents
    BY <1>4 DEF PanelSends
  <2>2. wire[c].events + 1 \in 0..MaxEvents
    BY <1>1, <1>2, <1>3, <2>1, SMTT(30)
  <2>3. \A d \in Links : wire'[d].events = IF d = c THEN wire[c].events + 1 ELSE wire[d].events
    BY <1>1, <2>1, <2>2, WireEventsTyped
  <2>4. OnTheWire'
    BY <1>1, <1>2, <1>3, <2>1, <2>3
  <2> QED BY <1>1, <1>4, <2>4 DEF PanelSends
<1>5. ASSUME NEW c \in Links, Breaks(c) PROVE Remains
  <2>1. \A d \in Links : wire'[d].events = wire[d].events
    BY <1>1, <1>5, WireUpTyped DEF Breaks
  <2> QED BY <1>1, <1>5, <2>1 DEF Breaks
<1>6. ASSUME NEW c \in Links, Reads(c) PROVE Remains
  <2>1. wire[c].events - 1 \in 0..MaxEvents /\ wire' = [wire EXCEPT ![c].events = wire[c].events - 1]
    BY <1>2, <1>3, <1>6 DEF Reads
  <2>2. \A d \in Links : wire'[d].events = IF d = c THEN wire[c].events - 1 ELSE wire[d].events
    BY <1>1, <2>1, WireEventsTyped
  <2>3. OnTheWire'
    BY <1>1, <1>2, <1>3, <1>6, <2>2 DEF Reads
  <2>4. reader[c] = "reads" /\ reader' = [reader EXCEPT ![c] = "holds"]
        /\ UNCHANGED <<run, connected, link, writeCh, told, handled, overtaken, orphaned>>
    BY <1>6 DEF Reads
  <2> QED BY <1>1, <1>2, <2>3, <2>4
<1>7. ASSUME NEW c \in Links, Delivers(c) PROVE Remains
  <2>1. /\ reader[c] = "holds" /\ OnEvent(c) /\ reader' = [reader EXCEPT ![c] = "reads"]
        /\ UNCHANGED <<run, connected, link, wire, writeCh, told, orphaned, sent>>
    BY <1>7 DEF Delivers
  <2>2. handled' = c /\ (overtaken' => overtaken \/ c < handled)
    BY <1>1, <2>1, OnEventTyped
  <2>3. c <= link /\ (c < handled => c \in orphaned)
    BY <1>1, <1>2, <2>1
  <2> QED BY <1>1, <1>2, <2>1, <2>2, <2>3
<1>8. ASSUME NEW c \in Links, ReaderEnds(c) PROVE Remains
  <2>1. reader[c] = "reads" /\ reader' = [reader EXCEPT ![c] = "gone"]
        /\ UNCHANGED <<run, connected, link, wire, writeCh, told, handled, overtaken, orphaned, sent>>
    BY <1>8 DEF ReaderEnds
  <2> QED BY <1>1, <1>2, <2>1
<1>9. ASSUME SendReport PROVE Remains
  <2>1. writeCh # NoChannel /\ writeCh \in Nat /\ writeCh' \in Nat
    BY <1>1, <1>9, WSClientConstants DEF SendReport, WSTyped
  <2> QED BY <1>1, <1>2, <1>9, <2>1 DEF SendReport
<1>10. ASSUME TakeEvent \/ TakeStatus \/ Cancels PROVE Remains
  <2>1. UNCHANGED <<run, connected, link, wire, reader, writeCh, told, handled, overtaken, orphaned, sent>>
    BY <1>10 DEF TakeEvent, TakeStatus, Cancels
  <2> QED BY <1>1, <2>1
<1> QED BY <1>4, <1>5, <1>6, <1>7, <1>8, <1>9, <1>10 DEF Reader

LEMMA WSInvInit == WSInit => WSInv
<1> SUFFICES ASSUME WSInit PROVE WSInv
  OBVIOUS
<1>1. {WriteCap, EventCap, StatusCap, MaxLinks, MaxEvents} \subseteq Nat \ {0}
  BY WSClientConstants
<1>2. run \in Runs /\ wire \in [Links -> Wires] /\ run.at = "dialling"
  BY <1>1 DEF WSInit, WSAt, Runs, Stages, Wires
<1>3. wsStatuses \in Seq(Statuses) /\ Len(wsStatuses) = 0
  BY EmptySeq DEF WSInit, WSAt
<1>4. WSTyped
  <2>1. stopping \in BOOLEAN
    BY DEF WSInit, WSAt
  <2>2. /\ connected = FALSE /\ link = 0 /\ reader = [c \in Links |-> "none"]
        /\ writeCh = NoChannel /\ wsEvents = 0 /\ down = FALSE /\ told = "nothing"
        /\ handled = 0 /\ overtaken = FALSE /\ orphaned = {} /\ sent = 0
    BY DEF WSInit, WSAt
  <2>3. 0 \in 0..EventCap /\ 0 \in 0..MaxLinks /\ 0 \in 0..MaxEvents /\ 0 <= StatusCap
    BY <1>1
  <2>4. reader \in [Links -> Readers]
    BY <2>2 DEF Readers
  <2> QED BY <1>2, <1>3, <2>1, <2>2, <2>3, <2>4 DEF WSTyped
<1>5. OnTheWire
  BY DEF WSInit, WSAt, OnTheWire
<1> QED BY <1>2, <1>4, <1>5, WSInvIs
        DEF WSInit, WSAt, WSControl, ReadersWaitedFor, WSOrder, Connecting, Links

LEMMA WSInvNext == WSInv /\ [WSNext]_wsclient => WSInv'
<1> SUFFICES ASSUME WSInv, [WSNext]_wsclient PROVE WSInv'
  OBVIOUS
<1>1. WSInv' <=> WSTyped' /\ WSControl' /\ ReadersWaitedFor' /\ WSOrder' /\ OnTheWire'
  BY WSInvIs, PTL
<1>2. CASE Client
  BY <1>1, <1>2, ClientTyped, ClientKeeps
<1>3. CASE \/ \E c \in Links : PanelSends(c) \/ Breaks(c) \/ Reader(c)
           \/ SendReport \/ TakeEvent \/ TakeStatus \/ Cancels
  BY <1>1, <1>3, AroundTyped, AroundKeeps
<1>4. CASE UNCHANGED wsclient
  BY <1>1, <1>4, WSInvIs DEF wsclient, WSTyped, WSControl, ReadersWaitedFor, WSOrder, OnTheWire, Connecting
<1> QED BY <1>2, <1>3, <1>4 DEF WSNext

\* While Run dials, waits or has returned, no connection is believed in and only a reader
\* whose connection failed in a write can still hand over an event; an event of an older
\* connection overtakes one of a newer after such a failure only.
THEOREM ReadersAccountedFor == WSSpec => []NoStrayReader
<1>1. WSInv => NoStrayReader
  BY DEF WSInv
<1> QED BY <1>1, WSInvInit, WSInvNext, PTL DEF WSSpec

-----------------------------------------------------------------------------
(***************************************************************************)
(* Access records.                                                         *)
(***************************************************************************)
Pushes == [at : {"idle", "sent", "answered", "remembered", "aimed"},
           batch : SUBSET Records, says : BOOLEAN, target : 0..MaxStarts]
Armings == [at : {"idle", "made", "read", "ended"}, says : BOOLEAN]

Holders(r)    == {t \in Trackers : r \in buffer[t]}
Carries(u, r) == u.at = "sent" /\ r \in u.batch
Carriers(r)   == {p \in Uploads : Carries(upload[p], r)}

\* A record was produced before it could be refused or lost.
AccessInv ==
    /\ AccessTypeOK
    /\ \A r \in dropped \union failed : r <= produced
    /\ AccessOnce

LEMMA PlacesAre ==
    ASSUME NEW r \in Records
    PROVE  Places(r) = Cardinality(Holders(r)) + Cardinality(Carriers(r)) + taken[r]
BY DEF Places, Holders, Carriers, Carries

LEMMA PlacesFinite ==
    ASSUME NEW r \in Records
    PROVE  /\ IsFiniteSet(Holders(r)) /\ Cardinality(Holders(r)) \in Nat
           /\ IsFiniteSet(Carriers(r)) /\ Cardinality(Carriers(r)) \in Nat
<1>1. IsFiniteSet(Trackers) /\ IsFiniteSet(Uploads)
  BY AccessConstants, FS_Interval DEF Trackers
<1>2. Holders(r) \in SUBSET Trackers /\ Carriers(r) \in SUBSET Uploads
  BY DEF Holders, Carriers
<1> QED BY <1>1, <1>2, FS_Subset, FS_CardinalityType

LEMMA CountAfter ==
    ASSUME NEW S, IsFiniteSet(S), NEW x
    PROVE  /\ Cardinality(S \union {x}) = Cardinality(S) + 1 - (IF x \in S THEN 1 ELSE 0)
           /\ Cardinality(S \ {x}) = Cardinality(S) - (IF x \in S THEN 1 ELSE 0)
<1>1. Cardinality(S) \in Nat
  BY FS_CardinalityType
<1>2. Cardinality(S \union {x}) = IF x \in S THEN Cardinality(S) ELSE Cardinality(S) + 1
  BY FS_AddElement
<1>3. Cardinality(S \ {x}) = IF x \in S THEN Cardinality(S) - 1 ELSE Cardinality(S)
  BY FS_RemoveElement
<1> QED BY <1>1, <1>2, <1>3

\* What becomes of the holders of a record as one buffer, and of its carriers as one push
\* changes.
LEMMA HoldersAfter ==
    ASSUME AccessTypeOK, NEW t \in Trackers, NEW B \in SUBSET Records, NEW r \in Records,
           buffer' = [buffer EXCEPT ![t] = B]
    PROVE  Cardinality(Holders(r)') =
               Cardinality(Holders(r)) + (IF r \in B THEN 1 ELSE 0) - (IF r \in buffer[t] THEN 1 ELSE 0)
<1>1. buffer \in [Trackers -> SUBSET Records]
  BY DEF AccessTypeOK
<1>2. Holders(r)' = IF r \in B THEN Holders(r) \union {t} ELSE Holders(r) \ {t}
  BY <1>1 DEF Holders
<1>3. t \in Holders(r) <=> r \in buffer[t]
  BY DEF Holders
<1>4. IsFiniteSet(Holders(r)) /\ Cardinality(Holders(r)) \in Nat
  BY PlacesFinite
<1>5. /\ Cardinality(Holders(r) \union {t}) = Cardinality(Holders(r)) + 1 - (IF t \in Holders(r) THEN 1 ELSE 0)
      /\ Cardinality(Holders(r) \ {t}) = Cardinality(Holders(r)) - (IF t \in Holders(r) THEN 1 ELSE 0)
  BY <1>4, CountAfter
<1> HIDE DEF Holders
<1> QED BY <1>2, <1>3, <1>4, <1>5

LEMMA CarriersAfter ==
    ASSUME AccessTypeOK, NEW p \in Uploads, NEW u \in Pushes, NEW r \in Records,
           upload' = [upload EXCEPT ![p] = u]
    PROVE  Cardinality(Carriers(r)') =
               Cardinality(Carriers(r)) + (IF Carries(u, r) THEN 1 ELSE 0)
                 - (IF Carries(upload[p], r) THEN 1 ELSE 0)
<1>1. upload \in [Uploads -> Pushes]
  BY DEF AccessTypeOK, Pushes
<1>2. Carriers(r)' = IF Carries(u, r) THEN Carriers(r) \union {p} ELSE Carriers(r) \ {p}
  <2>1. \A q \in Uploads : upload'[q] = IF q = p THEN u ELSE upload[q]
    BY <1>1
  <2>2. Carriers(r)' = {q \in Uploads : Carries(upload'[q], r)}
    BY DEF Carriers, Carries
  <2> QED BY <2>1, <2>2 DEF Carriers
<1>3. p \in Carriers(r) <=> Carries(upload[p], r)
  BY DEF Carriers
<1>4. IsFiniteSet(Carriers(r)) /\ Cardinality(Carriers(r)) \in Nat
  BY PlacesFinite
<1>5. /\ Cardinality(Carriers(r) \union {p}) = Cardinality(Carriers(r)) + 1 - (IF p \in Carriers(r) THEN 1 ELSE 0)
      /\ Cardinality(Carriers(r) \ {p}) = Cardinality(Carriers(r)) - (IF p \in Carriers(r) THEN 1 ELSE 0)
  BY <1>4, CountAfter
<1> HIDE DEF Carriers
<1> QED BY <1>2, <1>3, <1>4, <1>5

LEMMA PushTyped ==
    ASSUME NEW B \in SUBSET Records, NEW b \in BOOLEAN
    PROVE  /\ NoUpload \in Pushes /\ NotArming \in Armings
           /\ [NoUpload EXCEPT !.at = "sent", !.batch = B] \in Pushes
           /\ [NoUpload EXCEPT !.at = "sent", !.batch = B].at = "sent"
           /\ [NoUpload EXCEPT !.at = "sent", !.batch = B].batch = B
           /\ [NoUpload EXCEPT !.at = "answered", !.says = b] \in Pushes
           /\ [NoUpload EXCEPT !.at = "answered", !.says = b].at = "answered"
           /\ [NotArming EXCEPT !.at = "made"] \in Armings /\ [at |-> "read", says |-> b] \in Armings
           /\ NoUpload.at = "idle"
<1>1. 0 \in 0..MaxStarts
  BY AccessConstants
<1>2. NoUpload \in Pushes /\ NoUpload.at = "idle"
  BY <1>1 DEF NoUpload, Pushes
<1>3. /\ [NoUpload EXCEPT !.at = "sent", !.batch = B] \in Pushes
      /\ [NoUpload EXCEPT !.at = "sent", !.batch = B].at = "sent"
      /\ [NoUpload EXCEPT !.at = "sent", !.batch = B].batch = B
  BY <1>2 DEF Pushes
<1>4. /\ [NoUpload EXCEPT !.at = "answered", !.says = b] \in Pushes
      /\ [NoUpload EXCEPT !.at = "answered", !.says = b].at = "answered"
  BY <1>2 DEF Pushes
<1>5. NotArming \in Armings
  BY DEF NotArming, Armings
<1>6. [NotArming EXCEPT !.at = "made"] \in Armings /\ [at |-> "read", says |-> b] \in Armings
  BY <1>5 DEF Armings
<1> QED BY <1>2, <1>3, <1>4, <1>5, <1>6

\* AccessTypeOK, by the names of the types.
AccessTyped ==
    /\ desired \in BOOLEAN /\ remembered \in BOOLEAN
    /\ live \in 0..MaxStarts /\ logging \in [Trackers -> BOOLEAN]
    /\ arming \in Armings
    /\ buffer \in [Trackers -> SUBSET Records] /\ upload \in [Uploads -> Pushes]
    /\ taken \in [Records -> Nat]
    /\ produced \in 0..MaxRecords /\ dropped \subseteq Records /\ failed \subseteq Records
    /\ faults \in 0..MaxFaults /\ turns \in 0..MaxTurns

LEMMA AccessTypedIs == AccessTypeOK <=> AccessTyped
BY DEF AccessTypeOK, AccessTyped, Armings, Pushes

LEMMA PushFields ==
    ASSUME NEW u \in Pushes
    PROVE  /\ u.batch \in SUBSET Records /\ u.says \in BOOLEAN /\ u.target \in 0..MaxStarts
           /\ [u EXCEPT !.at = "remembered"] \in Pushes
           /\ [u EXCEPT !.at = "remembered"].at = "remembered"
           /\ \A t \in 0..MaxStarts : /\ [u EXCEPT !.at = "aimed", !.target = t] \in Pushes
                                      /\ [u EXCEPT !.at = "aimed", !.target = t].at = "aimed"
BY DEF Pushes

LEMMA AccessTypesNext == AccessInv /\ [AccessNext]_access => AccessTypeOK'
<1> SUFFICES ASSUME AccessTyped, [AccessNext]_access PROVE AccessTyped'
  BY AccessTypedIs, PTL DEF AccessInv
<1>1. /\ MaxStarts \in Nat /\ MaxRecords \in Nat /\ MaxFaults \in Nat /\ MaxTurns \in Nat
      /\ Trackers = 1..MaxStarts /\ Records = 1..MaxRecords
      /\ \A p \in Uploads : upload[p] \in Pushes
      /\ {} \in SUBSET Records
  BY AccessConstants DEF Trackers, Records, AccessTyped
<1>2. CASE Turn \/ NewTracker \/ ReadSetting \/ Arm
  <2>1. CASE Turn
    <3>1. turns' \in 0..MaxTurns
      BY <1>1, <2>1 DEF Turn, AccessTyped
    <3> QED BY <2>1, <3>1 DEF Turn, AccessTyped
  <2>2. CASE NewTracker
    <3>1. live' \in 0..MaxStarts
      BY <1>1, <2>2 DEF NewTracker, AccessTyped
    <3>2. arming' \in Armings
      BY <1>1, <2>2, PushTyped DEF NewTracker
    <3> QED BY <2>2, <3>1, <3>2 DEF NewTracker, AccessTyped
  <2>3. CASE ReadSetting
    <3>1. arming' \in Armings
      BY <1>1, <2>3, PushTyped DEF ReadSetting, AccessTyped
    <3> QED BY <2>3, <3>1 DEF ReadSetting, AccessTyped
  <2>4. CASE Arm
    <3>1. arming' \in Armings /\ arming.says \in BOOLEAN
      BY <1>1, <2>4, PushTyped DEF Arm, AccessTyped, Armings
    <3>2. logging' \in [Trackers -> BOOLEAN]
      BY <2>4, <3>1 DEF Arm, AccessTyped
    <3> QED BY <2>4, <3>1, <3>2 DEF Arm, AccessTyped
  <2> QED BY <1>2, <2>1, <2>2, <2>3, <2>4
<1>3. ASSUME NEW t \in Trackers, NEW denied \in BOOLEAN, Emit(t, denied) PROVE AccessTyped'
  <2>1. produced + 1 \in Records /\ produced' \in 0..MaxRecords
    BY <1>1, <1>3 DEF Emit, AccessTyped
  <2>2. buffer' \in [Trackers -> SUBSET Records] /\ dropped' \subseteq Records
    BY <1>3, <2>1 DEF Emit, Record, AccessTyped
  <2> QED BY <1>3, <2>1, <2>2 DEF Emit, AccessTyped
<1>4. ASSUME NEW p \in Uploads, Ship(p) PROVE AccessTyped'
  <2>1. Buffered \in SUBSET Records
    BY <1>1 DEF Buffered, AccessTyped
  <2>2. upload' \in [Uploads -> Pushes]
    BY <1>4, <2>1, PushTyped DEF Ship, AccessTyped
  <2>3. buffer' \in [Trackers -> SUBSET Records]
    BY <1>1, <1>4 DEF Ship, AccessTyped
  <2> QED BY <1>4, <2>2, <2>3 DEF Ship, AccessTyped
<1>5. ASSUME NEW p \in Uploads, Answer(p) PROVE AccessTyped'
  <2>1. upload' \in [Uploads -> Pushes]
    BY <1>1, <1>5, PushTyped DEF Answer, AccessTyped
  <2>2. taken' \in [Records -> Nat]
    BY <1>5 DEF Answer, AccessTyped
  <2> QED BY <1>5, <2>1, <2>2 DEF Answer, AccessTyped
<1>6. ASSUME NEW p \in Uploads, ShipFails(p) PROVE AccessTyped'
  <2>1. upload' \in [Uploads -> Pushes]
    BY <1>1, <1>6, PushTyped DEF ShipFails, AccessTyped
  <2>2. failed' \subseteq Records
    BY <1>1, <1>6, PushFields DEF ShipFails, AccessTyped
  <2>3. faults' \in 0..MaxFaults
    BY <1>1, <1>6 DEF ShipFails, AccessTyped
  <2> QED BY <1>6, <2>1, <2>2, <2>3 DEF ShipFails, AccessTyped
<1>7. ASSUME NEW p \in Uploads, Remember(p) PROVE AccessTyped'
  <2>1. upload' = [upload EXCEPT ![p] = [upload[p] EXCEPT !.at = "remembered"]]
    BY <1>7 DEF Remember
  <2>2. upload' \in [Uploads -> Pushes]
    BY <1>1, <2>1, PushFields DEF AccessTyped
  <2>3. remembered' \in BOOLEAN
    BY <1>1, <1>7, PushFields DEF Remember
  <2> QED BY <1>7, <2>2, <2>3 DEF Remember, AccessTyped
<1>8. ASSUME NEW p \in Uploads, Aim(p) PROVE AccessTyped'
  <2>1. [upload[p] EXCEPT !.at = "aimed", !.target = live] \in Pushes /\ NoUpload \in Pushes
    BY <1>1, PushFields, PushTyped DEF AccessTyped
  <2>2. upload' = [upload EXCEPT ![p] = IF live = 0 THEN NoUpload
                                        ELSE [upload[p] EXCEPT !.at = "aimed", !.target = live]]
    BY <1>8 DEF Aim
  <2>3. upload' \in [Uploads -> Pushes]
    BY <2>1, <2>2 DEF AccessTyped
  <2> QED BY <1>8, <2>3 DEF Aim, AccessTyped
<1>9. ASSUME NEW p \in Uploads, Apply(p) PROVE AccessTyped'
  <2>1. upload' \in [Uploads -> Pushes]
    BY <1>1, <1>9, PushTyped DEF Apply, AccessTyped
  <2>2. logging' \in [Trackers -> BOOLEAN]
    BY <1>1, <1>9, PushFields DEF Apply, AccessTyped
  <2> QED BY <1>9, <2>1, <2>2 DEF Apply, AccessTyped
<1>10. CASE UNCHANGED access
  BY <1>10 DEF access, AccessTyped
<1> QED BY <1>2, <1>3, <1>4, <1>5, <1>6, <1>7, <1>8, <1>9, <1>10 DEF AccessNext, Goes

\* Where a record has to be.
Due(r) == IF r <= produced /\ r \notin dropped \union failed THEN 1 ELSE 0

Produced == \A r \in dropped \union failed : r <= produced

LEMMA AccessOnceIs ==
    AccessOnce <=> \A r \in Records : Cardinality(Holders(r)) + Cardinality(Carriers(r)) + taken[r] = Due(r)
BY PlacesAre DEF AccessOnce, Due

LEMMA AccessOnceAfter ==
    AccessOnce' <=> \A r \in Records : Cardinality(Holders(r)') + Cardinality(Carriers(r)') + taken'[r] = Due(r)'
<1>1. \A r \in Records : Places(r)' = Cardinality(Holders(r)') + Cardinality(Carriers(r)') + taken'[r]
  BY DEF Places, Holders, Carriers, Carries
<1> QED BY <1>1 DEF AccessOnce, Due

\* A step that takes no batch up and puts none down leaves every record in its place.
LEMMA CarriedStill ==
    ASSUME AccessTypeOK, AccessOnce, Produced, NEW p \in Uploads, NEW u \in Pushes,
           upload[p].at # "sent", u.at # "sent",
           upload' = [upload EXCEPT ![p] = u],
           UNCHANGED <<buffer, taken, produced, dropped, failed>>
    PROVE  AccessOnce' /\ Produced'
<1>1. ASSUME NEW r \in Records
      PROVE  /\ Cardinality(Carriers(r)') = Cardinality(Carriers(r))
             /\ Cardinality(Holders(r)') = Cardinality(Holders(r))
             /\ taken'[r] = taken[r] /\ Due(r)' = Due(r)
  <2>1. ~Carries(u, r) /\ ~Carries(upload[p], r)
    BY DEF Carries
  <2>2. Cardinality(Carriers(r)') = Cardinality(Carriers(r)) + 0 - 0
    BY <2>1, CarriersAfter
  <2>3. Holders(r)' = Holders(r) /\ Due(r)' = Due(r)
    BY DEF Holders, Due
  <2> QED BY <2>2, <2>3, PlacesFinite
<1>2. AccessOnce'
  BY <1>1, AccessOnceIs, AccessOnceAfter
<1> QED BY <1>2 DEF Produced

LEMMA AccessInvNext == AccessInv /\ [AccessNext]_access => AccessInv'
<1> SUFFICES ASSUME AccessInv, [AccessNext]_access PROVE AccessInv'
  OBVIOUS
<1>1. /\ AccessTypeOK /\ AccessTyped /\ AccessOnce /\ Produced /\ AccessTypeOK'
      /\ \A r \in Records : Cardinality(Holders(r)) + Cardinality(Carriers(r)) + taken[r] = Due(r)
  BY AccessTypesNext, AccessTypedIs, AccessOnceIs DEF AccessInv, Produced
<1>2. /\ MaxStarts \in Nat /\ MaxRecords \in Nat /\ Trackers = 1..MaxStarts /\ Records = 1..MaxRecords
      /\ \A p \in Uploads : upload[p] \in Pushes
      /\ buffer \in [Trackers -> SUBSET Records] /\ taken \in [Records -> Nat] /\ produced \in 0..MaxRecords
      /\ dropped \subseteq Records /\ failed \subseteq Records /\ live \in 0..MaxStarts
  BY <1>1, AccessConstants DEF Trackers, Records, AccessTyped
<1>3. \A r \in Records : Cardinality(Holders(r)) \in Nat /\ Cardinality(Carriers(r)) \in Nat
  BY PlacesFinite
<1>4. AccessInv' <=> AccessTypeOK' /\ Produced' /\ AccessOnce'
  BY DEF AccessInv, Produced
<1> DEFINE Once(r) == Cardinality(Holders(r)') + Cardinality(Carriers(r)') + taken'[r] = Due(r)'
<1>5. ASSUME Produced', \A r \in Records : Once(r) PROVE AccessInv'
  BY <1>1, <1>4, <1>5, AccessOnceAfter
<1>6. ASSUME UNCHANGED <<buffer, upload, taken, produced, dropped, failed>> PROVE AccessInv'
  BY <1>1, <1>4, <1>6 DEF Produced, AccessOnce, Places
<1>7. ASSUME NEW t \in Trackers, NEW denied \in BOOLEAN, Emit(t, denied) PROVE AccessInv'
  <2> DEFINE n == produced + 1
  <2>1. /\ n \in Records /\ produced' = n /\ Record(t, n) /\ UNCHANGED <<upload, taken, failed>>
    BY <1>2, <1>7 DEF Emit
  <2>2. Due(n) = 0 /\ (n \notin dropped \union failed)
    BY <1>1, <1>2 DEF Due, Produced
  <2>3. n \notin buffer[t]
    <3>1. Cardinality(Holders(n)) = 0
      BY <1>1, <1>2, <1>3, <2>1, <2>2, SMTT(30)
    <3>2. Holders(n) = {}
      BY <2>1, <3>1, PlacesFinite, FS_EmptySet
    <3> QED BY <3>2 DEF Holders
  <2>4. \A r \in Records : Carriers(r)' = Carriers(r)
    BY <2>1 DEF Carriers, Carries
  <2>5. CASE buffer' = [buffer EXCEPT ![t] = buffer[t] \union {n}] /\ UNCHANGED dropped
    <3>1. ASSUME NEW r \in Records PROVE Once(r)
      <4>1. Cardinality(Holders(r)') = Cardinality(Holders(r)) + (IF r = n THEN 1 ELSE 0)
        <5> DEFINE B == buffer[t] \union {n}
        <5>1. B \in SUBSET Records /\ buffer' = [buffer EXCEPT ![t] = B]
          BY <1>2, <2>1, <2>5
        <5>2. (r \in B <=> r \in buffer[t] \/ r = n) /\ (r = n => r \notin buffer[t])
          BY <2>3
        <5> HIDE DEF B
        <5>3. Cardinality(Holders(r)') = Cardinality(Holders(r))
                 + (IF r \in B THEN 1 ELSE 0) - (IF r \in buffer[t] THEN 1 ELSE 0)
          BY <1>1, <5>1, HoldersAfter
        <5> QED BY <1>3, <5>2, <5>3
      <4>2. Due(r)' = IF r = n THEN 1 ELSE Due(r)
        BY <1>2, <2>1, <2>2, <2>5 DEF Due
      <4>3. /\ Cardinality(Holders(r)) + Cardinality(Carriers(r)) + taken[r] = Due(r)
            /\ Cardinality(Holders(r)) \in Nat /\ Cardinality(Carriers(r)) \in Nat /\ taken[r] \in Nat
            /\ Cardinality(Carriers(r)') = Cardinality(Carriers(r)) /\ taken'[r] = taken[r]
        BY <1>1, <1>2, <1>3, <2>1, <2>4
      <4>4. r = n => Due(r) = 0
        BY <2>2
      <4> QED BY <4>1, <4>2, <4>3, <4>4
    <3>2. Produced'
      BY <1>1, <1>2, <2>1, <2>5 DEF Produced
    <3> QED BY <1>5, <3>1, <3>2
  <2>6. CASE dropped' = dropped \union {n} /\ UNCHANGED buffer
    <3>1. ASSUME NEW r \in Records PROVE Once(r)
      <4>1. Holders(r)' = Holders(r)
        BY <2>6 DEF Holders
      <4>2. Due(r)' = Due(r)
        BY <1>2, <2>1, <2>2, <2>6 DEF Due
      <4> QED BY <1>1, <2>1, <2>4, <4>1, <4>2
    <3>2. Produced'
      BY <1>1, <1>2, <2>1, <2>6 DEF Produced
    <3> QED BY <1>5, <3>1, <3>2
  <2> QED BY <2>1, <2>5, <2>6 DEF Record
<1>8. ASSUME NEW p \in Uploads, Ship(p) PROVE AccessInv'
  <2> DEFINE B == Buffered
             u == [NoUpload EXCEPT !.at = "sent", !.batch = B]
  <2>1. B \in SUBSET Records
    BY <1>2 DEF Buffered
  <2>2. u \in Pushes /\ u.at = "sent" /\ u.batch = B
    BY <2>1, PushTyped
  <2>3. /\ upload' = [upload EXCEPT ![p] = u] /\ upload[p].at = "idle"
        /\ buffer' = IF live = 0 THEN buffer ELSE [buffer EXCEPT ![live] = {}]
        /\ UNCHANGED <<taken, produced, dropped, failed>>
    BY <1>8 DEF Ship
  <2> HIDE DEF u
  <2>4. ASSUME NEW r \in Records PROVE Once(r)
    <3>1. Cardinality(Carriers(r)') = Cardinality(Carriers(r)) + (IF r \in B THEN 1 ELSE 0)
      <4>1. (Carries(u, r) <=> r \in B) /\ ~Carries(upload[p], r)
        BY <2>2, <2>3 DEF Carries
      <4>2. Cardinality(Carriers(r)') = Cardinality(Carriers(r)) + (IF Carries(u, r) THEN 1 ELSE 0)
                                          - (IF Carries(upload[p], r) THEN 1 ELSE 0)
        BY <1>1, <2>2, <2>3, CarriersAfter
      <4> QED BY <1>3, <4>1, <4>2
    <3>2. Cardinality(Holders(r)') = Cardinality(Holders(r)) - (IF r \in B THEN 1 ELSE 0)
      <4>1. CASE live = 0
        BY <1>3, <2>3, <4>1 DEF Holders, Buffered
      <4>2. CASE live # 0
        <5>1. live \in Trackers /\ B = buffer[live] /\ buffer' = [buffer EXCEPT ![live] = {}]
          BY <1>2, <2>3, <4>2 DEF Buffered
        <5> DEFINE none == {}
        <5>2. none \in SUBSET Records /\ r \notin none /\ buffer' = [buffer EXCEPT ![live] = none]
          BY <5>1
        <5> HIDE DEF none
        <5>3. Cardinality(Holders(r)') = Cardinality(Holders(r)) + (IF r \in none THEN 1 ELSE 0)
                                           - (IF r \in buffer[live] THEN 1 ELSE 0)
          BY <1>1, <5>1, <5>2, HoldersAfter
        <5> QED BY <1>3, <5>1, <5>2, <5>3
      <4> QED BY <4>1, <4>2
    <3>3. Due(r)' = Due(r) /\ taken'[r] = taken[r]
      BY <2>3 DEF Due
    <3>4. /\ Cardinality(Holders(r)) + Cardinality(Carriers(r)) + taken[r] = Due(r)
          /\ Cardinality(Holders(r)) \in Nat /\ Cardinality(Carriers(r)) \in Nat /\ taken[r] \in Nat
      BY <1>1, <1>2, <1>3
    <3> QED BY <3>1, <3>2, <3>3, <3>4
  <2>5. Produced'
    BY <1>1, <2>3 DEF Produced
  <2> QED BY <1>5, <2>4, <2>5
<1>9. ASSUME NEW p \in Uploads, Answer(p) PROVE AccessInv'
  <2> DEFINE u == [NoUpload EXCEPT !.at = "answered", !.says = desired]
  <2>1. u \in Pushes /\ u.at = "answered"
    BY <1>1, PushTyped DEF AccessTyped
  <2>2. /\ upload' = [upload EXCEPT ![p] = u] /\ upload[p].at = "sent"
        /\ taken' = [r \in Records |-> IF r \in upload[p].batch THEN taken[r] + 1 ELSE taken[r]]
        /\ UNCHANGED <<buffer, produced, dropped, failed>>
    BY <1>9 DEF Answer
  <2> HIDE DEF u
  <2>3. ASSUME NEW r \in Records PROVE Once(r)
    <3>1. ~Carries(u, r) /\ (Carries(upload[p], r) <=> r \in upload[p].batch)
      BY <2>1, <2>2 DEF Carries
    <3>2. Cardinality(Carriers(r)') = Cardinality(Carriers(r)) + (IF Carries(u, r) THEN 1 ELSE 0)
                                        - (IF Carries(upload[p], r) THEN 1 ELSE 0)
      BY <1>1, <2>1, <2>2, CarriersAfter
    <3>3. Holders(r)' = Holders(r) /\ Due(r)' = Due(r)
      BY <2>2 DEF Holders, Due
    <3>4. taken'[r] = taken[r] + (IF r \in upload[p].batch THEN 1 ELSE 0)
      BY <1>2, <2>2
    <3>5. /\ Cardinality(Holders(r)) + Cardinality(Carriers(r)) + taken[r] = Due(r)
          /\ Cardinality(Holders(r)) \in Nat /\ Cardinality(Carriers(r)) \in Nat /\ taken[r] \in Nat
          /\ Due(r) \in Nat /\ Cardinality(Holders(r)') = Cardinality(Holders(r)) /\ Due(r)' = Due(r)
      BY <1>1, <1>2, <1>3, <3>3 DEF Due
    <3>6. Cardinality(Carriers(r)') = Cardinality(Carriers(r)) - (IF r \in upload[p].batch THEN 1 ELSE 0)
      BY <3>1, <3>2, <3>5
    <3> QED BY <3>4, <3>5, <3>6
  <2>4. Produced'
    BY <1>1, <2>2 DEF Produced
  <2> QED BY <1>5, <2>3, <2>4
<1>10. ASSUME NEW p \in Uploads, ShipFails(p) PROVE AccessInv'
  <2>1. /\ upload' = [upload EXCEPT ![p] = NoUpload] /\ UNCHANGED <<buffer, taken, produced, dropped>>
        /\ failed' = IF upload[p].at = "sent" THEN failed \union upload[p].batch ELSE failed
        /\ NoUpload \in Pushes /\ NoUpload.at = "idle"
    BY <1>10, PushTyped DEF ShipFails
  <2>2. CASE upload[p].at # "sent"
    BY <1>1, <1>4, <2>1, <2>2, CarriedStill
  <2>3. CASE upload[p].at = "sent"
    <3>1. upload[p].batch \subseteq Records /\ failed' = failed \union upload[p].batch
      BY <1>2, <2>1, <2>3, PushFields
    <3>2. \A r \in upload[p].batch : r \in Records /\ Due(r) = 1
      <4> SUFFICES ASSUME NEW r \in upload[p].batch PROVE r \in Records /\ Due(r) = 1
        OBVIOUS
      <4>1. r \in Records /\ p \in Carriers(r)
        BY <2>3, <3>1 DEF Carriers, Carries
      <4>2. Cardinality(Carriers(r)) # 0
        BY <4>1, PlacesFinite, FS_EmptySet
      <4>3. /\ Cardinality(Holders(r)) + Cardinality(Carriers(r)) + taken[r] = Due(r)
            /\ Cardinality(Holders(r)) \in Nat /\ Cardinality(Carriers(r)) \in Nat /\ taken[r] \in Nat
        BY <1>1, <1>2, <1>3, <4>1
      <4>4. Due(r) \in {0, 1}
        BY DEF Due
      <4> QED BY <4>1, <4>2, <4>3, <4>4
    <3>3. ASSUME NEW r \in Records PROVE Once(r)
      <4>1. ~Carries(NoUpload, r) /\ (Carries(upload[p], r) <=> r \in upload[p].batch)
        BY <2>1, <2>3 DEF Carries
      <4>2. Cardinality(Carriers(r)') = Cardinality(Carriers(r)) + (IF Carries(NoUpload, r) THEN 1 ELSE 0)
                                          - (IF Carries(upload[p], r) THEN 1 ELSE 0)
        BY <1>1, <2>1, CarriersAfter
      <4>3. Holders(r)' = Holders(r) /\ taken'[r] = taken[r]
        BY <2>1 DEF Holders
      <4>4. Due(r)' = IF r \in upload[p].batch THEN 0 ELSE Due(r)
        BY <2>1, <3>1 DEF Due
      <4>5. /\ Cardinality(Holders(r)) + Cardinality(Carriers(r)) + taken[r] = Due(r)
            /\ Cardinality(Holders(r)) \in Nat /\ Cardinality(Carriers(r)) \in Nat /\ taken[r] \in Nat
        BY <1>1, <1>2, <1>3
      <4>6. r \in upload[p].batch => Due(r) = 1
        BY <3>2
      <4> QED BY <4>1, <4>2, <4>3, <4>4, <4>5, <4>6
    <3>4. Produced'
      BY <1>1, <2>1, <3>1, <3>2 DEF Produced, Due
    <3> QED BY <1>5, <3>3, <3>4
  <2> QED BY <2>2, <2>3
<1>11. ASSUME NEW p \in Uploads, Remember(p) PROVE AccessInv'
  <2>1. /\ [upload[p] EXCEPT !.at = "remembered"] \in Pushes
        /\ [upload[p] EXCEPT !.at = "remembered"].at = "remembered"
    BY <1>2, PushFields
  <2>2. /\ upload' = [upload EXCEPT ![p] = [upload[p] EXCEPT !.at = "remembered"]] /\ upload[p].at # "sent"
        /\ UNCHANGED <<buffer, taken, produced, dropped, failed>>
    BY <1>11 DEF Remember
  <2> QED BY <1>1, <1>4, <2>1, <2>2, CarriedStill
<1>12. ASSUME NEW p \in Uploads, Aim(p) PROVE AccessInv'
  <2> DEFINE u == IF live = 0 THEN NoUpload ELSE [upload[p] EXCEPT !.at = "aimed", !.target = live]
  <2>1. u \in Pushes /\ u.at # "sent"
    BY <1>2, PushFields, PushTyped
  <2>2. /\ upload' = [upload EXCEPT ![p] = u] /\ upload[p].at # "sent"
        /\ UNCHANGED <<buffer, taken, produced, dropped, failed>>
    BY <1>12 DEF Aim
  <2> HIDE DEF u
  <2> QED BY <1>1, <1>4, <2>1, <2>2, CarriedStill
<1>13. ASSUME NEW p \in Uploads, Apply(p) PROVE AccessInv'
  <2>1. /\ upload' = [upload EXCEPT ![p] = NoUpload] /\ upload[p].at # "sent"
        /\ UNCHANGED <<buffer, taken, produced, dropped, failed>>
        /\ NoUpload \in Pushes /\ NoUpload.at # "sent"
    BY <1>13, PushTyped DEF Apply
  <2> QED BY <1>1, <1>4, <2>1, CarriedStill
<1>14. CASE Turn \/ NewTracker \/ ReadSetting \/ Arm \/ UNCHANGED access
  BY <1>6, <1>14 DEF Turn, NewTracker, ReadSetting, Arm, access
<1> QED BY <1>7, <1>8, <1>9, <1>10, <1>11, <1>12, <1>13, <1>14 DEF AccessNext, Goes

LEMMA AccessInvInit == AccessInit => AccessInv
<1> SUFFICES ASSUME AccessInit PROVE AccessInv
  OBVIOUS
<1>1. MaxStarts \in Nat /\ MaxRecords \in Nat /\ MaxFaults \in Nat /\ MaxTurns \in Nat
  BY AccessConstants
<1>2. arming \in Armings
  BY DEF AccessInit, AccessAt, NotArming, Armings
<1>3. upload \in [Uploads -> Pushes]
  BY PushTyped DEF AccessInit, AccessAt
<1>4. AccessTyped
  BY <1>1, <1>2, <1>3 DEF AccessInit, AccessAt, AccessTyped
<1>5. \A r \in Records : Holders(r) = {} /\ Carriers(r) = {} /\ taken[r] = 0 /\ Due(r) = 0
  <2> SUFFICES ASSUME NEW r \in Records
               PROVE  Holders(r) = {} /\ Carriers(r) = {} /\ taken[r] = 0 /\ Due(r) = 0
    OBVIOUS
  <2>1. \A t \in Trackers : buffer[t] = {}
    BY DEF AccessInit, AccessAt
  <2>2. \A p \in Uploads : ~Carries(upload[p], r)
    <3>1. \A p \in Uploads : upload[p] = NoUpload
      BY DEF AccessInit, AccessAt
    <3> QED BY <3>1 DEF Carries, NoUpload
  <2>3. taken[r] = 0 /\ produced = 0 /\ r \in 1..MaxRecords
    BY DEF AccessInit, AccessAt, Records
  <2> QED BY <1>1, <2>1, <2>2, <2>3 DEF Holders, Carriers, Due
<1>6. AccessOnce
  BY <1>5, AccessOnceIs, FS_EmptySet
<1> QED BY <1>4, <1>6, AccessTypedIs DEF AccessInit, AccessAt, AccessInv

\* However pushes, starts of the kernel and full buffers meet, a record is in one buffer,
\* in one push or with the panel, once, or was refused or lost with a push that failed.
THEOREM RecordsAccountedFor == AccessSpec => []AccessOnce
<1>1. AccessInv => AccessOnce
  BY DEF AccessInv
<1> QED BY <1>1, AccessInvInit, AccessInvNext, PTL DEF AccessSpec
=============================================================================
