------------------------- MODULE EventOutboxProofs -------------------------
(***************************************************************************)
(* Proofs about EventOutbox, for any number of events, of flush-outbox     *)
(* processes and of flushes: its properties, but the one that the code     *)
(* does not have (EmittedIsKept).                                          *)
(***************************************************************************)
EXTENDS EventOutbox, TLAPS

Records == [event : Events, delivered : BOOLEAN]

TypeOK ==
  /\ epc \in {"idle", "deliver", "open", "append"}
  /\ event \in 0..NumEvents /\ (epc # "idle" => event \in Events)
  /\ accepted \in BOOLEAN /\ opened \in Nat /\ inode \in Nat
  /\ file \in Seq(Records)
  /\ fpc \in [Flushers -> {"idle", "deliver", "replace"}]
  /\ records \in [Flushers -> Seq(Records)]
  /\ next \in [Flushers -> Nat \ {0}]
  /\ emitted \in Seq(Events)
  /\ receipts \in [Events -> 0..2]
  /\ faulty \in BOOLEAN /\ raced \in BOOLEAN

Rising(s) == \A i, j \in DOMAIN s : i < j => s[i].event < s[j].event

\* The event that is being emitted is newer than every record.
Older(s) == \A i \in DOMAIN s : s[i].event <= event /\ (epc # "idle" => s[i].event < event)

OrderInv == /\ Rising(file) /\ Older(file)
            /\ \A f \in Flushers : Rising(records[f]) /\ Older(records[f])

True(s) == \A i \in DOMAIN s : s[i].delivered => receipts[s[i].event] > 0

MarkInv == /\ True(file)
           /\ \A f \in Flushers : True(records[f])
           /\ epc \in {"open", "append"} /\ accepted => receipts[event] > 0

\* The records of s are those of the events t.
Tells(s, t) == Len(s) = Len(t) /\ \A i \in 1..Len(s) : s[i].event = t[i]

\* Who is alone has read what is there.
KeptInv ==
  ~raced => /\ Tells(file, emitted)
            /\ \A f, g \in Flushing : f = g
            /\ \A f \in Flushing : Tells(records[f], emitted)
            /\ epc = "append" => Flushing = {} /\ opened = inode

\* A pending record is of an event that the platform has not got.
Unsent(s) == \A i \in DOMAIN s : ~s[i].delivered => receipts[s[i].event] = 0

OnceInv ==
  ~raced /\ ~faulty =>
    /\ \A e \in Events : receipts[e] <= 1 /\ (e > event => receipts[e] = 0)
    /\ epc = "deliver" \/ (epc # "idle" /\ ~accepted) => receipts[event] = 0
    /\ Flushing = {} => Unsent(file)
    /\ \A f \in Flushing : Unsent(records[f])

IInv == TypeOK /\ OrderInv /\ MarkInv /\ KeptInv /\ OnceInv
-----------------------------------------------------------------------------
(***************************************************************************)
(* The types                                                               *)
(***************************************************************************)

EmitterOK == /\ epc \in {"idle", "deliver", "open", "append"}
             /\ event \in 0..NumEvents /\ (epc # "idle" => event \in Events)
             /\ accepted \in BOOLEAN /\ opened \in Nat /\ emitted \in Seq(Events)

FileOK == inode \in Nat /\ file \in Seq(Records)

FlushersOK == /\ fpc \in [Flushers -> {"idle", "deliver", "replace"}]
              /\ records \in [Flushers -> Seq(Records)]
              /\ next \in [Flushers -> Nat \ {0}]

PlatformOK == receipts \in [Events -> 0..2] /\ faulty \in BOOLEAN /\ raced \in BOOLEAN

\* The type invariant, part by part.
LEMMA TypeParts == TypeOK <=> EmitterOK /\ FileOK /\ FlushersOK /\ PlatformOK
BY DEF TypeOK, EmitterOK, FileOK, FlushersOK, PlatformOK

\* What a delivery of e does to the receipts.
LEMMA DeliverFacts ==
  ASSUME PlatformOK, NEW e \in Events, NEW d \in BOOLEAN, Deliver(e, d)
  PROVE  /\ receipts' \in [Events -> 0..2] /\ faulty' \in BOOLEAN
         /\ \A x \in Events : receipts'[x] >= receipts[x] /\ (x # e => receipts'[x] = receipts[x])
         /\ d => receipts'[e] > 0
         /\ faulty => faulty'
         /\ ~d /\ ~faulty' => receipts'[e] = receipts[e]
         /\ receipts[e] = 0 => receipts'[e] <= 1
<1>1. \/ receipts' = Received(e) /\ (d \/ faulty') /\ (faulty' = faulty \/ faulty' = TRUE)
      \/ receipts' = receipts /\ ~d /\ faulty' = faulty
  BY Zenon DEF Deliver
<1>2. /\ Received(e) \in [Events -> 0..2] /\ Received(e)[e] > 0 /\ Received(e)[e] >= receipts[e]
      /\ \A x \in Events : x # e => Received(e)[x] = receipts[x]
      /\ receipts[e] = 0 => Received(e)[e] <= 1
  BY DEF Received, PlatformOK
<1>3. faulty' \in BOOLEAN /\ (faulty => faulty')
  BY <1>1, Zenon DEF PlatformOK
<1>4. CASE receipts' = Received(e) /\ (d \/ faulty')
  BY <1>2, <1>3, <1>4 DEF PlatformOK
<1>5. CASE receipts' = receipts /\ ~d
  BY <1>3, <1>5 DEF PlatformOK
<1> QED
  BY <1>1, <1>4, <1>5

\* The record that flush is at is the only one that changes, and keeps its event.
LEMMA FlushDeliverFacts ==
  ASSUME TypeOK, NEW f \in Flushers, FlushDeliver(f)
  PROVE  /\ next[f] \in 1..Len(records[f]) /\ records' \in [Flushers -> Seq(Records)]
         /\ \A g \in Flushers :
              /\ Len(records'[g]) = Len(records[g])
              /\ DOMAIN records'[g] = 1..Len(records[g]) /\ DOMAIN records[g] = 1..Len(records[g])
              /\ \A i \in 1..Len(records[g]) :
                   /\ records'[g][i].event = records[g][i].event
                   /\ records[g][i].event \in Events
                   /\ g # f \/ i # next[f] => records'[g][i] = records[g][i]
         /\ \/ /\ records[f][next[f]].delivered
               /\ records' = records /\ receipts' = receipts /\ faulty' = faulty
            \/ \E d \in BOOLEAN : /\ ~records[f][next[f]].delivered
                                  /\ records'[f][next[f]].delivered = d
                                  /\ Deliver(records[f][next[f]].event, d)
<1> DEFINE n == next[f]
           r == records[f]
<1> FlushersOK
  BY TypeParts
<1>1. n \in 1..Len(r) /\ r \in Seq(Records)
  BY DEF FlushDeliver, FlushersOK
<1>2. \A g \in Flushers : \A i \in 1..Len(records[g]) : records[g][i] \in Records
  BY DEF FlushersOK
<1>3. \A s \in Records : s.event \in Events
  BY DEF Records
<1>4. CASE r[n].delivered
  <2>1. records' = records /\ receipts' = receipts /\ faulty' = faulty
    BY <1>4 DEF FlushDeliver
  <2> QED
    BY <1>1, <1>2, <1>3, <1>4, <2>1 DEF FlushersOK
<1>5. CASE ~r[n].delivered
  <2>1. PICK d \in BOOLEAN : /\ Deliver(r[n].event, d)
                             /\ records' = [records EXCEPT ![f][n].delivered = d]
    BY <1>5 DEF FlushDeliver
  <2>2. records' = [records EXCEPT ![f] = [r EXCEPT ![n] = [r[n] EXCEPT !.delivered = d]]]
    BY <2>1
  <2> DEFINE q == [r[n] EXCEPT !.delivered = d]
  <2>3. q \in Records /\ q.event = r[n].event /\ q.delivered = d
    BY <1>1, <1>2 DEF Records
  <2> HIDE DEF q
  <2>4. records'[f] = [r EXCEPT ![n] = q] /\ \A g \in Flushers : g # f => records'[g] = records[g]
    BY <2>2 DEF q, FlushersOK
  <2>5. /\ records'[f] \in Seq(Records) /\ Len(records'[f]) = Len(r) /\ records'[f][n] = q
        /\ \A i \in 1..Len(r) : i # n => records'[f][i] = r[i]
    BY <1>1, <2>3, <2>4
  <2>6. records' \in [Flushers -> Seq(Records)]
    BY <2>2, <2>3, <2>4, <2>5 DEF FlushersOK
  <2>7. \A g \in Flushers :
          /\ Len(records'[g]) = Len(records[g])
          /\ DOMAIN records'[g] = 1..Len(records[g]) /\ DOMAIN records[g] = 1..Len(records[g])
    <3>1. \A g \in Flushers : records[g] \in Seq(Records) /\ records'[g] \in Seq(Records)
      BY <2>6 DEF FlushersOK
    <3>2. \A g \in Flushers : Len(records'[g]) = Len(records[g])
      BY <2>4, <2>5
    <3> QED
      BY <3>1, <3>2
  <2> QED
    BY <1>1, <1>2, <1>3, <1>5, <2>1, <2>3, <2>4, <2>5, <2>6, <2>7
<1> QED
  BY <1>4, <1>5

\* The events of records can be compared, and have receipts.
LEMMA RecordFacts ==
  TypeOK => /\ event \in Nat
            /\ \A i \in DOMAIN file : file[i].event \in Events /\ file[i].event \in Nat
            /\ \A f \in Flushers : \A i \in DOMAIN records[f] :
                 records[f][i].event \in Events /\ records[f][i].event \in Nat
<1> SUFFICES ASSUME TypeOK
             PROVE  /\ event \in Nat
                    /\ \A i \in DOMAIN file : file[i].event \in Events /\ file[i].event \in Nat
                    /\ \A f \in Flushers : \A i \in DOMAIN records[f] :
                         records[f][i].event \in Events /\ records[f][i].event \in Nat
  OBVIOUS
<1>1. event \in Nat /\ \A r \in Records : r.event \in Events /\ r.event \in Nat
  BY BoundsAssumption DEF TypeOK, Records, Events
<1>2. \A i \in DOMAIN file : file[i] \in Records
  BY DEF TypeOK
<1>3. \A f \in Flushers : \A i \in DOMAIN records[f] : records[f][i] \in Records
  BY DEF TypeOK
<1> QED
  BY <1>1, <1>2, <1>3

\* Every step keeps the types.
LEMMA TypeStep == TypeOK /\ [Next]_vars => TypeOK'
<1> SUFFICES ASSUME TypeOK, [Next]_vars PROVE TypeOK'
  OBVIOUS
<1> EmitterOK /\ FileOK /\ FlushersOK /\ PlatformOK
  BY TypeParts
<1> USE BoundsAssumption DEF emitVars, flushVars, Ends
<1>1. CASE Emit \/ EmitOpen \/ EmitFails
  <2>1. EmitterOK'
    BY <1>1 DEF EmitterOK, FileOK, Emit, EmitOpen, EmitFails, Events
  <2>2. FileOK' /\ FlushersOK'
    BY <1>1 DEF FileOK, FlushersOK, Emit, EmitOpen, EmitFails
  <2>3. PlatformOK'
    BY <1>1 DEF PlatformOK, Emit, EmitOpen, EmitFails
  <2> QED
    BY <2>1, <2>2, <2>3 DEF TypeOK, EmitterOK, FileOK, FlushersOK, PlatformOK
<1>2. CASE EmitDeliver
  <2>1. PICK d \in BOOLEAN : Deliver(event, d) /\ accepted' = d
    BY <1>2 DEF EmitDeliver
  <2>2. PlatformOK'
    BY <1>2, <2>1, DeliverFacts DEF EmitDeliver, EmitterOK, PlatformOK
  <2>3. EmitterOK'
    BY <1>2, <2>1 DEF EmitDeliver, EmitterOK
  <2>4. FileOK' /\ FlushersOK'
    BY <1>2 DEF FileOK, FlushersOK, EmitDeliver
  <2> QED
    BY <2>2, <2>3, <2>4 DEF TypeOK, EmitterOK, FileOK, FlushersOK, PlatformOK
<1>3. CASE EmitAppend
  <2>1. event \in Events /\ Record(event, accepted) \in Records
    BY <1>3 DEF EmitAppend, EmitterOK, Record, Records
  <2>2. EmitterOK'
    BY <1>3, <2>1 DEF EmitAppend, EmitterOK
  <2>3. FileOK'
    BY <1>3, <2>1 DEF EmitAppend, FileOK
  <2>4. FlushersOK' /\ PlatformOK'
    BY <1>3 DEF EmitAppend, FlushersOK, PlatformOK
  <2> QED
    BY <2>2, <2>3, <2>4 DEF TypeOK, EmitterOK, FileOK, FlushersOK, PlatformOK
<1>4. ASSUME NEW f \in Flushers, FlushRead(f) \/ FlushWrite(f) \/ FlushReplace(f) \/ FlushFails(f)
      PROVE  TypeOK'
  <2>1. EmitterOK'
    BY <1>4 DEF EmitterOK, FlushRead, FlushWrite, FlushReplace, FlushFails
  <2>2. FileOK'
    BY <1>4 DEF FileOK, FlushersOK, FlushRead, FlushWrite, FlushReplace, FlushFails
  <2>3. FlushersOK'
    <3>1. CASE FlushRead(f)
      BY <3>1 DEF FileOK, FlushersOK, FlushRead
    <3>2. CASE FlushWrite(f)
      BY <3>2 DEF FlushersOK, FlushWrite
    <3>3. CASE FlushReplace(f) \/ FlushFails(f)
      <4>1. /\ fpc' = [fpc EXCEPT ![f] = "idle"] /\ next' = [next EXCEPT ![f] = 1]
            /\ records' = [records EXCEPT ![f] = <<>>]
        BY <3>3 DEF FlushReplace, FlushFails
      <4>2. <<>> \in Seq(Records)
        OBVIOUS
      <4>3. records' \in [Flushers -> Seq(Records)]
        BY <4>1, <4>2 DEF FlushersOK
      <4> QED
        BY <4>1, <4>3 DEF FlushersOK
    <3> QED
      BY <1>4, <3>1, <3>2, <3>3
  <2>4. PlatformOK'
    BY <1>4 DEF PlatformOK, FlushRead, FlushWrite, FlushReplace, FlushFails
  <2> QED
    BY <2>1, <2>2, <2>3, <2>4 DEF TypeOK, EmitterOK, FileOK, FlushersOK, PlatformOK
<1>5. ASSUME NEW f \in Flushers, FlushDeliver(f)
      PROVE  TypeOK'
  <2>1. EmitterOK' /\ FileOK'
    BY <1>5 DEF FlushDeliver, EmitterOK, FileOK
  <2>2. FlushersOK'
    <3>1. records' \in [Flushers -> Seq(Records)]
      BY <1>5, FlushDeliverFacts
    <3>2. fpc' = fpc /\ next' = [next EXCEPT ![f] = next[f] + 1]
      BY <1>5 DEF FlushDeliver
    <3>3. next' \in [Flushers -> Nat \ {0}]
      BY <3>2 DEF FlushersOK
    <3> QED
      BY <3>1, <3>2, <3>3 DEF FlushersOK
  <2>3. PlatformOK'
    <3>1. raced' = raced /\ records[f][next[f]].event \in Events
      BY <1>5, FlushDeliverFacts DEF FlushDeliver
    <3>2. \/ receipts' = receipts /\ faulty' = faulty
          \/ \E d \in BOOLEAN : Deliver(records[f][next[f]].event, d)
      BY <1>5, FlushDeliverFacts
    <3>3. receipts' \in [Events -> 0..2] /\ faulty' \in BOOLEAN
      BY <3>1, <3>2, DeliverFacts DEF PlatformOK
    <3> QED
      BY <3>1, <3>3 DEF PlatformOK
  <2> QED
    BY <2>1, <2>2, <2>3 DEF TypeOK, EmitterOK, FileOK, FlushersOK, PlatformOK
<1>6. CASE UNCHANGED vars
  BY <1>6 DEF vars, TypeOK
<1> QED
  BY <1>1, <1>2, <1>3, <1>4, <1>5, <1>6 DEF Next, Flush

-----------------------------------------------------------------------------
(***************************************************************************)
(* The order, the marks, and who is alone                                  *)
(***************************************************************************)

\* A flush keeps the order of what it read, and an append adds the newest event.
LEMMA OrderStep == TypeOK /\ OrderInv /\ [Next]_vars => OrderInv'
<1> SUFFICES ASSUME TypeOK, OrderInv, [Next]_vars PROVE OrderInv'
  OBVIOUS
<1> USE BoundsAssumption DEF emitVars, flushVars, Ends
<1>1. CASE Emit
  <2>1. event' = event + 1 /\ file' = file /\ records' = records /\ epc = "idle"
    BY <1>1 DEF Emit
  <2> QED
    BY <2>1, RecordFacts DEF OrderInv, Rising, Older
<1>2. CASE EmitDeliver
  BY <1>2 DEF TypeOK, OrderInv, Rising, Older, EmitDeliver
<1>3. CASE EmitOpen
  BY <1>3 DEF TypeOK, OrderInv, Rising, Older, EmitOpen
<1>4. CASE EmitAppend
  <2>1. Rising(file)' /\ Older(file)'
    <3>1. CASE opened = inode
      <4>1. /\ file' = Append(file, Record(event, accepted)) /\ file \in Seq(Records)
            /\ event' = event /\ epc = "append" /\ epc' = "idle"
        BY <1>4, <3>1 DEF EmitAppend, TypeOK
      <4>2. DOMAIN file' = 1..Len(file) + 1 /\ file'[Len(file) + 1].event = event
        BY <4>1 DEF Record
      <4>3. \A i \in DOMAIN file : file'[i] = file[i] /\ file[i].event < event
        BY <4>1 DEF OrderInv, Older
      <4> QED
        BY <4>1, <4>2, <4>3, RecordFacts DEF OrderInv, Rising, Older
    <3>2. CASE opened # inode
      BY <1>4, <3>2 DEF EmitAppend, OrderInv, Rising, Older
    <3> QED
      BY <3>1, <3>2
  <2>2. \A f \in Flushers : Rising(records[f])' /\ Older(records[f])'
    BY <1>4 DEF EmitAppend, OrderInv, Rising, Older
  <2> QED
    BY <2>1, <2>2 DEF OrderInv
<1>5. CASE EmitFails
  BY <1>5 DEF TypeOK, OrderInv, Rising, Older, EmitFails
<1>6. ASSUME NEW f \in Flushers, FlushRead(f)
      PROVE  OrderInv'
  BY <1>6 DEF TypeOK, OrderInv, Rising, Older, FlushRead
<1>7. ASSUME NEW f \in Flushers, FlushDeliver(f)
      PROVE  OrderInv'
  <2>1. file' = file /\ event' = event /\ epc' = epc
    BY <1>7 DEF FlushDeliver
  <2>2. \A g \in Flushers : /\ DOMAIN records'[g] = DOMAIN records[g]
                            /\ \A i \in DOMAIN records[g] :
                                 records'[g][i].event = records[g][i].event
    BY <1>7, FlushDeliverFacts DEF TypeOK
  <2> QED
    BY <2>1, <2>2 DEF OrderInv, Rising, Older
<1>8. ASSUME NEW f \in Flushers, FlushWrite(f)
      PROVE  OrderInv'
  BY <1>8 DEF TypeOK, OrderInv, Rising, Older, FlushWrite
<1>9. ASSUME NEW f \in Flushers, FlushReplace(f)
      PROVE  OrderInv'
  BY <1>9 DEF TypeOK, OrderInv, Rising, Older, FlushReplace
<1>10. ASSUME NEW f \in Flushers, FlushFails(f)
      PROVE  OrderInv'
  BY <1>10 DEF TypeOK, OrderInv, Rising, Older, FlushFails
<1>11. CASE UNCHANGED vars
  BY <1>11 DEF vars, TypeOK, OrderInv, Rising, Older
<1> QED
  BY <1>1, <1>2, <1>3, <1>4, <1>5, <1>6, <1>7, <1>8, <1>9, <1>10, <1>11 DEF Next, Flush

\* A mark is made with its receipt, and receipts are not taken back.
LEMMA MarkStep == TypeOK /\ MarkInv /\ [Next]_vars => MarkInv'
<1> SUFFICES ASSUME TypeOK, MarkInv, [Next]_vars PROVE MarkInv'
  OBVIOUS
<1> USE BoundsAssumption DEF emitVars, flushVars, Ends
<1>1. CASE Emit
  BY <1>1 DEF TypeOK, MarkInv, True, Record, Emit
<1>2. CASE EmitDeliver
  <2>1. PICK d \in BOOLEAN : Deliver(event, d) /\ accepted' = d
    BY <1>2 DEF EmitDeliver
  <2>2. /\ event \in Events /\ PlatformOK
        /\ file' = file /\ records' = records /\ event' = event
    BY <1>2, TypeParts DEF EmitDeliver, TypeOK
  <2>3. \A x \in Events : /\ receipts'[x] >= receipts[x]
                        /\ receipts[x] \in 0..2 /\ receipts'[x] \in 0..2
    BY <2>1, <2>2, DeliverFacts DEF PlatformOK
  <2>4. d => receipts'[event] > 0
    BY <2>1, <2>2, DeliverFacts
  <2>5. True(file)'
    BY <2>2, <2>3, RecordFacts DEF MarkInv, True
  <2>6. \A f \in Flushers : True(records[f])'
    BY <2>2, <2>3, RecordFacts DEF MarkInv, True
  <2> QED
    BY <2>1, <2>2, <2>4, <2>5, <2>6 DEF MarkInv
<1>3. CASE EmitOpen
  BY <1>3 DEF TypeOK, MarkInv, True, Record, EmitOpen
<1>4. CASE EmitAppend
  BY <1>4 DEF TypeOK, MarkInv, True, Record, EmitAppend
<1>5. CASE EmitFails
  BY <1>5 DEF TypeOK, MarkInv, True, Record, EmitFails
<1>6. ASSUME NEW f \in Flushers, FlushRead(f)
      PROVE  MarkInv'
  BY <1>6 DEF TypeOK, MarkInv, True, Record, FlushRead
<1>7. ASSUME NEW f \in Flushers, FlushDeliver(f)
      PROVE  MarkInv'
  <2>1. file' = file /\ event' = event /\ epc' = epc /\ accepted' = accepted
    BY <1>7 DEF FlushDeliver
  <2> DEFINE n == next[f]
             e == records[f][n].event
  <2>2. n \in 1..Len(records[f]) /\ e \in Events /\ PlatformOK
    BY <1>7, FlushDeliverFacts, TypeParts
  <2>3. \A x \in Events : /\ receipts'[x] >= receipts[x]
                        /\ receipts[x] \in 0..2 /\ receipts'[x] \in 0..2
    BY <1>7, <2>2, FlushDeliverFacts, DeliverFacts DEF PlatformOK
  <2>4. records'[f][n].delivered => receipts'[e] > 0
    <3>1. CASE records' = records /\ receipts' = receipts
      BY <2>2, <3>1 DEF MarkInv, True
    <3>2. CASE \E d \in BOOLEAN : records'[f][n].delivered = d /\ Deliver(e, d)
      BY <2>2, <3>2, DeliverFacts
    <3> QED
      BY <1>7, <3>1, <3>2, FlushDeliverFacts
  <2>5. True(file)'
    BY <2>1, <2>3, RecordFacts DEF MarkInv, True
  <2>6. ASSUME NEW g \in Flushers
        PROVE  True(records[g])'
    <3>1. /\ DOMAIN records'[g] = DOMAIN records[g]
          /\ \A i \in DOMAIN records[g] :
               /\ records'[g][i].event = records[g][i].event
               /\ g # f \/ i # n => records'[g][i] = records[g][i]
      BY <1>7, FlushDeliverFacts DEF TypeOK
    <3>2. ASSUME NEW i \in DOMAIN records[g], records'[g][i].delivered
          PROVE  receipts'[records[g][i].event] > 0
      BY <2>3, <2>4, <3>1, <3>2, RecordFacts DEF MarkInv, True
    <3> QED
      BY <3>1, <3>2 DEF True
  <2>7. epc \in {"open", "append"} => event \in Events
    BY DEF TypeOK
  <2> QED
    BY <2>1, <2>3, <2>5, <2>6, <2>7 DEF MarkInv
<1>8. ASSUME NEW f \in Flushers, FlushWrite(f)
      PROVE  MarkInv'
  BY <1>8 DEF TypeOK, MarkInv, True, Record, FlushWrite
<1>9. ASSUME NEW f \in Flushers, FlushReplace(f)
      PROVE  MarkInv'
  BY <1>9 DEF TypeOK, MarkInv, True, Record, FlushReplace
<1>10. ASSUME NEW f \in Flushers, FlushFails(f)
      PROVE  MarkInv'
  BY <1>10 DEF TypeOK, MarkInv, True, Record, FlushFails
<1>11. CASE UNCHANGED vars
  BY <1>11 DEF vars, TypeOK, MarkInv, True, Record
<1> QED
  BY <1>1, <1>2, <1>3, <1>4, <1>5, <1>6, <1>7, <1>8, <1>9, <1>10, <1>11 DEF Next, Flush

\* Without a race the file is what the one process inside it has read.
LEMMA KeptStep == TypeOK /\ KeptInv /\ [Next]_vars => KeptInv'
<1> SUFFICES ASSUME TypeOK, KeptInv, [Next]_vars PROVE KeptInv'
  OBVIOUS
<1> USE BoundsAssumption DEF emitVars, flushVars, Ends
<1>1. CASE Emit
  BY <1>1 DEF TypeOK, KeptInv, Tells, Flushing, Record, Emit
<1>2. CASE EmitDeliver
  BY <1>2 DEF TypeOK, KeptInv, Tells, Flushing, Record, EmitDeliver
<1>3. CASE EmitOpen
  BY <1>3 DEF TypeOK, KeptInv, Tells, Flushing, Record, EmitOpen
<1>4. CASE EmitAppend
  BY <1>4 DEF TypeOK, KeptInv, Tells, Flushing, Record, EmitAppend
<1>5. CASE EmitFails
  BY <1>5 DEF TypeOK, KeptInv, Tells, Flushing, Record, EmitFails
<1>6. ASSUME NEW f \in Flushers, FlushRead(f)
      PROVE  KeptInv'
  BY <1>6 DEF TypeOK, KeptInv, Tells, Flushing, Record, FlushRead
<1>7. ASSUME NEW f \in Flushers, FlushDeliver(f)
      PROVE  KeptInv'
  <2>1. /\ file' = file /\ inode' = inode /\ epc' = epc /\ opened' = opened /\ emitted' = emitted
        /\ raced' = raced /\ fpc' = fpc
    BY <1>7 DEF FlushDeliver
  <2>2. \A g \in Flushers : /\ Len(records'[g]) = Len(records[g])
                            /\ \A i \in 1..Len(records[g]) :
                                 records'[g][i].event = records[g][i].event
    BY <1>7, FlushDeliverFacts
  <2>3. Flushing' = Flushing /\ Flushing \subseteq Flushers
    BY <2>1 DEF Flushing
  <2> QED
    BY <2>1, <2>2, <2>3 DEF KeptInv, Tells
<1>8. ASSUME NEW f \in Flushers, FlushWrite(f)
      PROVE  KeptInv'
  BY <1>8 DEF TypeOK, KeptInv, Tells, Flushing, Record, FlushWrite
<1>9. ASSUME NEW f \in Flushers, FlushReplace(f)
      PROVE  KeptInv'
  BY <1>9 DEF TypeOK, KeptInv, Tells, Flushing, Record, FlushReplace
<1>10. ASSUME NEW f \in Flushers, FlushFails(f)
      PROVE  KeptInv'
  BY <1>10 DEF TypeOK, KeptInv, Tells, Flushing, Record, FlushFails
<1>11. CASE UNCHANGED vars
  BY <1>11 DEF vars, TypeOK, KeptInv, Tells, Flushing, Record
<1> QED
  BY <1>1, <1>2, <1>3, <1>4, <1>5, <1>6, <1>7, <1>8, <1>9, <1>10, <1>11 DEF Next, Flush

\* Without a race and a fault a delivery is of an event that was not received.
LEMMA OnceStep == TypeOK /\ OrderInv /\ KeptInv /\ OnceInv /\ [Next]_vars => OnceInv'
<1> SUFFICES ASSUME TypeOK, OrderInv, KeptInv, OnceInv, [Next]_vars PROVE OnceInv'
  OBVIOUS
<1> USE BoundsAssumption DEF emitVars, flushVars, Ends
<1>1. CASE Emit
  BY <1>1 DEF TypeOK, OrderInv, Rising, Older, KeptInv, Flushing, OnceInv, Unsent, Records,
     Events, Record, Emit
<1>2. CASE EmitDeliver
  <2>1. PICK d \in BOOLEAN : Deliver(event, d) /\ accepted' = d
    BY <1>2 DEF EmitDeliver
  <2>2. /\ event \in Events /\ PlatformOK /\ epc = "deliver" /\ epc' = "open"
        /\ file' = file /\ records' = records /\ event' = event /\ fpc' = fpc /\ raced' = raced
    BY <1>2, TypeParts DEF EmitDeliver, TypeOK
  <2> SUFFICES ASSUME ~raced, ~faulty'
               PROVE  /\ \A e \in Events : receipts'[e] <= 1 /\ (e > event => receipts'[e] = 0)
                      /\ ~accepted' => receipts'[event] = 0
                      /\ Flushing = {} => Unsent(file)'
                      /\ \A f \in Flushing : Unsent(records[f])'
    BY <2>2 DEF OnceInv, Flushing
  <2>3. /\ ~faulty /\ (~d => receipts'[event] = receipts[event])
        /\ (receipts[event] = 0 => receipts'[event] <= 1)
        /\ \A x \in Events : x # event => receipts'[x] = receipts[x]
    BY <2>1, <2>2, DeliverFacts
  <2>4. receipts[event] = 0
    BY <2>2, <2>3 DEF OnceInv
  <2>5. \A e \in Events : receipts'[e] <= 1 /\ (e > event => receipts'[e] = 0)
    BY <2>2, <2>3, <2>4, BoundsAssumption DEF OnceInv, Events
  <2>6. ~accepted' => receipts'[event] = 0
    BY <2>1, <2>3, <2>4
  <2>7. Flushing = {} => Unsent(file)'
    <3>1. \A i \in DOMAIN file : file[i].event # event
      BY <2>2, RecordFacts DEF OrderInv, Older
    <3> QED
      BY <2>2, <2>3, <3>1, RecordFacts DEF OnceInv, Unsent
  <2>8. ASSUME NEW f \in Flushing
        PROVE  Unsent(records[f])'
    <3>1. f \in Flushers /\ \A i \in DOMAIN records[f] : records[f][i].event # event
      BY <2>2, RecordFacts DEF OrderInv, Older, Flushing
    <3> QED
      BY <2>2, <2>3, <3>1, RecordFacts DEF OnceInv, Unsent
  <2> QED
    BY <2>5, <2>6, <2>7, <2>8
<1>3. CASE EmitOpen
  BY <1>3 DEF TypeOK, OrderInv, Rising, Older, KeptInv, Flushing, OnceInv, Unsent, Records,
     Events, Record, EmitOpen
<1>4. CASE EmitAppend
  BY <1>4 DEF TypeOK, OrderInv, Rising, Older, KeptInv, Flushing, OnceInv, Unsent, Records,
     Events, Record, EmitAppend
<1>5. CASE EmitFails
  BY <1>5 DEF TypeOK, OrderInv, Rising, Older, KeptInv, Flushing, OnceInv, Unsent, Records,
     Events, Record, EmitFails
<1>6. ASSUME NEW f \in Flushers, FlushRead(f)
      PROVE  OnceInv'
  BY <1>6 DEF TypeOK, OrderInv, Rising, Older, KeptInv, Flushing, OnceInv, Unsent, Records,
     Events, Record, FlushRead
<1>7. ASSUME NEW f \in Flushers, FlushDeliver(f)
      PROVE  OnceInv'
  <2>1. /\ file' = file /\ event' = event /\ epc' = epc /\ accepted' = accepted
        /\ fpc' = fpc /\ raced' = raced /\ fpc[f] = "deliver"
    BY <1>7 DEF FlushDeliver
  <2> DEFINE n == next[f]
             e == records[f][n].event
  <2>2. n \in DOMAIN records[f] /\ e \in Events /\ PlatformOK
    BY <1>7, FlushDeliverFacts, TypeParts DEF TypeOK
  <2> SUFFICES ASSUME ~raced, ~faulty'
               PROVE  /\ \A x \in Events : receipts'[x] <= 1 /\ (x > event => receipts'[x] = 0)
                      /\ epc = "deliver" \/ (epc # "idle" /\ ~accepted) => receipts'[event] = 0
                      /\ Flushing = {} => Unsent(file)'
                      /\ \A g \in Flushing : Unsent(records[g])'
    BY <2>1 DEF OnceInv, Flushing
  <2>3. f \in Flushing /\ (\A g \in Flushing : g = f)
    BY <2>1 DEF KeptInv, Flushing
  <2>4. CASE records' = records /\ receipts' = receipts /\ faulty' = faulty
    BY <2>1, <2>3, <2>4 DEF OnceInv, Unsent
  <2>5. ASSUME NEW d \in BOOLEAN, ~records[f][n].delivered,
               records'[f][n].delivered = d, Deliver(e, d)
        PROVE  /\ \A x \in Events : receipts'[x] <= 1 /\ (x > event => receipts'[x] = 0)
               /\ epc = "deliver" \/ (epc # "idle" /\ ~accepted) => receipts'[event] = 0
               /\ Unsent(records[f])'
    <3>1. /\ ~faulty /\ (~d => receipts'[e] = receipts[e])
          /\ (receipts[e] = 0 => receipts'[e] <= 1)
          /\ \A x \in Events : x # e => receipts'[x] = receipts[x]
      BY <2>2, <2>5, DeliverFacts
    <3>2. receipts[e] = 0
      BY <2>2, <2>3, <2>5, <3>1 DEF OnceInv, Unsent
    <3>3. e <= event /\ (epc # "idle" => e # event)
      BY <2>2, RecordFacts DEF OrderInv, Older
    <3>4. \A x \in Events : receipts'[x] <= 1 /\ (x > event => receipts'[x] = 0)
      BY <2>2, <3>1, <3>2, <3>3, RecordFacts DEF OnceInv, Events
    <3>5. epc = "deliver" \/ (epc # "idle" /\ ~accepted) => receipts'[event] = 0
      <4>1. epc # "idle" => event \in Events
        BY DEF TypeOK
      <4> QED
        BY <3>1, <3>3, <4>1 DEF OnceInv
    <3>6. /\ DOMAIN records'[f] = DOMAIN records[f]
          /\ \A i \in DOMAIN records[f] :
               /\ records'[f][i].event = records[f][i].event
               /\ i # n => records'[f][i] = records[f][i]
      BY <1>7, FlushDeliverFacts DEF TypeOK
    <3>7. \A i \in DOMAIN records[f] : i # n => records[f][i].event # e
      <4>1. DOMAIN records[f] \subseteq Nat
        BY DEF TypeOK
      <4> QED
        BY <2>2, <4>1, RecordFacts DEF OrderInv, Rising
    <3>8. ASSUME NEW i \in DOMAIN records[f], ~records'[f][i].delivered
          PROVE  receipts'[records[f][i].event] = 0
      <4>1. CASE i = n
        BY <2>5, <3>1, <3>2, <3>8, <4>1
      <4>2. CASE i # n
        BY <2>3, <3>1, <3>6, <3>7, <3>8, <4>2, RecordFacts DEF OnceInv, Unsent
      <4> QED
        BY <4>1, <4>2
    <3> QED
      BY <3>4, <3>5, <3>6, <3>8 DEF Unsent
  <2>6. \/ records' = records /\ receipts' = receipts /\ faulty' = faulty
        \/ \E d \in BOOLEAN :
             ~records[f][n].delivered /\ records'[f][n].delivered = d /\ Deliver(e, d)
    BY <1>7, FlushDeliverFacts
  <2> QED
    BY <2>3, <2>4, <2>5, <2>6
<1>8. ASSUME NEW f \in Flushers, FlushWrite(f)
      PROVE  OnceInv'
  BY <1>8 DEF TypeOK, OrderInv, Rising, Older, KeptInv, Flushing, OnceInv, Unsent, Records,
     Events, Record, FlushWrite
<1>9. ASSUME NEW f \in Flushers, FlushReplace(f)
      PROVE  OnceInv'
  <2>1. /\ f \in Flushing /\ file' = records[f] /\ fpc' = [fpc EXCEPT ![f] = "idle"]
        /\ event' = event /\ epc' = epc /\ accepted' = accepted
        /\ raced' = raced /\ faulty' = faulty /\ receipts' = receipts
    BY <1>9 DEF FlushReplace, Flushing
  <2>2. ~raced => Flushing' = {}
    BY <2>1 DEF KeptInv, Flushing, TypeOK
  <2>3. ~raced /\ ~faulty => Unsent(file)'
    BY <2>1 DEF OnceInv, Unsent
  <2> QED
    BY <2>1, <2>2, <2>3 DEF OnceInv
<1>10. ASSUME NEW f \in Flushers, FlushFails(f)
      PROVE  OnceInv'
  BY <1>10 DEF TypeOK, OrderInv, Rising, Older, KeptInv, Flushing, OnceInv, Unsent, Records,
     Events, Record, FlushFails
<1>11. CASE UNCHANGED vars
  BY <1>11 DEF vars, TypeOK, OrderInv, Rising, Older, KeptInv, Flushing, OnceInv, Unsent,
     Records, Events, Record
<1> QED
  BY <1>1, <1>2, <1>3, <1>4, <1>5, <1>6, <1>7, <1>8, <1>9, <1>10, <1>11 DEF Next, Flush

-----------------------------------------------------------------------------
(***************************************************************************)
(* Theorems                                                                *)
(***************************************************************************)

\* For any number of events, flushers and flushes, the outbox is never outside
\* IInv.
THEOREM OutboxInvariant == Spec => []IInv
<1>1. Init => IInv
  <2> SUFFICES ASSUME Init PROVE IInv
    OBVIOUS
  <2>1. TypeOK
    <3>1. EmitterOK /\ FileOK /\ PlatformOK
      <4>1. /\ epc = "idle" /\ event = 0 /\ opened = 0 /\ inode = 0
            /\ accepted \in BOOLEAN /\ faulty \in BOOLEAN /\ raced \in BOOLEAN
            /\ file = <<>> /\ emitted = <<>> /\ receipts = [e \in Events |-> 0]
        BY Zenon DEF Init
      <4> QED
        BY <4>1, BoundsAssumption DEF EmitterOK, FileOK, PlatformOK
    <3>2. FlushersOK
      <4>1. <<>> \in Seq(Records)
        OBVIOUS
      <4>2. records \in [Flushers -> Seq(Records)]
        BY <4>1 DEF Init
      <4> QED
        BY <4>2 DEF Init, FlushersOK
    <3> QED
      BY <3>1, <3>2, TypeParts
  <2>2. OrderInv /\ MarkInv
    BY DEF Init, OrderInv, MarkInv, Rising, Older, True
  <2>3. KeptInv /\ OnceInv
    BY <2>1 DEF Init, KeptInv, OnceInv, Tells, Unsent, Flushing, Events
  <2> QED
    BY <2>1, <2>2, <2>3 DEF IInv
<1>2. IInv /\ [Next]_vars => IInv'
  BY TypeStep, OrderStep, MarkStep, KeptStep, OnceStep DEF IInv
<1> QED
  BY <1>1, <1>2, PTL DEF Spec

\* Whatever flushes and emissions race, os.replace never brings an event into
\* outbox.jsonl twice or out of order.
THEOREM FileStaysInOrder == Spec => []FileInOrder
<1>1. IInv => FileInOrder
  BY DEF IInv, OrderInv, Rising, FileInOrder
<1> QED
  BY <1>1, OutboxInvariant, PTL

\* "delivered": true is never written for an event the platform has not got.
THEOREM MarksAreTrue == Spec => []DeliveredIsTrue
<1>1. IInv => DeliveredIsTrue
  BY DEF IInv, MarkInv, True, DeliveredIsTrue
<1> QED
  BY <1>1, OutboxInvariant, PTL

\* Crashes and failed deliveries lose no event of an emit that returned: only
\* two processes inside the file at once do.
THEOREM OnlyRacesLose == Spec => []KeptUnlessRaced
<1>1. IInv => KeptUnlessRaced
  <2> SUFFICES ASSUME IInv, ~raced PROVE EventsOf(file) = emitted
    BY DEF KeptUnlessRaced
  <2>1. file \in Seq(Records) /\ emitted \in Seq(Events)
    BY DEF IInv, TypeOK
  <2>2. Len(file) = Len(emitted) /\ \A i \in 1..Len(file) : file[i].event = emitted[i]
    BY DEF IInv, KeptInv, Tells
  <2>3. DOMAIN file = 1..Len(emitted) /\ emitted = [i \in 1..Len(emitted) |-> emitted[i]]
    BY <2>1, <2>2
  <2>4. [i \in 1..Len(emitted) |-> file[i].event] = [i \in 1..Len(emitted) |-> emitted[i]]
    BY <2>2
  <2> QED
    BY <2>3, <2>4 DEF EventsOf
<1> QED
  BY <1>1, OutboxInvariant, PTL

\* The platform gets no event twice unless an answer was lost, a process died
\* or two were inside the file at once.
THEOREM DuplicatesAreExcused == Spec => []NoNeedlessDuplicate
<1>1. IInv => NoNeedlessDuplicate
  BY DEF IInv, OnceInv, NoNeedlessDuplicate
<1> QED
  BY <1>1, OutboxInvariant, PTL
=============================================================================
