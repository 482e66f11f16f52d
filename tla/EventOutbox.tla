---------------------------- MODULE EventOutbox ----------------------------
(***************************************************************************)
(* outbox.jsonl: a runtime process appends its events to it (emit) while   *)
(* any number of `flush-outbox` processes read it, deliver what is pending *)
(* and replace it (flush).  Nothing orders these processes: the outbox has *)
(* no lock, and flush-outbox does not look at runtime.lock.                *)
(*                                                                         *)
(* An endpoint is configured.  Opening the file and writing to it are two  *)
(* steps, because the line reaches the file when it is closed: by then     *)
(* another inode may have the name.                                        *)
(***************************************************************************)
EXTENDS Naturals, Sequences, FiniteSets

CONSTANTS NumEvents,   \* bound on the events the runtime emits
          Flushers,    \* flush-outbox processes
          MaxFlushes   \* bound on the flushes that read the file

ASSUME BoundsAssumption == NumEvents \in Nat /\ MaxFlushes \in Nat

Events == 1..NumEvents

VARIABLES
  epc,        \* the emitter: "idle", "deliver", "open", "append"
  event,      \* the event being emitted, or the last one
  accepted,   \* record["delivered"] of that event
  opened,     \* the inode it has open
  file,       \* the records of the file that has the name outbox.jsonl
  inode,      \* which inode that is
  fpc,        \* the flushers: "idle", "deliver", "replace"
  records,    \* what each flusher has read, and updated
  next,       \* the index of the record it is at
  emitted,    \* history: the events whose emit returned, in order
  receipts,   \* history: how often the platform got each event
  faulty,     \* history: an answer was lost, or a process died
  raced       \* history: two processes were inside the file at once

emitVars  == <<epc, event, accepted, opened, emitted>>
flushVars == <<fpc, records, next>>
vars == <<emitVars, flushVars, file, inode, receipts, faulty, raced>>

Record(e, d) == [event |-> e, delivered |-> d]

Init ==
  /\ epc = "idle" /\ event = 0 /\ accepted = FALSE /\ opened = 0
  /\ file = <<>> /\ inode = 0
  /\ fpc = [f \in Flushers |-> "idle"]
  /\ records = [f \in Flushers |-> <<>>]
  /\ next = [f \in Flushers |-> 1]
  /\ emitted = <<>>
  /\ receipts = [e \in Events |-> 0]
  /\ faulty = FALSE /\ raced = FALSE

\* One more receipt of e; two are enough to see a duplicate.
Received(e) == [receipts EXCEPT ![e] = IF @ < 2 THEN @ + 1 ELSE @]

\* The flushers between reading the file and replacing it.
Flushing == {f \in Flushers : fpc[f] # "idle"}

\* _deliver(e) returns d: an answer that is lost or late is a failure here
\* and a receipt at the platform.
Deliver(e, d) ==
  \/ /\ d /\ receipts' = Received(e) /\ UNCHANGED faulty
  \/ /\ ~d /\ UNCHANGED <<receipts, faulty>>
  \/ /\ ~d /\ receipts' = Received(e) /\ faulty' = TRUE

(***************************************************************************)
(* emit                                                                    *)
(***************************************************************************)

Emit ==
  /\ epc = "idle" /\ event < NumEvents
  /\ epc' = "deliver" /\ event' = event + 1
  /\ UNCHANGED <<accepted, opened, emitted, flushVars, file, inode, receipts, faulty, raced>>

\* Mutant: the mark says that the delivery was tried.
EmitDeliverMarks ==
  /\ epc = "deliver"
  /\ \E d \in BOOLEAN : Deliver(event, d)
  /\ accepted' = TRUE
  /\ epc' = "open"
  /\ UNCHANGED <<event, opened, emitted, flushVars, file, inode, raced>>

EmitDeliver ==
  /\ epc = "deliver"
  /\ \E d \in BOOLEAN : Deliver(event, d) /\ accepted' = d
  /\ epc' = "open"
  /\ UNCHANGED <<event, opened, emitted, flushVars, file, inode, raced>>

\* open(path, "a")
EmitOpen ==
  /\ epc = "open"
  /\ epc' = "append" /\ opened' = inode
  /\ raced' = (raced \/ Flushing # {})
  /\ UNCHANGED <<event, accepted, emitted, flushVars, file, inode, receipts, faulty>>

\* The line is written to the inode that was opened, which may have lost its
\* name; emit returns.
EmitAppend ==
  /\ epc = "append"
  /\ file' = IF opened = inode THEN Append(file, Record(event, accepted)) ELSE file
  /\ epc' = "idle" /\ emitted' = Append(emitted, event)
  /\ UNCHANGED <<event, accepted, opened, flushVars, inode, receipts, faulty, raced>>

\* The process dies, or an exception of the delivery leaves emit: this event
\* is in no file.  Another run may emit the next one.
EmitFails ==
  /\ epc \in {"deliver", "open", "append"}
  /\ epc' = "idle" /\ faulty' = TRUE
  /\ UNCHANGED <<event, accepted, opened, emitted, flushVars, file, inode, receipts, raced>>

(***************************************************************************)
(* flush                                                                   *)
(***************************************************************************)

\* Every line is read at once.
FlushRead(f) ==
  /\ fpc[f] = "idle" /\ inode + Cardinality(Flushing) < MaxFlushes
  /\ file # <<>>
  /\ fpc' = [fpc EXCEPT ![f] = "deliver"]
  /\ records' = [records EXCEPT ![f] = file]
  /\ next' = [next EXCEPT ![f] = 1]
  /\ raced' = (raced \/ Flushing # {} \/ epc = "append")
  /\ UNCHANGED <<emitVars, file, inode, receipts, faulty>>

\* Mutant: delivered records are sent again.
FlushDeliverAll(f) ==
  /\ fpc[f] = "deliver" /\ next[f] <= Len(records[f])
  /\ \E d \in BOOLEAN :
       /\ Deliver(records[f][next[f]].event, d)
       /\ records' = [records EXCEPT ![f][next[f]].delivered = @ \/ d]
  /\ next' = [next EXCEPT ![f] = @ + 1]
  /\ UNCHANGED <<fpc, emitVars, file, inode, raced>>

\* The records in turn: the pending ones are sent.
FlushDeliver(f) ==
  /\ fpc[f] = "deliver" /\ next[f] <= Len(records[f])
  /\ IF records[f][next[f]].delivered
       THEN UNCHANGED <<records, receipts, faulty>>
       ELSE \E d \in BOOLEAN :
              /\ Deliver(records[f][next[f]].event, d)
              /\ records' = [records EXCEPT ![f][next[f]].delivered = d]
  /\ next' = [next EXCEPT ![f] = @ + 1]
  /\ UNCHANGED <<fpc, emitVars, file, inode, raced>>

\* The temporary file is complete.
FlushWrite(f) ==
  /\ fpc[f] = "deliver" /\ next[f] > Len(records[f])
  /\ fpc' = [fpc EXCEPT ![f] = "replace"]
  /\ UNCHANGED <<records, next, emitVars, file, inode, receipts, faulty, raced>>

\* The process is over and what it had in memory is gone.
Ends(f) ==
  /\ fpc' = [fpc EXCEPT ![f] = "idle"]
  /\ records' = [records EXCEPT ![f] = <<>>]
  /\ next' = [next EXCEPT ![f] = 1]

\* Mutant: the new records are appended to what is there.
FlushAppend(f) ==
  /\ fpc[f] = "replace"
  /\ file' = file \o records[f] /\ inode' = inode + 1
  /\ Ends(f)
  /\ UNCHANGED <<emitVars, receipts, faulty, raced>>

\* Mutant: what was delivered is removed from the outbox.
FlushPrunes(f) ==
  /\ fpc[f] = "replace"
  /\ file' = SelectSeq(records[f], LAMBDA r : ~r.delivered) /\ inode' = inode + 1
  /\ Ends(f)
  /\ UNCHANGED <<emitVars, receipts, faulty, raced>>

\* os.replace
FlushReplace(f) ==
  /\ fpc[f] = "replace"
  /\ file' = records[f] /\ inode' = inode + 1
  /\ Ends(f)
  /\ UNCHANGED <<emitVars, receipts, faulty, raced>>

\* The process dies, or an exception leaves flush: the file is as it was.
FlushFails(f) ==
  /\ fpc[f] # "idle"
  /\ Ends(f)
  /\ faulty' = TRUE
  /\ UNCHANGED <<emitVars, file, inode, receipts, raced>>

-----------------------------------------------------------------------------

Flush(f) == FlushRead(f) \/ FlushDeliver(f) \/ FlushWrite(f) \/ FlushReplace(f) \/ FlushFails(f)

Next == \/ Emit \/ EmitDeliver \/ EmitOpen \/ EmitAppend \/ EmitFails
        \/ \E f \in Flushers : Flush(f)

Spec == Init /\ [][Next]_vars

-----------------------------------------------------------------------------
(***************************************************************************)
(* Properties                                                              *)
(***************************************************************************)

EventsOf(s) == [i \in DOMAIN s |-> s[i].event]

\* What README.md says: job state events are durable.  An event whose emit
\* returned is in the outbox.  A flush that runs meanwhile breaks it.
EmittedIsKept == \A i \in DOMAIN emitted : \E j \in DOMAIN file : file[j].event = emitted[i]

\* What the code gives: the events survive as long as no two processes are
\* inside the file at once; crashes alone lose nothing.
KeptUnlessRaced == ~raced => EventsOf(file) = emitted

\* Whatever races happen, the file never shows an event twice or out of order.
FileInOrder == \A i, j \in DOMAIN file : i < j => file[i].event < file[j].event

\* An event marked delivered was received by the platform.
DeliveredIsTrue ==
  \A i \in DOMAIN file : file[i].delivered => receipts[file[i].event] > 0

\* The platform gets an event twice only after a lost answer, a crash or a race.
NoNeedlessDuplicate == ~raced /\ ~faulty => \A e \in Events : receipts[e] <= 1
=============================================================================
