-------------------------- MODULE TelemetryProofs ---------------------------
(***************************************************************************)
(* Proofs about the road of a log record from the write-ahead log of a     *)
(* Rack to the store of the Mixer (module Telemetry, with LogShipper and   *)
(* Ingest), for every instance.                                            *)
(***************************************************************************)
EXTENDS Telemetry, SequenceTheorems, TLAPS

(* The Rack's end of telemetry.                                            *)

(* The inductive invariant: besides CursorNeverAhead, that the cursors and *)
(* the first record that is left stay within the WAL, so a record appended *)
(* is behind none of them; that the records in the buffer have their place *)
(* among the logged ones; and that the record being published is in the    *)
(* WAL, and in the stream once the server has stored it.                   *)
ShipperInv ==
  /\ ShipperTypeOK /\ CursorNeverAhead
  /\ Len(wal) + buffer <= logged
  /\ index = cursor /\ cursor <= Len(wal) /\ cursorFile <= Len(wal)
  /\ shipper \in {"publishing", "stored"} => Readable
  /\ shipper = "stored" => Target \in shipped

(* Advance, from a record that is in the WAL and done with, keeps the      *)
(* invariant.                                                              *)
LEMMA AdvanceInv ==
  ASSUME ShipperInv, Readable, Done(Target), Advance,
         UNCHANGED <<logged, buffer, logger, wal, cursorFile, shipped, window, inits, crashes>>
  PROVE  ShipperInv'
<1>1. /\ Target \in 1..Len(wal) /\ Target <= MaxRecords
      /\ index' = Target /\ cursor' = Target /\ walFirst' \in {walFirst, Target}
  BY ShipperAssumption DEF ShipperInv, ShipperTypeOK, Readable, Advance, Target
<1>2. ShipperTypeOK'
  BY <1>1 DEF ShipperInv, ShipperTypeOK, Advance
<1>3. CursorNeverAhead'
  BY <1>1, SMTT(30) DEF ShipperInv, ShipperTypeOK, CursorNeverAhead, Done, Target
<1> QED
  BY <1>1, <1>2, <1>3 DEF ShipperInv, ShipperTypeOK, Advance

(* A WAL that grows at its end: what is behind the cursors is what was.    *)
LEMMA WalGrows ==
  ASSUME ShipperInv, NEW more \in Seq({"ok", "corrupt"}), wal' = wal \o more,
         walFirst' = walFirst, cursorFile' = cursorFile, shipped' = shipped,
         cursor' \in {cursor, cursorFile, walFirst - 1}
  PROVE  /\ wal' \in Seq({"ok", "corrupt"}) /\ Len(wal') = Len(wal) + Len(more)
         /\ CursorNeverAhead'
<1>1. /\ wal' \in Seq({"ok", "corrupt"}) /\ Len(wal') = Len(wal) + Len(more)
      /\ \A i \in 1..Len(wal) : wal'[i] = wal[i]
  BY ConcatProperties DEF ShipperInv, ShipperTypeOK
<1>2. ASSUME NEW i \in 1..Len(wal'),
             i < walFirst \/ i <= cursor' \/ i <= cursorFile
      PROVE  i \in 1..Len(wal) /\ (i < walFirst \/ i <= cursor \/ i <= cursorFile)
  BY <1>1, <1>2, SMTT(30) DEF ShipperInv, ShipperTypeOK
<1>3. CursorNeverAhead'
  BY <1>1, <1>2 DEF ShipperInv, CursorNeverAhead, Done
<1> QED
  BY <1>1, <1>3

(* Every step of the Rack's end keeps the invariant.                       *)
LEMMA ShipperStep ==
  ASSUME ShipperInv, [ShipperNext]_shipperVars
  PROVE  ShipperInv'
<1>1. CASE LogBuffered
  <2>1. ShipperTypeOK'
    <3>1. {logged', buffer', cursor', cursorFile', index'} \subseteq 0..MaxRecords
      BY <1>1, ShipperAssumption, SMTT(30) DEF LogBuffered, ShipperInv, ShipperTypeOK
    <3>2. Len(wal') <= logged'
      BY <1>1, ShipperAssumption DEF LogBuffered, ShipperInv, ShipperTypeOK
    <3> QED
      BY <1>1, <3>1, <3>2, Zenon DEF LogBuffered, ShipperInv, ShipperTypeOK
  <2> QED
    BY <1>1, <2>1, SMTT(30)
       DEF LogBuffered, ShipperInv, ShipperTypeOK, CursorNeverAhead, Done, Readable, Target
<1>2. CASE LogDefault
  <2>1. CASE UNCHANGED wal
    BY <1>2, <2>1, ShipperAssumption, SMTT(30)
       DEF LogDefault, ShipperInv, ShipperTypeOK, CursorNeverAhead, Done, Readable, Target
  <2>2. CASE logger = "wal" /\ \E kind \in {"ok", "corrupt"} : wal' = Append(wal, kind)
    <3>1. PICK kind \in {"ok", "corrupt"} : wal' = Append(wal, kind)
      BY <2>2, Zenon
    <3>2. wal' = wal \o <<kind>> /\ <<kind>> \in Seq({"ok", "corrupt"}) /\ Len(<<kind>>) = 1
      BY <3>1, AppendIsConcat DEF ShipperInv, ShipperTypeOK
    <3>3. /\ wal' \in Seq({"ok", "corrupt"}) /\ Len(wal') = Len(wal) + 1
          /\ CursorNeverAhead'
      BY <1>2, <3>2, WalGrows, Zenon DEF LogDefault
    <3>4. /\ logged < MaxRecords /\ logged' = logged + 1
          /\ UNCHANGED <<buffer, logger, walFirst, cursor, cursorFile, index, shipper, shipped,
                         window, inits, crashes>>
      BY <1>2, Zenon DEF LogDefault
    <3>5. ShipperTypeOK'
      BY <3>3, <3>4, ShipperAssumption, SMTT(30) DEF ShipperInv, ShipperTypeOK
    <3>6. /\ Len(wal)' + buffer' <= logged'
          /\ index' = cursor' /\ cursor' <= Len(wal)' /\ cursorFile' <= Len(wal)'
      BY <3>3, <3>4, ShipperAssumption DEF ShipperInv, ShipperTypeOK
    <3>7. Readable => Readable'
      BY <3>3, <3>4 DEF ShipperInv, ShipperTypeOK, Readable, Target
    <3> QED
      BY <3>3, <3>4, <3>5, <3>6, <3>7, Zenon DEF ShipperInv, Target
  <2> QED
    BY <1>2, <2>1, <2>2 DEF LogDefault
<1>3. CASE TelemetryInit
  <2> DEFINE more == [i \in 1..buffer |-> "ok"]
  <2>1. more \in Seq({"ok", "corrupt"}) /\ Len(more) = buffer
    BY DEF ShipperInv, ShipperTypeOK
  <2>2. cursor' \in {cursorFile, walFirst - 1} /\ index' = cursor'
    BY <1>3 DEF TelemetryInit, StartIndex
  <2>3. wal' = wal \o more
    BY <1>3 DEF TelemetryInit
  <2> HIDE DEF more
  <2>4. /\ wal' \in Seq({"ok", "corrupt"}) /\ Len(wal') = Len(wal) + buffer
        /\ CursorNeverAhead'
    BY <1>3, <2>1, <2>2, <2>3, WalGrows, Zenon DEF TelemetryInit
  <2>5. /\ inits < MaxInits /\ inits' = inits + 1 /\ buffer' = 0
        /\ logger' = "wal" /\ shipper' = "loop"
        /\ UNCHANGED <<logged, walFirst, cursorFile, shipped, window, crashes>>
    BY <1>3, Zenon DEF TelemetryInit
  <2>6. ShipperTypeOK'
    BY <2>2, <2>4, <2>5, ShipperAssumption, SMTT(30) DEF ShipperInv, ShipperTypeOK
  <2>7. /\ Len(wal)' + buffer' <= logged'
        /\ index' = cursor' /\ cursor' <= Len(wal)' /\ cursorFile' <= Len(wal)'
    BY <2>2, <2>4, <2>5 DEF ShipperInv, ShipperTypeOK
  <2> QED
    BY <2>4, <2>5, <2>6, <2>7 DEF ShipperInv
<1>4. CASE TelemetryStop
  BY <1>4 DEF TelemetryStop, ShipperInv, ShipperTypeOK, CursorNeverAhead, Done
<1>5. CASE ShipperCrash
  BY <1>5, ShipperAssumption DEF ShipperCrash, ShipperInv, ShipperTypeOK, CursorNeverAhead, Done
<1>6. CASE SaveCursor
  BY <1>6 DEF SaveCursor, ShipperInv, ShipperTypeOK, CursorNeverAhead, Done
<1>7. CASE ShipRead
  <2>1. CASE wal[Target] = "corrupt" /\ Advance
    BY <1>7, <2>1, AdvanceInv DEF ShipRead, Done
  <2>2. CASE shipper' = "publishing" /\ UNCHANGED <<walFirst, cursor, index>>
    BY <1>7, <2>2
       DEF ShipRead, ShipperInv, ShipperTypeOK, CursorNeverAhead, Done, Readable, Target
  <2> QED
    BY <1>7, <2>1, <2>2 DEF ShipRead
<1>8. CASE PublishStored
  <2>1. Target \in 1..Len(wal) /\ Target' = Target /\ (Readable <=> Readable')
    BY <1>8 DEF PublishStored, ShipperInv, ShipperTypeOK, Readable, Target
  <2>2. CursorNeverAhead'
    BY <1>8 DEF PublishStored, ShipperInv, CursorNeverAhead, Done
  <2> QED
    BY <1>8, <2>1, <2>2 DEF PublishStored, ShipperInv, ShipperTypeOK
<1>9. CASE PublishAcked
  BY <1>9, AdvanceInv DEF PublishAcked, ShipperInv, Done
<1>10. CASE PublishFailed
  BY <1>10 DEF PublishFailed, ShipperInv, ShipperTypeOK, CursorNeverAhead, Done
<1>11. CASE WindowPasses
  BY <1>11 DEF WindowPasses, ShipperInv, ShipperTypeOK, CursorNeverAhead, Done, Readable, Target
<1>12. CASE UNCHANGED shipperVars
  BY <1>12
     DEF shipperVars, ShipperInv, ShipperTypeOK, CursorNeverAhead, Done, Readable, Target
<1> QED
  BY <1>1, <1>2, <1>3, <1>4, <1>5, <1>6, <1>7, <1>8, <1>9, <1>10, <1>11, <1>12, Zenon
     DEF ShipperNext

-----------------------------------------------------------------------------
(* The Mixer's end.                                                        *)

Flushing == [todo : SUBSET Tables, rows : [Tables -> SUBSET AllRows], del : SUBSET AllRows,
             open : BOOLEAN]

(* The inductive invariant: a message that may be delivered has deliveries *)
(* left, the rows of one that was handled are stored, a flush that is not  *)
(* open has deleted nothing, and what an open one deletes is in a file of  *)
(* today, which the janitor leaves.                                        *)
IngestInv ==
  /\ IngestTypeOK /\ SettledIsStored
  /\ flush \in [Flushers -> Flushing]
  /\ \A m \in Msgs : stream[m] = "pending" => deliveries[m] < MaxDeliver
  /\ work # <<>> /\ work[2] = "ok" => Insertable(work[1]) \subseteq stored
  /\ \A f \in Flushers : ~flush[f].open => flush[f].del = {}
  /\ \A f \in Flushers : \A r \in flush[f].del :
       \E file \in files : r \in file.rows /\ file.at = now

(* The rows a message inserts are rows.                                    *)
LEMMA InsertableRows ==
  ASSUME NEW m \in Msgs
  PROVE  Insertable(m) \subseteq AllRows
BY DEF Insertable, LogRows, MetricRows, SpanRows, AllRows

(* The bus: a step that only moves messages keeps what the tables and the  *)
(* flushes hold.                                                           *)
FlushVars == <<sink, table, files, flush, stored, now>>

(* Each step of the Mixer's end keeps the invariant. A message arrives in  *)
(* the stream,                                                             *)
LEMMA ArriveInv ==
  ASSUME IngestInv, NEW m \in Msgs, Arrive(m)
  PROVE  IngestInv'
<1>1. UNCHANGED FlushVars /\ UNCHANGED <<work, dlq>>
  BY DEF Arrive, FlushVars
<1>2. /\ stream' \in [Msgs -> {"none", "unread", "pending", "inflight", "acked", "termed",
                               "abandoned"}]
      /\ deliveries' \in [Msgs -> 0..MaxDeliver]
      /\ \A n \in Msgs : stream'[n] \in {"acked", "abandoned"} => stream[n] = stream'[n]
      /\ \A n \in Msgs : stream'[n] = "pending" => deliveries'[n] < MaxDeliver
  <2>1. CASE stream[m] \in {"pending", "inflight"}
    BY <2>1 DEF Arrive, IngestInv, IngestTypeOK
  <2>2. CASE stream[m] \notin {"pending", "inflight"}
    <3>1. PICK status \in {"pending", "unread"} :
            stream' = [stream EXCEPT ![m] = status] /\ deliveries' = [deliveries EXCEPT ![m] = 0]
      BY <2>2, Zenon DEF Arrive
    <3> QED
      BY <3>1, IngestAssumption DEF IngestInv, IngestTypeOK
  <2> QED
    BY <2>1, <2>2
<1>3. SettledIsStored'
  BY <1>1, <1>2 DEF IngestInv, SettledIsStored, FlushVars
<1> QED
  BY <1>1, <1>2, <1>3 DEF IngestInv, IngestTypeOK, FlushVars

(* is delivered once more,                                                 *)
LEMMA DeliverInv ==
  ASSUME IngestInv, NEW m \in Msgs, Deliver(m)
  PROVE  IngestInv'
<1>1. UNCHANGED FlushVars /\ UNCHANGED <<dlq>>
  BY DEF Deliver, FlushVars
<1>2. /\ stream' \in [Msgs -> {"none", "unread", "pending", "inflight", "acked", "termed",
                               "abandoned"}]
      /\ deliveries' \in [Msgs -> 0..MaxDeliver]
      /\ \A n \in Msgs : stream'[n] \in {"acked", "abandoned"} => stream[n] = stream'[n]
      /\ \A n \in Msgs : stream'[n] = "pending" => deliveries'[n] < MaxDeliver
  BY IngestAssumption DEF Deliver, IngestInv, IngestTypeOK
<1>3. SettledIsStored'
  BY <1>1, <1>2 DEF IngestInv, SettledIsStored, FlushVars
<1>4. work' \in Msgs \X {"handling", "discard"} /\ work'[2] # "ok"
  BY DEF Deliver
<1> QED
  BY <1>1, <1>2, <1>3, <1>4 DEF IngestInv, IngestTypeOK, FlushVars

(* is acknowledged, given back or put in the dead letter queue,            *)
LEMMA SettleInv ==
  ASSUME IngestInv, Settle
  PROVE  IngestInv'
<1> DEFINE m == work[1]
<1>1. UNCHANGED FlushVars /\ work' = <<>> /\ deliveries' = deliveries
  BY DEF Settle, FlushVars
<1>2. m \in Msgs
  BY DEF Settle, IngestInv, IngestTypeOK
<1>3. PICK status : /\ stream' = [stream EXCEPT ![m] = status]
                    /\ \/ status = "acked" /\ work[2] = "ok"
                       \/ status = "abandoned" /\ work[2] = "ok"
                       \/ status = "termed"
                       \/ status = "pending" /\ deliveries[m] < MaxDeliver
  BY Zenon DEF Settle, DeadLetter, Redeliver
<1>4. dlq' \subseteq Msgs
  BY <1>2 DEF Settle, DeadLetter, IngestInv, IngestTypeOK
<1>5. SettledIsStored'
  BY <1>1, <1>2, <1>3 DEF IngestInv, IngestTypeOK, SettledIsStored, FlushVars, Settle
<1>6. \A n \in Msgs : stream'[n] = "pending" => deliveries'[n] < MaxDeliver
  BY <1>1, <1>2, <1>3 DEF IngestInv, IngestTypeOK
<1>7. stream' \in [Msgs -> {"none", "unread", "pending", "inflight", "acked", "termed",
                            "abandoned"}]
  BY <1>2, <1>3 DEF IngestInv, IngestTypeOK
<1> QED
  BY <1>1, <1>4, <1>5, <1>6, <1>7 DEF IngestInv, IngestTypeOK, FlushVars

(* and is handled: its rows are inserted, or it fails.                     *)
LEMMA HandleInv ==
  ASSUME IngestInv, Handle
  PROVE  IngestInv'
<1> DEFINE m == work[1]
<1>1. m \in Msgs
  BY DEF Handle, IngestInv, IngestTypeOK
<1>2. PICK good \in SUBSET Insertable(m) :
        /\ table' = [t \in Tables |-> table[t] \cup (Inserts(m)[t] \cap good)]
        /\ stored' = stored \cup good
        /\ work' = <<m, IF good # Insertable(m) \/ MsgType[m] = "badBatch"
                        THEN "failed" ELSE "ok">>
  BY Zenon DEF Handle
<1>3. good \subseteq AllRows
  BY <1>1, <1>2, InsertableRows
<1>4. table' \in [Tables -> SUBSET AllRows] /\ stored' \subseteq AllRows
  BY <1>2, <1>3 DEF IngestInv, IngestTypeOK
<1>5. SettledIsStored'
  BY <1>2 DEF Handle, IngestInv, SettledIsStored
<1>6. /\ work' \in Msgs \X {"handling", "ok", "failed", "discard"}
      /\ work'[2] = "ok" => Insertable(work'[1]) \subseteq stored'
  BY <1>1, <1>2
<1> QED
  BY <1>4, <1>5, <1>6 DEF Handle, IngestInv, IngestTypeOK

(* Start, Stop and the Mixer's end.                                        *)

(* What was in flight when the sink went away is delivered again, or was   *)
(* the last delivery.                                                      *)
LEMMA DroppedInv ==
  ASSUME IngestInv, stream' = [m \in Msgs |-> Dropped(m)], deliveries' = deliveries,
         stored' = stored
  PROVE  /\ stream' \in [Msgs -> {"none", "unread", "pending", "inflight", "acked", "termed",
                                  "abandoned"}]
         /\ SettledIsStored'
         /\ \A m \in Msgs : stream'[m] = "pending" => deliveries'[m] < MaxDeliver
BY DEF IngestInv, IngestTypeOK, SettledIsStored, Dropped

(* The state of a flush that has not begun and of one that has just begun. *)
LEMMA FlushTypes ==
  ASSUME table \in [Tables -> SUBSET AllRows]
  PROVE  /\ NoFlush \in Flushing /\ NoFlush.del = {}
         /\ Transaction \in Flushing /\ Transaction.del = {}
BY DEF NoFlush, Flushing, Transaction

(* Flusher f goes on with x, and the tables and files grow or stay: what x *)
(* has deleted is in a file of today.                                      *)
LEMMA FlushMoves ==
  ASSUME IngestInv, NEW f \in Flushers, NEW x \in Flushing, flush' = [flush EXCEPT ![f] = x],
         ~x.open => x.del = {}, files \subseteq files', now' = now,
         \A r \in x.del : \E file \in files' : r \in file.rows /\ file.at = now
  PROVE  /\ flush' \in [Flushers -> Flushing]
         /\ \A g \in Flushers : flush'[g].todo \subseteq Tables
         /\ \A g \in Flushers : ~flush'[g].open => flush'[g].del = {}
         /\ \A g \in Flushers : \A r \in flush'[g].del :
              \E file \in files' : r \in file.rows /\ file.at = now'
<1>1. flush' \in [Flushers -> Flushing]
  BY DEF IngestInv
<1>2. \A g \in Flushers : flush'[g] = IF g = f THEN x ELSE flush[g]
  BY DEF IngestInv
<1>3. \A g \in Flushers : flush'[g].todo \subseteq Tables
  BY <1>1 DEF Flushing
<1>4. ASSUME NEW g \in Flushers
      PROVE  /\ ~flush'[g].open => flush'[g].del = {}
             /\ \A r \in flush'[g].del : \E file \in files' : r \in file.rows /\ file.at = now'
  <2>1. CASE g = f
    BY <1>2, <2>1, Zenon
  <2>2. CASE g # f
    BY <1>2, <2>2, Zenon DEF IngestInv
  <2> QED
    BY <2>1, <2>2
<1> QED
  BY <1>1, <1>3, <1>4, Zenon

(* The sink stops.                                                         *)
LEMMA SinkStopInv ==
  ASSUME IngestInv, SinkStop
  PROVE  IngestInv'
<1>1. Transaction \in Flushing /\ Transaction.del = {} /\ "stop" \in Flushers
  BY FlushTypes DEF IngestInv, IngestTypeOK, Flushers
<1>2. /\ flush' \in [Flushers -> Flushing]
      /\ \A g \in Flushers : flush'[g].todo \subseteq Tables
      /\ \A g \in Flushers : ~flush'[g].open => flush'[g].del = {}
      /\ \A g \in Flushers : \A r \in flush'[g].del :
           \E file \in files' : r \in file.rows /\ file.at = now'
  BY <1>1, FlushMoves, Zenon DEF SinkStop
<1>3. /\ stream' \in [Msgs -> {"none", "unread", "pending", "inflight", "acked", "termed",
                               "abandoned"}]
      /\ SettledIsStored'
      /\ \A m \in Msgs : stream'[m] = "pending" => deliveries'[m] < MaxDeliver
  BY DroppedInv, Zenon DEF SinkStop
<1> QED
  BY <1>2, <1>3 DEF SinkStop, IngestInv, IngestTypeOK

(* The Mixer crashes: what a flush had not committed is undone.            *)
LEMMA MixerCrashInv ==
  ASSUME IngestInv, MixerCrash
  PROVE  IngestInv'
<1>1. NoFlush \in Flushing /\ NoFlush.del = {}
  BY FlushTypes DEF IngestInv, IngestTypeOK
<1>2. flush' \in [Flushers -> Flushing] /\ \A g \in Flushers : flush'[g].del = {}
  BY <1>1, Zenon DEF MixerCrash
<1>3. \A g \in Flushers : flush'[g].todo \subseteq Tables
  BY <1>2 DEF Flushing
<1>4. /\ stream' \in [Msgs -> {"none", "unread", "pending", "inflight", "acked", "termed",
                               "abandoned"}]
      /\ SettledIsStored'
      /\ \A m \in Msgs : stream'[m] = "pending" => deliveries'[m] < MaxDeliver
  BY DroppedInv, Zenon DEF MixerCrash
<1> QED
  BY <1>2, <1>3, <1>4 DEF MixerCrash, IngestInv, IngestTypeOK

(* FlushTelemetry.                                                         *)

(* A flush begins,                                                         *)
LEMMA FlushBeginInv ==
  ASSUME IngestInv, FlushBegin
  PROVE  IngestInv'
<1>1. Transaction \in Flushing /\ Transaction.del = {} /\ "ticker" \in Flushers
  BY FlushTypes DEF IngestInv, IngestTypeOK, Flushers
<1>2. /\ flush' \in [Flushers -> Flushing]
      /\ \A g \in Flushers : flush'[g].todo \subseteq Tables
      /\ \A g \in Flushers : ~flush'[g].open => flush'[g].del = {}
      /\ \A g \in Flushers : \A r \in flush'[g].del :
           \E file \in files' : r \in file.rows /\ file.at = now'
  BY <1>1, FlushMoves, Zenon DEF FlushBegin
<1> QED
  BY <1>2 DEF FlushBegin, IngestInv, IngestTypeOK, SettledIsStored

(* copies a table to a file and deletes its rows, or fails,                *)
LEMMA FlushTableInv ==
  ASSUME IngestInv, NEW f \in Flushers, NEW t \in Tables, FlushTable(f, t)
  PROVE  IngestInv'
<1> DEFINE rows == flush[f].rows[t]
           file == [rows |-> rows, at |-> now]
           next == [flush[f] EXCEPT !.todo = @ \ {t}, !.del = @ \cup rows]
<1>1. rows \in SUBSET AllRows /\ file \in [rows : SUBSET AllRows, at : 0..MaxTime]
  BY DEF IngestInv, IngestTypeOK, Flushing
<1>2. files' \in {files, files \cup {file}}
  BY Zenon DEF FlushTable
<1>3. /\ NoFlush \in Flushing /\ NoFlush.del = {}
      /\ next \in Flushing /\ next.open = flush[f].open /\ next.del = flush[f].del \cup rows
  <2>1. NoFlush \in Flushing /\ NoFlush.del = {}
    BY FlushTypes DEF IngestInv, IngestTypeOK
  <2>2. flush[f] \in Flushing
    BY DEF IngestInv
  <2> HIDE DEF rows
  <2>3. next \in Flushing /\ next.open = flush[f].open /\ next.del = flush[f].del \cup rows
    BY <1>1, <2>2, Zenon DEF Flushing
  <2> QED
    BY <2>1, <2>3
<1>4. PICK x \in Flushing :
        /\ flush' = [flush EXCEPT ![f] = x] /\ (~x.open => x.del = {})
        /\ \A r \in x.del : \E g \in files' : r \in g.rows /\ g.at = now
  <2>1. CASE flush' = [flush EXCEPT ![f] = NoFlush]
    BY <1>3, <2>1, Zenon
  <2>2. CASE /\ flush' = [flush EXCEPT ![f].todo = @ \ {t}, ![f].del = @ \cup rows]
             /\ files' = files \cup {file}
    <3>1. flush' = [flush EXCEPT ![f] = next]
      <4>1. flush \in [Flushers -> Flushing]
        BY DEF IngestInv
      <4> QED
        BY <2>2, <4>1, Zenon
    <3>2. next.open /\ next.del = flush[f].del \cup rows
      BY <1>3, Zenon DEF FlushTable
    <3>3. \A r \in flush[f].del : \E g \in files' : r \in g.rows /\ g.at = now
      BY <1>2 DEF IngestInv
    <3>4. file \in files' /\ file.rows = rows /\ file.at = now
      BY <2>2, Zenon
    <3> HIDE DEF next, file, rows
    <3>5. \A r \in next.del : \E g \in files' : r \in g.rows /\ g.at = now
      BY <3>2, <3>3, <3>4
    <3> QED
      BY <1>3, <3>1, <3>2, <3>5, Zenon
  <2> QED
    BY <2>1, <2>2, Zenon DEF FlushTable
<1>5. UNCHANGED <<stream, deliveries, work, dlq, sink, starts, table, flushes, stored, now>>
  BY DEF FlushTable
<1>6. files \subseteq files' /\ files' \subseteq [rows : SUBSET AllRows, at : 0..MaxTime]
  BY <1>1, <1>2 DEF IngestInv, IngestTypeOK
<1>7. /\ flush' \in [Flushers -> Flushing]
      /\ \A g \in Flushers : flush'[g].todo \subseteq Tables
      /\ \A g \in Flushers : ~flush'[g].open => flush'[g].del = {}
      /\ \A g \in Flushers : \A r \in flush'[g].del :
           \E h \in files' : r \in h.rows /\ h.at = now'
  BY <1>4, <1>5, <1>6, FlushMoves, Zenon
<1> QED
  BY <1>5, <1>6, <1>7 DEF IngestInv, IngestTypeOK, SettledIsStored

(* and commits, or rolls back.                                             *)
LEMMA FlushCommitInv ==
  ASSUME IngestInv, NEW f \in Flushers, FlushCommit(f)
  PROVE  IngestInv'
<1>1. NoFlush \in Flushing /\ NoFlush.del = {}
  BY FlushTypes DEF IngestInv, IngestTypeOK
<1>2. /\ flush' \in [Flushers -> Flushing]
      /\ \A g \in Flushers : flush'[g].todo \subseteq Tables
      /\ \A g \in Flushers : ~flush'[g].open => flush'[g].del = {}
      /\ \A g \in Flushers : \A r \in flush'[g].del :
           \E file \in files' : r \in file.rows /\ file.at = now'
  BY <1>1, FlushMoves, Zenon DEF FlushCommit
<1>3. table' \in [Tables -> SUBSET AllRows]
  BY DEF FlushCommit, IngestInv, IngestTypeOK
<1> QED
  BY <1>2, <1>3 DEF FlushCommit, IngestInv, IngestTypeOK, SettledIsStored

(* The janitor deletes files that are older than the retention.            *)
LEMMA CleanInv ==
  ASSUME IngestInv, Clean
  PROVE  IngestInv'
<1>1. \A file \in files : file.at = now => file \in files'
  BY IngestAssumption DEF Clean, Expired, IngestInv, IngestTypeOK
<1>2. \A f \in Flushers : \A r \in flush[f].del :
        \E file \in files' : r \in file.rows /\ file.at = now
  BY <1>1, Zenon DEF IngestInv
<1> QED
  BY <1>2 DEF Clean, IngestInv, IngestTypeOK, SettledIsStored

(* A day passes while no flush is open.                                    *)
LEMMA TickInv ==
  ASSUME IngestInv, Tick
  PROVE  IngestInv'
<1>1. \A f \in Flushers : flush[f].del = {}
  BY Zenon DEF Tick, IngestInv
<1>2. now' \in 0..MaxTime
  BY IngestAssumption DEF Tick, IngestInv, IngestTypeOK
<1> QED
  BY <1>1, <1>2 DEF Tick, IngestInv, IngestTypeOK, SettledIsStored

(* So every step of the Mixer's end keeps the invariant,                   *)
LEMMA IngestStep ==
  ASSUME IngestInv, [IngestNext]_ingestVars
  PROVE  IngestInv'
<1>1. CASE SinkStart
  BY <1>1 DEF SinkStart, IngestInv, IngestTypeOK, SettledIsStored
<1>2. CASE SinkStopped
  BY <1>2 DEF SinkStopped, IngestInv, IngestTypeOK, SettledIsStored
<1>3. CASE UNCHANGED ingestVars
  BY <1>3 DEF ingestVars, IngestInv, IngestTypeOK, SettledIsStored
<1> QED
  BY <1>1, <1>2, <1>3, DeliverInv, SettleInv, HandleInv, SinkStopInv, MixerCrashInv,
     FlushBeginInv, FlushTableInv, FlushCommitInv, CleanInv, TickInv, Zenon
     DEF IngestNext

(* The pipeline.                                                           *)

(* Every step of the pipeline is one of the Rack's end and one of the      *)
(* Mixer's end, or of a message that reaches the stream.                   *)
LEMMA PipelineParts ==
  ASSUME [PipelineNext]_telemetryVars, ShipperInv
  PROVE  /\ [ShipperNext]_shipperVars
         /\ [IngestNext]_ingestVars \/ \E m \in Msgs : Arrive(m)
<1>1. CASE RackStep
  BY <1>1, Zenon DEF RackStep, ShipperNext
<1>2. CASE PublishRaw
  <2>1. PublishStored => Target \in Msgs
    BY RecordsAreMessages, ShipperAssumption, SMTT(30)
       DEF PublishStored, ShipperInv, ShipperTypeOK, Readable, Target
  <2> QED
    BY <1>2, <2>1, Zenon DEF PublishRaw, ShipperNext
<1>3. CASE MixerStep
  BY <1>3, Zenon DEF MixerStep
<1>4. CASE \E m \in Msgs : ExportSpans(m) \/ ExportMetrics(m) \/ ExportOther(m)
  BY <1>4, Zenon DEF ExportSpans, ExportMetrics, ExportOther, Export
<1>5. CASE UNCHANGED telemetryVars
  BY <1>5 DEF telemetryVars
<1> QED
  BY <1>1, <1>2, <1>3, <1>4, <1>5, Zenon DEF PipelineNext

(* and the whole pipeline keeps both.                                      *)
LEMMA PipelineInvariants == PipelineSpec => [](ShipperInv /\ IngestInv)
<1>1. PipelineInit => ShipperInv /\ IngestInv
  <2> SUFFICES ASSUME PipelineInit PROVE ShipperInv /\ IngestInv
    OBVIOUS
  <2>1. ShipperInv
    BY ShipperAssumption
       DEF PipelineInit, ShipperInit, ShipperInv, ShipperTypeOK, CursorNeverAhead, Done
  <2>2. table \in [Tables -> SUBSET AllRows] /\ flush = [f \in Flushers |-> NoFlush]
    BY DEF PipelineInit, IngestInit
  <2>3. NoFlush \in Flushing /\ NoFlush.del = {} /\ NoFlush.todo = {}
    BY <2>2, FlushTypes DEF NoFlush
  <2>4. IngestInv
    BY <2>2, <2>3, IngestAssumption
       DEF PipelineInit, IngestInit, IngestInv, IngestTypeOK, SettledIsStored
  <2> QED
    BY <2>1, <2>4
<1>2. ShipperInv /\ IngestInv /\ [PipelineNext]_telemetryVars => (ShipperInv /\ IngestInv)'
  BY PipelineParts, ShipperStep, IngestStep, ArriveInv, Zenon
<1> QED
  BY <1>1, <1>2, PTL DEF PipelineSpec

(* No record is given up at either end before the next one holds it:       *)
(* neither do the WAL's truncation and the two cursors pass a record that  *)
(* the stream has not stored, nor does the consumer acknowledge a message, *)
(* or the server stop delivering it, before its rows are in the database.  *)
THEOREM RecordsAreHandedOver == PipelineSpec => []HandedOver
<1>1. ShipperInv /\ IngestInv => HandedOver
  BY Zenon DEF ShipperInv, IngestInv, HandedOver
<1> QED
  BY <1>1, PipelineInvariants, PTL

(* A row that a step takes from the tables was copied to a file, and a row *)
(* that a step takes from the files was only in expired ones.              *)
LEMMA RowsStay ==
  ASSUME IngestInv, [IngestNext]_ingestVars \/ \E m \in Msgs : Arrive(m),
         NEW r \in stored, Held(r), ~Held(r)'
  PROVE  LET with == {file \in files : r \in file.rows}
         IN  with # {} /\ \A file \in with : Expired(file)
<1> DEFINE Grows == (\A t \in Tables : table[t] \subseteq table'[t]) /\ files \subseteq files'
<1>1. ~Grows
  BY DEF Held
<1>2. CASE Clean
  <2>1. table' = table /\ files' = {file \in files : ~Expired(file)}
    BY <1>2 DEF Clean
  <2> QED
    BY <2>1 DEF Held
<1>3. ASSUME NEW f \in Flushers, FlushCommit(f)
      PROVE  FALSE
  <2>1. table' = [t \in Tables |-> table[t] \ flush[f].del] /\ files' = files
    BY <1>3 DEF FlushCommit
  <2>2. PICK t \in Tables : r \in table[t] /\ r \in flush[f].del
    BY <2>1 DEF Held
  <2> QED
    BY <2>1, <2>2 DEF Held, IngestInv
<1>4. CASE Handle
  BY <1>1, <1>4 DEF Handle
<1>5. ASSUME NEW f \in Flushers, NEW t \in Tables, FlushTable(f, t)
      PROVE  FALSE
  BY <1>1, <1>5 DEF FlushTable
<1>6. UNCHANGED <<table, files>> => Grows
  OBVIOUS
<1> HIDE DEF Grows
<1> QED
  BY <1>1, <1>2, <1>3, <1>4, <1>5, <1>6, Zenon
     DEF IngestNext, ingestVars, Arrive, Deliver, Settle, SinkStart, SinkStop, SinkStopped,
         MixerCrash, FlushBegin, Tick

(* A row that was inserted stays in its table or in a parquet file until   *)
(* the janitor deletes files of that age, whichever step of the flushes,   *)
(* of the sink or of the bus fails or overlaps.                            *)
THEOREM RowsAreKept == PipelineSpec => RowsKept
<1>1. IngestInv /\ ShipperInv /\ [PipelineNext]_telemetryVars
      => [\A r \in stored : Held(r) /\ ~Held(r)' =>
            LET with == {file \in files : r \in file.rows}
            IN  with # {} /\ \A file \in with : Expired(file)]_ingestVars
  BY PipelineParts, RowsStay, Zenon
<1> QED
  BY <1>1, PipelineInvariants, PTL DEF PipelineSpec, RowsKept

=============================================================================
