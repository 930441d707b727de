------------------------------- MODULE Ingest -------------------------------
(***************************************************************************)
(* The Mixer's end of the telemetry stream: the consumer that the bus      *)
(* makes for the sink, with its redeliveries and the dead letter queue, the*)
(* rows the sink inserts into DuckDB, the flushes that move them to parquet*)
(* files and the janitor that deletes old files.                           *)
(***************************************************************************)
EXTENDS Naturals, FiniteSets, FiniteSetsExt

CONSTANTS Msgs,        \* messages that may be published, once each
          MsgType,     \* message -> its "type", or why it cannot be handled
          Rows,        \* message -> the rows of its record or of its batch
          Malformed,   \* rows that the database refuses every time
          NoEntity,    \* metrics without an entity to attribute them to
          MaxDeliver,  \* maxGuaranteedRedeliveries (5)
          DLQEnabled,
          Retention,   \* age at which the janitor deletes a file
          MaxTime, MaxSinkStarts, MaxFlushes

VARIABLES
  stream,      \* message -> its state on the server, for the sink's consumer
  deliveries,  \* message -> how often the consumer was given it
  work,        \* message in the handler, with the outcome; <<>> when idle
  dlq,         \* messages in the dead letter queue
  sink,        \* "down", "up" or "stopping" (in the last flush of Stop)
  starts,
  table,       \* table -> rows
  files,       \* parquet files: [rows, at]
  flush,       \* flusher -> its transaction
  flushes,
  stored,      \* rows ever committed
  now

ingestVars == <<stream, deliveries, work, dlq, sink, starts, table, files, flush, flushes,
                stored, now>>

Tables == {"logs", "metrics", "spans"}
Flushers == {"ticker", "stop"}
AllRows == UNION {Rows[m] : m \in Msgs}
NoFlush == [todo |-> {}, rows |-> [t \in Tables |-> {}], del |-> {}, open |-> FALSE]

MsgTypes == {"log", "metric", "span", "badBatch", "unknown", "undecodable", "invalid"}
ASSUME IngestAssumption ==
  /\ MaxDeliver \in Nat \ {0} /\ MsgType \in [Msgs -> MsgTypes] /\ DLQEnabled \in BOOLEAN
  /\ Retention \in Nat /\ MaxTime \in Nat

IngestTypeOK ==
  /\ stream \in [Msgs -> {"none", "unread", "pending", "inflight", "acked", "termed", "abandoned"}]
  /\ deliveries \in [Msgs -> 0..MaxDeliver]
  /\ work \in {<<>>} \cup (Msgs \X {"handling", "ok", "failed", "discard"})
  /\ dlq \subseteq Msgs /\ sink \in {"down", "up", "stopping"}
  /\ table \in [Tables -> SUBSET AllRows] /\ stored \subseteq AllRows
  /\ files \subseteq [rows : SUBSET AllRows, at : 0..MaxTime]
  /\ \A f \in Flushers : flush[f].todo \subseteq Tables
  /\ now \in 0..MaxTime

IngestInit ==
  /\ stream = [m \in Msgs |-> "none"] /\ deliveries = [m \in Msgs |-> 0] /\ work = <<>>
  /\ dlq = {} /\ sink = "down" /\ starts = 0
  /\ table = [t \in Tables |-> {}] /\ files = {} /\ flush = [f \in Flushers |-> NoFlush]
  /\ flushes = 0 /\ stored = {} /\ now = 0

---------------------------------------------------------------------------
(* The bus *)

\* A message reaches the stream, for the first time or again when the server no
\* longer knows its ID.  The sink's consumer delivers new messages only: one
\* stored while there is no consumer is never given to it.
Arrive(m) ==
  /\ IF stream[m] \in {"pending", "inflight"}
     THEN UNCHANGED <<stream, deliveries>>
     ELSE /\ stream' = [stream EXCEPT ![m] = IF sink = "up" THEN "pending" ELSE "unread"]
          /\ deliveries' = [deliveries EXCEPT ![m] = 0]
  /\ UNCHANGED <<work, dlq, sink, starts, table, files, flush, flushes, stored, now>>

\* The consumer hands over one message at a time.
Deliver(m) ==
  /\ sink = "up" /\ work = <<>> /\ stream[m] = "pending"
  /\ stream' = [stream EXCEPT ![m] = "inflight"]
  /\ deliveries' = [deliveries EXCEPT ![m] = @ + 1]
  /\ work' = <<m, IF MsgType[m] \in {"undecodable", "invalid"} THEN "discard" ELSE "handling">>
  /\ UNCHANGED <<dlq, sink, starts, table, files, flush, flushes, stored, now>>

\* Where the server takes a message that is not settled and may be delivered
\* again, and where it leaves one whose deliveries are used up.
Redeliver(m) == IF deliveries[m] < MaxDeliver THEN "pending" ELSE "abandoned"

\* The message is routed to the dead letter queue, when that is enabled and the
\* publish succeeds, and terminated either way.
DeadLetter(m) ==
  /\ dlq' \in IF DLQEnabled THEN {dlq, dlq \cup {m}} ELSE {dlq}
  /\ stream' = [stream EXCEPT ![m] = "termed"]

\* Variant: the last delivery is answered like the others.
SettleNaksAlways ==
  /\ work # <<>> /\ work[2] # "handling"
  /\ LET m == work[1] IN
     \/ work[2] = "ok" /\ stream' = [stream EXCEPT ![m] = "acked"] /\ UNCHANGED dlq
     \/ work[2] = "failed" /\ stream' = [stream EXCEPT ![m] = Redeliver(m)] /\ UNCHANGED dlq
     \/ work[2] = "discard" /\ DeadLetter(m)
  /\ work' = <<>>
  /\ UNCHANGED <<deliveries, sink, starts, table, files, flush, flushes, stored, now>>

\* After the handler: Ack, Nak, or the dead letter queue at the last delivery.
\* An Ack or a Nak may get lost, and the message comes again when its ack wait
\* is over.
Settle ==
  /\ work # <<>> /\ work[2] # "handling"
  /\ LET m == work[1] IN
     \/ work[2] = "ok" /\ stream' \in {[stream EXCEPT ![m] = "acked"],
                                       [stream EXCEPT ![m] = Redeliver(m)]} /\ UNCHANGED dlq
     \/ /\ work[2] = "failed" /\ deliveries[m] < MaxDeliver
        /\ stream' = [stream EXCEPT ![m] = Redeliver(m)] /\ UNCHANGED dlq
     \/ work[2] = "failed" /\ deliveries[m] >= MaxDeliver /\ DeadLetter(m)
     \/ work[2] = "discard" /\ DeadLetter(m)
  /\ work' = <<>>
  /\ UNCHANGED <<deliveries, sink, starts, table, files, flush, flushes, stored, now>>

---------------------------------------------------------------------------
(* TelemetrySink.handleMessage *)

\* What persistLogs, persistMetrics and persistSpans insert of a message, by
\* table: the rows of a record or of a batch that can be read, and no metric
\* without an entity to attribute it to.
LogRows(m) == IF MsgType[m] = "log" THEN Rows[m] ELSE {}
MetricRows(m) == IF MsgType[m] = "metric" THEN Rows[m] \ NoEntity ELSE {}
SpanRows(m) == IF MsgType[m] = "span" THEN Rows[m] ELSE {}
Inserts(m) == [logs |-> LogRows(m), metrics |-> MetricRows(m), spans |-> SpanRows(m)]
Insertable(m) == LogRows(m) \cup MetricRows(m) \cup SpanRows(m)

\* Each row is inserted by itself, and one that fails costs no other.  A row
\* may also fail for a passing reason.  Any failure fails the message.
Handle ==
  /\ work # <<>> /\ work[2] = "handling"
  /\ LET m == work[1] IN
     \E unlucky \in SUBSET Insertable(m) :
       LET good == Insertable(m) \ (unlucky \cup Malformed)
       IN  /\ table' = [t \in Tables |-> table[t] \cup (Inserts(m)[t] \cap good)]
           /\ stored' = stored \cup good
           /\ work' = <<m, IF good # Insertable(m) \/ MsgType[m] = "badBatch"
                           THEN "failed" ELSE "ok">>
  /\ UNCHANGED <<stream, deliveries, dlq, sink, starts, files, flush, flushes, now>>

---------------------------------------------------------------------------
(* Start, Stop and the Mixer's end *)

SinkStart ==
  /\ sink = "down" /\ starts < MaxSinkStarts
  /\ sink' = "up" /\ starts' = starts + 1
  /\ UNCHANGED <<stream, deliveries, work, dlq, table, files, flush, flushes, stored, now>>

\* Deleting the ephemeral consumer leaves what it had not settled unread.
Dropped(m) == IF stream[m] \in {"pending", "inflight"} THEN "unread" ELSE stream[m]

\* A flush sees the tables as they are when its transaction begins, and passes
\* over the empty ones.
Transaction == [todo |-> {t \in Tables : table[t] # {}}, rows |-> table, del |-> {}, open |-> TRUE]

\* Stop closes the channel of the flusher, which may be in a flush, removes the
\* consumer and begins one last flush.
SinkStop ==
  /\ sink = "up" /\ work = <<>> /\ sink' = "stopping"
  /\ stream' = [m \in Msgs |-> Dropped(m)]
  /\ flush' = [flush EXCEPT !["stop"] = Transaction]
  /\ UNCHANGED <<deliveries, work, dlq, starts, table, files, flushes, stored, now>>

SinkStopped ==
  /\ sink = "stopping" /\ \A f \in Flushers : ~flush[f].open
  /\ sink' = "down"
  /\ UNCHANGED <<stream, deliveries, work, dlq, starts, table, files, flush, flushes, stored, now>>

\* The Mixer dies: open transactions are undone, finished files stay.
MixerCrash ==
  /\ sink # "down" /\ sink' = "down" /\ starts < MaxSinkStarts
  /\ stream' = [m \in Msgs |-> Dropped(m)]
  /\ work' = <<>> /\ flush' = [f \in Flushers |-> NoFlush]
  /\ UNCHANGED <<deliveries, dlq, starts, table, files, flushes, stored, now>>

---------------------------------------------------------------------------
(* FlushTelemetry *)

\* The ticker's flush begins.
FlushBegin ==
  /\ sink = "up" /\ ~flush["ticker"].open /\ flushes < MaxFlushes
  /\ flushes' = flushes + 1
  /\ flush' = [flush EXCEPT !["ticker"] = Transaction]
  /\ UNCHANGED <<stream, deliveries, work, dlq, sink, starts, table, files, stored, now>>

\* The other transaction has deleted, or deleted and committed, one of the rows.
Conflict(f, t) ==
  \/ \E g \in Flushers \ {f} : flush[g].del \cap flush[f].rows[t] # {}
  \/ ~(flush[f].rows[t] \subseteq table[t])

\* Variant: the rows are deleted although their copy failed.
FlushTableUnchecked(f, t) ==
  /\ flush[f].open /\ t \in flush[f].todo
  /\ LET rows == flush[f].rows[t]
     IN  /\ flush' = [flush EXCEPT ![f].todo = @ \ {t}, ![f].del = @ \cup rows]
         /\ files' \in {files, files \cup {[rows |-> rows, at |-> now]}}
  /\ UNCHANGED <<stream, deliveries, work, dlq, sink, starts, table, flushes, stored, now>>

\* One table: copied to a file, which no rollback removes, and then deleted in
\* the transaction.  Either may fail, and ends the flush.
FlushTable(f, t) ==
  /\ flush[f].open /\ t \in flush[f].todo
  /\ LET rows == flush[f].rows[t]
         next == [flush EXCEPT ![f].todo = @ \ {t}, ![f].del = @ \cup rows]
         fails == [flush EXCEPT ![f] = NoFlush]
         copied == files \cup {[rows |-> rows, at |-> now]}
     IN  \/ ~Conflict(f, t) /\ flush' = next /\ files' = copied
         \/ flush' = fails /\ files' \in {files, copied}
  /\ UNCHANGED <<stream, deliveries, work, dlq, sink, starts, table, flushes, stored, now>>

FlushCommit(f) ==
  /\ flush[f].open /\ flush[f].todo = {}
  /\ table' = [t \in Tables |-> table[t] \ flush[f].del]
  /\ flush' = [flush EXCEPT ![f] = NoFlush]
  /\ UNCHANGED <<stream, deliveries, work, dlq, sink, starts, files, flushes, stored, now>>

---------------------------------------------------------------------------
(* Janitor.clean, and time *)

Expired(file) == now - file.at > Retention

Clean ==
  /\ sink # "down" /\ \E file \in files : Expired(file)
  /\ files' = {file \in files : ~Expired(file)}
  /\ UNCHANGED <<stream, deliveries, work, dlq, sink, starts, table, flush, flushes, stored, now>>

\* A unit of time is a day, and no flush lasts one.
Tick ==
  /\ now < MaxTime /\ \A f \in Flushers : ~flush[f].open
  /\ now' = now + 1
  /\ UNCHANGED <<stream, deliveries, work, dlq, sink, starts, table, files, flush, flushes, stored>>

IngestNext ==
  \/ \E m \in Msgs : Deliver(m)
  \/ Settle \/ Handle \/ SinkStart \/ SinkStop \/ SinkStopped \/ MixerCrash
  \/ FlushBegin \/ (\E f \in Flushers, t \in Tables : FlushTable(f, t))
  \/ (\E f \in Flushers : FlushCommit(f)) \/ Clean \/ Tick

---------------------------------------------------------------------------

\* A message that the consumer is done with, because it was acknowledged or
\* because the server stopped delivering it, has all its rows in the database,
\* and what fails to the end is in a dead letter or was refused by the queue:
\* no failing message is left to age out unread.
SettledIsStored ==
  \A m \in Msgs : stream[m] \in {"acked", "abandoned"} => Insertable(m) \subseteq stored

Held(r) == (\E t \in Tables : r \in table[t]) \/ \E file \in files : r \in file.rows

\* A row that was inserted stays in its table or in a parquet file until the
\* janitor deletes files of that age, although a flush copies and deletes in
\* steps, two flushes may overlap when the sink stops, and any step may fail.
RowsKept ==
  [][\A r \in stored : Held(r) /\ ~Held(r)' =>
       LET with == {file \in files : r \in file.rows}
       IN  with # {} /\ \A file \in with : Expired(file)]_ingestVars
=============================================================================
