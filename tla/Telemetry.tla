----------------------------- MODULE Telemetry ------------------------------
(***************************************************************************)
(* A Rack's LogShipper and the Mixer's Ingest on one stream.  Messages     *)
(* 1..MaxRecords are the records of the WAL; the others are published by   *)
(* the exporters of spans, metrics and log batches, which do not retry.    *)
(***************************************************************************)
EXTENDS LogShipper, Ingest

telemetryVars == <<shipperVars, ingestVars>>

ASSUME RecordsAreMessages == 1..MaxRecords \subseteq Msgs

\* A message published by another one than the shipper, which may as well
\* never arrive: the publish has a deadline and is not repeated.
Export(m, kinds) ==
  /\ m \notin 1..MaxRecords /\ MsgType[m] \in kinds /\ stream[m] = "none"
  /\ Arrive(m) /\ UNCHANGED shipperVars

\* A batch of spans is one message, a metric is one message per data point, and
\* anything else on the subjects of telemetry comes from elsewhere.
ExportSpans(m) == Export(m, {"span"})
ExportMetrics(m) == Export(m, {"metric"})
ExportOther(m) == Export(m, {"badBatch", "unknown", "undecodable", "invalid"})

\* The stream stores a record, and it reaches the sink's consumer unless the
\* server knows its message ID already.
PublishRaw ==
  /\ PublishStored
  /\ IF Target \in window THEN UNCHANGED ingestVars ELSE Arrive(Target)

RackStep ==
  /\ \/ LogBuffered \/ LogDefault \/ TelemetryInit \/ TelemetryStop \/ ShipperCrash
     \/ SaveCursor \/ ShipRead \/ PublishAcked \/ PublishFailed \/ WindowPasses
  /\ UNCHANGED ingestVars

MixerStep == IngestNext /\ UNCHANGED shipperVars

PipelineInit == ShipperInit /\ IngestInit

\* The whole pipeline: every step of the Rack's end, of the exporters and of
\* the Mixer's end.
PipelineNext ==
  \/ RackStep \/ PublishRaw \/ MixerStep
  \/ \E m \in Msgs : ExportSpans(m) \/ ExportMetrics(m) \/ ExportOther(m)

PipelineSpec == PipelineInit /\ [][PipelineNext]_telemetryVars

Consumes == (Settle \/ Handle \/ \E m \in Msgs : Deliver(m)) /\ UNCHANGED shipperVars

\* The loop of the shipper and the consumer of the sink run; the bus takes a
\* publish that is tried again and again; telemetry is started again after a
\* stop or a crash.
TelemetryFairness ==
  /\ WF_telemetryVars(TelemetryInit /\ UNCHANGED ingestVars)
  /\ WF_telemetryVars(ShipRead /\ UNCHANGED ingestVars)
  /\ SF_telemetryVars(PublishRaw)
  /\ SF_telemetryVars(PublishAcked /\ UNCHANGED ingestVars)
  /\ WF_telemetryVars(Consumes)

\* No record of a log is given up between the Rack's WAL and the Mixer's
\* database, at either end, before the next one holds it.
HandedOver == CursorNeverAhead /\ SettledIsStored

\* Record i is in the store or in the dead letter queue, or the sink was away
\* when it was published.
Arrived(i) ==
  \/ Insertable(i) \subseteq stored \/ i \in dlq
  \/ stream[i] \in {"unread", "termed"} \/ (i <= Len(wal) /\ wal[i] = "corrupt")

\* Every record of the WAL reaches the Mixer's store, the dead letter queue or a
\* stream that nobody reads, unless telemetry is down for good or a crash has
\* left the saved cursor behind the truncated WAL.
LogsArrive ==
  \A i \in 1..MaxRecords :
    i <= Len(wal) ~> Arrived(i) \/ Stalled \/ (shipper = "down" /\ inits = MaxInits)

\* What the cleanup of telemetry.Init says of the records in the WAL ("Logs in WAL
\* are safe."): the shipper goes on from every restart.
WALIsSafe == \A i \in 1..MaxRecords :
    i <= Len(wal) ~> i \in shipped \/ (i <= Len(wal) /\ wal[i] = "corrupt") \/ (shipper = "down" /\ inits = MaxInits)
=============================================================================
