---------------------------- MODULE MCTelemetry -----------------------------
(***************************************************************************)
(* Two instances of the pipeline, and part tells which of them a behaviour *)
(* is about.  In one the records of a Rack go from end to end, through a   *)
(* sink that starts late and whose inserts and acknowledgements succeed,   *)
(* and which is done with a record before the Rack takes its next step.    *)
(* In the other there is only the Mixer's side, with two exported messages *)
(* of several kinds.                                                       *)
(***************************************************************************)
EXTENDS Telemetry

VARIABLE part

MCRows == [m \in Msgs |-> IF m <= MaxRecords THEN {m} ELSE {10 * m, 10 * m + 1}]
MCMsgType == [m \in Msgs |->
  CASE m = MaxRecords + 1 -> "span" [] m = MaxRecords + 2 -> "metric" [] m = MaxRecords + 3 -> "badBatch"
    [] m = MaxRecords + 4 -> "undecodable" [] OTHER -> "log"]
MCMalformed == {10 * (MaxRecords + 1)}
MCNoEntity == {10 * (MaxRecords + 2)}

TwoPartInit == ShipperInit /\ IngestInit /\ part \in {"pipeline", "mixer"}

SinkIdle == \A m \in Msgs : stream[m] \notin {"pending", "inflight"}

PipelineStep ==
  \/ /\ RackStep /\ SinkIdle
     /\ window' # {} \/ window = {} \/ Target \in shipped
     /\ buffer' < 2 /\ \A i \in 2..Len(wal') : wal'[i] = "ok"
  \/ PublishRaw
  \/ Consumes /\ IF work' = <<>> THEN stream'[work[1]] = "acked" ELSE work'[2] # "failed"
  \/ SinkStart /\ UNCHANGED shipperVars

MixerSideStep ==
  \/ MixerStep
  \/ /\ Cardinality({m \in Msgs : stream[m] # "none"}) < 2
     /\ \E m \in Msgs : ExportSpans(m) \/ ExportMetrics(m) \/ ExportOther(m)

TwoPartNext ==
  /\ UNCHANGED part
  /\ \/ part = "pipeline" /\ PipelineStep
     \/ part = "mixer" /\ MixerSideStep

TelemetrySpec == TwoPartInit /\ [][TwoPartNext]_<<telemetryVars, part>> /\ TelemetryFairness
=============================================================================
