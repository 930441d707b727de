-------------------------------- MODULE Bridge --------------------------------
(* Pure parts of the bento gear and of the durable events: what Init makes of  *)
(* the gear's ports, the message on its way into and out of a stream, and the  *)
(* name of an event consumer.                                                  *)
EXTENDS Integers, Sequences

--------------------------------------------------------------------------------
(* Gear.Init.  A configuration has input ports, output ports, event sources,   *)
(* and what the user wrote for input, output and buffer ("": nothing).         *)
Refused == [ok |-> FALSE]

eventInputConfig(c) == IF c.events + (IF c.inputs > 0 THEN 1 ELSE 0) = 1 THEN "event" ELSE "broker"

WiredInput(c) ==
  IF c.events > 0 THEN eventInputConfig(c)
  ELSE IF c.inputs > 0 /\ c.input = "" THEN "port" ELSE c.input

WiredOutput(c) == IF c.outputs = 1 /\ c.output = "" THEN "port" ELSE c.output

\* Variant of BringsOwnInput: only what the user wrote counts, and the events
\* input of the gear does not.
BringsOwnInputUser(c) == c.input # ""

(* Read after the input was wired.                                             *)
BringsOwnInput(c) == WiredInput(c) # ""

WiredBuffer(c) == IF c.buffer = "" /\ ~BringsOwnInput(c) THEN "memory" ELSE c.buffer

BentoWiring(c) ==
  IF c.events > 0 /\ c.input # "" THEN Refused
  ELSE IF c.outputs > 1 /\ c.output = "" THEN Refused
  ELSE [ok |-> TRUE, input |-> WiredInput(c), output |-> WiredOutput(c), buffer |-> WiredBuffer(c)]

--------------------------------------------------------------------------------
(* A message has Data (structured, "": empty), RawPayload ("": empty, "json"   *)
(* for bytes that decode to an object), metadata, its identity and its path.   *)
RawKey == "__flux_raw_payload"
Identity(k) == k \in {"flux_id", "trace_id", "ref_flux_id", "flux_path"}

ToBentoMessage(m) ==
  [body |-> IF m.data # "" THEN [structured |-> TRUE, v |-> m.data] ELSE [structured |-> FALSE, v |-> m.raw],
   meta |-> [k \in DOMAIN m.meta \cup {"flux_id", "trace_id"}
                  \cup (IF m.ref # "" THEN {"ref_flux_id"} ELSE {})
                  \cup (IF m.path # "" THEN {"flux_path"} ELSE {})
                  \cup (IF m.data # "" /\ m.raw # "" THEN {RawKey} ELSE {}) |->
               CASE k = "flux_id" -> m.id
                 [] k = "trace_id" -> m.trace
                 [] k = "ref_flux_id" /\ m.ref # "" -> m.ref
                 [] k = "flux_path" /\ m.path # "" -> m.path
                 [] k \in DOMAIN m.meta -> m.meta[k]
                 [] OTHER -> m.raw]]

(* AsStructured: the structured body, or bytes that decode.                    *)
AsStructured(b) == IF b.body.structured THEN b.body.v ELSE IF b.body.v = "json" THEN "decoded" ELSE ""
AsBytes(b) == IF b.body.structured THEN "encoded" ELSE b.body.v

MetaGet(b, k) == IF k \in DOMAIN b.meta THEN b.meta[k] ELSE ""

\* Variant of RecoveredRaw: the carrier in the metadata is not read.
RecoveredRawNever(b) == IF AsStructured(b) # "" THEN "" ELSE AsBytes(b)

RecoveredRaw(b) == IF AsStructured(b) # "" THEN MetaGet(b, RawKey) ELSE AsBytes(b)

FromBentoMessage(b) ==
  [data |-> AsStructured(b), raw |-> RecoveredRaw(b),
   id |-> MetaGet(b, "flux_id"), trace |-> MetaGet(b, "trace_id"),
   ref |-> MetaGet(b, "ref_flux_id"), path |-> MetaGet(b, "flux_path"),
   meta |-> [k \in {k \in DOMAIN b.meta : ~Identity(k) /\ k # RawKey} |-> b.meta[k]]]

--------------------------------------------------------------------------------
(* DurableName: the parts joined with "_", which a part may hold itself.  A    *)
(* part is the sequence of what stands between its separators.                 *)
DurableName(rack, reader, source) == rack \o reader \o source

--------------------------------------------------------------------------------
(* An event is never acknowledged by a buffer before the pipeline has ended.   *)
EventsUnbuffered(c) ==
  BentoWiring(c).ok /\ c.events > 0 /\ c.buffer = "" => BentoWiring(c).buffer = ""

(* A message with fields crosses a stream that does not touch it unchanged,    *)
(* its wire bytes included.                                                    *)
FieldsCross(m) == m.data # "" => FromBentoMessage(ToBentoMessage(m)) = m

(* Refuted.  "The injection now happens only when the gear supplies the input  *)
(* itself": a gear fed by its input port has the buffer.                       *)
BufferInjected(c) ==
  BentoWiring(c).ok /\ BentoWiring(c).input = "port" /\ c.buffer = "" => BentoWiring(c).buffer = "memory"

(* Refuted.  "RawPayload ... now travels across the bridge": bytes that decode *)
(* to an object come out as fields only.                                       *)
BytesCross(m) == m.raw # "" => FromBentoMessage(ToBentoMessage(m)).raw = m.raw

(* Refuted.  "Each reader on each Rack has its own": two readers never share a *)
(* consumer.                                                                   *)
OwnConsumer(a, b) == DurableName(a[1], a[2], a[3]) = DurableName(b[1], b[2], b[3]) => a = b
================================================================================
