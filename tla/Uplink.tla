--------------------------------- MODULE Uplink ---------------------------------
(* The client modes of io_iso8583 and io_tcp, the control plane their link     *)
(* state goes over (pkg/ctrl/late.go, nats.go), and the consumer in the        *)
(* conductor that follows it: dial loop, connection handler, Stop, Bind.       *)
EXTENDS Naturals, Sequences

CONSTANTS
  MaxDials,    \* bound on the connections in a behaviour
  Buses,       \* NATS connections 1..n that may be bound, in that order
  QueueSize    \* room in a subscription's channel (100)

VARIABLES
  kind,        \* "iso", "tcp" (read_responses), "watch" (io_tcp without it)
  pc,          \* where runLoop is
  dials,
  connPtr,     \* a connection is stored
  upOpen,      \* the socket of the last connection is open
  up,          \* the transition being published is conn.up
  via,         \* the bus Publish found bound, 0 for none
  request,     \* the connection a Process has loaded, 0 for none
  upDone, upStop,
  bound,       \* cp.nc, 0 for nil
  wire,        \* commands in flight on each bus
  inbox,       \* s.out of the conductor's subscription
  consuming,   \* the conductor has started its consumer
  sensed       \* linkStates[port]

clientVars == <<kind, pc, dials, connPtr, upOpen, up, via, request, upDone, upStop>>
controlVars == <<bound, wire, inbox, consuming, sensed>>
uplinkVars == <<clientVars, controlVars>>

UplinkTypeOK ==
  /\ kind \in {"iso", "tcp", "watch"}
  /\ pc \in {"top", "dialing", "dialled", "stored", "publish", "loop", "reading",
             "emit", "closing", "closed", "wait", "ended"}
  /\ dials \in 0..MaxDials
  /\ {connPtr, upOpen, up, upDone, consuming, sensed} \subseteq BOOLEAN
  /\ upStop \in {"idle", "load", "wait", "stopped", "late"}
  /\ request \in 0..MaxDials
  /\ bound \in Buses \cup {0} /\ via \in Buses \cup {0}
  /\ wire \in [Buses -> Seq(BOOLEAN)] /\ inbox \in Seq(BOOLEAN)

(* The conductor subscribed in its Init (state down until the socket reports   *)
(* up), and the client's Start has spawned runLoop.                            *)
UplinkInit ==
  /\ kind \in {"iso", "tcp", "watch"} /\ pc = "top" /\ dials = 0
  /\ connPtr = FALSE /\ upOpen = FALSE /\ up = FALSE /\ via = 0 /\ request = 0
  /\ upDone = FALSE /\ upStop = "idle"
  /\ bound = 0 /\ wire = [b \in Buses |-> <<>>] /\ inbox = <<>>
  /\ consuming = FALSE /\ sensed = FALSE

UpAt(a, b) == pc = a /\ pc' = b

--------------------------------------------------------------------------------
DialLoop ==
  /\ UpAt("top", IF upDone THEN "ended" ELSE "dialing")
  /\ UNCHANGED <<kind, dials, connPtr, upOpen, up, via, request, upDone, upStop, controlVars>>

DialOk ==
  /\ UpAt("dialing", "dialled") /\ dials < MaxDials
  /\ dials' = dials + 1 /\ upOpen' = TRUE
  /\ UNCHANGED <<kind, connPtr, up, via, request, upDone, upStop, controlVars>>

DialFails ==
  /\ UpAt("dialing", "wait")
  /\ UNCHANGED <<kind, dials, connPtr, upOpen, up, via, request, upDone, upStop, controlVars>>

(* After a failed dial, or a connection: reconnect_wait, or the stop.          *)
ReconnectWait ==
  /\ UpAt("wait", IF upDone THEN "ended" ELSE "top")
  /\ UNCHANGED <<kind, dials, connPtr, upOpen, up, via, request, upDone, upStop, controlVars>>

(* handleConn stores the connection, then calls linkState(true).               *)
StoreConn ==
  /\ UpAt("dialled", "stored") /\ connPtr' = TRUE
  /\ UNCHANGED <<kind, dials, upOpen, up, via, request, upDone, upStop, controlVars>>

(* Publish reads the bound connection under the lock ...                       *)
PublishLookup ==
  /\ \/ UpAt("stored", "publish") /\ up' = TRUE
     \/ UpAt("closed", "publish") /\ up' = FALSE
  /\ via' = bound
  /\ UNCHANGED <<kind, dials, connPtr, upOpen, request, upDone, upStop, controlVars>>

Offer(q, x) == IF Len(q) < QueueSize THEN Append(q, x) ELSE q

(* ... and sends without it: into the local channel, or on that connection.    *)
PublishSend ==
  /\ UpAt("publish", IF up THEN "loop" ELSE "wait")
  /\ IF via = 0 THEN inbox' = Offer(inbox, up) /\ UNCHANGED wire
     ELSE wire' = [wire EXCEPT ![via] = Append(@, up)] /\ UNCHANGED inbox
  /\ UNCHANGED <<kind, dials, connPtr, upOpen, up, via, request, upDone, upStop, bound, consuming, sensed>>

\* Variant of ConnLoop: no look at done between two frames.
ConnLoopBlind ==
  /\ UpAt("loop", "reading")
  /\ UNCHANGED <<kind, dials, connPtr, upOpen, up, via, request, upDone, upStop, controlVars>>

(* The read loop: io_iso8583 looks at done before each frame, io_tcp does not. *)
ConnLoop ==
  /\ UpAt("loop", IF kind = "iso" /\ upDone THEN "closing" ELSE "reading")
  /\ UNCHANGED <<kind, dials, connPtr, upOpen, up, via, request, upDone, upStop, controlVars>>

(* A frame; one the inspection rejects is skipped by the loop.                 *)
FrameIn ==
  /\ kind # "watch" /\ upOpen
  /\ UpAt("reading", "emit") \/ UpAt("reading", "loop")
  /\ UNCHANGED <<kind, dials, connPtr, upOpen, up, via, request, upDone, upStop, controlVars>>

ResponseEmitted ==
  /\ UpAt("emit", "loop")
  /\ UNCHANGED <<kind, dials, connPtr, upOpen, up, via, request, upDone, upStop, controlVars>>

(* The peer closes, the idle timeout passes, or the socket was closed here.    *)
ReadEnds ==
  /\ UpAt("reading", "closing")
  /\ UNCHANGED <<kind, dials, connPtr, upOpen, up, via, request, upDone, upStop, controlVars>>

(* watchForClose: the stop, as well as the end of the connection, ends it.     *)
WatchForClose ==
  /\ kind = "watch" /\ upDone /\ UpAt("reading", "closing")
  /\ UNCHANGED <<kind, dials, connPtr, upOpen, up, via, request, upDone, upStop, controlVars>>

CloseUplink ==
  /\ UpAt("closing", "closed") /\ connPtr' = FALSE /\ upOpen' = FALSE
  /\ UNCHANGED <<kind, dials, up, via, request, upDone, upStop, controlVars>>

(* Process: the connection stored now, and a write that fails when it has been *)
(* closed or replaced since.  Nothing stored is an error.                      *)
ProcessRequest ==
  /\ request = 0 /\ connPtr /\ request' = dials
  /\ UNCHANGED <<kind, pc, dials, connPtr, upOpen, up, via, upDone, upStop, controlVars>>

WriteRequest ==
  /\ request # 0 /\ request' = 0
  /\ UNCHANGED <<kind, pc, dials, connPtr, upOpen, up, via, upDone, upStop, controlVars>>

(* Disconnect, on conn.close: io_iso8583 only.                                 *)
DisconnectUplink ==
  /\ kind = "iso" /\ connPtr /\ upOpen /\ upOpen' = FALSE
  /\ UNCHANGED <<kind, pc, dials, connPtr, up, via, request, upDone, upStop, controlVars>>

--------------------------------------------------------------------------------
StopUplink ==
  /\ upStop = "idle" /\ upDone' = TRUE /\ upStop' = "load"
  /\ UNCHANGED <<kind, pc, dials, connPtr, upOpen, up, via, request, controlVars>>

(* Stop loads connPtr: nothing stored, nothing to close and nothing to wait    *)
(* for; io_tcp never waits.                                                    *)
StopUplinkLoad ==
  /\ upStop = "load"
  /\ upStop' = IF connPtr /\ kind = "iso" THEN "wait" ELSE "stopped"
  /\ upOpen' = (upOpen /\ ~connPtr)
  /\ UNCHANGED <<kind, pc, dials, connPtr, up, via, request, upDone, controlVars>>

StopUplinkWait ==
  /\ upStop = "wait"
  /\ \/ pc = "ended" /\ upStop' = "stopped"
     \/ upStop' = "late"
  /\ UNCHANGED <<kind, pc, dials, connPtr, upOpen, up, via, request, upDone, controlVars>>

--------------------------------------------------------------------------------
(* Bind: the subscriptions move to the new connection; what was still in       *)
(* flight on the one before is not delivered any more.                         *)
Bind(b) ==
  /\ b = bound + 1 /\ bound' = b
  /\ wire' = [c \in Buses |-> IF c = b THEN wire[c] ELSE <<>>]
  /\ UNCHANGED <<clientVars, inbox, consuming, sensed>>

\* Variant of Deliver: a subscription made before the bind has no attachment.
DeliverAttached ==
  /\ bound > 1 /\ wire[bound] # <<>>
  /\ inbox' = Offer(inbox, Head(wire[bound]))
  /\ wire' = [wire EXCEPT ![bound] = Tail(@)]
  /\ UNCHANGED <<clientVars, bound, consuming, sensed>>

(* subscribeInto's callback: a full channel drops the command.                 *)
Deliver ==
  /\ bound # 0 /\ wire[bound] # <<>>
  /\ inbox' = Offer(inbox, Head(wire[bound]))
  /\ wire' = [wire EXCEPT ![bound] = Tail(@)]
  /\ UNCHANGED <<clientVars, bound, consuming, sensed>>

(* The conductor's Start, after which it consumes what was kept since Init.    *)
StartConductor ==
  /\ ~consuming /\ consuming' = TRUE
  /\ UNCHANGED <<clientVars, bound, wire, inbox, sensed>>

Sense ==
  /\ consuming /\ inbox # <<>>
  /\ sensed' = Head(inbox) /\ inbox' = Tail(inbox)
  /\ UNCHANGED <<clientVars, bound, wire, consuming>>

runLoop ==
  \/ DialLoop \/ DialOk \/ DialFails \/ ReconnectWait \/ StoreConn \/ PublishLookup
  \/ PublishSend \/ ConnLoop \/ FrameIn \/ ResponseEmitted \/ WatchForClose \/ CloseUplink

UplinkNext ==
  \/ runLoop \/ ReadEnds \/ ProcessRequest \/ WriteRequest \/ DisconnectUplink
  \/ StopUplink \/ StopUplinkLoad \/ StopUplinkWait
  \/ \E b \in Buses : Bind(b)
  \/ Deliver \/ StartConductor \/ Sense

(* The client's goroutine goes on (a peer may send for ever, so a read need    *)
(* not end while the socket is open); callbacks and the consumer run.          *)
UplinkFairness ==
  /\ WF_uplinkVars(runLoop)
  /\ WF_uplinkVars(ReadEnds /\ ~upOpen)
  /\ WF_uplinkVars(StopUplinkLoad) /\ WF_uplinkVars(Deliver)
  /\ WF_uplinkVars(StartConductor) /\ WF_uplinkVars(Sense)

UplinkSpec == UplinkInit /\ [][UplinkNext]_uplinkVars /\ UplinkFairness

--------------------------------------------------------------------------------
(* A Stop of the ISO client that returned nil is final: nothing is emitted     *)
(* after it, also when a dial it could not see completes later.                *)
StopIsFinal == kind = "iso" /\ upStop = "stopped" => pc # "emit"

(* The conductor's view of a port ends up being the state of the link, however *)
(* the transitions, the conductor's start and the arrival of the bus interleave*)
(* ("so no transition can be missed").                                         *)
LinkSensed == <>[](sensed = connPtr)

(* A stopped ISO client ends its goroutine, even when Stop found nothing       *)
(* connected because the dial was still under way.                             *)
ClientEnds == upDone /\ kind = "iso" ~> pc = "ended"

(* Refuted.  io_tcp: "Stop closes the connection."  A dial in progress, or a   *)
(* connection not stored yet, survives it.                                     *)
StopCloses == kind = "tcp" /\ upStop = "stopped" => ~upOpen
================================================================================
