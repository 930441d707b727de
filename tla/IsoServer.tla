------------------------------- MODULE IsoServer -------------------------------
(* The server mode of the io_iso8583 gear (pkg/gears/native/iso8583/io): the  *)
(* accept loop, one handler per connection, replies, Disconnect, Drain and    *)
(* Stop, and the publisher of connection events (pkg/events/publisher.go).    *)
(* Frames and metadata are in Frames; a handler's frame is valid or not.      *)
EXTENDS Naturals, Sequences, FiniteSets, SequencesExt

CONSTANTS
  Conns,              \* peers that may connect, each once
  PeerIP,             \* [Conns -> address]
  MaxConnections,     \* config.MaxConnections, 0 for none
  Strict,             \* config.StrictConnectionRouting
  OnMissing,          \* config.OnMissingConnection
  EventQueueSize,     \* config.EventQueueSize
  MaxIsoReplies          \* bound on the replies in a behaviour

VARIABLES
  listening,   \* the listener is open
  done,        \* s.done is closed
  isoDraining,    \* s.draining
  h,           \* where the handler of each connection is
  socket,      \* connections whose socket is open
  conns,       \* s.conns, in the order of Connection.since
  past,        \* connections whose read deadline a Drain has set in the past
  byCommand,   \* Connection.byCommand
  active,      \* s.activeConns, as the set of handlers it counts
  readers,     \* s.readers, likewise
  drainPc, stopPc,
  isoQueue,       \* p.queue
  isoSent,        \* events PublishEvent was called with
  publishing,  \* the publisher: "runs", "stops" (p.stop closed), "ended"
  replied      \* <<connection of the request, connection written to>>

serverVars == <<listening, done, isoDraining, h, socket, conns, past, byCommand,
                active, readers, drainPc, stopPc>>
eventVars == <<isoQueue, isoSent, publishing>>
isoVars == <<serverVars, eventVars, replied>>

HandlerAt == {"off", "accepted", "counted", "top", "check", "reading", "emit",
              "parked", "closing", "ended"}

IsoTypeOK ==
  /\ listening \in BOOLEAN /\ done \in BOOLEAN /\ isoDraining \in BOOLEAN
  /\ h \in [Conns -> HandlerAt]
  /\ socket \in SUBSET Conns /\ ToSet(conns) \in SUBSET Conns
  /\ past \in SUBSET Conns /\ byCommand \in SUBSET Conns
  /\ active \in SUBSET Conns /\ readers \in SUBSET active
  /\ drainPc \in {"idle", "sweep", "wait", "drained", "late"}
  /\ stopPc \in {"idle", "sweep", "wait", "events", "stopped", "late"}
  /\ isoQueue \in Seq(Conns \X {"opened", "closed"}) /\ Len(isoQueue) <= EventQueueSize
  /\ publishing \in {"runs", "stops", "ended"}

(* Gear.Start in server mode: connEventSink, NewServer, Server.Start.         *)
IsoInit ==
  /\ listening = TRUE /\ done = FALSE /\ isoDraining = FALSE
  /\ h = [c \in Conns |-> "off"]
  /\ socket = {} /\ conns = <<>> /\ past = {} /\ byCommand = {}
  /\ active = {} /\ readers = {}
  /\ drainPc = "idle" /\ stopPc = "idle"
  /\ isoQueue = <<>> /\ isoSent = <<>> /\ publishing = "runs"
  /\ replied = {}

Go(c, l) == h' = [h EXCEPT ![c] = l]

(* Publisher.Publish, through notifyConn: a full queue drops the event.       *)
notifyConn(c, event) ==
  isoQueue' = IF Len(isoQueue) < EventQueueSize THEN Append(isoQueue, <<c, event>>) ELSE isoQueue

--------------------------------------------------------------------------------
(* acceptLoop: Accept returns, and only then is the connection counted.       *)
IsoAccept(c) ==
  /\ listening /\ ~done /\ h[c] = "off"
  /\ ~ \E d \in Conns : h[d] = "accepted"
  /\ Go(c, "accepted") /\ socket' = socket \cup {c}
  /\ UNCHANGED <<listening, done, isoDraining, conns, past, byCommand, active, readers,
                 drainPc, stopPc, eventVars, replied>>

Count(c) ==
  /\ h[c] = "accepted"
  /\ IF MaxConnections > 0 /\ Cardinality(active) >= MaxConnections
     THEN Go(c, "ended") /\ socket' = socket \ {c} /\ UNCHANGED <<active, readers>>
     ELSE /\ Go(c, "counted") /\ UNCHANGED socket
          /\ active' = active \cup {c} /\ readers' = readers \cup {c}
  /\ UNCHANGED <<listening, done, isoDraining, conns, past, byCommand, drainPc, stopPc,
                 eventVars, replied>>

(* handleConn up to its loop: the connection enters the table and the opened  *)
(* event the queue.                                                           *)
HandleConn(c) ==
  /\ h[c] = "counted" /\ Go(c, "top")
  /\ conns' = Append(conns, c)
  /\ notifyConn(c, "opened")
  /\ UNCHANGED <<listening, done, isoDraining, socket, past, byCommand, active, readers,
                 drainPc, stopPc, isoSent, publishing, replied>>

(* A drained connection leaves the readers and waits for done.                *)
stopReading(c) == Go(c, "parked") /\ readers' = readers \ {c}

\* Variant of LoopTop: the loop does not look at the drain.
LoopTopBusy(c) ==
  /\ h[c] = "top" /\ Go(c, IF done THEN "closing" ELSE "check") /\ UNCHANGED readers
  /\ UNCHANGED <<listening, done, isoDraining, socket, conns, past, byCommand, active,
                 drainPc, stopPc, eventVars, replied>>

(* The top of the loop: stopped, or draining.                                 *)
LoopTop(c) ==
  /\ h[c] = "top"
  /\ IF ~done /\ isoDraining THEN stopReading(c)
     ELSE Go(c, IF done THEN "closing" ELSE "check") /\ UNCHANGED readers
  /\ UNCHANGED <<listening, done, isoDraining, socket, conns, past, byCommand, active,
                 drainPc, stopPc, eventVars, replied>>

(* The idle deadline replaces whatever deadline the socket had.               *)
SetIdleDeadline(c) ==
  /\ h[c] = "check"
  /\ past' = past \ {c}
  /\ Go(c, IF c \in socket THEN "reading" ELSE "closing")
  /\ UNCHANGED <<listening, done, isoDraining, socket, conns, byCommand, active, readers,
                 drainPc, stopPc, eventVars, replied>>

(* readFrame returns a frame the inspection accepts; the handler emits it.    *)
FrameRead(c) ==
  /\ h[c] = "reading" /\ c \in socket \ past
  /\ Go(c, "emit")
  /\ UNCHANGED <<listening, done, isoDraining, socket, conns, past, byCommand, active, readers,
                 drainPc, stopPc, eventVars, replied>>

(* It fails: past deadline, idle timeout, peer gone, socket closed.           *)
ReadFails(c) ==
  /\ h[c] = "reading"
  /\ IF isoDraining THEN stopReading(c) ELSE Go(c, "closing") /\ UNCHANGED readers
  /\ UNCHANGED <<listening, done, isoDraining, socket, conns, past, byCommand, active,
                 drainPc, stopPc, eventVars, replied>>

(* A frame that fails the heuristic inspection ends the connection.           *)
InvalidFrame(c) ==
  /\ h[c] = "reading" /\ c \in socket \ past
  /\ Go(c, "closing")
  /\ UNCHANGED <<listening, done, isoDraining, socket, conns, past, byCommand, active, readers,
                 drainPc, stopPc, eventVars, replied>>

Emitted(c) ==
  /\ h[c] = "emit" /\ Go(c, "top")
  /\ UNCHANGED <<listening, done, isoDraining, socket, conns, past, byCommand, active, readers,
                 drainPc, stopPc, eventVars, replied>>

Unpark(c) ==
  /\ h[c] = "parked" /\ done /\ Go(c, "closing")
  /\ UNCHANGED <<listening, done, isoDraining, socket, conns, past, byCommand, active, readers,
                 drainPc, stopPc, eventVars, replied>>

(* The deferred calls of handleConn, the last of which leaves the count.      *)
CloseConn(c) ==
  /\ h[c] = "closing" /\ Go(c, "ended")
  /\ conns' = SelectSeq(conns, LAMBDA x : x # c)
  /\ socket' = socket \ {c}
  /\ notifyConn(c, "closed")
  /\ readers' = readers \ {c} /\ active' = active \ {c}
  /\ UNCHANGED <<listening, done, isoDraining, past, byCommand, drainPc, stopPc,
                 isoSent, publishing, replied>>

--------------------------------------------------------------------------------
(* replacementConnection: the newest connection the policy accepts.           *)
replacementConnection(lost) ==
  LET ok == SelectSeq(conns, LAMBDA x :
              x # lost /\ CASE OnMissing = "same_remote_ip" -> PeerIP[x] = PeerIP[lost]
                            [] OnMissing = "same_listener" -> TRUE
                            [] OTHER -> FALSE)
  IN IF ok = <<>> THEN {} ELSE {ok[Len(ok)]}

\* Variant of ReplyTargets: the lost connection is not told from one that moved.
ReplyTargetsAny(c) == ToSet(conns)

(* The connections Process may write the reply to a request of c to.          *)
ReplyTargets(c) ==
  IF c \in ToSet(conns) THEN {c}
  ELSE IF ~Strict THEN ToSet(conns) ELSE replacementConnection(c)

(* Process: the write succeeds on an open socket, and fails on a closed one.  *)
Reply(c) ==
  /\ h[c] \notin {"off", "accepted", "counted"} /\ Cardinality(replied) < MaxIsoReplies
  /\ \E d \in ReplyTargets(c) \cap socket : replied' = replied \cup {<<c, d>>}
  /\ UNCHANGED <<serverVars, eventVars>>

(* Disconnect, on the conn.close command of the control plane.                *)
Disconnect(c) ==
  /\ c \in ToSet(conns) /\ c \in socket
  /\ byCommand' = byCommand \cup {c} /\ socket' = socket \ {c}
  /\ UNCHANGED <<listening, done, isoDraining, h, conns, past, active, readers,
                 drainPc, stopPc, eventVars, replied>>

(* Drain: the flag and the listener, then every connection in the table.      *)
DrainBegin ==
  /\ drainPc = "idle" /\ stopPc = "idle"
  /\ isoDraining' = TRUE /\ listening' = FALSE /\ drainPc' = "sweep"
  /\ UNCHANGED <<done, h, socket, conns, past, byCommand, active, readers, stopPc,
                 eventVars, replied>>

DrainSweep ==
  /\ drainPc = "sweep" /\ drainPc' = "wait"
  /\ past' = past \cup ToSet(conns)
  /\ UNCHANGED <<listening, done, isoDraining, h, socket, conns, byCommand, active, readers,
                 stopPc, eventVars, replied>>

\* Variant of DrainReturn: it waits for the handlers in the table that read.
DrainReturnTable ==
  /\ drainPc = "wait"
  /\ \/ {c \in ToSet(conns) : h[c] = "reading"} = {} /\ drainPc' = "drained"
     \/ drainPc' = "late"
  /\ UNCHANGED <<listening, done, isoDraining, h, socket, conns, past, byCommand, active,
                 readers, stopPc, eventVars, replied>>

(* It returns nil when nobody reads, an error at the deadline of its context. *)
DrainReturn ==
  /\ drainPc = "wait"
  /\ \/ readers = {} /\ drainPc' = "drained"
     \/ drainPc' = "late"
  /\ UNCHANGED <<listening, done, isoDraining, h, socket, conns, past, byCommand, active,
                 readers, stopPc, eventVars, replied>>

(* Stop: done and the listener, the sockets in the table, the wait.           *)
StopBegin ==
  /\ stopPc = "idle" /\ drainPc \in {"idle", "drained", "late"}
  /\ done' = TRUE /\ listening' = FALSE /\ stopPc' = "sweep"
  /\ UNCHANGED <<isoDraining, h, socket, conns, past, byCommand, active, readers, drainPc,
                 eventVars, replied>>

StopSweep ==
  /\ stopPc = "sweep" /\ stopPc' = "wait"
  /\ socket' = socket \ ToSet(conns)
  /\ UNCHANGED <<listening, done, isoDraining, h, conns, past, byCommand, active, readers,
                 drainPc, eventVars, replied>>

(* waitConnections ends, in time or not; Gear.Stop then closes the publisher. *)
StopWait ==
  /\ stopPc = "wait" /\ stopPc' = "events" /\ publishing' = "stops"
  /\ UNCHANGED <<listening, done, isoDraining, h, socket, conns, past, byCommand, active,
                 readers, drainPc, isoQueue, isoSent, replied>>

(* Publisher.Close returns when the run loop has ended, or at stop_timeout.   *)
StopReturn ==
  /\ stopPc = "events"
  /\ stopPc' = IF publishing = "ended" THEN "stopped" ELSE "late"
  /\ UNCHANGED <<listening, done, isoDraining, h, socket, conns, past, byCommand, active,
                 readers, drainPc, eventVars, replied>>

--------------------------------------------------------------------------------
(* The publisher's goroutine: one event at a time, in order.                  *)
Send ==
  /\ publishing # "ended" /\ isoQueue # <<>>
  /\ isoSent' = Append(isoSent, Head(isoQueue)) /\ isoQueue' = Tail(isoQueue)
  /\ UNCHANGED <<serverVars, publishing, replied>>

PublisherEnds ==
  /\ publishing = "stops" /\ isoQueue = <<>> /\ publishing' = "ended"
  /\ UNCHANGED <<serverVars, isoQueue, isoSent, replied>>

Handler(c) ==
  \/ Count(c) \/ HandleConn(c) \/ LoopTop(c) \/ SetIdleDeadline(c)
  \/ Emitted(c) \/ Unpark(c) \/ CloseConn(c)

IsoNext ==
  \/ \E c \in Conns : \/ IsoAccept(c) \/ Handler(c) \/ FrameRead(c) \/ ReadFails(c)
                      \/ InvalidFrame(c) \/ Reply(c) \/ Disconnect(c)
  \/ DrainBegin \/ DrainSweep \/ DrainReturn
  \/ StopBegin \/ StopSweep \/ StopWait \/ StopReturn
  \/ Send \/ PublisherEnds

(* Goroutines go on; a read ends at the latest at the idle deadline; a peer   *)
(* may send frames for ever.                                                  *)
IsoFairness ==
  /\ \A c \in Conns : /\ WF_isoVars(Handler(c))
                      /\ WF_isoVars(FrameRead(c) \/ ReadFails(c))
  /\ WF_isoVars(DrainSweep) /\ WF_isoVars(StopSweep)
  /\ WF_isoVars(StopWait)

IsoSpec == IsoInit /\ [][IsoNext]_isoVars /\ IsoFairness

--------------------------------------------------------------------------------
(* A Drain that returned nil is final: no frame read afterwards is emitted,   *)
(* whatever was accepted or in progress when it began; and the connections it *)
(* stopped stay open for replies until Stop or a command closes them.         *)
DrainIsFinal ==
  /\ drainPc = "drained" => \A c \in Conns : h[c] # "emit"
  /\ \A c \in Conns : h[c] = "parked" /\ ~done => c \in ToSet(conns) /\ c \in socket \cup byCommand

(* A reply to a request is written to the connection it came from, or, once   *)
(* that is gone, to one the policy allows.                                    *)
ReplyAllowed ==
  [][\A p \in replied' \ replied :
       \/ p[1] = p[2]
       \/ /\ p[1] \notin ToSet(conns)
          /\ \/ ~Strict
             \/ OnMissing = "same_listener"
             \/ OnMissing = "same_remote_ip" /\ PeerIP[p[1]] = PeerIP[p[2]]]_isoVars

(* What is read, emitted and answered stays within what Drain, Stop and the   *)
(* reply policy allow.                                                        *)
IsoServes == [](IsoTypeOK /\ DrainIsFinal) /\ ReplyAllowed

(* Once a Drain has begun, every connection stops reading, even one whose     *)
(* past deadline its own handler replaced and whose peer never pauses.        *)
DrainStopsReaders == isoDraining ~> \A c \in Conns : h[c] \notin {"reading", "emit"}

(* Refuted.  waitConnections: "zero means every handler is done", so a Stop   *)
(* that returned in time leaves no handler behind.                            *)
StopLeavesNoHandler ==
  stopPc = "stopped" /\ active = {} => \A c \in Conns : h[c] \in {"off", "ended"}
================================================================================
