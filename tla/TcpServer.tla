------------------------------- MODULE TcpServer -------------------------------
(* The server mode of io_tcp (pkg/gears/native/io_tcp/server.go): accept loop, *)
(* handlers, the buffer of messages no connection could take yet, its flush to *)
(* the next client, Drain and Stop.  Messages are numbered in the order one    *)
(* sender hands them to Process.                                               *)
EXTENDS Naturals, Sequences, FiniteSets, Functions

CONSTANTS
  Peers,            \* clients that may connect, each once
  TcpMaxConnections,
  MaxBuffered,      \* maxBufferSize
  Messages          \* 1..n

ASSUME TcpAssumption == MaxBuffered \in Nat /\ TcpMaxConnections \in Nat

VARIABLES
  tcpListening, tcpDone,
  tcpAt,        \* where the handler of each connection is
  tcpConns,     \* s.conns
  activeConns,  \* s.activeConns, as the set of handlers it counts
  tcpOpen,      \* sockets open on this side
  gone,         \* peers that have closed theirs
  msgBuffer, pending,
  written,      \* [Peers -> messages written to it, in order]
  tcpDropped,      \* messages msgsDropped counted
  refused,      \* messages Process returned an error for
  proc,         \* the call of Process: [at, m, to]
  tcpDrain, tcpStop

tcpConnVars == <<tcpAt, tcpConns, activeConns, tcpOpen, gone>>
tcpMsgVars == <<msgBuffer, pending, written, tcpDropped, refused, proc>>
tcpCallVars == <<tcpListening, tcpDone, tcpDrain, tcpStop>>
tcpVars == <<tcpConnVars, tcpMsgVars, tcpCallVars>>

Nobody == "nobody"

TcpInit ==
  /\ tcpListening = TRUE /\ tcpDone = FALSE
  /\ tcpAt = [c \in Peers |-> "off"] /\ tcpConns = {} /\ activeConns = {}
  /\ tcpOpen = {} /\ gone = {}
  /\ msgBuffer = <<>> /\ pending = [c \in Peers |-> <<>>]
  /\ written = [c \in Peers |-> <<>>] /\ tcpDropped = {} /\ refused = {}
  /\ proc = [at |-> "idle", m |-> 0, to |-> Nobody]
  /\ tcpDrain = "idle" /\ tcpStop = "idle"

TcpStep(c, a, b) == tcpAt[c] = a /\ tcpAt' = [tcpAt EXCEPT ![c] = b]

--------------------------------------------------------------------------------
TcpAccept(c) ==
  /\ tcpListening /\ TcpStep(c, "off", "accepted") /\ tcpOpen' = tcpOpen \cup {c}
  /\ ~ \E d \in Peers : tcpAt[d] = "accepted"
  /\ UNCHANGED <<tcpConns, activeConns, gone, tcpMsgVars, tcpCallVars>>

TcpCount(c) ==
  /\ IF TcpMaxConnections > 0 /\ Cardinality(activeConns) >= TcpMaxConnections
     THEN TcpStep(c, "accepted", "ended") /\ tcpOpen' = tcpOpen \ {c} /\ UNCHANGED activeConns
     ELSE TcpStep(c, "accepted", "counted") /\ activeConns' = activeConns \cup {c}
          /\ UNCHANGED tcpOpen
  /\ UNCHANGED <<tcpConns, gone, tcpMsgVars, tcpCallVars>>

TcpStore(c) ==
  /\ TcpStep(c, "counted", "take") /\ tcpConns' = tcpConns \cup {c}
  /\ UNCHANGED <<activeConns, tcpOpen, gone, tcpMsgVars, tcpCallVars>>

(* flushBuffer takes the whole buffer under the lock ...                       *)
TakeBuffer(c) ==
  /\ TcpStep(c, "take", "flush")
  /\ pending' = [pending EXCEPT ![c] = msgBuffer] /\ msgBuffer' = <<>>
  /\ UNCHANGED <<tcpConns, activeConns, tcpOpen, gone, written, tcpDropped, refused, proc,
                 tcpCallVars>>

(* A write goes through while both ends are open, may do either once the peer  *)
(* is gone, and fails on a socket closed here.                                 *)
CanWrite(c) == c \in tcpOpen
CanFail(c) == c \notin tcpOpen \/ c \in gone

(* ... and writes it message by message.                                       *)
FlushOne(c) ==
  /\ tcpAt[c] = "flush" /\ pending[c] # <<>> /\ CanWrite(c)
  /\ written' = [written EXCEPT ![c] = Append(@, Head(pending[c]))]
  /\ pending' = [pending EXCEPT ![c] = Tail(@)]
  /\ UNCHANGED <<tcpConnVars, msgBuffer, tcpDropped, refused, proc, tcpCallVars>>

Keep(q) == IF Len(q) > MaxBuffered THEN SubSeq(q, Len(q) - MaxBuffered + 1, Len(q)) ELSE q
Over(q) == IF Len(q) > MaxBuffered THEN Range(SubSeq(q, 1, Len(q) - MaxBuffered)) ELSE {}

\* Variant of requeue: the message whose write failed is taken for sent.
requeueAfter(c) ==
  LET all == Tail(pending[c]) \o msgBuffer
  IN msgBuffer' = Keep(all) /\ tcpDropped' = tcpDropped \cup Over(all)

(* requeue: what was not sent goes in front, within the cap.                   *)
requeue(c) ==
  LET all == pending[c] \o msgBuffer
  IN msgBuffer' = Keep(all) /\ tcpDropped' = tcpDropped \cup Over(all)

FlushFails(c) ==
  /\ TcpStep(c, "flush", "scan") /\ pending[c] # <<>> /\ CanFail(c)
  /\ requeue(c) /\ pending' = [pending EXCEPT ![c] = <<>>]
  /\ UNCHANGED <<tcpConns, activeConns, tcpOpen, gone, written, refused, proc, tcpCallVars>>

FlushDone(c) ==
  /\ TcpStep(c, "flush", "scan") /\ pending[c] = <<>>
  /\ UNCHANGED <<tcpConns, activeConns, tcpOpen, gone, tcpMsgVars, tcpCallVars>>

(* Scan returns false: peer gone, idle timeout, socket closed.                 *)
ScanEnds(c) ==
  /\ TcpStep(c, "scan", "closing")
  /\ UNCHANGED <<tcpConns, activeConns, tcpOpen, gone, tcpMsgVars, tcpCallVars>>

Unstore(c) ==
  /\ TcpStep(c, "closing", "closed")
  /\ tcpConns' = tcpConns \ {c} /\ tcpOpen' = tcpOpen \ {c}
  /\ UNCHANGED <<activeConns, gone, tcpMsgVars, tcpCallVars>>

Uncount(c) ==
  /\ TcpStep(c, "closed", "ended") /\ activeConns' = activeConns \ {c}
  /\ UNCHANGED <<tcpConns, tcpOpen, gone, tcpMsgVars, tcpCallVars>>

PeerCloses(c) ==
  /\ c \in tcpOpen \ gone /\ gone' = gone \cup {c}
  /\ UNCHANGED <<tcpAt, tcpConns, activeConns, tcpOpen, tcpMsgVars, tcpCallVars>>

--------------------------------------------------------------------------------
Proc(a, b, to) == proc.at = a /\ proc' = [proc EXCEPT !.at = b, !.to = to]
Returns == proc' = [proc EXCEPT !.at = "idle", !.to = Nobody]

(* Process of the next message: a message that names a connection is refused   *)
(* when it is gone; one that names none goes by the number of connections.     *)
ProcessNamed(c) ==
  /\ proc.at = "idle" /\ proc.m + 1 \in Messages
  /\ IF c \in tcpConns
     THEN proc' = [at |-> "write", m |-> proc.m + 1, to |-> c] /\ UNCHANGED refused
     ELSE /\ proc' = [at |-> "idle", m |-> proc.m + 1, to |-> Nobody]
          /\ refused' = refused \cup {proc.m + 1}
  /\ UNCHANGED <<tcpConnVars, msgBuffer, pending, written, tcpDropped, tcpCallVars>>

ProcessAny ==
  /\ proc.at = "idle" /\ proc.m + 1 \in Messages
  /\ LET n == Cardinality(activeConns) IN
       /\ proc' = [m |-> proc.m + 1, to |-> Nobody,
                   at |-> CASE n = 0 -> "buffer" [] n = 1 -> "sole" [] OTHER -> "idle"]
       /\ refused' = IF n > 1 THEN refused \cup {proc.m + 1} ELSE refused
  /\ UNCHANGED <<tcpConnVars, msgBuffer, pending, written, tcpDropped, tcpCallVars>>

soleActiveConnection ==
  /\ \/ \E c \in Peers : tcpConns = {c} /\ Proc("sole", "write", c)
     \/ Cardinality(tcpConns) # 1 /\ Proc("sole", "buffer", Nobody)
  /\ UNCHANGED <<tcpConnVars, msgBuffer, pending, written, tcpDropped, refused, tcpCallVars>>

bufferMessage ==
  /\ proc.at = "buffer" /\ Returns
  /\ LET all == Append(msgBuffer, proc.m)
     IN msgBuffer' = Keep(all) /\ tcpDropped' = tcpDropped \cup Over(all)
  /\ UNCHANGED <<tcpConnVars, pending, written, refused, tcpCallVars>>

writeTo ==
  /\ proc.at = "write" /\ Returns
  /\ \/ CanWrite(proc.to) /\ UNCHANGED refused
        /\ written' = [written EXCEPT ![proc.to] = Append(@, proc.m)]
     \/ CanFail(proc.to) /\ refused' = refused \cup {proc.m} /\ UNCHANGED written
  /\ UNCHANGED <<tcpConnVars, msgBuffer, pending, tcpDropped, tcpCallVars>>

--------------------------------------------------------------------------------
TcpDrainBegin ==
  /\ tcpDrain = "idle" /\ tcpStop = "idle"
  /\ tcpDrain' = "wait" /\ tcpListening' = FALSE
  /\ UNCHANGED <<tcpConnVars, tcpMsgVars, tcpDone, tcpStop>>

TcpDrainReturn ==
  /\ tcpDrain = "wait"
  /\ \/ activeConns = {} /\ tcpDrain' = "drained"
     \/ tcpDrain' = "late"
  /\ UNCHANGED <<tcpConnVars, tcpMsgVars, tcpListening, tcpDone, tcpStop>>

TcpStopBegin ==
  /\ tcpStop = "idle" /\ tcpDrain # "wait"
  /\ tcpStop' = "sweep" /\ tcpDone' = TRUE /\ tcpListening' = FALSE
  /\ UNCHANGED <<tcpConnVars, tcpMsgVars, tcpDrain>>

TcpStopSweep ==
  /\ tcpStop = "sweep" /\ tcpStop' = "stopped" /\ tcpOpen' = tcpOpen \ tcpConns
  /\ UNCHANGED <<tcpAt, tcpConns, activeConns, gone, tcpMsgVars, tcpListening, tcpDone,
                 tcpDrain>>

TcpHandler(c) ==
  \/ TcpCount(c) \/ TcpStore(c) \/ TakeBuffer(c) \/ FlushOne(c) \/ FlushFails(c)
  \/ FlushDone(c) \/ ScanEnds(c) \/ Unstore(c) \/ Uncount(c)

TcpProcess ==
  \/ \E c \in Peers : ProcessNamed(c)
  \/ ProcessAny \/ soleActiveConnection \/ bufferMessage \/ writeTo

TcpNext ==
  \/ \E c \in Peers : TcpAccept(c) \/ TcpHandler(c) \/ PeerCloses(c)
  \/ TcpProcess
  \/ TcpDrainBegin \/ TcpDrainReturn \/ TcpStopBegin \/ TcpStopSweep

TcpSpec == TcpInit /\ [][TcpNext]_tcpVars

--------------------------------------------------------------------------------
Occurs(m, q) == Cardinality({i \in 1..Len(q) : q[i] = m})

(* No message Process has accepted is lost or sent twice, however its call,    *)
(* the flushes of new connections and their failures interleave: it is         *)
(* buffered, in the hands of one flush, written once, refused with an error or *)
(* counted as dropped.                                                         *)
EachMessageOnce ==
  \A m \in 1..(IF proc.at = "idle" THEN proc.m ELSE proc.m - 1) :
    Occurs(m, msgBuffer) + Cardinality({c \in Peers : Occurs(m, pending[c]) = 1})
      + Cardinality({c \in Peers : Occurs(m, written[c]) = 1})
      + (IF m \in tcpDropped THEN 1 ELSE 0) + (IF m \in refused THEN 1 ELSE 0) = 1

(* Refuted.  flushBuffer: the backlog goes out "in the order it was queued",   *)
(* so the buffer holds messages in the order Process got them.                 *)
BacklogInOrder == \A i, j \in 1..Len(msgBuffer) : i < j => msgBuffer[i] < msgBuffer[j]

(* Refuted.  "Stop releases the listener and every connection."                *)
StopReleasesAll == tcpStop = "stopped" => tcpOpen = {}
================================================================================
