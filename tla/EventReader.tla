------------------------------ MODULE EventReader ------------------------------
(* Durable connection events and the bento gear that reads them: the stream of *)
(* events with the reader's durable consumer (external), events.Reader, and    *)
(* the gear's input and output, which settle an event when the pipeline ends.  *)
(*                                                                             *)
(* Time is counted in periods; MaxEventAge of them make an event too old, and  *)
(* are the consumer's ack wait too.  An event has aged by the time the stream  *)
(* holds it, so its age begins at 1.                                           *)
EXTENDS Integers, Sequences, FiniteSets, Functions

CONSTANTS MaxEvents,     \* events published
          MaxEventAge,   \* MaxEventAge, in periods
          MaxDeliver,    \* deliveries of one event
          Batch,         \* readerBatch
          InFlight,      \* messages the pipeline works on at a time
          MaxLosses      \* bound on lost connections and deleted consumers

ASSUME ReaderAssumption == MaxEvents \in Nat /\ MaxEventAge \in Nat /\ MaxDeliver \in Nat

VARIABLES event,      \* [1..MaxEvents -> [kind, age, state, count, wait]]: the event
                      \* and what the consumer knows of it
          consumer,   \* the consumer exists
          conn,       \* the Rack's connection, 0: none
          reader,     \* [open, conn, broken]: Reader
          fetched,    \* events at the client, not yet taken
          work,       \* events in the pipeline, with the connection they came on
          emitted,    \* events whose message left the gear
          handed,     \* events Next returned
          losses

rvars == <<event, consumer, conn, reader, fetched, work, emitted, handed, losses>>

Ids == 1..MaxEvents
Closed == [open |-> FALSE, conn |-> 0, broken |-> FALSE]
Wanted == "wanted"
NoEvent == [kind |-> Wanted, age |-> 0, state |-> "none", count |-> 0, wait |-> 0]
TooOld(e) == event[e].age > MaxEventAge

ReaderTypeOK ==
  /\ event \in [Ids -> [kind : {Wanted, "other", "garbled"}, age : 0..MaxEventAge + 1,
                        state : {"none", "new", "flying", "done"},
                        count : 0..MaxDeliver, wait : 0..MaxEventAge]]
  /\ reader \in [open : BOOLEAN, conn : Nat, broken : BOOLEAN]
  /\ Range(fetched) \subseteq Ids /\ {w.e : w \in work} \subseteq Ids

ReaderInit ==
  /\ event = [e \in Ids |-> NoEvent] /\ consumer = FALSE /\ conn = 1 /\ reader = Closed
  /\ fetched = <<>> /\ work = {} /\ emitted = {} /\ handed = {} /\ losses = 0

--------------------------------------------------------------------------------
(* The stream and the consumer.                                                *)
Publish(e, k) ==
  /\ event[e].state = "none" /\ \A d \in Ids : d < e => event[d].state # "none"
  /\ event' = [event EXCEPT ![e] = [NoEvent EXCEPT !.kind = k, !.age = 1, !.state = "new"]]
  /\ UNCHANGED <<consumer, conn, reader, fetched, work, emitted, handed, losses>>

Due(e) ==
  /\ event[e].count < MaxDeliver
  /\ \/ event[e].state = "new"
     \/ event[e].state = "flying" /\ event[e].wait >= MaxEventAge

DeliverEvent(e) ==
  /\ reader.open /\ reader.conn = conn /\ consumer /\ Due(e) /\ Len(fetched) < Batch
  /\ event' = [event EXCEPT ![e].state = "flying", ![e].count = @ + 1, ![e].wait = 0]
  /\ fetched' = Append(fetched, e)
  /\ UNCHANGED <<consumer, conn, reader, work, emitted, handed, losses>>

Aged(v) == IF v.state = "none" THEN v
           ELSE [v EXCEPT !.age = IF @ <= MaxEventAge THEN @ + 1 ELSE @,
                          !.wait = IF v.state = "flying" /\ @ < MaxEventAge THEN @ + 1 ELSE @]

(* A period.  The pipeline takes an event that waits for it at once, so that   *)
(* none grows old behind another.                                              *)
Tick ==
  /\ ~(reader.open /\ (fetched # <<>> \/ \E e \in Ids : consumer /\ Due(e) /\ reader.conn = conn))
  /\ work = {}
  /\ event' = [e \in Ids |-> Aged(event[e])] /\ event' # event
  /\ UNCHANGED <<consumer, conn, reader, fetched, work, emitted, handed, losses>>

(* The Rack loses or replaces its connection, or has one again.                *)
Reconnect ==
  /\ \/ conn # 0 /\ losses < MaxLosses /\ losses' = losses + 1 /\ conn' \in {0, losses + 2}
     \/ conn = 0 /\ conn' = losses + 1 /\ UNCHANGED losses
  /\ UNCHANGED <<event, consumer, reader, fetched, work, emitted, handed>>

(* The consumer is removed, with what it knew.  A pull pending at that moment  *)
(* tells the client.                                                           *)
DeleteConsumer ==
  /\ consumer /\ losses < MaxLosses /\ losses' = losses + 1 /\ consumer' = FALSE
  /\ \E b \in {reader.broken, reader.open} : reader' = [reader EXCEPT !.broken = b]
  /\ event' = [e \in Ids |-> IF event[e].state = "none" THEN event[e]
                             ELSE [event[e] EXCEPT !.state = "new", !.count = 0, !.wait = 0]]
  /\ UNCHANGED <<conn, fetched, work, emitted, handed>>

--------------------------------------------------------------------------------
(* Reader.Open, called by fluxEventInput.Connect until it succeeds.            *)
Open ==
  /\ ~reader.open /\ conn # 0
  /\ reader' = [open |-> TRUE, conn |-> conn, broken |-> FALSE] /\ consumer' = TRUE
  /\ UNCHANGED <<event, conn, fetched, work, emitted, handed, losses>>

connectionLost == reader.conn # conn
consumerGone == ~connectionLost /\ ~consumer

\* Variant of mustReopen: an idle reader never asks for its consumer.
mustReopenIdle == reader.broken \/ connectionLost

mustReopen == reader.broken \/ connectionLost \/ consumerGone

(* Next without an event: what was fetched and not taken is dropped unsettled. *)
NextReopens ==
  /\ reader.open /\ mustReopen
  /\ reader' = Closed /\ fetched' = <<>>
  /\ UNCHANGED <<event, consumer, conn, work, emitted, handed, losses>>

(* Reader.accept: what it does not return is settled here.                     *)
accept(e) == event[e].kind = Wanted /\ ~TooOld(e)

Settle(e, c) ==
  IF c = conn /\ consumer THEN event' = [event EXCEPT ![e].state = "done"] ELSE UNCHANGED event

NextEvent ==
  /\ reader.open /\ fetched # <<>> /\ fetched' = Tail(fetched)
  /\ LET e == Head(fetched) IN
       IF accept(e)
       THEN /\ \A w \in work : w.e # e
            /\ work' = work \cup {[e |-> e, c |-> reader.conn]} /\ Cardinality(work') <= InFlight
            /\ handed' = handed \cup {e}
            /\ UNCHANGED event
       ELSE Settle(e, reader.conn) /\ UNCHANGED <<work, handed>>
  /\ UNCHANGED <<consumer, conn, reader, emitted, losses>>

\* Variant of WriteError: "out" goes through the callback of Start, which
\* reports nothing.
WriteErrorCallback(ok) == FALSE

(* fluxOutput.Write: a gear that reads events emits through the PortEmitter,   *)
(* so that a failed emission is an error.                                      *)
WriteError(ok) == ~ok

(* The pipeline ends: the message is emitted or not, and Delivery.Ack settles  *)
(* the event or asks for it again.                                             *)
Ack(w, ok) ==
  /\ w \in work /\ work' = work \ {w}
  /\ emitted' = IF ok THEN emitted \cup {w.e} ELSE emitted
  /\ IF ~WriteError(ok) THEN Settle(w.e, w.c)
     ELSE event' = IF w.c = conn /\ consumer /\ event[w.e].state = "flying"
                   THEN [event EXCEPT ![w.e].state = "new", ![w.e].wait = 0] ELSE event
  /\ UNCHANGED <<consumer, conn, reader, fetched, handed, losses>>

ReaderNext ==
  \/ \E e \in Ids : DeliverEvent(e) \/ \E k \in {Wanted, "other", "garbled"} : Publish(e, k)
  \/ Tick \/ Reconnect \/ DeleteConsumer
  \/ Open \/ NextReopens \/ NextEvent
  \/ \E w \in work, ok \in BOOLEAN : Ack(w, ok)

(* Bento calls Connect and Read again for as long as the stream runs, and the  *)
(* Rack reconnects.                                                            *)
ReaderFairness ==
  /\ WF_rvars(Open) /\ WF_rvars(NextReopens)
  /\ WF_rvars(conn = 0 /\ Reconnect)

ReaderSpec == ReaderInit /\ [][ReaderNext]_rvars /\ ReaderFairness

--------------------------------------------------------------------------------
(* "a failed emission must not ack an event": an event the consumer is done    *)
(* with was emitted, or is one the reader drops.                               *)
AckedIsEmitted ==
  \A e \in Ids : event[e].state = "done" => e \in emitted \/ event[e].kind # Wanted \/ TooOld(e)

(* A reader whose connection was replaced or whose consumer is gone does not   *)
(* wait for nothing: it is opened again, on what is there.                     *)
Reads == reader.open /\ reader.conn = conn /\ consumer
ReaderReopens == []<>Reads

(* Refuted.  "A reader that was down gets what it missed, inside               *)
(* max_event_age": an event that was fetched and not taken comes again when    *)
(* the ack wait ends, and that is MaxEventAge.                                 *)
GetsWhatItMissed ==
  [][\A e \in Ids : Reads /\ event[e].age = MaxEventAge /\ event'[e].age > MaxEventAge
                    /\ event[e].kind = Wanted => e \in handed]_rvars
================================================================================
