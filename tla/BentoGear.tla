------------------------------- MODULE BentoGear -------------------------------
(* The message path of the bento gear: Process hands a message to the stream's *)
(* input over a bounded channel and returns, the stream emits the result       *)
(* later, and Drain and Stop end it.                                           *)
EXTENDS Integers, Sequences, FiniteSets

CONSTANTS BentoMsgs,   \* messages that come to the gear
          InChan       \* capacity of inChan

VARIABLES inChan,     \* messages in the channel
          inClosed,   \* Stop closed it
          calls,      \* messages whose Process has not returned
          taken,      \* messages Process took: it returned nil
          piped,      \* messages in the stream
          out,        \* messages emitted
          cancelled,  \* the stream's context
          stage,      \* what the runtime does with the gear
          panicked    \* a send on the closed channel

bvars == <<inChan, inClosed, calls, taken, piped, out, cancelled, stage, panicked>>

BentoTypeOK ==
  /\ Len(inChan) <= InChan /\ calls \cup taken \cup piped \cup out \subseteq BentoMsgs
  /\ stage \in {"running", "drained", "stopping", "closed", "stopped"}

BentoInit ==
  /\ inChan = <<>> /\ inClosed = FALSE /\ calls = {} /\ taken = {} /\ piped = {} /\ out = {}
  /\ cancelled = FALSE /\ stage = "running" /\ panicked = FALSE

(* Process, from a lane of the runtime, until the subscription ends.  A call   *)
(* that runs when it ends is given up on.                                      *)
Process(m) ==
  /\ stage = "running" /\ m \notin calls \cup taken /\ calls' = calls \cup {m}
  /\ UNCHANGED <<inChan, inClosed, taken, piped, out, cancelled, stage, panicked>>

(* Variant: a full channel does not hold Process up, it drops the message.     *)
ProcessSendsOrDrops(m) ==
  /\ m \in calls /\ calls' = calls \ {m} /\ ~inClosed /\ taken' = taken \cup {m}
  /\ inChan' = IF Len(inChan) < InChan THEN Append(inChan, m) ELSE inChan
  /\ UNCHANGED <<inClosed, piped, out, cancelled, stage, panicked>>

ProcessSends(m) ==
  /\ m \in calls /\ calls' = calls \ {m}
  /\ IF inClosed THEN panicked' = TRUE /\ UNCHANGED <<inChan, taken>>
     ELSE /\ Len(inChan) < InChan /\ inChan' = Append(inChan, m) /\ taken' = taken \cup {m}
          /\ UNCHANGED panicked
  /\ UNCHANGED <<inClosed, piped, out, cancelled, stage>>

(* The context of the call ends first.                                         *)
ProcessGivesUp(m) ==
  /\ m \in calls /\ calls' = calls \ {m}
  /\ UNCHANGED <<inChan, inClosed, taken, piped, out, cancelled, stage, panicked>>

(* fluxInput.Read: one of the channel and the end of the context, whichever    *)
(* the select takes.                                                           *)
Read ==
  /\ stage # "stopped" /\ inChan # <<>>
  /\ inChan' = Tail(inChan) /\ piped' = piped \cup {Head(inChan)}
  /\ UNCHANGED <<inClosed, calls, taken, out, cancelled, stage, panicked>>

Write(m) ==
  /\ m \in piped /\ stage # "stopped" /\ piped' = piped \ {m} /\ out' = out \cup {m}
  /\ UNCHANGED <<inChan, inClosed, calls, taken, cancelled, stage, panicked>>

(* Drain returns at once.                                                      *)
Drain ==
  /\ stage = "running" /\ stage' = "drained"
  /\ UNCHANGED <<inChan, inClosed, calls, taken, piped, out, cancelled, panicked>>

(* Stop: cancel, close, stop the stream.                                       *)
StopCancels ==
  /\ stage \in {"running", "drained"} /\ stage' = "stopping" /\ cancelled' = TRUE
  /\ UNCHANGED <<inChan, inClosed, calls, taken, piped, out, panicked>>

StopClosesChan ==
  /\ stage = "stopping" /\ stage' = "closed" /\ inClosed' = TRUE
  /\ UNCHANGED <<inChan, calls, taken, piped, out, cancelled, panicked>>

(* The stream's goroutine returns, with what it has not emitted.               *)
StopWaits ==
  /\ stage = "closed" /\ stage' = "stopped" /\ piped' = {} /\ inChan' = <<>>
  /\ UNCHANGED <<inClosed, calls, taken, out, cancelled, panicked>>

BentoNext ==
  \/ \E m \in BentoMsgs : Process(m) \/ ProcessSends(m) \/ ProcessGivesUp(m) \/ Write(m)
  \/ Read \/ Drain \/ StopCancels \/ StopClosesChan \/ StopWaits

BentoSpec == BentoInit /\ [][BentoNext]_bvars

--------------------------------------------------------------------------------
(* What Process took leaves the gear at most once, and never from nowhere, and *)
(* what is neither out nor on its way was dropped by Stop alone.               *)
TakenAccounted ==
  /\ out \cup piped \cup {inChan[i] : i \in DOMAIN inChan} \subseteq taken
  /\ stage # "stopped" => taken = out \cup piped \cup {inChan[i] : i \in DOMAIN inChan}

(* Refuted.  "Drain signals the gear to stop accepting new input but complete  *)
(* pending work": a stopped gear that was drained first has emitted all it     *)
(* took.                                                                       *)
DrainCompletes == [][stage = "drained" /\ stage' = "stopping" => taken = out]_bvars
================================================================================
