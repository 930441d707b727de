----------------------------- MODULE LogShipper -----------------------------
(***************************************************************************)
(* The road of a log record from the logger of a Rack to the telemetry     *)
(* stream: the buffer of the records logged before telemetry starts, the   *)
(* write-ahead log (WAL), and the shipper that tails it with a cursor that *)
(* is kept in memory and saved now and then.  Record i of the WAL is       *)
(* message i of the stream.                                                *)
(***************************************************************************)
EXTENDS Naturals, Sequences, FiniteSets

CONSTANTS MaxRecords,     \* bound on the records logged
          TruncateEvery,  \* records between two truncations of the WAL (1000)
          MaxCrashes,     \* bound on the crashes of the Rack's process
          MaxInits        \* bound on the calls of telemetry.Init

ASSUME ShipperAssumption ==
  TruncateEvery \in Nat \ {0} /\ MaxRecords \in Nat /\ MaxCrashes \in Nat /\ MaxInits \in Nat

VARIABLES
  logged,      \* records logged so far, by any logger
  buffer,      \* records in the BufferHandler
  logger,      \* what the default logger writes to
  wal,         \* the records ever written to the WAL, by whether they decode
  walFirst,    \* index of the first record still in the WAL
  cursor,      \* Cursor.State in memory
  cursorFile,  \* Cursor.State in its file
  index,       \* the shipper's local index
  shipper,     \* where its loop is
  shipped,     \* the records the stream has stored
  window,      \* those whose message ID the stream still remembers
  inits, crashes

shipperVars == <<logged, buffer, logger, wal, walFirst, cursor, cursorFile, index,
                 shipper, shipped, window, inits, crashes>>

Target == index + 1

ShipperTypeOK ==
  /\ {logged, buffer, cursor, cursorFile, index} \subseteq 0..MaxRecords
  /\ logger \in {"buffer", "wal", "closed"}
  /\ wal \in Seq({"ok", "corrupt"}) /\ Len(wal) <= logged
  /\ walFirst \in 1..(Len(wal) + 1)
  /\ shipper \in {"down", "loop", "publishing", "stored"}
  /\ window \subseteq shipped /\ shipped \subseteq 1..Len(wal)
  /\ inits \in 0..MaxInits /\ crashes \in 0..MaxCrashes

ShipperInit ==
  /\ logged = 0 /\ buffer = 0 /\ logger = "buffer"
  /\ wal = <<>> /\ walFirst = 1 /\ cursor = 0 /\ cursorFile = 0 /\ index = 0
  /\ shipper = "down" /\ shipped = {} /\ window = {}
  /\ inits = 0 /\ crashes = 0

---------------------------------------------------------------------------
(* Loggers *)

\* A record through a logger that holds the BufferHandler: the boot logger of
\* the process, which the agent goes on using after telemetry has started.
LogBuffered ==
  /\ logged < MaxRecords
  /\ logged' = logged + 1 /\ buffer' = buffer + 1
  /\ UNCHANGED <<logger, wal, walFirst, cursor, cursorFile, index, shipper, shipped,
                 window, inits, crashes>>

\* A record through the default logger: appended to the WAL (the entry may be
\* damaged on disk), or lost while the WAL behind the logger is closed, since
\* MultiHandler ignores the error of a handler.
LogDefault ==
  /\ logged < MaxRecords /\ logger # "buffer"
  /\ logged' = logged + 1
  /\ \/ logger = "wal" /\ \E kind \in {"ok", "corrupt"} : wal' = Append(wal, kind)
     \/ logger = "closed" /\ UNCHANGED wal
  /\ UNCHANGED <<buffer, logger, walFirst, cursor, cursorFile, index, shipper, shipped,
                 window, inits, crashes>>

---------------------------------------------------------------------------
(* telemetry.Init and its cleanup *)

\* Variant: a shipper without a saved cursor begins at the first record.
StartIndexSaved == cursorFile

\* The shipper begins after the saved cursor; with none, and a WAL truncated
\* before, it skips to the first record that is left.
StartIndex == IF cursorFile = 0 /\ wal # <<>> /\ walFirst > 1 THEN walFirst - 1 ELSE cursorFile

\* Init opens the WAL, makes it the target of the default logger, starts the
\* shipper at the saved cursor and replays the buffered records to the WAL.
TelemetryInit ==
  /\ shipper = "down" /\ inits < MaxInits
  /\ inits' = inits + 1
  /\ logger' = "wal"
  /\ wal' = wal \o [i \in 1..buffer |-> "ok"] /\ buffer' = 0
  /\ index' = StartIndex /\ cursor' = StartIndex
  /\ shipper' = "loop"
  /\ UNCHANGED <<logged, walFirst, cursorFile, shipped, window, crashes>>

\* The cleanup stops the shipper, wherever its loop is, saves the cursor and
\* closes the WAL.  A second Init runs it first, and an orderly exit too.
TelemetryStop ==
  /\ shipper # "down"
  /\ shipper' = "down" /\ logger' = "closed" /\ cursorFile' = cursor
  /\ UNCHANGED <<logged, buffer, wal, walFirst, cursor, index, shipped, window,
                 inits, crashes>>

\* The process dies: what is in memory is lost, the WAL and the file stay.
ShipperCrash ==
  /\ crashes < MaxCrashes /\ crashes' = crashes + 1
  /\ shipper' = "down" /\ logger' = "buffer" /\ buffer' = 0 /\ index' = 0 /\ cursor' = 0
  /\ UNCHANGED <<logged, wal, walFirst, cursorFile, shipped, window, inits>>

---------------------------------------------------------------------------
(* The loop of the shipper *)

SaveCursor ==
  /\ shipper = "loop" /\ cursorFile # cursor
  /\ cursorFile' = cursor
  /\ UNCHANGED <<logged, buffer, logger, wal, walFirst, cursor, index, shipper, shipped,
                 window, inits, crashes>>

\* The record is done with: the cursor moves on, and every TruncateEvery
\* records the WAL drops what comes before it (or fails to, with a warning).
Advance ==
  /\ index' = Target /\ cursor' = Target /\ shipper' = "loop"
  /\ walFirst' \in IF Target % TruncateEvery = 0 THEN {walFirst, Target} ELSE {walFirst}

Readable == Target \in walFirst..Len(wal)

\* A record that does not decode is skipped; any other one is published.
ShipRead ==
  /\ shipper = "loop" /\ Readable
  /\ \/ wal[Target] = "corrupt" /\ Advance
     \/ wal[Target] = "ok" /\ shipper' = "publishing" /\ UNCHANGED <<walFirst, cursor, index>>
  /\ UNCHANGED <<logged, buffer, logger, wal, cursorFile, shipped, window, inits,
                 crashes>>

\* The server stores the message, unless it remembers its ID.
PublishStored ==
  /\ shipper = "publishing" /\ shipper' = "stored"
  /\ shipped' = shipped \cup {Target} /\ window' = window \cup {Target}
  /\ UNCHANGED <<logged, buffer, logger, wal, walFirst, cursor, cursorFile, index, inits,
                 crashes>>

PublishAcked ==
  /\ shipper = "stored" /\ Advance
  /\ UNCHANGED <<logged, buffer, logger, wal, cursorFile, shipped, window, inits,
                 crashes>>

\* Variant: a failed publish is taken for a success.
PublishFailedSkips ==
  /\ shipper \in {"publishing", "stored"} /\ Advance
  /\ UNCHANGED <<logged, buffer, logger, wal, cursorFile, shipped, window, inits,
                 crashes>>

\* The publish fails, before or after the server stored the message: the same
\* record is tried again a second later.
PublishFailed ==
  /\ shipper \in {"publishing", "stored"} /\ shipper' = "loop"
  /\ UNCHANGED <<logged, buffer, logger, wal, walFirst, cursor, cursorFile, index, shipped,
                 window, inits, crashes>>

\* The server forgets the message IDs older than its window.
WindowPasses ==
  /\ window # {} /\ window' = {}
  /\ UNCHANGED <<logged, buffer, logger, wal, walFirst, cursor, cursorFile, index, shipper,
                 shipped, inits, crashes>>

ShipperNext ==
  \/ LogBuffered \/ LogDefault \/ TelemetryInit \/ TelemetryStop \/ ShipperCrash
  \/ SaveCursor \/ ShipRead \/ PublishStored \/ PublishAcked \/ PublishFailed \/ WindowPasses

---------------------------------------------------------------------------

Done(i) == i \in shipped \/ wal[i] = "corrupt"

\* The WAL gives up a record, and either cursor passes it, only once the stream
\* has stored it or it turned out not to decode, whatever crash, restart or
\* failed publish comes between.
CursorNeverAhead ==
  \A i \in 1..Len(wal) : i < walFirst \/ i <= cursor \/ i <= cursorFile => Done(i)

\* The saved cursor is neither zero nor up to the first record that is left: the
\* shipper takes the missing record for the end of the log and waits for it.
Stalled == cursorFile # 0 /\ cursorFile + 1 < walFirst /\ index < walFirst - 1
=============================================================================
