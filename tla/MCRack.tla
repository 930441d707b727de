-------------------------------- MODULE MCRack --------------------------------
(* What carries and keeps messages on a Rack, and its algorithms: a behaviour *)
(* is one of the ISO 8583 server, of the TCP server, of the coat check, of    *)
(* the outbox at its cap or of the log rotator, or a single state, an input   *)
(* of the algorithms.                                                         *)
EXTENDS MCPure, IsoServer, TcpServer, CoatCheck, Outbox, Rotator

(* Two terminals behind one address; two coats share a key; gear "a" emits 1  *)
(* and 2 on subject "s", gear "b" emits the event 3 on "t".                   *)
CONSTANTS p1, p2
MCPeerIP == [c \in {p1, p2} |-> "ip"]
MCKeyOf == [r \in Requests |-> IF r < 3 THEN "k" ELSE "l"]
MCGearOf == [i \in Items |-> IF i <= 2 THEN "a" ELSE "b"]
TwoSubjects == [i \in Items |-> IF i <= 2 THEN "s" ELSE "t"]

VARIABLE part   \* what runs
rackVars == <<input, isoVars, tcpVars, coatVars, vars, rotvars, part>>

(* Parts that may start in several states start in one where they stand still.*)
RackInit ==
  /\ IsoInit /\ TcpInit /\ CoatInit /\ Init /\ RotatorInit
  /\ part \in {"algorithm", "iso", "tcp", "coat", "outbox", "rotator"}
  /\ IF part = "algorithm" THEN PureInit ELSE input = [kind |-> "none"]
  /\ part = "coat" \/ ~awaitStore
  /\ part = "outbox" \/ bus = "none"
  /\ part = "rotator" \/ (size = 0 /\ ~compress)

RackNext ==
  /\ UNCHANGED part
  /\ \/ part = "algorithm" /\ PureNext /\ UNCHANGED <<isoVars, tcpVars, coatVars, vars, rotvars>>
     \/ part = "iso" /\ IsoNext /\ UNCHANGED <<input, tcpVars, coatVars, vars, rotvars>>
     \/ part = "tcp" /\ TcpNext /\ UNCHANGED <<input, isoVars, coatVars, vars, rotvars>>
     \/ part = "coat" /\ CoatNext /\ UNCHANGED <<input, isoVars, tcpVars, vars, rotvars>>
     \/ part = "outbox" /\ Next /\ UNCHANGED <<input, isoVars, tcpVars, coatVars, rotvars>>
     \/ part = "rotator" /\ RotatorNext /\ UNCHANGED <<input, isoVars, tcpVars, coatVars, vars>>

RackSpec == RackInit /\ [][RackNext]_rackVars

(* Sockets: what one end frames the other reads back, however the bytes       *)
(* arrive, and the heuristic check lets well-formed messages through.         *)
SocketsOK == FramesOK /\ SplitOK /\ InspectOK

(* Scenarios: every emission of a wire is where its consumer listens, and the *)
(* ports a gear may use and sense are those its wires bind.                   *)
ScenariosOK == RoutesOK /\ BindingsOK

(* Specs: conditions mean what the grammar says, cycles of them are found,    *)
(* rules only restrict, and a message decoded and encoded again is the one    *)
(* that came.                                                                 *)
SpecsOK == WhenOK /\ CyclesOK /\ RulesOK /\ CodecOK

(* Engines: events are never acknowledged by a buffer, fields cross a bento   *)
(* stream whole, an imported module loads and guest memory is freed once.     *)
EnginesOK == BridgeOK /\ WasmOK
================================================================================
