-------------------------------- MODULE DestTree --------------------------------
(* The conductor's destination tree: failover, round_robin and least_loaded    *)
(* nodes over output ports, the rotation each of them keeps, and the open      *)
(* tickets they balance by.  A link may go down in the middle of a pick.       *)
EXTENDS Integers, Sequences, FiniteSets, SequencesExt, FiniteSetsExt

CONSTANTS Trees,    \* trees: [root, kind, children] over nodes, a leaf being a port
          Ports,    \* every output port
          Wrap,     \* rotations are kept modulo this: a multiple of every number of children
          MaxOpen   \* open tickets of one port

VARIABLES tree,      \* the tree of the route
          rr,        \* [nodes -> rotation]
          up,        \* ports that may receive traffic
          open,      \* [Ports -> open tickets]
          last       \* the last request, until a link changes: its port, and what it met

tvars == <<tree, rr, up, open, last>>

NoPick == "none"
Refused == "refused"
IsLeaf(t, n) == n \in Ports
Children(t, n) == t.children[n]
NoRequest == [port |-> NoPick, open |-> [p \in Ports |-> 0], up |-> {}]

TreeInit ==
  /\ tree \in Trees /\ rr = [n \in DOMAIN tree.kind |-> 0]
  /\ up \in SUBSET Ports /\ open = [p \in Ports |-> 0]
  /\ last = NoRequest

(* The leaf set of a node, computed when the tree is parsed.                   *)
RECURSIVE leaves(_, _)
leaves(t, n) ==
  IF IsLeaf(t, n) THEN {n} ELSE UNION {leaves(t, c) : c \in ToSet(Children(t, n))}

subtreeLoad(t, n) == MapThenSumSet(LAMBDA p : open[p], leaves(t, n))
availableUnder(t, n, ports) == leaves(t, n) \cap ports # {}

--------------------------------------------------------------------------------
(* A pick is the port it returns and the rotations it leaves behind.           *)
Picked(p, r) == [port |-> p, rr |-> r]
Turn(r, n) == [r EXCEPT ![n] = (@ + 1) % Wrap]

(* The first of a sequence of children that finds a port.                      *)
RECURSIVE pick(_, _, _, _, _)
RECURSIVE FirstOf(_, _, _, _, _)
FirstOf(t, cs, r, s1, s2) ==
  IF cs = <<>> THEN Picked(NoPick, r)
  ELSE LET x == pick(t, Head(cs), r, s1, s2)
       IN IF x.port # NoPick THEN x ELSE FirstOf(t, Tail(cs), x.rr, s1, s2)

Rotated(cs, k) == [i \in DOMAIN cs |-> cs[((k + i - 1) % Len(cs)) + 1]]

LeastLoaded(t, n, ports) ==
  LET cands == SelectSeq(Children(t, n), LAMBDA c : availableUnder(t, c, ports))
      least == Min({subtreeLoad(t, c) : c \in ToSet(cands)})
  IN [cands |-> cands, tied |-> SelectSeq(cands, LAMBDA c : subtreeLoad(t, c) = least)]

\* Variant of Fallback: a chosen child that raced to unavailable ends the pick.
FallbackNone(cands) == <<>>

Fallback(cands) == cands

\* Variant of StartAt: the rotation restarts at the first child.
StartAtFirst(r, n) == 0

StartAt(r, n) == r[n]

(* s1 is available when the candidates are gathered, s2 when a leaf is picked. *)
pick(t, n, r, s1, s2) ==
  IF IsLeaf(t, n) THEN Picked(IF n \in s2 THEN n ELSE NoPick, r)
  ELSE CASE t.kind[n] = "failover" -> FirstOf(t, Children(t, n), r, s1, s2)
         [] t.kind[n] = "round_robin" ->
              FirstOf(t, Rotated(Children(t, n), StartAt(r, n)), Turn(r, n), s1, s2)
         [] t.kind[n] = "least_loaded" ->
              LET l == LeastLoaded(t, n, s1)
              IN IF l.cands = <<>> THEN Picked(NoPick, r)
                 ELSE FirstOf(t, <<l.tied[(r[n] % Len(l.tied)) + 1]>> \o Fallback(l.cands),
                              Turn(r, n), s1, s2)

--------------------------------------------------------------------------------
(* handleRequest: pick, and park a ticket on the port.                         *)
Request(down) ==
  LET x == pick(tree, tree.root, rr, up, up \ down)
  IN /\ x.port # NoPick => open[x.port] < MaxOpen
     /\ rr' = x.rr /\ up' = up \ down
     /\ last' = [port |-> IF x.port = NoPick THEN Refused ELSE x.port, open |-> open, up |-> up]
     /\ open' = IF x.port = NoPick THEN open ELSE [open EXCEPT ![x.port] = @ + 1]
     /\ UNCHANGED tree

Settle(p) ==
  /\ open[p] > 0 /\ open' = [open EXCEPT ![p] = @ - 1]
  /\ UNCHANGED <<tree, rr, up, last>>

LinkChange(p) ==
  /\ up' = IF p \in up THEN up \ {p} ELSE up \cup {p}
  /\ last' = NoRequest /\ UNCHANGED <<tree, rr, open>>

TreeNext ==
  \/ \E down \in {{}} \cup {{p} : p \in up} : Request(down)
  \/ \E p \in Ports : Settle(p) \/ LinkChange(p)

TreeSpec == TreeInit /\ [][TreeNext]_tvars

--------------------------------------------------------------------------------
(* What each strategy promises of the port it returns.                         *)
RECURSIVE Right(_, _, _, _, _)
Right(t, n, p, load, ports) ==
  IF IsLeaf(t, n) THEN p = n
  ELSE \E i \in DOMAIN Children(t, n) :
    LET cs == Children(t, n)
        Open(c) == MapThenSumSet(LAMBDA q : load[q], leaves(t, c))
    IN /\ p \in leaves(t, cs[i]) /\ Right(t, cs[i], p, load, ports)
       /\ t.kind[n] = "failover" => \A j \in 1..(i - 1) : leaves(t, cs[j]) \cap ports = {}
       /\ t.kind[n] = "least_loaded" =>
            \A j \in DOMAIN cs : leaves(t, cs[j]) \cap ports # {} => Open(cs[i]) <= Open(cs[j])

(* A request gets the port its tree promises of the links and loads it met;    *)
(* when a link goes down under it, at least a port that is up; and none only   *)
(* when no port of its tree is up.                                             *)
PickIsRight ==
  CASE last.port = NoPick -> TRUE
    [] last.port = Refused -> leaves(tree, tree.root) \cap up = {}
    [] OTHER -> /\ last.port \in up
                /\ up = last.up => Right(tree, tree.root, last.port, last.open, last.up)

(* Under a round_robin root with every link up, a request goes to the child    *)
(* after the one that served the request before it.                            *)
ChildOf(p) == CHOOSE i \in DOMAIN Children(tree, tree.root) : p \in leaves(tree, Children(tree, tree.root)[i])
TakesTurns ==
  [][/\ tree.kind[tree.root] = "round_robin" /\ up = Ports /\ up' = Ports
     /\ last.port \in Ports /\ last'.port \in Ports /\ rr' # rr
     => ChildOf(last'.port) = (ChildOf(last.port) % Len(Children(tree, tree.root))) + 1]_tvars

(* The tree keeps what its strategies promise, request by request and from one *)
(* request to the next.                                                        *)
TreePromises == []PickIsRight /\ TakesTurns
================================================================================
