---------------------------------- MODULE Wasm ----------------------------------
(* The Wasm catalog and the wasm gear: what Import stores of a module, what a  *)
(* Rack makes of it, and who frees which block of guest memory.  A module is   *)
(* its body and the custom sections behind it; a signature names its signer    *)
(* and what it signs.                                                          *)
EXTENDS Integers, Sequences, SequencesExt

CONSTANTS Trusted   \* vendors of the keyring

Vendor == "fluxrig.signature"
Cluster == "fluxrig.cluster.signature"
Refuses(why) == [ok |-> FALSE, why |-> why]
--------------------------------------------------------------------------------
(* section.go.  A module is [body, sections], a section [name, data].          *)
AppendCustomSection(m, name, data) == [m EXCEPT !.sections = Append(@, [name |-> name, data |-> data])]
At(m, name) == SelectInSeq(m.sections, LAMBDA s : s.name = name)
Has(m, name) == At(m, name) # 0
Section(m, name) == m.sections[At(m, name)].data
Stripped(m, name) == [m EXCEPT !.sections = RemoveAt(@, At(m, name))]

(* A signature of a hash, the hash being the module itself.                    *)
Sign(who, m) == [by |-> who, of |-> m]
Verify(who, m, sig) == sig = Sign(who, m)
--------------------------------------------------------------------------------
(* validateSandbox and the lookup of the ABI in Init.                          *)
HasABI(body, entry) == {entry, "free"} \subseteq body.exports /\ body.exports \cap {"alloc", "malloc"} # {}
validateSandbox(m) == m.body.imports \subseteq {"env.log"} /\ HasABI(m.body, "process")

IsTrusted(m) == Has(m, Vendor) /\ \E v \in Trusted : Verify(v, Stripped(m, Vendor), Section(m, Vendor))
\* Variant of Hashed: what the vendor signed is hashed, without its signature.
HashedStripped(m) == IF Has(m, Vendor) THEN Stripped(m, Vendor) ELSE m
Hashed(m) == m
Import(m, allowUnsigned, clusterKey) ==
  LET stripped == IF Has(m, Vendor) THEN Stripped(m, Vendor) ELSE m
  IN IF ~IsTrusted(m) /\ ~allowUnsigned THEN Refuses("vendor")
     ELSE IF ~validateSandbox(stripped) THEN Refuses("sandbox")
     ELSE IF clusterKey = "" THEN Refuses("cluster key")
     ELSE [ok |-> TRUE, hash |-> Hashed(m), status |-> IF IsTrusted(m) THEN "Trusted" ELSE "Untrusted",
           stored |-> AppendCustomSection(m, Cluster, Sign(clusterKey, Hashed(m)))]
--------------------------------------------------------------------------------
(* The gear: verifyPayload, then Init.                                         *)
verifyPayload(m, fromCatalog, clusterPub) ==
  IF clusterPub = "" THEN (IF fromCatalog THEN Refuses("no key") ELSE [ok |-> TRUE, m |-> m])
  ELSE IF ~Has(m, Cluster) THEN (IF fromCatalog THEN Refuses("unsigned") ELSE [ok |-> TRUE, m |-> m])
  ELSE IF Verify(clusterPub, Stripped(m, Cluster), Section(m, Cluster)) THEN [ok |-> TRUE, m |-> Stripped(m, Cluster)]
  ELSE Refuses("signature")
InitGear(m, fromCatalog, clusterPub, pages, maxPages, entry) ==
  LET v == verifyPayload(m, fromCatalog, clusterPub)
  IN IF ~v.ok THEN v
     ELSE IF pages > maxPages THEN Refuses("memory")
     ELSE IF v.m.body.imports \subseteq {"env.log"} /\ HasABI(v.m.body, entry) THEN v ELSE Refuses("abi")
--------------------------------------------------------------------------------
(* Gear.Process, for what a guest may do in it: the block it allocates (0 for  *)
(* none), what process returns, and whether that reads and decodes.            *)
\* Variant of FreesResult: a block the guest hands back is freed a second time.
FreesResultAlways(g) == g.len > 0 /\ g.readable
FreesResult(g) == g.len > 0 /\ g.readable /\ g.ret # g.block
ProcessGuest(g) ==
  IF g.block = 0 THEN [freed |-> <<>>, out |-> "error"]
  ELSE IF ~g.runs THEN [freed |-> <<g.block>>, out |-> "error"]
  ELSE [freed |-> (IF FreesResult(g) THEN <<g.ret>> ELSE <<>>) \o <<g.block>>,
        out |-> IF g.len = 0 THEN "dropped" ELSE IF g.readable /\ g.decodes THEN "message" ELSE "error"]
--------------------------------------------------------------------------------
(* A module that Import takes, and that came unsigned by any cluster, is one   *)
(* that the Racks of the cluster load.                                         *)
ImportedLoads(m, allow, key) ==
  LET i == Import(m, allow, key)
  IN i.ok /\ ~Has(m, Cluster) => InitGear(i.stored, TRUE, key, 1, 1, "process").ok

(* Every block that crosses into the guest or back is freed once, whatever     *)
(* becomes of the message.                                                     *)
BlocksFreedOnce(g) ==
  LET f == ProcessGuest(g).freed
  IN /\ IsInjective(f) /\ (g.block # 0 => g.block \in ToSet(f))
     /\ ProcessGuest(g).out = "message" => g.ret \in ToSet(f)

(* Refuted.  "Hash the original payload so the Rack can verify it": a module   *)
(* that Import takes loads, one that was signed before included.               *)
AnyImportLoads(m, allow, key) ==
  LET i == Import(m, allow, key) IN i.ok => InitGear(i.stored, TRUE, key, 1, 1, "process").ok
================================================================================
