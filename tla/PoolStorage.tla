---------------------------- MODULE PoolStorage -----------------------------
(***************************************************************************)
(* Pool storage: an encrypted file kept as copies or coded parts on nodes  *)
(* of different failure groups, uploaded, fetched, repaired and audited    *)
(* one target at a time (core/pool.ts over blossom.ts, erasure.ts and      *)
(* storage-proof.ts, driven by main.ts and services-ui.ts).                *)
(*                                                                         *)
(* A blob stands for its hash.  A node fails, returns, loses its blob or   *)
(* spoils it at any moment between two requests.  Signatures, deadlines    *)
(* and the bytes' transport are left out: a request succeeds or it fails.  *)
(***************************************************************************)
EXTENDS Naturals, FiniteSets, Sequences, SequencesExt

CONSTANTS
  PoolNodes,  \* the nodes, those that may be added by a repair included
  Group,      \* each node's failure group
  Ranks,      \* the orders the weighted hash may put the first nodes in
  Layouts,    \* records of mode, required, total, copies
  Payload,    \* the encrypted file: a sequence of bytes
  Encode(_, _, _),    \* encodeParts() and
  Decode(_, _, _, _), \*   decodeParts() of core/erasure.ts, see Erasure
  MaxFaults,  \* how many faults the nodes suffer
  MaxOps,     \* how many operations the user starts
  Absent

Octet == 0..255

codingBounds(required, total) == required \in 2..15 /\ required < total /\ total <= 16

ASSUME PoolAssumption ==
  /\ IsFiniteSet(PoolNodes) /\ MaxFaults \in Nat /\ MaxOps \in Nat /\ Payload \in Seq(Octet)
  /\ Absent \notin {"upload", "fetch", "repair", "audit"}
  /\ \A l \in Layouts :
       /\ l.mode \in {"erasure", "replicas"} /\ l.copies \in 1..3 /\ l.required \in Nat \ {0} /\ l.total \in Nat \ {0}
       /\ l.mode = "erasure" =>
            /\ codingBounds(l.required, l.total) /\ l.copies = 1
            /\ Encode(Payload, l.required, l.total) \in [1..l.total -> Seq(Octet)]
       /\ l.mode = "replicas" => l.required = 1 /\ l.total = 1 /\ l.copies \in 2..3
  /\ \A rank \in Ranks : rank \in Seq(PoolNodes) /\ IsInjective(rank)

VARIABLES
  layout,    \* the manifest: its mode and counts,
  targets,   \*   each part's nodes in order,
  parts,     \*   and each part's hash
  up,        \* the nodes that answer
  holds,     \* the blob each node has for its part, or Absent
  op,        \* the operation in progress, or Absent
  stage,     \* what it waits for
  part,      \* the part and
  target,    \*   the target it is at
  groups,    \* the failure groups that were verified for this part
  counts,    \* how many there were for the parts before
  available, \* the parts a fetch has, with their index
  files,     \* the parts an upload has to place
  proofs,    \* the targets an audit has verified
  report,    \* of the last upload or repair, or Absent
  fetched,   \* of the last fetch, or Absent
  ops, faults, \* how many there have been
  hit,       \* history: the failure groups with a fault since the file was last written
  touched    \* history: the nodes that failed or came back since the operation began

manifest == <<layout, targets, parts>>
nodes == <<up, holds, faults>>
cursor == <<stage, part, target, groups, counts>>
work == <<cursor, available, files>>
outcome == <<report, fetched, proofs>>
poolVars == <<manifest, nodes, op, work, outcome, ops, hit, touched>>

Spoiled == <<0>>

(* The types of the manifest, the nodes and the operation's cursor.        *)
PoolTypeOK ==
  /\ layout \in Layouts /\ DOMAIN targets = 1..layout.total
  /\ \A i \in 1..layout.total : targets[i] \in Seq(PoolNodes) /\ parts[i] \in Seq(Octet)
  /\ up \subseteq PoolNodes /\ DOMAIN holds = PoolNodes
  /\ op \in {Absent, "upload", "fetch", "repair", "audit"}
  /\ stage \in {"check", "put", "verify", "get", "challenge", "retrieval", "lied"}
  /\ part \in 1..layout.total + 1 /\ target \in Nat /\ target >= 1
  /\ groups \subseteq {Group[n] : n \in PoolNodes}
  /\ Len(counts) < part
  /\ Len(available) <= layout.required
  /\ proofs \subseteq PoolNodes /\ ops \in 0..MaxOps /\ faults \in 0..MaxFaults

(***************************************************************************)
(* The layout                                                              *)
(***************************************************************************)

(* The groups in the order in which the ranking first meets them.          *)
GroupOrder(rank) ==
  LET met[i \in 0..Len(rank)] ==
        IF i = 0 THEN <<>>
        ELSE LET before == met[i - 1] g == Group[rank[i]] IN
             IF g \in ToSet(before) THEN before ELSE Append(before, g)
  IN met[Len(rank)]

(* A group's nodes, in ranked order.                                       *)
Members(rank, g) ==
  LET chosen[i \in 0..Len(rank)] ==
        IF i = 0 THEN <<>>
        ELSE LET before == chosen[i - 1] IN IF Group[rank[i]] = g THEN Append(before, rank[i]) ELSE before
  IN chosen[Len(rank)]

(* Group number i goes to part i % total.                                  *)
Placement(rank, total) ==
  LET order == GroupOrder(rank)
      dealt[k \in 0..Len(order)] ==
        IF k = 0 THEN [i \in 1..total |-> <<>>]
        ELSE LET before == dealt[k - 1] IN
             [before EXCEPT ![((k - 1) % total) + 1] = @ \o Members(rank, order[k])]
  IN dealt[Len(order)]

Groups(seq) == {Group[n] : n \in ToSet(seq)}

(* validateManifest(): enough groups for the copies, and no group in two   *)
(* parts, spares included.                                                 *)
ValidTargets(t) ==
  /\ \A i \in DOMAIN t : IsInjective(t[i]) /\ Cardinality(Groups(t[i])) >= layout.copies
  /\ \A i, j \in DOMAIN t : i # j => Groups(t[i]) \cap Groups(t[j]) = {}

(* The parts of the payload.                                               *)
Parts(blob) ==
  IF layout.mode = "replicas" THEN <<blob>> ELSE Encode(blob, layout.required, layout.total)

(* preparePool() and signPool() have been called: nothing is stored yet.   *)
PoolInit ==
  /\ layout \in Layouts
  /\ \E rank \in Ranks :
       /\ Cardinality(Groups(rank)) >= layout.total * layout.copies
       /\ targets = Placement(rank, layout.total)
  /\ ValidTargets(targets)
  /\ parts = Parts(Payload)
  /\ up = PoolNodes /\ holds = [n \in PoolNodes |-> Absent]
  /\ op = Absent /\ stage = "check" /\ part = 1 /\ target = 1 /\ groups = {} /\ counts = <<>>
  /\ available = <<>> /\ files = <<>> /\ proofs = {} /\ report = Absent /\ fetched = Absent
  /\ ops = 0 /\ faults = 0 /\ hit = {} /\ touched = {}

(***************************************************************************)
(* Starting an operation; one runs at a time                               *)
(***************************************************************************)

Rewind(first) ==
  /\ stage' = first /\ part' = 1 /\ target' = 1 /\ groups' = {} /\ counts' = <<>> /\ available' = <<>>

Start(kind, first) ==
  /\ op = Absent /\ ops < MaxOps /\ ops' = ops + 1
  /\ op' = kind /\ Rewind(first) /\ fetched' = Absent
  /\ UNCHANGED <<layout, parts, nodes, proofs, touched>>

(* An operation ends.                                                      *)
Done == op' = Absent /\ Rewind("check") /\ files' = <<>> /\ proofs' = {} /\ touched' = {}

UploadPool ==
  /\ Start("upload", "check") /\ files' = Parts(Payload) /\ report' = Absent /\ hit' = {}
  /\ UNCHANGED targets

FetchPool ==
  /\ Start("fetch", "get")
  /\ UNCHANGED <<targets, files, report, hit>>

(* Mutant: a replacement is added to any part.                             *)
Extends_Blindly(t) == TRUE

(* extendPool() ends in validateManifest().                                *)
Extends(t) == ValidTargets(t)

(* A repair may first add a replacement to a part.                         *)
Repair ==
  /\ Start("repair", "get") /\ report' = Absent /\ hit' = {}
  /\ \/ UNCHANGED targets
     \/ \E i \in DOMAIN targets, n \in PoolNodes :
          /\ targets' = [targets EXCEPT ![i] = Append(@, n)]
          /\ \A j \in DOMAIN targets : n \notin ToSet(targets[j])
          /\ Extends(targets')
  /\ UNCHANGED files

Audit ==
  /\ Start("audit", "challenge")
  /\ UNCHANGED <<targets, files, report, hit>>

Writing == {"upload", "repair"}

(* Cancel, at any await.                                                   *)
Cancel ==
  /\ op # Absent /\ Done /\ hit' = (IF op \in Writing THEN {} ELSE hit)
  /\ UNCHANGED <<manifest, nodes, report, fetched, ops>>

(***************************************************************************)
(* One target at a time                                                    *)
(***************************************************************************)

Here == targets[part][target]
AtTarget == part <= layout.total /\ target <= Len(targets[part])
At(kinds, where) == op \in kinds /\ stage = where /\ AtTarget
(* fetchVerifiedBlob(): the node answers with the bytes of the hash.       *)
Serves(n) == n \in up /\ holds[n] = parts[part]

NextTarget(first) == target' = target + 1 /\ stage' = first /\ UNCHANGED <<part, groups, counts>>
NextPart(first) == part' = part + 1 /\ target' = 1 /\ stage' = first /\ groups' = {}

(* groups.add(): what counts is how many failure groups hold the part.     *)
Counted(n) == groups \cup {Group[n]}

(* A target was verified: the part is done if that makes enough copies.    *)
Verified ==
  IF Cardinality(Counted(Here)) >= layout.copies
  THEN NextPart("check") /\ counts' = Append(counts, Cardinality(Counted(Here)))
  ELSE /\ groups' = Counted(Here) /\ target' = target + 1 /\ stage' = "check"
       /\ UNCHANGED <<part, counts>>

(* A node of a group that counts already is passed over.                   *)
SkipTarget ==
  /\ At(Writing, "check") /\ Group[Here] \in groups /\ NextTarget("check")
  /\ UNCHANGED <<manifest, nodes, op, available, files, outcome, ops, hit, touched>>

(* The part may be there already.                                          *)
CheckTarget ==
  /\ At(Writing, "check") /\ Group[Here] \notin groups
  /\ IF Serves(Here) THEN Verified ELSE stage' = "put" /\ UNCHANGED <<part, target, groups, counts>>
  /\ UNCHANGED <<manifest, nodes, op, available, files, outcome, ops, hit, touched>>

(* inspected[part.index].                                                  *)
PartFor(i) == files[i]

(* uploadToBlossom(): a node that answers stores the part, or refuses.     *)
(* Some acknowledge a hash they have indexed without replacing a spoiled   *)
(* blob.                                                                   *)
PutPart ==
  /\ At(Writing, "put") /\ Here \in up
  /\ \/ holds' = [holds EXCEPT ![Here] = PartFor(part)]
     \/ holds[Here] # Absent /\ UNCHANGED holds
  /\ stage' = "verify" /\ UNCHANGED <<part, target, groups, counts>>
  /\ UNCHANGED <<manifest, up, faults, op, available, files, outcome, ops, hit, touched>>

(* It refuses, does not answer, or its answer is lost after it stored.     *)
PutFails ==
  /\ At(Writing, "put") /\ NextTarget("check")
  /\ \/ UNCHANGED holds
     \/ Here \in up /\ holds' = [holds EXCEPT ![Here] = PartFor(part)]
  /\ UNCHANGED <<manifest, up, faults, op, available, files, outcome, ops, hit, touched>>

(* Mutant: the acknowledgement of the upload is believed.                  *)
ReadBack_Believed(n) == TRUE

(* The part is read back and hashed before it counts.                      *)
ReadBack(n) == Serves(n)

VerifyPart ==
  /\ At(Writing, "verify")
  /\ IF ReadBack(Here) THEN Verified ELSE NextTarget("check")
  /\ UNCHANGED <<manifest, nodes, op, available, files, outcome, ops, hit, touched>>

(* The targets of a part are used up.                                      *)
PartEnds ==
  /\ op \in Writing /\ stage = "check" /\ part <= layout.total /\ ~AtTarget
  /\ NextPart("check") /\ counts' = Append(counts, Cardinality(groups))
  /\ UNCHANGED <<manifest, nodes, op, available, files, outcome, ops, hit, touched>>

(* report(): every part has its copies.                                    *)
Protected == \A i \in DOMAIN counts : counts[i] >= layout.copies

Reports ==
  /\ op \in Writing /\ stage = "check" /\ part > layout.total
  /\ report' = [protected |-> Protected,
                recoverable |-> Cardinality({i \in DOMAIN counts : counts[i] > 0}) >= layout.required]
  /\ Done /\ hit' = (IF Protected THEN hit ELSE {})
  /\ UNCHANGED <<manifest, nodes, fetched, ops>>

(***************************************************************************)
(* fetchPool()                                                             *)
(***************************************************************************)

Enough == Len(available) >= layout.required

(* Mutant: a part whose first node fails is given up.                      *)
GetPart_OneTarget ==
  /\ At({"fetch", "repair"}, "get") /\ ~Enough
  /\ available' = IF Serves(Here) THEN Append(available, [index |-> part, blob |-> holds[Here]]) ELSE available
  /\ NextPart("get")
  /\ UNCHANGED <<manifest, nodes, op, counts, files, outcome, ops, hit, touched>>

GetPart ==
  /\ At({"fetch", "repair"}, "get") /\ ~Enough
  /\ IF Serves(Here)
     THEN available' = Append(available, [index |-> part, blob |-> holds[Here]]) /\ NextPart("get") /\ UNCHANGED counts
     ELSE NextTarget("get") /\ UNCHANGED available
  /\ UNCHANGED <<manifest, nodes, op, files, outcome, ops, hit, touched>>

NoMoreTargets ==
  /\ op \in {"fetch", "repair"} /\ stage = "get" /\ part <= layout.total /\ ~AtTarget /\ ~Enough
  /\ NextPart("get")
  /\ UNCHANGED <<manifest, nodes, op, counts, available, files, outcome, ops, hit, touched>>

(* The parts put together again.                                           *)
Assembled ==
  IF layout.mode = "replicas" THEN available[1].blob
  ELSE Decode(available, layout.required, layout.total, Len(Payload))

(* Too few parts, or bytes that fail verification.                         *)
Recovered == Enough /\ Assembled = Payload

FetchEnds ==
  /\ op \in {"fetch", "repair"} /\ stage = "get" /\ (Enough \/ part > layout.total)
  /\ IF op = "repair" /\ Recovered
     THEN Rewind("check") /\ files' = Parts(Assembled) /\ UNCHANGED <<op, fetched, proofs, touched, hit>>
     ELSE /\ Done /\ hit' = (IF op = "repair" THEN {} ELSE hit)
          /\ fetched' = IF Recovered THEN [ok |-> TRUE, blob |-> Assembled] ELSE [ok |-> FALSE, blob |-> <<>>]
  /\ UNCHANGED <<manifest, nodes, report, ops>>

(***************************************************************************)
(* auditStoredBlob(), over every target of every part                      *)
(***************************************************************************)

(* The node answers the fresh nonce: with the digest of the bytes it has,  *)
(* or with something else.  Or it does not answer as it should.            *)
Challenge ==
  /\ At({"audit"}, "challenge")
  /\ IF Here \in up
     THEN /\ stage' \in (IF holds[Here] = parts[part] THEN {"retrieval", "lied"} ELSE {"lied"})
          /\ UNCHANGED <<part, target, groups, counts>>
     ELSE NextTarget("challenge")
  /\ UNCHANGED <<manifest, nodes, op, available, files, outcome, ops, hit, touched>>

(* The bytes are retrieved, and the digest computed from them.             *)
Proves == stage = "retrieval" /\ Serves(Here)

Retrieve ==
  /\ op = "audit" /\ stage \in {"retrieval", "lied"} /\ AtTarget
  /\ proofs' = IF Proves THEN proofs \cup {Here} ELSE proofs
  /\ NextTarget("challenge")
  /\ UNCHANGED <<manifest, nodes, op, available, files, report, fetched, ops, hit, touched>>

AuditEnds ==
  /\ op = "audit" /\ stage = "challenge" /\ ~AtTarget
  /\ IF part < layout.total
     THEN NextPart("challenge") /\ UNCHANGED <<op, counts, available, files, proofs, touched>>
     ELSE Done
  /\ UNCHANGED <<manifest, nodes, report, fetched, ops, hit>>

(***************************************************************************)
(* The nodes                                                               *)
(***************************************************************************)

Touches(n) == touched' = IF op = Absent THEN touched ELSE touched \cup {n}

Fault(n) ==
  /\ faults < MaxFaults /\ faults' = faults + 1
  /\ hit' = IF op \in Writing \/ (report # Absent /\ report.protected) THEN hit \cup {Group[n]} ELSE hit
  /\ Touches(n)
  /\ UNCHANGED <<manifest, op, work, outcome, ops>>

NodeFails(n) == n \in up /\ up' = up \ {n} /\ Fault(n) /\ UNCHANGED holds

NodeSpoils(n) == holds[n] # Absent /\ holds[n] # Spoiled /\ holds' = [holds EXCEPT ![n] = Spoiled] /\ Fault(n) /\ UNCHANGED up

NodeLoses(n) == holds[n] # Absent /\ holds' = [holds EXCEPT ![n] = Absent] /\ Fault(n) /\ UNCHANGED up

NodeReturns(n) ==
  /\ n \notin up /\ up' = up \cup {n} /\ Touches(n)
  /\ UNCHANGED <<manifest, holds, faults, op, work, outcome, ops, hit>>

Step ==
  \/ SkipTarget \/ CheckTarget \/ PutPart \/ PutFails \/ VerifyPart \/ PartEnds \/ Reports
  \/ GetPart \/ NoMoreTargets \/ FetchEnds
  \/ Challenge \/ Retrieve \/ AuditEnds

PoolNext ==
  \/ UploadPool \/ FetchPool \/ Repair \/ Audit \/ Cancel \/ Step
  \/ \E n \in PoolNodes : NodeFails(n) \/ NodeSpoils(n) \/ NodeLoses(n) \/ NodeReturns(n)
  \/ op = Absent /\ ops = MaxOps /\ UNCHANGED poolVars

PoolSpec == PoolInit /\ [][PoolNext]_poolVars

(***************************************************************************)
(* Properties                                                              *)
(***************************************************************************)

(* The parts some node can still give.                                     *)
Reachable == {i \in 1..layout.total : \E n \in ToSet(targets[i]) : n \in up /\ holds[n] = parts[i]}

(* How many failure groups a protected layout can lose.                    *)
Tolerance == IF layout.mode = "replicas" THEN layout.copies - 1 ELSE layout.total - layout.required

(* "tolerates any two missing parts": once an upload or a repair has       *)
(* reported the file protected, it can be recovered although as many whole *)
(* failure groups as the layout tolerates have failed since it began.      *)
ProtectedSurvives ==
  report # Absent /\ report.protected /\ Cardinality(hit) <= Tolerance => Cardinality(Reachable) >= layout.required

(* What the decoder owes the pool: any choice of as many parts as are      *)
(* required, in order, gives the file back (decodeParts over Reed-Solomon; *)
(* see Erasure).                                                           *)
AnyPartsSuffice ==
  \A l \in Layouts : l.mode = "erasure" =>
    \A chosen \in [1..l.required -> 1..l.total] :
      (\A j, k \in 1..l.required : j < k => chosen[j] < chosen[k]) =>
        Decode([k \in 1..l.required |-> [index |-> chosen[k], blob |-> Encode(Payload, l.required, l.total)[chosen[k]]]],
               l.required, l.total, Len(Payload)) = Payload

(* A fetch fails only if parts are really missing: counting only nodes     *)
(* nothing happened to during the fetch, fewer parts than required could   *)
(* be had.  Any sufficient choice of parts gives the file back.            *)
FailsOnlyIfLost ==
  [][fetched = Absent /\ fetched' # Absent /\ ~fetched'.ok =>
       Cardinality({i \in Reachable : \E n \in ToSet(targets[i]) : n \in up \ touched /\ holds[n] = parts[i]}) < layout.required]_poolVars

(* A fetch that returns gives the payload, and an upload or repair places  *)
(* on a node no other bytes than its part's.                               *)
OnlyItsPart ==
  /\ fetched # Absent /\ fetched.ok => fetched.blob = Payload
  /\ \A i \in DOMAIN targets : \A n \in ToSet(targets[i]) : holds[n] \in {Absent, Spoiled, parts[i]}

(* "Never trust a server's own hash assertion": a target the audit has     *)
(* verified held the bytes, unless something happened to it meanwhile.     *)
AuditsAreTrue ==
  op = "audit" => \A i \in DOMAIN targets : \A n \in ToSet(targets[i]) :
    n \in proofs \ touched => n \in up /\ holds[n] = parts[i]

(* A group holds at most one part of the file, though repairs have added   *)
(* nodes: losing it loses at most one part.                                *)
OnePartPerGroup ==
  \A i, j \in DOMAIN targets : \A m \in ToSet(targets[i]), n \in ToSet(targets[j]) :
    holds[m] # Absent /\ holds[n] # Absent /\ Group[m] = Group[n] => i = j

(* Nodes hold their own part and no other, one of a group at most, and an  *)
(* audit believes only bytes.                                              *)
PartsFit == PoolTypeOK /\ OnlyItsPart /\ AuditsAreTrue /\ OnePartPerGroup
=============================================================================
