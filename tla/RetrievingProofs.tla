-------------------------- MODULE RetrievingProofs --------------------------
(***************************************************************************)
(* Proofs about Retrieving, for any number of handlers, events, torrents   *)
(* and pools.  ShownFits and PeersFit are inductive together.  Almost      *)
(* every step only weakens the handlers that wait, by aborting, outdating, *)
(* advancing or ending them: Quiet says so, and the lemmas about quiet     *)
(* steps prove the invariant one part at a time.                           *)
(***************************************************************************)
EXTENDS Retrieving, FiniteSetTheorems, TLAPS

RetrievingInv == ShownFits /\ PeersFit

TaskTable == [Slots -> Tasks \cup {Idle}]

(* The stages from which a handler can still show or keep something.       *)
Open(t) == t.stage \notin {"leaving", "dropping", "failing"}
Joins(t) == t.stage \in {"loading", "joining", "reveal"}
Repairing == {"signing", "transfer"}

(* The handler u may do no more than t might.                              *)
Weaker(u, t) ==
  /\ u.kind = t.kind /\ u.event = t.event
  /\ (t.aborted => u.aborted) /\ (u.fresh => t.fresh) /\ (Open(u) => Open(t))
  /\ u.stage = "leaving" => t.stage = "leaving"
  /\ u.stage = "loading" => t.stage = "loading"
  /\ u.stage = "joining" => t.stage = "joining" \/ (t.stage = "loading" /\ t.kind \in {"swarm", "seed"})
  /\ u.stage = "joining" /\ u.aborted => t.stage = "joining" /\ t.aborted
  /\ u.kind = "swarm" /\ Joins(u) => Joins(t)
  /\ t.kind = "repair" /\ t.stage \in Repairing => u.stage \in Repairing

Weakens(new, ts) ==
  /\ new \in TaskTable
  /\ \A s \in Slots : /\ new[s].kind = ts[s].kind
                      /\ ts[s].kind # None => Weaker(new[s], ts[s])

(* A step begins no attempt to join a swarm.                               *)
Quiet ==
  /\ tasks' \in TaskTable
  /\ \A s \in Slots : tasks'[s].kind # None =>
       \/ tasks'[s].kind \in {"load", "lookup"} /\ tasks'[s].stage = "asking"
       \/ tasks'[s].kind \in {"fetch", "repair"} /\ tasks'[s].stage \in Repairing
       \/ tasks[s].kind # None /\ Weaker(tasks'[s], tasks[s])

Live(s) == Busy(s) /\ tasks[s].kind \in Transfers /\ ~tasks[s].aborted /\ Open(tasks[s])
FreshLoad(s) == tasks[s].kind = "load" /\ tasks[s].fresh
Repairs(s) == Busy(s) /\ tasks[s].kind = "repair" /\ ~tasks[s].aborted
SwarmAttempt(s) == Attempt(s) /\ tasks[s].kind = "swarm"
SeedAttempt(s) == Attempt(s) /\ tasks[s].kind = "seed"
SwarmConsent == "swarm" \in consents \/ unsure

(* The parts of the invariant: what belongs to the retrieval, ...          *)
RetrievalInv ==
  /\ session => SwarmConsent /\ profile = "direct" /\ ~ended /\ stopping["retrieval"] = 0
  /\ \A s \in Slots : Leaving(s) =>
       /\ ~session /\ stopping["retrieval"] = 0 /\ download # s
       /\ \A t \in Slots : Leaving(t) => t = s
  /\ \A s \in Slots : SwarmAttempt(s) =>
       SwarmConsent /\ ~session /\ stopping["retrieval"] = 0 /\ \A t \in Slots : ~Leaving(t)

(* ... to the seeding, ...                                                 *)
SeedingInv ==
  /\ seedSession => "seed" \in consents /\ profile = "direct" /\ plan /\ ~ended /\ stopping["seed"] = 0
  /\ \A s \in Slots : SeedAttempt(s) =>
       /\ seeder = s /\ "seed" \in consents /\ profile = "direct" /\ plan /\ ~ended /\ ~seedSession
       /\ stopping["seed"] = 0

(* ... to the repair of a pool, and to those that are joining.             *)
RepairInv == \A s \in Slots : Repairs(s) => "repair" \in consents

JoiningInv ==
  /\ \A s \in Slots : Busy(s) /\ tasks[s].stage = "joining" => Attempt(s)
  /\ \A s \in Slots : tasks[s].kind = "swarm" => tasks[s].event \in Torrents
  /\ \A s \in Slots : tasks[s].kind = "repair" => tasks[s].stage \in Repairing

(***************************************************************************)
(* Pending stops and the parts of the invariant                            *)
(***************************************************************************)

(* pendingPeerStops is zero when nothing is stopped in the background and  *)
(* no handler waits for the session before.                                *)
LEMMA PendingFacts ==
  ASSUME TypeOK
  PROVE  /\ Pending("seed") = stopping["seed"]
         /\ Pending("retrieval") = 0 <=> (stopping["retrieval"] = 0 /\ \A s \in Slots : ~Leaving(s))
         /\ Pending("retrieval") > 0 <=> (stopping["retrieval"] # 0 \/ \E s \in Slots : Leaving(s))
  <1> DEFINE L == {s \in Slots : Leaving(s)}
  <1>1. stopping["seed"] \in Nat /\ stopping["retrieval"] \in Nat
    BY DEF TypeOK
  <1>2. Pending("seed") = stopping["seed"]
    <2>1. {s \in Slots : "seed" = "retrieval" /\ Busy(s) /\ tasks[s].stage = "leaving"} = {}
      OBVIOUS
    <2> QED
      BY <1>1, <2>1, FS_EmptySet DEF Pending
  <1>3. Pending("retrieval") = stopping["retrieval"] + Cardinality(L)
    BY DEF Pending, Leaving
  <1>4. IsFiniteSet(L)
    BY RetrievingAssumption, FS_Subset
  <1>5. Cardinality(L) \in Nat /\ (Cardinality(L) = 0 <=> L = {})
    BY <1>4, FS_CardinalityType, FS_EmptySet
  <1>6. L = {} <=> \A s \in Slots : ~Leaving(s)
    OBVIOUS
  <1> HIDE DEF L
  <1> QED
    BY <1>1, <1>2, <1>3, <1>5, <1>6

Parts ==
  /\ TypeOK /\ ShownIsWanted /\ OneTransfer /\ ShownInv
  /\ RetrievalInv /\ SeedingInv /\ RepairInv /\ JoiningInv

LEMMA PartsOfInv == RetrievingInv => Parts
  <1> SUFFICES ASSUME RetrievingInv PROVE Parts
    OBVIOUS
  <1>1. /\ TypeOK /\ ShownIsWanted /\ OneTransfer /\ ShownInv
        /\ PeersHaveConsent /\ SessionsEndFirst /\ PeersInv
    BY DEF RetrievingInv, ShownFits, PeersFit
  <1>2. stopping["seed"] \in Nat /\ stopping["retrieval"] \in Nat
    BY <1>1 DEF TypeOK
  <1>3. RetrievalInv
    <2>1. \A s \in Slots : SwarmAttempt(s) => ~(Pending("retrieval") > 0)
      BY <1>1 DEF SessionsEndFirst, SwarmAttempt, Attempt
    <2> QED
      BY <1>1, <1>2, <2>1, PendingFacts DEF PeersHaveConsent, PeersInv, RetrievalInv, SwarmAttempt, SwarmConsent
  <1>4. SeedingInv
    <2>1. \A s \in Slots : SeedAttempt(s) => ~(Pending("seed") > 0)
      BY <1>1 DEF SessionsEndFirst, SeedAttempt, Attempt
    <2> QED
      BY <1>1, <1>2, <2>1, PendingFacts DEF PeersHaveConsent, PeersInv, SeedingInv, SeedAttempt
  <1>5. RepairInv
    BY <1>1 DEF PeersHaveConsent, RepairInv, Repairs
  <1>6. JoiningInv
    BY <1>1 DEF PeersInv, JoiningInv, Repairing
  <1> QED
    BY <1>1, <1>3, <1>4, <1>5, <1>6 DEF Parts

(* A swarm is joined for the event that is shown, hence outside Tor and    *)
(* before the page is left.                                                *)
LEMMA InvOfParts == Parts => RetrievingInv
  <1> SUFFICES ASSUME Parts PROVE RetrievingInv
    OBVIOUS
  <1>1. /\ TypeOK /\ ShownIsWanted /\ OneTransfer /\ ShownInv
        /\ RetrievalInv /\ SeedingInv /\ RepairInv /\ JoiningInv
    BY DEF Parts
  <1>2. stopping["seed"] \in Nat /\ stopping["retrieval"] \in Nat
    BY <1>1 DEF TypeOK
  <1>3. PeersInv
    BY <1>1 DEF PeersInv, RetrievalInv, SeedingInv, JoiningInv, SwarmAttempt, SeedAttempt, SwarmConsent, Repairing
  <1>4. SessionsEndFirst
    <2>1. Pending("seed") > 0 => ~seedSession /\ \A s \in Slots : ~SeedAttempt(s)
      BY <1>1, <1>2, PendingFacts DEF SeedingInv
    <2>2. Pending("retrieval") > 0 => ~session /\ \A s \in Slots : ~SwarmAttempt(s)
      BY <1>1, <1>2, PendingFacts DEF RetrievalInv
    <2> QED
      BY <2>1, <2>2 DEF SessionsEndFirst, SeedAttempt, SwarmAttempt, Attempt
  <1>5. ASSUME NEW s \in Slots, Busy(s), tasks[s].stage = "joining"
        PROVE  /\ profile = "direct" /\ ~ended
               /\ IF tasks[s].kind = "swarm" THEN SwarmConsent ELSE "seed" \in consents
    <2>1. Attempt(s)
      BY <1>1, <1>5 DEF JoiningInv
    <2>2. CASE tasks[s].kind = "swarm"
      <3>1. resolved = tasks[s].event /\ tasks[s].event \in Torrents
        BY <1>1, <1>5, <2>1, <2>2 DEF OneTransfer, JoiningInv, Attempt, Transfers
      <3>2. profile = "direct" /\ ~ended
        BY <1>1, <3>1, RetrievingAssumption DEF ShownInv
      <3> QED
        BY <1>1, <2>1, <2>2, <3>2 DEF RetrievalInv, SwarmAttempt
    <2>3. CASE tasks[s].kind = "seed"
      BY <1>1, <2>1, <2>3 DEF SeedingInv, SeedAttempt
    <2> QED
      BY <2>1, <2>2, <2>3 DEF Attempt
  <1>6. PeersHaveConsent
    BY <1>1, <1>5 DEF PeersHaveConsent, RetrievalInv, SeedingInv, RepairInv, Repairs, SwarmConsent
  <1> QED
    BY <1>1, <1>3, <1>4, <1>6 DEF RetrievingInv, ShownFits, PeersFit

(***************************************************************************)
(* What the steps make of the handlers                                     *)
(***************************************************************************)

LEMMA TaskType ==
  ASSUME NEW ts \in TaskTable, NEW s \in Slots
  PROVE  /\ ts[s].kind # None => ts[s] \in Tasks
         /\ ts[s] \in Tasks => ts[s].kind # None /\ ts[s].kind \in Kinds
         /\ ts[s] \in Tasks \/ ts[s] = Idle
  BY RetrievingAssumption DEF TaskTable, Tasks, Idle

LEMMA IdleKind == Idle.kind = None /\ Idle \notin Tasks
  BY RetrievingAssumption DEF Idle, Tasks

LEMMA WeakensItself ==
  ASSUME NEW ts \in TaskTable
  PROVE  Weakens(ts, ts)
  BY DEF Weakens, Weaker, Open, Joins

LEMMA WeakensTwice ==
  ASSUME NEW a, NEW b, NEW c, Weakens(a, b), Weakens(b, c)
  PROVE  Weakens(a, c)
  BY DEF Weakens, Weaker

(* One handler is replaced.                                                *)
LEMMA UpdateFacts ==
  ASSUME NEW ts \in TaskTable, NEW s \in Slots, NEW r \in Tasks \cup {Idle}
  PROVE  /\ [ts EXCEPT ![s] = r] \in TaskTable
         /\ [ts EXCEPT ![s] = r][s] = r
         /\ \A t \in Slots : t # s => [ts EXCEPT ![s] = r][t] = ts[t]
  BY DEF TaskTable

(* abort() weakens the handler that holds the controller.                  *)
LEMMA AbortOfFacts ==
  ASSUME NEW ts \in TaskTable, NEW h \in Slots \cup {None}, h # None => ts[h].kind # None
  PROVE  /\ Weakens(AbortOf(ts, h), ts)
         /\ h # None => AbortOf(ts, h)[h].aborted
  <1>1. CASE h = None
    <2>1. AbortOf(ts, h) = ts
      BY <1>1 DEF AbortOf
    <2> QED
      BY <1>1, <2>1, WeakensItself
  <1>2. CASE h \in Slots
    <2> DEFINE st == IF ts[h].stage = "joining" THEN "failing" ELSE ts[h].stage
               u == [ts[h] EXCEPT !.aborted = TRUE, !.stage = st]
    <2>0. h # None
      BY <1>2, RetrievingAssumption
    <2>1. ts[h] \in Tasks
      BY <1>2, <2>0, TaskType
    <2>2. st \in Stages /\ st # "joining" /\ (st = ts[h].stage \/ (ts[h].stage = "joining" /\ st = "failing"))
      BY <2>1 DEF Stages, Tasks
    <2>3. AbortOf(ts, h) = [ts EXCEPT ![h] = u]
      BY <1>2, <2>0, <2>1 DEF AbortOf, Tasks, TaskTable
    <2> HIDE DEF st
    <2>4. /\ u \in Tasks /\ u.kind = ts[h].kind /\ u.event = ts[h].event /\ u.fresh = ts[h].fresh
          /\ u.aborted /\ u.stage = st
      BY <2>1, <2>2 DEF Tasks
    <2> HIDE DEF u
    <2>5. Weaker(u, ts[h])
      BY <2>2, <2>4 DEF Weaker, Open, Joins, Repairing
    <2>6. AbortOf(ts, h) \in TaskTable /\ AbortOf(ts, h)[h] = u /\ \A t \in Slots : t # h => AbortOf(ts, h)[t] = ts[t]
      <3>1. u \in Tasks \cup {Idle}
        BY <2>4
      <3> DEFINE new == [ts EXCEPT ![h] = u]
      <3>2. new \in TaskTable /\ new[h] = u /\ \A t \in Slots : t # h => new[t] = ts[t]
        BY <1>2, <3>1, UpdateFacts
      <3> HIDE DEF new
      <3>3. AbortOf(ts, h) = new
        BY <2>3 DEF new
      <3> QED
        BY <3>2, <3>3
    <2>7. \A t \in Slots : Weaker(ts[t], ts[t])
      BY DEF Weaker
    <2> QED
      BY <2>4, <2>5, <2>6, <2>7 DEF Weakens
  <1> QED
    BY <1>1, <1>2

(* A new revision outdates every handler but those of the seeding.         *)
LEMMA OutdatedFacts ==
  ASSUME NEW ts \in TaskTable, \A s \in Slots : ts[s].kind = tasks[s].kind
  PROVE  /\ Weakens(Outdated(ts), ts)
         /\ \A s \in Slots : ts[s].kind \notin {None, "seed"} => ~Outdated(ts)[s].fresh
  <1> SUFFICES ASSUME NEW s \in Slots
               PROVE  /\ Outdated(ts)[s] \in Tasks \cup {Idle}
                      /\ Outdated(ts)[s].kind = ts[s].kind
                      /\ ts[s].kind # None => Weaker(Outdated(ts)[s], ts[s])
                      /\ ts[s].kind \notin {None, "seed"} => ~Outdated(ts)[s].fresh
    BY DEF Weakens, Outdated, TaskTable
  <1>1. CASE Busy(s) /\ tasks[s].kind # "seed"
    <2> DEFINE u == [ts[s] EXCEPT !.fresh = FALSE]
    <2>1. ts[s] \in Tasks /\ Outdated(ts)[s] = u
      BY <1>1, TaskType DEF Busy, Outdated
    <2>2. /\ u \in Tasks /\ u.kind = ts[s].kind /\ u.event = ts[s].event /\ u.stage = ts[s].stage
          /\ ~u.fresh /\ u.aborted = ts[s].aborted
      BY <2>1 DEF Tasks
    <2> HIDE DEF u
    <2> QED
      BY <2>1, <2>2 DEF Weaker, Open, Joins
  <1>2. CASE ~(Busy(s) /\ tasks[s].kind # "seed")
    <2>1. Outdated(ts)[s] = ts[s] /\ ts[s].kind \in {None, "seed"}
      BY <1>2 DEF Outdated, Busy
    <2> QED
      BY <2>1 DEF TaskTable, Weaker
  <1> QED
    BY <1>1, <1>2

(* resetResolution() leaves no transfer that could still show its file and *)
(* no handler that is current, but those of the seeding.                   *)
LEMMA ClearedFacts ==
  ASSUME Parts, NEW ts, Weakens(ts, tasks)
  PROVE  /\ Weakens(Cleared(ts), tasks) /\ Weakens(Cleared(ts), ts)
         /\ \A s \in Slots : tasks[s].kind \notin {None, "seed"} =>
              /\ ~Cleared(ts)[s].fresh
              /\ tasks[s].kind \in Transfers /\ Open(Cleared(ts)[s]) => Cleared(ts)[s].aborted
  <1> DEFINE a == AbortOf(ts, lookup)
             b == AbortOf(a, download)
  <1>0. TypeOK /\ tasks \in TaskTable /\ OneTransfer
    BY DEF Parts, TypeOK, TaskTable
  <1>1. /\ lookup \in Slots \cup {None} /\ download \in Slots \cup {None}
        /\ lookup # None => tasks[lookup].kind # None
        /\ download # None => tasks[download].kind # None
    BY <1>0, RetrievingAssumption DEF TypeOK, Transfers, Kinds
  <1>2. Weakens(a, ts)
    <2>1. ts \in TaskTable /\ (lookup # None => ts[lookup].kind # None)
      BY <1>1 DEF Weakens
    <2> QED
      BY <1>1, <2>1, AbortOfFacts
  <1> HIDE DEF a
  <1>3. Weakens(b, a) /\ (download # None => b[download].aborted)
    <2>1. a \in TaskTable /\ (download # None => a[download].kind # None)
      BY <1>1, <1>2 DEF Weakens
    <2> QED
      BY <1>1, <2>1, AbortOfFacts
  <1> HIDE DEF b
  <1>4. Weakens(b, ts) /\ Weakens(b, tasks)
    BY <1>2, <1>3, WeakensTwice
  <1>5. Weakens(Outdated(b), b) /\ \A s \in Slots : b[s].kind \notin {None, "seed"} => ~Outdated(b)[s].fresh
    BY <1>4, OutdatedFacts DEF Weakens
  <1>6. Cleared(ts) = Outdated(b)
    BY DEF Cleared, a, b
  <1>7. Weakens(Cleared(ts), tasks) /\ Weakens(Cleared(ts), ts)
    BY <1>4, <1>5, <1>6, WeakensTwice
  <1>8. ASSUME NEW s \in Slots, tasks[s].kind \in Transfers, Open(Cleared(ts)[s])
        PROVE  Cleared(ts)[s].aborted
    <2>1. tasks[s].kind # None
      BY <1>8, RetrievingAssumption DEF Transfers, Kinds
    <2>2. Open(tasks[s])
      BY <1>7, <1>8, <2>1 DEF Weakens, Weaker
    <2>3. tasks[s].aborted \/ download = s
      BY <1>0, <1>8, <2>1, <2>2 DEF OneTransfer, Busy, Open
    <2>4. b[s].aborted
      BY <1>3, <1>4, <2>1, <2>3, RetrievingAssumption DEF Weakens, Weaker
    <2> QED
      BY <1>4, <1>5, <1>6, <2>1, <2>4 DEF Weakens, Weaker
  <1> QED
    BY <1>4, <1>5, <1>6, <1>7, <1>8 DEF Weakens

(* resetPublicationAfterInspection() aborts the seeding, and the transfer  *)
(* of a pool.                                                              *)
LEMMA AbortedPublicationFacts ==
  ASSUME Parts
  PROVE  /\ Weakens(AbortedPublication, tasks)
         /\ seeder # None => AbortedPublication[seeder].aborted
         /\ resolved \in Pools /\ download # None => AbortedPublication[download].aborted
  <1> DEFINE a == AbortOf(tasks, seeder)
  <1>0. TypeOK /\ tasks \in TaskTable
    BY DEF Parts, TypeOK, TaskTable
  <1>1. /\ seeder \in Slots \cup {None} /\ download \in Slots \cup {None}
        /\ seeder # None => tasks[seeder].kind # None
        /\ download # None => tasks[download].kind # None
    BY <1>0, RetrievingAssumption DEF TypeOK, Transfers, Kinds
  <1>2. Weakens(a, tasks) /\ (seeder # None => a[seeder].aborted)
    BY <1>0, <1>1, AbortOfFacts
  <1> HIDE DEF a
  <1>3. Weakens(AbortOf(a, download), a) /\ (download # None => AbortOf(a, download)[download].aborted)
    <2>1. a \in TaskTable /\ (download # None => a[download].kind # None)
      BY <1>1, <1>2 DEF Weakens
    <2> QED
      BY <1>1, <2>1, AbortOfFacts
  <1>4. CASE resolved \in Pools
    <2>1. AbortedPublication = AbortOf(a, download)
      BY <1>4 DEF AbortedPublication, a
    <2>2. Weakens(AbortedPublication, tasks)
      BY <1>2, <1>3, <2>1, WeakensTwice
    <2>3. seeder # None => AbortedPublication[seeder].aborted
      BY <1>1, <1>2, <1>3, <2>1 DEF Weakens, Weaker
    <2> QED
      BY <1>3, <2>1, <2>2, <2>3
  <1>5. CASE resolved \notin Pools
    <2>1. AbortedPublication = a
      BY <1>5 DEF AbortedPublication, a
    <2> QED
      BY <1>2, <1>5, <2>1
  <1> QED
    BY <1>4, <1>5

(***************************************************************************)
(* Quiet steps                                                             *)
(***************************************************************************)

(* The handlers that leave or join after a quiet step did so before.       *)
LEMMA QuietFacts ==
  ASSUME Parts, Quiet
  PROVE  /\ \A s \in Slots : Leaving(s)' => Leaving(s)
         /\ \A s \in Slots : SwarmAttempt(s)' => SwarmAttempt(s)
         /\ \A s \in Slots : SeedAttempt(s)' => SeedAttempt(s)
         /\ JoiningInv'
  <1>0. JoiningInv
    BY DEF Parts
  <1>1. \A s \in Slots : Leaving(s)' => Leaving(s)
    BY DEF Quiet, Leaving, Busy, Weaker, Repairing
  <1>2. \A s \in Slots : SwarmAttempt(s)' => SwarmAttempt(s)
    BY DEF Quiet, SwarmAttempt, Attempt, Busy, Weaker, Joins
  <1>3. \A s \in Slots : SeedAttempt(s)' => SeedAttempt(s)
    BY DEF Quiet, SeedAttempt, Attempt, Busy, Weaker
  <1>4. ASSUME NEW s \in Slots, Busy(s)', tasks'[s].stage = "joining"
        PROVE  Attempt(s)'
    <2>1. tasks[s].kind # None /\ Weaker(tasks'[s], tasks[s])
      BY <1>4 DEF Quiet, Busy, Repairing
    <2>2. CASE tasks[s].stage = "joining"
      <3>1. Attempt(s)
        BY <1>0, <2>1, <2>2 DEF JoiningInv, Busy
      <3> QED
        BY <1>4, <2>1, <2>2, <3>1 DEF Attempt, Weaker
    <2>3. CASE tasks[s].stage # "joining"
      BY <1>4, <2>1, <2>3 DEF Attempt, Weaker
    <2> QED
      BY <2>2, <2>3
  <1>5. ASSUME NEW s \in Slots, tasks'[s].kind = "swarm"
        PROVE  tasks'[s].event \in Torrents
    <2>1. tasks'[s].kind # None
      BY <1>5, RetrievingAssumption DEF Kinds
    <2> QED
      BY <1>0, <1>5, <2>1 DEF Quiet, JoiningInv, Weaker
  <1>6. ASSUME NEW s \in Slots, tasks'[s].kind = "repair"
        PROVE  tasks'[s].stage \in Repairing
    <2>1. tasks'[s].kind # None
      BY <1>6, RetrievingAssumption DEF Kinds
    <2> QED
      BY <1>0, <1>6, <2>1 DEF Quiet, JoiningInv, Weaker
  <1> QED
    BY <1>1, <1>2, <1>3, <1>4, <1>5, <1>6 DEF JoiningInv

(* A quiet step that leaves the retrieval session alone, ...               *)
LEMMA RetrievalKept ==
  ASSUME Parts, Quiet, UNCHANGED <<session, profile, ended>>, stopping'["retrieval"] = stopping["retrieval"],
         SwarmConsent => SwarmConsent', \A s \in Slots : Leaving(s)' => download' # s
  PROVE  RetrievalInv'
  BY QuietFacts DEF Parts, RetrievalInv

(* ... or ends it and every attempt.                                       *)
LEMMA RetrievalEnds ==
  ASSUME Parts, Quiet, ~session', \A s \in Slots : ~SwarmAttempt(s)',
         \A s \in Slots : Leaving(s)' => stopping'["retrieval"] = 0 /\ download' # s
  PROVE  RetrievalInv'
  BY QuietFacts DEF Parts, RetrievalInv

(* A quiet step that leaves the seeding alone, ...                         *)
LEMMA SeedingKept ==
  ASSUME Parts, Quiet, UNCHANGED <<seedSession, profile, plan, ended>>, stopping'["seed"] = stopping["seed"],
         "seed" \in consents => "seed" \in consents', \A s \in Slots : SeedAttempt(s)' => seeder' = seeder
  PROVE  SeedingInv'
  BY QuietFacts DEF Parts, SeedingInv

(* ... or ends it.                                                         *)
LEMMA SeedingEnds ==
  ASSUME Parts, Quiet, ~seedSession', \A s \in Slots : ~SeedAttempt(s)'
  PROVE  SeedingInv'
  BY QuietFacts DEF Parts, SeedingInv

(* A quiet step that starts no transfer keeps the one there is, or ends it *)
(* with everything it could still show.                                    *)
LEMMA OneTransferKept ==
  ASSUME Parts, \A s \in Slots : Live(s)' => Live(s) /\ tasks'[s].event = tasks[s].event,
         UNCHANGED <<download, resolved, link>> \/ \A s \in Slots : ~Live(s)'
  PROVE  OneTransfer'
  <1>1. \A s \in Slots : Live(s) => download = s /\ tasks[s].event = resolved /\ link = None
    BY DEF Parts, OneTransfer, Live, Open
  <1>2. \A s \in Slots : Live(s)' => download' = s /\ tasks'[s].event = resolved' /\ link' = None
    BY <1>1
  <1> QED
    BY <1>2 DEF OneTransfer, Live, Open

(* A controller is kept as long as its handler is.                         *)
Holders ==
  /\ {lookup, download, seeder} \subseteq Slots \cup {None}
  /\ lookup # None => tasks[lookup].kind = "lookup"
  /\ download # None => tasks[download].kind \in Transfers
  /\ seeder # None => tasks[seeder].kind = "seed"

LEMMA HoldersKept ==
  ASSUME Parts, lookup' \in {lookup, None}, download' \in {download, None}, seeder' \in {seeder, None},
         \A s \in Slots : s \in {lookup', download', seeder'} => tasks'[s].kind = tasks[s].kind
  PROVE  Holders'
  BY DEF Parts, TypeOK, Holders

LEMMA StoppedFacts ==
  ASSUME NEW st \in [{"retrieval", "seed"} -> 0..1], NEW k \in {"retrieval", "seed"}, NEW there \in BOOLEAN, there => st[k] = 0
  PROVE  /\ Stopped(st, k, there) \in [{"retrieval", "seed"} -> 0..1]
         /\ Stopped(st, k, there)[k] = IF there THEN 1 ELSE st[k]
         /\ \A j \in {"retrieval", "seed"} : j # k => Stopped(st, k, there)[j] = st[j]
  BY DEF Stopped

LEMMA QuietWeakens ==
  ASSUME Weakens(tasks', tasks)
  PROVE  /\ Quiet
         /\ \A s \in Slots : Live(s)' => Live(s) /\ tasks'[s].event = tasks[s].event
         /\ \A s \in Slots : FreshLoad(s)' => FreshLoad(s)
         /\ \A s \in Slots : Repairs(s)' => Repairs(s)
         /\ \A s \in Slots : tasks'[s].kind = tasks[s].kind
  <1>1. Quiet
    BY DEF Weakens, Quiet
  <1>2. \A s \in Slots : Live(s)' => Live(s) /\ tasks'[s].event = tasks[s].event
    BY DEF Weakens, Weaker, Live, Busy
  <1>3. \A s \in Slots : FreshLoad(s)' => FreshLoad(s)
    BY RetrievingAssumption DEF Weakens, Weaker, FreshLoad, Kinds
  <1>4. \A s \in Slots : Repairs(s)' => Repairs(s)
    BY DEF Weakens, Weaker, Repairs, Busy
  <1> QED
    BY <1>1, <1>2, <1>3, <1>4 DEF Weakens

(***************************************************************************)
(* The steps                                                               *)
(***************************************************************************)

(* resetResolution(), at an edit, a new attempt to resolve, another        *)
(* network or the end of the page: nothing that waits can be shown, and no *)
(* attempt of the retrieval becomes a peer.                                *)
LEMMA ResetStep ==
  ASSUME Parts, NEW ts, Weakens(ts, tasks), tasks' \in TaskTable,
         \A s \in Slots : \/ tasks'[s] = Cleared(ts)[s]
                          \/ /\ tasks[s].kind = None
                             /\ tasks'[s].kind \in {"load", "lookup"} /\ tasks'[s].stage = "asking",
         download' = None, session' = FALSE, stopping'["retrieval"] = IF session THEN 1 ELSE stopping["retrieval"]
  PROVE  /\ Quiet /\ RetrievalInv' /\ RepairInv' /\ OneTransfer' /\ JoiningInv'
         /\ \A s \in Slots : tasks[s].kind \notin {None, "seed"} => ~tasks'[s].fresh
         /\ \A s \in Slots : tasks[s].kind # None => tasks'[s].kind = tasks[s].kind
  <1>1. /\ Weakens(Cleared(ts), tasks)
        /\ \A s \in Slots : tasks[s].kind \notin {None, "seed"} =>
              /\ ~Cleared(ts)[s].fresh
              /\ tasks[s].kind \in Transfers /\ Open(Cleared(ts)[s]) => Cleared(ts)[s].aborted
    BY ClearedFacts
  <1>2. \A s \in Slots : tasks[s].kind # None => tasks'[s] = Cleared(ts)[s]
    OBVIOUS
  <1>3. \A s \in Slots : tasks'[s].kind # None /\ tasks[s].kind = None =>
          tasks'[s].kind \in {"load", "lookup"} /\ tasks'[s].stage = "asking"
    BY <1>1 DEF Weakens
  <1>4. Quiet
    BY <1>1, <1>2, <1>3 DEF Quiet, Weakens
  <1>5. \A s \in Slots : ~Live(s)'
    <2>1. \A s \in Slots : tasks[s].kind # None => ~Live(s)'
      BY <1>1, <1>2, RetrievingAssumption DEF Live, Weakens, Transfers
    <2> QED
      BY <1>3, <2>1 DEF Live, Transfers, Busy
  <1>6. OneTransfer'
    BY <1>5 DEF OneTransfer, Live, Open
  <1>7. JoiningInv'
    BY <1>4, QuietFacts
  <1>8. RepairInv'
    BY <1>5, <1>7 DEF RepairInv, Repairs, JoiningInv, Live, Transfers, Open, Repairing
  <1>9. RetrievalInv'
    <2>1. \A s \in Slots : ~SwarmAttempt(s)'
      BY <1>5 DEF Live, SwarmAttempt, Attempt, Transfers, Open
    <2>2. \A s \in Slots : Leaving(s)' => stopping'["retrieval"] = 0 /\ download' # s
      BY <1>4, QuietFacts, RetrievingAssumption DEF Parts, RetrievalInv
    <2> QED
      BY <1>4, <2>1, <2>2, RetrievalEnds
  <1> QED
    BY <1>1, <1>2, <1>4, <1>6, <1>7, <1>8, <1>9 DEF Weakens

(* A reset that leaves the seeding alone.                                  *)
LEMMA ResolutionStep ==
  ASSUME Parts, tasks' \in TaskTable,
         \A s \in Slots : \/ tasks'[s] = Cleared(tasks)[s]
                          \/ /\ tasks[s].kind = None
                             /\ tasks'[s].kind \in {"load", "lookup"} /\ tasks'[s].stage = "asking",
         stopping' = Stopped(stopping, "retrieval", session), session' = FALSE, download' = None,
         lookup' \in Slots \cup {None}, lookup' # None => tasks'[lookup'].kind = "lookup",
         wanted' \in Events \cup {None}, resolved' \in {None, wanted'}, link' = None,
         consents' = consents \ {"swarm", "repair"}, UNCHANGED <<profile, seeder, seedSession, plan, ended, unsure>>,
         ShownInv'
  PROVE  Parts'
  <1>0. TypeOK /\ tasks \in TaskTable /\ RetrievalInv
    BY DEF Parts, TypeOK, TaskTable
  <1>1. /\ stopping' \in [{"retrieval", "seed"} -> 0..1] /\ stopping'["seed"] = stopping["seed"]
        /\ stopping'["retrieval"] = IF session THEN 1 ELSE stopping["retrieval"]
    BY <1>0, StoppedFacts DEF TypeOK, RetrievalInv
  <1>2. /\ Quiet /\ RetrievalInv' /\ RepairInv' /\ OneTransfer' /\ JoiningInv'
        /\ \A s \in Slots : tasks[s].kind # None => tasks'[s].kind = tasks[s].kind
    BY <1>0, <1>1, ResetStep, WeakensItself
  <1>3. TypeOK'
    <2>1. seeder' # None => tasks'[seeder'].kind = "seed"
      BY <1>0, <1>2, RetrievingAssumption DEF TypeOK, Kinds
    <2> QED
      BY <1>0, <1>1, <2>1 DEF TypeOK, TaskTable
  <1>4. SeedingInv'
    BY <1>1, <1>2, SeedingKept
  <1>5. ShownIsWanted'
    BY DEF ShownIsWanted
  <1> QED
    BY <1>2, <1>3, <1>4, <1>5 DEF Parts

(* The form is edited, or the event it names is resolved.                  *)
LEMMA ResolvingStep ==
  ASSUME Parts, ~ended,
         (\E e \in Events \cup {None} : EditEvent(e)) \/ VerifySaved \/ \E s \in Slots : LoadSaved(s) \/ Resolve(s)
  PROVE  Parts'
  <1>0. TypeOK /\ tasks \in TaskTable
    BY DEF Parts, TypeOK, TaskTable
  <1> DEFINE c == Cleared(tasks)
  <1>1. /\ c \in TaskTable
        /\ \A s \in Slots : c[s].kind = tasks[s].kind /\ (tasks[s].kind \notin {None, "seed"} => ~c[s].fresh)
    BY <1>0, WeakensItself, ClearedFacts DEF Weakens
  <1>2. \A s \in Slots : c[s].kind = "load" => ~c[s].fresh
    BY <1>1, RetrievingAssumption DEF Kinds
  <1>3. ASSUME NEW e \in Events \cup {None}, EditEvent(e) PROVE Parts'
    <2>1. tasks' = c /\ lookup' = None /\ resolved' = None /\ ended' = ended /\ download' = None
      BY <1>3 DEF EditEvent, ResetResolution
    <2> HIDE DEF c
    <2>2. ShownInv'
      BY <1>2, <2>1, RetrievingAssumption DEF ShownInv
    <2> QED
      BY <1>1, <1>3, <2>1, <2>2, ResolutionStep DEF EditEvent, ResetResolution, c
  <1>4. CASE VerifySaved
    <2>1. /\ tasks' = c /\ lookup' = None /\ ended' = ended /\ download' = None /\ profile' = profile
          /\ resolved' = (IF Resolvable(wanted) THEN wanted ELSE None) /\ wanted' = wanted
      BY <1>4 DEF VerifySaved
    <2> HIDE DEF c
    <2>2. resolved' \in Torrents => profile = "direct"
      BY <1>0, <2>1, RetrievingAssumption DEF Resolvable, TypeOK
    <2>3. ShownInv'
      BY <1>2, <2>1, <2>2 DEF ShownInv
    <2>4. wanted' \in Events \cup {None} /\ resolved' \in {None, wanted'}
      BY <1>0, <2>1 DEF TypeOK
    <2> QED
      BY <1>1, <1>4, <2>1, <2>3, <2>4, ResolutionStep DEF VerifySaved, c
  <1>5. ASSUME NEW s \in Slots, LoadSaved(s) PROVE Parts'
    <2> DEFINE r == [Started("load", "asking") EXCEPT !.event = None]
    <2>1. r \in Tasks /\ r.kind = "load" /\ r.stage = "asking"
      BY <1>0 DEF Started, Tasks, TypeOK, Kinds, Stages
    <2>2. tasks' = [c EXCEPT ![s] = r] /\ tasks[s].kind = None
      BY <1>5 DEF LoadSaved, Busy
    <2> HIDE DEF c, r
    <2>3. tasks' \in TaskTable /\ tasks'[s] = r /\ \A t \in Slots : t # s => tasks'[t] = c[t]
      BY <1>1, <2>1, <2>2 DEF TaskTable
    <2>4. lookup' = None /\ resolved' = None /\ ended' = ended /\ download' = None /\ wanted' = None
      BY <1>5 DEF LoadSaved, ResetResolution
    <2>5. ShownInv'
      BY <1>2, <2>3, <2>4, RetrievingAssumption DEF ShownInv
    <2> QED
      BY <1>5, <2>1, <2>2, <2>3, <2>4, <2>5, ResolutionStep DEF LoadSaved, ResetResolution, c
  <1>6. ASSUME NEW s \in Slots, Resolve(s) PROVE Parts'
    <2> DEFINE r == [Started("lookup", "asking") EXCEPT !.event = wanted]
    <2>1. r \in Tasks /\ r.kind = "lookup" /\ r.stage = "asking"
      BY <1>0 DEF Started, Tasks, TypeOK, Kinds, Stages
    <2>2. tasks' = [c EXCEPT ![s] = r] /\ tasks[s].kind = None
      BY <1>6 DEF Resolve, Busy
    <2> HIDE DEF c, r
    <2>3. tasks' \in TaskTable /\ tasks'[s] = r /\ \A t \in Slots : t # s => tasks'[t] = c[t]
      BY <1>1, <2>1, <2>2 DEF TaskTable
    <2>4. lookup' = s /\ resolved' = None /\ ended' = ended /\ download' = None /\ wanted' = wanted
      BY <1>6 DEF Resolve, ResetResolution
    <2>5. ShownInv'
      BY <1>2, <2>1, <2>3, <2>4, RetrievingAssumption DEF ShownInv
    <2>6. wanted' \in Events \cup {None}
      BY <1>0, <2>4 DEF TypeOK
    <2> QED
      BY <1>6, <2>1, <2>2, <2>3, <2>4, <2>5, <2>6, ResolutionStep DEF Resolve, ResetResolution, c
  <1> QED
    BY <1>3, <1>4, <1>5, <1>6

(* Another network, or the end of the page, ends the seeding as well.      *)
LEMMA LeavingStep ==
  ASSUME Parts, tasks' = Cleared(AbortedPublication), lookup' = None,
         ResetResolution(Stopped(stopping, "seed", seedSession)),
         seeder' = None, seedSession' = FALSE, plan' = FALSE, consents' = {},
         profile' \in {"direct", "tor"}, wanted' \in Events \cup {None}, ended' \in BOOLEAN, unsure' = unsure
  PROVE  Parts'
  <1>0. TypeOK /\ tasks \in TaskTable /\ RetrievalInv /\ SeedingInv
    BY DEF Parts, TypeOK, TaskTable
  <1> DEFINE st == Stopped(stopping, "seed", seedSession)
  <1>1. st \in [{"retrieval", "seed"} -> 0..1] /\ st["retrieval"] = stopping["retrieval"]
    BY <1>0, StoppedFacts DEF TypeOK, SeedingInv
  <1>2. download' = None /\ resolved' = None /\ link' = None /\ session' = FALSE /\ stopping' = Stopped(st, "retrieval", session)
    BY DEF ResetResolution
  <1> HIDE DEF st
  <1>3. /\ stopping' \in [{"retrieval", "seed"} -> 0..1]
        /\ stopping'["retrieval"] = IF session THEN 1 ELSE stopping["retrieval"]
    BY <1>0, <1>1, <1>2, StoppedFacts DEF TypeOK, RetrievalInv
  <1>4. Weakens(AbortedPublication, tasks) /\ (seeder # None => AbortedPublication[seeder].aborted)
    BY AbortedPublicationFacts
  <1>5. Weakens(tasks', tasks) /\ Weakens(tasks', AbortedPublication)
    BY <1>4, ClearedFacts
  <1>6. /\ Quiet /\ RetrievalInv' /\ RepairInv' /\ OneTransfer' /\ JoiningInv'
        /\ \A s \in Slots : tasks[s].kind \notin {None, "seed"} => ~tasks'[s].fresh
    BY <1>2, <1>3, <1>4, <1>5, ResetStep DEF Weakens
  <1>7. SeedingInv'
    <2>1. ASSUME NEW s \in Slots, SeedAttempt(s)' PROVE FALSE
      <3>1. SeedAttempt(s)
        BY <1>6, <2>1, QuietFacts
      <3>2. seeder = s /\ seeder # None /\ tasks[s].kind # None
        BY <1>0, <3>1, RetrievingAssumption DEF SeedingInv, SeedAttempt, Attempt, Busy
      <3>3. tasks'[s].aborted
        BY <1>4, <1>5, <3>2 DEF Weakens, Weaker
      <3> QED
        BY <2>1, <3>3 DEF SeedAttempt, Attempt
    <2> QED
      BY <1>6, <2>1, SeedingEnds
  <1>8. TypeOK'
    BY <1>0, <1>2, <1>3, <1>5 DEF TypeOK, Weakens, TaskTable
  <1>9. ShownIsWanted' /\ ShownInv'
    BY <1>2, <1>5, <1>6, RetrievingAssumption DEF ShownIsWanted, ShownInv, Weakens, Kinds
  <1> QED
    BY <1>6, <1>7, <1>8, <1>9 DEF Parts

LEMMA NetworkStep ==
  ASSUME Parts, EndPage \/ \E p \in {"direct", "tor"} : Reconfigure(p)
  PROVE  Parts'
  <1>0. TypeOK
    BY DEF Parts
  <1>1. CASE EndPage
    BY <1>0, <1>1, LeavingStep DEF EndPage, TypeOK
  <1>2. ASSUME NEW p \in {"direct", "tor"}, Reconfigure(p) PROVE Parts'
    <2>1. ended' \in BOOLEAN /\ wanted' \in Events \cup {None} /\ profile' \in {"direct", "tor"}
      BY <1>0, <1>2 DEF Reconfigure, TypeOK
    <2> QED
      BY <1>2, <2>1, LeavingStep DEF Reconfigure
  <1> QED
    BY <1>1, <1>2

(* Whoever aborts, what is shown and the other handlers stay.              *)
LEMMA AbortStep ==
  ASSUME Parts, Weakens(tasks', tasks),
         UNCHANGED <<profile, wanted, resolved, link, lookup, download, ended>>, seeder' \in {seeder, None}
  PROVE  /\ Quiet /\ tasks' \in TaskTable /\ Holders'
         /\ ShownIsWanted' /\ OneTransfer' /\ ShownInv' /\ JoiningInv'
         /\ \A s \in Slots : Leaving(s)' => download' # s
         /\ \A s \in Slots : Repairs(s)' => Repairs(s) /\ download = s
  <1>1. /\ Quiet /\ \A s \in Slots : Live(s)' => Live(s) /\ tasks'[s].event = tasks[s].event
        /\ \A s \in Slots : FreshLoad(s)' => FreshLoad(s)
        /\ \A s \in Slots : Repairs(s)' => Repairs(s)
        /\ \A s \in Slots : tasks'[s].kind = tasks[s].kind
    BY QuietWeakens
  <1>2. OneTransfer'
    BY <1>1, OneTransferKept
  <1>3. Holders'
    BY <1>1, HoldersKept
  <1>4. ShownIsWanted'
    BY DEF Parts, ShownIsWanted
  <1>5. ShownInv'
    BY <1>1 DEF Parts, ShownInv, FreshLoad
  <1>6. /\ JoiningInv' /\ \A s \in Slots : Leaving(s)' => download' # s
    BY <1>1, QuietFacts DEF Parts, RetrievalInv
  <1>7. \A s \in Slots : Repairs(s) => download = s
    BY DEF Parts, OneTransfer, JoiningInv, Repairs, Transfers, Repairing
  <1> QED
    BY <1>1, <1>2, <1>3, <1>4, <1>5, <1>6, <1>7 DEF Weakens

(* An attempt to join a swarm holds the controller of the download.        *)
LEMMA AttemptHolds ==
  ASSUME Parts
  PROVE  /\ \A s \in Slots : SwarmAttempt(s) => download = s /\ tasks[s].kind = "swarm"
         /\ \A s \in Slots : SeedAttempt(s) => seeder = s
  BY DEF Parts, OneTransfer, SeedingInv, SwarmAttempt, Attempt, Transfers

(* The steps of the user that abort a transfer or the seeding.             *)
LEMMA AbortingStep ==
  ASSUME Parts, EditPublication \/ CancelDownload \/ UntickRepair \/ EditReplacements
  PROVE  Parts'
  <1>0. TypeOK /\ tasks \in TaskTable /\ RepairInv /\ SeedingInv
    BY DEF Parts, TypeOK, TaskTable
  <1>1. download \in Slots \cup {None} /\ (download # None => tasks[download].kind # None)
    BY <1>0, RetrievingAssumption DEF TypeOK, Transfers, Kinds
  <1>2. Weakens(AbortOf(tasks, download), tasks) /\ (download # None => AbortOf(tasks, download)[download].aborted)
    BY <1>0, <1>1, AbortOfFacts
  <1>3. CASE EditPublication
    <2>1. /\ UNCHANGED <<profile, wanted, resolved, link, lookup, download, session, ended, unsure>>
          /\ seeder' = None /\ seedSession' = FALSE /\ plan' = FALSE
          /\ stopping' = Stopped(stopping, "seed", seedSession)
          /\ consents' \subseteq consents /\ ("swarm" \in consents => "swarm" \in consents')
          /\ ("repair" \in consents /\ resolved \notin Pools => "repair" \in consents')
      BY <1>3 DEF EditPublication, shown
    <2>2. /\ Weakens(tasks', tasks)
          /\ seeder # None => tasks'[seeder].aborted
          /\ resolved \in Pools /\ download # None => tasks'[download].aborted
      BY <1>3, AbortedPublicationFacts DEF EditPublication
    <2>3. /\ Quiet /\ tasks' \in TaskTable /\ Holders'
          /\ ShownIsWanted' /\ OneTransfer' /\ ShownInv' /\ JoiningInv'
          /\ \A s \in Slots : Leaving(s)' => download' # s
          /\ \A s \in Slots : Repairs(s)' => Repairs(s) /\ download = s
      BY <2>1, <2>2, AbortStep
    <2>4. stopping' \in [{"retrieval", "seed"} -> 0..1] /\ stopping'["retrieval"] = stopping["retrieval"]
      BY <1>0, <2>1, StoppedFacts DEF TypeOK, SeedingInv
    <2>5. TypeOK'
      BY <1>0, <2>1, <2>3, <2>4 DEF TypeOK, Holders, TaskTable
    <2>6. RetrievalInv'
      BY <2>1, <2>3, <2>4, RetrievalKept DEF SwarmConsent
    <2>7. SeedingInv'
      <3>1. \A s \in Slots : ~SeedAttempt(s)'
        BY <2>2, <2>3, QuietFacts, AttemptHolds, RetrievingAssumption DEF SeedAttempt, Attempt
      <3> QED
        BY <2>1, <2>3, <3>1, SeedingEnds
    <2>8. RepairInv'
      BY <1>0, <2>1, <2>2, <2>3, RetrievingAssumption DEF RepairInv, Repairs
    <2> QED
      BY <2>3, <2>5, <2>6, <2>7, <2>8 DEF Parts
  <1>4. ASSUME Weakens(tasks', tasks), UNCHANGED <<profile, shown, controllers, sessions, plan, ended, unsure>>,
               consents' \in {consents, consents \ {"repair"}},
               consents' = consents \/ \A s \in Slots : ~Repairs(s)'
        PROVE  Parts'
    <2>1. UNCHANGED <<profile, wanted, resolved, link, lookup, download, seeder, session, seedSession, stopping, plan, ended, unsure>>
      BY <1>4 DEF shown, controllers, sessions
    <2>2. /\ Quiet /\ tasks' \in TaskTable /\ Holders'
          /\ ShownIsWanted' /\ OneTransfer' /\ ShownInv' /\ JoiningInv'
          /\ \A s \in Slots : Leaving(s)' => download' # s
          /\ \A s \in Slots : Repairs(s)' => Repairs(s) /\ download = s
      BY <1>4, <2>1, AbortStep
    <2>3. TypeOK'
      BY <1>0, <1>4, <2>1, <2>2 DEF TypeOK, Holders, TaskTable
    <2>4. RetrievalInv'
      BY <1>4, <2>1, <2>2, RetrievalKept DEF SwarmConsent
    <2>5. SeedingInv'
      BY <1>4, <2>1, <2>2, SeedingKept
    <2>6. RepairInv'
      BY <1>0, <1>4, <2>2 DEF RepairInv
    <2> QED
      BY <2>2, <2>3, <2>4, <2>5, <2>6 DEF Parts
  <1>5. ASSUME tasks' = AbortOf(tasks, download), UNCHANGED <<profile, shown, controllers, sessions, plan, ended, unsure>>
        PROVE  \A s \in Slots : ~Repairs(s)'
    <2>1. \A s \in Slots : Repairs(s)' => download = s
      BY <1>2, <1>5, AbortStep DEF shown, controllers
    <2> QED
      BY <1>2, <1>5, <2>1, RetrievingAssumption DEF Repairs
  <1>6. CASE CancelDownload
    BY <1>2, <1>4, <1>6 DEF CancelDownload
  <1>7. CASE UntickRepair
    BY <1>2, <1>4, <1>5, <1>7 DEF UntickRepair, UnrepairedTasks
  <1>8. CASE EditReplacements
    <2>1. CASE download # None /\ tasks[download].kind = "repair"
      BY <1>2, <1>4, <1>5, <1>8, <2>1 DEF EditReplacements
    <2>2. CASE ~(download # None /\ tasks[download].kind = "repair")
      <3>1. tasks' = tasks /\ UNCHANGED <<profile, shown, controllers, sessions, plan, ended, unsure>>
        BY <1>8, <2>2 DEF EditReplacements
      <3>2. Weakens(tasks', tasks)
        BY <1>0, <3>1, WeakensItself
      <3>3. \A s \in Slots : ~Repairs(s)'
        BY <2>2, <3>1, <3>2, AbortStep, RetrievingAssumption DEF Repairs, shown, controllers
      <3> QED
        BY <1>4, <1>8, <3>1, <3>2, <3>3 DEF EditReplacements
    <2> QED
      BY <2>1, <2>2
  <1> QED
    BY <1>3, <1>6, <1>7, <1>8

(* Withdrawing the consent to a swarm, or to seed, and stopping the        *)
(* seeding leave no attempt of that kind.                                  *)
LEMMA WithdrawingStep ==
  ASSUME Parts, UntickSwarm \/ UntickSeed \/ StopSeeding
  PROVE  Parts'
  <1>0. TypeOK /\ tasks \in TaskTable /\ RepairInv /\ RetrievalInv /\ SeedingInv
    BY DEF Parts, TypeOK, TaskTable
  <1>1. /\ download \in Slots \cup {None} /\ (download # None => tasks[download].kind # None)
        /\ seeder \in Slots \cup {None} /\ (seeder # None => tasks[seeder].kind # None)
    BY <1>0, RetrievingAssumption DEF TypeOK, Transfers, Kinds
  <1>2. Weakens(AbortOf(tasks, download), tasks) /\ (download # None => AbortOf(tasks, download)[download].aborted)
    BY <1>0, <1>1, AbortOfFacts
  <1>3. Weakens(AbortOf(tasks, seeder), tasks) /\ (seeder # None => AbortOf(tasks, seeder)[seeder].aborted)
    BY <1>0, <1>1, AbortOfFacts
  <1>4. CASE UntickSwarm
    <2>1. /\ UNCHANGED <<profile, wanted, resolved, link, lookup, download, seeder, seedSession, plan, ended, unsure>>
          /\ session' = FALSE /\ stopping' = Stopped(stopping, "retrieval", session)
          /\ consents' = consents \ {"swarm"} /\ tasks' = Unswarmed
      BY <1>4 DEF UntickSwarm, shown, controllers
    <2>2. Weakens(tasks', tasks)
      BY <1>0, <1>2, <2>1, WeakensItself DEF Unswarmed
    <2>3. /\ Quiet /\ tasks' \in TaskTable /\ Holders'
          /\ ShownIsWanted' /\ OneTransfer' /\ ShownInv' /\ JoiningInv'
          /\ \A s \in Slots : Leaving(s)' => download' # s
          /\ \A s \in Slots : Repairs(s)' => Repairs(s) /\ download = s
      BY <2>1, <2>2, AbortStep
    <2>4. /\ stopping' \in [{"retrieval", "seed"} -> 0..1] /\ stopping'["seed"] = stopping["seed"]
          /\ stopping'["retrieval"] = IF session THEN 1 ELSE stopping["retrieval"]
      BY <1>0, <2>1, StoppedFacts DEF TypeOK, RetrievalInv
    <2>5. TypeOK'
      BY <1>0, <2>1, <2>3, <2>4 DEF TypeOK, Holders, TaskTable
    <2>6. RetrievalInv'
      <3>1. ASSUME NEW s \in Slots, SwarmAttempt(s)' PROVE FALSE
        <4>1. download = s /\ tasks[s].kind = "swarm"
          BY <2>3, <3>1, QuietFacts, AttemptHolds
        <4>2. tasks'[s].aborted
          BY <1>2, <2>1, <4>1, RetrievingAssumption DEF Unswarmed
        <4> QED
          BY <3>1, <4>2 DEF SwarmAttempt, Attempt
      <3>2. \A s \in Slots : Leaving(s)' => stopping'["retrieval"] = 0
        BY <1>0, <2>3, <2>4, QuietFacts DEF RetrievalInv
      <3> QED
        BY <2>1, <2>3, <3>1, <3>2, RetrievalEnds
    <2>7. SeedingInv'
      BY <2>1, <2>3, <2>4, SeedingKept
    <2>8. RepairInv'
      BY <1>0, <2>1, <2>3 DEF RepairInv
    <2> QED
      BY <2>3, <2>5, <2>6, <2>7, <2>8 DEF Parts
  <1>5. ASSUME Weakens(tasks', tasks), \A s \in Slots : ~SeedAttempt(s)', seeder' \in {seeder, None},
               UNCHANGED <<profile, shown, lookup, download, session, plan, ended, unsure>>,
               seedSession' = FALSE, stopping' = Stopped(stopping, "seed", seedSession),
               consents' \in {consents, consents \ {"seed"}}
        PROVE  Parts'
    <2>1. UNCHANGED <<wanted, resolved, link>>
      BY <1>5 DEF shown
    <2>2. /\ Quiet /\ tasks' \in TaskTable /\ Holders'
          /\ ShownIsWanted' /\ OneTransfer' /\ ShownInv' /\ JoiningInv'
          /\ \A s \in Slots : Leaving(s)' => download' # s
          /\ \A s \in Slots : Repairs(s)' => Repairs(s) /\ download = s
      BY <1>5, <2>1, AbortStep
    <2>3. stopping' \in [{"retrieval", "seed"} -> 0..1] /\ stopping'["retrieval"] = stopping["retrieval"]
      BY <1>0, <1>5, StoppedFacts DEF TypeOK, SeedingInv
    <2>4. TypeOK'
      BY <1>0, <1>5, <2>1, <2>2, <2>3 DEF TypeOK, Holders, TaskTable
    <2>5. RetrievalInv'
      BY <1>5, <2>2, <2>3, RetrievalKept DEF SwarmConsent
    <2>6. SeedingInv'
      BY <1>5, <2>2, SeedingEnds
    <2>7. RepairInv'
      BY <1>0, <1>5, <2>2 DEF RepairInv
    <2> QED
      BY <2>2, <2>4, <2>5, <2>6, <2>7 DEF Parts
  <1>6. ASSUME tasks' = AbortOf(tasks, seeder)
        PROVE  \A s \in Slots : ~SeedAttempt(s)'
    <2>1. Quiet
      BY <1>3, <1>6, QuietWeakens
    <2> QED
      BY <1>3, <1>6, <2>1, QuietFacts, AttemptHolds, RetrievingAssumption DEF SeedAttempt, Attempt
  <1>7. CASE UntickSeed
    BY <1>3, <1>5, <1>6, <1>7 DEF UntickSeed
  <1>8. CASE StopSeeding /\ seeder # None
    <2>1. /\ tasks' = AbortOf(tasks, seeder) /\ UNCHANGED <<stopping, seedSession>>
          /\ UNCHANGED <<profile, shown, consents, controllers, session, plan, ended, unsure>>
      BY <1>8 DEF StopSeeding
    <2>2. UNCHANGED <<wanted, resolved, link, lookup, download, seeder>>
      BY <2>1 DEF shown, controllers
    <2>3. /\ Quiet /\ tasks' \in TaskTable /\ Holders'
          /\ ShownIsWanted' /\ OneTransfer' /\ ShownInv' /\ JoiningInv'
          /\ \A s \in Slots : Leaving(s)' => download' # s
          /\ \A s \in Slots : Repairs(s)' => Repairs(s) /\ download = s
      BY <1>3, <2>1, <2>2, AbortStep
    <2>4. TypeOK'
      BY <1>0, <2>1, <2>2, <2>3 DEF TypeOK, Holders, TaskTable
    <2>5. RetrievalInv' /\ SeedingInv'
      BY <2>1, <2>2, <2>3, RetrievalKept, SeedingKept DEF SwarmConsent
    <2>6. RepairInv'
      BY <1>0, <2>1, <2>3 DEF RepairInv
    <2> QED
      BY <2>3, <2>4, <2>5, <2>6 DEF Parts
  <1>9. CASE StopSeeding /\ seeder = None
    <2>1. /\ tasks' = tasks /\ seedSession = TRUE /\ seedSession' = FALSE /\ stopping' = Stopped(stopping, "seed", TRUE)
          /\ UNCHANGED <<profile, shown, consents, controllers, session, plan, ended, unsure>>
      BY <1>0, <1>9 DEF StopSeeding, TypeOK
    <2>2. UNCHANGED <<lookup, download, seeder>>
      BY <2>1 DEF controllers
    <2>3. \A s \in Slots : ~SeedAttempt(s)'
      BY <1>0, <2>1 DEF SeedingInv, SeedAttempt, Attempt, Busy
    <2> QED
      BY <1>0, <1>5, <2>1, <2>2, <2>3, WeakensItself
  <1> QED
    BY <1>4, <1>7, <1>8, <1>9

(* A consent is given, a plan is staged, a stop ends.                      *)
LEMMA PassiveStep ==
  ASSUME Parts,
         Plans \/ (\E c \in {"swarm", "repair", "seed"} : Tick(c)) \/ \E kind \in {"retrieval", "seed"} : Stops(kind)
  PROVE  Parts'
  <1>0. TypeOK /\ tasks \in TaskTable /\ RepairInv /\ RetrievalInv /\ SeedingInv
    BY DEF Parts, TypeOK, TaskTable
  <1>1. ASSUME UNCHANGED <<tasks, profile, shown, controllers, ended>>
        PROVE  /\ Quiet /\ tasks' \in TaskTable /\ Holders'
               /\ ShownIsWanted' /\ OneTransfer' /\ ShownInv' /\ JoiningInv'
               /\ \A s \in Slots : Leaving(s)' => download' # s
               /\ \A s \in Slots : Repairs(s)' => Repairs(s)
    BY <1>0, <1>1, WeakensItself, AbortStep DEF shown, controllers
  <1>2. CASE Plans
    <2>1. UNCHANGED <<profile, shown, consents, controllers, sessions, ended, unsure, tasks>> /\ plan' = TRUE
      BY <1>2 DEF Plans
    <2>2. UNCHANGED <<wanted, resolved, link, lookup, download, seeder, session, seedSession, stopping>>
      BY <2>1 DEF shown, controllers, sessions
    <2>3. TypeOK'
      BY <1>0, <2>1, <2>2 DEF TypeOK
    <2>4. RetrievalInv'
      BY <1>1, <2>1, <2>2, RetrievalKept DEF SwarmConsent
    <2>5. SeedingInv'
      BY <1>0, <2>1, <2>2 DEF SeedingInv, SeedAttempt, Attempt, Busy
    <2>6. RepairInv'
      BY <1>0, <2>1 DEF RepairInv, Repairs, Busy
    <2> QED
      BY <1>1, <2>1, <2>3, <2>4, <2>5, <2>6 DEF Parts
  <1>3. ASSUME NEW c \in {"swarm", "repair", "seed"}, Tick(c) PROVE Parts'
    <2>1. UNCHANGED <<profile, shown, controllers, sessions, plan, ended, tasks>> /\ consents' = consents \cup {c}
      BY <1>3 DEF Tick
    <2>2. UNCHANGED <<wanted, resolved, link, lookup, download, seeder, session, seedSession, stopping>>
      BY <2>1 DEF shown, controllers, sessions
    <2>3. unsure' \in BOOLEAN
      BY <1>3 DEF Tick
    <2>4. SwarmConsent => SwarmConsent'
      BY <1>3 DEF Tick, SwarmConsent
    <2>5. TypeOK'
      BY <1>0, <2>1, <2>2, <2>3 DEF TypeOK
    <2>6. RetrievalInv'
      BY <1>1, <2>1, <2>2, <2>4, RetrievalKept
    <2>7. SeedingInv'
      BY <1>1, <2>1, <2>2, SeedingKept
    <2>8. RepairInv'
      BY <1>0, <2>1 DEF RepairInv, Repairs, Busy
    <2> QED
      BY <1>1, <2>1, <2>5, <2>6, <2>7, <2>8 DEF Parts
  <1>4. ASSUME NEW kind \in {"retrieval", "seed"}, NEW c \in BOOLEAN, StopEnds(kind, c) PROVE Parts'
    <2>1. /\ UNCHANGED <<profile, shown, controllers, session, seedSession, plan, ended, unsure, tasks>>
          /\ stopping[kind] > 0 /\ stopping' = [stopping EXCEPT ![kind] = @ - 1]
          /\ consents' = IF c THEN consents ELSE consents \ {IF kind = "seed" THEN "seed" ELSE "swarm"}
      BY <1>4 DEF StopEnds
    <2>2. UNCHANGED <<wanted, resolved, link, lookup, download, seeder>>
      BY <2>1 DEF shown, controllers
    <2>3. /\ stopping' \in [{"retrieval", "seed"} -> 0..1] /\ stopping[kind] # 0 /\ stopping'[kind] = 0
          /\ \A k \in {"retrieval", "seed"} : k # kind => stopping'[k] = stopping[k]
      BY <1>0, <2>1 DEF TypeOK
    <2>4. TypeOK'
      BY <1>0, <2>1, <2>2, <2>3 DEF TypeOK
    <2>5. RepairInv'
      BY <1>0, <2>1 DEF RepairInv, Repairs, Busy
    <2>6. CASE kind = "retrieval"
      <3>1. ~session' /\ \A s \in Slots : ~SwarmAttempt(s)'
        BY <1>0, <2>1, <2>3, <2>6 DEF RetrievalInv, SwarmAttempt, Attempt, Busy
      <3>2. RetrievalInv'
        BY <1>1, <2>1, <2>3, <2>6, <3>1, RetrievalEnds
      <3>3. SeedingInv'
        BY <1>1, <2>1, <2>2, <2>3, <2>6, SeedingKept
      <3> QED
        BY <1>1, <2>1, <2>4, <2>5, <3>2, <3>3 DEF Parts
    <2>7. CASE kind = "seed"
      <3>1. ~seedSession' /\ \A s \in Slots : ~SeedAttempt(s)'
        BY <1>0, <2>1, <2>3, <2>7 DEF SeedingInv, SeedAttempt, Attempt, Busy
      <3>2. SeedingInv'
        BY <1>1, <2>1, <3>1, SeedingEnds
      <3>3. SwarmConsent => SwarmConsent'
        BY <2>1, <2>7 DEF SwarmConsent
      <3>4. RetrievalInv'
        BY <1>1, <2>1, <2>2, <2>3, <2>7, <3>3, RetrievalKept
      <3> QED
        BY <1>1, <2>1, <2>4, <2>5, <3>2, <3>4 DEF Parts
    <2> QED
      BY <2>6, <2>7
  <1> QED
    BY <1>2, <1>3, <1>4 DEF Stops

(* A quiet step that changes no consent and no session.                    *)
LEMMA KeptStep ==
  ASSUME Parts, Quiet, Holders', ShownIsWanted', OneTransfer', ShownInv',
         wanted' \in Events \cup {None}, resolved' \in Events \cup {None}, link' \in Events \cup {None},
         UNCHANGED <<profile, consents, sessions, plan, ended, unsure>>,
         \A s \in Slots : Leaving(s)' => download' # s,
         \A s \in Slots : Repairs(s)' => "repair" \in consents,
         \A s \in Slots : SeedAttempt(s)' => seeder' = seeder
  PROVE  Parts'
  <1>0. TypeOK
    BY DEF Parts
  <1>1. UNCHANGED <<session, seedSession, stopping>>
    BY DEF sessions
  <1>2. TypeOK'
    BY <1>0, <1>1 DEF TypeOK, Holders, Quiet, TaskTable
  <1>3. RetrievalInv' /\ SeedingInv'
    BY <1>1, RetrievalKept, SeedingKept DEF SwarmConsent
  <1>4. RepairInv' /\ JoiningInv'
    BY QuietFacts DEF RepairInv
  <1> QED
    BY <1>2, <1>3, <1>4 DEF Parts

(* A handler ends.                                                         *)
LEMMA EndFacts ==
  ASSUME Parts, NEW s \in Slots, tasks' = [tasks EXCEPT ![s] = Idle],
         lookup' = IF lookup = s THEN None ELSE lookup, download' = DownloadAfter(s), seeder' = SeederAfter(s)
  PROVE  /\ Quiet /\ Holders' /\ JoiningInv'
         /\ tasks'[s].kind = None /\ \A t \in Slots : t # s => tasks'[t] = tasks[t]
         /\ \A t \in Slots : Live(t)' => Live(t) /\ t # s /\ tasks'[t].event = tasks[t].event
         /\ \A t \in Slots : FreshLoad(t)' => FreshLoad(t) /\ t # s
         /\ \A t \in Slots : Repairs(t)' => "repair" \in consents
         /\ \A t \in Slots : Leaving(t)' => download' # t /\ t # s
         /\ \A t \in Slots : SeedAttempt(t)' => seeder' = seeder /\ t # s
         /\ resolved' = resolved /\ link' = link => OneTransfer'
  <1>0. TypeOK /\ tasks \in TaskTable /\ RepairInv /\ RetrievalInv /\ OneTransfer
    BY DEF Parts, TypeOK, TaskTable
  <1>1. tasks' \in TaskTable /\ tasks'[s].kind = None /\ \A t \in Slots : t # s => tasks'[t] = tasks[t]
    BY <1>0, IdleKind DEF TaskTable
  <1>2. Quiet
    BY <1>1 DEF Quiet, Weaker
  <1>3. /\ \A t \in Slots : Live(t)' => Live(t) /\ t # s /\ tasks'[t].event = tasks[t].event
        /\ \A t \in Slots : Repairs(t)' => Repairs(t)
    BY <1>1 DEF Live, Repairs, Busy
  <1>4. \A t \in Slots : FreshLoad(t)' => FreshLoad(t) /\ t # s
    BY <1>1, RetrievingAssumption DEF FreshLoad, Kinds
  <1>5. \A t \in Slots : Leaving(t)' => Leaving(t) /\ t # s
    BY <1>1 DEF Leaving, Busy
  <1>6. \A t \in Slots : Leaving(t)' => download' # t
    BY <1>0, <1>5, RetrievingAssumption DEF RetrievalInv, DownloadAfter
  <1>7. \A t \in Slots : SeedAttempt(t)' => SeedAttempt(t) /\ t # s
    BY <1>1 DEF SeedAttempt, Attempt, Busy
  <1>8. \A t \in Slots : SeedAttempt(t)' => seeder' = seeder
    BY <1>7, AttemptHolds DEF SeederAfter
  <1>9. Holders'
    BY <1>1, HoldersKept, RetrievingAssumption DEF DownloadAfter, SeederAfter
  <1>10. ASSUME resolved' = resolved, link' = link PROVE OneTransfer'
    <2>1. \A t \in Slots : Live(t) => download = t
      BY <1>0 DEF OneTransfer, Live, Open
    <2>2. UNCHANGED download \/ \A t \in Slots : ~Live(t)'
      BY <1>3, <2>1 DEF DownloadAfter
    <2> QED
      BY <1>3, <1>10, <2>2, OneTransferKept
  <1> QED
    BY <1>0, <1>1, <1>2, <1>3, <1>4, <1>5, <1>6, <1>7, <1>8, <1>9, <1>10, QuietFacts DEF RepairInv

(* Holding no controller, a handler that ends clears none.                 *)
LEMMA NotHeld ==
  ASSUME Parts, NEW s \in Slots
  PROVE  /\ tasks[s].kind # "lookup" => lookup # s
         /\ tasks[s].kind \notin Transfers => download # s
         /\ tasks[s].kind # "seed" => seeder # s
  BY RetrievingAssumption DEF Parts, TypeOK

(* A handler goes on, no nearer to being a peer.                           *)
LEMMA StageStep ==
  ASSUME Parts, NEW s \in Slots, tasks[s].kind # None, NEW x \in Stages, tasks' = [tasks EXCEPT ![s].stage = x],
         x \notin {"leaving", "loading"}, tasks[s].kind # "repair",
         x = "joining" => tasks[s].stage = "loading" /\ tasks[s].kind \in {"swarm", "seed"} /\ ~tasks[s].aborted,
         x \notin {"leaving", "dropping", "failing"} => Open(tasks[s]),
         tasks[s].kind = "swarm" /\ x \in {"joining", "reveal"} => Joins(tasks[s]),
         UNCHANGED <<profile, shown, consents, controllers, sessions, plan, ended, unsure>>
  PROVE  Parts'
  <1>0. TypeOK /\ tasks \in TaskTable /\ RepairInv
    BY DEF Parts, TypeOK, TaskTable
  <1>1. UNCHANGED <<wanted, resolved, link, lookup, download, seeder>>
    BY DEF shown, controllers
  <1>2. /\ tasks' \in TaskTable
        /\ tasks'[s].kind = tasks[s].kind /\ tasks'[s].event = tasks[s].event /\ tasks'[s].fresh = tasks[s].fresh
        /\ tasks'[s].aborted = tasks[s].aborted /\ tasks'[s].stage = x
        /\ \A t \in Slots : t # s => tasks'[t] = tasks[t]
    <2> DEFINE u == [tasks[s] EXCEPT !.stage = x]
    <2>1. tasks[s] \in Tasks
      BY <1>0, TaskType
    <2>2. /\ u \in Tasks /\ u.kind = tasks[s].kind /\ u.event = tasks[s].event /\ u.fresh = tasks[s].fresh
          /\ u.aborted = tasks[s].aborted /\ u.stage = x
      BY <2>1 DEF Tasks
    <2>3. tasks' = [tasks EXCEPT ![s] = u]
      OBVIOUS
    <2> HIDE DEF u
    <2>4. tasks' \in TaskTable /\ tasks'[s] = u /\ \A t \in Slots : t # s => tasks'[t] = tasks[t]
      BY <1>0, <2>2, <2>3 DEF TaskTable
    <2> QED
      BY <2>2, <2>4
  <1>3. Weaker(tasks'[s], tasks[s])
    BY <1>2 DEF Weaker, Open, Joins
  <1>4. Weakens(tasks', tasks)
    BY <1>2, <1>3 DEF Weakens, Weaker
  <1>5. /\ Quiet /\ tasks' \in TaskTable /\ Holders'
        /\ ShownIsWanted' /\ OneTransfer' /\ ShownInv' /\ JoiningInv'
        /\ \A t \in Slots : Leaving(t)' => download' # t
        /\ \A t \in Slots : Repairs(t)' => Repairs(t)
    BY <1>1, <1>4, AbortStep
  <1> QED
    BY <1>0, <1>1, <1>5, KeptStep DEF TypeOK, RepairInv

(* The file that was read names the event, if it is still current.         *)
LEMMA LoadedStep ==
  ASSUME Parts, NEW s \in Slots, NEW e \in Events \cup {None}, Loaded(s, e)
  PROVE  Parts'
  <1>0. TypeOK /\ ShownIsWanted /\ ShownInv
    BY DEF Parts
  <1>1. /\ tasks[s].kind = "load" /\ tasks' = [tasks EXCEPT ![s] = Idle]
        /\ wanted' = (IF tasks[s].fresh THEN e ELSE wanted)
        /\ UNCHANGED <<profile, resolved, link, consents, controllers, sessions, plan, ended, unsure>>
    BY DEF Loaded
  <1>2. UNCHANGED <<lookup, download, seeder>>
    BY <1>1 DEF controllers
  <1>3. /\ lookup' = (IF lookup = s THEN None ELSE lookup) /\ download' = DownloadAfter(s) /\ seeder' = SeederAfter(s)
    BY <1>1, <1>2, NotHeld DEF DownloadAfter, SeederAfter, Transfers
  <1>4. /\ Quiet /\ Holders'
        /\ \A t \in Slots : FreshLoad(t)' => FreshLoad(t) /\ t # s
        /\ \A t \in Slots : Repairs(t)' => "repair" \in consents
        /\ \A t \in Slots : Leaving(t)' => download' # t
        /\ \A t \in Slots : SeedAttempt(t)' => seeder' = seeder
        /\ OneTransfer'
    BY <1>1, <1>3, EndFacts
  <1>5. ShownIsWanted'
    BY <1>0, <1>1 DEF ShownIsWanted, ShownInv
  <1>6. ShownInv'
    <2>1. \A t \in Slots : FreshLoad(t)' => wanted' = wanted
      BY <1>0, <1>1, <1>4 DEF ShownInv, FreshLoad
    <2> QED
      BY <1>0, <1>1, <1>2, <1>4, <2>1 DEF ShownInv, FreshLoad
  <1> QED
    BY <1>0, <1>1, <1>4, <1>5, <1>6, KeptStep DEF TypeOK

(* The relays have answered.                                               *)
LEMMA LookedUpStep ==
  ASSUME Parts, NEW s \in Slots, LookedUp(s)
  PROVE  Parts'
  <1>0. TypeOK /\ tasks \in TaskTable /\ ShownIsWanted /\ ShownInv /\ OneTransfer
    BY DEF Parts, TypeOK, TaskTable
  <1>1. /\ tasks[s].kind = "lookup" /\ tasks' = [tasks EXCEPT ![s] = Idle]
        /\ lookup' = (IF lookup = s THEN None ELSE lookup)
        /\ resolved' \in {resolved} \cup (IF Answers(s) /\ Resolvable(tasks[s].event) THEN {tasks[s].event} ELSE {})
        /\ UNCHANGED <<profile, wanted, link, consents, download, seeder, sessions, plan, ended, unsure>>
    BY DEF LookedUp
  <1>2. download' = DownloadAfter(s) /\ seeder' = SeederAfter(s)
    BY <1>1, NotHeld DEF DownloadAfter, SeederAfter, Transfers
  <1>3. /\ Quiet /\ Holders'
        /\ \A t \in Slots : Live(t)' => Live(t)
        /\ \A t \in Slots : FreshLoad(t)' => FreshLoad(t) /\ t # s
        /\ \A t \in Slots : Repairs(t)' => "repair" \in consents
        /\ \A t \in Slots : Leaving(t)' => download' # t
        /\ \A t \in Slots : SeedAttempt(t)' => seeder' = seeder
        /\ resolved' = resolved => OneTransfer'
    BY <1>1, <1>2, EndFacts
  <1>4. CASE resolved' = resolved
    <2>1. ShownIsWanted'
      BY <1>0, <1>1, <1>4 DEF ShownIsWanted
    <2>2. ShownInv'
      BY <1>0, <1>1, <1>3, <1>4 DEF ShownInv, FreshLoad
    <2> QED
      BY <1>0, <1>1, <1>3, <1>4, <2>1, <2>2, KeptStep DEF TypeOK
  <1>5. CASE resolved' # resolved
    <2>1. /\ lookup = s /\ lookup # None /\ wanted = tasks[s].event /\ Resolvable(tasks[s].event)
          /\ resolved' = wanted
      BY <1>1, <1>5, RetrievingAssumption DEF Answers
    <2>2. resolved = None /\ link = None /\ download = None /\ ~ended /\ lookup' = None
      BY <1>0, <1>1, <2>1, RetrievingAssumption DEF ShownInv, ShownIsWanted
    <2>3. ShownIsWanted'
      BY <1>1, <2>1, <2>2 DEF ShownIsWanted
    <2>4. OneTransfer'
      <3>1. \A t \in Slots : ~Live(t)'
        BY <1>0, <1>3, <2>2, RetrievingAssumption DEF OneTransfer, Live, Open
      <3> QED
        BY <3>1 DEF OneTransfer, Live, Open
    <2>5. ShownInv'
      <3>1. resolved' \in Torrents => profile = "direct"
        BY <1>0, <2>1 DEF Resolvable, TypeOK
      <3>2. \A t \in Slots : FreshLoad(t)' => wanted = None
        BY <1>0, <1>3 DEF ShownInv, FreshLoad
      <3> QED
        BY <1>0, <1>1, <1>3, <2>1, <2>2, <3>1, <3>2 DEF ShownInv, FreshLoad
    <2>6. resolved' \in Events \cup {None}
      BY <1>0, <2>1 DEF TypeOK
    <2> QED
      BY <1>0, <1>1, <1>3, <2>3, <2>4, <2>5, <2>6, KeptStep DEF TypeOK
  <1> QED
    BY <1>4, <1>5

(* What the end of a transfer leaves, whatever it showed.                  *)
LEMMA EndsFacts ==
  ASSUME Parts, NEW s \in Slots, tasks[s].kind \in Transfers, Ends(s), link' = link \/ (link' = resolved /\ Live(s)),
         UNCHANGED <<profile, wanted, resolved, lookup, seeder, ended>>
  PROVE  /\ Quiet /\ Holders' /\ JoiningInv' /\ OneTransfer' /\ ShownIsWanted' /\ ShownInv'
         /\ tasks'[s].kind = None /\ \A t \in Slots : t # s => tasks'[t] = tasks[t]
         /\ \A t \in Slots : Repairs(t)' => "repair" \in consents
         /\ \A t \in Slots : Leaving(t)' => download' # t /\ t # s
         /\ \A t \in Slots : SeedAttempt(t)' => seeder' = seeder
         /\ wanted' \in Events \cup {None} /\ resolved' \in Events \cup {None} /\ link' \in Events \cup {None}
         /\ tasks' \in TaskTable
  <1>0. TypeOK /\ ShownIsWanted /\ ShownInv /\ OneTransfer
    BY DEF Parts
  <1>1. tasks' = [tasks EXCEPT ![s] = Idle] /\ download' = DownloadAfter(s)
    BY DEF Ends
  <1>2. lookup' = (IF lookup = s THEN None ELSE lookup) /\ seeder' = SeederAfter(s)
    BY NotHeld DEF SeederAfter, Transfers
  <1>3. /\ Quiet /\ Holders' /\ JoiningInv'
        /\ \A t \in Slots : Live(t)' => Live(t) /\ t # s
        /\ link' = link => OneTransfer'
        /\ tasks'[s].kind = None /\ \A t \in Slots : t # s => tasks'[t] = tasks[t]
        /\ \A t \in Slots : FreshLoad(t)' => FreshLoad(t)
        /\ \A t \in Slots : Repairs(t)' => "repair" \in consents
        /\ \A t \in Slots : Leaving(t)' => download' # t /\ t # s
        /\ \A t \in Slots : SeedAttempt(t)' => seeder' = seeder
    BY <1>1, <1>2, EndFacts
  <1>4. ShownIsWanted'
    BY <1>0 DEF ShownIsWanted
  <1>6. OneTransfer'
    <2>1. CASE link' = resolved /\ Live(s)
      <3>1. \A t \in Slots : Live(t) => t = s
        BY <1>0, <2>1 DEF OneTransfer, Live, Open
      <3> QED
        BY <1>3, <3>1 DEF OneTransfer, Live, Open
    <2> QED
      BY <1>3, <2>1
  <1>5. ShownInv'
    <2>1. lookup' # None => download' = None
      BY <1>0, <1>1, <1>2 DEF ShownInv, DownloadAfter
    <2> QED
      BY <1>0, <1>2, <1>3, <2>1 DEF ShownInv, FreshLoad
  <1> QED
    BY <1>0, <1>3, <1>4, <1>5, <1>6 DEF TypeOK, Quiet

(* Transfers from a server or a pool go on and end.                        *)
LEMMA TransferStep ==
  ASSUME Parts, NEW s \in Slots, Received(s) \/ Revealed(s) \/ TransferEnds(s)
  PROVE  Parts'
  <1>0. TypeOK /\ OneTransfer
    BY DEF Parts
  <1>1. CASE Received(s)
    <2>1. tasks[s].kind = "fetch" /\ tasks[s].stage = "transfer" /\ tasks[s].kind # None
      BY <1>1, RetrievingAssumption DEF Received, Is, Kinds
    <2> QED
      BY <1>1, <2>1, StageStep DEF Received, Stages, Open
  <1>2. CASE Revealed(s)
    <2>1. /\ tasks[s].kind \in Transfers /\ Ends(s) /\ tasks[s].kind # None /\ tasks[s].stage = "reveal"
          /\ link' = link \/ (link' = tasks[s].event /\ ~tasks[s].aborted)
          /\ UNCHANGED <<profile, wanted, resolved, consents, lookup, seeder, sessions, plan, ended, unsure>>
      BY <1>2, RetrievingAssumption DEF Revealed, Is, Transfers, Current, Kinds
    <2>2. ~tasks[s].aborted => Live(s) /\ tasks[s].event = resolved
      BY <1>0, <2>1 DEF OneTransfer, Live, Open, Busy
    <2> QED
      BY <2>1, <2>2, EndsFacts, KeptStep
  <1>3. CASE TransferEnds(s)
    <2>1. /\ tasks[s].kind \in Transfers /\ Ends(s) /\ link' = link
          /\ UNCHANGED <<profile, wanted, resolved, consents, lookup, seeder, sessions, plan, ended, unsure>>
      BY <1>3 DEF TransferEnds, Transfers, shown
    <2> QED
      BY <2>1, EndsFacts, KeptStep
  <1> QED
    BY <1>1, <1>2, <1>3

(* A handler of the swarm goes on, keeps its session, or ends.             *)
LEMMA SwarmStep ==
  ASSUME Parts, NEW s \in Slots,
         SwarmLoads(s) \/ SwarmReceived(s) \/ SwarmRevealed(s) \/ SwarmFailed(s) \/ \E c \in BOOLEAN : SwarmDropped(s, c)
  PROVE  Parts'
  <1>0. TypeOK /\ RetrievalInv /\ OneTransfer /\ ShownInv /\ JoiningInv
    BY DEF Parts
  <1>1. tasks[s].kind = "swarm" /\ tasks[s].kind \in Transfers /\ tasks[s].kind # None
    BY RetrievingAssumption DEF SwarmLoads, SwarmReceived, SwarmRevealed, SwarmFailed, SwarmDropped, Is, Transfers, Kinds
  <1>2. ASSUME Ends(s), UNCHANGED <<profile, shown, consents, lookup, seeder, sessions, plan, ended, unsure>>
        PROVE  Parts'
    BY <1>1, <1>2, EndsFacts, KeptStep DEF shown
  <1>3. CASE SwarmLoads(s)
    <2>1. tasks[s].stage = "loading"
      BY <1>3 DEF SwarmLoads, Is
    <2>2. CASE Ends(s)
      BY <1>2, <1>3, <2>2 DEF SwarmLoads
    <2>3. CASE JoinsIf(s) /\ tasks' = [tasks EXCEPT ![s].stage = "joining"] /\ UNCHANGED download
      BY <1>1, <1>3, <2>1, <2>3, StageStep DEF SwarmLoads, Stages, Open, Joins, JoinsIf, controllers
    <2> QED
      BY <1>3, <2>2, <2>3 DEF SwarmLoads
  <1>4. CASE SwarmReceived(s)
    <2> DEFINE x == IF Current(s) THEN "reveal" ELSE "dropping"
    <2>1. tasks[s].stage = "joining" /\ tasks' = [tasks EXCEPT ![s].stage = x]
      BY <1>4 DEF SwarmReceived, Is
    <2>2. x \in Stages /\ x \in {"reveal", "dropping"}
      BY DEF Stages
    <2> HIDE DEF x
    <2> QED
      BY <1>1, <1>4, <2>1, <2>2, StageStep DEF SwarmReceived, Open, Joins
  <1>5. CASE SwarmRevealed(s) /\ tasks' = [tasks EXCEPT ![s].stage = "dropping"] /\ UNCHANGED <<link, session, download>>
    BY <1>1, <1>5, StageStep DEF SwarmRevealed, Stages, Open, Joins, shown, controllers, sessions
  <1>6. CASE SwarmRevealed(s) /\ Current(s) /\ link' = tasks[s].event /\ session' = TRUE /\ Ends(s)
    <2>1. /\ tasks[s].stage = "reveal" /\ ~tasks[s].aborted /\ resolved = tasks[s].event /\ Live(s)
          /\ UNCHANGED <<profile, wanted, resolved, consents, lookup, seeder, seedSession, stopping, plan, ended, unsure>>
      <3>1. /\ tasks[s].stage = "reveal" /\ ~tasks[s].aborted
            /\ UNCHANGED <<profile, wanted, resolved, consents, lookup, seeder, seedSession, stopping, plan, ended, unsure>>
        BY <1>6 DEF SwarmRevealed, Current, Is
      <3> QED
        BY <1>0, <1>1, <3>1 DEF OneTransfer, Live, Open, Busy
    <2>2. /\ Quiet /\ Holders' /\ JoiningInv' /\ OneTransfer' /\ ShownIsWanted' /\ ShownInv'
          /\ tasks'[s].kind = None /\ \A t \in Slots : t # s => tasks'[t] = tasks[t]
          /\ \A t \in Slots : Repairs(t)' => "repair" \in consents
          /\ \A t \in Slots : SeedAttempt(t)' => seeder' = seeder
          /\ wanted' \in Events \cup {None} /\ resolved' \in Events \cup {None} /\ link' \in Events \cup {None}
          /\ tasks' \in TaskTable
      BY <1>1, <1>6, <2>1, EndsFacts
    <2>3. TypeOK'
      BY <1>0, <1>6, <2>1, <2>2 DEF TypeOK, Holders, TaskTable
    <2>4. SwarmAttempt(s)
      BY <1>1, <2>1 DEF SwarmAttempt, Attempt, Busy
    <2>5. profile = "direct" /\ ~ended
      BY <1>0, <1>1, <2>1, RetrievingAssumption DEF JoiningInv, ShownInv
    <2>6. \A t \in Slots : ~SwarmAttempt(t)'
      <3>1. \A t \in Slots : SwarmAttempt(t) => t = s
        BY <2>4, AttemptHolds
      <3>2. ~SwarmAttempt(s)'
        BY <2>2 DEF SwarmAttempt, Attempt, Busy
      <3> QED
        BY <2>2, <3>1, <3>2, QuietFacts
    <2>7. \A t \in Slots : ~Leaving(t)'
      BY <1>0, <2>2, <2>4, QuietFacts DEF RetrievalInv
    <2>8. SwarmConsent' /\ stopping'["retrieval"] = 0
      BY <1>0, <2>1, <2>4 DEF RetrievalInv, SwarmConsent
    <2>9. RetrievalInv'
      BY <2>1, <2>5, <2>6, <2>7, <2>8 DEF RetrievalInv
    <2>10. SeedingInv' /\ RepairInv'
      BY <2>1, <2>2, SeedingKept DEF RepairInv
    <2> QED
      BY <2>2, <2>3, <2>9, <2>10 DEF Parts
  <1>7. CASE SwarmFailed(s)
    BY <1>2, <1>7 DEF SwarmFailed
  <1>8. ASSUME NEW c \in BOOLEAN, SwarmDropped(s, c) PROVE Parts'
    <2>1. /\ Ends(s) /\ consents' = (IF c THEN consents ELSE consents \ {"swarm"})
          /\ UNCHANGED <<profile, wanted, resolved, link, lookup, seeder, session, seedSession, stopping, plan, ended>>
      BY <1>8 DEF SwarmDropped, shown, sessions
    <2>2. unsure' \in BOOLEAN
      BY <1>8 DEF SwarmDropped
    <2>3. SwarmConsent => SwarmConsent'
      BY <1>8 DEF SwarmDropped, SwarmConsent
    <2>4. /\ Quiet /\ Holders' /\ JoiningInv' /\ OneTransfer' /\ ShownIsWanted' /\ ShownInv'
          /\ \A t \in Slots : Repairs(t)' => "repair" \in consents
          /\ \A t \in Slots : Leaving(t)' => download' # t
          /\ \A t \in Slots : SeedAttempt(t)' => seeder' = seeder
          /\ tasks' \in TaskTable
      BY <1>1, <2>1, EndsFacts
    <2>5. TypeOK'
      BY <1>0, <2>1, <2>2, <2>4 DEF TypeOK, Holders, TaskTable
    <2>6. RetrievalInv'
      BY <2>1, <2>3, <2>4, RetrievalKept
    <2>7. SeedingInv' /\ RepairInv'
      BY <2>1, <2>4, SeedingKept DEF RepairInv
    <2> QED
      BY <2>4, <2>5, <2>6, <2>7 DEF Parts
  <1> QED
    BY <1>3, <1>4, <1>5, <1>6, <1>7, <1>8 DEF SwarmRevealed

(* A handler of the seeding goes on, becomes a seed, or ends.              *)
LEMMA SeedStep ==
  ASSUME Parts, NEW s \in Slots, PeerFails(s) \/ SeedLoads(s) \/ Seeds(s) \/ SeedFailed(s)
  PROVE  Parts'
  <1>0. TypeOK /\ SeedingInv /\ JoiningInv /\ ShownIsWanted /\ ShownInv
    BY DEF Parts
  <1>1. CASE PeerFails(s)
    <2>1. tasks[s].kind # None /\ tasks[s].kind \in {"swarm", "seed"}
      BY <1>1, RetrievingAssumption DEF PeerFails, Kinds
    <2> QED
      BY <1>1, <2>1, StageStep DEF PeerFails, Stages
  <1>2. ASSUME tasks[s].kind = "seed", tasks' = [tasks EXCEPT ![s] = Idle], seeder' = SeederAfter(s),
               UNCHANGED <<profile, shown, lookup, download, ended>>
        PROVE  /\ Quiet /\ Holders' /\ OneTransfer' /\ ShownIsWanted' /\ ShownInv' /\ JoiningInv' /\ tasks' \in TaskTable
               /\ tasks'[s].kind = None /\ \A t \in Slots : t # s => tasks'[t] = tasks[t]
               /\ \A t \in Slots : Repairs(t)' => "repair" \in consents
               /\ \A t \in Slots : Leaving(t)' => download' # t
               /\ \A t \in Slots : SeedAttempt(t)' => seeder' = seeder /\ t # s
    <2>1. lookup' = (IF lookup = s THEN None ELSE lookup) /\ download' = DownloadAfter(s)
      BY <1>2, NotHeld DEF DownloadAfter, Transfers
    <2>2. UNCHANGED <<wanted, resolved, link>>
      BY <1>2 DEF shown
    <2>3. /\ Quiet /\ Holders' /\ OneTransfer' /\ JoiningInv'
          /\ tasks'[s].kind = None /\ \A t \in Slots : t # s => tasks'[t] = tasks[t]
          /\ \A t \in Slots : FreshLoad(t)' => FreshLoad(t)
          /\ \A t \in Slots : Repairs(t)' => "repair" \in consents
          /\ \A t \in Slots : Leaving(t)' => download' # t
          /\ \A t \in Slots : SeedAttempt(t)' => seeder' = seeder /\ t # s
      BY <1>2, <2>1, <2>2, EndFacts
    <2>4. ShownIsWanted'
      BY <1>0, <2>2 DEF ShownIsWanted
    <2>5. ShownInv'
      BY <1>0, <1>2, <2>2, <2>3 DEF ShownInv, FreshLoad
    <2> QED
      BY <2>3, <2>4, <2>5 DEF Quiet
  <1>3. ASSUME tasks[s].kind = "seed", tasks' = [tasks EXCEPT ![s] = Idle], seeder' = SeederAfter(s),
               UNCHANGED <<profile, shown, consents, lookup, download, sessions, plan, ended, unsure>>
        PROVE  Parts'
    <2>1. /\ Quiet /\ Holders' /\ OneTransfer' /\ ShownIsWanted' /\ ShownInv'
          /\ \A t \in Slots : Repairs(t)' => "repair" \in consents
          /\ \A t \in Slots : Leaving(t)' => download' # t
          /\ \A t \in Slots : SeedAttempt(t)' => seeder' = seeder
      BY <1>2, <1>3
    <2>2. wanted' \in Events \cup {None} /\ resolved' \in Events \cup {None} /\ link' \in Events \cup {None}
      BY <1>0, <1>3 DEF TypeOK, shown
    <2> QED
      BY <1>3, <2>1, <2>2, KeptStep
  <1>4. CASE SeedLoads(s)
    <2>1. tasks[s].kind = "seed" /\ tasks[s].stage = "loading" /\ tasks[s].kind # None
      BY <1>4, RetrievingAssumption DEF SeedLoads, Is, Kinds
    <2>2. CASE JoinsIf(s) /\ tasks' = [tasks EXCEPT ![s].stage = "joining"] /\ UNCHANGED seeder
      BY <1>4, <2>1, <2>2, StageStep DEF SeedLoads, Stages, Open, JoinsIf, controllers
    <2>3. CASE tasks' = [tasks EXCEPT ![s] = Idle] /\ seeder' = SeederAfter(s)
      BY <1>3, <1>4, <2>1, <2>3 DEF SeedLoads
    <2> QED
      BY <1>4, <2>2, <2>3 DEF SeedLoads
  <1>5. CASE SeedFailed(s)
    BY <1>3, <1>5 DEF SeedFailed, Is
  <1>6. CASE Seeds(s)
    <2>1. /\ tasks[s].kind = "seed" /\ tasks[s].stage = "joining" /\ tasks' = [tasks EXCEPT ![s] = Idle]
          /\ seedSession' = TRUE /\ seeder' = SeederAfter(s)
          /\ UNCHANGED <<profile, shown, consents, lookup, download, session, stopping, plan, ended, unsure>>
      BY <1>6 DEF Seeds, Is
    <2>2. /\ Quiet /\ Holders' /\ OneTransfer' /\ ShownIsWanted' /\ ShownInv' /\ JoiningInv' /\ tasks' \in TaskTable
          /\ \A t \in Slots : Repairs(t)' => "repair" \in consents
          /\ \A t \in Slots : Leaving(t)' => download' # t
          /\ \A t \in Slots : SeedAttempt(t)' => t # s
      BY <1>2, <2>1
    <2>3. SeedAttempt(s)
      BY <1>0, <2>1, RetrievingAssumption DEF JoiningInv, SeedAttempt, Busy, Kinds
    <2>4. \A t \in Slots : ~SeedAttempt(t)'
      BY <2>2, <2>3, QuietFacts, AttemptHolds
    <2>5. SeedingInv'
      BY <1>0, <2>1, <2>3, <2>4 DEF SeedingInv
    <2>6. RetrievalInv'
      BY <2>1, <2>2, RetrievalKept DEF SwarmConsent
    <2>7. TypeOK'
      BY <1>0, <2>1, <2>2 DEF TypeOK, Holders, TaskTable, shown
    <2>8. RepairInv'
      BY <2>1, <2>2 DEF RepairInv
    <2> QED
      BY <2>2, <2>5, <2>6, <2>7, <2>8 DEF Parts
  <1> QED
    BY <1>1, <1>4, <1>5, <1>6

(* A transfer begins when none is under way: it is then the only one.      *)
LEMMA BeginsFacts ==
  ASSUME Parts, NEW s \in Slots, NEW kind \in Transfers, NEW stage \in Stages, Open([stage |-> stage]),
         tasks[s].kind \in {None, "swarm"}, Begins(s, kind, stage),
         resolved # None, download = None, UNCHANGED <<profile, wanted, resolved, lookup, seeder, ended>>
  PROVE  /\ tasks' \in TaskTable /\ Holders' /\ ShownIsWanted' /\ OneTransfer' /\ ShownInv'
         /\ tasks'[s].kind = kind /\ tasks'[s].stage = stage /\ tasks'[s].event = resolved /\ ~tasks'[s].aborted
         /\ \A t \in Slots : t # s => /\ tasks'[t].kind = tasks[t].kind
                                      /\ tasks[t].kind # None => Weaker(tasks'[t], tasks[t])
         /\ \A t \in Slots : ~Repairs(t) /\ ~SwarmAttempt(t)
         /\ wanted' \in Events \cup {None} /\ resolved' \in Events \cup {None} /\ link' \in Events \cup {None}
  <1>0. TypeOK /\ tasks \in TaskTable /\ ShownIsWanted /\ ShownInv /\ OneTransfer /\ JoiningInv
    BY DEF Parts, TypeOK, TaskTable
  <1> DEFINE r == Started(kind, stage)
  <1>1. /\ r \in Tasks /\ r.kind = kind /\ r.stage = stage /\ r.event = resolved /\ ~r.aborted /\ r.kind # None
    BY <1>0, RetrievingAssumption DEF Started, Tasks, TypeOK, Transfers, Kinds
  <1>2. tasks' = [t \in Slots |-> IF t = s THEN r
                                  ELSE IF Leaving(t) /\ resolved \notin Pools THEN [tasks[t] EXCEPT !.sole = FALSE] ELSE tasks[t]]
    BY DEF Begins, Leaving
  <1> HIDE DEF r
  <1>3. ASSUME NEW t \in Slots, t # s
        PROVE  /\ tasks'[t] \in Tasks \cup {Idle} /\ tasks'[t].kind = tasks[t].kind
               /\ tasks[t].kind # None => Weaker(tasks'[t], tasks[t])
    <2>1. CASE Leaving(t) /\ resolved \notin Pools
      <3> DEFINE u == [tasks[t] EXCEPT !.sole = FALSE]
      <3>1. tasks[t] \in Tasks /\ tasks'[t] = u
        BY <1>0, <1>2, <1>3, <2>1, TaskType DEF Busy, Leaving
      <3>2. /\ u \in Tasks /\ u.kind = tasks[t].kind /\ u.event = tasks[t].event /\ u.fresh = tasks[t].fresh
            /\ u.aborted = tasks[t].aborted /\ u.stage = tasks[t].stage
        BY <3>1 DEF Tasks
      <3> HIDE DEF u
      <3> QED
        BY <3>1, <3>2 DEF Weaker, Open, Joins
    <2>2. CASE ~(Leaving(t) /\ resolved \notin Pools)
      BY <1>0, <1>2, <1>3, <2>2 DEF TaskTable, Weaker
    <2> QED
      BY <2>1, <2>2
  <1>4. tasks'[s] = r
    BY <1>2
  <1>5. tasks' \in TaskTable
    <2>1. \A t \in Slots : tasks'[t] \in Tasks \cup {Idle}
      BY <1>1, <1>3, <1>4
    <2> QED
      BY <1>2, <2>1 DEF TaskTable
  <1>6. download' = s /\ link' = None
    BY DEF Begins
  <1>7. lookup = None
    BY <1>0 DEF ShownInv
  <1>8. Holders'
    <2>1. seeder # s
      BY <1>0, RetrievingAssumption DEF TypeOK, Kinds
    <2> QED
      BY <1>0, <1>1, <1>3, <1>4, <1>6, <1>7, <2>1 DEF Holders, TypeOK
  <1>9. \A t \in Slots : ~Live(t)
    BY <1>0, RetrievingAssumption DEF OneTransfer, Live, Open
  <1>10. \A t \in Slots : Live(t)' => t = s
    BY <1>3, <1>9 DEF Live, Busy, Weaker
  <1>11. OneTransfer'
    BY <1>1, <1>4, <1>6, <1>10 DEF OneTransfer, Live, Open
  <1>12. ShownIsWanted'
    BY <1>0, <1>6 DEF ShownIsWanted
  <1>13. \A t \in Slots : ~FreshLoad(t)'
    <2>1. ~FreshLoad(s)'
      BY <1>1, <1>4 DEF FreshLoad, Transfers
    <2>2. \A t \in Slots : t # s /\ FreshLoad(t)' => FreshLoad(t)
      BY <1>3, RetrievingAssumption DEF FreshLoad, Weaker, Kinds
    <2> QED
      BY <1>0, <2>1, <2>2 DEF FreshLoad, ShownInv
  <1>14. ShownInv'
    BY <1>0, <1>7, <1>13 DEF ShownInv, FreshLoad
  <1>15. \A t \in Slots : ~Repairs(t) /\ ~SwarmAttempt(t)
    BY <1>0, <1>9 DEF Repairs, SwarmAttempt, Attempt, Live, JoiningInv, Transfers, Open, Repairing
  <1> QED
    BY <1>0, <1>1, <1>3, <1>4, <1>5, <1>6, <1>8, <1>11, <1>12, <1>14, <1>15 DEF TypeOK

LEMMA FetchStep ==
  ASSUME Parts, NEW s \in Slots, Fetch(s) \/ Repair(s)
  PROVE  Parts'
  <1>0. TypeOK /\ tasks[s].kind = None /\ RetrievalInv
    BY DEF Parts, Fetch, Repair, Busy
  <1>1. ASSUME NEW kind \in {"fetch", "repair"}, NEW stage \in Repairing, Begins(s, kind, stage), resolved # None, download = None,
               kind = "repair" => "repair" \in consents,
               UNCHANGED <<profile, wanted, resolved, consents, lookup, seeder, sessions, plan, ended, unsure>>
        PROVE  Parts'
    <2>1. kind \in Transfers /\ stage \in Stages /\ Open([stage |-> stage]) /\ stage # "leaving"
      BY DEF Transfers, Stages, Open, Repairing
    <2>2. /\ tasks' \in TaskTable /\ Holders' /\ ShownIsWanted' /\ OneTransfer' /\ ShownInv'
          /\ tasks'[s].kind = kind /\ tasks'[s].stage = stage
          /\ \A t \in Slots : t # s => /\ tasks'[t].kind = tasks[t].kind
                                       /\ tasks[t].kind # None => Weaker(tasks'[t], tasks[t])
          /\ \A t \in Slots : ~Repairs(t)
          /\ wanted' \in Events \cup {None} /\ resolved' \in Events \cup {None} /\ link' \in Events \cup {None}
      BY <1>0, <1>1, <2>1, BeginsFacts
    <2>3. Quiet
      BY <2>2 DEF Quiet
    <2>4. \A t \in Slots : Repairs(t)' => "repair" \in consents
      BY <1>1, <2>2 DEF Repairs, Busy, Weaker
    <2>5. \A t \in Slots : Leaving(t)' => download' # t
      <3>1. download' = s /\ ~Leaving(s)'
        BY <1>1, <2>1, <2>2 DEF Begins, Leaving
      <3> QED
        BY <3>1
    <2> QED
      BY <1>1, <2>2, <2>3, <2>4, <2>5, KeptStep
  <1>2. CASE Fetch(s)
    BY <1>1, <1>2 DEF Fetch, Repairing
  <1>3. CASE Repair(s)
    BY <1>1, <1>3, RetrievingAssumption DEF Repair, Repairing
  <1> QED
    BY <1>2, <1>3

(* The longer receipt of a repair takes the place of the one shown: of the *)
(* same payload, and by the one transfer there is.                         *)
LEMMA RepairSignedStep ==
  ASSUME Parts, NEW s \in Slots, NEW e \in Pools, RepairSigned(s, e)
  PROVE  Parts'
  <1>0. TypeOK /\ tasks \in TaskTable /\ ShownIsWanted /\ OneTransfer /\ ShownInv /\ RetrievalInv /\ RepairInv
    BY DEF Parts, TypeOK, TaskTable
  <1>1. /\ tasks[s].kind = "repair" /\ tasks[s].kind # None /\ tasks[s].stage = "signing" /\ ~tasks[s].aborted
        /\ SamePayload(e, tasks[s].event) /\ resolved' = e
        /\ tasks' = [tasks EXCEPT ![s].stage = "transfer", ![s].event = e]
        /\ UNCHANGED <<profile, wanted, link, consents, controllers, sessions, plan, ended, unsure>>
    BY RetrievingAssumption DEF RepairSigned, MayExtend, Kinds
  <1>2. UNCHANGED <<lookup, download, seeder>>
    BY <1>1 DEF controllers
  <1>3. Live(s) /\ download = s /\ tasks[s].event = resolved /\ link = None
    BY <1>0, <1>1 DEF OneTransfer, Live, Open, Busy, Transfers
  <1>4. SamePayload(e, resolved) /\ resolved \in Pools /\ resolved # None
    BY <1>1, <1>3, RetrievingAssumption DEF SamePayload
  <1>5. /\ tasks' \in TaskTable
        /\ tasks'[s].kind = "repair" /\ tasks'[s].event = e /\ tasks'[s].stage = "transfer" /\ ~tasks'[s].aborted
        /\ \A t \in Slots : t # s => tasks'[t] = tasks[t]
    <2> DEFINE u == [tasks[s] EXCEPT !.stage = "transfer", !.event = e]
    <2>1. tasks[s] \in Tasks
      BY <1>0, <1>1, TaskType
    <2>2. u \in Tasks /\ u.kind = "repair" /\ u.event = e /\ u.stage = "transfer" /\ ~u.aborted
      BY <1>1, <2>1, RetrievingAssumption DEF Tasks, Stages
    <2>3. tasks' = [tasks EXCEPT ![s] = u]
      BY <1>0, <1>1, <2>1 DEF TaskTable, Tasks
    <2> HIDE DEF u
    <2>4. tasks' \in TaskTable /\ tasks'[s] = u /\ \A t \in Slots : t # s => tasks'[t] = tasks[t]
      BY <1>0, <2>2, <2>3 DEF TaskTable
    <2> QED
      BY <2>2, <2>4
  <1>6. Quiet
    BY <1>5 DEF Quiet, Weaker, Repairing
  <1>7. Holders'
    <2>1. \A t \in Slots : tasks'[t].kind = tasks[t].kind
      BY <1>1, <1>5
    <2> QED
      BY <1>2, <2>1, HoldersKept
  <1>8. OneTransfer'
    <2>1. \A t \in Slots : Live(t)' => t = s
      BY <1>0, <1>3, <1>5 DEF OneTransfer, Live, Open, Busy
    <2> QED
      BY <1>1, <1>2, <1>3, <1>5, <2>1 DEF OneTransfer, Live, Open
  <1>9. ShownIsWanted'
    BY <1>0, <1>1, <1>3, <1>4 DEF ShownIsWanted, SamePayload
  <1>10. ShownInv'
    <2>1. lookup = None /\ ~ended /\ \A t \in Slots : ~FreshLoad(t)
      BY <1>0, <1>4 DEF ShownInv, FreshLoad
    <2>2. \A t \in Slots : ~FreshLoad(t)'
      BY <1>5, <2>1 DEF FreshLoad
    <2> QED
      BY <1>1, <1>2, <2>1, <2>2, RetrievingAssumption DEF ShownInv, FreshLoad
  <1>11. \A t \in Slots : Repairs(t)' => "repair" \in consents
    BY <1>0, <1>1, <1>5 DEF RepairInv, Repairs, Busy
  <1>12. \A t \in Slots : Leaving(t)' => download' # t
    BY <1>0, <1>2, <1>5 DEF RetrievalInv, Leaving, Busy
  <1>13. wanted' \in Events \cup {None} /\ resolved' \in Events \cup {None} /\ link' \in Events \cup {None}
    BY <1>0, <1>1, RetrievingAssumption DEF TypeOK
  <1> QED
    BY <1>1, <1>2, <1>6, <1>7, <1>8, <1>9, <1>10, <1>11, <1>12, <1>13, KeptStep

(* An attempt to join the swarm begins when no session is left and none is *)
(* being ended.                                                            *)
LEMMA RejoinStep ==
  ASSUME Parts, NEW s \in Slots, Begins(s, "swarm", "loading"), tasks[s].kind \in {None, "swarm"},
         resolved \in Torrents, download = None, "swarm" \in consents, ~session, stopping["retrieval"] = 0,
         \A t \in Slots : Leaving(t) => t = s,
         UNCHANGED <<profile, wanted, resolved, consents, lookup, seeder, sessions, plan, ended, unsure>>
  PROVE  Parts'
  <1>0. TypeOK /\ JoiningInv /\ SeedingInv
    BY DEF Parts
  <1>1. UNCHANGED <<session, seedSession, stopping>>
    BY DEF sessions
  <1>2. "swarm" \in Transfers /\ "loading" \in Stages /\ Open([stage |-> "loading"]) /\ resolved # None
    BY RetrievingAssumption DEF Transfers, Stages, Open
  <1>3. /\ tasks' \in TaskTable /\ Holders' /\ ShownIsWanted' /\ OneTransfer' /\ ShownInv'
        /\ tasks'[s].kind = "swarm" /\ tasks'[s].stage = "loading" /\ tasks'[s].event = resolved /\ ~tasks'[s].aborted
        /\ \A t \in Slots : t # s => /\ tasks'[t].kind = tasks[t].kind
                                     /\ tasks[t].kind # None => Weaker(tasks'[t], tasks[t])
        /\ \A t \in Slots : ~Repairs(t) /\ ~SwarmAttempt(t)
        /\ wanted' \in Events \cup {None} /\ resolved' \in Events \cup {None} /\ link' \in Events \cup {None}
    BY <1>2, BeginsFacts
  <1>4. TypeOK'
    BY <1>0, <1>1, <1>3 DEF TypeOK, Holders, TaskTable
  <1>5. \A t \in Slots : ~Leaving(t)'
    BY <1>3 DEF Leaving, Busy, Weaker
  <1>6. RetrievalInv'
    BY <1>1, <1>5 DEF RetrievalInv, SwarmConsent
  <1>7. \A t \in Slots : SeedAttempt(t)' => SeedAttempt(t)
    BY <1>3 DEF SeedAttempt, Attempt, Busy, Weaker
  <1>8. SeedingInv'
    BY <1>0, <1>1, <1>7 DEF SeedingInv
  <1>9. RepairInv'
    BY <1>3 DEF RepairInv, Repairs, Busy, Weaker
  <1>10. JoiningInv'
    <2>1. ASSUME NEW t \in Slots, Busy(t)', tasks'[t].stage = "joining" PROVE Attempt(t)'
      <3>1. t # s /\ tasks[t].kind # None /\ Weaker(tasks'[t], tasks[t])
        BY <1>3, <2>1 DEF Busy
      <3>2. tasks[t].stage = "joining" => Attempt(t)
        BY <1>0, <3>1 DEF JoiningInv, Busy
      <3> QED
        BY <2>1, <3>1, <3>2 DEF Attempt, Weaker
    <2>2. ASSUME NEW t \in Slots, t # s
          PROVE  /\ tasks'[t].kind = "swarm" => tasks'[t].event \in Torrents
                 /\ tasks'[t].kind = "repair" => tasks'[t].stage \in Repairing
      BY <1>0, <1>3, <2>2, RetrievingAssumption DEF JoiningInv, Weaker, Kinds
    <2> QED
      BY <1>3, <2>1, <2>2 DEF JoiningInv
  <1> QED
    BY <1>3, <1>4, <1>6, <1>8, <1>9, <1>10 DEF Parts

(* The session before is left first.                                       *)
LEMMA LeaveFirstStep ==
  ASSUME Parts, NEW s \in Slots, SwarmFetch(s) \/ \E c \in BOOLEAN : Left(s, c)
  PROVE  Parts'
  <1>0. TypeOK /\ tasks \in TaskTable /\ ShownIsWanted /\ OneTransfer /\ ShownInv /\ RetrievalInv /\ SeedingInv /\ RepairInv /\ JoiningInv
    BY DEF Parts, TypeOK, TaskTable
  <1>1. CASE SwarmFetch(s) /\ ~session
    <2>1. stopping["retrieval"] = 0 /\ \A t \in Slots : ~Leaving(t)
      BY <1>0, <1>1, PendingFacts DEF SwarmFetch, NoneStopping
    <2>2. Begins(s, "swarm", "loading") /\ UNCHANGED sessions /\ tasks[s].kind = None
      BY <1>1 DEF SwarmFetch, sessions, Busy
    <2> QED
      BY <1>1, <2>1, <2>2, RejoinStep DEF SwarmFetch
  <1>2. CASE SwarmFetch(s) /\ session
    <2> DEFINE r == Started("swarm", "leaving")
    <2>1. stopping["retrieval"] = 0 /\ \A t \in Slots : ~Leaving(t)
      BY <1>0, <1>2, PendingFacts DEF SwarmFetch, NoneStopping
    <2>2. /\ tasks' = [tasks EXCEPT ![s] = r] /\ session' = FALSE /\ tasks[s].kind = None /\ resolved \in Torrents
          /\ download = None
          /\ UNCHANGED <<profile, wanted, resolved, link, consents, lookup, download, seeder, seedSession, stopping, plan, ended, unsure>>
      BY <1>2 DEF SwarmFetch, Busy
    <2>3. r \in Tasks /\ r.kind = "swarm" /\ r.stage = "leaving" /\ r.event = resolved
      BY <1>0 DEF Started, Tasks, TypeOK, Kinds, Stages
    <2> HIDE DEF r
    <2>4. tasks' \in TaskTable /\ tasks'[s] = r /\ \A t \in Slots : t # s => tasks'[t] = tasks[t]
      BY <1>0, <2>2, <2>3 DEF TaskTable
    <2>5. /\ \A t \in Slots : Live(t)' => Live(t) /\ tasks'[t].event = tasks[t].event
          /\ \A t \in Slots : Repairs(t)' => Repairs(t)
      BY <2>3, <2>4 DEF Live, Repairs, Busy, Open
    <2>6. \A t \in Slots : FreshLoad(t)' => FreshLoad(t)
      BY <2>3, <2>4 DEF FreshLoad
    <2>7. \A t \in Slots : SeedAttempt(t)' => SeedAttempt(t)
      BY <2>3, <2>4 DEF SeedAttempt, Attempt, Busy
    <2>8. \A t \in Slots : ~SwarmAttempt(t)'
      BY <1>0, <1>2, <2>3, <2>4 DEF RetrievalInv, SwarmAttempt, Attempt, Busy
    <2>9. \A t \in Slots : Leaving(t)' => t = s
      BY <2>1, <2>4 DEF Leaving, Busy
    <2>10. OneTransfer'
      BY <2>2, <2>5, OneTransferKept
    <2>11. TypeOK'
      BY <1>0, <2>2, <2>4, RetrievingAssumption DEF TypeOK, TaskTable, Kinds, Transfers
    <2>12. ShownIsWanted' /\ ShownInv'
      BY <1>0, <2>2, <2>6 DEF ShownIsWanted, ShownInv, FreshLoad
    <2>13. RetrievalInv'
      BY <2>1, <2>2, <2>8, <2>9, RetrievingAssumption DEF RetrievalInv
    <2>14. SeedingInv' /\ RepairInv'
      BY <1>0, <2>2, <2>5, <2>7 DEF SeedingInv, RepairInv
    <2>15. JoiningInv'
      BY <1>0, <2>2, <2>3, <2>4 DEF JoiningInv, Attempt, Busy
    <2> QED
      BY <2>10, <2>11, <2>12, <2>13, <2>14, <2>15 DEF Parts
  <1>3. ASSUME NEW c \in BOOLEAN, Left(s, c) PROVE Parts'
    <2>1. /\ tasks[s].kind = "swarm" /\ tasks[s].stage = "leaving" /\ tasks[s].kind # None
          /\ UNCHANGED <<profile, wanted, resolved, lookup, seeder, session, seedSession, stopping, plan, ended, unsure>>
          /\ consents' = IF c THEN consents ELSE consents \ {"swarm"}
      BY <1>3, RetrievingAssumption DEF Left, Is, sessions, Kinds
    <2>2. Leaving(s)
      BY <2>1 DEF Leaving, Busy
    <2>3. /\ ~session /\ stopping["retrieval"] = 0 /\ download # s /\ \A t \in Slots : Leaving(t) => t = s
          /\ \A t \in Slots : ~SwarmAttempt(t)
      BY <1>0, <2>2 DEF RetrievalInv
    <2>4. CASE c /\ MayRejoin(s)
      <3>1. Begins(s, "swarm", "loading") /\ consents' = consents
        BY <1>3, <2>1, <2>4 DEF Left
      <3>2. resolved \in Torrents /\ download = None /\ "swarm" \in consents
        BY <1>0, <2>1, <2>4 DEF MayRejoin, JoiningInv
      <3> QED
        BY <2>1, <2>3, <3>1, <3>2, RejoinStep DEF sessions
    <2>5. CASE ~(c /\ MayRejoin(s))
      <3>1. tasks' = [tasks EXCEPT ![s] = Idle] /\ UNCHANGED <<download, link>>
        BY <1>3, <2>5 DEF Left
      <3>2. /\ lookup' = (IF lookup = s THEN None ELSE lookup) /\ download' = DownloadAfter(s) /\ seeder' = SeederAfter(s)
        BY <2>1, <2>3, <3>1, NotHeld DEF DownloadAfter, SeederAfter
      <3>3. /\ Quiet /\ Holders' /\ JoiningInv' /\ OneTransfer'
            /\ \A t \in Slots : FreshLoad(t)' => FreshLoad(t)
            /\ \A t \in Slots : Repairs(t)' => "repair" \in consents
            /\ \A t \in Slots : Leaving(t)' => download' # t
            /\ \A t \in Slots : SeedAttempt(t)' => seeder' = seeder
        BY <2>1, <3>1, <3>2, EndFacts
      <3>4. \A t \in Slots : ~SwarmAttempt(t)'
        BY <2>3, <3>3, QuietFacts
      <3>5. RetrievalInv'
        BY <2>1, <2>3, <3>3, <3>4, RetrievalEnds
      <3>6. SeedingInv' /\ RepairInv'
        BY <2>1, <3>3, SeedingKept DEF RepairInv
      <3>7. TypeOK'
        BY <1>0, <2>1, <3>1, <3>3 DEF TypeOK, Holders, Quiet, TaskTable
      <3>8. ShownIsWanted' /\ ShownInv'
        BY <1>0, <2>1, <3>1, <3>3 DEF ShownIsWanted, ShownInv, FreshLoad
      <3> QED
        BY <3>3, <3>5, <3>6, <3>7, <3>8 DEF Parts
    <2> QED
      BY <2>4, <2>5
  <1> QED
    BY <1>1, <1>2, <1>3, <1>0 DEF TypeOK

(* A seeding begins when no other is left.                                 *)
LEMMA BeginSeedStep ==
  ASSUME Parts, ~ended, NEW s \in Slots, Seed(s)
  PROVE  Parts'
  <1>0. TypeOK /\ tasks \in TaskTable /\ ShownIsWanted /\ OneTransfer /\ ShownInv /\ RetrievalInv /\ SeedingInv /\ RepairInv /\ JoiningInv
    BY DEF Parts, TypeOK, TaskTable
  <1> DEFINE r == [Started("seed", "loading") EXCEPT !.event = None]
  <1>1. /\ tasks[s].kind = None /\ plan /\ "seed" \in consents /\ profile = "direct" /\ seeder = None /\ ~seedSession
        /\ tasks' = [tasks EXCEPT ![s] = r] /\ seeder' = s
        /\ UNCHANGED <<profile, wanted, resolved, link, consents, lookup, download, session, seedSession, stopping, plan, ended, unsure>>
    BY DEF Seed, Busy, shown, sessions
  <1>2. stopping["seed"] = 0
    BY <1>0, PendingFacts DEF Seed, NoneStopping
  <1>3. r \in Tasks /\ r.kind = "seed" /\ r.stage = "loading" /\ ~r.aborted
    BY <1>0 DEF Started, Tasks, TypeOK, Kinds, Stages
  <1> HIDE DEF r
  <1>4. tasks' \in TaskTable /\ tasks'[s] = r /\ \A t \in Slots : t # s => tasks'[t] = tasks[t]
    BY <1>0, <1>1, <1>3 DEF TaskTable
  <1>5. /\ \A t \in Slots : Live(t)' => Live(t) /\ tasks'[t].event = tasks[t].event
        /\ \A t \in Slots : Repairs(t)' => Repairs(t)
        /\ \A t \in Slots : FreshLoad(t)' => FreshLoad(t)
    BY <1>3, <1>4 DEF Live, Repairs, FreshLoad, Busy, Transfers
  <1>6. /\ \A t \in Slots : Leaving(t)' => Leaving(t)
        /\ \A t \in Slots : SwarmAttempt(t)' => SwarmAttempt(t)
    BY <1>3, <1>4 DEF Leaving, SwarmAttempt, Attempt, Busy
  <1>7. \A t \in Slots : SeedAttempt(t)' => t = s
    <2>1. \A t \in Slots : ~SeedAttempt(t)
      BY <1>0, <1>1, RetrievingAssumption DEF SeedingInv
    <2> QED
      BY <1>4, <2>1 DEF SeedAttempt, Attempt, Busy
  <1>8. TypeOK'
    BY <1>0, <1>1, <1>3, <1>4, RetrievingAssumption DEF TypeOK, TaskTable, Kinds, Transfers
  <1>9. OneTransfer'
    BY <1>1, <1>5, OneTransferKept
  <1>10. ShownIsWanted' /\ ShownInv'
    BY <1>0, <1>1, <1>5 DEF ShownIsWanted, ShownInv, FreshLoad
  <1>11. RetrievalInv'
    BY <1>0, <1>1, <1>6 DEF RetrievalInv, SwarmConsent
  <1>12. SeedingInv'
    BY <1>1, <1>2, <1>7 DEF SeedingInv
  <1>13. RepairInv'
    BY <1>0, <1>1, <1>5 DEF RepairInv
  <1>14. JoiningInv'
    BY <1>0, <1>3, <1>4 DEF JoiningInv, Attempt, Busy
  <1> QED
    BY <1>8, <1>9, <1>10, <1>11, <1>12, <1>13, <1>14 DEF Parts

(***************************************************************************)
(* The theorems                                                            *)
(***************************************************************************)

(* The page as it is loaded, at first and again.                           *)
LEMMA LoadedPage == Init => Parts
  <1> SUFFICES ASSUME Init PROVE Parts
    OBVIOUS
  <1>1. \A s \in Slots : tasks[s].kind = None
    BY IdleKind DEF Init
  <1>2. TypeOK
    <2>1. tasks \in [Slots -> Tasks \cup {Idle}]
      BY DEF Init
    <2>2. stopping \in [{"retrieval", "seed"} -> 0..1]
      BY SMT DEF Init
    <2> QED
      BY <2>1, <2>2 DEF Init, TypeOK
  <1>3. ShownIsWanted /\ OneTransfer /\ ShownInv
    BY <1>1, RetrievingAssumption DEF Init, ShownIsWanted, OneTransfer, ShownInv, Busy, Kinds
  <1>4. RetrievalInv /\ SeedingInv
    BY <1>1 DEF Init, RetrievalInv, SeedingInv, Leaving, SwarmAttempt, SeedAttempt, Attempt, Busy
  <1>5. RepairInv /\ JoiningInv
    BY <1>1, RetrievingAssumption DEF RepairInv, Repairs, JoiningInv, Busy, Kinds
  <1> QED
    BY <1>2, <1>3, <1>4, <1>5 DEF Parts

LEMMA ReloadStep ==
  ASSUME Reload
  PROVE  Parts'
  <1>1. \A s \in Slots : tasks'[s].kind = None
    BY IdleKind DEF Reload
  <1>2. TypeOK'
    <2>1. tasks' \in [Slots -> Tasks \cup {Idle}]
      BY DEF Reload
    <2>2. stopping' \in [{"retrieval", "seed"} -> 0..1]
      BY SMT DEF Reload
    <2> QED
      BY <2>1, <2>2 DEF Reload, TypeOK
  <1>3. ShownIsWanted' /\ OneTransfer' /\ ShownInv'
    BY <1>1, RetrievingAssumption DEF Reload, ShownIsWanted, OneTransfer, ShownInv, Busy, Kinds
  <1>4. RetrievalInv' /\ SeedingInv'
    BY <1>1 DEF Reload, RetrievalInv, SeedingInv, Leaving, SwarmAttempt, SeedAttempt, Attempt, Busy
  <1>5. RepairInv' /\ JoiningInv'
    BY <1>1, RetrievingAssumption DEF RepairInv, Repairs, JoiningInv, Busy, Kinds
  <1> QED
    BY <1>2, <1>3, <1>4, <1>5 DEF Parts

LEMMA UnchangedStep ==
  ASSUME Parts, UNCHANGED vars
  PROVE  Parts'
  <1>0. TypeOK /\ tasks \in TaskTable /\ RepairInv
    BY DEF Parts, TypeOK, TaskTable
  <1>1. UNCHANGED <<profile, wanted, resolved, link, consents, lookup, download, seeder, sessions, plan, ended, unsure, tasks>>
    BY DEF vars, shown, controllers
  <1>2. /\ Quiet /\ Holders' /\ ShownIsWanted' /\ OneTransfer' /\ ShownInv'
        /\ \A s \in Slots : Leaving(s)' => download' # s
        /\ \A s \in Slots : Repairs(s)' => Repairs(s)
    BY <1>0, <1>1, WeakensItself, AbortStep
  <1> QED
    BY <1>0, <1>1, <1>2, KeptStep DEF TypeOK, RepairInv

LEMMA PartsStep == Parts /\ [Next]_vars => Parts'
  <1> SUFFICES ASSUME Parts, [Next]_vars PROVE Parts'
    OBVIOUS
  <1>0. Shared \subseteq Events
    BY RetrievingAssumption
  <1>1. ASSUME NEW s \in Slots, Goes(s) PROVE Parts'
    BY <1>0, <1>1, LoadedStep, LookedUpStep, RepairSignedStep, TransferStep, SwarmStep, SeedStep, LeaveFirstStep DEF Goes
  <1>2. CASE ~ended /\ User
    BY <1>0, <1>2, AbortingStep, NetworkStep, ResolvingStep, FetchStep, LeaveFirstStep, BeginSeedStep, PassiveStep, WithdrawingStep DEF User
  <1> QED
    BY <1>1, <1>2, PassiveStep, ReloadStep, UnchangedStep DEF Next

LEMMA RetrievingInvariant == Spec => []RetrievingInv
  <1>1. Spec => []Parts
    BY LoadedPage, PartsStep, PTL DEF Spec
  <1> QED
    BY <1>1, InvOfParts, PTL

(* The resolved event is the one the form names, or a receipt of the same  *)
(* payload that a repair was extended to; the save link holds its file,    *)
(* and the one transfer that nothing aborted is of it: src/main.ts and its *)
(* resolutionRevision, for any number of handlers that wait.               *)
THEOREM ShownAlwaysFits == Spec => []ShownFits
  BY RetrievingInvariant, PTL DEF RetrievingInv

(* The page is a peer, or becomes one, only with consent, outside Tor and  *)
(* before it is left, and never while a session of the same kind may still *)
(* be one: pendingPeerStops in src/main.ts, the listeners in core/swarm.ts.*)
THEOREM PeersAlwaysFit == Spec => []PeersFit
  BY RetrievingInvariant, PTL DEF RetrievingInv

=============================================================================
