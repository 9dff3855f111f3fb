----------------------------- MODULE Retrieving -----------------------------
(***************************************************************************)
(* The retrieving half of the main page and its peers (src/main.ts over    *)
(* core/swarm.ts): resolve a signed event, fetch its file from a server, a *)
(* pool or a swarm, repair a pool, seed what was published.                *)
(*                                                                         *)
(* A handler that awaits occupies a slot; `fresh` tells whether the        *)
(* resolution revision it captured is still the current one.  The client   *)
(* of a swarm exists while its handler is joining, revealing or ending it, *)
(* while a session holds it, and while a session is being stopped.  A stop *)
(* ends within five seconds, confirmed or not.                             *)
(*                                                                         *)
(* An event stands for its id, its file and the bytes of the file; the     *)
(* form names it by its id or by its saved text.  Of pool receipts several *)
(* may be about one payload: a repair signs one with more nodes.  The Tor  *)
(* confirmation is in Publishing: withdrawing it resets here what an edit  *)
(* of the endpoints resets.  So is the publication, of which only the plan *)
(* is here.                                                                *)
(***************************************************************************)
EXTENDS Naturals, FiniteSets

CONSTANTS
  Slots,    \* the handlers that can be waiting at once
  Events,   \* the signed events,
  Torrents, \*   those with a magnet link
  Pools,    \*   and the pool receipts
  Shared,   \* the events that the form can name
  Payload,  \* what each receipt is of
  None

Kinds == {"load", "lookup", "fetch", "repair", "swarm", "seed"}

ASSUME RetrievingAssumption ==
  /\ IsFiniteSet(Slots)
  /\ Shared \subseteq Events /\ Torrents \subseteq Events /\ Pools \subseteq Events /\ Torrents \cap Pools = {}
  /\ None \notin Slots \cup Events \cup Kinds

(* Receipts that one receipt may have been extended to, or from.           *)
SamePayload(e, f) == {e, f} \subseteq Pools /\ Payload[e] = Payload[f]

VARIABLES
  profile,     \* the network profile
  wanted,      \* the event the form names, or None
  resolved,    \* `resolved` or `resolvedPool`, or None
  link,        \* the event whose file the save link holds, or None
  consents,    \* of "swarm", "repair" and "seed"
  lookup,      \* the slot of lookupController, or None
  download,    \* that of downloadController
  seeder,      \* that of seedController
  session,     \* whether downloadSession is set
  seedSession, \* whether seedSession is set
  stopping,    \* the sessions being stopped in the background, by kind
  plan,        \* whether a torrent plan is staged for seeding
  ended,       \* the page was left
  unsure,      \* history: a session that was not kept could not be confirmed to
               \*   be gone, and swarm consent was not given since
  tasks        \* the waiting handlers

shown == <<wanted, resolved, link>>
controllers == <<lookup, download, seeder>>
sessions == <<session, seedSession, stopping>>
vars == <<profile, shown, consents, controllers, sessions, plan, ended, unsure, tasks>>

Idle == [kind |-> None]
Stages == {"asking", "signing", "transfer", "reveal", "leaving", "loading", "joining", "failing", "dropping"}
Tasks == [kind : Kinds, stage : Stages, fresh : BOOLEAN, aborted : BOOLEAN, sole : BOOLEAN, event : Events \cup {None}]

Busy(s) == tasks[s].kind # None
Transfers == {"fetch", "repair", "swarm"}

(* The types of what is shown, the sessions and the waiting handlers;      *)
(* stopping sessions are counted up and down without going astray.         *)
TypeOK ==
  /\ profile \in {"direct", "tor"} /\ wanted \in Events \cup {None}
  /\ resolved \in Events \cup {None} /\ link \in Events \cup {None}
  /\ consents \subseteq {"swarm", "repair", "seed"}
  /\ session \in BOOLEAN /\ seedSession \in BOOLEAN /\ stopping \in [{"retrieval", "seed"} -> 0..1]
  /\ plan \in BOOLEAN /\ ended \in BOOLEAN /\ unsure \in BOOLEAN /\ tasks \in [Slots -> Tasks \cup {Idle}]
  /\ {lookup, download, seeder} \subseteq Slots \cup {None}
  /\ lookup # None => tasks[lookup].kind = "lookup"
  /\ download # None => tasks[download].kind \in Transfers
  /\ seeder # None => tasks[seeder].kind = "seed"

Init ==
  /\ profile = "direct" /\ wanted = None /\ resolved = None /\ link = None /\ consents = {}
  /\ lookup = None /\ download = None /\ seeder = None
  /\ session = FALSE /\ seedSession = FALSE /\ stopping = [k \in {"retrieval", "seed"} |-> 0]
  /\ plan = FALSE /\ ended = FALSE /\ unsure = FALSE /\ tasks = [s \in Slots |-> Idle]

(* pendingPeerStops: sessions stopped in the background, and the one a     *)
(* handler waits for before it joins the swarm again.                      *)
Pending(kind) ==
  stopping[kind] + Cardinality({s \in Slots : kind = "retrieval" /\ Busy(s) /\ tasks[s].stage = "leaving"})

(***************************************************************************)
(* Aborts and resets                                                       *)
(***************************************************************************)

(* The abort listener of a client that is joining destroys it at once.     *)
AbortOf(ts, holder) ==
  IF holder = None THEN ts
  ELSE [ts EXCEPT ![holder].aborted = TRUE, ![holder].stage = IF @ = "joining" THEN "failing" ELSE @]

(* resolutionRevision += 1.  The seeding handlers do not look at it.       *)
Outdated(ts) == [s \in Slots |-> IF Busy(s) /\ tasks[s].kind # "seed" THEN [ts[s] EXCEPT !.fresh = FALSE] ELSE ts[s]]

(* stopPeerSession() in the background, if there is a session.             *)
Stopped(st, kind, there) == IF there THEN [st EXCEPT ![kind] = @ + 1] ELSE st

(* resetResolution(): the handlers it leaves, and the rest; `st` are the   *)
(* stops that are under way already.                                       *)
Cleared(ts) == Outdated(AbortOf(AbortOf(ts, lookup), download))

ResetResolution(st) ==
  /\ download' = None /\ resolved' = None /\ link' = None
  /\ stopping' = Stopped(st, "retrieval", session) /\ session' = FALSE

(* The part of resetPublicationAfterInspection() that is about peers and   *)
(* pools: it ends the seeding, and a transfer of a pool.                   *)
AbortedPublication ==
  LET seeds == AbortOf(tasks, seeder) IN
  IF resolved \in Pools THEN AbortOf(seeds, download) ELSE seeds

(* An edit of the publication: file, layout, signing method.               *)
EditPublication ==
  /\ tasks' = AbortedPublication /\ seeder' = None
  /\ stopping' = Stopped(stopping, "seed", seedSession) /\ seedSession' = FALSE /\ plan' = FALSE
  /\ consents' = consents \ (IF resolved \in Pools /\ download # None THEN {"seed", "repair"} ELSE {"seed"})
  /\ UNCHANGED <<profile, shown, lookup, download, session, ended, unsure>>

(* Another profile, or other endpoints in the same one.                    *)
Reconfigure(p) ==
  /\ profile' = p /\ wanted' = IF p = profile THEN wanted ELSE None
  /\ tasks' = Cleared(AbortedPublication) /\ lookup' = None
  /\ ResetResolution(Stopped(stopping, "seed", seedSession))
  /\ seeder' = None /\ seedSession' = FALSE /\ plan' = FALSE /\ consents' = {}
  /\ UNCHANGED <<ended, unsure>>

(* The event id or the saved text is edited.                               *)
EditEvent(e) ==
  /\ e # wanted /\ wanted' = e
  /\ tasks' = Cleared(tasks) /\ lookup' = None /\ ResetResolution(stopping)
  /\ consents' = consents \ {"swarm", "repair"}
  /\ UNCHANGED <<profile, seeder, seedSession, plan, ended, unsure>>

(* endPageSession(), when the page is hidden for good.                     *)
EndPage ==
  /\ ~ended /\ ended' = TRUE
  /\ tasks' = Cleared(AbortedPublication) /\ lookup' = None
  /\ ResetResolution(Stopped(stopping, "seed", seedSession))
  /\ wanted' = None /\ seeder' = None /\ seedSession' = FALSE /\ plan' = FALSE /\ consents' = {}
  /\ UNCHANGED <<profile, unsure>>

(* A page that is restored is loaded again.                                *)
Reload ==
  /\ ended
  /\ profile' = "direct" /\ wanted' = None /\ resolved' = None /\ link' = None /\ consents' = {}
  /\ lookup' = None /\ download' = None /\ seeder' = None
  /\ session' = FALSE /\ seedSession' = FALSE /\ stopping' = [k \in {"retrieval", "seed"} |-> 0]
  /\ plan' = FALSE /\ ended' = FALSE /\ unsure' = FALSE /\ tasks' = [s \in Slots |-> Idle]

(***************************************************************************)
(* Resolving an event                                                      *)
(***************************************************************************)

Started(kind, stage) ==
  [kind |-> kind, stage |-> stage, fresh |-> TRUE, aborted |-> FALSE, sole |-> TRUE, event |-> resolved]

(* Torrent metadata is refused in the Tor profile.                         *)
Resolvable(e) == profile = "tor" => e \notin Torrents

(* A file with a saved event is read; then the form names that event.      *)
LoadSaved(s) ==
  /\ ~Busy(s) /\ tasks' = [Cleared(tasks) EXCEPT ![s] = [Started("load", "asking") EXCEPT !.event = None]]
  /\ lookup' = None /\ ResetResolution(stopping)
  /\ wanted' = None /\ consents' = consents \ {"swarm", "repair"}
  /\ UNCHANGED <<profile, seeder, seedSession, plan, ended, unsure>>

Loaded(s, e) ==
  /\ tasks[s].kind = "load" /\ tasks' = [tasks EXCEPT ![s] = Idle]
  /\ wanted' = IF tasks[s].fresh THEN e ELSE wanted
  /\ UNCHANGED <<profile, resolved, link, consents, controllers, sessions, plan, ended, unsure>>

(* Verifying a saved event needs no network.                               *)
VerifySaved ==
  /\ wanted # None
  /\ tasks' = Cleared(tasks) /\ lookup' = None /\ download' = None
  /\ stopping' = Stopped(stopping, "retrieval", session) /\ session' = FALSE
  /\ resolved' = (IF Resolvable(wanted) THEN wanted ELSE None) /\ link' = None
  /\ consents' = consents \ {"swarm", "repair"}
  /\ UNCHANGED <<profile, wanted, seeder, seedSession, plan, ended, unsure>>

(* The relays are asked for the event; pool receipts are not on relays.    *)
Resolve(s) ==
  /\ ~Busy(s) /\ wanted \in Events \ Pools
  /\ tasks' = [Cleared(tasks) EXCEPT ![s] = [Started("lookup", "asking") EXCEPT !.event = wanted]]
  /\ lookup' = s /\ ResetResolution(stopping)
  /\ consents' = consents \ {"swarm", "repair"}
  /\ UNCHANGED <<profile, wanted, seeder, seedSession, plan, ended, unsure>>

(* The answer is still the one asked for.                                  *)
Answers(s) == ~tasks[s].aborted /\ lookup = s /\ tasks[s].fresh /\ wanted = tasks[s].event

LookedUp(s) ==
  /\ tasks[s].kind = "lookup" /\ tasks' = [tasks EXCEPT ![s] = Idle]
  /\ lookup' = IF lookup = s THEN None ELSE lookup
  /\ resolved' \in {resolved} \cup (IF Answers(s) /\ Resolvable(tasks[s].event) THEN {tasks[s].event} ELSE {})
  /\ UNCHANGED <<profile, wanted, link, consents, download, seeder, sessions, plan, ended, unsure>>

(***************************************************************************)
(* Transfers from servers and pools                                        *)
(***************************************************************************)

(* A handler waits for the end of the session before.                      *)
Leaving(s) == Busy(s) /\ tasks[s].stage = "leaving"

(* Another attempt has begun, which a handler that leaves a swarm notices; *)
(* those of pools are not counted (retrievalAttempts).                     *)
Begins(s, kind, stage) ==
  /\ tasks' = [t \in Slots |-> IF t = s THEN Started(kind, stage)
                 ELSE IF Leaving(t) /\ resolved \notin Pools THEN [tasks[t] EXCEPT !.sole = FALSE] ELSE tasks[t]]
  /\ download' = s /\ link' = None

Fetch(s) ==
  /\ ~Busy(s) /\ resolved # None /\ download = None /\ Begins(s, "fetch", "transfer")
  /\ UNCHANGED <<profile, wanted, resolved, consents, lookup, seeder, sessions, plan, ended, unsure>>

(* With replacement nodes, a repair asks for a longer receipt to be signed *)
(* before it writes.                                                       *)
Repair(s) ==
  /\ ~Busy(s) /\ resolved \in Pools /\ "repair" \in consents /\ download = None
  /\ \E stage \in {"signing", "transfer"} : Begins(s, "repair", stage)
  /\ UNCHANGED <<profile, wanted, resolved, consents, lookup, seeder, sessions, plan, ended, unsure>>

(* Mutant: the receipt is shown whatever became of the form meanwhile.     *)
MayExtend_Any(s) == TRUE

(* throwIfAborted() and the revision, after the signature.                 *)
MayExtend(s) == ~tasks[s].aborted /\ tasks[s].fresh

(* showResolvedPool() of the longer receipt: it takes the place of the one *)
(* that the form names.                                                    *)
RepairSigned(s, e) ==
  /\ tasks[s].kind = "repair" /\ tasks[s].stage = "signing" /\ MayExtend(s)
  /\ e # tasks[s].event /\ SamePayload(e, tasks[s].event)
  /\ resolved' = e /\ tasks' = [tasks EXCEPT ![s].stage = "transfer", ![s].event = e]
  /\ UNCHANGED <<profile, wanted, link, consents, controllers, sessions, plan, ended, unsure>>

(* The checks after the awaits of a transfer; one of a pool looks at the   *)
(* revision only.                                                          *)
Current(s) ==
  ~tasks[s].aborted /\ tasks[s].fresh /\ (tasks[s].event \in Pools \/ resolved = tasks[s].event)

Is(s, kind, stage) == tasks[s].kind = kind /\ tasks[s].stage = stage

(* The bytes are verified; an encrypted file is decrypted next.            *)
Received(s) ==
  /\ Is(s, "fetch", "transfer") /\ ~tasks[s].aborted
  /\ tasks' = [tasks EXCEPT ![s].stage = "reveal"]
  /\ UNCHANGED <<profile, shown, consents, controllers, sessions, plan, ended, unsure>>

(* `finally`: the controller is cleared if it is still this handler's.     *)
DownloadAfter(s) == IF download = s THEN None ELSE download

Ends(s) == tasks' = [tasks EXCEPT ![s] = Idle] /\ download' = DownloadAfter(s)

Revealed(s) ==
  /\ Is(s, "fetch", "reveal") /\ Ends(s)
  /\ link' = IF Current(s) THEN tasks[s].event ELSE link
  /\ UNCHANGED <<profile, wanted, resolved, consents, lookup, seeder, sessions, plan, ended, unsure>>

(* The transfer fails, was aborted, or the key does not fit; a repair ends *)
(* or is not signed for.                                                   *)
TransferEnds(s) ==
  /\ tasks[s].kind \in {"fetch", "repair"} /\ Ends(s)
  /\ UNCHANGED <<profile, shown, consents, lookup, seeder, sessions, plan, ended, unsure>>

CancelDownload ==
  /\ download # None /\ ~tasks[download].aborted /\ tasks' = AbortOf(tasks, download)
  /\ UNCHANGED <<profile, shown, consents, controllers, sessions, plan, ended, unsure>>

Tick(c) ==
  /\ c \notin consents /\ (c = "repair" => resolved \in Pools) /\ consents' = consents \cup {c}
  /\ unsure' = (unsure /\ c # "swarm")
  /\ UNCHANGED <<profile, shown, controllers, sessions, plan, ended, tasks>>

(* Unticking the repair aborts any transfer.                               *)
UnrepairedTasks == AbortOf(tasks, download)

UntickRepair ==
  /\ "repair" \in consents /\ consents' = consents \ {"repair"} /\ tasks' = UnrepairedTasks
  /\ UNCHANGED <<profile, shown, controllers, sessions, plan, ended, unsure>>

(* Editing the replacements aborts a repair only.                          *)
EditReplacements ==
  /\ resolved \in Pools /\ consents' = consents \ {"repair"}
  /\ tasks' = IF download # None /\ tasks[download].kind = "repair" THEN AbortOf(tasks, download) ELSE tasks
  /\ (download # None \/ "repair" \in consents)
  /\ UNCHANGED <<profile, shown, controllers, sessions, plan, ended, unsure>>

(***************************************************************************)
(* The swarm                                                               *)
(***************************************************************************)

NoneStopping(kind) == Pending(kind) = 0

(* A session that was kept is left first.                                  *)
SwarmFetch(s) ==
  /\ ~Busy(s) /\ resolved \in Torrents /\ "swarm" \in consents /\ download = None
  /\ NoneStopping("retrieval")
  /\ IF session
     THEN /\ tasks' = [tasks EXCEPT ![s] = Started("swarm", "leaving")] /\ session' = FALSE
          /\ UNCHANGED <<download, link>>
     ELSE Begins(s, "swarm", "loading") /\ UNCHANGED session
  /\ UNCHANGED <<profile, wanted, resolved, consents, lookup, seeder, seedSession, stopping, plan, ended, unsure>>

(* Mutant: consent is not asked again.                                     *)
MayRejoin_Unasked(s) == download = None /\ tasks[s].sole /\ tasks[s].fresh

(* Consent, the event or another download may have changed meanwhile.      *)
MayRejoin(s) ==
  /\ "swarm" \in consents /\ download = None /\ tasks[s].sole
  /\ resolved = tasks[s].event /\ tasks[s].fresh

(* The session before is gone, or nobody knows: then consent is withdrawn. *)
Left(s, confirmed) ==
  /\ Is(s, "swarm", "leaving")
  /\ IF confirmed /\ MayRejoin(s)
     THEN Begins(s, "swarm", "loading")
     ELSE tasks' = [tasks EXCEPT ![s] = Idle] /\ UNCHANGED <<download, link>>
  /\ consents' = IF confirmed THEN consents ELSE consents \ {"swarm"}
  /\ UNCHANGED <<profile, wanted, resolved, lookup, seeder, sessions, plan, ended, unsure>>

(* Mutant: an abort while the library was loaded is not noticed.           *)
JoinsIf_Loaded(s) == TRUE

(* signal.aborted after the import.                                        *)
JoinsIf(s) == ~tasks[s].aborted

(* The library is there, or cannot be loaded.                              *)
SwarmLoads(s) ==
  /\ Is(s, "swarm", "loading")
  /\ \/ JoinsIf(s) /\ tasks' = [tasks EXCEPT ![s].stage = "joining"] /\ UNCHANGED download
     \/ Ends(s)
  /\ UNCHANGED <<profile, shown, consents, lookup, seeder, sessions, plan, ended, unsure>>

(* The bytes have the signed hash; the client stays a peer.                *)
SwarmReceived(s) ==
  /\ Is(s, "swarm", "joining")
  /\ tasks' = [tasks EXCEPT ![s].stage = IF Current(s) THEN "reveal" ELSE "dropping"]
  /\ UNCHANGED <<profile, shown, consents, controllers, sessions, plan, ended, unsure>>

(* The session is kept with the file, or dropped when the key does not fit *)
(* or something has changed.                                               *)
SwarmRevealed(s) ==
  /\ Is(s, "swarm", "reveal")
  /\ \/ /\ Current(s) /\ link' = tasks[s].event /\ session' = TRUE /\ Ends(s)
     \/ tasks' = [tasks EXCEPT ![s].stage = "dropping"] /\ UNCHANGED <<link, session, download>>
  /\ UNCHANGED <<profile, wanted, resolved, consents, lookup, seeder, seedSession, stopping, plan, ended, unsure>>

SwarmDropped(s, confirmed) ==
  /\ Is(s, "swarm", "dropping") /\ Ends(s)
  /\ consents' = (IF confirmed THEN consents ELSE consents \ {"swarm"}) /\ unsure' = (unsure \/ ~confirmed)
  /\ UNCHANGED <<profile, shown, lookup, seeder, sessions, plan, ended>>

(* An error, wrong metadata, wrong bytes or the time limit.                *)
PeerFails(s) ==
  /\ tasks[s].kind \in {"swarm", "seed"} /\ tasks[s].stage = "joining"
  /\ tasks' = [tasks EXCEPT ![s].stage = "failing"]
  /\ UNCHANGED <<profile, shown, consents, controllers, sessions, plan, ended, unsure>>

(* The client is destroyed, or the five seconds are over.                  *)
SwarmFailed(s) ==
  /\ Is(s, "swarm", "failing") /\ Ends(s)
  /\ UNCHANGED <<profile, shown, consents, lookup, seeder, sessions, plan, ended, unsure>>

Unswarmed == IF download # None /\ tasks[download].kind = "swarm" THEN AbortOf(tasks, download) ELSE tasks

UntickSwarm ==
  /\ "swarm" \in consents /\ consents' = consents \ {"swarm"} /\ tasks' = Unswarmed
  /\ stopping' = Stopped(stopping, "retrieval", session) /\ session' = FALSE
  /\ UNCHANGED <<profile, shown, controllers, seedSession, plan, ended, unsure>>

(* A stop in the background ends; an unconfirmed one withdraws consent.    *)
StopEnds(kind, confirmed) ==
  /\ stopping[kind] > 0 /\ stopping' = [stopping EXCEPT ![kind] = @ - 1]
  /\ consents' = IF confirmed THEN consents ELSE consents \ {IF kind = "seed" THEN "seed" ELSE "swarm"}
  /\ UNCHANGED <<profile, shown, controllers, session, seedSession, plan, ended, unsure, tasks>>

(***************************************************************************)
(* Seeding                                                                 *)
(***************************************************************************)

(* An upload with trackers has staged a plan.                              *)
Plans ==
  /\ profile = "direct" /\ ~plan /\ plan' = TRUE
  /\ UNCHANGED <<profile, shown, consents, controllers, sessions, ended, unsure, tasks>>

Seed(s) ==
  /\ ~Busy(s) /\ plan /\ "seed" \in consents /\ profile = "direct"
  /\ seeder = None /\ ~seedSession /\ NoneStopping("seed")
  /\ tasks' = [tasks EXCEPT ![s] = [Started("seed", "loading") EXCEPT !.event = None]] /\ seeder' = s
  /\ UNCHANGED <<profile, shown, consents, lookup, download, sessions, plan, ended, unsure>>

SeederAfter(s) == IF seeder = s THEN None ELSE seeder

SeedLoads(s) ==
  /\ Is(s, "seed", "loading")
  /\ \/ JoinsIf(s) /\ tasks' = [tasks EXCEPT ![s].stage = "joining"] /\ UNCHANGED seeder
     \/ tasks' = [tasks EXCEPT ![s] = Idle] /\ seeder' = SeederAfter(s)
  /\ UNCHANGED <<profile, shown, consents, lookup, download, sessions, plan, ended, unsure>>

Seeds(s) ==
  /\ Is(s, "seed", "joining") /\ tasks' = [tasks EXCEPT ![s] = Idle]
  /\ seedSession' = TRUE /\ seeder' = SeederAfter(s)
  /\ UNCHANGED <<profile, shown, consents, lookup, download, session, stopping, plan, ended, unsure>>

SeedFailed(s) ==
  /\ Is(s, "seed", "failing") /\ tasks' = [tasks EXCEPT ![s] = Idle] /\ seeder' = SeederAfter(s)
  /\ UNCHANGED <<profile, shown, consents, lookup, download, sessions, plan, ended, unsure>>

UntickSeed ==
  /\ "seed" \in consents /\ consents' = consents \ {"seed"}
  /\ tasks' = AbortOf(tasks, seeder) /\ seeder' = None
  /\ stopping' = Stopped(stopping, "seed", seedSession) /\ seedSession' = FALSE
  /\ UNCHANGED <<profile, shown, lookup, download, session, plan, ended, unsure>>

(* The stop button aborts a start, whose handler keeps its controller, or  *)
(* stops the session.                                                      *)
StopSeeding ==
  /\ IF seeder # None
     THEN ~tasks[seeder].aborted /\ tasks' = AbortOf(tasks, seeder) /\ UNCHANGED <<stopping, seedSession>>
     ELSE seedSession /\ seedSession' = FALSE /\ stopping' = Stopped(stopping, "seed", TRUE) /\ UNCHANGED tasks
  /\ UNCHANGED <<profile, shown, consents, controllers, session, plan, ended, unsure>>

Goes(s) ==
  \/ \E e \in Shared \cup {None} : Loaded(s, e)
  \/ \E e \in Pools : RepairSigned(s, e)
  \/ LookedUp(s) \/ Received(s) \/ Revealed(s) \/ TransferEnds(s)
  \/ SwarmLoads(s) \/ SwarmReceived(s) \/ SwarmRevealed(s) \/ PeerFails(s) \/ SwarmFailed(s)
  \/ \E c \in BOOLEAN : Left(s, c) \/ SwarmDropped(s, c)
  \/ SeedLoads(s) \/ Seeds(s) \/ SeedFailed(s)

Stops(kind) == \E c \in BOOLEAN : StopEnds(kind, c)

User ==
  \/ EditPublication \/ \E p \in {"direct", "tor"} : Reconfigure(p)
  \/ \E e \in Shared \cup {None} : EditEvent(e)
  \/ \E s \in Slots : LoadSaved(s) \/ Resolve(s) \/ Fetch(s) \/ Repair(s) \/ SwarmFetch(s) \/ Seed(s)
  \/ VerifySaved \/ CancelDownload \/ EditReplacements
  \/ \E c \in {"swarm", "repair", "seed"} : Tick(c)
  \/ UntickRepair \/ UntickSwarm \/ UntickSeed \/ StopSeeding \/ Plans \/ EndPage

Next ==
  \/ \E s \in Slots : Goes(s)
  \/ \E kind \in {"retrieval", "seed"} : Stops(kind)
  \/ (~ended /\ User)
  \/ Reload

(* Imports, transfers and cleanups end, at the latest by their time limit. *)
(* A signature may never come: signPool() waits without one.               *)
Fairness ==
  /\ \A s \in Slots : WF_vars(Goes(s) /\ tasks[s].stage # "signing")
  /\ \A kind \in {"retrieval", "seed"} : WF_vars(Stops(kind))

Spec == Init /\ [][Next]_vars /\ Fairness

(***************************************************************************)
(* Properties                                                              *)
(***************************************************************************)

(* What is shown belongs to the event the form names, although answers,    *)
(* signatures and transfers that began before an edit end after it: the    *)
(* resolved event is that one or, after a repair to more nodes, a receipt  *)
(* of the same payload, which the form does not name; and the save link    *)
(* holds the file of the event that is shown.                              *)
ShownIsWanted ==
  /\ resolved \in {None, wanted} \/ SamePayload(resolved, wanted)
  /\ link \in {None, resolved}

(* One transfer at a time: those that were not aborted hold the            *)
(* controller, for the event that is shown, and no file is shown yet.      *)
OneTransfer ==
  \A s \in Slots : Busy(s) /\ tasks[s].kind \in Transfers /\ ~tasks[s].aborted /\ tasks[s].stage \notin {"leaving", "dropping", "failing"} =>
    download = s /\ tasks[s].event = resolved /\ link = None

(* The page is a peer, or becomes one, only with consent, outside Tor and  *)
(* before it is left; a repair writes only with consent.  One exception is *)
(* left: when a session that was not kept cannot be confirmed to be gone,  *)
(* the consent is withdrawn under a transfer that has begun meanwhile.     *)
PeersHaveConsent ==
  /\ session => ("swarm" \in consents \/ unsure) /\ profile = "direct" /\ ~ended
  /\ seedSession => "seed" \in consents /\ profile = "direct" /\ plan /\ ~ended
  /\ \A s \in Slots : Busy(s) /\ tasks[s].stage = "joining" =>
       /\ profile = "direct" /\ ~ended
       /\ IF tasks[s].kind = "swarm" THEN "swarm" \in consents \/ unsure ELSE "seed" \in consents
  /\ \A s \in Slots : Busy(s) /\ tasks[s].kind = "repair" /\ ~tasks[s].aborted => "repair" \in consents

(* "While an earlier session may still be a peer, no new session of the    *)
(* same kind may join".                                                    *)
SessionsEndFirst ==
  /\ Pending("seed") > 0 =>
       /\ ~seedSession
       /\ \A s \in Slots : Busy(s) /\ tasks[s].kind = "seed" => tasks[s].aborted
  /\ Pending("retrieval") > 0 =>
       /\ ~session
       /\ \A s \in Slots : Busy(s) /\ tasks[s].kind = "swarm" /\ tasks[s].stage \in {"loading", "joining", "reveal"} => tasks[s].aborted

Peer(kind) ==
  \/ IF kind = "seed" THEN seedSession ELSE session
  \/ Pending(kind) > 0
  \/ \E s \in Slots : Busy(s) /\ tasks[s].kind = (IF kind = "seed" THEN "seed" ELSE "swarm")

(* Once consent is withdrawn the page ceases to be a peer, unless consent  *)
(* is given again first, or was withdrawn from under a later transfer: see *)
(* PeersHaveConsent.  A page that is a peer for good has consent again and *)
(* again.                                                                  *)
WithdrawnLeaves ==
  /\ []<>("swarm" \in consents \/ unsure \/ ~Peer("retrieval"))
  /\ []<>("seed" \in consents \/ ~Peer("seed"))

(* What the handlers that wait may still rely on: while the relays are     *)
(* asked, or a file that is current is read, nothing is shown; nothing is  *)
(* shown once the page was left, and no torrent in the Tor profile.        *)
ShownInv ==
  /\ lookup # None => resolved = None /\ download = None
  /\ ended => resolved = None /\ lookup = None
  /\ resolved \in Torrents => profile = "direct"
  /\ \A s \in Slots : tasks[s].kind = "load" /\ tasks[s].fresh =>
       /\ wanted = None /\ resolved = None
       /\ \A t \in Slots : tasks[t].kind = "load" /\ tasks[t].fresh => t = s

(* An attempt to join that nothing has aborted.                            *)
Attempt(s) ==
  /\ Busy(s) /\ ~tasks[s].aborted
  /\ \/ tasks[s].kind = "swarm" /\ tasks[s].stage \in {"loading", "joining", "reveal"}
     \/ tasks[s].kind = "seed"

(* A session, its end and an attempt at the next one exclude each other,   *)
(* whichever handler they belong to; an attempt that nothing has aborted   *)
(* has what it needs to become a peer.                                     *)
PeersInv ==
  /\ session => stopping["retrieval"] = 0
  /\ seedSession => stopping["seed"] = 0
  /\ \A s \in Slots : Leaving(s) =>
       /\ ~session /\ stopping["retrieval"] = 0 /\ download # s
       /\ \A t \in Slots : Leaving(t) => t = s
  /\ \A s \in Slots : Attempt(s) /\ tasks[s].kind = "swarm" =>
       ("swarm" \in consents \/ unsure) /\ ~session
  /\ \A s \in Slots : Attempt(s) /\ tasks[s].kind = "seed" =>
       seeder = s /\ "seed" \in consents /\ profile = "direct" /\ plan /\ ~ended /\ ~seedSession
  /\ \A s \in Slots : Busy(s) /\ tasks[s].stage = "joining" => Attempt(s)
  /\ \A s \in Slots : tasks[s].kind = "swarm" => tasks[s].event \in Torrents
  /\ \A s \in Slots : tasks[s].kind = "repair" => tasks[s].stage \in {"signing", "transfer"}

(* What is shown and what is being transferred belong to the event the     *)
(* form names.                                                             *)
ShownFits == TypeOK /\ ShownIsWanted /\ OneTransfer /\ ShownInv

(* The page is a peer only with consent, and only one session of a kind at *)
(* a time.                                                                 *)
PeersFit == PeersHaveConsent /\ SessionsEndFirst /\ PeersInv
=============================================================================
