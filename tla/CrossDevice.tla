----------------------------- MODULE CrossDevice -----------------------------
(***************************************************************************)
(* The cross-device acceptance ceremony: the coordinator that two real     *)
(* devices publish, look up and meet through                               *)
(* (scripts/cross-device-coordinator.mjs), and the verifier that reads its *)
(* evidence and a packet capture afterwards                                *)
(* (scripts/cross-device-evidence.mjs).                                    *)
(*                                                                         *)
(* A blob stands for its envelope, its torrent and the two events about    *)
(* it; a device stands for its address and its one signing key.  Persons   *)
(* follow the plan of the ceremony except for `Slips` acts outside it.     *)
(***************************************************************************)
EXTENDS Naturals, Sequences, FiniteSets

CONSTANTS
  Devices,     \* those that can reach the coordinator
  Publisher,   \* the device whose address is declared as the publisher's
  Downloader,  \* and as the downloader's
  Blobs,       \* the encrypted blobs that may be uploaded
  Slips        \* bound: acts and faults outside the plan

ASSUME CeremonyAssumption ==
  /\ {Publisher, Downloader} \subseteq Devices /\ Publisher # Downloader /\ Blobs # {} /\ Slips \in Nat
  /\ IsFiniteSet(Devices) /\ {"coordinator", "elsewhere"} \cap Devices = {}

VARIABLES
  evidence,    \* `evidence`, in memory
  file,        \* what persistEvidence() last put at its path
  events,      \* `events`: the file events the relay can give
  uploading,   \* the uploads whose body is being read
  relays,      \* each device's relay socket
  trackers,    \* each tracker socket: "gone", "open" or "closing" (told to close)
  peers,       \* `socketState.peers`: what was announced on it
  arriving,    \* devices with a connection and no whole request yet
  phase,       \* "run", "closing" (in stop()) or "exited"
  capture,     \* the packet capture: who talked with whom, and how
  recovered,   \* the downloader holds the fixture's bytes
  slips,       \* acts and faults so far that the plan does not have
  together,    \* history: blobs, with the devices whose sockets announced them at one time
  cut,         \* history: a peer was active when stop() was called
  late         \* history: a socket was opened after stop() was called

service == <<events, uploading, relays, trackers, peers, arriving, phase>>
world == <<capture, recovered, slips>>
history == <<together, cut, late>>
ceremonyVars == <<evidence, file, service, world, history>>

Sockets == Devices \X (1..2)
Plan == CHOOSE b \in Blobs : TRUE
EventKinds == {"file", "torrent"}
Swarm == [endpoints : SUBSET Devices, started : 0..2, peak : 0..Cardinality(Devices), current : SUBSET Devices]
Evidence ==
  [status : {"incomplete", "closed"}, errors : BOOLEAN, fetched : SUBSET Devices,
   uploads : Seq([by : Devices, blob : Blobs]), publications : Seq([kind : EventKinds, by : Devices, blob : Blobs]),
   lookups : Seq([blob : Blobs, by : Devices]), swarms : [Blobs -> Swarm]]

(* The types of the evidence and of the coordinator's sockets.             *)
CeremonyTypeOK ==
  /\ evidence \in Evidence /\ file \in Evidence
  /\ events \subseteq Blobs /\ uploading \subseteq [by : Devices, blob : Blobs, good : BOOLEAN]
  /\ relays \in [Devices -> {"gone", "open", "closing"}] /\ trackers \in [Sockets -> {"gone", "open", "closing"}]
  /\ peers \in [Sockets -> SUBSET Blobs] /\ arriving \subseteq Devices
  /\ phase \in {"run", "closing", "exited"} /\ recovered \in BOOLEAN /\ slips \in 0..Slips

CeremonyInit ==
  /\ evidence = [status |-> "incomplete", errors |-> FALSE, fetched |-> {}, uploads |-> <<>>, publications |-> <<>>,
                 lookups |-> <<>>,
                 swarms |-> [b \in Blobs |-> [endpoints |-> {}, started |-> 0, peak |-> 0, current |-> {}]]]
  /\ file = evidence /\ events = {} /\ uploading = {}
  /\ relays = [d \in Devices |-> "gone"] /\ trackers = [s \in Sockets |-> "gone"]
  /\ peers = [s \in Sockets |-> {}] /\ arriving = {} /\ phase = "run"
  /\ capture = {} /\ recovered = FALSE /\ slips = 0
  /\ together = {} /\ cut = FALSE /\ late = FALSE

Least(a, b) == IF a < b THEN a ELSE b
Most(a, b) == IF a < b THEN b ELSE a
Has(seq, P(_)) == \E i \in DOMAIN seq : P(seq[i])

(* persistEvidence(): the whole record replaces the file at once.          *)
Persist(e) == evidence' = e /\ file' = e
RecordError == Persist([evidence EXCEPT !.errors = TRUE])

(* A device's packets to the coordinator, and acts outside the plan.       *)
Talks(d) == capture' = capture \cup {<<d, "coordinator", "tcp">>}
Planned(yes) == IF yes THEN UNCHANGED slips ELSE slips < Slips /\ slips' = slips + 1

(* A new request: after stop(), only on a connection that was there, whose *)
(* arrival was the act outside the plan.                                   *)
Reaches(d) ==
  \/ phase = "run" /\ UNCHANGED arriving
  \/ phase = "closing" /\ d \in arriving /\ arriving' = arriving \ {d}

(***************************************************************************)
(* HTTP                                                                    *)
(***************************************************************************)

(* A connection is accepted and its request is still incomplete.           *)
Arrives(d) ==
  /\ phase = "run" /\ d \notin arriving /\ arriving' = arriving \cup {d}
  /\ Planned(FALSE) /\ Talks(d)
  /\ UNCHANGED <<evidence, file, events, uploading, relays, trackers, peers, phase, recovered, history>>

(* headersTimeout: a request that never comes is a client error.  Only     *)
(* while the server listens: server.close() also ends the checks of the    *)
(* connections that would find it.                                         *)
RequestTimesOut(d) ==
  /\ d \in arriving /\ phase = "run" /\ arriving' = arriving \ {d} /\ RecordError
  /\ UNCHANGED <<events, uploading, relays, trackers, peers, phase, world, history>>

(* The client goes away: a client error if it had sent part of a request.  *)
ConnectionLeaves(d) ==
  /\ d \in arriving /\ phase # "exited" /\ arriving' = arriving \ {d}
  /\ RecordError \/ UNCHANGED <<evidence, file>>
  /\ UNCHANGED <<events, uploading, relays, trackers, peers, phase, world, history>>

Fetch(d) ==
  /\ d \notin evidence.fetched /\ Reaches(d) /\ Planned(d = Publisher \/ phase = "closing") /\ Talks(d)
  /\ Persist([evidence EXCEPT !.fetched = @ \cup {d}])
  /\ UNCHANGED <<events, uploading, relays, trackers, peers, phase, recovered, history>>

(* The upload's handler, up to the body it awaits.                         *)
Upload(d, b, good) ==
  /\ [by |-> d, blob |-> b, good |-> good] \notin uploading /\ Reaches(d) /\ Talks(d)
  /\ Planned(\/ phase = "closing"
             \/ /\ d = Publisher /\ b = Plan /\ good /\ evidence.uploads = <<>> /\ uploading = {}
                /\ Publisher \in evidence.fetched)
  /\ uploading' = uploading \cup {[by |-> d, blob |-> b, good |-> good]}
  /\ UNCHANGED <<evidence, file, events, relays, trackers, peers, phase, recovered, history>>

(* decodeAuthorisation(): a signed, unexpired event for these very bytes.  *)
Authorised(u) == u.good

(* The body has come, is what its headers and its authorisation say, and   *)
(* does not hold the fixture.                                              *)
UploadEnds(u) ==
  /\ u \in uploading /\ Authorised(u) /\ phase # "exited" /\ uploading' = uploading \ {u}
  /\ Persist([evidence EXCEPT !.uploads = Append(@, [by |-> u.by, blob |-> u.blob])])
  /\ UNCHANGED <<events, relays, trackers, peers, arriving, phase, world, history>>

(* It is not, or the request broke off or, while the server listens, took  *)
(* longer than requestTimeout.                                             *)
UploadFails(u) ==
  /\ u \in uploading /\ phase # "exited" /\ uploading' = uploading \ {u} /\ Planned(~Authorised(u))
  /\ RecordError
  /\ UNCHANGED <<events, relays, trackers, peers, arriving, phase, capture, recovered, history>>

(* Any other handler throws: no exact client address, an unknown path, a   *)
(* client error, a warning of the tracker.                                 *)
Misused(d) ==
  /\ ~evidence.errors /\ Reaches(d) /\ Planned(phase = "closing") /\ Talks(d) /\ RecordError
  /\ UNCHANGED <<events, uploading, relays, trackers, peers, phase, recovered, history>>

(***************************************************************************)
(* The relay                                                               *)
(***************************************************************************)

RelayOpens(d) ==
  /\ relays[d] = "gone" /\ Reaches(d) /\ Talks(d)
  /\ Planned(\/ phase = "closing"
             \/ d = Publisher /\ evidence.uploads # <<>> /\ evidence.publications = <<>>
             \/ d = Downloader /\ events # {} /\ evidence.lookups = <<>>)
  /\ relays' = [relays EXCEPT ![d] = "open"] /\ late' = (late \/ phase = "closing")
  /\ UNCHANGED <<evidence, file, events, uploading, trackers, peers, phase, recovered, together, cut>>

(* eventFacts(): what is kept of an EVENT whose signature, kind and tags   *)
(* it accepts.                                                             *)
EventFacts(d, kind, b) == [kind |-> kind, by |-> d, blob |-> b]

Publishes(d, kind, b) ==
  /\ relays[d] # "gone" /\ phase # "exited"
  /\ Planned(/\ d = Publisher /\ b = Plan /\ evidence.uploads # <<>>
             /\ ~Has(evidence.publications, LAMBDA p : p.kind = kind))
  /\ events' = (IF kind = "file" THEN events \cup {b} ELSE events)
  /\ Persist([evidence EXCEPT !.publications = Append(@, EventFacts(d, kind, b))])
  /\ UNCHANGED <<uploading, relays, trackers, peers, arriving, phase, capture, recovered, history>>

(* A REQ is written down whether or not the relay has the event.           *)
LooksUp(d, b) ==
  /\ relays[d] # "gone" /\ phase # "exited"
  /\ Planned(d = Downloader /\ b \in events /\ evidence.lookups = <<>>)
  /\ Persist([evidence EXCEPT !.lookups = Append(@, [blob |-> b, by |-> d])])
  /\ UNCHANGED <<service, capture, recovered, history>>

(* A message the relay does not accept: an error, and the socket is closed.*)
RelayRefuses(d) ==
  /\ relays[d] = "open" /\ phase # "exited" /\ Planned(FALSE) /\ RecordError
  /\ relays' = [relays EXCEPT ![d] = "closing"]
  /\ UNCHANGED <<events, uploading, trackers, peers, arriving, phase, capture, recovered, history>>

RelayCloses(d) ==
  /\ relays[d] # "gone" /\ phase # "exited"
  /\ relays' = [relays EXCEPT ![d] = "gone"]
  /\ UNCHANGED <<evidence, file, events, uploading, trackers, peers, arriving, phase, world, history>>

(***************************************************************************)
(* The tracker                                                             *)
(***************************************************************************)

(* The endpoints with a socket on which the blob's torrent is announced.   *)
Active(b, ps) == {d \in Devices : \E s \in Sockets : s[1] = d /\ b \in ps[s]}

TrackerOpens(s) ==
  /\ trackers[s] = "gone" /\ Reaches(s[1]) /\ Talks(s[1])
  /\ Planned(\/ phase = "closing"
             \/ s \in {<<Publisher, 1>>, <<Downloader, 1>>} /\ Len(evidence.publications) >= 2)
  /\ trackers' = [trackers EXCEPT ![s] = "open"] /\ late' = (late \/ phase = "closing")
  /\ UNCHANGED <<evidence, file, events, uploading, relays, peers, phase, recovered, together, cut>>

(* Mutant: the peak is of the endpoints ever seen.                         *)
Peak_Seen(swarm, active, d) == Most(swarm.peak, Cardinality(swarm.endpoints \cup {d}))

Peak(swarm, active, d) == Most(swarm.peak, Cardinality(active))

(* updateTrackerEvidence(): an announcement on a socket, which may already *)
(* have been told to close.                                                *)
Announces(s, b, event) ==
  LET d == s[1]
      now == [peers EXCEPT ![s] = IF event = "stopped" THEN @ \ {b} ELSE @ \cup {b}]
      active == Active(b, now)
      swarm == evidence.swarms[b]
  IN /\ trackers[s] # "gone" /\ phase # "exited"
     /\ now # peers \/ (event = "started" /\ swarm.started < 2)
     /\ Planned(b = Plan /\ evidence.publications # <<>> /\ d \in {Publisher, Downloader})
     /\ peers' = now
     /\ Persist([evidence EXCEPT !.swarms[b] =
          [endpoints |-> swarm.endpoints \cup {d},
           started |-> IF event = "started" THEN Least(2, swarm.started + 1) ELSE swarm.started,
           peak |-> Peak(swarm, active, d), current |-> active]])
     /\ together' = together \cup {<<b, pair>> : pair \in {p \in SUBSET active : Cardinality(p) = 2}}
     /\ UNCHANGED <<events, uploading, relays, trackers, arriving, phase, capture, recovered, cut, late>>

(* removeTrackerSocket(): only the swarms it was in are looked at again.   *)
SwarmsWithout(s) ==
  [b \in Blobs |-> IF b \in peers[s]
     THEN [evidence.swarms[b] EXCEPT !.current = Active(b, [peers EXCEPT ![s] = {}])] ELSE evidence.swarms[b]]

(* The device leaves, or a socket that was told to close has closed.       *)
TrackerCloses(s) ==
  /\ trackers[s] # "gone" /\ phase # "exited"
  /\ trackers' = [trackers EXCEPT ![s] = "gone"] /\ peers' = [peers EXCEPT ![s] = {}]
  /\ Persist([evidence EXCEPT !.swarms = SwarmsWithout(s)])
  /\ UNCHANGED <<events, uploading, relays, arriving, phase, world, history>>

(* A tracker message that is not JSON or too long.                         *)
TrackerRefuses(s) ==
  /\ trackers[s] = "open" /\ phase # "exited" /\ Planned(FALSE) /\ RecordError
  /\ trackers' = [trackers EXCEPT ![s] = "closing"]
  /\ UNCHANGED <<events, uploading, relays, peers, arriving, phase, capture, recovered, history>>

(***************************************************************************)
(* The end                                                                 *)
(***************************************************************************)

(* Mutant: sockets are left to their devices.                              *)
Told_Open(socket) == socket

Told(socket) == IF socket = "open" THEN "closing" ELSE socket

Remaining == \E b \in Blobs : evidence.swarms[b].current # {}

(* stop(), up to the server it waits for; the error is not yet persisted.  *)
Stop ==
  /\ phase = "run" /\ phase' = "closing"
  /\ evidence' = [evidence EXCEPT !.errors = @ \/ Remaining]
  /\ relays' = [d \in Devices |-> Told(relays[d])] /\ trackers' = [s \in Sockets |-> Told(trackers[s])]
  /\ cut' = (\E b \in Blobs : Active(b, peers) # {})
  /\ UNCHANGED <<file, events, uploading, peers, arriving, world, together, late>>

(* server.close() calls back when no connection is left.                   *)
ServerClosed ==
  /\ uploading = {} /\ arriving = {}
  /\ \A d \in Devices : relays[d] = "gone"
  /\ \A s \in Sockets : trackers[s] = "gone"

Exit ==
  /\ phase = "closing" /\ ServerClosed
  /\ phase' = "exited" /\ Persist([evidence EXCEPT !.status = "closed"])
  /\ UNCHANGED <<events, uploading, relays, trackers, peers, arriving, world, history>>

(* The process dies, or a second signal finds stop() already running and   *)
(* exits at once.                                                          *)
Dies ==
  /\ phase # "exited" /\ phase' = "exited" /\ Planned(FALSE)
  /\ UNCHANGED <<evidence, file, events, uploading, relays, trackers, peers, arriving, capture, recovered, history>>

(***************************************************************************)
(* The devices, and the verifier                                           *)
(***************************************************************************)

(* The two find each other through the tracker and move the blob, or       *)
(* outside the plan over a link that the tracker did not make.             *)
Transfer(b) ==
  /\ ~recovered /\ Planned({Publisher, Downloader} \subseteq Active(b, peers))
  /\ recovered' = TRUE /\ capture' = capture \cup {<<Publisher, Downloader, "udp">>}
  /\ UNCHANGED <<evidence, file, service, history>>

(* A device talks with somebody the operator has not declared.             *)
Elsewhere(d) ==
  /\ phase # "exited" /\ <<d, "elsewhere", "udp">> \notin capture
  /\ Planned(FALSE) /\ capture' = capture \cup {<<d, "elsewhere", "udp">>}
  /\ UNCHANGED <<evidence, file, service, recovered, history>>

CeremonyNext ==
  \/ \E d \in Devices :
       \/ Arrives(d) \/ RequestTimesOut(d) \/ ConnectionLeaves(d) \/ Fetch(d) \/ Misused(d) \/ Elsewhere(d)
       \/ RelayOpens(d) \/ RelayRefuses(d) \/ RelayCloses(d)
       \/ \E b \in Blobs :
            \/ \E good \in BOOLEAN : Upload(d, b, good)
            \/ LooksUp(d, b) \/ \E kind \in EventKinds : Publishes(d, kind, b)
  \/ \E u \in uploading : UploadEnds(u) \/ UploadFails(u)
  \/ \E s \in Sockets :
       \/ TrackerOpens(s) \/ TrackerCloses(s) \/ TrackerRefuses(s)
       \/ \E b \in Blobs, event \in {"started", "stopped", "update"} : Announces(s, b, event)
  \/ \E b \in Blobs : Transfer(b)
  \/ Stop \/ Exit \/ Dies

(* A socket that was told to close does so, or ws destroys it.  Nothing is *)
(* asked of clients: a request half made or a body half sent may stay so.  *)
Fairness ==
  /\ WF_ceremonyVars(Exit)
  /\ \A d \in Devices : WF_ceremonyVars(relays[d] = "closing" /\ RelayCloses(d))
  /\ \A s \in Sockets : WF_ceremonyVars(trackers[s] = "closing" /\ TrackerCloses(s))

CeremonySpec == CeremonyInit /\ [][CeremonyNext]_ceremonyVars /\ Fairness

(* verifyServiceEvidence(): one publisher, one upload, one event of each   *)
(* kind about it, a lookup by another device alone, and a swarm of the two.*)
VerifiedFor(e, p) ==
  /\ e.status = "closed" /\ ~e.errors /\ e.fetched = {p}
  /\ Len(e.uploads) = 1 /\ e.uploads[1].by = p
  /\ Len(e.publications) = 2
  /\ LET b == e.uploads[1].blob
         found == SelectSeq(e.lookups, LAMBDA l : l.blob = b /\ l.by # p)
         swarm == e.swarms[b]
     IN /\ \A kind \in EventKinds : Has(e.publications, LAMBDA x : x = EventFacts(p, kind, b))
        /\ found # <<>> /\ ~Has(e.lookups, LAMBDA l : l.blob = b /\ l.by = p)
        /\ swarm.endpoints = {p, found[1].by} /\ swarm.peak >= 2 /\ swarm.started >= 2 /\ swarm.current = {}

(* classifyCapture(): what a flow of the two declared devices is.          *)
FlowKind(f) ==
  CASE {f[1], f[2]} \cap {Publisher, Downloader} = {} -> "ignored"
    [] {f[1], f[2]} = {Publisher, Downloader} /\ f[3] = "udp" -> "peerUdp"
    [] f[2] = "coordinator" /\ f[3] = "tcp" -> "coordinator"
    [] OTHER -> "unapproved"

CleanCapture ==
  /\ {<<Publisher, "coordinator", "tcp">>, <<Downloader, "coordinator", "tcp">>} \subseteq capture
  /\ \E f \in capture : FlowKind(f) = "peerUdp"
  /\ \A f \in capture : FlowKind(f) # "unapproved"

(* What the verifier accepts once the coordinator is gone.                 *)
VerifierAccepts == phase = "exited" /\ recovered /\ CleanCapture /\ \E p \in Devices : VerifiedFor(file, p)

(***************************************************************************)
(* Properties                                                              *)
(***************************************************************************)

(* The evidence names the endpoints whose sockets announce each torrent,   *)
(* whichever of several sockets of an endpoint come and go.                *)
CurrentFits == \A b \in Blobs : evidence.swarms[b].current = Active(b, peers)

(* An accepted ceremony took place: two devices had the one uploaded blob  *)
(* announced at the same time, and none of them talked elsewhere.          *)
AcceptedIsTrue ==
  VerifierAccepts =>
    \E p, q \in Devices : /\ p # q /\ <<file.uploads[1].blob, {p, q}>> \in together
                          /\ file.uploads[1].by = p /\ file.fetched = {p}
                          /\ \A d \in {Publisher, Downloader} : <<d, "elsewhere", "udp">> \notin capture

(* A ceremony that was stopped while a peer was active is never accepted,  *)
(* although the sockets that close after it leave the swarms empty.        *)
CutShortIsRefused == cut => ~VerifierAccepts

(* Evidence that says "closed" has nothing left to come.                   *)
ClosedIsQuiet ==
  file.status = "closed" =>
    /\ uploading = {} /\ \A s \in Sockets : trackers[s] = "gone" /\ peers[s] = {}
    /\ \A b \in Blobs : file.swarms[b].current = {}

(* stop() ends once no request is half made and no body half sent: no      *)
(* socket of the relay or the tracker holds the coordinator up, but one    *)
(* that was opened after the others were told to close.  The premise is    *)
(* needed: server.close() waits for such a request and no timeout of the   *)
(* server's ends it any more; its client, or a second signal, has to.      *)
StopEnds ==
  phase = "closing" /\ arriving = {} /\ uploading = {} ~> phase = "exited" \/ late

(* The evidence says what happened: while it is gathered, when the         *)
(* ceremony is cut short, when it is closed, and when it is accepted.      *)
EvidenceIsTrue == CeremonyTypeOK /\ CurrentFits /\ CutShortIsRefused /\ ClosedIsQuiet /\ AcceptedIsTrue
=============================================================================
