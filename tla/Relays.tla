------------------------------- MODULE Relays -------------------------------
(***************************************************************************)
(* The page's requests to Nostr relays: publishing an event, looking one   *)
(* up, discovering nodes recommended by trusted keys, and discovering      *)
(* storage services (core/relay.ts, discovery.ts, storage-discovery.ts).   *)
(* Each request asks every relay over a socket of its own; each socket's   *)
(* promise settles once.                                                   *)
(*                                                                         *)
(* A relay may send any event at any time.  What a promise's settling sets *)
(* off runs before the next event of the browser, so it is one step here.  *)
(* Filters, subscription ids and encodings are left out.                   *)
(***************************************************************************)
EXTENDS Naturals, FiniteSets, Sequences, SequencesExt

CONSTANTS
  Relays,      \* the relays in the form, in its order
  Events,      \* what relays hold and send: records, see EventFields
  Trusted,     \* the keys typed by the user
  Wanted,      \* the event that is published, or whose id is looked up
  MaxMessages, \* how many messages a discovery takes from one relay
  MaxRecords,  \* MAX_RECORDS: how many services the page remembers
  MaxJobs,     \* how many requests the page makes
  MaxAge,      \* how far the age limit of server lists moves meanwhile
  None

Relay == Range(Relays)
Authors == {e.author : e \in Events}
Kinds == {"publish", "lookup", "nodes", "services"}
Discoveries == {"nodes", "services"}

ASSUME RelaysAssumption ==
  /\ Relays \in Seq(Range(Relays)) /\ Len(Relays) > 0 /\ IsFiniteSet(Events) /\ Wanted \in Events
  /\ \A e \in Events : e.at \in Nat /\ e.id \in Nat /\ e.good \in BOOLEAN /\ IsFiniteSet(e.origins)
  /\ \A d, e \in Events : d.id = e.id => d = e
  /\ MaxMessages \in Nat /\ MaxRecords \in Nat /\ MaxJobs \in Nat /\ MaxAge \in Nat
  /\ None \notin Kinds /\ None \notin Events

VARIABLES
  job,        \* the kind of request in progress, or None
  jobs,       \* how many there have been
  sockets,    \* each relay's socket
  promises,   \* each relay's promise: pending, ok or failed
  got,        \* what a discovery accepted from each relay, in order
  messages,   \* how many messages it counted
  asOf,       \* the age limit when the request began
  age,        \* the age limit now: lists made before it are stale
  result,     \* what the last request returned, None when it failed
  watermarks, \* StorageDirectory: the latest record of each service
  cancelled,  \* the caller's signal was aborted
  stored,     \* history: the relays that have stored the published event
  seen        \* history: what completed service discoveries accepted

wire == <<sockets, promises, got, messages>>
vars == <<job, jobs, wire, asOf, age, result, watermarks, cancelled, stored, seen>>

Nodes == [origin : UNION {e.origins : e \in Events}, by : SUBSET Trusted, updated : {e.at : e \in Events}]

ResultType ==
  result # None =>
    CASE result.of = "publish" -> result.value \in [Relay -> {"ok", "failed"}]
      [] result.of = "lookup" -> result.value \in Events
      [] result.of = "nodes" -> result.value \subseteq Nodes
      [] result.of = "services" -> result.value \subseteq Events

(* The types of the request, its sockets and what the page remembers.      *)
TypeOK ==
  /\ job \in Kinds \cup {None} /\ jobs \in 0..MaxJobs
  /\ sockets \in [Relay -> {"closed", "connecting", "open"}]
  /\ promises \in [Relay -> {"pending", "ok", "failed"}]
  /\ DOMAIN got = Relay /\ \A r \in Relay : got[r] \in Seq(Events) /\ Len(got[r]) <= MaxMessages
  /\ messages \in [Relay -> 0..MaxMessages + 1]
  /\ asOf \in 0..MaxAge /\ age \in asOf..MaxAge
  /\ ResultType
  /\ watermarks \in [Authors -> Events \cup {None}]
  /\ Cardinality({a \in Authors : watermarks[a] # None}) <= MaxRecords
  /\ cancelled \in BOOLEAN /\ stored \subseteq Relay /\ seen \subseteq Events

Init ==
  /\ job = None /\ jobs = 0
  /\ sockets = [r \in Relay |-> "closed"] /\ promises = [r \in Relay |-> "failed"]
  /\ got = [r \in Relay |-> <<>>] /\ messages = [r \in Relay |-> 0]
  /\ asOf = 0 /\ age = 0 /\ result = None
  /\ watermarks = [a \in Authors |-> None]
  /\ cancelled = FALSE /\ stored = {} /\ seen = {}

(* A request asks every relay at once, each over a new socket.             *)
Begin(kind) ==
  /\ job = None /\ jobs < MaxJobs
  /\ job' = kind /\ jobs' = jobs + 1
  /\ sockets' = [r \in Relay |-> "connecting"] /\ promises' = [r \in Relay |-> "pending"]
  /\ got' = [r \in Relay |-> <<>>] /\ messages' = [r \in Relay |-> 0]
  /\ asOf' = age /\ result' = None /\ cancelled' = FALSE
  /\ UNCHANGED <<age, watermarks, stored, seen>>

(***************************************************************************)
(* What a request returns                                                  *)
(***************************************************************************)

(* Mutant: the later of two lists replaces the earlier, whatever it says.  *)
Newer_Later(e, prior) == TRUE

(* The replacement order of Nostr: the later one, at a tie the smaller id. *)
Newer(e, prior) == prior = None \/ e.at > prior.at \/ (e.at = prior.at /\ e.id < prior.id)

(* The loop that keeps an author's latest event, over a sequence of them.  *)
Merge(known, events) ==
  LET map[i \in 0..Len(events)] ==
        IF i = 0 THEN known
        ELSE LET before == map[i - 1] e == events[i] IN
             IF Newer(e, before[e.author]) THEN [before EXCEPT ![e.author] = e] ELSE before
  IN map[Len(events)]

(* The events of the relays that completed, relay by relay.                *)
Collected(q) ==
  LET upto[i \in 0..Len(Relays)] ==
        IF i = 0 THEN <<>> ELSE upto[i - 1] \o (IF q[Relays[i]] = "ok" THEN got[Relays[i]] ELSE <<>>)
  IN upto[Len(Relays)]

(* Mutant: every list of an author counts, not only the latest.            *)
Recommended_Any(q) ==
  LET lists == ToSet(Collected(q)) IN
  {[origin |-> o, by |-> {e.author : e \in {x \in lists : o \in x.origins}}, updated |-> 1] :
     o \in UNION {e.origins : e \in lists}}

(* discoverNodes: the origins in the authors' latest lists, with who       *)
(* recommends each.  The lists are parsed again, and one that has grown    *)
(* too old meanwhile fails the request.                                    *)
Recommended(q) ==
  LET latest == Merge([a \in Authors |-> None], Collected(q))
      lists == {latest[a] : a \in {x \in Trusted \cap Authors : latest[x] # None}}
      With(o) == {e \in lists : o \in e.origins}
  IN IF \E e \in lists : e.at < age THEN None
     ELSE {[origin |-> o, by |-> {e.author : e \in With(o)},
            updated |-> CHOOSE t \in {e.at : e \in With(o)} : \A e \in With(o) : e.at <= t] :
             o \in UNION {e.origins : e \in lists}}

(* StorageDirectory.accept(): the records of before and the new ones.      *)
Accepted(q) == Merge(watermarks, Collected(q))
Remembered(map) == {a \in Authors : map[a] # None}

(* signal?.throwIfAborted() after Promise.allSettled.                      *)
Cancelled == cancelled'

Is(value, from) == result' = IF value = None THEN None ELSE [of |-> job, value |-> value, from |-> from]

(* What the request returns when q are its promises.                       *)
Returns(q) ==
  LET oks == {r \in Relay : q[r] = "ok"} IN
  CASE job = "publish" -> Is(q, {}) /\ UNCHANGED <<watermarks, seen>>
    [] job = "lookup" -> Is(IF oks = {} THEN None ELSE Wanted, {}) /\ UNCHANGED <<watermarks, seen>>
    [] job = "nodes" ->
         Is(IF Cancelled \/ oks = {} THEN None ELSE Recommended(q), ToSet(Collected(q))) /\ UNCHANGED <<watermarks, seen>>
    [] job = "services" ->
         LET merged == Accepted(q) IN
         IF Cancelled \/ oks = {} \/ Cardinality(Remembered(merged)) > MaxRecords
         THEN Is(None, {}) /\ UNCHANGED <<watermarks, seen>>
         ELSE /\ watermarks' = merged
              /\ Is({merged[a] : a \in Remembered(merged)}, {})
              /\ seen' = seen \cup ToSet(Collected(q))

(* resolveFromRelays aborts the lookups that are left in its finally.      *)
Leftover(q) == [r \in Relay |-> IF q[r] = "pending" THEN "failed" ELSE q[r]]

(* Promise.any is decided by the first success, the others by the last     *)
(* relay to settle.                                                        *)
Decided(q) ==
  \/ \A r \in Relay : q[r] # "pending"
  \/ job = "lookup" /\ \E r \in Relay : q[r] = "ok"

(* finish() of each socket whose promise q settles, and what follows.      *)
Settle(q) ==
  LET final == IF Decided(q) THEN Leftover(q) ELSE q IN
  /\ promises' = final
  /\ sockets' = [r \in Relay |-> IF final[r] = "pending" THEN sockets[r] ELSE "closed"]
  /\ IF Decided(q)
     THEN /\ job' = None /\ Returns(q)
          /\ got' = [r \in Relay |-> <<>>] /\ messages' = [r \in Relay |-> 0]
     ELSE UNCHANGED <<job, result, got, messages, watermarks, seen>>
  /\ UNCHANGED <<jobs, asOf, age>>

Pending(r) == job # None /\ promises[r] = "pending"
SettleOne(r, verdict) == Pending(r) /\ UNCHANGED cancelled /\ Settle([promises EXCEPT ![r] = verdict])

(***************************************************************************)
(* The sockets                                                             *)
(***************************************************************************)

(* The request goes out; an event that is published is now with the relay. *)
Opens(r) ==
  /\ Pending(r) /\ sockets[r] = "connecting"
  /\ sockets' = [sockets EXCEPT ![r] = "open"]
  /\ UNCHANGED <<job, jobs, promises, got, messages, asOf, age, result, watermarks, cancelled, stored, seen>>

(* The relay keeps the event it was sent, or does not.                     *)
Stores(r) ==
  /\ job = "publish" /\ sockets[r] = "open" /\ r \notin stored
  /\ stored' = stored \cup {r}
  /\ UNCHANGED <<job, jobs, wire, asOf, age, result, watermarks, cancelled, seen>>

(* message[1] === event.id.                                                *)
AboutIt(e) == e = Wanted

(* ["OK", id, verdict].  A relay that says yes has the event.              *)
Acknowledges(r, e, yes) ==
  /\ job = "publish" /\ sockets[r] = "open" /\ AboutIt(e)
  /\ yes /\ e = Wanted => r \in stored
  /\ SettleOne(r, IF yes THEN "ok" ELSE "failed") /\ UNCHANGED stored

(* ["EVENT", ...] in answer to a lookup: another event is ignored, the     *)
(* right id with content that does not resolve fails this relay.           *)
Finds(r, e) ==
  /\ job = "lookup" /\ sockets[r] = "open" /\ e = Wanted
  /\ \E verdict \in {"ok", "failed"} : SettleOne(r, verdict) /\ UNCHANGED stored

(* serverList() and parseStorageAnnouncement(): what becomes a result or   *)
(* a watermark.                                                            *)
Takes(e) == e.good /\ (job = "nodes" => e.author \in Trusted /\ e.at >= asOf)

(* ++messages > 256, or 128.                                               *)
Room(r) == messages[r] < MaxMessages

(* ["EVENT", ...] in answer to a discovery; past the limit it fails.       *)
Receives(r, e) ==
  /\ job \in Discoveries /\ sockets[r] = "open" /\ Pending(r) /\ Room(r)
  /\ messages' = [messages EXCEPT ![r] = @ + 1]
  /\ got' = [got EXCEPT ![r] = IF Takes(e) THEN Append(@, e) ELSE @]
  /\ UNCHANGED <<job, jobs, sockets, promises, asOf, age, result, watermarks, cancelled, stored, seen>>

Overflows(r) ==
  /\ job \in Discoveries /\ sockets[r] = "open" /\ ~Room(r)
  /\ SettleOne(r, "failed") /\ UNCHANGED stored

(* ["EOSE", ...]: a discovery has what the relay had, a lookup nothing.    *)
EndOfStored(r) ==
  /\ job # "publish" /\ sockets[r] = "open"
  /\ SettleOne(r, IF job = "lookup" THEN "failed" ELSE "ok") /\ UNCHANGED stored

(* ["CLOSED", ...]: only the storage discovery hears it.                   *)
Refuses(r) ==
  /\ job = "services" /\ sockets[r] = "open"
  /\ SettleOne(r, "failed") /\ UNCHANGED stored

(* The socket fails or is closed by the relay.                             *)
Drops(r) == SettleOne(r, "failed") /\ UNCHANGED stored

(* Mutant: the timer is cleared once the socket is open.                   *)
TimesOut_Connecting(r) == sockets[r] = "connecting" /\ SettleOne(r, "failed") /\ UNCHANGED stored

(* Ten seconds.                                                            *)
TimesOut(r) == SettleOne(r, "failed") /\ UNCHANGED stored

(* The caller's signal: every socket that is left hears it at once.        *)
Abort == job # None /\ cancelled' = TRUE /\ Settle(Leftover(promises)) /\ UNCHANGED stored

(* Server lists older than thirty days are stale.                          *)
ClockPasses ==
  /\ age < MaxAge /\ age' = age + 1
  /\ UNCHANGED <<job, jobs, wire, asOf, result, watermarks, cancelled, stored, seen>>

Next ==
  \/ \E kind \in Kinds : Begin(kind)
  \/ \E r \in Relay : Opens(r) \/ Stores(r) \/ Overflows(r) \/ EndOfStored(r) \/ Refuses(r) \/ Drops(r) \/ TimesOut(r)
  \/ \E r \in Relay, e \in Events : Finds(r, e) \/ Receives(r, e) \/ \E yes \in BOOLEAN : Acknowledges(r, e, yes)
  \/ Abort \/ ClockPasses
  \/ job = None /\ jobs = MaxJobs /\ UNCHANGED vars

(* The timers fire.                                                        *)
Spec == Init /\ [][Next]_vars /\ \A r \in Relay : WF_vars(TimesOut(r))

(***************************************************************************)
(* Properties                                                              *)
(***************************************************************************)

Settled(kind) == result # None /\ result.of = kind
IsLatest(e, events) == \A d \in events : d.author = e.author => d.at < e.at \/ (d.at = e.at /\ e.id <= d.id)

(* A relay is reported to have accepted the event only if it stored it:    *)
(* an acknowledgement of another event says nothing about this one.        *)
ReportsAreTrue ==
  Settled("publish") => \A r \in Relay : result.value[r] = "ok" => r \in stored

(* What the page recommends follows from the latest list of each trusted   *)
(* key, whatever the order in which relays and messages came: an origin an *)
(* author has dropped is not recommended in that author's name.            *)
RecommendsLatest ==
  Settled("nodes") =>
    \A n \in result.value : \A a \in n.by :
      /\ a \in Trusted
      /\ \E e \in result.from : e.author = a /\ n.origin \in e.origins /\ e.at <= n.updated /\ IsLatest(e, result.from)

(* "Do not ... resurrect older offers": the page's record of a service is  *)
(* the latest it ever accepted, though this time only a relay that missed  *)
(* the withdrawal may have answered.                                       *)
NeverResurrects ==
  \A a \in Authors : LET known == {e \in seen : e.author = a} IN
    IF known = {} THEN watermarks[a] = None ELSE watermarks[a] \in known /\ IsLatest(watermarks[a], known)

(* A request that has ended leaves no socket behind.                       *)
NothingLeftOpen == job = None => \A r \in Relay : sockets[r] = "closed"

(* A cancelled discovery changes nothing, even if some relays have already *)
(* completed.                                                              *)
CancelledIsMute == [][cancelled' /\ job \in Discoveries => result' = None /\ UNCHANGED watermarks]_vars

(* Every request ends, though no relay ever answers.                       *)
EveryRequestEnds == job # None ~> job = None

(* What a request ends with is true whatever order the relays answered in, *)
(* and it leaves nothing open.                                             *)
AnswersAreTrue == TypeOK /\ ReportsAreTrue /\ RecommendsLatest /\ NothingLeftOpen

(* Every request ends, and a cancelled discovery without effect.           *)
RequestsEnd == CancelledIsMute /\ EveryRequestEnds
=============================================================================
