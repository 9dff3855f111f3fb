----------------------------- MODULE Publishing -----------------------------
(***************************************************************************)
(* The publishing half of the main page (src/main.ts over core/blossom.ts, *)
(* nostr.ts, torrent.ts and pool.ts): inspect and encrypt a file, connect  *)
(* a signer, upload, sign the file's events, send them to relays.          *)
(*                                                                         *)
(* Every button starts a handler that awaits; the settings it captured may *)
(* be edited, its consent withdrawn and its signature asked for elsewhere  *)
(* before it goes on.  A handler occupies a slot.  The publication         *)
(* revision it captured is `fresh`: whether that is still the current one. *)
(*                                                                         *)
(* A choice stands for a file with its protection and storage layout, a    *)
(* net for a profile with its endpoints; a descriptor, a plan and signed   *)
(* events stand for what they were made of.                                *)
(***************************************************************************)
EXTENDS Naturals

CONSTANTS
  Slots,    \* the handlers that can be waiting at once
  Service,  \* the owner of a request made elsewhere: by the node services or a repair
  Orphan,   \* that of a request left open by a signing that ran out of time
  None

Choices == {"plain", "sealed", "pool"}
Nets == {"here", "there", "tor"}
Methods == {"nip07", "external"}
Consents == {"upload", "key", "publish"}
Kinds == {"inspect", "connect", "upload", "pool", "sign", "publish"}
Made == [choice : Choices, net : Nets]

(* An owner of requests is no handler, and None is no value it stands for. *)
ASSUME PublishingAssumption ==
  /\ {Service, Orphan, None} \cap Slots = {} /\ Orphan \notin {Service, None}
  /\ None \notin Kinds /\ None \notin Choices /\ None \notin Made
  /\ None \notin [net : Nets, method : Methods] /\ None \notin [of : Made, plan : BOOLEAN]

VARIABLES
  choice, net, method,  \* the form: file and layout, endpoints, signing method
  torConsent,           \* "the entire browser is configured through Tor"
  consents,             \* the consents that are ticked
  pubkey,               \* the net and method of the connected signer, or None
  inspected,            \* the choice that was inspected and prepared, or None
  descriptor,           \* what was uploaded, with its torrent plan, or None
  pool,                 \* the signed pool receipt and whether all is stored, or None
  signed,               \* what the signed events are about, or None
  signable,             \* whether the sign button is enabled
  inspection, uploader, publisher, \* the slots of the three controllers, or None
  request,              \* whose external signing request is open, or None
  tasks                 \* the waiting handlers

form == <<choice, net, method, torConsent>>
staged == <<descriptor, pool, signed, signable>>
controllers == <<inspection, uploader, publisher>>
vars == <<form, consents, pubkey, inspected, staged, controllers, request, tasks>>

Idle == [kind |-> None]
Stages == {"local", "signing", "signing2", "sending", "torrent", "refused"}
Tasks == [kind : Kinds, stage : Stages, fresh : BOOLEAN, aborted : BOOLEAN, of : Made, method : Methods]

(* The types of the form, of what is staged and of the waiting handlers.   *)
TypeOK ==
  /\ choice \in Choices /\ net \in Nets /\ method \in Methods
  /\ torConsent \in BOOLEAN /\ consents \subseteq Consents /\ signable \in BOOLEAN
  /\ pubkey \in {None} \cup [net : Nets, method : Methods] /\ inspected \in {None} \cup Choices
  /\ descriptor \in {None} \cup [of : Made, plan : BOOLEAN]
  /\ pool \in {None} \cup [of : Made, complete : BOOLEAN] /\ signed \in {None} \cup Made
  /\ inspection \in Slots \cup {None} /\ uploader \in Slots \cup {None} /\ publisher \in Slots \cup {None}
  /\ request \in Slots \cup {None, Service, Orphan}
  /\ tasks \in [Slots -> Tasks \cup {Idle}]
  /\ inspection # None => tasks[inspection].kind = "inspect"
  /\ uploader # None => tasks[uploader].kind \in {"upload", "pool"}
  /\ publisher # None => tasks[publisher].kind = "publish"

Init ==
  /\ choice = "plain" /\ net = "here" /\ method = "nip07" /\ torConsent = FALSE
  /\ consents = {} /\ pubkey = None /\ inspected = None
  /\ descriptor = None /\ pool = None /\ signed = None /\ signable = FALSE
  /\ inspection = None /\ uploader = None /\ publisher = None
  /\ request = None /\ tasks = [s \in Slots |-> Idle]

Busy(s) == tasks[s].kind # None
Now == [choice |-> choice, net |-> net]
Profile(n) == IF n = "tor" THEN "tor" ELSE "direct"

(* assertTorReady().                                                       *)
TorReady == net = "tor" => torConsent

(* The recovery key of an encrypted file is acknowledged.                  *)
KeyReady == inspected = "plain" \/ "key" \in consents

(***************************************************************************)
(* The external signing request: there is one at most                      *)
(***************************************************************************)

(* The slots after abandonExternalSigning() has rejected the request: the  *)
(* handler that waited for it fails, but for the upload of a pool, which   *)
(* passes over the node whose part was not signed for.                     *)
Rejected(ts) ==
  IF request \in Slots
  THEN [ts EXCEPT ![request].stage = IF @ = "signing2" /\ ts[request].kind = "pool" THEN "sending" ELSE "refused"]
  ELSE ts

(* Mutant: the panel is closed and the handler not told.                   *)
Abandon_Silent(ts) == request' = None /\ tasks' = ts

(* abandonExternalSigning().                                               *)
Abandon(ts) == request' = None /\ tasks' = Rejected(ts)

(* abort() on the handler that holds a controller.                         *)
AbortOf(ts, holder) == IF holder \in Slots THEN [ts EXCEPT ![holder] = [@ EXCEPT !.aborted = TRUE]] ELSE ts

(* Mutant: the revision is not counted.                                    *)
Outdated_Not(ts) == ts

(* publicationRevision += 1.                                               *)
Outdated(ts) == [s \in Slots |-> IF Busy(s) THEN [ts[s] EXCEPT !.fresh = FALSE] ELSE ts[s]]

AbortAll == AbortOf(AbortOf(AbortOf(tasks, inspection), uploader), publisher)

(* resetPublicationAfterInspection().  It also aborts the transfer of a    *)
(* pool that is being retrieved.                                           *)
ResetPublication ==
  /\ Abandon(Outdated(AbortAll))
  /\ inspection' = None /\ uploader' = None /\ publisher' = None
  /\ descriptor' = None /\ pool' = None /\ signed' = None /\ signable' = FALSE
  /\ consents' = {}

(***************************************************************************)
(* The form                                                                *)
(***************************************************************************)

(* Another file, protection or layout: resetInspection().                  *)
Choose(c) ==
  /\ c # choice /\ choice' = c
  /\ ResetPublication /\ inspected' = None
  /\ UNCHANGED <<net, method, torConsent, pubkey>>

(* Other endpoints: the inspection stays, and so does the signer.          *)
EditEndpoints ==
  /\ net # "tor" /\ net' \in {"here", "there"} \ {net}
  /\ ResetPublication
  /\ UNCHANGED <<choice, method, torConsent, pubkey, inspected>>

(* A pool was prepared for the nodes of one profile.                       *)
ChangeProfile ==
  /\ net' = IF net = "tor" THEN "here" ELSE "tor"
  /\ ResetPublication /\ pubkey' = None /\ torConsent' = FALSE
  /\ inspected' = IF choice = "pool" THEN None ELSE inspected
  /\ UNCHANGED <<choice, method>>

ConfirmTor ==
  /\ net = "tor" /\ ~torConsent /\ torConsent' = TRUE
  /\ UNCHANGED <<choice, net, method, consents, pubkey, inspected, staged, controllers, request, tasks>>

WithdrawTor ==
  /\ net = "tor" /\ torConsent /\ torConsent' = FALSE
  /\ ResetPublication /\ pubkey' = None
  /\ UNCHANGED <<choice, net, method, inspected>>

ChangeMethod ==
  /\ method' \in Methods \ {method}
  /\ ResetPublication /\ pubkey' = None
  /\ UNCHANGED <<choice, net, torConsent, inspected>>

(* The public key field of an external signer.                             *)
EditKey ==
  /\ method = "external" /\ (pubkey # None \/ descriptor # None \/ request # None)
  /\ ResetPublication /\ pubkey' = None
  /\ UNCHANGED <<choice, net, method, torConsent, inspected>>

Tick(c) ==
  /\ c \notin consents /\ consents' = consents \cup {c}
  /\ UNCHANGED <<form, pubkey, inspected, staged, controllers, request, tasks>>

(* Mutant: withdrawing the acknowledgement of the key is only noted.       *)
Withdrawn_KeyOnly(c) == IF c = "upload" THEN AbortOf(tasks, uploader) ELSE tasks

Withdrawn(c) == AbortOf(tasks, uploader)

(* Unticking an upload consent also drops whatever signature is asked for. *)
UntickUpload(c) ==
  /\ c \in consents \cap {"upload", "key"} /\ consents' = consents \ {c}
  /\ Abandon(Withdrawn(c))
  /\ UNCHANGED <<form, pubkey, inspected, staged, controllers>>

UntickPublish ==
  /\ "publish" \in consents /\ consents' = consents \ {"publish"}
  /\ tasks' = AbortOf(tasks, publisher)
  /\ UNCHANGED <<form, pubkey, inspected, staged, controllers, request>>

CancelUpload ==
  /\ uploader # None /\ ~tasks[uploader].aborted /\ Abandon(AbortOf(tasks, uploader))
  /\ UNCHANGED <<form, consents, pubkey, inspected, staged, controllers>>

CancelSignature ==
  /\ request # None /\ Abandon(AbortOf(tasks, uploader))
  /\ UNCHANGED <<form, consents, pubkey, inspected, staged, controllers>>

(***************************************************************************)
(* Starting handlers                                                       *)
(***************************************************************************)

(* A handler that signs asks at once: by the external panel, if nobody     *)
(* else does, or in the browser's extension.                               *)
Started(s, kind, stage) == [kind |-> kind, stage |-> stage, fresh |-> TRUE, aborted |-> FALSE, of |-> Now, method |-> method]

AskedBy(s) == request' = IF method = "external" THEN s ELSE request

Inspect(s) ==
  /\ ~Busy(s)
  /\ request' = None /\ tasks' = [Rejected(Outdated(AbortAll)) EXCEPT ![s] = Started(s, "inspect", "local")]
  /\ inspection' = s /\ uploader' = None /\ publisher' = None
  /\ inspected' = None /\ descriptor' = None /\ pool' = None /\ signed' = None /\ signable' = FALSE
  /\ consents' = {}
  /\ UNCHANGED <<form, pubkey>>

(* An external signer's key is in the form; the extension is asked.        *)
Connect(s) ==
  /\ TorReady
  /\ IF method = "external"
     THEN pubkey' = [net |-> net, method |-> method] /\ UNCHANGED tasks
     ELSE ~Busy(s) /\ tasks' = [tasks EXCEPT ![s] = Started(s, "connect", "signing")] /\ UNCHANGED pubkey
  /\ UNCHANGED <<form, consents, inspected, staged, controllers, request>>

(* While the retrieving half has a transfer the click is refused, as       *)
(* every click may be that is not made.                                    *)
UploadAllowed ==
  /\ inspected # None /\ pubkey # None /\ "upload" \in consents /\ KeyReady
  /\ TorReady /\ uploader = None
  /\ descriptor = None /\ ~(pool # None /\ pool.complete)

(* The request is refused while another is open.                           *)
Free == method = "external" => request = None

(* A pool whose receipt is signed goes on to its parts.                    *)
Upload(s) ==
  /\ ~Busy(s) /\ UploadAllowed
  /\ IF choice = "pool"
     THEN IF pool # None
          THEN tasks' = [tasks EXCEPT ![s] = Started(s, "pool", "sending")] /\ UNCHANGED request
          ELSE Free /\ tasks' = [tasks EXCEPT ![s] = Started(s, "pool", "signing")] /\ AskedBy(s)
     ELSE Free /\ tasks' = [tasks EXCEPT ![s] = Started(s, "upload", "signing")] /\ AskedBy(s)
  /\ uploader' = s
  /\ UNCHANGED <<form, consents, pubkey, inspected, staged, inspection, publisher>>

Sign(s) ==
  /\ ~Busy(s) /\ signable /\ inspected # None /\ descriptor # None /\ pubkey # None /\ TorReady /\ Free
  /\ tasks' = [tasks EXCEPT ![s] = Started(s, "sign", "signing")] /\ AskedBy(s)
  /\ signable' = FALSE
  /\ UNCHANGED <<form, consents, pubkey, inspected, descriptor, pool, signed, controllers>>

Publish(s) ==
  /\ ~Busy(s) /\ "publish" \in consents /\ signed # None /\ TorReady /\ publisher = None
  /\ tasks' = [tasks EXCEPT ![s] = [Started(s, "publish", "sending") EXCEPT !.of = signed]]
  /\ publisher' = s
  /\ UNCHANGED <<form, consents, pubkey, inspected, staged, inspection, uploader, request>>

(***************************************************************************)
(* Handlers that go on                                                     *)
(***************************************************************************)

Is(s, kind, stage) == tasks[s].kind = kind /\ tasks[s].stage = stage

(* A handler returns: `finally` clears the controller if it still holds    *)
(* it, and the sign button comes back if the publication is the same.      *)
Returned(s) ==
  /\ tasks' = [tasks EXCEPT ![s] = Idle]
  /\ inspection' = (IF inspection = s THEN None ELSE inspection)
  /\ uploader' = (IF uploader = s THEN None ELSE uploader)
  /\ publisher' = (IF publisher = s THEN None ELSE publisher)

SignableAfter(s) == IF tasks[s].kind = "sign" /\ tasks[s].fresh THEN TRUE ELSE signable

Leaves(s) ==
  /\ Returned(s) /\ signable' = SignableAfter(s)
  /\ UNCHANGED <<form, consents, pubkey, inspected, descriptor, pool, signed>>

(* The checks after an await.                                              *)
Current(s) == ~tasks[s].aborted /\ tasks[s].fresh

InspectionEnds(s) ==
  /\ Is(s, "inspect", "local") 
  /\ inspected' = IF Current(s) THEN tasks[s].of.choice ELSE inspected
  /\ Returned(s)
  /\ UNCHANGED <<form, consents, pubkey, staged, request>>

(* connectSigner compares revisions and the method.                        *)
SameSigner(s) == tasks[s].fresh /\ tasks[s].method = method

Connected(s) ==
  /\ Is(s, "connect", "signing")
  /\ pubkey' = IF SameSigner(s) THEN [net |-> tasks[s].of.net, method |-> tasks[s].method] ELSE pubkey
  /\ Returned(s)
  /\ UNCHANGED <<form, consents, inspected, staged, request>>

(* The extension signs, or the user brings the exact event back.           *)
CanSign(s) == tasks[s].method = "nip07" \/ request = s
Granted(s) == request' = IF request = s THEN None ELSE request

UploadSigned(s) ==
  /\ Is(s, "upload", "signing") /\ CanSign(s) /\ ~tasks[s].aborted
  /\ tasks' = [tasks EXCEPT ![s].stage = "sending"] /\ Granted(s)
  /\ UNCHANGED <<form, consents, pubkey, inspected, staged, controllers>>

(* A torrent is made of what was sent if there are trackers, which the Tor *)
(* profile refuses and one of the other two nets has not.                  *)
createHybridTorrent(made) == made.net = "here"

UploadSent(s) ==
  /\ Is(s, "upload", "sending") /\ ~tasks[s].aborted
  /\ IF Current(s)
     THEN tasks' = [tasks EXCEPT ![s].stage = "torrent"] /\ UNCHANGED controllers
     ELSE Returned(s)
  /\ UNCHANGED <<form, consents, pubkey, inspected, staged, request>>

UploadStaged(s) ==
  /\ Is(s, "upload", "torrent") /\ Current(s)
  /\ descriptor' = [of |-> tasks[s].of, plan |-> createHybridTorrent(tasks[s].of)]
  /\ signable' = TRUE
  /\ Returned(s)
  /\ UNCHANGED <<form, consents, pubkey, inspected, pool, signed, request>>

ReceiptSigned(s) ==
  /\ Is(s, "pool", "signing") /\ CanSign(s) /\ Granted(s)
  /\ IF Current(s)
     THEN /\ pool' = [of |-> tasks[s].of, complete |-> FALSE]
          /\ tasks' = [tasks EXCEPT ![s].stage = "sending"] /\ UNCHANGED controllers
     ELSE Returned(s) /\ UNCHANGED pool
  /\ UNCHANGED <<form, consents, pubkey, inspected, descriptor, signed, signable>>

(* Every write of a part is signed for; one that cannot be is passed over. *)
PartAsked(s) ==
  /\ Is(s, "pool", "sending") /\ ~tasks[s].aborted /\ (tasks[s].method = "external" => request = None)
  /\ tasks' = [tasks EXCEPT ![s].stage = "signing2"]
  /\ request' = IF tasks[s].method = "external" THEN s ELSE request
  /\ UNCHANGED <<form, consents, pubkey, inspected, staged, controllers>>

PartSigned(s) ==
  /\ Is(s, "pool", "signing2") /\ CanSign(s) /\ Granted(s)
  /\ tasks' = [tasks EXCEPT ![s].stage = "sending"]
  /\ UNCHANGED <<form, consents, pubkey, inspected, staged, controllers>>

PoolEnds(s) ==
  /\ Is(s, "pool", "sending") /\ ~tasks[s].aborted
  /\ pool' \in (IF Current(s) THEN {[of |-> tasks[s].of, complete |-> b] : b \in BOOLEAN} ELSE {pool})
  /\ Returned(s)
  /\ UNCHANGED <<form, consents, pubkey, inspected, descriptor, signed, signable, request>>

(* publicationRevision and profile() are compared after each signature.    *)
StillSigning(s) == tasks[s].fresh /\ Profile(tasks[s].of.net) = Profile(net)

(* The file's event, then the torrent's if there is a plan.  The second    *)
(* request finds the panel free, for the first has just been answered.     *)
FileEventSigned(s) ==
  /\ Is(s, "sign", "signing") /\ CanSign(s)
  /\ IF StillSigning(s) /\ createHybridTorrent(tasks[s].of)
     THEN tasks' = [tasks EXCEPT ![s].stage = "signing2"] /\ UNCHANGED <<signed, signable, controllers, request>>
     ELSE /\ Granted(s) /\ Returned(s) /\ signable' = SignableAfter(s)
          /\ signed' = IF StillSigning(s) THEN tasks[s].of ELSE signed
  /\ UNCHANGED <<form, consents, pubkey, inspected, descriptor, pool>>

TorrentEventSigned(s) ==
  /\ Is(s, "sign", "signing2") /\ CanSign(s) /\ Granted(s)
  /\ signed' = IF StillSigning(s) THEN tasks[s].of ELSE signed
  /\ Returned(s) /\ signable' = SignableAfter(s)
  /\ UNCHANGED <<form, consents, pubkey, inspected, descriptor, pool>>

PublishEnds(s) == Is(s, "publish", "sending") /\ Leaves(s) /\ UNCHANGED request

(* A handler fails: its signature is refused or was abandoned, a server    *)
(* refuses, the extension is closed.  An abort makes the awaits of uploads *)
(* fail at once.                                                           *)
Fails(s) ==
  /\ tasks[s].kind \in Kinds /\ request # s
  /\ Leaves(s) /\ UNCHANGED request

(* The deadline of uploadToBlossom() runs while it waits for the panel,    *)
(* and nothing closes the panel when it is over: the request stays open    *)
(* for nobody.  An upload fails; a pool passes over the node and goes on.  *)
(* The receipt of a pool and the events are signed for without a deadline. *)
TimesOut(s) ==
  /\ request = s /\ request' = Orphan
  /\ \/ Is(s, "upload", "signing") /\ Leaves(s)
     \/ /\ Is(s, "pool", "signing2") /\ tasks' = [tasks EXCEPT ![s].stage = "sending"]
        /\ UNCHANGED <<form, consents, pubkey, inspected, staged, controllers>>

(***************************************************************************)
(* The node services and a repair, which ask for signatures too            *)
(***************************************************************************)

ServiceAsks ==
  /\ method = "external" /\ pubkey # None /\ request = None /\ request' = Service
  /\ UNCHANGED <<form, consents, pubkey, inspected, staged, controllers, tasks>>

(* Cancelling a service action or a repair drops whatever request is open. *)
ServiceCancels ==
  /\ request # None /\ Abandon(tasks)
  /\ UNCHANGED <<form, consents, pubkey, inspected, staged, controllers>>

(* Accepting the signature of a service, or of nobody.                     *)
AcceptOther ==
  /\ request \in {Service, Orphan} /\ request' = None
  /\ UNCHANGED <<form, consents, pubkey, inspected, staged, controllers, tasks>>

Edit ==
  \/ \E c \in Choices : Choose(c)
  \/ EditEndpoints \/ ChangeProfile \/ ConfirmTor \/ WithdrawTor \/ ChangeMethod \/ EditKey
  \/ \E c \in Consents : Tick(c) \/ UntickUpload(c)
  \/ UntickPublish \/ CancelUpload \/ CancelSignature

Click == \E s \in Slots : Inspect(s) \/ Connect(s) \/ Upload(s) \/ Sign(s) \/ Publish(s)

Goes(s) ==
  \/ InspectionEnds(s) \/ Connected(s)
  \/ UploadSigned(s) \/ UploadSent(s) \/ UploadStaged(s)
  \/ ReceiptSigned(s) \/ PartAsked(s) \/ PartSigned(s) \/ PoolEnds(s)
  \/ FileEventSigned(s) \/ TorrentEventSigned(s) \/ PublishEnds(s)
  \/ Fails(s) \/ TimesOut(s)

Next ==
  \/ Edit \/ Click \/ \E s \in Slots : Goes(s)
  \/ ServiceAsks \/ ServiceCancels \/ AcceptOther

Spec == Init /\ [][Next]_vars

(***************************************************************************)
(* Properties                                                              *)
(***************************************************************************)

(* What is staged belongs to the form as it is: the inspected file is the  *)
(* chosen one, and what was uploaded, receipted or signed is that file on  *)
(* these endpoints, although handlers that began before an edit end after. *)
StagedIsCurrent ==
  /\ inspected \in {None, choice}
  /\ descriptor # None => descriptor.of = Now
  /\ pool # None => pool.of = Now
  /\ signed # None => signed = Now /\ descriptor # None

(* A handler that may still send something was started for the present     *)
(* form, holds its controller, and every consent it needs is ticked now.   *)
ConsentStands ==
  \A s \in Slots : Busy(s) /\ ~tasks[s].aborted =>
    /\ tasks[s].kind \in {"upload", "pool"} =>
         uploader = s /\ "upload" \in consents /\ KeyReady /\ tasks[s].of = Now /\ pubkey # None /\ TorReady
    /\ tasks[s].kind = "publish" =>
         publisher = s /\ "publish" \in consents /\ tasks[s].of = signed /\ TorReady

(* The signer shown as connected was asked under the present method and    *)
(* profile, and under Tor with the confirmation standing.                  *)
ConnectedHere ==
  pubkey # None => pubkey.method = method /\ Profile(pubkey.net) = Profile(net) /\ TorReady

(* A signing request that is open for a handler is waited for by it, and   *)
(* that handler was neither aborted nor outdated.                          *)
RequestIsLive ==
  request \in Slots =>
    /\ Busy(request) /\ tasks[request].stage \in {"signing", "signing2"} /\ tasks[request].method = "external"
    /\ tasks[request].fresh /\ ~tasks[request].aborted

(* A handler waits for a signature only while someone may give it.         *)
NoneWaitsInVain ==
  \A s \in Slots : Busy(s) /\ tasks[s].stage \in {"signing", "signing2"} /\ tasks[s].method = "external" => request = s

(* A request that is open for nobody, left behind by an upload or a pool   *)
(* that ran out of time, is one that the page as it is would still allow:  *)
(* an edit or a withdrawal has closed every other.  Until it is cancelled  *)
(* or answered it refuses the next signature ("Finish or cancel ...").     *)
OrphanFits ==
  request = Orphan =>
    /\ method = "external" /\ pubkey # None /\ TorReady
    /\ inspected # None /\ "upload" \in consents /\ KeyReady

(* One signing for the present publication at a time.                      *)
OneSigning ==
  \A s, t \in Slots : Busy(s) /\ Busy(t) /\ tasks[s].kind = "sign" /\ tasks[t].kind = "sign" /\ tasks[s].fresh /\ tasks[t].fresh => s = t

(* A handler of the present revision was started for the present form and  *)
(* holds its controller; an inspection, an upload or a signing of it finds *)
(* the page as it left it.  A reset aborted every transfer it outdated.    *)
HandlersInv ==
  \A s \in Slots : LET t == tasks[s] IN Busy(s) =>
    /\ t.fresh => /\ t.of = Now /\ t.method = method
                  /\ t.kind = "inspect" => inspection = s /\ inspected = None
                  /\ t.kind = "connect" => TorReady
                  /\ t.kind \in {"upload", "pool"} => uploader = s
                  /\ t.kind = "upload" => descriptor = None
                  /\ t.kind = "sign" => descriptor # None /\ ~signable
                  /\ t.kind = "publish" => publisher = s
    /\ t.kind \in {"upload", "pool"} /\ ~t.aborted => t.fresh /\ inspected # None
    /\ t.kind = "publish" => t.stage = "sending" /\ (~t.aborted => t.fresh)
    /\ t.kind = "connect" => t.method = "nip07"

(* What is staged, who is connected and what is being signed belong to the *)
(* form as it is now.                                                      *)
PublicationFits == TypeOK /\ StagedIsCurrent /\ ConnectedHere /\ OneSigning /\ HandlersInv

(* The one signing panel and the handlers fit: the open request is of a    *)
(* live handler that waits for it, or was made elsewhere, or is left over  *)
(* from a wait that timed out and still fits the page; and a handler that  *)
(* waits for the panel has it open.                                        *)
SigningFits == RequestIsLive /\ NoneWaitsInVain /\ OrphanFits
=============================================================================
