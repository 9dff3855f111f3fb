------------------------------ MODULE SendDevice ------------------------------
(***************************************************************************)
(* The sender's device: the page (SendPage), the lock that keeps its       *)
(* screen on (ScreenLock), and the servers its connection is built from    *)
(* (src/direct/messages.ts, readIce; src/direct/peer.ts, openConnection).  *)
(* The page's lock is the lock object's hold() and release(), and the      *)
(* servers of the invitation decide whether hiding is offered and whether  *)
(* a hidden connection can be made.                                        *)
(***************************************************************************)
EXTENDS SendPage, ScreenLock, FiniteSets

CONSTANTS
  Invitations, \* what an invitation may name: sets of servers, a server being a set of URLs
  Allowlist,   \* the URLs the page was built to accept
  Relays,      \* the turn: and turns: URLs
  TcpSpelled,  \* those that end in ?transport=tcp
  NoServers

ASSUME InvitationsAssumption ==
  /\ \A i \in Invitations : i # {} /\ \A server \in i : server # {}
  /\ TcpSpelled \subseteq Relays /\ NoServers \notin Invitations

VARIABLES
  servers,  \* invite.ice, or NoServers
  refuses,  \* the browser's constructor throws a SyntaxError on a TCP spelling
  ice       \* the RTCConfiguration of the peer, or NoServers

deviceVars == <<vars, LockVars, servers, refuses, ice>>

DeviceInit ==
  /\ Init /\ LockInit
  /\ servers = NoServers /\ refuses \in BOOLEAN /\ ice = NoServers

(***************************************************************************)
(* Servers                                                                 *)
(***************************************************************************)

(* Every URL of every server is on the build-time allowlist.               *)
readIce(i) == \A server \in i : server \subseteq Allowlist

hasRelayUrl(i) == \E server \in i : server \cap Relays # {}

(* Mutant: a hidden connection keeps the servers it came with.             *)
buildRtcConfiguration_Kept(i, hidden) ==
  [servers |-> {s \in i : hidden => s \cap Relays # {}}, policy |-> IF hidden THEN "relay" ELSE "all"]

(* The URLs of each server that may be used, and no server without any.    *)
buildRtcConfiguration(i, hidden) ==
  [servers |-> {IF hidden THEN s \cap Relays ELSE s : s \in i} \ {{}},
   policy |-> IF hidden THEN "relay" ELSE "all"]

Trimmed(i) == {s \ TcpSpelled : s \in i}

(* The constructor is tried again without the spelling it refuses.         *)
openConnection(i, hidden) ==
  LET whole == buildRtcConfiguration(i, hidden)
      refused == refuses /\ \E s \in whole.servers : s \cap TcpSpelled # {}
  IN IF refused THEN buildRtcConfiguration(Trimmed(i), hidden) ELSE whole

(* NoRelayError: there is nothing to hide behind.                          *)
NoRelay(i, hidden) == hidden /\ openConnection(i, hidden).servers = {}

(***************************************************************************)
(* Steps                                                                   *)
(***************************************************************************)

(* screenLock.hold() and screenLock.release(), where the page calls them.  *)
LockFollows ==
  \/ lock' = lock /\ UNCHANGED LockVars
  \/ lock' /\ ~lock /\ Hold
  \/ ~lock' /\ lock /\ Release

(* The invitation is read; one that readIce refuses fails the call.        *)
ReadsInvitation(i) ==
  /\ readIce(i) /\ Invited(hasRelayUrl(i))
  /\ servers' = i /\ LockFollows /\ UNCHANGED <<refuses, ice>>

(* prepare: the peer is built, and answers.                                *)
BuildsPeer ==
  /\ Connecting /\ ~NoRelay(servers, hide)
  /\ ice' = openConnection(servers, hide) /\ LockFollows /\ UNCHANGED <<servers, refuses>>

(* A call fails, with "no-relay" exactly when the peer cannot be built.    *)
Fails(kind) ==
  /\ CallFails(kind) /\ LockFollows
  /\ kind = "no-relay" => NoRelay(servers, hide)
  /\ UNCHANGED <<servers, refuses, ice>>

PageSteps == PageNext /\ LockFollows /\ UNCHANGED <<servers, refuses, ice>>

PageStays == UNCHANGED <<vars, servers, refuses, ice>>
BrowserSteps == Browser /\ PageStays

DeviceNext ==
  \/ \E i \in Invitations : ReadsInvitation(i)
  \/ BuildsPeer
  \/ \E kind \in SettlesAs(call) : Fails(kind)
  \/ PageSteps
  \/ BrowserSteps

(* The page's clock runs, and the browser answers and lets go.             *)
DeviceFairness ==
  /\ WF_vars(ClockPasses /\ UNCHANGED <<LockVars, servers, refuses, ice>>)
  /\ WF_vars(Countdown /\ LockFollows /\ UNCHANGED <<servers, refuses, ice>>)
  /\ WF_LockVars((Refused \/ \E l \in Locks : Granted(l)) /\ PageStays)
  /\ WF_LockVars(Returned /\ PageStays)
  /\ \A l \in Locks : WF_LockVars(l \in leaving /\ LetGo(l) /\ PageStays)

DeviceSpec == DeviceInit /\ [][DeviceNext]_deviceVars /\ DeviceFairness

(***************************************************************************)
(* Properties                                                              *)
(***************************************************************************)

Urls == UNION ice.servers

(* A connection that hides the device's address is made through relays     *)
(* alone, with the policy that says so and with one to go through; and no  *)
(* connection reaches a server the page was not built to accept.           *)
HidingHolds ==
  ice # NoServers =>
    /\ Urls \subseteq Allowlist
    /\ hide => ice.policy = "relay" /\ Urls # {} /\ Urls \subseteq Relays

(* The page says "no relay" only to somebody who asked to hide, and after  *)
(* it offered a way to: the browser took the last relay away.              *)
NoRelayIsTrue == screen = "no-relay" => hide /\ relayOffered /\ refuses

(* What makes the two inductive: the servers are those of an invitation    *)
(* that was read, from then on; hiding is offered by their relays; neither *)
(* changes once a peer is built from them; and the lock object is told of  *)
(* every change of the page's lock.                                        *)
ServersInv ==
  /\ servers # NoServers => servers \in Invitations /\ readIce(servers)
  /\ call \in {"idle", "offer", "prepare", "connect", "move", "await"} => servers # NoServers
  /\ session /\ call # "invite" => relayOffered = hasRelayUrl(servers)
  /\ hide => relayOffered
  /\ screen \in Picking => call = "idle"
  /\ ice # NoServers => call \in {"connect", "move", "await", "over"}
  /\ wanted = lock

(* However the send ends, the screen is let sleep: each lock that the      *)
(* browser gave or still gives is given back.                              *)
EndingsSleep == screen \in Endings ~> active = {}

(* Page, lock and connection together: typed, the lock held exactly while  *)
(* a file is on its way and never a dead one, and an address that is to be *)
(* hidden stays hidden.                                                    *)
DeviceInv ==
  /\ TypeOK /\ LockTypeOK /\ LockFits /\ SentinelIsLive /\ HidingHolds /\ NoRelayIsTrue
  /\ RunsInv /\ SessionInv /\ Bookkeeping /\ ServersInv

(* What must come: links run out on every screen before the file, and when *)
(* a send has ended, or the lock was released, the screen may sleep.       *)
EverythingEnds == EveryLinkEnds /\ EndingsSleep /\ SleepsAgain
=============================================================================
