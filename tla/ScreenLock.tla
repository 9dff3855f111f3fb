------------------------------ MODULE ScreenLock ------------------------------
(***************************************************************************)
(* createScreenLock (src/send/wakelock.ts): the phone's screen is asked to *)
(* stay on while a file is sent.  hold() and release() are the page's; the *)
(* browser grants or refuses a request, takes a lock away when it likes    *)
(* (always when the page is hidden), and lets a released lock go at a      *)
(* later time, with a release event.                                       *)
(***************************************************************************)
EXTENDS Naturals

CONSTANTS
  Locks,      \* the sentinels the browser can have out at once
  NoLock,     \* `sentinel` undefined
  Supported   \* whether the browser has navigator.wakeLock

ASSUME NoLockIsNone == NoLock \notin Locks
ASSUME SupportedIsBoolean == Supported \in BOOLEAN

VARIABLES
  wanted,     \* hold() without release() yet; visibilitychange is listened to exactly then
  sentinel,   \* the lock this object holds
  asking,     \* "no", "request" (await request) or "return" (await granted.release()): `pending` is # "no"
  visible,    \* visibility.visibilityState
  active,     \* the browser's: locks that keep the screen on
  leaving,    \* the browser's: locks whose release was asked for, not yet done
  events      \* the browser's: locks gone whose release event is still to be delivered

LockVars == <<wanted, sentinel, asking, visible, active, leaving, events>>

(* The types of the lock object and of the browser's locks.                *)
LockTypeOK ==
  /\ wanted \in BOOLEAN /\ visible \in BOOLEAN
  /\ sentinel \in Locks \cup {NoLock}
  /\ asking \in {"no", "request", "return"}
  /\ active \subseteq Locks /\ leaving \subseteq active /\ events \subseteq Locks

LockInit ==
  /\ wanted = FALSE /\ sentinel = NoLock /\ asking = "no" /\ visible = TRUE
  /\ active = {} /\ leaving = {} /\ events = {}

(* acquire(), up to its await; `w` is the value of wanted at the call.     *)
Acquire(w) == IF Supported /\ w /\ sentinel = NoLock /\ asking = "no" THEN "request" ELSE asking

Hold ==
  /\ ~wanted
  /\ wanted' = TRUE /\ asking' = Acquire(TRUE)
  /\ UNCHANGED <<sentinel, visible, active, leaving, events>>

Release ==
  /\ wanted
  /\ wanted' = FALSE /\ sentinel' = NoLock /\ leaving' = leaving \cup (active \cap {sentinel})
  /\ UNCHANGED <<asking, visible, active, events>>

(* Mutant: a lock granted too late is dropped on the floor.                *)
Granted_Kept(l) ==
  /\ asking = "request" /\ visible /\ l \notin active \cup events
  /\ active' = active \cup {l} /\ sentinel' = (IF wanted THEN l ELSE sentinel) /\ asking' = "no"
  /\ UNCHANGED <<leaving, wanted, visible, events>>

(* The request is granted.  A lock nobody wants any more is given back,    *)
(* and `pending` stays set until that has settled.                         *)
Granted(l) ==
  /\ asking = "request" /\ visible /\ l \notin active \cup events
  /\ active' = active \cup {l}
  /\ \/ wanted /\ sentinel' = l /\ asking' = "no" /\ UNCHANGED leaving
     \/ ~wanted /\ leaving' = leaving \cup {l} /\ asking' = "return" /\ UNCHANGED sentinel
  /\ UNCHANGED <<wanted, visible, events>>

(* The request is refused: hidden page, low battery, policy.               *)
Refused ==
  /\ asking = "request"
  /\ asking' = "no" /\ UNCHANGED <<wanted, sentinel, visible, active, leaving, events>>

(* granted.release() of a late lock has settled, one way or the other.     *)
Returned ==
  /\ asking = "return"
  /\ asking' = "no" /\ UNCHANGED <<wanted, sentinel, visible, active, leaving, events>>

(* The listener of the release event.                                      *)
Forget(l) == IF sentinel = l THEN NoLock ELSE sentinel

ReleaseEvent(l) ==
  /\ l \in events
  /\ events' = events \ {l} /\ sentinel' = Forget(l)
  /\ UNCHANGED <<wanted, asking, visible, active, leaving>>

(* The browser lets a lock go: asked to, or of its own accord.             *)
LetGo(l) ==
  /\ l \in active
  /\ active' = active \ {l} /\ leaving' = leaving \ {l} /\ events' = events \cup {l}
  /\ UNCHANGED <<wanted, sentinel, asking, visible>>

(* The page is hidden; the browser drops every lock it has.                *)
Hidden ==
  /\ visible
  /\ visible' = FALSE /\ active' = {} /\ leaving' = {} /\ events' = events \cup active
  /\ UNCHANGED <<wanted, sentinel, asking>>

(* The page is back: onVisible.  The release events of the locks it lost   *)
(* were delivered while it was hidden.                                     *)
Shown ==
  /\ ~visible /\ events = {}
  /\ visible' = TRUE /\ asking' = Acquire(wanted)
  /\ UNCHANGED <<wanted, sentinel, active, leaving, events>>

(* What the browser does of its own.                                       *)
Browser ==
  \/ Refused \/ Returned \/ Hidden \/ Shown
  \/ \E l \in Locks : Granted(l) \/ LetGo(l) \/ ReleaseEvent(l)

LockNext == Hold \/ Release \/ Browser

(* The browser answers a request and lets go of what it was asked to.      *)
LockFairness ==
  /\ WF_LockVars(Refused \/ \E l \in Locks : Granted(l)) /\ WF_LockVars(Returned)
  /\ \A l \in Locks : WF_LockVars(l \in leaving /\ LetGo(l))

LockSpec == LockInit /\ [][LockNext]_LockVars /\ LockFairness

(***************************************************************************)
(* Properties                                                              *)
(***************************************************************************)

(* No lock is lost track of: one that keeps the screen on is the sentinel, *)
(* which release() will release, or is already on its way out.             *)
NothingLeaks == \A l \in active : l = sentinel \/ l \in leaving

(* The sentinel is a lock the browser still has, or is about to hear is    *)
(* gone: acquire() never takes a dead lock for a live one when the page    *)
(* returns, and nothing is held once the lock is no longer wanted.         *)
SentinelIsLive ==
  /\ sentinel # NoLock => wanted /\ sentinel \in (active \ leaving) \cup events
  /\ visible \/ events # {} \/ sentinel = NoLock

(* What makes the two inductive: a request is out only while nothing is    *)
(* held, a lock whose event is on its way is no longer the browser's, and  *)
(* a hidden page has no lock.                                              *)
Bookkeeping ==
  /\ asking = "request" => sentinel = NoLock
  /\ active \cap events = {}
  /\ ~visible => active = {}

LockInv == LockTypeOK /\ NothingLeaks /\ SentinelIsLive /\ Bookkeeping

(* "Lets the screen sleep again": after release() the screen may sleep     *)
(* unless hold() is called again, whatever the browser was still deciding. *)
SleepsAgain == ~wanted ~> (active = {} \/ wanted)
=============================================================================
