------------------------------- MODULE Pacing -------------------------------
(***************************************************************************)
(* The pacing of a direct send (src/direct/pacing.ts, as sendEnvelope and  *)
(* the session use it): a token bucket that is asked before every frame,   *)
(* the rule that follows the path, and the watch that learns whether the   *)
(* path is relayed while it settles, restarts and fails to be read.        *)
(*                                                                         *)
(* The bucket learns what was spent from the bytes sent between two        *)
(* questions.  `reference` is the bucket as the protocol states it, filled *)
(* by the clock and emptied by frames, for as long as the send is paced.   *)
(***************************************************************************)
EXTENDS Integers

CONSTANTS
  Rate,       \* bytes that a unit of time allows
  Burst,      \* bytes that the bucket holds
  Frames,     \* the payloads a frame may carry
  Unknown,    \* the longest wait while the path is unknown: UNKNOWN_RETRY_MS
  MaxRetries, \* of a path that is not there yet
  MaxIdle,    \* bound: idle time beyond a full bucket is not told apart
  Restarts,   \* bound: ICE restarts
  Untimed,    \* a wait that only an ACK or a drained buffer ends
  None

ASSUME PacingAssumption ==
  /\ {Rate, Burst, Unknown, MaxRetries, MaxIdle} \subseteq Nat \ {0} /\ Restarts \in Nat
  /\ Frames \subseteq 1..Burst /\ Frames # {} /\ MaxIdle * Rate >= 2 * Burst
  /\ Unknown * Rate >= Burst \* 250 ms at 400,000 bytes a second, and 65,536 bytes
  /\ Untimed \notin Nat /\ None \notin Nat /\ Untimed # None

VARIABLES
  tokens, \* what the bucket held when it was asked last
  spent,  \* sent - lastSent, or None before the first question
  idle,   \* time - lastTime, once it was asked
  wanted, \* what the next frame would carry
  held,   \* the window is full or the send buffer over its mark
  wait,   \* how long the sender still waits, Untimed, or None
  turn,   \* history: turns with every frame
  reference, \* history: the bucket of the protocol
  relayed,   \* what the rule believes: "unknown", "relay" or "direct"
  path,      \* the selected pair: "none", "relay" or "direct"
  reads,     \* the reads of the pair that are in flight, by their purpose
  attempts,  \* retries of the present refresh
  retry,     \* whether its timer is set
  settles,   \* the later looks that are due after a restart
  restarts,  \* ICE restarts so far
  settling,  \* the pair may change yet, after a restart
  failed,    \* history: the last read failed
  stopped    \* the watch was stopped

bucket == <<tokens, spent, idle>>
sender == <<bucket, wanted, held, wait, turn, reference>>
watch == <<reads, attempts, retry, settles, failed>>
pair == <<path, restarts, settling>>
pacingVars == <<sender, relayed, pair, watch, stopped>>

Least(a, b) == IF a < b THEN a ELSE b
Most(a, b) == IF a < b THEN b ELSE a
CeilDiv(a, b) == (a + b - 1) \div b

(* A read that was begun by an earlier refresh is "late": it no longer     *)
(* leads to a retry.                                                       *)
Purposes == {"first", "again", "settle", "late"}

(* The types of the bucket and of the watch; the bucket is never fuller    *)
(* than its burst.                                                         *)
PacingTypeOK ==
  /\ tokens \in 0..Burst /\ spent \in 0..Burst \cup {None} /\ idle \in 0..MaxIdle
  /\ wanted \in Frames /\ held \in BOOLEAN /\ wait \in 0..Most(Unknown, CeilDiv(Burst, Rate)) \cup {Untimed, None}
  /\ turn \in BOOLEAN /\ settling \in BOOLEAN
  /\ relayed \in {"unknown", "relay", "direct"} /\ path \in {"none", "relay", "direct"}
  /\ reads \in [Purposes -> Nat] /\ attempts \in 0..MaxRetries /\ retry \in BOOLEAN /\ settles \in 0..2
  /\ restarts \in 0..Restarts /\ failed \in BOOLEAN /\ stopped \in BOOLEAN

PacingInit ==
  /\ tokens = Burst /\ spent = None /\ idle = 0 /\ wanted \in Frames /\ held = FALSE /\ wait = None
  /\ turn = FALSE /\ reference = Burst /\ relayed = "unknown" /\ path \in {"none", "relay", "direct"}
  /\ reads = [p \in Purposes |-> IF p = "first" THEN 1 ELSE 0] /\ attempts = 0 /\ retry = FALSE
  /\ settles = 0 /\ restarts = 0 /\ settling = FALSE /\ failed = FALSE /\ stopped = FALSE

(***************************************************************************)
(* The rules                                                               *)
(***************************************************************************)

(* What the bucket holds when it is asked.                                 *)
Refilled == IF spent = None THEN Burst ELSE Least(Burst, (tokens + idle * Rate) - spent)

RetryTime == Most(1, CeilDiv(Least(wanted, Burst) - Refilled, Rate))

(* createRatePacer: a frame goes when the bucket holds all of it.          *)
RateAllows == IF Refilled >= Least(wanted, Burst) THEN Most(1, Refilled) ELSE 0

(* protocolPacing: nothing while it is held; otherwise the window, which   *)
(* may be less than the frame.                                             *)
ProtocolAllows == IF held THEN {0} ELSE 1..wanted

(* stricter(): the least that is allowed, and the soonest that is asked.   *)
(* The protocol asks for no time: an ACK or a drained buffer will tell.    *)
Paced == relayed # "direct"
PaceAllowed(window) == IF Paced THEN Least(window, RateAllows) ELSE window

(* Mutant: the time the bucket asks for is not passed on.                  *)
WaitTime_Untimed == IF relayed = "unknown" THEN Unknown ELSE Untimed

WaitTime ==
  LET asked == IF Paced /\ RateAllows = 0 THEN RetryTime ELSE Untimed IN
  IF relayed = "unknown" THEN (IF asked = Untimed THEN Unknown ELSE Least(asked, Unknown)) ELSE asked

(***************************************************************************)
(* The sender                                                              *)
(***************************************************************************)

(* The rule is asked, and a frame is sent at once or waited for.  A rule   *)
(* for direct paths does not ask the bucket.                               *)
Ask ==
  /\ wait = None
  /\ \E window \in ProtocolAllows :
       LET take == Least(wanted, PaceAllowed(window)) IN
       /\ tokens' = (IF Paced THEN Refilled ELSE tokens)
       /\ idle' = (IF Paced THEN 0 ELSE idle)
       /\ spent' = (IF Paced THEN take ELSE IF spent = None THEN None ELSE spent + take)
       /\ reference' = (IF Paced THEN reference - take ELSE reference)
       /\ IF take > 0
          THEN turn' = ~turn /\ wanted' \in Frames /\ held' \in BOOLEAN /\ UNCHANGED wait
          ELSE wait' = WaitTime /\ UNCHANGED <<turn, wanted, held>>
  /\ UNCHANGED <<relayed, pair, watch, stopped>>

(* An ACK, or the buffer has drained: the sender looks again.              *)
Poke ==
  /\ held /\ held' = FALSE /\ wait' = None
  /\ UNCHANGED <<bucket, wanted, turn, reference, relayed, pair, watch, stopped>>

(* An ACK that leaves the window or the buffer as they were wakes too.     *)
Stir ==
  /\ wait # None /\ wait' = None
  /\ UNCHANGED <<bucket, wanted, held, turn, reference, relayed, pair, watch, stopped>>

Wakes ==
  /\ wait = 0 /\ wait' = None
  /\ UNCHANGED <<bucket, wanted, held, turn, reference, relayed, pair, watch, stopped>>

Tick ==
  /\ wait # 0
  /\ wait' = (IF wait \in {Untimed, None} THEN wait ELSE wait - 1)
  /\ idle' = (IF spent = None THEN 0 ELSE Least(MaxIdle, idle + 1)) /\ reference' = Least(Burst, reference + Rate)
  /\ UNCHANGED <<tokens, spent, wanted, held, turn, relayed, pair, watch, stopped>>

(***************************************************************************)
(* The path                                                                *)
(***************************************************************************)

(* setRelayed(): a switch to a direct path forgets the bucket.             *)
SpentAfter(next) == IF next = "direct" /\ relayed # "direct" THEN None ELSE spent

SetRelayed(next) ==
  /\ relayed' = next /\ spent' = SpentAfter(next) /\ idle' = (IF spent' = None THEN 0 ELSE idle)
  /\ reference' = IF next = "direct" THEN Burst ELSE reference

(* refresh(): earlier reads become late.                                   *)
Refreshed(rs) == [rs EXCEPT !.first = 1, !.again = 0, !.late = @ + rs.first + rs.again]

Refresh ==
  /\ ~stopped /\ reads.first + reads.again + reads.late < 2
  /\ reads' = Refreshed(reads) /\ attempts' = 0 /\ retry' = FALSE
  /\ UNCHANGED <<sender, relayed, pair, settles, failed, stopped>>

(* Mutant: there is no later look.                                         *)
LaterLooks_None == 0

LaterLooks == 2

AfterRestart ==
  /\ ~stopped /\ restarts < Restarts /\ restarts' = restarts + 1 /\ settling' = TRUE
  /\ reads.first + reads.again + reads.late < 2
  /\ reads' = Refreshed(reads) /\ attempts' = 0 /\ retry' = FALSE /\ settles' = LaterLooks
  /\ UNCHANGED <<sender, relayed, path, failed, stopped>>

(* A pair is selected, or another one while a restart settles.             *)
PathChanges ==
  /\ path = "none" \/ settling
  /\ path' \in {"relay", "direct"} \ {path}
  /\ UNCHANGED <<sender, relayed, restarts, settling, watch, stopped>>

PathSettles ==
  /\ settling /\ path # "none" /\ settling' = FALSE
  /\ UNCHANGED <<sender, relayed, path, restarts, watch, stopped>>

(* readOnce(): the pair is applied unless there is none, the read failed,  *)
(* or the watch was stopped; a refresh without an answer sets its timer.   *)
ReadEnds(purpose, ok) ==
  /\ reads[purpose] > 0 /\ reads' = [reads EXCEPT ![purpose] = @ - 1]
  /\ IF ok /\ path # "none"
     THEN /\ failed' = FALSE /\ UNCHANGED retry
          /\ IF stopped THEN UNCHANGED <<relayed, spent, idle, reference>> ELSE SetRelayed(path)
     ELSE /\ failed' = ~ok /\ retry' = (retry \/ (~stopped /\ purpose \in {"first", "again"}))
          /\ UNCHANGED <<relayed, spent, idle, reference>>
  /\ UNCHANGED <<tokens, wanted, held, wait, turn, pair, attempts, settles, stopped>>

RetryFires ==
  /\ retry /\ retry' = FALSE
  /\ IF attempts < MaxRetries
     THEN attempts' = attempts + 1 /\ reads' = [reads EXCEPT !.again = @ + 1]
     ELSE UNCHANGED <<attempts, reads>>
  /\ UNCHANGED <<sender, relayed, pair, settles, failed, stopped>>

(* The last look comes when the checks of the restart have settled.        *)
SettleFires ==
  /\ settles > 0 /\ (settles = 1 => ~settling) /\ settles' = settles - 1 /\ reads' = [reads EXCEPT !.settle = @ + 1]
  /\ UNCHANGED <<sender, relayed, pair, attempts, retry, failed, stopped>>

StopWatch ==
  /\ ~stopped /\ stopped' = TRUE /\ retry' = FALSE /\ settles' = 0
  /\ UNCHANGED <<sender, relayed, pair, reads, attempts, failed>>

PacingNext ==
  \/ Ask \/ Poke \/ Stir \/ Wakes \/ Tick
  \/ Refresh \/ AfterRestart \/ PathChanges \/ PathSettles \/ RetryFires \/ SettleFires \/ StopWatch
  \/ \E purpose \in Purposes, ok \in BOOLEAN : ReadEnds(purpose, ok)

(* The sender's loop and the clock run on; the receiver acknowledges.      *)
PacingFairness == WF_pacingVars(Ask) /\ WF_pacingVars(Wakes) /\ WF_pacingVars(Tick) /\ WF_pacingVars(Poke)

PacingSpec == PacingInit /\ [][PacingNext]_pacingVars /\ PacingFairness

(***************************************************************************)
(* Properties                                                              *)
(***************************************************************************)

(* Over any stretch in which the path is relayed or unknown, no more is    *)
(* sent than the bucket and the rate times the stretch, though the bucket  *)
(* is asked at odd times and told of nothing.                              *)
WithinRate == Paced => reference >= 0

(* A sender that has waited the time it was told finds its frame allowed.  *)
RetryIsEnough == wait = 0 /\ Paced => RateAllows >= wanted

(* When no look at the path is due any more, the rule follows the present  *)
(* path, unless the last read failed or the retries ran out.               *)
KnowsPath ==
  /\ ~stopped /\ ~retry /\ settles = 0 /\ ~settling /\ path # "none"
  /\ \A p \in Purposes : reads[p] = 0
  => relayed = path \/ failed \/ attempts = MaxRetries

(* Frames go on being sent, whatever becomes of the path.                  *)
FramesFlow == []<>turn /\ []<>~turn

(* What makes the first two inductive: the bucket never holds more than    *)
(* the protocol's, nothing is taken that it does not hold, a direct path   *)
(* has forgotten it, and a timed wait ends when it holds the frame.        *)
BucketInv ==
  /\ reference \in Int /\ reference <= Burst /\ Refilled <= reference
  /\ relayed = "direct" => spent = None /\ reference = Burst
  /\ spent # None => spent <= tokens
  /\ wait \in Nat /\ spent # None => wanted <= (tokens + (idle + wait) * Rate) - spent

(* And the third: one look of the present refresh at a time, two more for  *)
(* each restart, and one due whenever the rule may be wrong.               *)
WatchInv ==
  /\ reads.first + reads.again + (IF retry THEN 1 ELSE 0) <= 1 /\ reads.late <= 1
  /\ reads.settle + settles <= 2 * restarts
  /\ ~stopped => /\ settling => settles > 0
                 /\ path = "none" => retry \/ reads.first + reads.again > 0 \/ attempts = MaxRetries
                 /\ \/ path = "none" \/ relayed = path \/ failed \/ attempts = MaxRetries
                    \/ retry \/ settles > 0 \/ \E p \in Purposes : reads[p] > 0

(* The pace: within the rate, with waits that are long enough, and by the  *)
(* rule of the present path.                                               *)
PaceFits == PacingTypeOK /\ WithinRate /\ RetryIsEnough /\ KnowsPath /\ BucketInv /\ WatchInv
=============================================================================
