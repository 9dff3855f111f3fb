--------------------------- MODULE PublishingProofs ---------------------------
(***************************************************************************)
(* Proofs about Publishing, for any number of handlers at once.            *)
(* PublicationFits, ConsentStands and SigningFits are inductive together:  *)
(* HandlersInv says of each waiting handler what the resets, which abort   *)
(* and outdate, left it.                                                   *)
(***************************************************************************)
EXTENDS Publishing, TLAPS

PublicationInv == PublicationFits /\ ConsentStands /\ SigningFits

TaskTable == [Slots -> Tasks \cup {Idle}]

(* What no reset changes about a handler.                                  *)
Same(t, u) == t.kind = u.kind /\ t.of = u.of /\ t.method = u.method

(* What abort() on the handler h, a new revision and the rejection of the  *)
(* open request make of the handlers ts.                                   *)
Aborts(new, ts, h) ==
  /\ new \in TaskTable
  /\ \A s \in Slots :
       /\ new[s].kind = ts[s].kind
       /\ ts[s].kind # None =>
            /\ Same(new[s], ts[s]) /\ new[s].stage = ts[s].stage /\ new[s].fresh = ts[s].fresh
            /\ new[s].aborted <=> (ts[s].aborted \/ s = h)

Outdates(new, ts) ==
  /\ new \in TaskTable
  /\ \A s \in Slots :
       /\ new[s].kind = ts[s].kind
       /\ ts[s].kind # None =>
            /\ Same(new[s], ts[s]) /\ new[s].stage = ts[s].stage
            /\ ~new[s].fresh /\ new[s].aborted = ts[s].aborted

Rejects(new, ts) ==
  /\ new \in TaskTable
  /\ \A s \in Slots :
       /\ new[s].kind = ts[s].kind
       /\ ts[s].kind # None =>
            /\ Same(new[s], ts[s]) /\ new[s].fresh = ts[s].fresh /\ new[s].aborted = ts[s].aborted
            /\ IF s = request THEN new[s].stage \in {"sending", "refused"} ELSE new[s].stage = ts[s].stage

LEMMA TaskType ==
  ASSUME NEW ts \in TaskTable, NEW s \in Slots
  PROVE  /\ ts[s].kind # None => ts[s] \in Tasks
         /\ ts[s] \in Tasks => ts[s].kind # None /\ ts[s].kind \in Kinds
         /\ ts[s] \in Tasks \/ ts[s] = Idle
  BY PublishingAssumption DEF TaskTable, Tasks, Idle

(* abort() changes one field of one running handler.                       *)
LEMMA AbortOfFacts ==
  ASSUME NEW ts \in TaskTable, NEW h, h \in Slots => ts[h].kind # None
  PROVE  Aborts(AbortOf(ts, h), ts, h)
  <1>1. CASE h \notin Slots
    <2>1. AbortOf(ts, h) = ts
      BY <1>1 DEF AbortOf
    <2> QED
      BY <1>1, <2>1 DEF Same, Aborts
  <1>2. CASE h \in Slots
    <2> DEFINE u == [ts[h] EXCEPT !.aborted = TRUE]
    <2>1. ts[h] \in Tasks
      BY <1>2, TaskType
    <2>2. /\ u \in Tasks /\ Same(u, ts[h]) /\ u.stage = ts[h].stage /\ u.fresh = ts[h].fresh /\ u.aborted
      BY <2>1 DEF Tasks, Same
    <2>3. AbortOf(ts, h) = [ts EXCEPT ![h] = u]
      BY <1>2 DEF AbortOf
    <2> HIDE DEF u
    <2>4. AbortOf(ts, h) \in TaskTable
      BY <1>2, <2>2, <2>3 DEF TaskTable
    <2>5. AbortOf(ts, h)[h] = u /\ \A s \in Slots : s # h => AbortOf(ts, h)[s] = ts[s]
      BY <1>2, <2>3 DEF TaskTable
    <2> QED
      BY <1>2, <2>2, <2>4, <2>5 DEF Same, Aborts
  <1> QED
    BY <1>1, <1>2

(* A new revision outdates every running handler.                          *)
LEMMA OutdatedFacts ==
  ASSUME TypeOK, NEW ts \in TaskTable, \A s \in Slots : ts[s].kind = tasks[s].kind
  PROVE  Outdates(Outdated(ts), ts)
  <1> SUFFICES ASSUME NEW s \in Slots
               PROVE  /\ Outdated(ts)[s] \in Tasks \cup {Idle}
                      /\ Outdated(ts)[s].kind = ts[s].kind
                      /\ ts[s].kind # None =>
                           /\ Same(Outdated(ts)[s], ts[s]) /\ Outdated(ts)[s].stage = ts[s].stage
                           /\ ~Outdated(ts)[s].fresh /\ Outdated(ts)[s].aborted = ts[s].aborted
    BY DEF Outdates, Outdated, TaskTable
  <1>1. CASE Busy(s)
    <2> DEFINE u == [ts[s] EXCEPT !.fresh = FALSE]
    <2>1. ts[s] \in Tasks /\ Outdated(ts)[s] = u
      BY <1>1, TaskType DEF Busy, Outdated
    <2>2. u \in Tasks /\ Same(u, ts[s]) /\ u.stage = ts[s].stage /\ ~u.fresh /\ u.aborted = ts[s].aborted
      BY <2>1 DEF Tasks, Same
    <2> HIDE DEF u
    <2> QED
      BY <2>1, <2>2 DEF Same
  <1>2. CASE ~Busy(s)
    <2>1. Outdated(ts)[s] = ts[s] /\ ts[s].kind = None
      BY <1>2 DEF Outdated, Busy
    <2> QED
      BY <2>1 DEF TaskTable
  <1> QED
    BY <1>1, <1>2

(* Rejecting the open request stops its handler from waiting for it.       *)
LEMMA RejectedFacts ==
  ASSUME NEW ts \in TaskTable, request \in Slots => ts[request].kind # None
  PROVE  Rejects(Rejected(ts), ts)
  <1>1. CASE request \notin Slots
    <2>1. Rejected(ts) = ts
      BY <1>1 DEF Rejected
    <2> QED
      BY <1>1, <2>1 DEF Same, Rejects
  <1>2. CASE request \in Slots
    <2> DEFINE st == IF ts[request].stage = "signing2" /\ ts[request].kind = "pool" THEN "sending" ELSE "refused"
               u == [ts[request] EXCEPT !.stage = st]
    <2>1. ts[request] \in Tasks
      BY <1>2, TaskType
    <2>2. st \in {"sending", "refused"} /\ st \in Stages
      BY DEF Stages
    <2>3. Rejected(ts) = [ts EXCEPT ![request] = u]
      BY <1>2, <2>1 DEF Rejected, Tasks, TaskTable
    <2> HIDE DEF st
    <2>4. /\ u \in Tasks /\ Same(u, ts[request]) /\ u.fresh = ts[request].fresh /\ u.aborted = ts[request].aborted
          /\ u.stage = st
      BY <2>1, <2>2 DEF Tasks, Same
    <2> HIDE DEF u
    <2>5. Rejected(ts) \in TaskTable
      BY <1>2, <2>3, <2>4 DEF TaskTable
    <2>6. Rejected(ts)[request] = u /\ \A s \in Slots : s # request => Rejected(ts)[s] = ts[s]
      BY <1>2, <2>3 DEF TaskTable
    <2> QED
      BY <1>2, <2>2, <2>4, <2>5, <2>6 DEF Same, Rejects
  <1> QED
    BY <1>1, <1>2

(* The handlers after a reset: outdated, every transfer aborted, and none  *)
(* that waits for the external signer.                                     *)
LEMMA ResetFacts ==
  ASSUME PublicationInv
  PROVE  /\ Rejected(Outdated(AbortAll)) \in TaskTable
         /\ \A s \in Slots : LET u == Rejected(Outdated(AbortAll))[s] IN
              /\ u.kind = tasks[s].kind
              /\ u.kind # None =>
                   /\ Same(u, tasks[s]) /\ ~u.fresh
                   /\ u.kind \in {"upload", "pool", "publish"} => u.aborted
                   /\ u.kind = "publish" => u.stage = "sending"
                   /\ u.stage \in {"signing", "signing2"} => u.method # "external"
  <1> DEFINE a == AbortOf(tasks, inspection)
             b == AbortOf(a, uploader)
             c == AbortOf(b, publisher)
             d == Outdated(c)
             e == Rejected(d)
  <1> HIDE DEF a, b, c, d, e
  <1>0. TypeOK /\ tasks \in TaskTable /\ HandlersInv /\ ConsentStands /\ RequestIsLive /\ NoneWaitsInVain
    BY DEF PublicationInv, PublicationFits, SigningFits, TypeOK, TaskTable
  <1>1. /\ inspection \in Slots => tasks[inspection].kind # None
        /\ uploader \in Slots => tasks[uploader].kind # None
        /\ publisher \in Slots => tasks[publisher].kind # None
        /\ request \in Slots => tasks[request].kind # None
    BY <1>0, PublishingAssumption DEF TypeOK, RequestIsLive, Busy, Kinds
  <1>2. Aborts(a, tasks, inspection)
    BY <1>0, <1>1, AbortOfFacts DEF a
  <1>3. Aborts(b, a, uploader)
    <2>1. a \in TaskTable /\ (uploader \in Slots => a[uploader].kind # None)
      BY <1>1, <1>2 DEF Aborts
    <2> QED
      BY <2>1, AbortOfFacts DEF b
  <1>4. Aborts(c, b, publisher)
    <2>1. b \in TaskTable /\ (publisher \in Slots => b[publisher].kind # None)
      BY <1>1, <1>2, <1>3 DEF Aborts
    <2> QED
      BY <2>1, AbortOfFacts DEF c
  <1>5. Outdates(d, c)
    <2>1. c \in TaskTable /\ \A s \in Slots : c[s].kind = tasks[s].kind
      BY <1>2, <1>3, <1>4 DEF Aborts
    <2> QED
      BY <1>0, <2>1, OutdatedFacts DEF d
  <1>6. Rejects(e, d)
    <2>1. d \in TaskTable /\ (request \in Slots => d[request].kind # None)
      BY <1>1, <1>2, <1>3, <1>4, <1>5 DEF Aborts, Outdates
    <2> QED
      BY <2>1, RejectedFacts DEF e
  <1>7. /\ e \in TaskTable
        /\ \A s \in Slots : /\ e[s].kind = tasks[s].kind
                            /\ e[s].kind # None => /\ Same(e[s], tasks[s]) /\ ~e[s].fresh
                                                   /\ tasks[s].aborted \/ s \in {uploader, publisher} => e[s].aborted
                                                   /\ IF s = request THEN e[s].stage \in {"sending", "refused"}
                                                                     ELSE e[s].stage = tasks[s].stage
    BY <1>2, <1>3, <1>4, <1>5, <1>6 DEF Same, Aborts, Outdates, Rejects
  <1>8. e = Rejected(Outdated(AbortAll))
    BY DEF AbortAll, a, b, c, d, e
  <1>9. ASSUME NEW s \in Slots, e[s].kind # None
        PROVE  /\ e[s].kind \in {"upload", "pool", "publish"} => e[s].aborted
               /\ e[s].kind = "publish" => e[s].stage = "sending"
               /\ e[s].stage \in {"signing", "signing2"} => e[s].method # "external"
    <2>1. tasks[s].kind \in {"upload", "pool", "publish"} => tasks[s].aborted \/ s \in {uploader, publisher}
      BY <1>0, <1>7, <1>9 DEF ConsentStands, Busy
    <2>2. tasks[s].kind = "publish" => s # request /\ tasks[s].stage = "sending"
      BY <1>0, <1>7, <1>9 DEF HandlersInv, RequestIsLive, Busy
    <2>3. tasks[s].stage \in {"signing", "signing2"} /\ tasks[s].method = "external" => s = request
      BY <1>0, <1>7, <1>9 DEF NoneWaitsInVain, Busy
    <2> QED
      BY <1>7, <1>9, <2>1, <2>2, <2>3 DEF Same
  <1> QED
    BY <1>7, <1>8, <1>9

(* The handlers after the open request was rejected and the one of h was   *)
(* aborted.                                                                *)
LEMMA StopFacts ==
  ASSUME PublicationInv, NEW h, h \in {uploader, None}
  PROVE  /\ Rejected(AbortOf(tasks, h)) \in TaskTable
         /\ \A s \in Slots : LET u == Rejected(AbortOf(tasks, h))[s] IN
              /\ u.kind = tasks[s].kind
              /\ u.kind # None =>
                   /\ Same(u, tasks[s]) /\ u.fresh = tasks[s].fresh
                   /\ u.aborted <=> (tasks[s].aborted \/ s = h)
                   /\ u.kind = "publish" => u.stage = "sending"
                   /\ u.stage \in {"signing", "signing2"} => u.method # "external"
  <1> DEFINE a == AbortOf(tasks, h)
             e == Rejected(a)
  <1>0. TypeOK /\ tasks \in TaskTable /\ HandlersInv /\ RequestIsLive /\ NoneWaitsInVain
    BY DEF PublicationInv, PublicationFits, SigningFits, TypeOK, TaskTable
  <1>1. /\ h \in Slots => tasks[h].kind # None
        /\ request \in Slots => tasks[request].kind # None
    BY <1>0, PublishingAssumption DEF TypeOK, RequestIsLive, Busy, Kinds
  <1>2. /\ a \in TaskTable
        /\ \A s \in Slots : /\ a[s].kind = tasks[s].kind
                            /\ a[s].kind # None => /\ Same(a[s], tasks[s]) /\ a[s].stage = tasks[s].stage
                                                   /\ a[s].fresh = tasks[s].fresh
                                                   /\ a[s].aborted <=> (tasks[s].aborted \/ s = h)
    BY <1>0, <1>1, AbortOfFacts DEF Aborts
  <1> HIDE DEF a
  <1>3. /\ e \in TaskTable
        /\ \A s \in Slots : /\ e[s].kind = tasks[s].kind
                            /\ e[s].kind # None => /\ Same(e[s], tasks[s]) /\ e[s].fresh = tasks[s].fresh
                                                   /\ e[s].aborted <=> (tasks[s].aborted \/ s = h)
                                                   /\ IF s = request THEN e[s].stage \in {"sending", "refused"}
                                                                     ELSE e[s].stage = tasks[s].stage
    BY <1>1, <1>2, RejectedFacts DEF Same, Rejects
  <1> HIDE DEF e
  <1>4. ASSUME NEW s \in Slots, e[s].kind # None
        PROVE  /\ e[s].kind = "publish" => e[s].stage = "sending"
               /\ e[s].stage \in {"signing", "signing2"} => e[s].method # "external"
    <2>1. tasks[s].kind = "publish" => s # request /\ tasks[s].stage = "sending"
      BY <1>0, <1>3, <1>4 DEF HandlersInv, RequestIsLive, Busy
    <2>2. tasks[s].stage \in {"signing", "signing2"} /\ tasks[s].method = "external" => s = request
      BY <1>0, <1>3, <1>4 DEF NoneWaitsInVain, Busy
    <2> QED
      BY <1>3, <1>4, <2>1, <2>2 DEF Same
  <1> QED
    BY <1>3, <1>4 DEF e, a

(* Whatever the edit was that made it, a reset leaves nothing of the old   *)
(* publication that could still act on the new one.                        *)
LEMMA ResetStep ==
  ASSUME PublicationInv, ResetPublication
  PROVE  /\ tasks' \in TaskTable /\ HandlersInv' /\ OneSigning' /\ ConsentStands' /\ SigningFits'
         /\ inspection' = None /\ uploader' = None /\ publisher' = None /\ request' = None
         /\ descriptor' = None /\ pool' = None /\ signed' = None /\ signable' = FALSE /\ consents' = {}
  <1>0. tasks \in TaskTable /\ HandlersInv
    BY DEF PublicationInv, PublicationFits, TypeOK, TaskTable
  <1>1. /\ tasks' \in TaskTable
        /\ \A s \in Slots : tasks'[s].kind # None =>
             /\ tasks[s].kind # None /\ Same(tasks'[s], tasks[s]) /\ ~tasks'[s].fresh
             /\ tasks'[s].kind \in {"upload", "pool", "publish"} => tasks'[s].aborted
             /\ tasks'[s].kind = "publish" => tasks'[s].stage = "sending"
             /\ tasks'[s].stage \in {"signing", "signing2"} => tasks'[s].method # "external"
    BY ResetFacts DEF ResetPublication, Abandon
  <1>2. HandlersInv' /\ OneSigning'
    BY <1>0, <1>1 DEF HandlersInv, OneSigning, Busy, Same
  <1>3. ConsentStands'
    BY <1>1 DEF ConsentStands, Busy
  <1>4. SigningFits'
    BY <1>1, PublishingAssumption DEF ResetPublication, Abandon, SigningFits, RequestIsLive, NoneWaitsInVain, OrphanFits, Busy
  <1> QED
    BY <1>1, <1>2, <1>3, <1>4 DEF ResetPublication, Abandon

(* Rejecting the open request, and aborting the upload when a consent to   *)
(* it is withdrawn, keeps the rest.                                        *)
LEMMA StopStep ==
  ASSUME PublicationInv, NEW h, h \in {uploader, None}, Abandon(AbortOf(tasks, h)),
         UNCHANGED <<form, pubkey, inspected, staged, controllers>>,
         h = uploader \/ consents' = consents, consents \ consents' \subseteq {"upload", "key"}, consents' \subseteq consents
  PROVE  PublicationInv'
  <1>0. /\ TypeOK /\ tasks \in TaskTable /\ HandlersInv /\ StagedIsCurrent /\ ConnectedHere /\ OneSigning
        /\ ConsentStands
    BY DEF PublicationInv, PublicationFits, TypeOK, TaskTable
  <1>1. /\ tasks' \in TaskTable
        /\ \A s \in Slots : tasks'[s].kind = tasks[s].kind
        /\ \A s \in Slots : tasks'[s].kind # None =>
             /\ Same(tasks'[s], tasks[s]) /\ tasks'[s].fresh = tasks[s].fresh
             /\ tasks'[s].aborted <=> (tasks[s].aborted \/ s = h)
             /\ tasks'[s].kind = "publish" => tasks'[s].stage = "sending"
             /\ tasks'[s].stage \in {"signing", "signing2"} => tasks'[s].method # "external"
    BY StopFacts DEF Abandon
  <1>2. UNCHANGED <<choice, net, method, torConsent, descriptor, pool, signed, signable, inspection, uploader, publisher>>
    BY DEF form, staged, controllers
  <1>3. Now' = Now /\ (TorReady' <=> TorReady)
    BY <1>2 DEF Now, TorReady
  <1>4. HandlersInv'
    BY <1>0, <1>1, <1>2, <1>3 DEF HandlersInv, Busy, Same
  <1>5. OneSigning'
    BY <1>0, <1>1 DEF OneSigning, Busy
  <1>6. TypeOK'
    BY <1>0, <1>1, <1>2 DEF TypeOK, TaskTable, Abandon
  <1>7. StagedIsCurrent' /\ ConnectedHere'
    BY <1>0, <1>2, <1>3 DEF StagedIsCurrent, ConnectedHere
  <1>8. ConsentStands'
    BY <1>0, <1>1, <1>2, <1>3 DEF ConsentStands, Busy, Same, KeyReady
  <1>9. SigningFits'
    BY <1>1, PublishingAssumption DEF Abandon, SigningFits, RequestIsLive, NoneWaitsInVain, OrphanFits, Busy
  <1> QED
    BY <1>4, <1>5, <1>6, <1>7, <1>8, <1>9 DEF PublicationInv, PublicationFits

(* The edits of the form, the consents and the cancels.                    *)
LEMMA EditStep == PublicationInv /\ Edit => PublicationInv'
  <1> SUFFICES ASSUME PublicationInv, Edit PROVE PublicationInv'
    OBVIOUS
  <1>0. /\ TypeOK /\ tasks \in TaskTable /\ HandlersInv /\ StagedIsCurrent /\ ConnectedHere /\ OneSigning
        /\ ConsentStands /\ SigningFits
    BY DEF PublicationInv, PublicationFits, TypeOK, TaskTable
  <1>1. ASSUME ResetPublication, choice' \in Choices, net' \in Nets, method' \in Methods, torConsent' \in BOOLEAN,
               pubkey' \in {None, pubkey}, inspected' \in {None, inspected},
               inspected' \in {None, choice'}, ConnectedHere'
        PROVE  PublicationInv'
    <2>1. TypeOK'
      <3>1. tasks' \in [Slots -> Tasks \cup {Idle}]
        BY <1>1, ResetStep DEF TaskTable
      <3>2. signable' \in BOOLEAN
        BY <1>1 DEF ResetPublication
      <3> QED
        BY <1>0, <1>1, <3>1, <3>2, ResetStep DEF TypeOK
    <2>2. StagedIsCurrent'
      BY <1>1, ResetStep DEF StagedIsCurrent
    <2> QED
      BY <1>1, <2>1, <2>2, ResetStep DEF PublicationInv, PublicationFits
  <1>2. ASSUME NEW c \in Choices, Choose(c) PROVE PublicationInv'
    <2>1. ConnectedHere'
      BY <1>0, <1>2 DEF Choose, ConnectedHere, TorReady
    <2> QED
      BY <1>0, <1>1, <1>2, <2>1 DEF Choose, TypeOK
  <1>3. CASE EditEndpoints
    <2>1. ConnectedHere'
      BY <1>0, <1>3 DEF EditEndpoints, ConnectedHere, TorReady, Profile
    <2> QED
      BY <1>0, <1>1, <1>3, <2>1 DEF EditEndpoints, TypeOK, Nets, StagedIsCurrent
  <1>4. CASE ChangeProfile
    <2>1. ConnectedHere'
      BY <1>4 DEF ChangeProfile, ConnectedHere
    <2>2. torConsent' \in BOOLEAN
      BY <1>4 DEF ChangeProfile
    <2> QED
      BY <1>0, <1>1, <1>4, <2>1, <2>2 DEF ChangeProfile, TypeOK, Nets, StagedIsCurrent
  <1>5. CASE WithdrawTor
    <2>1. ConnectedHere'
      BY <1>5 DEF WithdrawTor, ConnectedHere
    <2>2. torConsent' \in BOOLEAN
      BY <1>5 DEF WithdrawTor
    <2> QED
      BY <1>0, <1>1, <1>5, <2>1, <2>2 DEF WithdrawTor, TypeOK, StagedIsCurrent
  <1>6. CASE ChangeMethod
    <2>1. ConnectedHere'
      BY <1>6 DEF ChangeMethod, ConnectedHere
    <2> QED
      BY <1>0, <1>1, <1>6, <2>1 DEF ChangeMethod, TypeOK, StagedIsCurrent
  <1>7. CASE EditKey
    <2>1. ConnectedHere'
      BY <1>7 DEF EditKey, ConnectedHere
    <2> QED
      BY <1>0, <1>1, <1>7, <2>1 DEF EditKey, TypeOK, StagedIsCurrent
  <1>8. CASE ConfirmTor
    <2>1. UNCHANGED <<choice, net, method, consents, pubkey, inspected, staged, controllers, request, tasks>> /\ torConsent'
      BY <1>8 DEF ConfirmTor
    <2>2. TypeOK'
      BY <1>0, <1>8 DEF ConfirmTor, TypeOK, staged, controllers
    <2>3. StagedIsCurrent' /\ ConnectedHere'
      BY <1>0, <2>1 DEF StagedIsCurrent, ConnectedHere, Now, TorReady, staged
    <2>4. HandlersInv' /\ OneSigning'
      BY <1>0, <2>1 DEF HandlersInv, OneSigning, Busy, Now, TorReady, staged, controllers
    <2>5. ConsentStands' /\ SigningFits'
      BY <1>0, <2>1 DEF ConsentStands, SigningFits, RequestIsLive, NoneWaitsInVain, OrphanFits, Busy, Now, TorReady, KeyReady, staged, controllers
    <2> QED
      BY <2>2, <2>3, <2>4, <2>5 DEF PublicationInv, PublicationFits
  <1>9. ASSUME NEW c \in Consents, Tick(c) PROVE PublicationInv'
    <2>1. UNCHANGED <<choice, net, method, torConsent, pubkey, inspected, staged, controllers, request, tasks>> /\ consents \subseteq consents'
      BY <1>9 DEF Tick, form
    <2>2. TypeOK'
      BY <1>0, <1>9 DEF Tick, TypeOK, form, staged, controllers
    <2>3. StagedIsCurrent' /\ ConnectedHere'
      BY <1>0, <2>1 DEF StagedIsCurrent, ConnectedHere, Now, TorReady, staged
    <2>4. HandlersInv' /\ OneSigning'
      BY <1>0, <2>1 DEF HandlersInv, OneSigning, Busy, Now, TorReady, staged, controllers
    <2>5. ConsentStands' /\ SigningFits'
      BY <1>0, <2>1 DEF ConsentStands, SigningFits, RequestIsLive, NoneWaitsInVain, OrphanFits, Busy, Now, TorReady, KeyReady, staged, controllers
    <2> QED
      BY <2>2, <2>3, <2>4, <2>5 DEF PublicationInv, PublicationFits
  <1>10. ASSUME NEW c \in Consents, UntickUpload(c) PROVE PublicationInv'
    BY <1>10, StopStep DEF UntickUpload, Withdrawn
  <1>11. CASE CancelUpload
    BY <1>11, StopStep DEF CancelUpload
  <1>12. CASE CancelSignature
    BY <1>12, StopStep DEF CancelSignature
  <1>13. CASE UntickPublish
    <2>1. UNCHANGED <<choice, net, method, torConsent, pubkey, inspected, staged, controllers, request>>
      BY <1>13 DEF UntickPublish, form
    <2>2. /\ tasks' \in TaskTable
          /\ \A s \in Slots : tasks'[s].kind = tasks[s].kind
          /\ \A s \in Slots : tasks[s].kind # None =>
               /\ Same(tasks'[s], tasks[s]) /\ tasks'[s].fresh = tasks[s].fresh /\ tasks'[s].stage = tasks[s].stage
               /\ tasks'[s].aborted <=> (tasks[s].aborted \/ s = publisher)
      <3>1. publisher \in Slots => tasks[publisher].kind # None
        BY <1>0, PublishingAssumption DEF TypeOK, Kinds
      <3> QED
        BY <1>0, <1>13, <3>1, AbortOfFacts DEF Aborts, UntickPublish
    <2>3. publisher \in Slots => publisher # request
      BY <1>0, PublishingAssumption DEF TypeOK, HandlersInv, SigningFits, RequestIsLive, Busy
    <2>4. TypeOK'
      BY <1>0, <1>13, <2>1, <2>2 DEF UntickPublish, TypeOK, TaskTable, staged, controllers
    <2>5. StagedIsCurrent' /\ ConnectedHere'
      BY <1>0, <2>1 DEF StagedIsCurrent, ConnectedHere, Now, TorReady, staged
    <2>6. HandlersInv' /\ OneSigning'
      BY <1>0, <2>1, <2>2 DEF HandlersInv, OneSigning, Busy, Now, TorReady, staged, controllers, Same
    <2>7. ConsentStands'
      <3>1. consents' = consents \ {"publish"}
        BY <1>13 DEF UntickPublish
      <3> QED
        BY <1>0, <2>1, <2>2, <3>1 DEF ConsentStands, Busy, Now, TorReady, KeyReady, staged, controllers, Same
    <2>8. SigningFits'
      <3>1. "upload" \in consents => "upload" \in consents'
        BY <1>13 DEF UntickPublish
      <3>2. KeyReady => KeyReady'
        BY <1>13, <2>1 DEF UntickPublish, KeyReady
      <3>3. TorReady => TorReady'
        BY <2>1 DEF TorReady
      <3> QED
        BY <1>0, <2>1, <2>2, <2>3, <3>1, <3>2, <3>3 DEF SigningFits, RequestIsLive, NoneWaitsInVain, OrphanFits, Busy, Same
    <2> QED
      BY <2>4, <2>5, <2>6, <2>7, <2>8 DEF PublicationInv, PublicationFits
  <1> QED
    BY <1>2, <1>3, <1>4, <1>5, <1>6, <1>7, <1>8, <1>9, <1>10, <1>11, <1>12, <1>13 DEF Edit

(* The record of a handler that starts now.                                *)
LEMMA StartedFacts ==
  ASSUME TypeOK, NEW s, NEW kind \in Kinds, NEW stage \in Stages
  PROVE  LET t == Started(s, kind, stage) IN
         /\ t \in Tasks /\ t.kind = kind /\ t.kind # None /\ t.stage = stage
         /\ t.fresh /\ ~t.aborted /\ t.of = Now /\ t.method = method /\ Now \in Made
  <1>1. Now \in Made
    BY DEF TypeOK, Now, Made
  <1> QED
    BY <1>1, PublishingAssumption DEF Started, Tasks, TypeOK

(* A free slot holds no controller and no request.                         *)
LEMMA FreeSlot ==
  ASSUME TypeOK, RequestIsLive, NEW s \in Slots, tasks[s].kind = None PROVE s \notin {inspection, uploader, publisher, request}
  BY PublishingAssumption DEF TypeOK, RequestIsLive, Busy, Kinds

(* The buttons.                                                            *)
LEMMA ClickStep == PublicationInv /\ Click => PublicationInv'
  <1> SUFFICES ASSUME PublicationInv, NEW s \in Slots, Inspect(s) \/ Connect(s) \/ Upload(s) \/ Sign(s) \/ Publish(s)
               PROVE  PublicationInv'
    BY DEF Click
  <1>0. /\ TypeOK /\ tasks \in TaskTable /\ HandlersInv /\ StagedIsCurrent /\ ConnectedHere /\ OneSigning
        /\ ConsentStands /\ SigningFits
    BY DEF PublicationInv, PublicationFits, TypeOK, TaskTable
  <1> USE PublishingAssumption
  <1>1. CASE Inspect(s)
    <2> DEFINE t == Started(s, "inspect", "local")
               r == Rejected(Outdated(AbortAll))
    <2>1. /\ r \in TaskTable
          /\ \A q \in Slots : r[q].kind # None =>
               /\ tasks[q].kind # None /\ Same(r[q], tasks[q]) /\ ~r[q].fresh
               /\ r[q].kind \in {"upload", "pool", "publish"} => r[q].aborted
               /\ r[q].kind = "publish" => r[q].stage = "sending"
               /\ r[q].stage \in {"signing", "signing2"} => r[q].method # "external"
      BY ResetFacts
    <2>2. t \in Tasks /\ t.kind = "inspect" /\ t.stage = "local" /\ t.of = Now /\ t.method = method
      BY <1>0, StartedFacts DEF Kinds, Stages
    <2>3. tasks' = [r EXCEPT ![s] = t]
      BY <1>1 DEF Inspect
    <2> HIDE DEF r, t
    <2>4. tasks' \in TaskTable /\ tasks'[s] = t /\ \A q \in Slots : q # s => tasks'[q] = r[q]
      BY <2>1, <2>2, <2>3 DEF TaskTable
    <2>5. UNCHANGED <<choice, net, method, torConsent, pubkey>> /\ Now' = Now
      BY <1>1 DEF Inspect, form, Now
    <2>6. /\ request' = None /\ inspection' = s /\ uploader' = None /\ publisher' = None /\ inspected' = None
          /\ descriptor' = None /\ pool' = None /\ signed' = None /\ consents' = {}
      BY <1>1 DEF Inspect
    <2>7. signable' = FALSE
      BY <1>1 DEF Inspect
    <2>8. TypeOK'
      BY <1>0, <2>2, <2>4, <2>5, <2>6, <2>7 DEF TypeOK, TaskTable
    <2>9. HandlersInv' /\ OneSigning'
      BY <1>0, <2>1, <2>2, <2>4, <2>5, <2>6 DEF HandlersInv, OneSigning, Busy, Same
    <2>10. StagedIsCurrent' /\ ConnectedHere'
      BY <1>0, <2>5, <2>6 DEF StagedIsCurrent, ConnectedHere, TorReady
    <2>11. ConsentStands'
      BY <2>1, <2>2, <2>4 DEF ConsentStands, Busy
    <2>12. SigningFits'
      BY <2>1, <2>2, <2>4, <2>6 DEF SigningFits, RequestIsLive, NoneWaitsInVain, OrphanFits, Busy
    <2> QED
      BY <2>8, <2>9, <2>10, <2>11, <2>12 DEF PublicationInv, PublicationFits
  <1>2. CASE Connect(s)
    <2>1. UNCHANGED <<choice, net, method, torConsent, consents, inspected, staged, controllers, request>> /\ TorReady
      BY <1>2 DEF Connect, form
    <2>2. CASE method = "external"
      <3>1. pubkey' = [net |-> net, method |-> method] /\ UNCHANGED tasks
        BY <1>2, <2>2 DEF Connect
      <3>2. pubkey' \in [net : Nets, method : Methods] /\ pubkey' # None /\ pubkey'.net = net /\ pubkey'.method = method
        BY <1>0, <3>1 DEF TypeOK
      <3>3. TypeOK'
        BY <1>0, <2>1, <3>1, <3>2 DEF TypeOK, staged, controllers
      <3>4. StagedIsCurrent' /\ ConnectedHere'
        BY <1>0, <2>1, <3>2 DEF StagedIsCurrent, ConnectedHere, Now, TorReady, staged
      <3>5. HandlersInv' /\ OneSigning'
        BY <1>0, <2>1, <3>1 DEF HandlersInv, OneSigning, Busy, Now, TorReady, staged, controllers
      <3>6. ConsentStands' /\ SigningFits'
        BY <1>0, <2>1, <3>1, <3>2 DEF ConsentStands, SigningFits, RequestIsLive, NoneWaitsInVain, OrphanFits, Busy, Now, TorReady, KeyReady, staged, controllers
      <3> QED
        BY <3>3, <3>4, <3>5, <3>6 DEF PublicationInv, PublicationFits
    <2>3. CASE method # "external"
      <3> DEFINE t == Started(s, "connect", "signing")
      <3>1. tasks' = [tasks EXCEPT ![s] = t] /\ UNCHANGED pubkey /\ tasks[s].kind = None
        BY <1>2, <2>3 DEF Connect, Busy
      <3>2. t \in Tasks /\ t.kind = "connect" /\ t.of = Now /\ t.method = method /\ method = "nip07"
        BY <1>0, <2>3, StartedFacts DEF Kinds, Stages, TypeOK, Methods
      <3> HIDE DEF t
      <3>3. tasks' \in TaskTable /\ tasks'[s] = t /\ \A q \in Slots : q # s => tasks'[q] = tasks[q]
        BY <1>0, <3>1, <3>2 DEF TaskTable
      <3>4. TypeOK'
        BY <1>0, <2>1, <3>1, <3>3, FreeSlot DEF TypeOK, TaskTable, staged, controllers, SigningFits
      <3>5. StagedIsCurrent' /\ ConnectedHere'
        BY <1>0, <2>1, <3>1 DEF StagedIsCurrent, ConnectedHere, Now, TorReady, staged
      <3>6. HandlersInv' /\ OneSigning'
        BY <1>0, <2>1, <3>2, <3>3 DEF HandlersInv, OneSigning, Busy, Now, TorReady, staged, controllers
      <3>7. ConsentStands' /\ SigningFits'
        BY <1>0, <2>1, <3>1, <3>2, <3>3 DEF ConsentStands, SigningFits, RequestIsLive, NoneWaitsInVain, OrphanFits, Busy, Now, TorReady, KeyReady, staged, controllers
      <3> QED
        BY <3>4, <3>5, <3>6, <3>7 DEF PublicationInv, PublicationFits
    <2> QED
      BY <2>2, <2>3
  <1>3. CASE Upload(s)
    <2>1. UNCHANGED <<choice, net, method, torConsent, consents, pubkey, inspected, staged, inspection, publisher>>
      BY <1>3 DEF Upload, form
    <2>2. PICK kind \in {"upload", "pool"}, stage \in {"signing", "sending"} :
            /\ tasks' = [tasks EXCEPT ![s] = Started(s, kind, stage)]
            /\ stage = "signing" => Free /\ AskedBy(s)
            /\ stage = "sending" => UNCHANGED request
      BY <1>3 DEF Upload
    <2> DEFINE t == Started(s, kind, stage)
    <2>3. t \in Tasks /\ t.kind = kind /\ t.stage = stage /\ t.fresh /\ ~t.aborted /\ t.of = Now /\ t.method = method
      BY <1>0, StartedFacts DEF Kinds, Stages
    <2>4. tasks[s].kind = None /\ uploader = None /\ uploader' = s /\ UploadAllowed
      BY <1>3 DEF Upload, Busy, UploadAllowed
    <2> HIDE DEF t
    <2>5. tasks' \in TaskTable /\ tasks'[s] = t /\ \A q \in Slots : q # s => tasks'[q] = tasks[q]
      BY <1>0, <2>2, <2>3 DEF TaskTable, t
    <2>6. request' \in {request, s}
      BY <2>2 DEF AskedBy
    <2>7. TypeOK'
      BY <1>0, <2>1, <2>3, <2>4, <2>5, <2>6, FreeSlot DEF TypeOK, TaskTable, staged, SigningFits
    <2>8. StagedIsCurrent' /\ ConnectedHere'
      BY <1>0, <2>1 DEF StagedIsCurrent, ConnectedHere, Now, TorReady, staged
    <2>9. HandlersInv' /\ OneSigning'
      BY <1>0, <2>1, <2>3, <2>4, <2>5 DEF HandlersInv, OneSigning, UploadAllowed, Busy, Now, TorReady, staged
    <2>10. ConsentStands'
      BY <1>0, <2>1, <2>3, <2>4, <2>5 DEF ConsentStands, UploadAllowed, Busy, Now, TorReady, KeyReady, staged
    <2>11. SigningFits'
      <3>1. CASE stage = "sending" \/ method # "external"
        <4>1. UNCHANGED request /\ request # s
          BY <1>0, <2>2, <2>4, <3>1, FreeSlot DEF AskedBy, SigningFits
        <4> QED
          BY <1>0, <2>1, <2>3, <2>5, <3>1, <4>1 DEF SigningFits, RequestIsLive, NoneWaitsInVain, OrphanFits, Busy, TorReady, KeyReady
      <3>2. CASE stage = "signing" /\ method = "external"
        <4>1. request = None /\ request' = s /\ t.kind # None
          BY <2>2, <2>3, <3>2 DEF AskedBy, Free, Kinds
        <4> QED
          BY <1>0, <2>3, <2>5, <3>2, <4>1 DEF SigningFits, RequestIsLive, NoneWaitsInVain, OrphanFits, Busy
      <3> QED
        BY <3>1, <3>2
    <2> QED
      BY <2>7, <2>8, <2>9, <2>10, <2>11 DEF PublicationInv, PublicationFits
  <1>4. CASE Sign(s)
    <2> DEFINE t == Started(s, "sign", "signing")
    <2>1. /\ UNCHANGED <<choice, net, method, torConsent, consents, pubkey, inspected, descriptor, pool, signed, controllers>>
          /\ Free /\ AskedBy(s) /\ signable /\ descriptor # None /\ tasks' = [tasks EXCEPT ![s] = t] /\ tasks[s].kind = None
      BY <1>4 DEF Sign, form, Busy
    <2>2. signable' = FALSE
      BY <1>4 DEF Sign
    <2>3. t \in Tasks /\ t.kind = "sign" /\ t.stage = "signing" /\ t.fresh /\ ~t.aborted /\ t.of = Now /\ t.method = method
      BY <1>0, StartedFacts DEF Kinds, Stages
    <2> HIDE DEF t
    <2>4. tasks' \in TaskTable /\ tasks'[s] = t /\ \A q \in Slots : q # s => tasks'[q] = tasks[q]
      BY <1>0, <2>1, <2>3 DEF TaskTable
    <2>5. request' \in {request, s}
      BY <2>1 DEF AskedBy
    <2>6. TypeOK'
      BY <1>0, <2>1, <2>2, <2>4, <2>5, FreeSlot DEF TypeOK, TaskTable, controllers, SigningFits
    <2>7. StagedIsCurrent' /\ ConnectedHere'
      BY <1>0, <2>1 DEF StagedIsCurrent, ConnectedHere, Now, TorReady
    <2>8. HandlersInv' /\ OneSigning'
      BY <1>0, <2>1, <2>2, <2>3, <2>4 DEF HandlersInv, OneSigning, Busy, Now, TorReady, controllers
    <2>9. ConsentStands'
      BY <1>0, <2>1, <2>3, <2>4 DEF ConsentStands, Busy, Now, TorReady, KeyReady, controllers
    <2>10. SigningFits'
      <3>1. CASE method # "external"
        <4>1. UNCHANGED request /\ request # s
          BY <1>0, <2>1, <3>1, FreeSlot DEF AskedBy, SigningFits
        <4> QED
          BY <1>0, <2>1, <2>3, <2>4, <3>1, <4>1 DEF SigningFits, RequestIsLive, NoneWaitsInVain, OrphanFits, Busy, TorReady, KeyReady
      <3>2. CASE method = "external"
        <4>1. request = None /\ request' = s /\ t.kind # None
          BY <2>1, <2>3, <3>2 DEF AskedBy, Free, Kinds
        <4> QED
          BY <1>0, <2>3, <2>4, <3>2, <4>1 DEF SigningFits, RequestIsLive, NoneWaitsInVain, OrphanFits, Busy
      <3> QED
        BY <3>1, <3>2
    <2> QED
      BY <2>6, <2>7, <2>8, <2>9, <2>10 DEF PublicationInv, PublicationFits
  <1>5. CASE Publish(s)
    <2> DEFINE t == [Started(s, "publish", "sending") EXCEPT !.of = signed]
    <2>1. /\ UNCHANGED <<choice, net, method, torConsent, consents, pubkey, inspected, staged, inspection, uploader, request>>
          /\ "publish" \in consents /\ signed # None /\ TorReady /\ publisher = None /\ publisher' = s
          /\ tasks' = [tasks EXCEPT ![s] = t] /\ tasks[s].kind = None
      BY <1>5 DEF Publish, form, Busy
    <2>2. signed = Now /\ Now \in Made
      BY <1>0, <2>1 DEF StagedIsCurrent, TypeOK, Now, Made
    <2>3. t \in Tasks /\ t.kind = "publish" /\ t.stage = "sending" /\ t.fresh /\ ~t.aborted /\ t.of = Now /\ t.method = method
      BY <1>0, <2>2, StartedFacts DEF Kinds, Stages, Tasks
    <2> HIDE DEF t
    <2>4. tasks' \in TaskTable /\ tasks'[s] = t /\ \A q \in Slots : q # s => tasks'[q] = tasks[q]
      BY <1>0, <2>1, <2>3 DEF TaskTable
    <2>5. TypeOK'
      BY <1>0, <2>1, <2>3, <2>4, FreeSlot DEF TypeOK, TaskTable, staged, SigningFits
    <2>6. StagedIsCurrent' /\ ConnectedHere'
      BY <1>0, <2>1 DEF StagedIsCurrent, ConnectedHere, Now, TorReady, staged
    <2>7. HandlersInv' /\ OneSigning'
      BY <1>0, <2>1, <2>3, <2>4 DEF HandlersInv, OneSigning, Busy, Now, TorReady, staged
    <2>8. ConsentStands'
      BY <1>0, <2>1, <2>2, <2>3, <2>4 DEF ConsentStands, Busy, Now, TorReady, KeyReady, staged
    <2>9. SigningFits'
      BY <1>0, <2>1, <2>3, <2>4 DEF SigningFits, RequestIsLive, NoneWaitsInVain, OrphanFits, Busy, TorReady, KeyReady
    <2> QED
      BY <2>5, <2>6, <2>7, <2>8, <2>9 DEF PublicationInv, PublicationFits
  <1> QED
    BY <1>1, <1>2, <1>3, <1>4, <1>5

(* A handler that returns, with what it may leave on the page.             *)
LEMMA ReturnStep ==
  ASSUME PublicationInv, NEW s \in Slots, tasks[s].kind # None, Returned(s), UNCHANGED <<form, consents>>,
         pubkey' \in {None} \cup [net : Nets, method : Methods], pubkey # None => pubkey' # None, ConnectedHere',
         inspected' = inspected \/ (inspection = s /\ inspected = None /\ inspected' \in Choices),
         descriptor' = descriptor \/ (/\ tasks[s].kind = "upload" /\ tasks[s].fresh
                                      /\ descriptor' \in [of : Made, plan : BOOLEAN]),
         pool' \in {None} \cup [of : Made, complete : BOOLEAN], signed' \in {signed, Now}, StagedIsCurrent',
         signable' = signable \/ (signable' = TRUE /\ tasks[s].fresh /\ tasks[s].kind \in {"upload", "sign"}),
         \/ request' = request /\ request # s
         \/ request = s /\ request' = None
         \/ request = s /\ request' = Orphan /\ tasks[s].kind \in {"upload", "pool"} /\ UNCHANGED <<pubkey, inspected>>
  PROVE  PublicationInv'
  <1>0. /\ TypeOK /\ tasks \in TaskTable /\ HandlersInv /\ StagedIsCurrent /\ ConnectedHere /\ OneSigning
        /\ ConsentStands /\ SigningFits
    BY DEF PublicationInv, PublicationFits, TypeOK, TaskTable
  <1> USE PublishingAssumption
  <1>1. tasks' \in TaskTable /\ tasks'[s].kind = None /\ \A q \in Slots : q # s => tasks'[q] = tasks[q]
    BY <1>0 DEF Returned, TaskTable, Idle
  <1>2. /\ inspection' = (IF inspection = s THEN None ELSE inspection)
        /\ uploader' = (IF uploader = s THEN None ELSE uploader)
        /\ publisher' = (IF publisher = s THEN None ELSE publisher)
    BY DEF Returned
  <1>3. UNCHANGED <<choice, net, method, torConsent, consents>> /\ Now' = Now /\ (TorReady' <=> TorReady) /\ Now \in Made
    BY <1>0 DEF form, Now, TorReady, TypeOK, Made
  <1>4. TypeOK'
    <2>1. signable' \in BOOLEAN
      BY <1>0 DEF TypeOK
    <2>2. request' \in Slots \cup {None, Service, Orphan}
      BY <1>0 DEF TypeOK
    <2>3. /\ inspection' \in Slots \cup {None} /\ uploader' \in Slots \cup {None} /\ publisher' \in Slots \cup {None}
          /\ inspection' # None => tasks'[inspection'].kind = "inspect"
          /\ uploader' # None => tasks'[uploader'].kind \in {"upload", "pool"}
          /\ publisher' # None => tasks'[publisher'].kind = "publish"
      BY <1>0, <1>1, <1>2 DEF TypeOK
    <2>4. descriptor' \in {None} \cup [of : Made, plan : BOOLEAN] /\ signed' \in {None} \cup Made /\ inspected' \in {None} \cup Choices
      BY <1>0, <1>3 DEF TypeOK
    <2> QED
      BY <1>0, <1>1, <1>3, <2>1, <2>2, <2>3, <2>4 DEF TypeOK, TaskTable
  <1>5. HandlersInv'
    <2> SUFFICES ASSUME NEW q \in Slots, q # s, tasks[q].kind # None
                 PROVE  LET t == tasks[q] IN
                        /\ t.fresh => /\ t.of = Now /\ t.method = method
                                      /\ t.kind = "inspect" => inspection' = q /\ inspected' = None
                                      /\ t.kind = "connect" => TorReady
                                      /\ t.kind \in {"upload", "pool"} => uploader' = q
                                      /\ t.kind = "upload" => descriptor' = None
                                      /\ t.kind = "sign" => descriptor' # None /\ ~signable'
                                      /\ t.kind = "publish" => publisher' = q
                        /\ t.kind \in {"upload", "pool"} /\ ~t.aborted => t.fresh /\ inspected' # None
                        /\ t.kind = "publish" => t.stage = "sending" /\ (~t.aborted => t.fresh)
                        /\ t.kind = "connect" => t.method = "nip07"
      BY <1>1, <1>3 DEF HandlersInv, Busy
    <2>1. tasks[q].fresh /\ tasks[q].kind = "inspect" => inspection' = q /\ inspected' = None
      BY <1>0, <1>2 DEF HandlersInv, Busy
    <2>2. tasks[q].fresh /\ tasks[q].kind \in {"upload", "pool"} => uploader' = q
      BY <1>0, <1>2 DEF HandlersInv, Busy
    <2>3. tasks[q].fresh /\ tasks[q].kind = "upload" => descriptor' = None
      BY <1>0 DEF HandlersInv, Busy
    <2>4. tasks[q].fresh /\ tasks[q].kind = "sign" => descriptor' # None
      BY <1>0 DEF HandlersInv, Busy
    <2>5. tasks[q].fresh /\ tasks[q].kind = "sign" => ~signable'
      BY <1>0 DEF HandlersInv, OneSigning, Busy
    <2>6. tasks[q].kind \in {"upload", "pool"} /\ ~tasks[q].aborted => inspected' # None
      BY <1>0 DEF HandlersInv, Busy
    <2> QED
      BY <1>0, <1>2, <2>1, <2>2, <2>3, <2>4, <2>5, <2>6 DEF HandlersInv, Busy
  <1>6. OneSigning'
    BY <1>0, <1>1 DEF OneSigning, Busy
  <1>7. ConsentStands'
    <2> SUFFICES ASSUME NEW q \in Slots, q # s, tasks[q].kind # None, ~tasks[q].aborted
                 PROVE  /\ tasks[q].kind \in {"upload", "pool"} =>
                             /\ uploader' = q /\ "upload" \in consents /\ KeyReady' /\ tasks[q].of = Now
                             /\ pubkey' # None /\ TorReady
                        /\ tasks[q].kind = "publish" =>
                             publisher' = q /\ "publish" \in consents /\ tasks[q].of = signed' /\ TorReady
      BY <1>1, <1>3 DEF ConsentStands, Busy
    <2>1. tasks[q].kind \in {"upload", "pool"} => inspected' = inspected
      BY <1>0 DEF HandlersInv, Busy
    <2>2. tasks[q].kind \in {"upload", "pool"} =>
            uploader' = q /\ "upload" \in consents /\ KeyReady' /\ tasks[q].of = Now /\ pubkey' # None /\ TorReady
      BY <1>0, <1>2, <1>3, <2>1 DEF ConsentStands, Busy, KeyReady
    <2>3. tasks[q].kind = "publish" => tasks[q].of = Now /\ tasks[q].of = signed
      BY <1>0 DEF HandlersInv, ConsentStands, Busy
    <2> QED
      BY <1>0, <1>2, <2>2, <2>3 DEF ConsentStands, Busy
  <1>8. SigningFits'
    <2>1. OrphanFits'
      <3>1. CASE request' = Orphan /\ request = s
        <4>1. tasks[s].kind \in {"upload", "pool"} /\ UNCHANGED <<pubkey, inspected>>
          BY <3>1
        <4>2. ~tasks[s].aborted /\ tasks[s].fresh /\ tasks[s].method = "external"
          BY <1>0, <3>1 DEF SigningFits, RequestIsLive
        <4>3. "upload" \in consents /\ KeyReady /\ pubkey # None /\ TorReady /\ inspected # None /\ method = "external"
          BY <1>0, <4>1, <4>2 DEF ConsentStands, HandlersInv, Busy
        <4> QED
          BY <1>3, <4>1, <4>3 DEF OrphanFits, KeyReady
      <3>2. CASE request' = Orphan /\ request = Orphan
        BY <1>0, <1>3, <3>2 DEF SigningFits, OrphanFits, KeyReady
      <3> QED
        BY <3>1, <3>2 DEF OrphanFits
    <2> QED
      BY <1>0, <1>1, <2>1 DEF SigningFits, RequestIsLive, NoneWaitsInVain, Busy
  <1> QED
    BY <1>4, <1>5, <1>6, <1>7, <1>8 DEF PublicationInv, PublicationFits

(* A handler that goes on to its next await.                               *)
LEMMA StageStep ==
  ASSUME PublicationInv, NEW s \in Slots, tasks[s].kind \in Kinds \ {"publish"}, NEW x \in Stages,
         tasks' = [tasks EXCEPT ![s].stage = x],
         UNCHANGED <<form, consents, pubkey, inspected, descriptor, signed, signable, controllers>>,
         pool' \in {None} \cup [of : Made, complete : BOOLEAN], pool' # None => pool'.of = Now,
         \/ request' = request
         \/ request = s /\ request' = None
         \/ request = None /\ request' = s
         \/ request = s /\ request' = Orphan /\ tasks[s].kind = "pool",
         request' = s => /\ x \in {"signing", "signing2"} /\ tasks[s].method = "external"
                         /\ tasks[s].fresh /\ ~tasks[s].aborted,
         x \in {"signing", "signing2"} /\ tasks[s].method = "external" => request' = s
  PROVE  PublicationInv'
  <1>0. /\ TypeOK /\ tasks \in TaskTable /\ HandlersInv /\ StagedIsCurrent /\ ConnectedHere /\ OneSigning
        /\ ConsentStands /\ SigningFits
    BY DEF PublicationInv, PublicationFits, TypeOK, TaskTable
  <1> USE PublishingAssumption
  <1>1. tasks[s] \in Tasks
    BY <1>0, TaskType
  <1>2. /\ tasks' \in TaskTable /\ \A q \in Slots : q # s => tasks'[q] = tasks[q]
        /\ Same(tasks'[s], tasks[s]) /\ tasks'[s].fresh = tasks[s].fresh /\ tasks'[s].aborted = tasks[s].aborted
        /\ tasks'[s].stage = x
    BY <1>0, <1>1 DEF TaskTable, Tasks, Same
  <1>3. UNCHANGED <<choice, net, method, torConsent, inspection, uploader, publisher>> /\ Now' = Now /\ (TorReady' <=> TorReady)
    BY DEF form, controllers, Now, TorReady
  <1>4. TypeOK'
    BY <1>0, <1>2, <1>3 DEF TypeOK, TaskTable, Same
  <1>5. StagedIsCurrent' /\ ConnectedHere'
    BY <1>0, <1>3 DEF StagedIsCurrent, ConnectedHere
  <1>6. HandlersInv' /\ OneSigning'
    BY <1>0, <1>2, <1>3 DEF HandlersInv, OneSigning, Busy, Same
  <1>7. ConsentStands'
    BY <1>0, <1>2, <1>3 DEF ConsentStands, Busy, Same, KeyReady
  <1>8. SigningFits'
    <2>1. OrphanFits'
      <3>1. CASE request' = Orphan /\ request = s
        <4>1. ~tasks[s].aborted /\ tasks[s].fresh /\ tasks[s].method = "external"
          BY <1>0, <3>1 DEF SigningFits, RequestIsLive
        <4>2. "upload" \in consents /\ KeyReady /\ pubkey # None /\ TorReady /\ inspected # None /\ method = "external"
          BY <1>0, <3>1, <4>1 DEF ConsentStands, HandlersInv, Busy
        <4> QED
          BY <1>3, <4>2 DEF OrphanFits, KeyReady
      <3>2. CASE request' = Orphan /\ request = Orphan
        BY <1>0, <1>3, <3>2 DEF SigningFits, OrphanFits, KeyReady
      <3> QED
        BY <3>1, <3>2 DEF OrphanFits
    <2> QED
      BY <1>0, <1>2, <2>1 DEF SigningFits, RequestIsLive, NoneWaitsInVain, Busy, Same
  <1> QED
    BY <1>4, <1>5, <1>6, <1>7, <1>8 DEF PublicationInv, PublicationFits

(* The handlers that go on or return.                                      *)
LEMMA GoesStep == ASSUME PublicationInv, NEW s \in Slots, Goes(s) PROVE PublicationInv'
  <1>0. /\ TypeOK /\ tasks \in TaskTable /\ HandlersInv /\ StagedIsCurrent /\ ConnectedHere /\ OneSigning
        /\ ConsentStands /\ SigningFits
    BY DEF PublicationInv, PublicationFits, TypeOK, TaskTable
  <1> USE PublishingAssumption DEF staged, controllers
  <1>1. ASSUME UNCHANGED form PROVE Now' = Now /\ (TorReady' <=> TorReady) /\ UNCHANGED <<choice, net, method, torConsent>>
    BY <1>1 DEF form, Now, TorReady
  <1>2. ASSUME UNCHANGED <<form, pubkey>> PROVE ConnectedHere'
    BY <1>0, <1>1, <1>2 DEF ConnectedHere
  <1>3. ASSUME UNCHANGED <<form, inspected, descriptor, pool, signed>> PROVE StagedIsCurrent'
    BY <1>0, <1>1, <1>3 DEF StagedIsCurrent
  <1>4. /\ pubkey \in {None} \cup [net : Nets, method : Methods] /\ pool \in {None} \cup [of : Made, complete : BOOLEAN]
        /\ signable \in BOOLEAN
    BY <1>0 DEF TypeOK
  <1>5. ASSUME NEW kind \in Kinds, NEW stage, Is(s, kind, stage)
        PROVE  /\ tasks[s].kind = kind /\ tasks[s].kind # None /\ tasks[s].stage = stage /\ tasks[s] \in Tasks
               /\ stage \notin {"signing", "signing2"} => request # s
    BY <1>0, <1>5, TaskType DEF Is, SigningFits, RequestIsLive
  <1>6. ASSUME Leaves(s), tasks[s].kind # None,
               \/ request' = request /\ request # s
               \/ request = s /\ request' = Orphan /\ tasks[s].kind = "upload"
        PROVE  PublicationInv'
    <2>1. signable' = signable \/ (signable' = TRUE /\ tasks[s].fresh /\ tasks[s].kind \in {"upload", "sign"})
      BY <1>6 DEF Leaves, SignableAfter
    <2> QED
      BY <1>2, <1>3, <1>4, <1>6, <2>1, ReturnStep DEF Leaves
  <1>7. CASE InspectionEnds(s)
    <2>1. tasks[s].kind = "inspect" /\ tasks[s].kind # None /\ tasks[s].stage = "local" /\ tasks[s] \in Tasks /\ request # s
      BY <1>5, <1>7 DEF InspectionEnds, Kinds
    <2>2. inspected' = inspected \/ (inspection = s /\ inspected = None /\ inspected' \in Choices /\ inspected' = choice)
      <3>1. CASE Current(s)
        <4>1. tasks[s].of = Now /\ inspection = s /\ inspected = None
          BY <1>0, <2>1, <3>1 DEF HandlersInv, Current, Busy
        <4> QED
          BY <1>0, <1>7, <3>1, <4>1 DEF InspectionEnds, Now, TypeOK
      <3>2. CASE ~Current(s)
        BY <1>7, <3>2 DEF InspectionEnds
      <3> QED
        BY <3>1, <3>2
    <2>3. StagedIsCurrent'
      BY <1>0, <1>1, <1>7, <2>2 DEF InspectionEnds, StagedIsCurrent
    <2> QED
      BY <1>2, <1>4, <1>7, <2>1, <2>2, <2>3, ReturnStep DEF InspectionEnds
  <1>8. CASE Connected(s)
    <2>1. tasks[s].kind = "connect" /\ tasks[s].kind # None /\ tasks[s] \in Tasks
      BY <1>5, <1>8 DEF Connected, Kinds
    <2>2. request # s
      BY <1>0, <2>1 DEF HandlersInv, SigningFits, RequestIsLive, Busy
    <2>3. ConnectedHere' /\ pubkey' \in {None} \cup [net : Nets, method : Methods] /\ (pubkey # None => pubkey' # None)
      <3>1. CASE SameSigner(s)
        <4>1. tasks[s].of = Now /\ TorReady /\ tasks[s].method = method
          BY <1>0, <2>1, <3>1 DEF HandlersInv, SameSigner, Busy
        <4>2. pubkey' = [net |-> net, method |-> method]
          BY <1>8, <3>1, <4>1 DEF Connected, Now
        <4>3. pubkey' \in [net : Nets, method : Methods] /\ pubkey'.net = net /\ pubkey'.method = method
          BY <1>0, <4>2 DEF TypeOK
        <4> QED
          BY <1>1, <1>8, <4>1, <4>3 DEF Connected, ConnectedHere
      <3>2. CASE ~SameSigner(s)
        BY <1>2, <1>4, <1>8, <3>2 DEF Connected
      <3> QED
        BY <3>1, <3>2
    <2> QED
      BY <1>3, <1>4, <1>8, <2>1, <2>2, <2>3, ReturnStep DEF Connected
  <1>9. CASE UploadSigned(s)
    <2>1. tasks[s].kind = "upload" /\ tasks[s] \in Tasks
      BY <1>5, <1>9 DEF UploadSigned, Kinds
    <2>2. request' # s /\ (request' = request \/ (request = s /\ request' = None))
      BY <1>9 DEF UploadSigned, Granted
    <2> QED
      BY <1>0, <1>4, <1>9, <2>1, <2>2, StageStep DEF UploadSigned, Stages, Kinds, StagedIsCurrent
  <1>10. CASE UploadSent(s)
    <2>1. tasks[s].kind = "upload" /\ tasks[s].kind # None /\ tasks[s] \in Tasks /\ request # s
      BY <1>5, <1>10 DEF UploadSent, Kinds
    <2>2. CASE Current(s)
      BY <1>0, <1>4, <1>10, <2>1, <2>2, StageStep DEF UploadSent, Stages, Kinds, StagedIsCurrent
    <2>3. CASE ~Current(s)
      BY <1>2, <1>3, <1>4, <1>10, <2>1, <2>3, ReturnStep DEF UploadSent
    <2> QED
      BY <2>2, <2>3
  <1>11. CASE UploadStaged(s)
    <2>1. tasks[s].kind = "upload" /\ tasks[s].kind # None /\ tasks[s] \in Tasks /\ request # s /\ tasks[s].fresh
      BY <1>5, <1>11 DEF UploadStaged, Kinds, Current
    <2>2. tasks[s].of = Now /\ Now \in Made
      BY <1>0, <2>1 DEF HandlersInv, Busy, Now, Made, TypeOK
    <2>3. descriptor' = [of |-> Now, plan |-> createHybridTorrent(Now)]
      BY <1>11, <2>2 DEF UploadStaged
    <2>4. createHybridTorrent(Now) \in BOOLEAN
      BY DEF createHybridTorrent
    <2>5. descriptor' \in [of : Made, plan : BOOLEAN] /\ descriptor'.of = Now
      BY <2>2, <2>3, <2>4
    <2>6. StagedIsCurrent'
      BY <1>0, <1>1, <1>11, <2>5 DEF UploadStaged, StagedIsCurrent
    <2> QED
      BY <1>2, <1>4, <1>11, <2>1, <2>5, <2>6, ReturnStep DEF UploadStaged
  <1>12. CASE ReceiptSigned(s)
    <2>1. tasks[s].kind = "pool" /\ tasks[s].kind # None /\ tasks[s] \in Tasks
      BY <1>5, <1>12 DEF ReceiptSigned, Kinds
    <2>2. (request' = request /\ request # s) \/ (request = s /\ request' = None)
      BY <1>12 DEF ReceiptSigned, Granted
    <2>3. CASE Current(s)
      <3>1. tasks[s].of = Now /\ Now \in Made
        BY <1>0, <2>1, <2>3 DEF HandlersInv, Busy, Now, Made, TypeOK, Current
      <3>2. pool' = [of |-> Now, complete |-> FALSE]
        BY <1>12, <2>3, <3>1 DEF ReceiptSigned
      <3>3. pool' \in [of : Made, complete : BOOLEAN] /\ pool'.of = Now
        BY <3>1, <3>2
      <3> QED
        BY <1>12, <2>1, <2>2, <2>3, <3>3, StageStep DEF ReceiptSigned, Stages, Kinds
    <2>4. CASE ~Current(s)
      BY <1>2, <1>3, <1>4, <1>12, <2>1, <2>2, <2>4, ReturnStep DEF ReceiptSigned
    <2> QED
      BY <2>3, <2>4
  <1>13. CASE PartAsked(s)
    <2>1. tasks[s].kind = "pool" /\ tasks[s].kind # None /\ tasks[s] \in Tasks /\ request # s /\ ~tasks[s].aborted
      BY <1>5, <1>13 DEF PartAsked, Kinds
    <2>2. tasks[s].fresh
      BY <1>0, <2>1 DEF HandlersInv, Busy
    <2> QED
      BY <1>0, <1>4, <1>13, <2>1, <2>2, StageStep DEF PartAsked, Stages, Kinds, StagedIsCurrent
  <1>14. CASE PartSigned(s)
    <2>1. tasks[s].kind = "pool" /\ tasks[s] \in Tasks
      BY <1>5, <1>14 DEF PartSigned, Kinds
    <2>2. request' # s /\ (request' = request \/ (request = s /\ request' = None))
      BY <1>14 DEF PartSigned, Granted
    <2> QED
      BY <1>0, <1>4, <1>14, <2>1, <2>2, StageStep DEF PartSigned, Stages, Kinds, StagedIsCurrent
  <1>15. CASE PoolEnds(s)
    <2>1. tasks[s].kind = "pool" /\ tasks[s].kind # None /\ tasks[s] \in Tasks /\ request # s
      BY <1>5, <1>15 DEF PoolEnds, Kinds
    <2>2. pool' \in {None} \cup [of : Made, complete : BOOLEAN] /\ (pool' # None => pool'.of = Now)
      <3>1. CASE Current(s)
        <4>1. tasks[s].of = Now /\ Now \in Made
          BY <1>0, <2>1, <3>1 DEF HandlersInv, Busy, Now, Made, TypeOK, Current
        <4> QED
          BY <1>15, <3>1, <4>1 DEF PoolEnds
      <3>2. CASE ~Current(s)
        BY <1>0, <1>4, <1>15, <3>2 DEF PoolEnds, StagedIsCurrent
      <3> QED
        BY <3>1, <3>2
    <2>3. StagedIsCurrent'
      BY <1>0, <1>1, <1>15, <2>2 DEF PoolEnds, StagedIsCurrent
    <2> QED
      BY <1>2, <1>4, <1>15, <2>1, <2>2, <2>3, ReturnStep DEF PoolEnds
  <1>16. ASSUME tasks[s].kind = "sign", Returned(s), signable' = SignableAfter(s),
                signed' = (IF StillSigning(s) THEN tasks[s].of ELSE signed), Granted(s),
                UNCHANGED <<form, consents, pubkey, inspected, descriptor, pool>>
         PROVE  PublicationInv'
    <2>1. signable' = signable \/ (signable' = TRUE /\ tasks[s].fresh /\ tasks[s].kind \in {"upload", "sign"})
      BY <1>16 DEF SignableAfter
    <2>2. tasks[s].kind # None /\ (StillSigning(s) => tasks[s].of = Now /\ descriptor # None)
      BY <1>0, <1>16 DEF HandlersInv, StillSigning, Busy, Kinds
    <2>3. signed' \in {signed, Now} /\ StagedIsCurrent'
      BY <1>0, <1>1, <1>16, <2>2 DEF StagedIsCurrent
    <2>4. (request' = request /\ request # s) \/ (request = s /\ request' = None)
      BY <1>16 DEF Granted
    <2> QED
      BY <1>2, <1>4, <1>16, <2>1, <2>2, <2>3, <2>4, ReturnStep
  <1>17. CASE FileEventSigned(s)
    <2>1. tasks[s].kind = "sign" /\ tasks[s].kind # None /\ tasks[s] \in Tasks /\ tasks[s].stage = "signing"
      BY <1>5, <1>17 DEF FileEventSigned, Kinds
    <2>2. CASE StillSigning(s) /\ createHybridTorrent(tasks[s].of)
      <3>1. /\ tasks' = [tasks EXCEPT ![s].stage = "signing2"]
            /\ UNCHANGED <<form, consents, pubkey, inspected, descriptor, pool, signed, signable, controllers, request>>
        BY <1>17, <2>2 DEF FileEventSigned
      <3>2. tasks[s].method = "external" => request = s
        BY <1>0, <2>1 DEF SigningFits, NoneWaitsInVain, Busy
      <3>3. request = s => tasks[s].method = "external" /\ tasks[s].fresh /\ ~tasks[s].aborted
        BY <1>0 DEF SigningFits, RequestIsLive
      <3> QED
        BY <1>0, <1>4, <2>1, <3>1, <3>2, <3>3, StageStep DEF Stages, Kinds, StagedIsCurrent
    <2>3. CASE ~(StillSigning(s) /\ createHybridTorrent(tasks[s].of))
      BY <1>16, <1>17, <2>1, <2>3 DEF FileEventSigned
    <2> QED
      BY <2>2, <2>3
  <1>18. CASE TorrentEventSigned(s)
    BY <1>16, <1>18 DEF TorrentEventSigned, Is
  <1>19. CASE PublishEnds(s)
    <2>1. tasks[s].kind # None /\ request # s
      BY <1>5, <1>19 DEF PublishEnds, Kinds
    <2> QED
      BY <1>6, <1>19, <2>1 DEF PublishEnds
  <1>20. CASE Fails(s)
    BY <1>6, <1>20 DEF Fails, Kinds
  <1>21. CASE TimesOut(s)
    <2>1. request = s /\ request' = Orphan
      BY <1>21 DEF TimesOut
    <2>2. CASE Is(s, "upload", "signing") /\ Leaves(s)
      <3>1. tasks[s].kind = "upload" /\ tasks[s].kind # None
        BY <1>5, <2>2 DEF Kinds
      <3> QED
        BY <1>6, <2>1, <2>2, <3>1
    <2>3. CASE /\ Is(s, "pool", "signing2") /\ tasks' = [tasks EXCEPT ![s].stage = "sending"]
               /\ UNCHANGED <<form, consents, pubkey, inspected, staged, controllers>>
      <3>1. tasks[s].kind = "pool"
        BY <2>3 DEF Is
      <3> QED
        BY <1>0, <1>4, <2>1, <2>3, <3>1, StageStep DEF Stages, Kinds, StagedIsCurrent
    <2> QED
      BY <1>21, <2>2, <2>3 DEF TimesOut
  <1> QED
    BY <1>7, <1>8, <1>9, <1>10, <1>11, <1>12, <1>13, <1>14, <1>15, <1>17, <1>18, <1>19, <1>20, <1>21 DEF Goes

LEMMA PublicationStep == PublicationInv /\ [Next]_vars => PublicationInv'
  <1> SUFFICES ASSUME PublicationInv, [Next]_vars PROVE PublicationInv'
    OBVIOUS
  <1>0. /\ TypeOK /\ tasks \in TaskTable /\ HandlersInv /\ StagedIsCurrent /\ ConnectedHere /\ OneSigning
        /\ ConsentStands /\ SigningFits
    BY DEF PublicationInv, PublicationFits, TypeOK, TaskTable
  <1>1. ASSUME UNCHANGED <<form, consents, pubkey, inspected, staged, controllers, tasks>>,
               request' = request \/ (request \notin Slots /\ request' \in {None, Service})
        PROVE  PublicationInv'
    <2> USE PublishingAssumption DEF form, staged, controllers
    <2>1. TypeOK'
      BY <1>0, <1>1 DEF TypeOK
    <2>2. StagedIsCurrent' /\ ConnectedHere'
      BY <1>0, <1>1 DEF StagedIsCurrent, ConnectedHere, Now, TorReady
    <2>3. HandlersInv' /\ OneSigning'
      BY <1>0, <1>1 DEF HandlersInv, OneSigning, Busy, Now, TorReady
    <2>4. ConsentStands'
      BY <1>0, <1>1 DEF ConsentStands, Busy, Now, TorReady, KeyReady
    <2>5. SigningFits'
      BY <1>0, <1>1 DEF SigningFits, RequestIsLive, NoneWaitsInVain, OrphanFits, Busy, TorReady, KeyReady
    <2> QED
      BY <2>1, <2>2, <2>3, <2>4, <2>5 DEF PublicationInv, PublicationFits
  <1>2. CASE ServiceAsks
    BY <1>1, <1>2, PublishingAssumption DEF ServiceAsks
  <1>3. CASE ServiceCancels
    <2>1. AbortOf(tasks, None) = tasks
      BY PublishingAssumption DEF AbortOf
    <2> QED
      BY <1>3, <2>1, StopStep DEF ServiceCancels
  <1>4. CASE AcceptOther
    BY <1>1, <1>4, PublishingAssumption DEF AcceptOther
  <1>5. CASE UNCHANGED vars
    BY <1>1, <1>5 DEF vars
  <1> QED
    BY <1>2, <1>3, <1>4, <1>5, EditStep, ClickStep, GoesStep DEF Next

LEMMA PublicationInit == Init => PublicationInv
  <1> SUFFICES ASSUME Init PROVE PublicationInv
    OBVIOUS
  <1> USE PublishingAssumption
  <1>1. tasks \in [Slots -> Tasks \cup {Idle}] /\ \A s \in Slots : ~Busy(s)
    BY DEF Init, Busy, Idle
  <1>2. torConsent \in BOOLEAN /\ signable \in BOOLEAN
    BY DEF Init
  <1>3. TypeOK
    BY <1>1, <1>2 DEF Init, TypeOK, Choices, Nets, Methods
  <1>4. StagedIsCurrent /\ ConnectedHere /\ OneSigning /\ HandlersInv /\ ConsentStands
    BY <1>1 DEF Init, StagedIsCurrent, ConnectedHere, OneSigning, HandlersInv, ConsentStands
  <1>5. SigningFits
    BY <1>1 DEF Init, SigningFits, RequestIsLive, NoneWaitsInVain, OrphanFits
  <1> QED
    BY <1>3, <1>4, <1>5 DEF PublicationInv, PublicationFits

LEMMA PublicationInvariance == Spec => []PublicationInv
  BY PublicationInit, PublicationStep, PTL DEF Spec

(* What is inspected, uploaded, receipted, signed and connected belongs to *)
(* the form as it is, and one signing at a time, however handlers that     *)
(* began before an edit end after it (publicationRevision and              *)
(* resetPublicationAfterInspection of src/main.ts).                        *)
THEOREM PublicationAlwaysFits == Spec => []PublicationFits
  <1>1. PublicationInv => PublicationFits
    BY DEF PublicationInv
  <1> QED
    BY <1>1, PublicationInvariance, PTL

(* Whatever may still be sent has all its consents ticked at this moment,  *)
(* for the file and the endpoints on the page (the consent listeners and   *)
(* uploadController of src/main.ts).                                       *)
THEOREM ConsentAlwaysStands == Spec => []ConsentStands
  <1>1. PublicationInv => ConsentStands
    BY DEF PublicationInv
  <1> QED
    BY <1>1, PublicationInvariance, PTL

(* The one signing panel and the handlers fit: the open request has a live *)
(* handler, or was made elsewhere, or was left by a wait that timed out    *)
(* and is still allowed; no handler waits for a request that is gone       *)
(* (abandonExternalSigning, requestExternalSignature of src/main.ts, the   *)
(* deadline of uploadToBlossom).                                           *)
THEOREM SigningAlwaysFits == Spec => []SigningFits
  <1>1. PublicationInv => SigningFits
    BY DEF PublicationInv
  <1> QED
    BY <1>1, PublicationInvariance, PTL
=============================================================================
