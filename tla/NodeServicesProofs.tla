-------------------------- MODULE NodeServicesProofs --------------------------
(***************************************************************************)
(* Proofs about NodeServices, for any nodes, any number of actions at      *)
(* once, of terms and of request ids.  PanelFits and OrdersFit are         *)
(* inductive together: what the page shows follows from which action is    *)
(* the controller's, and what a node may have from the request id each     *)
(* action carries.                                                         *)
(***************************************************************************)
EXTENDS NodeServices, TLAPS

PanelInv == PanelFits /\ OrdersFit

LEMMA TaskType ==
  ASSUME TypeOK, NEW s \in Slots, tasks[s] # Idle \/ tasks[s].stage # "idle" PROVE tasks[s] \in Tasks
  BY DEF TypeOK, Idle

LEMMA TaskIsNotIdle == ASSUME NEW t \in Tasks PROVE t # Idle
  BY DEF Tasks, Idle

(* Superseding the action in progress leaves no fresh action, and changes  *)
(* nothing else about any of them.                                         *)
LEMMA SupersededFacts ==
  ASSUME PanelFits
  PROVE  /\ Superseded \in [Slots -> Tasks \cup {Idle}]
         /\ \A s \in Slots :
              /\ Superseded[s] = Idle <=> tasks[s] = Idle
              /\ Superseded[s] # Idle =>
                   /\ ~Superseded[s].fresh
                   /\ tasks[s].aborted => Superseded[s].aborted
                   /\ Superseded[s].op = tasks[s].op /\ Superseded[s].stage = tasks[s].stage
                   /\ Superseded[s].node = tasks[s].node /\ Superseded[s].req = tasks[s].req
                   /\ Superseded[s].answer = tasks[s].answer /\ Superseded[s].gives = tasks[s].gives
  <1> SUFFICES ASSUME NEW s \in Slots
               PROVE  /\ Superseded[s] \in Tasks \cup {Idle}
                      /\ Superseded[s] = Idle <=> tasks[s] = Idle
                      /\ Superseded[s] # Idle =>
                           /\ ~Superseded[s].fresh
                           /\ tasks[s].aborted => Superseded[s].aborted
                           /\ Superseded[s].op = tasks[s].op /\ Superseded[s].stage = tasks[s].stage
                           /\ Superseded[s].node = tasks[s].node /\ Superseded[s].req = tasks[s].req
                           /\ Superseded[s].answer = tasks[s].answer /\ Superseded[s].gives = tasks[s].gives
    BY DEF Superseded
  <1>1. CASE s = controller
    <2> DEFINE t == tasks[s]
               u == [t EXCEPT !.fresh = FALSE, !.aborted = TRUE]
    <2>1. controller # None
      BY <1>1, ServicesAssumption
    <2>2. t \in Tasks /\ Superseded[s] = u /\ t # Idle
      BY <1>1, <2>1, TaskType DEF Superseded, PanelFits, BusyFits
    <2>3. u \in Tasks
      BY <2>2 DEF Tasks
    <2>4. u # Idle
      BY <2>3, TaskIsNotIdle
    <2>5. /\ ~u.fresh /\ u.aborted /\ u.op = t.op /\ u.stage = t.stage /\ u.node = t.node /\ u.req = t.req
          /\ u.answer = t.answer /\ u.gives = t.gives
      BY <2>2 DEF Tasks
    <2> HIDE DEF u
    <2> QED
      BY <2>2, <2>3, <2>4, <2>5
  <1>2. CASE s # controller
    <2>1. Superseded[s] = tasks[s]
      BY <1>2 DEF Superseded
    <2>2. tasks[s] # Idle => ~tasks[s].fresh
      BY <1>2 DEF PanelFits, ActionsInv
    <2> QED
      BY <2>1, <2>2 DEF PanelFits, TypeOK
  <1> QED
    BY <1>1, <1>2

LEMMA NewRequestType ==
  ASSUME TypeOK, NewRequest PROVE requestId' \in 1..MaxRequest /\ requestId \in Nat /\ requestId' \in Nat
  BY ServicesAssumption DEF TypeOK, NewRequest

LEMMA BeginType ==
  ASSUME TypeOK, NEW s \in Slots, NEW op \in Ops, NEW ref, op = "recover" => ref \in Ids, Begin(s, op, ref)
  PROVE  tasks' \in [Slots -> Tasks \cup {Idle}]
  <1> DEFINE a == Asks(op, ref)
             t == [op |-> op, stage |-> IF op \in Signed THEN "signing" ELSE "asked", fresh |-> TRUE, aborted |-> FALSE,
                   node |-> a.node, req |-> a.req, answer |-> IF op = "quote" THEN offers ELSE None, gives |-> None]
  <1>1. a.node \in Nodes /\ a.req \in 0..MaxRequest
    <2>1. CASE op = "inspect"
      BY <2>1, ServicesAssumption DEF Asks, Begin, Permits, TypeOK
    <2>2. CASE op = "quote"
      BY <2>2, ServicesAssumption DEF Asks, Begin, Permits, TypeOK, At
    <2>3. CASE op \in {"pay", "check"}
      BY <2>3, ServicesAssumption DEF Asks, Begin, Permits, MayPay, TypeOK, Ids
    <2>4. CASE op = "recover"
      BY <2>4, ServicesAssumption DEF Asks, TypeOK, Ids
    <2>5. CASE op \in {"services", "offers"}
      BY <2>5, ServicesAssumption DEF Asks, TypeOK
    <2> QED
      BY <2>1, <2>2, <2>3, <2>4, <2>5 DEF Ops, Signed
  <1>2. (IF op = "quote" THEN offers ELSE None) \in {None} \cup At
    BY DEF TypeOK
  <1>3. t \in Tasks
    BY <1>1, <1>2 DEF Tasks
  <1>4. tasks' = [tasks EXCEPT ![s] = t]
    BY DEF Begin
  <1> HIDE DEF t
  <1> QED
    BY <1>3, <1>4 DEF TypeOK

LEMMA AnswersType ==
  ASSUME TypeOK, NEW s \in Slots, Answers(s)
  PROVE  /\ tasks' \in [Slots -> Tasks \cup {Idle}]
         /\ orders' \in [Ids -> {None} \cup [terms : 1..MaxTerms, state : {"quoted", "payable"}]]
  <1> DEFINE t == tasks[s]
  <1>1. t \in Tasks
    BY TaskType DEF Answers
  <1>2. PICK n \in Nodes, i \in Ids \cup {None} :
          tasks' = [tasks EXCEPT ![s].stage = "answered", ![s].gives = i,
            ![s].answer = IF t.op \in {"inspect", "offers"} THEN [node |-> n, terms |-> terms[t.node]] ELSE @]
    BY <1>1 DEF Answers, Tasks, Replies
  <1>3. [node |-> n, terms |-> terms[t.node]] \in At
    BY <1>1 DEF TypeOK, At, Tasks
  <1>4. tasks' \in [Slots -> Tasks \cup {Idle}]
    BY <1>1, <1>2, <1>3 DEF Tasks, TypeOK
  <1>5. Places(t.op, t.node, t.req)
    BY DEF Answers
  <1>6. CASE t.op = "quote" /\ orders[<<t.node, t.req>>] = None
    BY <1>1, <1>4, <1>5, <1>6 DEF Places, TypeOK, Tasks
  <1>7. CASE t.op = "pay" /\ orders[<<t.node, t.req>>] # None /\ orders[<<t.node, t.req>>].state = "quoted"
    BY <1>1, <1>4, <1>5, <1>7 DEF Places, TypeOK, Tasks
  <1>8. CASE UNCHANGED orders
    BY <1>4, <1>8 DEF TypeOK
  <1> QED
    BY <1>4, <1>5, <1>6, <1>7, <1>8 DEF Places

(* Every step keeps the types.                                             *)
LEMMA TypeStep == PanelFits /\ [Next]_vars => TypeOK'
  <1> SUFFICES ASSUME PanelFits, [Next]_vars PROVE TypeOK'
    OBVIOUS
  <1>0. TypeOK
    BY DEF PanelFits
  <1> USE <1>0 DEF form, page, outside, history
  <1>1. ASSUME Reset PROVE /\ tasks' \in [Slots -> Tasks \cup {Idle}] /\ controller' = None /\ offers' = None /\ order' = None
                           /\ listed' = {} /\ consent' = FALSE
                           /\ requestId' \in 1..MaxRequest /\ dropped' \subseteq 1..MaxRequest
    BY <1>1, SupersededFacts, NewRequestType DEF Reset, TypeOK
  <1>2. ASSUME NEW n \in Nodes, EditOrigin(n) PROVE TypeOK'
    BY <1>1, <1>2 DEF EditOrigin, TypeOK
  <1>3. ASSUME NEW n \in Nodes, Select(n) PROVE TypeOK'
    BY <1>1, <1>3 DEF Select, TypeOK
  <1>4. ASSUME NEW n \in Nodes, NewTerms(n) PROVE TypeOK'
    <2>1. terms' \in [Nodes -> 1..MaxTerms]
      BY <1>4, ServicesAssumption DEF NewTerms, TypeOK
    <2> QED
      BY <1>4, <2>1 DEF NewTerms, TypeOK
  <1>5. CASE ChangeInputs
    <2>1. tasks' \in [Slots -> Tasks \cup {Idle}] /\ requestId' \in 1..MaxRequest /\ dropped' \subseteq 1..MaxRequest
      BY <1>5, SupersededFacts, NewRequestType DEF ChangeInputs, TypeOK
    <2>2. consent' \in BOOLEAN
      BY <1>5 DEF ChangeInputs
    <2> QED
      BY <1>5, <2>1, <2>2 DEF ChangeInputs, TypeOK
  <1>6. CASE Cancel
    BY <1>6, SupersededFacts DEF Cancel, TypeOK
  <1>7. CASE Tick
    BY <1>7 DEF Tick, TypeOK
  <1>8. CASE EditKeys
    <2>1. tasks[controller] \in Tasks /\ controller \in Slots
      BY <1>8, TaskType DEF EditKeys, PanelFits, BusyFits, TypeOK
    <2>2. [tasks[controller] EXCEPT !.aborted = TRUE] \in Tasks
      BY <2>1 DEF Tasks
    <2> QED
      BY <1>8, <2>1, <2>2 DEF EditKeys, TypeOK
  <1>9. CASE UseService
    BY <1>1, <1>9 DEF UseService, TypeOK
  <1>10. ASSUME NEW s \in Slots, NEW op \in Ops, NEW ref, op = "recover" => ref \in Ids, Begin(s, op, ref) PROVE TypeOK'
    <2>1. tasks' \in [Slots -> Tasks \cup {Idle}]
      BY <1>10, BeginType
    <2>2. /\ offers' \in At \cup {None} /\ order' \in Ids \cup {None} /\ checked' \in At \cup {None}
          /\ selected' \in Nodes \cup {None}
      BY <1>10 DEF Begin, TypeOK
    <2>3. consent' \in BOOLEAN
      BY <1>10 DEF Begin, TypeOK
    <2> QED
      BY <1>10, <2>1, <2>2, <2>3 DEF Begin, TypeOK
  <1>11. ASSUME NEW s \in Slots, Sign(s) PROVE TypeOK'
    <2>1. tasks[s] \in Tasks
      BY <1>11, TaskType DEF Sign
    <2>2. [tasks[s] EXCEPT !.stage = "asked"] \in Tasks
      BY <2>1 DEF Tasks
    <2> QED
      BY <1>11, <2>2 DEF Sign, TypeOK
  <1>12. ASSUME NEW s \in Slots, Answers(s) PROVE TypeOK'
    BY <1>12, AnswersType DEF Answers, TypeOK
  <1>13. ASSUME NEW s \in Slots, Fails(s) PROVE TypeOK'
    <2>1. tasks[s] \in Tasks
      BY <1>13, TaskType DEF Fails
    <2>2. [tasks[s] EXCEPT !.fresh = FALSE, !.aborted = TRUE] \in Tasks
      BY <2>1 DEF Tasks
    <2>3. tasks' \in [Slots -> Tasks \cup {Idle}]
      BY <1>13, <2>2 DEF Fails, TypeOK
    <2>4. controller' \in Slots \cup {None}
      BY <1>13 DEF Fails, Ends, TypeOK
    <2> QED
      BY <1>13, <2>3, <2>4 DEF Fails, TypeOK
  <1>14. ASSUME NEW s \in Slots, Finishes(s) PROVE TypeOK'
    <2>1. tasks[s] \in Tasks /\ tasks[s] # Idle
      BY <1>14, TaskType DEF Finishes, Idle
    <2>2. tasks' \in [Slots -> Tasks \cup {Idle}] /\ controller' \in Slots \cup {None}
      BY <1>14 DEF Finishes, Ends, TypeOK
    <2>3. requestId' \in 1..MaxRequest
      BY <1>14, NewRequestType DEF Finishes, TypeOK
    <2>4. /\ listed' \subseteq Nodes /\ checked' \in At \cup {None} /\ offers' \in At \cup {None}
          /\ order' \in Ids \cup {None} /\ shown' \subseteq Ids
      <3>1. CASE Current(s) /\ Accepts(tasks[s])
        <4>1. /\ tasks[s].op \in {"inspect", "offers"} => tasks[s].answer \in At
              /\ tasks[s].op \in Signed => tasks[s].gives \in Ids
          BY <1>14, <2>1, <3>1 DEF Finishes, PanelFits, ActionsInv, Replies
        <4> QED
          BY <1>14, <3>1, <4>1 DEF Finishes, Writes, Shows, TypeOK
      <3>2. CASE ~(Current(s) /\ Accepts(tasks[s]))
        BY <1>14, <3>2 DEF Finishes, TypeOK
      <3> QED
        BY <3>1, <3>2
    <2>5. consent' \in BOOLEAN
      BY <1>14 DEF Finishes, Writes, TypeOK
    <2> QED
      BY <1>14, <2>2, <2>3, <2>4, <2>5 DEF Finishes, TypeOK
  <1>15. CASE UNCHANGED vars
    BY <1>15 DEF vars, TypeOK
  <1> QED
    BY <1>2, <1>3, <1>4, <1>5, <1>6, <1>7, <1>8, <1>9, <1>10, <1>11, <1>12, <1>13, <1>14, <1>15 DEF Next, Ops, Signed

(* Every step keeps the panel of one piece.                                *)
LEMMA PanelStep == PanelFits /\ [Next]_vars => PanelFits'
  <1> SUFFICES ASSUME PanelFits, [Next]_vars PROVE PanelFits'
    OBVIOUS
  <1>0. TypeOK /\ TypeOK'
    BY TypeStep DEF PanelFits
  <1> DEFINE Rest == OffersFit /\ BusyFits /\ ActionsInv
  <1> SUFFICES Rest'
    BY <1>0 DEF PanelFits
  <1> USE <1>0 DEF form, page, outside, history
  <1>1. ASSUME tasks' = Superseded, controller' = None PROVE BusyFits' /\ ActionsInv'
    <2>1. \A s \in Slots : tasks'[s] # Idle =>
             /\ ~tasks'[s].fresh /\ tasks[s] # Idle
             /\ tasks'[s].op = tasks[s].op /\ tasks'[s].stage = tasks[s].stage /\ tasks'[s].answer = tasks[s].answer
      BY <1>1, SupersededFacts
    <2> QED
      BY <1>1, <2>1 DEF PanelFits, BusyFits, ActionsInv, Current
  <1>2. ASSUME NEW n \in Nodes, EditOrigin(n) PROVE Rest'
    BY <1>1, <1>2 DEF EditOrigin, Reset, OffersFit
  <1>3. ASSUME NEW n \in Nodes, Select(n) PROVE Rest'
    BY <1>1, <1>3 DEF Select, Reset, OffersFit
  <1>4. ASSUME NEW n \in Nodes, NewTerms(n) PROVE Rest'
    BY <1>4 DEF NewTerms, PanelFits, OffersFit, BusyFits, ActionsInv, Current
  <1>5. CASE ChangeInputs
    BY <1>1, <1>5 DEF ChangeInputs, PanelFits, OffersFit
  <1>6. CASE Cancel
    BY <1>1, <1>6 DEF Cancel, PanelFits, OffersFit
  <1>7. CASE Tick
    BY <1>7 DEF Tick, PanelFits, OffersFit, BusyFits, ActionsInv, Current
  <1>8. CASE EditKeys
    <2>1. tasks[controller] \in Tasks /\ controller \in Slots
      BY <1>8, TaskType DEF EditKeys, PanelFits, BusyFits, TypeOK
    <2>2. tasks'[controller] \in Tasks /\ tasks'[controller] # Idle
      BY <1>8, <2>1, TaskIsNotIdle DEF EditKeys, TypeOK, Tasks
    <2>3. /\ tasks'[controller].aborted
          /\ tasks'[controller].fresh = tasks[controller].fresh /\ tasks'[controller].op = tasks[controller].op
          /\ tasks'[controller].stage = tasks[controller].stage /\ tasks'[controller].node = tasks[controller].node
          /\ tasks'[controller].answer = tasks[controller].answer
      BY <1>8, <2>1 DEF EditKeys, TypeOK, Tasks
    <2>4. \A s \in Slots : s # controller => tasks'[s] = tasks[s]
      BY <1>8 DEF EditKeys, TypeOK
    <2> QED
      BY <1>8, <2>1, <2>2, <2>3, <2>4 DEF EditKeys, PanelFits, OffersFit, BusyFits, ActionsInv, Current
  <1>9. CASE UseService
    BY <1>1, <1>9 DEF UseService, Reset, OffersFit
  <1>10. ASSUME NEW s \in Slots, NEW op \in Ops, NEW ref, op = "recover" => ref \in Ids, Begin(s, op, ref) PROVE Rest'
    <2>1. /\ tasks'[s].op = op /\ tasks'[s].stage \in {"signing", "asked"} /\ tasks'[s].fresh
          /\ tasks'[s].node = Asks(op, ref).node
      BY <1>10 DEF Begin, TypeOK
    <2>2. tasks'[s] # Idle
      BY <2>1 DEF Idle
    <2>3. \A q \in Slots : q # s => tasks'[q] = tasks[q] /\ (tasks[q] # Idle => ~tasks[q].fresh)
      BY <1>10, ServicesAssumption DEF Begin, TypeOK, PanelFits, ActionsInv
    <2>4. op \in {"inspect", "offers"} => offers' = None
      BY <1>10 DEF Begin, Clears
    <2>5. op = "offers" => tasks'[s].node = origin'
      BY <1>10, <2>1 DEF Begin, Asks
    <2>6. ActionsInv'
      BY <1>10, <2>1, <2>2, <2>3, <2>4, <2>5 DEF Begin, PanelFits, ActionsInv, Current
    <2>7. BusyFits'
      BY <1>10, <2>1, <2>2 DEF Begin, BusyFits
    <2>8. OffersFit'
      BY <1>10 DEF Begin, Clears, PanelFits, OffersFit
    <2> QED
      BY <2>6, <2>7, <2>8
  <1>11. ASSUME NEW s \in Slots, Sign(s) PROVE Rest'
    <2>1. tasks[s] \in Tasks /\ tasks[s] # Idle
      BY <1>11, TaskType, TaskIsNotIdle DEF Sign
    <2>2. /\ tasks'[s] # Idle /\ tasks'[s].stage = "asked" /\ tasks'[s].op = tasks[s].op
          /\ tasks'[s].fresh = tasks[s].fresh /\ tasks'[s].node = tasks[s].node
      BY <1>11, <2>1 DEF Sign, TypeOK, Tasks, Idle
    <2>3. \A q \in Slots : q # s => tasks'[q] = tasks[q]
      BY <1>11 DEF Sign, TypeOK
    <2> QED
      BY <1>11, <2>1, <2>2, <2>3 DEF Sign, PanelFits, OffersFit, BusyFits, ActionsInv, Current
  <1>12. ASSUME NEW s \in Slots, Answers(s) PROVE Rest'
    <2>1. tasks[s] \in Tasks /\ tasks[s] # Idle
      BY <1>12, TaskType, TaskIsNotIdle DEF Answers
    <2> DEFINE t == tasks[s]
    <2>2. PICK n \in Nodes, i \in (IF t.op \in Signed /\ Current(s) THEN Replies(t) ELSE {None}) :
            tasks' = [tasks EXCEPT ![s].stage = "answered", ![s].gives = i,
              ![s].answer = IF t.op \in {"inspect", "offers"} THEN [node |-> n, terms |-> terms[t.node]] ELSE @]
      BY <1>12, <2>1 DEF Answers, Tasks
    <2>3. /\ tasks'[s] # Idle /\ tasks'[s].op = t.op /\ tasks'[s].aborted = t.aborted
          /\ tasks'[s].fresh = t.fresh /\ tasks'[s].node = t.node /\ tasks'[s].req = t.req /\ tasks'[s].gives = i
      BY <2>1, <2>2 DEF TypeOK, Tasks, Idle
    <2>4. \A q \in Slots : q # s => tasks'[q] = tasks[q]
      BY <2>2 DEF TypeOK
    <2>5. t.op \in {"inspect", "offers"} => tasks'[s].answer \in At
      BY <2>1, <2>2 DEF TypeOK, Tasks, At
    <2>6. t.op \in Signed /\ Current(s)' => tasks'[s].gives \in Replies(tasks[s])'
      BY <2>2, <2>3 DEF Replies, Current
    <2>7. ActionsInv'
      BY <1>12, <2>1, <2>3, <2>4, <2>5, <2>6 DEF Answers, PanelFits, ActionsInv, Current
    <2> QED
      BY <1>12, <2>3, <2>4, <2>7 DEF Answers, PanelFits, OffersFit, BusyFits, TypeOK
  <1>13. ASSUME NEW s \in Slots, Fails(s) PROVE Rest'
    <2>1. tasks[s] \in Tasks /\ tasks[s] # Idle
      BY <1>13, TaskType, TaskIsNotIdle DEF Fails
    <2>2. tasks'[s] # Idle => ~tasks'[s].fresh /\ tasks'[s].stage = "asked"
      BY <1>13, <2>1 DEF Fails, TypeOK, Tasks
    <2>3. \A q \in Slots : q # s => tasks'[q] = tasks[q]
      BY <1>13 DEF Fails, TypeOK
    <2>4. controller' = IF tasks[s].fresh THEN None ELSE controller
      BY <1>13 DEF Fails, Ends
    <2>5. \A q \in Slots : q # s /\ tasks[q] # Idle /\ tasks[q].fresh => controller' = q
      BY <2>1, <2>4 DEF PanelFits, ActionsInv
    <2>6. ActionsInv'
      BY <1>13, <2>2, <2>3, <2>5 DEF Fails, PanelFits, ActionsInv, Current
    <2>7. BusyFits'
      BY <2>1, <2>3, <2>4 DEF PanelFits, BusyFits, ActionsInv, TypeOK
    <2> QED
      BY <1>13, <2>6, <2>7 DEF Fails, PanelFits, OffersFit
  <1>14. ASSUME NEW s \in Slots, Finishes(s) PROVE Rest'
    <2>1. tasks[s] \in Tasks /\ tasks[s] # Idle
      BY <1>14, TaskType, TaskIsNotIdle DEF Finishes
    <2>2. tasks'[s] = Idle /\ \A q \in Slots : q # s => tasks'[q] = tasks[q]
      BY <1>14 DEF Finishes, TypeOK
    <2>3. controller' = IF tasks[s].fresh THEN None ELSE controller
      BY <1>14 DEF Finishes, Ends
    <2>4. \A q \in Slots : q # s /\ tasks[q] # Idle /\ tasks[q].fresh => controller' = q /\ ~tasks[s].fresh
      BY <2>1, <2>3 DEF PanelFits, ActionsInv
    <2>5. ~tasks[s].fresh => offers' = offers
      BY <1>14 DEF Finishes, Current
    <2>6. ActionsInv'
      BY <1>14, <2>2, <2>4, <2>5 DEF Finishes, PanelFits, ActionsInv, Current
    <2>7. BusyFits'
      BY <2>1, <2>2, <2>3 DEF PanelFits, BusyFits, ActionsInv, TypeOK
    <2>8. OffersFit'
      <3>1. CASE Current(s) /\ Accepts(tasks[s])
        <4>1. tasks[s].op \in {"inspect", "offers"} => offers = None
          BY <2>1, <3>1 DEF PanelFits, ActionsInv, Current
        <4>2. tasks[s].op = "offers" => tasks[s].answer.node = origin
          BY <2>1, <3>1 DEF PanelFits, ActionsInv, Current, Accepts, validateOffers
        <4> QED
          BY <1>14, <3>1, <4>1, <4>2 DEF Finishes, Writes, Matches, PanelFits, OffersFit
      <3>2. CASE ~(Current(s) /\ Accepts(tasks[s]))
        BY <1>14, <3>2 DEF Finishes, PanelFits, OffersFit
      <3> QED
        BY <3>1, <3>2
    <2> QED
      BY <2>6, <2>7, <2>8
  <1>15. CASE UNCHANGED vars
    BY <1>15 DEF vars, PanelFits, OffersFit, BusyFits, ActionsInv, Current
  <1> QED
    BY <1>2, <1>3, <1>4, <1>5, <1>6, <1>7, <1>8, <1>9, <1>10, <1>11, <1>12, <1>13, <1>14, <1>15 DEF Next, Ops, Signed

(* NoForgottenOrder is what Accounted says of the orders.                  *)
LEMMA Unforgotten == ASSUME RequestsInv PROVE NoForgottenOrder
  <1> SUFFICES ASSUME NEW i \in Ids, orders[i] # None, i \notin shown PROVE i[2] = requestId \/ i[2] \in dropped
    BY DEF NoForgottenOrder
  <1>1. i = <<i[1], i[2]>>
    BY DEF Ids
  <1>2. Accounted(i[1], i[2])
    BY DEF RequestsInv
  <1> QED
    BY <1>1, <1>2 DEF Accounted

(* Giving up a request id that was used, or keeping one that was not, and  *)
(* stopping the action in progress, accounts for every order, also when    *)
(* the node in the form changes with it.                                   *)
LEMMA GivenUp ==
  ASSUME TypeOK, PanelFits, RequestsInv, tasks' = Superseded, NewRequest, dropped' = dropped \cup {r \in {requestId} : Used(r)},
         UNCHANGED <<orders, agreed, shown>>, order' = None
  PROVE  RequestsInv'
  <1>1. requestId \in Nat /\ requestId' \in Nat /\ requestId' = IF Used(requestId) THEN requestId + 1 ELSE requestId
    BY NewRequestType DEF NewRequest
  <1>2. \A s \in Slots : tasks'[s] # Idle =>
           /\ ~tasks'[s].fresh /\ tasks[s] # Idle /\ tasks'[s].op = tasks[s].op
           /\ tasks'[s].node = tasks[s].node /\ tasks'[s].req = tasks[s].req
    BY SupersededFacts
  <1>3. ASSUME NEW n, NEW r \in Nat, Accounted(n, r), r = requestId => Used(r) PROVE Accounted(n, r)'
    BY <1>1, <1>3 DEF Accounted
  <1>4. ASSUME NEW i \in Ids, orders[i] # None PROVE Accounted(i[1], i[2])'
    <2>1. i = <<i[1], i[2]>> /\ i[2] \in Nat /\ i[1] \in Nodes
      BY DEF Ids
    <2>2. i[2] = requestId => Used(i[2])
      BY <1>4, <2>1 DEF Used
    <2>3. Accounted(i[1], i[2])
      BY <1>4 DEF RequestsInv
    <2> QED
      BY <1>3, <2>1, <2>2, <2>3
  <1>5. ASSUME NEW s \in Slots, tasks'[s] # Idle, tasks'[s].op = "quote" PROVE Accounted(tasks[s].node, tasks[s].req)'
    <2>1. tasks[s] \in Tasks /\ tasks[s].req \in Nat /\ tasks[s] # Idle
      BY <1>2, <1>5, TaskType DEF Tasks
    <2>2. tasks[s].req = requestId => Used(tasks[s].req)
      BY <2>1 DEF Used
    <2>3. Accounted(tasks[s].node, tasks[s].req)
      BY <1>2, <1>5 DEF RequestsInv
    <2> QED
      BY <1>2, <1>3, <1>5, <2>1, <2>2, <2>3 DEF Accounted
  <1>6. \A i \in shown' : i[2] < requestId'
    <2>1. \A i \in shown : i[2] < requestId /\ i[2] \in Nat
      BY DEF RequestsInv, TypeOK, Ids
    <2> QED
      BY <1>1, <2>1
  <1>7. \A i \in Ids : orders'[i] # None => Accounted(i[1], i[2])'
    BY <1>4
  <1> QED
    BY <1>2, <1>5, <1>6, <1>7 DEF RequestsInv

(* Every step keeps orders, consents and request ids together.             *)
LEMMA OrdersStep == PanelInv /\ [Next]_vars => OrdersFit'
  <1> SUFFICES ASSUME PanelInv, [Next]_vars PROVE OrdersFit'
    OBVIOUS
  <1>0. PanelFits /\ TypeOK /\ TypeOK' /\ PaidWithConsent /\ RequestsInv
    BY TypeStep DEF PanelInv, PanelFits, OrdersFit
  <1> SUFFICES PaidWithConsent' /\ RequestsInv'
    BY Unforgotten, PTL DEF OrdersFit
  <1> USE <1>0 DEF form, page, outside, history
  <1> DEFINE Rest == PaidWithConsent /\ RequestsInv
  <1>1. ASSUME UNCHANGED <<orders, agreed>> PROVE PaidWithConsent'
    BY <1>1 DEF PaidWithConsent
  <1>2. ASSUME NEW n \in Nodes, EditOrigin(n) PROVE Rest'
    BY <1>1, <1>2, GivenUp DEF EditOrigin, Reset
  <1>3. ASSUME NEW n \in Nodes, Select(n) PROVE Rest'
    BY <1>1, <1>3, GivenUp DEF Select, Reset
  <1>4. ASSUME NEW n \in Nodes, NewTerms(n) PROVE Rest'
    BY <1>1, <1>4 DEF NewTerms, RequestsInv, Accounted
  <1>5. CASE ChangeInputs
    BY <1>1, <1>5, GivenUp DEF ChangeInputs
  <1>6. CASE Cancel
    <2>1. \A s \in Slots : tasks'[s] # Idle =>
             /\ ~tasks'[s].fresh /\ tasks[s] # Idle /\ tasks'[s].op = tasks[s].op
             /\ tasks'[s].node = tasks[s].node /\ tasks'[s].req = tasks[s].req
      BY <1>6, SupersededFacts DEF Cancel
    <2> QED
      BY <1>1, <1>6, <2>1 DEF Cancel, RequestsInv, Accounted
  <1>7. CASE Tick
    BY <1>7 DEF Tick, PaidWithConsent, RequestsInv, Accounted
  <1>8. CASE EditKeys
    <2>1. tasks[controller] \in Tasks /\ controller \in Slots /\ tasks[controller] # Idle
      BY <1>8, TaskType DEF EditKeys, PanelFits, BusyFits, TypeOK
    <2>2. /\ tasks'[controller].fresh = tasks[controller].fresh /\ tasks'[controller].op = tasks[controller].op
          /\ tasks'[controller].node = tasks[controller].node /\ tasks'[controller].req = tasks[controller].req
      BY <1>8, <2>1 DEF EditKeys, TypeOK, Tasks
    <2>3. \A s \in Slots : s # controller => tasks'[s] = tasks[s]
      BY <1>8 DEF EditKeys, TypeOK
    <2> QED
      BY <1>1, <1>8, <2>1, <2>2, <2>3 DEF EditKeys, RequestsInv, Accounted
  <1>9. CASE UseService
    BY <1>1, <1>9, GivenUp DEF UseService, Reset
  <1>10. ASSUME NEW s \in Slots, NEW op \in Ops, NEW ref, op = "recover" => ref \in Ids, Begin(s, op, ref) PROVE Rest'
    <2>1. /\ tasks'[s].op = op /\ tasks'[s].fresh
          /\ tasks'[s].node = Asks(op, ref).node /\ tasks'[s].req = Asks(op, ref).req
      BY <1>10 DEF Begin, TypeOK
    <2>2. \A q \in Slots : q # s => tasks'[q] = tasks[q]
      BY <1>10 DEF Begin, TypeOK
    <2>3. op \in {"pay", "check"} => order \in agreed /\ order \in shown /\ <<tasks'[s].node, tasks'[s].req>> = order
      BY <1>10, <2>1 DEF Begin, Permits, MayPay, Asks, RequestsInv, TypeOK, Ids
    <2>4. op = "recover" => ref \in shown /\ <<tasks'[s].node, tasks'[s].req>> = ref
      BY <1>10, <2>1 DEF Begin, References, Asks, Ids
    <2>5. op = "quote" => tasks'[s].req = requestId /\ tasks'[s].node = origin
      BY <1>10, <2>1 DEF Begin, Permits, Asks, PanelFits, OffersFit
    <2>6. order' \in {order, None} /\ (order' # None => consent' = consent)
      BY <1>10 DEF Begin
    <2>7. UNCHANGED <<origin, requestId, orders, agreed, shown, dropped>>
      BY <1>10 DEF Begin
    <2>8. ASSUME NEW q \in Slots, tasks'[q] # Idle
          PROVE  /\ tasks'[q].op \in {"pay", "check"} => <<tasks'[q].node, tasks'[q].req>> \in agreed
                 /\ tasks'[q].op \in {"pay", "check", "recover"} => <<tasks'[q].node, tasks'[q].req>> \in shown
                 /\ tasks'[q].op = "quote" =>
                      Accounted(tasks'[q].node, tasks'[q].req) /\ (tasks'[q].fresh => tasks'[q].req = requestId)
      <3>1. CASE q = s
        BY <2>1, <2>3, <2>4, <2>5, <3>1 DEF Accounted
      <3>2. CASE q # s
        BY <2>2, <2>8, <3>2 DEF RequestsInv
      <3> QED
        BY <3>1, <3>2
    <2> QED
      BY <1>1, <2>6, <2>7, <2>8 DEF RequestsInv, Accounted
  <1>11. ASSUME NEW s \in Slots, Sign(s) PROVE Rest'
    <2>1. tasks[s] \in Tasks /\ tasks[s] # Idle
      BY <1>11, TaskType, TaskIsNotIdle DEF Sign
    <2>2. /\ tasks'[s].op = tasks[s].op /\ tasks'[s].fresh = tasks[s].fresh /\ tasks'[s].node = tasks[s].node
          /\ tasks'[s].req = tasks[s].req
      BY <1>11, <2>1 DEF Sign, TypeOK, Tasks
    <2>3. \A q \in Slots : q # s => tasks'[q] = tasks[q]
      BY <1>11 DEF Sign, TypeOK
    <2> QED
      BY <1>1, <1>11, <2>1, <2>2, <2>3 DEF Sign, RequestsInv, Accounted
  <1>12. ASSUME NEW s \in Slots, Answers(s) PROVE Rest'
    <2> DEFINE t == tasks[s]
               i == <<t.node, t.req>>
    <2>1. t \in Tasks /\ t # Idle
      BY <1>12, TaskType, TaskIsNotIdle DEF Answers
    <2>2. /\ tasks'[s].op = t.op /\ tasks'[s].fresh = t.fresh /\ tasks'[s].node = t.node /\ tasks'[s].req = t.req
          /\ \A q \in Slots : q # s => tasks'[q] = tasks[q]
      BY <1>12, <2>1 DEF Answers, TypeOK, Tasks
    <2>3. t.op \in {"quote", "pay"} => i \in Ids
      <3>1. t.op = "pay" => i \in shown
        BY <2>1 DEF RequestsInv
      <3>2. t.op = "quote" => Accounted(t.node, t.req)
        BY <2>1 DEF RequestsInv
      <3>3. shown \subseteq Ids /\ dropped \subseteq 1..MaxRequest /\ requestId \in 1..MaxRequest /\ t.node \in Nodes
        BY <2>1 DEF TypeOK, Tasks
      <3> QED
        BY <3>1, <3>2, <3>3 DEF Accounted, Ids
    <2>4. /\ \A j \in Ids : j # i => orders'[j] = orders[j]
          /\ orders[i] = None /\ orders'[i] # orders[i] => t.op = "quote"
          /\ i \in Ids /\ orders'[i] # None /\ orders'[i].state = "payable" /\ orders'[i] # orders[i] => t.op = "pay"
      BY <1>12, <2>3 DEF Answers, Places, TypeOK
    <2>5. t.op = "pay" => i \in agreed
      BY <2>1 DEF RequestsInv
    <2>6. PaidWithConsent'
      BY <1>12, <2>4, <2>5 DEF PaidWithConsent, Answers
    <2>7. t.op = "quote" => Accounted(t.node, t.req)
      BY <2>1 DEF RequestsInv
    <2>8. \A j \in Ids : orders'[j] # None => Accounted(j[1], j[2])
      <3> SUFFICES ASSUME NEW j \in Ids, orders'[j] # None PROVE Accounted(j[1], j[2])
        OBVIOUS
      <3>1. CASE orders[j] # None
        BY <3>1 DEF RequestsInv
      <3>2. CASE orders[j] = None
        <4>1. j = i
          BY <2>4, <3>2
        <4>2. t.op = "quote"
          BY <2>4, <3>2, <4>1
        <4> QED
          BY <2>7, <4>1, <4>2
      <3> QED
        BY <3>1, <3>2
    <2>9. UNCHANGED <<origin, consent, order, requestId, agreed, shown, dropped>>
      BY <1>12 DEF Answers
    <2> QED
      BY <2>1, <2>2, <2>6, <2>8, <2>9 DEF RequestsInv, Accounted
  <1>13. ASSUME NEW s \in Slots, Fails(s) PROVE Rest'
    <2>1. tasks[s] \in Tasks /\ tasks[s] # Idle
      BY <1>13, TaskType, TaskIsNotIdle DEF Fails
    <2>2. tasks'[s] # Idle => /\ ~tasks'[s].fresh /\ tasks'[s].op = tasks[s].op /\ tasks'[s].node = tasks[s].node
                              /\ tasks'[s].req = tasks[s].req
      BY <1>13, <2>1 DEF Fails, TypeOK, Tasks
    <2>3. \A q \in Slots : q # s => tasks'[q] = tasks[q]
      BY <1>13 DEF Fails, TypeOK
    <2> QED
      BY <1>1, <1>13, <2>1, <2>2, <2>3 DEF Fails, RequestsInv, Accounted
  <1>14. ASSUME NEW s \in Slots, Finishes(s) PROVE Rest'
    <2> DEFINE t == tasks[s]
               i == <<t.node, t.req>>
    <2>1. t \in Tasks /\ t # Idle
      BY <1>14, TaskType, TaskIsNotIdle DEF Finishes
    <2>2. tasks'[s] = Idle /\ \A q \in Slots : q # s => tasks'[q] = tasks[q]
      BY <1>14 DEF Finishes, TypeOK
    <2>3. UNCHANGED <<origin, orders, agreed, dropped>>
      BY <1>14 DEF Finishes
    <2>4. PaidWithConsent'
      BY <1>1, <2>3
    <2>5. ASSUME Current(s), Accepts(t), t.op \in Signed PROVE t.gives = i /\ i \in Ids
      <3>1. t.gives \in Replies(t)
        BY <1>14, <2>1, <2>5 DEF Finishes, PanelFits, ActionsInv
      <3>2. t.gives \in Ids /\ t.gives = <<t.gives[1], t.gives[2]>>
        BY <3>1 DEF Replies, Ids
      <3>3. t.gives[1] = t.node /\ t.gives[2] = t.req
        BY <2>5, <3>1 DEF Accepts, Signed, validateOrder, KeepsQuote, SameReference, Replies
      <3> QED
        BY <3>2, <3>3
    <2>6. ASSUME UNCHANGED requestId, order' # None => order' \in shown /\ (consent' => order' \in agreed),
                 shown' = shown
          PROVE  RequestsInv'
      BY <2>2, <2>3, <2>6 DEF RequestsInv, Accounted
    <2>7. CASE ~(Current(s) /\ Accepts(t))
      BY <1>14, <2>4, <2>6, <2>7 DEF Finishes, UsesUp, RequestsInv
    <2>8. CASE Current(s) /\ Accepts(t) /\ t.op \notin Signed
      BY <1>14, <2>4, <2>6, <2>8 DEF Finishes, UsesUp, Writes, RequestsInv, Signed
    <2>9. CASE Current(s) /\ Accepts(t) /\ t.op \in {"pay", "check", "recover"}
      <3>1. t.gives = i /\ i \in shown /\ (t.op # "recover" => i \in agreed)
        BY <2>1, <2>5, <2>9 DEF Signed, RequestsInv
      <3>2. order' = i /\ shown' = shown /\ (consent' => t.op # "recover") /\ UNCHANGED requestId
        BY <1>14, <2>9, <3>1 DEF Finishes, UsesUp, Writes, Shows, KeepsConsent, Signed
      <3> QED
        BY <2>4, <2>6, <3>1, <3>2
    <2>10. CASE Current(s) /\ Accepts(t) /\ t.op = "quote"
      <3>1. t.gives = i /\ i \in Ids /\ t.req = requestId /\ t.node = origin
        <4>1. t.req = requestId /\ Accounted(t.node, t.req)
          BY <2>1, <2>10 DEF RequestsInv, Current
        <4>2. requestId \in Nat
          BY DEF TypeOK
        <4> QED
          BY <2>5, <2>10, <4>1, <4>2 DEF Signed, Accounted
      <3>2. requestId \in Nat /\ requestId' = requestId + 1
        <4>1. Used(requestId)
          BY <2>1, <3>1 DEF Used
        <4> QED
          BY <1>14, <2>10, <4>1 DEF Finishes, UsesUp, NewRequest, TypeOK
      <3>3. order' = i /\ shown' = shown \cup {i} /\ ~consent'
        BY <1>14, <2>10, <3>1 DEF Finishes, Writes, Shows, KeepsConsent, Signed
      <3>4. \A j \in shown' : j[2] < requestId'
        <4>1. \A j \in shown : j[2] < requestId /\ j[2] \in Nat
          BY DEF RequestsInv, TypeOK, Ids
        <4> QED
          BY <3>1, <3>2, <3>3, <4>1
      <3>5. ASSUME NEW n, NEW r \in Nat, Accounted(n, r) PROVE Accounted(n, r)'
        BY <2>3, <3>1, <3>2, <3>3, <3>5 DEF Accounted
      <3>6. \A j \in Ids : orders'[j] # None => Accounted(j[1], j[2])'
        BY <2>3, <3>5 DEF RequestsInv, Ids
      <3>7. ASSUME NEW q \in Slots, tasks'[q] # Idle
            PROVE  /\ tasks'[q].op \in {"pay", "check"} => <<tasks'[q].node, tasks'[q].req>> \in agreed'
                   /\ tasks'[q].op \in {"pay", "check", "recover"} => <<tasks'[q].node, tasks'[q].req>> \in shown'
                   /\ tasks'[q].op = "quote" =>
                        Accounted(tasks[q].node, tasks[q].req)' /\ (tasks'[q].fresh => tasks'[q].req = requestId')
        <4>1. q # s /\ tasks'[q] = tasks[q] /\ tasks[q].req \in Nat
          BY <2>2, <3>7, TaskType DEF Tasks
        <4>2. ~tasks[q].fresh
          BY <2>1, <2>10, <3>7, <4>1 DEF PanelFits, ActionsInv, Current
        <4>3. tasks[q].op = "quote" => Accounted(tasks[q].node, tasks[q].req)
          BY <3>7, <4>1 DEF RequestsInv
        <4>4. tasks[q].op = "quote" => Accounted(tasks[q].node, tasks[q].req)'
          BY <3>5, <4>1, <4>3 DEF Accounted
        <4> QED
          BY <2>3, <3>3, <3>7, <4>1, <4>2, <4>4 DEF RequestsInv
      <3> QED
        BY <2>4, <3>3, <3>4, <3>6, <3>7 DEF RequestsInv
    <2> QED
      BY <2>7, <2>8, <2>9, <2>10 DEF Signed
  <1>15. CASE UNCHANGED vars
    BY <1>1, <1>15 DEF vars, RequestsInv, Accounted
  <1> QED
    BY <1>2, <1>3, <1>4, <1>5, <1>6, <1>7, <1>8, <1>9, <1>10, <1>11, <1>12, <1>13, <1>14, <1>15 DEF Next, Ops, Signed

LEMMA PanelInit == Init => PanelInv
  <1> SUFFICES ASSUME Init PROVE PanelInv
    OBVIOUS
  <1> USE ServicesAssumption
  <1>1. TypeOK
    <2>1. requestId \in 1..MaxRequest /\ terms \in [Nodes -> 1..MaxTerms] /\ tasks \in [Slots -> Tasks \cup {Idle}]
      BY DEF Init
    <2>2. orders \in [Ids -> {None} \cup [terms : 1..MaxTerms, state : {"quoted", "payable"}]]
      BY DEF Init
    <2>3. consent \in BOOLEAN
      BY DEF Init
    <2> QED
      BY <2>1, <2>2, <2>3 DEF Init, TypeOK
  <1>2. OffersFit /\ BusyFits /\ ActionsInv
    BY DEF Init, OffersFit, BusyFits, ActionsInv
  <1>3. RequestsInv /\ PaidWithConsent
    BY DEF Init, RequestsInv, PaidWithConsent
  <1> QED
    BY <1>1, <1>2, <1>3, Unforgotten DEF PanelInv, PanelFits, OrdersFit

LEMMA PanelInvariance == Spec => []PanelInv
  <1>1. PanelInv /\ [Next]_vars => PanelInv'
    BY PanelStep, OrdersStep DEF PanelInv
  <1> QED
    BY <1>1, PanelInit, PTL DEF Spec

(* What the panel offers is of the node in the form and of the terms that  *)
(* were checked, and it is busy only with an action that is running and    *)
(* current (begin(), current() and reset() of services-ui.ts).             *)
THEOREM PanelAlwaysFits == Spec => []PanelFits
  <1>1. PanelInv => PanelFits
    BY DEF PanelInv
  <1> QED
    BY <1>1, PanelInvariance, PTL

(* No node is paid for an order the user did not agree to, and every order *)
(* a node may have made is shown, asked for again by the next quote or was *)
(* given up by an edit (requestId, orderAction() and renderOrder() of      *)
(* services-ui.ts).                                                        *)
THEOREM OrdersAlwaysFit == Spec => []OrdersFit
  <1>1. PanelInv => OrdersFit
    BY DEF PanelInv
  <1> QED
    BY <1>1, PanelInvariance, PTL

(* What was cancelled stays so, however late its answer or its signature   *)
(* comes (the checks of current() and of the signal in requestJson).       *)
THEOREM CancelledStaysOver == Spec => CancelledIsOver
  <1>1. PanelInv /\ [Next]_vars => [\A s \in Slots : Stale(s) /\ tasks'[s] = Idle => UNCHANGED <<form, page, history>>]_vars
    <2> SUFFICES ASSUME PanelInv, Next, NEW s \in Slots, Stale(s), tasks'[s] = Idle PROVE UNCHANGED <<form, page, history>>
      OBVIOUS
    <2>0. TypeOK /\ PanelFits /\ tasks[s] # Idle /\ ~Current(s)
      BY DEF PanelInv, PanelFits, Stale, Current
    <2>1. tasks' # Superseded
      BY <2>0, SupersededFacts
    <2>2. ASSUME NEW q \in Slots, Fails(q) PROVE UNCHANGED <<form, page, history>>
      BY <2>2 DEF Fails
    <2>3. ASSUME NEW q \in Slots, Finishes(q) PROVE UNCHANGED <<form, page, history>>
      <3>1. q = s
        BY <2>0, <2>3 DEF Finishes, TypeOK
      <3> QED
        BY <2>0, <2>3, <3>1 DEF Finishes, UsesUp, form, page, history
    <2>4. ASSUME NEW q \in Slots, NEW op, NEW ref, Begin(q, op, ref) PROVE FALSE
      <3>1. tasks[q] = Idle
        BY <2>4 DEF Begin
      <3> QED
        BY <2>0, <2>4, <3>1 DEF Begin, TypeOK
    <2>5. ASSUME NEW q \in Slots, Sign(q) \/ Answers(q) PROVE UNCHANGED <<form, page, history>>
      BY <2>5 DEF Sign, Answers
    <2>6. ASSUME UNCHANGED tasks PROVE FALSE
      BY <2>0, <2>6
    <2> QED
      BY <2>1, <2>2, <2>3, <2>4, <2>5, <2>6
      DEF Next, EditOrigin, Select, UseService, Reset, ChangeInputs, Cancel, Tick, EditKeys, NewTerms
  <1>2. PanelInv /\ [Next]_vars =>
          [\A s \in Slots : tasks[s] # Idle /\ tasks[s].stage = "signing" /\ tasks[s].aborted => tasks'[s].stage # "asked"]_vars
    <2> SUFFICES ASSUME PanelInv, Next, NEW s \in Slots, tasks[s] # Idle, tasks[s].stage = "signing", tasks[s].aborted
                 PROVE  tasks'[s].stage # "asked"
      OBVIOUS
    <2>0. TypeOK /\ PanelFits /\ tasks[s] \in Tasks
      BY TaskType DEF PanelInv, PanelFits
    <2>1. ASSUME tasks' = Superseded PROVE tasks'[s].stage = "signing"
      BY <2>0, <2>1, SupersededFacts
    <2>2. ASSUME NEW q \in Slots, Fails(q) \/ Finishes(q) PROVE tasks'[s].stage # "asked"
      BY <2>0, <2>2 DEF Fails, Finishes, TypeOK, Tasks, Idle
    <2>3. ASSUME NEW q \in Slots, NEW op, NEW ref, Begin(q, op, ref) PROVE tasks'[s] = tasks[s]
      BY <2>0, <2>3 DEF Begin, TypeOK
    <2>4. ASSUME NEW q \in Slots, Sign(q) PROVE tasks'[s] = tasks[s]
      BY <2>0, <2>4 DEF Sign, MayAsk, TypeOK
    <2>5. ASSUME NEW q \in Slots, Answers(q) PROVE tasks'[s] = tasks[s]
      BY <2>0, <2>5 DEF Answers, TypeOK
    <2>6. ASSUME EditKeys PROVE tasks'[s].stage = "signing"
      BY <2>0, <2>6 DEF EditKeys, TypeOK, Tasks
    <2> QED
      BY <2>1, <2>2, <2>3, <2>4, <2>5, <2>6 DEF Next, EditOrigin, Select, UseService, Reset, ChangeInputs, Cancel, Tick, NewTerms
  <1> QED
    BY <1>1, <1>2, PanelInvariance, PTL DEF Spec, CancelledIsOver, StaleAreMute, CancelledIsNotSent
=============================================================================
