---------------------------- MODULE NodeServices ----------------------------
(***************************************************************************)
(* The node services panel: selecting a storage service and buying storage *)
(* from it (src/services-ui.ts over core/checkout.ts, services-http.ts and *)
(* storage-discovery.ts).                                                  *)
(* Every button starts an asynchronous action; one is `controller`, and an *)
(* edit, a cancel or a reset makes it stale while it is still running.     *)
(*                                                                         *)
(* A node's terms are a number it may raise.  An order is known by the     *)
(* node and the request id it was asked with, which is what its quote      *)
(* digest stands for; the node answers a repeated request id with the      *)
(* order it already has.  Wording, prices and receipts are left out.       *)
(***************************************************************************)
EXTENDS Naturals

CONSTANTS
  Nodes,      \* the nodes' origins
  Slots,      \* the actions that can be running at once, stale ones included
  MaxTerms,   \* how often a node may change its terms
  MaxRequest, \* how many request ids the page may make
  None        \* the absence of an order, an offer, a service

ASSUME ServicesAssumption ==
  /\ None \notin Slots \cup Nodes
  /\ MaxTerms \in Nat \ {0} /\ MaxRequest \in Nat \ {0}

VARIABLES
  origin,      \* the Blossom server field
  listed,      \* the services shown, each with a button to select it
  selected,    \* `selectedService`: its node, or None
  checked,     \* `checkedService`: a node and the terms it described, or None
  offers,      \* `offers`: a node and its terms, or None
  order,       \* `order`: the node and request id of the order shown, or None
  requestId,   \* `requestId`
  consent,     \* the payment consent checkbox
  controller,  \* the slot of the action in progress, or None
  tasks,       \* the actions that are running, by slot
  terms,       \* each node's terms
  orders,      \* the nodes' orders
  agreed,      \* history: the orders the user has consented to pay
  shown,       \* history: the orders that were on the page, whose references are saved
  dropped      \* history: the request ids given up by an edit or a reset

form == <<origin, consent>>
page == <<listed, selected, checked, offers, order, requestId>>
outside == <<terms, orders>>
history == <<agreed, shown, dropped>>
vars == <<form, page, controller, tasks, outside, history>>

Ids == Nodes \X (1..MaxRequest)
Signed == {"quote", "pay", "check", "recover"}
Ops == Signed \cup {"services", "inspect", "offers"}
Idle == [op |-> None, stage |-> "idle"]
At == [node : Nodes, terms : 1..MaxTerms]
Tasks ==
  [op : Ops, stage : {"signing", "asked", "answered"}, fresh : BOOLEAN, aborted : BOOLEAN,
   node : Nodes, req : 0..MaxRequest, answer : {None} \cup At, gives : {None} \cup Ids]

(* The types of the page, its actions and the nodes; whatever the page     *)
(* asks for, it has a node to ask.                                         *)
TypeOK ==
  /\ origin \in Nodes /\ consent \in BOOLEAN
  /\ listed \subseteq Nodes /\ selected \in Nodes \cup {None}
  /\ checked \in At \cup {None} /\ offers \in At \cup {None}
  /\ order \in Ids \cup {None} /\ requestId \in 1..MaxRequest
  /\ controller \in Slots \cup {None} /\ tasks \in [Slots -> Tasks \cup {Idle}]
  /\ terms \in [Nodes -> 1..MaxTerms]
  /\ orders \in [Ids -> {None} \cup [terms : 1..MaxTerms, state : {"quoted", "payable"}]]
  /\ agreed \subseteq Ids /\ shown \subseteq Ids /\ dropped \subseteq 1..MaxRequest

Init ==
  /\ origin \in Nodes
  /\ listed = {} /\ selected = None /\ checked = None /\ offers = None /\ order = None
  /\ requestId = 1 /\ consent = FALSE
  /\ controller = None /\ tasks = [s \in Slots |-> Idle]
  /\ terms = [n \in Nodes |-> 1] /\ orders = [i \in Ids |-> None]
  /\ agreed = {} /\ shown = {} /\ dropped = {}

(***************************************************************************)
(* What makes the running action stale                                     *)
(***************************************************************************)

(* revision++; controller?.abort().                                        *)
Superseded ==
  [s \in Slots |-> IF s = controller THEN [tasks[s] EXCEPT !.fresh = FALSE, !.aborted = TRUE] ELSE tasks[s]]

(* A request id that is on its way or has reached a node.                  *)
Used(r) == (\E n \in Nodes : orders[<<n, r>>] # None) \/ (\E s \in Slots : tasks[s] # Idle /\ tasks[s].req = r)

(* crypto.randomUUID(): an id nobody has seen stands for any other one.    *)
NewRequest ==
  /\ requestId' = IF Used(requestId) THEN requestId + 1 ELSE requestId
  /\ requestId' \in 1..MaxRequest

(* reset(): called by main.ts whenever an endpoint, a signer, a profile, a *)
(* file or an event changes.                                               *)
Reset ==
  /\ tasks' = Superseded /\ controller' = None
  /\ offers' = None /\ order' = None /\ listed' = {}
  /\ consent' = FALSE
  /\ NewRequest /\ dropped' = dropped \cup {r \in {requestId} : Used(r)}

(* An edit of the server field, or "Use this node".                        *)
EditOrigin(n) ==
  /\ n # origin /\ origin' = n
  /\ Reset /\ selected' = None /\ checked' = None
  /\ UNCHANGED <<outside, agreed, shown>>

(* The change handler of the plan, method, issuer, renewal and refund      *)
(* inputs.                                                                 *)
ChangeInputs ==
  /\ tasks' = Superseded /\ controller' = None
  /\ order' = None /\ consent' = FALSE
  /\ NewRequest /\ dropped' = dropped \cup {r \in {requestId} : Used(r)}
  /\ UNCHANGED <<origin, listed, selected, checked, offers, outside, agreed, shown>>

(* cancel(): the button, and unticking the consent.                        *)
Cancel ==
  /\ tasks' = Superseded /\ controller' = None /\ consent' = FALSE
  /\ UNCHANGED <<origin, page, outside, history>>

Tick ==
  /\ ~consent /\ consent' = TRUE
  /\ agreed' = agreed \cup ({order} \ {None})
  /\ UNCHANGED <<origin, page, controller, tasks, outside, shown, dropped>>

(* Typing trusted keys aborts whatever action is running and does not      *)
(* forget it.                                                              *)
EditKeys ==
  /\ controller # None /\ ~tasks[controller].aborted
  /\ tasks' = [tasks EXCEPT ![controller].aborted = TRUE]
  /\ UNCHANGED <<form, page, controller, outside, history>>

(***************************************************************************)
(* Starting an action                                                      *)
(***************************************************************************)

(* Mutant: loading the terms of a service keeps the offers of before.      *)
Clears_NotInspect(op) == op \in {"services", "offers"}

(* The actions that forget the offers and the order before they ask.       *)
Clears(op) == op \in {"services", "inspect", "offers"}

(* An order to pay or to check was reviewed and consented to.              *)
MayPay == order # None /\ consent

(* What an action asks of the page before it does anything.  That a quote  *)
(* has run out only keeps an order from being paid, and is left out.       *)
Permits(op) ==
  CASE op = "inspect" -> selected # None
    [] op = "offers" -> selected = None \/ checked # None
    [] op = "quote" -> offers # None
    [] op \in {"pay", "check"} -> MayPay
    [] OTHER -> TRUE

(* Where an action's request goes, and about which order.                  *)
Asks(op, ref) ==
  CASE op = "inspect" -> [node |-> selected, req |-> 0]
    [] op = "quote" -> [node |-> offers.node, req |-> requestId]
    [] op \in {"pay", "check"} -> [node |-> order[1], req |-> order[2]]
    [] op = "recover" -> [node |-> ref[1], req |-> ref[2]]
    [] OTHER -> [node |-> origin, req |-> 0]

(* parseOrderReference(): what orderReference() gave the user to save.     *)
References == shown

(* A click: nothing happens while another action is in progress.           *)
Begin(s, op, ref) ==
  /\ controller = None /\ tasks[s] = Idle /\ Permits(op)
  /\ op = "recover" => ref \in References
  /\ controller' = s
  /\ LET a == Asks(op, ref) IN
     tasks' = [tasks EXCEPT ![s] =
       [op |-> op, stage |-> IF op \in Signed THEN "signing" ELSE "asked", fresh |-> TRUE, aborted |-> FALSE,
        node |-> a.node, req |-> a.req, answer |-> IF op = "quote" THEN offers ELSE None, gives |-> None]]
  /\ IF Clears(op)
     THEN /\ offers' = None /\ order' = None /\ consent' = FALSE
          /\ checked' = (IF op = "offers" THEN checked ELSE None)
          /\ selected' = (IF op = "services" THEN None ELSE selected)
     ELSE UNCHANGED <<offers, order, consent, checked, selected>>
  /\ UNCHANGED <<origin, listed, requestId, outside, history>>

(* A selected listing, when nothing is in progress.                        *)
Select(n) ==
  /\ controller = None /\ n \in listed
  /\ Reset /\ selected' = n /\ checked' = None
  /\ UNCHANGED <<origin, outside, agreed, shown>>

(* use-storage-service: the endpoint edit it makes resets the panel under  *)
(* its own feet, and the selection is put back.                            *)
UseService ==
  /\ controller = None /\ selected # None /\ checked # None
  /\ origin' = selected
  /\ Reset /\ UNCHANGED <<selected, checked>>
  /\ UNCHANGED <<outside, agreed, shown>>

(***************************************************************************)
(* requestJson, signed or not, and the node                                *)
(***************************************************************************)

(* The signal is looked at again when the signature comes.                 *)
MayAsk(s) == ~tasks[s].aborted

(* The signature comes and the request goes out.                           *)
Sign(s) ==
  /\ tasks[s].stage = "signing" /\ MayAsk(s)
  /\ tasks' = [tasks EXCEPT ![s].stage = "asked"]
  /\ UNCHANGED <<form, page, controller, outside, history>>

(* What a node makes of a quote request, and of a request to pay an order  *)
(* it has: it makes out an invoice, or takes the note that came with it.   *)
Places(op, n, r) ==
  LET i == <<n, r>> IN
  CASE op = "quote" /\ orders[i] = None -> orders' = [orders EXCEPT ![i] = [terms |-> terms[n], state |-> "quoted"]]
    [] op = "pay" /\ orders[i] # None /\ orders[i].state = "quoted" ->
         orders' = [orders EXCEPT ![i].state = "payable"]
    [] OTHER -> UNCHANGED orders

(* Mutant: the answer is taken whether or not the action is stale.         *)
Current_Always(s) == TRUE

(* current(), which every action calls when its awaits resolve.            *)
Current(s) == tasks[s].fresh /\ ~tasks[s].aborted

(* The orders an answer may be about: the one that was asked for, another  *)
(* one, or one in the name of another node.  A node keeps its promise of   *)
(* one order for a request id; an answer that cannot be read is a failure. *)
Replies(t) == {i \in Ids : i[2] = t.req \/ (i[1] = t.node /\ t.op # "quote")}

(* The node answers; what it describes or offers are its terms of then,    *)
(* for itself or in the name of another.  Nobody looks at the answer to an *)
(* action that is stale.                                                   *)
Answers(s) ==
  LET t == tasks[s] IN
  /\ t.stage = "asked"
  /\ Places(t.op, t.node, t.req)
  /\ \E n \in (IF t.op \in {"inspect", "offers"} /\ Current(s) THEN Nodes ELSE {t.node}),
        i \in (IF t.op \in Signed /\ Current(s) THEN Replies(t) ELSE {None}) :
       tasks' = [tasks EXCEPT ![s].stage = "answered", ![s].gives = i,
         ![s].answer = IF t.op \in {"inspect", "offers"} THEN [node |-> n, terms |-> terms[t.node]] ELSE @]
  /\ UNCHANGED <<form, page, controller, terms, history>>

(* The finally of an action: only the current one frees the panel.         *)
Ends(s) == controller' = IF tasks[s].fresh THEN None ELSE controller

(* The signer refuses, the node or the network fails, the 45 seconds are   *)
(* over or the signal was aborted.  A request that went out may still be   *)
(* on its way: it stays in its slot with nobody waiting for it.            *)
Fails(s) ==
  LET t == tasks[s] IN
  /\ t.stage \in {"signing", "asked"}
  /\ \/ tasks' = [tasks EXCEPT ![s] = Idle]
     \/ /\ t.stage = "asked" /\ t.op \in {"quote", "pay"} /\ t.fresh
        /\ tasks' = [tasks EXCEPT ![s].fresh = FALSE, ![s].aborted = TRUE]
  /\ Ends(s)
  /\ UNCHANGED <<form, page, outside, history>>

(***************************************************************************)
(* The answer                                                              *)
(***************************************************************************)

(* renderOrder(): the order an answer brings, and the invoice it may have. *)
Shows(i) == order' = i /\ shown' = shown \cup {i}

(* matchDiscoveredOffers(): a selected service's offers are those of the   *)
(* description that was looked at.                                         *)
Matches(s) == selected = None \/ checked = tasks[s].answer

(* The answers that leave the consent ticked: a new order, or new offers,  *)
(* take it away.                                                           *)
KeepsConsent(s) == tasks[s].op \notin {"quote", "recover"} /\ (tasks[s].op = "offers" => ~Matches(s))

(* What is written.  The directory may list any of the nodes; the user     *)
(* selects some or none.                                                   *)
Writes(s) ==
  LET t == tasks[s] IN
  /\ listed' = IF t.op = "services" THEN Nodes ELSE listed
  /\ checked' = IF t.op = "inspect" THEN t.answer ELSE checked
  /\ offers' = IF t.op = "offers" /\ Matches(s) THEN t.answer ELSE offers
  /\ IF t.op \in Signed THEN Shows(t.gives) ELSE UNCHANGED <<order, shown>>
  /\ consent' = (consent /\ KeepsConsent(s))

(* fetchServiceDescription: the description is bound to the origin.        *)
Describes(t) == t.answer.node = t.node

validateOffers(t) == t.answer.node = t.node

(* Whole, consistent, and a quote of the node that was asked.              *)
validateOrder(t) == t.gives[1] = t.node

(* createOrder: the quote has the terms of the offer it was asked for.     *)
SameTerms(t) == orders[t.gives].terms = t.answer.terms

(* orderAction: the order is still the one that was on the page.           *)
KeepsQuote(t) == t.gives[2] = t.req

(* recoverOrder: it is the order of the reference, if the node has it.     *)
SameReference(t) == t.gives[2] = t.req /\ orders[t.gives] # None

(* What each action asks of its answer before the page takes it.           *)
Accepts(t) ==
  CASE t.op = "inspect" -> Describes(t)
    [] t.op = "offers" -> validateOffers(t)
    [] t.op = "quote" -> validateOrder(t) /\ SameTerms(t)
    [] t.op \in {"pay", "check"} -> validateOrder(t) /\ KeepsQuote(t)
    [] t.op = "recover" -> validateOrder(t) /\ SameReference(t)
    [] OTHER -> TRUE

(* Mutant: the request id is renewed before the quote is looked at.        *)
UsesUp_Unseen(s) == Current(s) /\ tasks[s].op = "quote"

(* A request id is used up by the quote it brought, once that is accepted. *)
UsesUp(s) == Current(s) /\ Accepts(tasks[s]) /\ tasks[s].op = "quote"

Finishes(s) ==
  /\ tasks[s].stage = "answered"
  /\ tasks' = [tasks EXCEPT ![s] = Idle] /\ Ends(s)
  /\ IF Current(s) /\ Accepts(tasks[s])
     THEN Writes(s) ELSE UNCHANGED <<listed, checked, offers, order, shown, consent>>
  /\ IF UsesUp(s) THEN NewRequest ELSE UNCHANGED requestId
  /\ UNCHANGED <<origin, selected, outside, agreed, dropped>>

(***************************************************************************)
(* The node                                                                *)
(***************************************************************************)

NewTerms(n) ==
  /\ terms[n] < MaxTerms
  /\ terms' = [terms EXCEPT ![n] = @ + 1]
  /\ UNCHANGED <<form, page, controller, tasks, orders, history>>

Next ==
  \/ \E n \in Nodes : EditOrigin(n) \/ Select(n) \/ NewTerms(n)
  \/ ChangeInputs \/ Cancel \/ Tick \/ EditKeys \/ UseService
  \/ \E s \in Slots, op \in Ops \ {"recover"} : Begin(s, op, None)
  \/ \E s \in Slots, i \in Ids : Begin(s, "recover", i)
  \/ \E s \in Slots : Sign(s) \/ Answers(s) \/ Fails(s) \/ Finishes(s)

Spec == Init /\ [][Next]_vars

(***************************************************************************)
(* Properties                                                              *)
(***************************************************************************)

(* An order is paid, by a note or through its invoice, only if the user    *)
(* ticked the consent while that order was on the page: not the order      *)
(* before it, nor one that came while the box was ticked.                  *)
PaidWithConsent == \A i \in Ids : orders[i] # None /\ orders[i].state = "payable" => i \in agreed

(* "Keep the identifier stable while the outcome is unknown so a timeout   *)
(* can safely recover the same order": an order the page has never shown   *)
(* is the one its next quote request will bring, unless it was given up.   *)
NoForgottenOrder ==
  \A i \in Ids : orders[i] # None /\ i \notin shown => i[2] = requestId \/ i[2] \in dropped

(* The offers are those of the node in the form, and of the service terms  *)
(* that were checked if a service is selected.                             *)
OffersFit ==
  offers # None =>
    /\ offers.node = origin
    /\ selected # None => checked = offers

(* The panel is busy with an action that is running and current.           *)
BusyFits == controller # None => tasks[controller] # Idle /\ tasks[controller].fresh

(* An action that is no longer the page's.                                 *)
Stale(s) == tasks[s] # Idle /\ (~tasks[s].fresh \/ tasks[s].aborted)

(* An action the user cancelled, or that an edit overtook, changes nothing *)
(* on the page whenever its answer comes.                                  *)
StaleAreMute ==
  [][\A s \in Slots : Stale(s) /\ tasks'[s] = Idle => UNCHANGED <<form, page, history>>]_vars

(* Once cancelled before it was signed, a request is never sent.           *)
CancelledIsNotSent ==
  [][\A s \in Slots : tasks[s] # Idle /\ tasks[s].stage = "signing" /\ tasks[s].aborted => tasks'[s].stage # "asked"]_vars

(* The one fresh action is the controller's; while it loads terms or       *)
(* offers the page has no offers, and the node it asked for offers is the  *)
(* one in the form.  An answer that counts is of the kind that was asked.  *)
ActionsInv ==
  \A s \in Slots : LET t == tasks[s] IN t # Idle =>
    /\ t.fresh => /\ controller = s
                  /\ t.op \in {"inspect", "offers"} => offers = None
                  /\ t.op = "offers" => t.node = origin
    /\ t.stage = "answered" /\ t.op \in {"inspect", "offers"} => t.answer \in At
    /\ t.stage = "answered" /\ t.op \in Signed /\ Current(s) => t.gives \in Replies(t)

(* Node n may have an order for the request id r: r is the page's id and n *)
(* the node in the form, or r was used up by a quote or given up.          *)
Accounted(n, r) ==
  \/ r = requestId /\ n = origin
  \/ r < requestId /\ (<<n, r>> \in shown \/ r \in dropped)

(* Every order a node has or may yet make is accounted for; the order on   *)
(* the page was shown, an order to be paid agreed to, and no id of a shown *)
(* order is used again.                                                    *)
RequestsInv ==
  /\ order # None => order \in shown /\ (consent => order \in agreed)
  /\ \A i \in shown : i[2] < requestId
  /\ \A i \in Ids : orders[i] # None => Accounted(i[1], i[2])
  /\ \A s \in Slots : LET t == tasks[s] IN t # Idle =>
       /\ t.op \in {"pay", "check"} => <<t.node, t.req>> \in agreed
       /\ t.op \in {"pay", "check", "recover"} => <<t.node, t.req>> \in shown
       /\ t.op = "quote" => Accounted(t.node, t.req) /\ (t.fresh => t.req = requestId)

(* Orders and money: no order is paid without the consent given for it,    *)
(* and none that a node may have made is lost from sight.                  *)
OrdersFit == PaidWithConsent /\ NoForgottenOrder /\ RequestsInv

(* The panel is of one piece: what it offers is of the node and the terms  *)
(* it names, and it is busy only with what is current.                     *)
PanelFits == TypeOK /\ OffersFit /\ BusyFits /\ ActionsInv

(* What was cancelled stays so: no late answer changes the page, and no    *)
(* late signature sends the request.                                       *)
CancelledIsOver == StaleAreMute /\ CancelledIsNotSent
=============================================================================
