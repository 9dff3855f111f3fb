--------------------------- MODULE MCNodeServices ---------------------------
(* Two nodes, so that the one in the form can change under an action; two *)
(* actions at once, one of them stale; two request ids, so that an edit or *)
(* a quote can use one up.                                                 *)
EXTENDS NodeServices, TLC

Alike == Permutations(Nodes) \cup Permutations(Slots)

(* An overtaken action that no node may still act on only comes to its     *)
(* end.  What it asked for and was told is not read again, but for the     *)
(* request id, the order it was about and the kind of its answer.          *)
Overtaken(t) == t # Idle /\ ~t.fresh /\ t.aborted /\ (t.op \notin {"quote", "pay"} \/ t.stage = "answered")

(* TLC sees such actions as one (the VIEW of the cfg file).                *)
Seen(t) ==
  IF Overtaken(t)
  THEN [stage |-> t.stage, req |-> t.req, node |-> IF t.req = 0 THEN None ELSE t.node,
        op |-> IF t.op \in Signed THEN t.op ELSE None,
        told |-> t.stage = "answered" /\ t.op \in {"inspect", "offers"} => t.answer \in At]
  ELSE t

View == <<form, page, controller, [s \in Slots |-> Seen(tasks[s])], outside, history>>
=============================================================================
