---------------------------- MODULE MCPublishing ----------------------------
(* Three handlers at once: the current one and two that were overtaken.    *)
EXTENDS Publishing

(* An outdated handler whose request is not open does nothing more than    *)
(* return: what it was started for and how far it got is not read again.   *)
(* A transfer counts once it is aborted too, for until then ConsentStands  *)
(* reads it, and a publication keeps the stage that HandlersInv reads.     *)
Overtaken(t) ==
  /\ t.kind # None /\ ~t.fresh
  /\ ~(t.stage \in {"signing", "signing2"} /\ t.method = "external")
  /\ t.kind \in {"upload", "pool", "publish"} => t.aborted

(* TLC sees overtaken handlers of a kind as one (the VIEW of the cfg file).*)
Seen(t) ==
  IF Overtaken(t)
  THEN [kind |-> t.kind, stage |-> IF t.kind = "publish" THEN t.stage ELSE None,
        method |-> IF t.kind = "connect" THEN t.method ELSE None]
  ELSE t

View == <<form, consents, pubkey, inspected, staged, controllers, request, [s \in Slots |-> Seen(tasks[s])]>>
=============================================================================
