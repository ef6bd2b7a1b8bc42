----------------------------- MODULE Processing ----------------------------
(***************************************************************************)
(* ProcessOffering of internal/services/processing.go: an offer is vetted, *)
(* stored, and announced.                                                  *)
(***************************************************************************)
EXTENDS Calls

VARIABLE notified   \* the keys a retrieval notification was published for

(* Resolving the offer, the issuer URI check, the two OPA policies, the     *)
(* metadata fetch and ValidateOffering.  None of them changes any state of  *)
(* the service and any of them ends the call; which offers pass is left     *)
(* open.                                                                    *)
VetOffering(c) ==
    /\ At(c, "vet")
    /\ Goto(c, "store") \/ Fail(c)
    /\ UNCHANGED <<offeringVars, notified>>

(* Mutant: the error of StoreOffering is logged and not returned.           *)
StoreErrorIgnored(c) ==
    /\ At(c, "store")
    /\ \/ key[c] = NoKey /\ Fail(c) /\ UNCHANGED offeringVars
       \/ /\ key[c] \in Keys
          /\ PutOffering(key[c], offer[c]) \/ UNCHANGED offeringVars
          /\ Goto(c, "notify")
    /\ UNCHANGED notified

StoreOffering(c) ==
    /\ At(c, "store")
    /\ \/ key[c] = NoKey /\ Fail(c) /\ UNCHANGED offeringVars
       \/ /\ key[c] \in Keys
          /\ Exec(c, PutOffering(key[c], offer[c]), "notify")
    /\ UNCHANGED notified

(* notifyRetrieval.  An error of PubCtx leaves open whether the event left. *)
NotifyRetrieval(c) ==
    /\ At(c, "notify")
    /\ \/ Goto(c, "processed") /\ notified' = notified \union {key[c]}
       \/ Fail(c) /\ notified' = notified \union {key[c]}
       \/ Fail(c) /\ UNCHANGED notified
    /\ UNCHANGED offeringVars

ProcessOffering(c) == VetOffering(c) \/ StoreOffering(c) \/ NotifyRetrieval(c)
=============================================================================
