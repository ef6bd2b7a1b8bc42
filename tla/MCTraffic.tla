------------------------------ MODULE MCTraffic ------------------------------
(* RetrievalService under traffic that never ends: a call that has ended    *)
(* makes room for another, and the issuer makes its offers again under a    *)
(* new code.                                                                *)
EXTENDS RetrievalService

NextCall(c) ==
    /\ pc[c] \in Ended
    /\ pc' = [pc EXCEPT ![c] = "idle"]
    /\ issued' = [issued EXCEPT ![c] = <<>>]
    /\ next' = [next EXCEPT ![c] = 1]
    /\ stored' = {m \in stored : m.call # c}
    /\ UNCHANGED <<offeringVars, key, accept, offer, notified, redeemed>>

NextCode(o) ==
    /\ o \in redeemed
    /\ redeemed' = redeemed \ {o}
    /\ UNCHANGED <<offeringVars, callVars, notified, issued, next, stored>>

TrafficNext ==
    \/ Next
    \/ \E c \in Calls : NextCall(c)
    \/ \E o \in Offers : NextCode(o)

(* The time to live of the status starts again with every mark: it passes,  *)
(* or the row is marked again and again.                                    *)
Marked(k) == \E c \in Calls : key[c] = k /\ UpdateOfferingStatus(c) /\ UNCHANGED notified

TrafficSpec ==
    /\ Init /\ [][TrafficNext]_vars
    /\ IOReturns
    /\ \A k \in Keys : WF_vars(Expire(k)) \/ []<><<Marked(k)>>_vars
=============================================================================
