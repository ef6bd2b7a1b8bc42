------------------------- MODULE OfferingLifecycle -------------------------
(***************************************************************************)
(* What the service promises about an offering, without calls, stages or   *)
(* failures: it is received; some time after that its credentials reach    *)
(* the storage service, all of them; only then is it marked accepted.  The *)
(* mark is lost when the offering is sent again, is rejected or expires.   *)
(***************************************************************************)

CONSTANT Keys

VARIABLES received,   \* the keys an offering was stored for
          delivered,  \* the keys a complete batch of credentials was sent for
          accepted    \* the keys whose row is marked accepted

vars == <<received, delivered, accepted>>

Init ==
    /\ received = {}
    /\ delivered = {}
    /\ accepted = {}

Receive(k) ==
    /\ received' = received \union {k}
    /\ accepted' = accepted \ {k}
    /\ UNCHANGED delivered

Deliver(k) ==
    /\ k \in received
    /\ delivered' = delivered \union {k}
    /\ UNCHANGED <<received, accepted>>

Accept(k) ==
    /\ k \in delivered
    /\ accepted' = accepted \union {k}
    /\ UNCHANGED <<received, delivered>>

Unmark(k) ==
    /\ accepted' = accepted \ {k}
    /\ UNCHANGED <<received, delivered>>

Next == \E k \in Keys : Receive(k) \/ Deliver(k) \/ Accept(k) \/ Unmark(k)

Spec == Init /\ [][Next]_vars
=============================================================================
