------------------------------- MODULE Calls -------------------------------
(***************************************************************************)
(* The calls that run in the service: one per REST request (a gin handler  *)
(* goroutine) and one per NATS event (handleMessage).  Each runs alone and *)
(* shares nothing with the others but the table, the issuer and the        *)
(* message bus, so a call is its own process, on whatever replica.  A call *)
(* moves from one I/O to the next; pc names the I/O it is about to do.     *)
(***************************************************************************)
EXTENDS Offerings

CONSTANTS Calls,      \* the calls that ever arrive: the bound of a model
          RestCalls,  \* those that are REST requests; the others are events
          NoKey       \* a tenant, group or request id is empty

ASSUME CallsAssumption == RestCalls \subseteq Calls /\ NoKey \notin Keys

VARIABLES pc,      \* pc[c]: where call c is
          key,     \* key[c]: the row c is about, from its path or event
          accept,  \* accept[c]: Acceptance.Accept of a clearance
          offer    \* offer[c]: the offer c carries, or has read from the row

callVars == <<pc, key, accept, offer>>

Processing == {"vet", "store", "notify"}
Clearing   == {"lookup", "delete", "token", "proof", "request", "validate",
               "publish", "update"}
Ended      == {"processed", "listed", "rejected", "accepted", "failed",
               "crashed"}
Running    == Processing \union Clearing

CallsTypeOK ==
    /\ pc \in [Calls -> {"idle"} \union Running \union Ended]
    /\ key \in [Calls -> Keys \union {NoKey}]
    /\ accept \in [Calls -> BOOLEAN]
    /\ offer \in [Calls -> Offers \union {NoOffer}]

CallsInit ==
    /\ pc = [c \in Calls |-> "idle"]
    /\ key = [c \in Calls |-> NoKey]
    /\ accept = [c \in Calls |-> FALSE]
    /\ offer = [c \in Calls |-> NoOffer]

-----------------------------------------------------------------------------
At(c, stage) == pc[c] = stage

(* The call goes on, with what it knows unchanged.                          *)
Goto(c, stage) ==
    /\ pc' = [pc EXCEPT ![c] = stage]
    /\ UNCHANGED <<key, accept, offer>>

(* Every error path ends the call: an error is returned to the REST client, *)
(* and ignored by handleMessage.                                            *)
Fail(c) == Goto(c, "failed")

(* A request or event arrives for row k and enters the service at stage.    *)
Enter(c, stage, k, a, o) ==
    /\ At(c, "idle")
    /\ pc' = [pc EXCEPT ![c] = stage]
    /\ key' = [key EXCEPT ![c] = k]
    /\ accept' = [accept EXCEPT ![c] = a]
    /\ offer' = [offer EXCEPT ![c] = o]

(* Exec of a statement whose effect is Applied: it succeeds and the call    *)
(* goes on to stage, or the driver reports an error (timeout, lost     *)
(* connection, cancelled context), whether or not the cluster applied it.   *)
Exec(c, Applied, stage) ==
    \/ Applied /\ Goto(c, stage)
    \/ Applied /\ Fail(c)
    \/ UNCHANGED offeringVars /\ Fail(c)
=============================================================================
