----------------------- MODULE RetrievalServiceProofs ----------------------
(***************************************************************************)
(* Proofs, for every value of the constants, of the safety properties of   *)
(* RetrievalService and of its refinement of OfferingLifecycle.            *)
(***************************************************************************)
EXTENDS RetrievalService, TLAPS

(* A call that has to do with a stored offering: it stored it, or found it. *)
Knows(c) == pc[c] \in {"notify"} \union (Clearing \ {"lookup"})

(* The code of offer[c] was honoured for c: c holds a token that it has not *)
(* used, or was issued credentials.                                         *)
Holds(c) == pc[c] \in {"proof", "request"} \/ Items(c) # {}

(* The id guards have passed; an offer is carried into StoreOffering.       *)
KeyInv ==
    /\ \A c \in Calls : Knows(c) => key[c] \in Keys
    /\ \A c \in Calls : pc[c] \in {"vet", "store"} => offer[c] \in Offers

(* A call that carries on with a row does so with one that was stored.      *)
ReceivedInv ==
    /\ \A c \in Calls : Knows(c) => Received(key[c])
    /\ \A k \in notified : Received(k)

(* A batch is there from the issuer's answer on, and no two calls hold the  *)
(* code of one offer.                                                       *)
TokenInv ==
    /\ \A c \in Calls : Items(c) # {} =>
          pc[c] \in {"validate", "publish", "update", "accepted", "failed",
                     "crashed"}
    /\ \A c \in Calls : Holds(c) => offer[c] \in redeemed
    /\ \A c, d \in Calls :
          Holds(c) /\ Holds(d) /\ offer[c] = offer[d] => c = d

(* What is sent belongs to a vetted batch, and the loop of StoreCredential  *)
(* has sent what lies behind it.                                            *)
LoopInv(c) ==
    /\ pc[c] \in ({"idle"} \union Running) \ {"publish", "update"} =>
          next[c] = 1
    /\ pc[c] = "publish" =>
          /\ Vetted(c)
          /\ next[c] \in Items(c)
          /\ \A i \in 1..(next[c] - 1) : Message(c, i) \in stored
    /\ pc[c] = "update" => Complete(c)

BatchInv ==
    /\ \A m \in stored : Items(m.call) # {} /\ Vetted(m.call)
    /\ \A c \in Calls : LoopInv(c)

Inv ==
    /\ TypeOK
    /\ KeyInv
    /\ ReceivedInv
    /\ TokenInv
    /\ BatchInv
    /\ AcceptedIsStored

-----------------------------------------------------------------------------
(* The sets and the tuples of variables that every step refers to.          *)
USE NoOfferAssumption, CallsAssumption, MaxBatchAssumption, PreAuthAssumption

(* A batch is a sequence of credentials.                                    *)
LEMMA BatchIndices ==
    ASSUME NEW r \in Responses
    PROVE  \E n \in Nat : r \in [1..n -> BOOLEAN] /\ DOMAIN r = 1..n
  BY DEF Responses

(* The empty sequence is a batch.                                           *)
LEMMA NoBatch == <<>> \in Responses /\ DOMAIN <<>> = {}
  <1>1. <<>> \in [1..0 -> BOOLEAN]
    OBVIOUS
  <1> QED
    BY <1>1 DEF Responses

-----------------------------------------------------------------------------
(* Every variable keeps its type.                                           *)
LEMMA TypeInit == Init => TypeOK
  BY NoBatch
     DEF Init, TypeOK, OfferingsInit, OfferingsTypeOK, CallsInit, CallsTypeOK,
         ClearanceInit, ClearanceTypeOK, Messages

LEMMA GotoType ==
    ASSUME CallsTypeOK, NEW c \in Calls,
           \E s \in Running \union Ended : Goto(c, s)
    PROVE  CallsTypeOK'
  BY DEF CallsTypeOK, Goto, Running, Processing, Clearing, Ended

LEMMA EnterType ==
    ASSUME CallsTypeOK, NEW c \in Calls, NEW s \in Running \union Ended,
           NEW k \in Keys \union {NoKey}, NEW a \in BOOLEAN,
           NEW o \in Offers \union {NoOffer}, Enter(c, s, k, a, o)
    PROVE  CallsTypeOK'
  BY DEF CallsTypeOK, Enter, Running, Processing, Clearing, Ended

LEMMA TableType ==
    ASSUME OfferingsTypeOK, NEW k \in Keys, NEW o \in Offers \union {NoOffer},
           \/ PutOffering(k, o)
           \/ DeleteRow(k)
           \/ PutStatus(k)
           \/ ExpireOffering(k)
           \/ ExpireStatus(k)
           \/ UNCHANGED offeringVars
    PROVE  OfferingsTypeOK'
  <1>1. CASE PutOffering(k, o)
    BY <1>1 DEF OfferingsTypeOK, PutOffering
  <1>2. CASE DeleteRow(k)
    BY <1>2 DEF OfferingsTypeOK, DeleteRow
  <1>3. CASE PutStatus(k)
    BY <1>3 DEF OfferingsTypeOK, PutStatus
  <1>4. CASE ExpireOffering(k)
    BY <1>4 DEF OfferingsTypeOK, ExpireOffering
  <1>5. CASE ExpireStatus(k)
    BY <1>5 DEF OfferingsTypeOK, ExpireStatus
  <1>6. CASE UNCHANGED offeringVars
    BY <1>6 DEF OfferingsTypeOK, offeringVars
  <1> QED
    BY <1>1, <1>2, <1>3, <1>4, <1>5, <1>6

LEMMA TypeStep == TypeOK /\ KeyInv /\ [Next]_vars => TypeOK'
  <1> SUFFICES ASSUME TypeOK, KeyInv, [Next]_vars PROVE TypeOK'
    OBVIOUS
  <1> USE DEF TypeOK, offeringVars, clearanceVars, Running, Processing,
              Clearing, Ended
  <1>1. ASSUME NEW c \in Calls, HandleMessage(c) PROVE TypeOK'
    <2>1. CallsTypeOK'
      BY <1>1, EnterType DEF HandleMessage
    <2> QED
      BY <1>1, <2>1 DEF HandleMessage, OfferingsTypeOK, ClearanceTypeOK
  <1>2. ASSUME NEW c \in Calls, HandleRetrieval(c) PROVE TypeOK'
    <2>1. CallsTypeOK'
      BY <1>2, EnterType DEF HandleRetrieval
    <2> QED
      BY <1>2, <2>1 DEF HandleRetrieval, OfferingsTypeOK, ClearanceTypeOK
  <1>3. ASSUME NEW c \in Calls, HandleClearance(c) PROVE TypeOK'
    <2>1. CallsTypeOK'
      BY <1>3, EnterType DEF HandleClearance
    <2> QED
      BY <1>3, <2>1 DEF HandleClearance, OfferingsTypeOK, ClearanceTypeOK
  <1>4. ASSUME NEW c \in Calls, HandleGetOffering(c) PROVE TypeOK'
    <2>1. CallsTypeOK'
      BY <1>4, EnterType DEF HandleGetOffering
    <2> QED
      BY <1>4, <2>1 DEF HandleGetOffering, OfferingsTypeOK, ClearanceTypeOK
  <1>5. ASSUME NEW c \in Calls, Drop(c) PROVE TypeOK'
    BY <1>5, GotoType DEF Drop, Fail, OfferingsTypeOK, ClearanceTypeOK
  <1>6. ASSUME NEW c \in Calls, Crash(c) PROVE TypeOK'
    BY <1>6, GotoType DEF Crash, OfferingsTypeOK, ClearanceTypeOK
  <1>7. ASSUME NEW c \in Calls, VetOffering(c), UNCHANGED clearanceVars
        PROVE TypeOK'
    BY <1>7, GotoType DEF VetOffering, Fail, OfferingsTypeOK, ClearanceTypeOK
  <1>8. ASSUME NEW c \in Calls, StoreOffering(c), UNCHANGED clearanceVars
        PROVE TypeOK'
    <2>1. CallsTypeOK'
      BY <1>8, GotoType DEF StoreOffering, Exec, Fail
    <2>2. OfferingsTypeOK'
      BY <1>8, TableType DEF StoreOffering, Exec, CallsTypeOK, OfferingsTypeOK
    <2> QED
      BY <1>8, <2>1, <2>2 DEF StoreOffering, ClearanceTypeOK
  <1>9. ASSUME NEW c \in Calls, NotifyRetrieval(c), UNCHANGED clearanceVars
        PROVE TypeOK'
    <2>1. key[c] \in Keys
      BY <1>9 DEF NotifyRetrieval, At, KeyInv, Knows
    <2> QED
      BY <1>9, <2>1, GotoType
         DEF NotifyRetrieval, Fail, OfferingsTypeOK, ClearanceTypeOK
  <1>10. ASSUME NEW c \in Calls, LookupOffering(c), UNCHANGED notified
         PROVE TypeOK'
    BY <1>10
       DEF LookupOffering, Goto, Fail, CallsTypeOK, OfferingsTypeOK,
           ClearanceTypeOK
  <1>11. ASSUME NEW c \in Calls, DeleteRejectedOffering(c), UNCHANGED notified
         PROVE TypeOK'
    <2>1. CallsTypeOK'
      BY <1>11, GotoType DEF DeleteRejectedOffering, Exec, Fail
    <2>2. key[c] \in Keys
      BY <1>11 DEF DeleteRejectedOffering, At, KeyInv, Knows
    <2>3. OfferingsTypeOK'
      BY <1>11, <2>2, TableType DEF DeleteRejectedOffering, Exec
    <2> QED
      BY <1>11, <2>1, <2>3 DEF DeleteRejectedOffering, ClearanceTypeOK
  <1>12. ASSUME NEW c \in Calls, GetToken(c), UNCHANGED notified
         PROVE TypeOK'
    BY <1>12, GotoType DEF GetToken, Fail, OfferingsTypeOK, ClearanceTypeOK
  <1>13. ASSUME NEW c \in Calls, HolderBinding(c), UNCHANGED notified
         PROVE TypeOK'
    BY <1>13, GotoType DEF HolderBinding, Fail, OfferingsTypeOK, ClearanceTypeOK
  <1>14. ASSUME NEW c \in Calls, RequestCredential(c), UNCHANGED notified
         PROVE TypeOK'
    BY <1>14, GotoType
       DEF RequestCredential, Fail, OfferingsTypeOK, ClearanceTypeOK
  <1>15. ASSUME NEW c \in Calls, ValidateCredentialResponse(c),
                UNCHANGED notified
         PROVE TypeOK'
    BY <1>15, GotoType
       DEF ValidateCredentialResponse, Fail, OfferingsTypeOK, ClearanceTypeOK
  <1>16. ASSUME NEW c \in Calls, StoreCredential(c), UNCHANGED notified
         PROVE TypeOK'
    BY <1>16, GotoType
       DEF StoreCredential, Fail, OfferingsTypeOK, ClearanceTypeOK, Messages,
           Message
  <1>17. ASSUME NEW c \in Calls, UpdateOfferingStatus(c), UNCHANGED notified
         PROVE TypeOK'
    <2>1. CallsTypeOK'
      BY <1>17, GotoType DEF UpdateOfferingStatus, Exec, Fail
    <2>2. key[c] \in Keys
      BY <1>17 DEF UpdateOfferingStatus, At, KeyInv, Knows
    <2>3. OfferingsTypeOK'
      BY <1>17, <2>2, TableType DEF UpdateOfferingStatus, Exec
    <2> QED
      BY <1>17, <2>1, <2>3 DEF UpdateOfferingStatus, ClearanceTypeOK
  <1>18. ASSUME NEW k \in Keys, Expire(k) PROVE TypeOK'
    <2>1. OfferingsTypeOK'
      BY <1>18, TableType DEF Expire
    <2> QED
      BY <1>18, <2>1 DEF Expire, callVars, CallsTypeOK, ClearanceTypeOK
  <1>19. CASE UNCHANGED vars
    BY <1>19
       DEF vars, callVars, OfferingsTypeOK, CallsTypeOK, ClearanceTypeOK
  <1> QED
    BY <1>1, <1>2, <1>3, <1>4, <1>5, <1>6, <1>7, <1>8, <1>9, <1>10, <1>11,
       <1>12, <1>13, <1>14, <1>15, <1>16, <1>17, <1>18, <1>19
       DEF Next, Arrive, Run, ProcessOffering, ClearOffering

LEMMA KeyInit == Init => KeyInv
  BY DEF Init, CallsInit, KeyInv, Knows, Clearing

(* One step moves one call on, and no call changes its key once it has      *)
(* arrived.                                                                 *)
LEMMA KeyStep == TypeOK /\ KeyInv /\ [Next]_vars => KeyInv'
  <1> SUFFICES ASSUME TypeOK, KeyInv, [Next]_vars PROVE KeyInv'
    OBVIOUS
  <1> USE DEF TypeOK, OfferingsTypeOK, CallsTypeOK, KeyInv, Knows, Clearing, At
  <1>1. ASSUME NEW c \in Calls, Arrive(c) PROVE KeyInv'
    BY <1>1 DEF Arrive, HandleMessage, HandleRetrieval, HandleClearance,
                HandleGetOffering, Drop, Enter, Goto, Fail
  <1>2. ASSUME NEW c \in Calls, Crash(c) PROVE KeyInv'
    BY <1>2 DEF Crash, Goto
  <1>3. ASSUME NEW c \in Calls, ProcessOffering(c) PROVE KeyInv'
    BY <1>3 DEF ProcessOffering, VetOffering, StoreOffering, NotifyRetrieval,
                Exec, Goto, Fail
  <1>4. ASSUME NEW c \in Calls, LookupOffering(c) PROVE KeyInv'
    BY <1>4 DEF LookupOffering, Goto, Fail
  <1>5. ASSUME NEW c \in Calls, ClearOffering(c), ~LookupOffering(c)
        PROVE KeyInv'
    BY <1>5 DEF ClearOffering, DeleteRejectedOffering, GetToken, HolderBinding,
                RequestCredential, ValidateCredentialResponse, StoreCredential,
                UpdateOfferingStatus, Exec, Goto, Fail
  <1>6. CASE UNCHANGED callVars
    BY <1>6 DEF callVars
  <1> QED
    BY <1>1, <1>2, <1>3, <1>4, <1>5, <1>6 DEF Next, Run, Expire, vars

LEMMA KeyCorrect == Spec => [](TypeOK /\ KeyInv)
  <1>1. Init => TypeOK /\ KeyInv
    BY TypeInit, KeyInit
  <1>2. TypeOK /\ KeyInv /\ [Next]_vars => (TypeOK /\ KeyInv)'
    BY TypeStep, KeyStep
  <1> QED
    BY <1>1, <1>2, PTL DEF Spec

(* Theorem: every variable keeps its type, for any number of calls, rows and *)
(* offers.                                                                   *)
THEOREM TypeCorrect == Spec => []TypeOK
  BY KeyCorrect, PTL

-----------------------------------------------------------------------------
(* A call keeps the ids and, once it has read the row, the offer it works   *)
(* with.                                                                    *)
LEMMA CallStable ==
    ASSUME TypeOK, [Next]_vars, NEW c \in Calls, pc[c] # "idle"
    PROVE  /\ pc'[c] # "idle"
           /\ key'[c] = key[c]
           /\ pc[c] # "lookup" => offer'[c] = offer[c]
  <1> USE DEF TypeOK, CallsTypeOK, At, Goto, Fail
  <1> DEFINE Stable == /\ pc'[c] # "idle"
                       /\ key'[c] = key[c]
                       /\ pc[c] # "lookup" => offer'[c] = offer[c]
  <1>1. ASSUME NEW d \in Calls, Arrive(d) PROVE Stable
    BY <1>1 DEF Arrive, HandleMessage, HandleRetrieval, HandleClearance,
                HandleGetOffering, Drop, Enter
  <1>2. ASSUME NEW d \in Calls, Crash(d) \/ ProcessOffering(d) PROVE Stable
    BY <1>2 DEF Crash, ProcessOffering, VetOffering, StoreOffering,
                NotifyRetrieval, Exec
  <1>3. ASSUME NEW d \in Calls, ClearOffering(d) PROVE Stable
    BY <1>3 DEF ClearOffering, LookupOffering, DeleteRejectedOffering,
                GetToken, HolderBinding, RequestCredential,
                ValidateCredentialResponse, StoreCredential,
                UpdateOfferingStatus, Exec
  <1>4. CASE UNCHANGED callVars
    BY <1>4 DEF callVars
  <1> QED
    BY <1>1, <1>2, <1>3, <1>4 DEF Next, Run, Expire, vars

-----------------------------------------------------------------------------
(* Notified offerings can be found.                                         *)

(* What a step can do to the table: the four statements and the two         *)
(* expiries, each to one row.                                               *)
LEMMA TableStep ==
    ASSUME TypeOK, KeyInv, [Next]_vars
    PROVE  \/ UNCHANGED offeringVars
           \/ \E c \in Calls : /\ At(c, "store") /\ key[c] \in Keys
                               /\ PutOffering(key[c], offer[c])
           \/ \E c \in Calls : /\ At(c, "delete") /\ key[c] \in Keys
                               /\ DeleteRow(key[c])
           \/ \E c \in Calls : /\ At(c, "update") /\ key[c] \in Keys
                               /\ PutStatus(key[c])
           \/ \E k \in Keys : ExpireOffering(k) \/ ExpireStatus(k)
  <1>1. ASSUME NEW c \in Calls, Arrive(c) PROVE UNCHANGED offeringVars
    BY <1>1 DEF Arrive, HandleMessage, HandleRetrieval, HandleClearance,
                HandleGetOffering, Drop
  <1>2. \A c \in Calls : At(c, "delete") \/ At(c, "update") => key[c] \in Keys
    BY DEF KeyInv, Knows, Clearing, At
  <1> QED
    BY <1>1, <1>2
       DEF Next, Crash, Run, ProcessOffering, VetOffering, StoreOffering,
           NotifyRetrieval, ClearOffering, LookupOffering,
           DeleteRejectedOffering, GetToken, HolderBinding, RequestCredential,
           ValidateCredentialResponse, StoreCredential, UpdateOfferingStatus,
           Exec, Expire, vars

(* An offering that was received stays so.                                  *)
LEMMA ReceivedStable ==
    ASSUME TypeOK, KeyInv, [Next]_vars, NEW k \in Keys, Received(k)
    PROVE  Received(k)'
  <1> USE DEF TypeOK, OfferingsTypeOK, Received
  <1>1. CASE UNCHANGED offeringVars
    BY <1>1 DEF offeringVars
  <1>2. ASSUME NEW c \in Calls, At(c, "store"), key[c] \in Keys,
               PutOffering(key[c], offer[c])
        PROVE  Received(k)'
    <2>1. offer[c] # NoOffer
      BY <1>2 DEF KeyInv, At
    <2> QED
      BY <1>2, <2>1 DEF PutOffering
  <1>3. ASSUME NEW j \in Keys, DeleteRow(j) PROVE Received(k)'
    BY <1>3 DEF DeleteRow
  <1>4. ASSUME NEW j \in Keys, PutStatus(j) PROVE Received(k)'
    BY <1>4 DEF PutStatus
  <1>5. ASSUME NEW j \in Keys, ExpireOffering(j) \/ ExpireStatus(j)
        PROVE  Received(k)'
    BY <1>5 DEF ExpireOffering, ExpireStatus
  <1> QED
    BY <1>1, <1>2, <1>3, <1>4, <1>5, TableStep

LEMMA ReceivedInit == Init => ReceivedInv
  BY DEF Init, CallsInit, ReceivedInv, Knows, Clearing

LEMMA ReceivedStep ==
    TypeOK /\ KeyInv /\ ReceivedInv /\ [Next]_vars => ReceivedInv'
  <1> SUFFICES ASSUME TypeOK, KeyInv, ReceivedInv, [Next]_vars
               PROVE  ReceivedInv'
    OBVIOUS
  (* Every call but the one that moves knows what it knew.                  *)
  <1>1. ASSUME NEW c \in Calls, Knows(c) PROVE Received(key[c])'
    <2>1. key'[c] = key[c]
      BY <1>1, CallStable DEF Knows, Clearing
    <2>2. Received(key[c]) /\ key[c] \in Keys
      BY <1>1 DEF KeyInv, ReceivedInv
    <2>3. Received(key[c])' <=> offerParams'[key[c]] # NoOffer \/ gone'[key[c]]
      BY <2>1 DEF Received
    <2> QED
      BY <2>2, <2>3, ReceivedStable DEF Received
  (* A call comes to know a row by storing or by finding its offer.         *)
  <1>2. ASSUME NEW c \in Calls, Knows(c)', ~Knows(c)
        PROVE  Received(key[c])'
    <2>1. CASE StoreOffering(c)
      <3>1. key[c] \in Keys /\ PutOffering(key[c], offer[c]) /\ key' = key
        BY <1>2, <2>1 DEF StoreOffering, Exec, Goto, Fail, Knows, Clearing,
                          TypeOK, CallsTypeOK
      <3>2. offer[c] # NoOffer
        BY <2>1 DEF StoreOffering, At, KeyInv
      <3> QED
        BY <3>1, <3>2 DEF PutOffering, Received, TypeOK, OfferingsTypeOK
    <2>2. CASE LookupOffering(c)
      <3>1. key[c] \in Keys /\ Found(key[c]) /\ key' = key
        BY <1>2, <2>2 DEF LookupOffering, Goto, Fail, Knows, Clearing,
                          TypeOK, CallsTypeOK
      <3>2. Received(key[c])
        BY <3>1 DEF Found, Unreadable, Decodes, Received
      <3> QED
        BY <3>1, <3>2, ReceivedStable
    <2>3. CASE ~StoreOffering(c) /\ ~LookupOffering(c)
      <3> USE DEF TypeOK, CallsTypeOK, Knows, Clearing, At
      <3>1. ASSUME NEW d \in Calls, Arrive(d) PROVE FALSE
        BY <1>2, <3>1 DEF Arrive, HandleMessage, HandleRetrieval,
                  HandleClearance, HandleGetOffering, Drop, Enter, Goto, Fail
      <3>2. ASSUME NEW d \in Calls, Crash(d) \/ ProcessOffering(d)
            PROVE  FALSE
        BY <1>2, <2>3, <3>2
           DEF Crash, ProcessOffering, VetOffering, StoreOffering,
               NotifyRetrieval, Exec, Goto, Fail
      <3>3. ASSUME NEW d \in Calls, ClearOffering(d) PROVE FALSE
        BY <1>2, <2>3, <3>3
           DEF ClearOffering, LookupOffering, DeleteRejectedOffering, GetToken,
               HolderBinding, RequestCredential, ValidateCredentialResponse,
               StoreCredential, UpdateOfferingStatus, Exec, Goto, Fail
      <3>4. CASE UNCHANGED callVars
        BY <1>2, <3>4 DEF callVars
      <3> QED
        BY <3>1, <3>2, <3>3, <3>4 DEF Next, Run, Expire, vars
    <2> QED
      BY <2>1, <2>2, <2>3
  <1>3. ASSUME NEW k \in notified', k \notin notified PROVE Received(k)'
    <2>1. PICK c \in Calls : NotifyRetrieval(c) /\ k = key[c]
      BY <1>3 DEF Next, Arrive, HandleMessage, HandleRetrieval,
         HandleClearance, HandleGetOffering, Drop, Crash, Run, ProcessOffering,
         VetOffering, StoreOffering, NotifyRetrieval, Expire, vars
    <2> QED
      BY <2>1, ReceivedStable
         DEF NotifyRetrieval, At, Knows, KeyInv, ReceivedInv
  <1>4. ASSUME NEW k \in notified PROVE Received(k)'
    BY <1>4, ReceivedStable DEF ReceivedInv, TypeOK
  <1> QED
    BY <1>1, <1>2, <1>3, <1>4 DEF ReceivedInv

-----------------------------------------------------------------------------
(* One call at most holds the code of an offer.                             *)
LEMMA TokenInit == Init => TokenInv
  BY NoBatch DEF Init, CallsInit, ClearanceInit, TokenInv, Holds, Items

LEMMA TokenStep == TypeOK /\ TokenInv /\ [Next]_vars => TokenInv'
  <1> SUFFICES ASSUME TypeOK, TokenInv, [Next]_vars PROVE TokenInv'
    OBVIOUS
  <1> USE DEF TypeOK, CallsTypeOK, ClearanceTypeOK, TokenInv, Holds, Items, At,
              Goto, Fail, Exec, clearanceVars
  (* A call that arrives or reads its row holds nothing yet.                *)
  <1>1. ASSUME NEW c \in Calls, Arrive(c) PROVE TokenInv'
    BY <1>1 DEF Arrive, HandleMessage, HandleRetrieval, HandleClearance,
                HandleGetOffering, Drop, Enter
  <1>2. ASSUME NEW c \in Calls, Crash(c) PROVE TokenInv'
    BY <1>2 DEF Crash, Running, Processing, Clearing
  <1>3. ASSUME NEW c \in Calls, ProcessOffering(c), UNCHANGED clearanceVars
        PROVE  TokenInv'
    BY <1>3 DEF ProcessOffering, VetOffering, StoreOffering, NotifyRetrieval
  <1>4. ASSUME NEW c \in Calls, LookupOffering(c) PROVE TokenInv'
    BY <1>4 DEF LookupOffering
  <1>5. ASSUME NEW c \in Calls, DeleteRejectedOffering(c) PROVE TokenInv'
    BY <1>5 DEF DeleteRejectedOffering
  (* The server honours a code nobody holds.                                *)
  <1>6. ASSUME NEW c \in Calls, GetToken(c) PROVE TokenInv'
    BY <1>6 DEF GetToken
  <1>7. ASSUME NEW c \in Calls, HolderBinding(c) PROVE TokenInv'
    BY <1>7 DEF HolderBinding
  (* The issuer answers a call that holds the code.                         *)
  <1>8. ASSUME NEW c \in Calls, RequestCredential(c) PROVE TokenInv'
    BY <1>8 DEF RequestCredential
  <1>9. ASSUME NEW c \in Calls, ValidateCredentialResponse(c) PROVE TokenInv'
    BY <1>9 DEF ValidateCredentialResponse
  <1>10. ASSUME NEW c \in Calls, StoreCredential(c) PROVE TokenInv'
    BY <1>10 DEF StoreCredential
  <1>11. ASSUME NEW c \in Calls, UpdateOfferingStatus(c) PROVE TokenInv'
    BY <1>11 DEF UpdateOfferingStatus
  <1>12. CASE UNCHANGED callVars /\ UNCHANGED clearanceVars
    BY <1>12 DEF callVars
  <1> QED
    BY <1>1, <1>2, <1>3, <1>4, <1>5, <1>6, <1>7, <1>8, <1>9, <1>10, <1>11,
       <1>12
       DEF Next, Run, ClearOffering, Expire, vars

-----------------------------------------------------------------------------
(* Complete, vetted batches.                                                *)

(* What was sent stays sent, and what the issuer issued stays issued.       *)
LEMMA BatchStable ==
    ASSUME TypeOK, TokenInv, [Next]_vars
    PROVE  /\ stored \subseteq stored'
           /\ \A c \in Calls : Items(c) # {} => issued'[c] = issued[c]
  <1>1. ASSUME NEW c \in Calls, RequestCredential(c)
        PROVE  /\ stored \subseteq stored'
               /\ \A d \in Calls : Items(d) # {} => issued'[d] = issued[d]
    BY <1>1 DEF RequestCredential, TokenInv, At, TypeOK, ClearanceTypeOK
  <1>2. ASSUME NEW c \in Calls, StoreCredential(c)
        PROVE  /\ stored \subseteq stored'
               /\ UNCHANGED issued
    BY <1>2 DEF StoreCredential
  <1>3. \/ UNCHANGED <<stored, issued>>
        \/ \E c \in Calls : RequestCredential(c) \/ StoreCredential(c)
    BY DEF Next, Arrive, HandleMessage, HandleRetrieval, HandleClearance,
           HandleGetOffering, Drop, Crash, Run, ProcessOffering, ClearOffering,
           LookupOffering, DeleteRejectedOffering, GetToken, HolderBinding,
           ValidateCredentialResponse, UpdateOfferingStatus, Expire, vars,
           clearanceVars
  <1> QED
    BY <1>1, <1>2, <1>3

LEMMA BatchInit == Init => BatchInv
  BY DEF Init, CallsInit, ClearanceInit, BatchInv, LoopInv, Running, Processing,
         Clearing

LEMMA BatchStep == TypeOK /\ TokenInv /\ BatchInv /\ [Next]_vars => BatchInv'
  <1> SUFFICES ASSUME TypeOK, TokenInv, BatchInv, [Next]_vars PROVE BatchInv'
    OBVIOUS
  <1> USE DEF TypeOK, CallsTypeOK, ClearanceTypeOK, At, Goto, Fail, Exec,
              clearanceVars
  (* Messages and complete batches of before, and calls that do not move.   *)
  <1>1. \A m \in stored : Items(m.call)' # {} /\ Vetted(m.call)'
    BY BatchStable DEF BatchInv, Items, Vetted, Messages
  <1>2. \A c \in Calls : Complete(c) => Complete(c)'
    BY BatchStable DEF Complete, Items, Message
  <1>3. ASSUME NEW c \in Calls, pc'[c] = pc[c], next'[c] = next[c]
        PROVE  LoopInv(c)'
    <2>1. CASE pc[c] = "publish"
      <3>1. Items(c) # {} /\ issued'[c] = issued[c]
        BY <2>1, BatchStable DEF BatchInv, LoopInv
      <3> QED
        BY <1>3, <2>1, <3>1, BatchStable
           DEF BatchInv, LoopInv, Vetted, Items, Message
    <2>2. CASE pc[c] # "publish"
      BY <1>2, <1>3, <2>2 DEF BatchInv, LoopInv
    <2> QED
      BY <2>1, <2>2
  (* A call moves and nothing is sent.                                      *)
  <1>4. ASSUME NEW c \in Calls, UNCHANGED <<stored, next>>,
               \A d \in Calls \ {c} : pc'[d] = pc[d],
               LoopInv(c)'
        PROVE  BatchInv'
    BY <1>1, <1>3, <1>4 DEF BatchInv
  <1>5. ASSUME NEW c \in Calls, Arrive(c) PROVE BatchInv'
    <2>1. /\ UNCHANGED <<stored, next>>
          /\ \A d \in Calls \ {c} : pc'[d] = pc[d]
          /\ pc[c] = "idle"
          /\ pc'[c] \in {"vet", "lookup", "listed", "failed"}
      BY <1>5 DEF Arrive, HandleMessage, HandleRetrieval, HandleClearance,
                  HandleGetOffering, Drop, Enter
    <2>2. LoopInv(c)'
      BY <2>1 DEF BatchInv, LoopInv, Running, Processing, Clearing
    <2> QED
      BY <1>4, <2>1, <2>2
  <1>6. ASSUME NEW c \in Calls,
               \/ Crash(c)
               \/ ProcessOffering(c) /\ UNCHANGED clearanceVars
        PROVE  BatchInv'
    <2>1. /\ UNCHANGED <<stored, next>>
          /\ \A d \in Calls \ {c} : pc'[d] = pc[d]
          /\ \/ pc'[c] \in Ended
             \/ pc[c] \in {"vet", "store"} /\ pc'[c] \in {"store", "notify"}
      BY <1>6 DEF Crash, ProcessOffering, VetOffering, StoreOffering,
                  NotifyRetrieval, Ended
    <2>2. LoopInv(c)'
      BY <2>1 DEF BatchInv, LoopInv, Running, Processing, Clearing, Ended
    <2> QED
      BY <1>4, <2>1, <2>2
  <1>7. ASSUME NEW c \in Calls,
               \/ LookupOffering(c)
               \/ DeleteRejectedOffering(c)
               \/ GetToken(c)
               \/ HolderBinding(c)
               \/ RequestCredential(c)
               \/ UpdateOfferingStatus(c)
        PROVE  BatchInv'
    <2>1. /\ UNCHANGED <<stored, next>>
          /\ \A d \in Calls \ {c} : pc'[d] = pc[d]
          /\ \/ pc'[c] \in Ended
             \/ /\ pc[c] \in {"lookup", "token", "proof", "request"}
                /\ pc'[c] \in {"delete", "token", "proof", "request",
                               "validate"}
      BY <1>7 DEF LookupOffering, DeleteRejectedOffering, GetToken,
                  HolderBinding, RequestCredential, UpdateOfferingStatus, Ended
    <2>2. LoopInv(c)'
      BY <2>1 DEF BatchInv, LoopInv, Running, Processing, Clearing, Ended
    <2> QED
      BY <1>4, <2>1, <2>2
  <1>8. ASSUME NEW c \in Calls, ValidateCredentialResponse(c) PROVE BatchInv'
    <2>1. PICK n \in Nat : Items(c) = 1..n
      BY BatchIndices DEF Items
    <2>2. /\ UNCHANGED <<stored, next, issued>>
          /\ \A d \in Calls \ {c} : pc'[d] = pc[d]
          /\ pc[c] = "validate"
          /\ \/ pc'[c] = "failed"
             \/ pc'[c] = "publish" /\ Items(c) # {} /\ Vetted(c)
      BY <1>8 DEF ValidateCredentialResponse
    <2>3. next[c] = 1
      BY <2>2 DEF BatchInv, LoopInv, Running, Processing, Clearing
    <2>4. LoopInv(c)'
      BY <2>1, <2>2, <2>3
         DEF LoopInv, Running, Processing, Clearing, Items, Vetted
    <2> QED
      BY <1>4, <2>2, <2>4
  <1>9. ASSUME NEW c \in Calls, StoreCredential(c) PROVE BatchInv'
    <2>1. PICK n \in Nat : Items(c) = 1..n
      BY BatchIndices DEF Items
    <2>2. /\ Vetted(c)
          /\ next[c] \in Items(c)
          /\ \A i \in 1..(next[c] - 1) : Message(c, i) \in stored
      BY <1>9 DEF StoreCredential, BatchInv, LoopInv
    <2>3. /\ UNCHANGED issued
          /\ stored \subseteq stored'
          /\ \A d \in Calls \ {c} : pc'[d] = pc[d] /\ next'[d] = next[d]
      BY <1>9 DEF StoreCredential
    <2>4. \A m \in stored' : Items(m.call)' # {} /\ Vetted(m.call)'
      <3>1. ASSUME NEW m \in stored', m \notin stored PROVE m.call = c
        BY <1>9, <3>1 DEF StoreCredential, Message
      <3>2. Items(c)' # {} /\ Vetted(c)'
        BY <2>2, <2>3 DEF Items, Vetted
      <3> QED
        BY <1>1, <3>1, <3>2 DEF Items, Vetted
    <2>5. LoopInv(c)'
      <3>1. CASE pc'[c] = "failed"
        BY <3>1 DEF LoopInv, Running, Processing, Clearing
      <3>2. CASE pc'[c] # "failed"
        <4>1. /\ stored' = stored \union {Message(c, next[c])}
              /\ next'[c] = next[c] + 1
              /\ pc'[c] = IF next[c] + 1 \in Items(c)
                          THEN "publish" ELSE "update"
          BY <1>9, <3>2 DEF StoreCredential
        <4>2. \A i \in 1..next[c] : Message(c, i) \in stored'
          BY <2>1, <2>2, <4>1
        <4>3. CASE next[c] + 1 \in Items(c)
          BY <2>1, <2>2, <2>3, <4>1, <4>2, <4>3
             DEF LoopInv, Running, Processing, Clearing, Items, Vetted, Message
        <4>4. CASE next[c] + 1 \notin Items(c)
          <5>1. next[c] = n
            BY <2>1, <2>2, <4>4
          <5>2. Complete(c)'
            BY <2>1, <2>2, <2>3, <4>2, <5>1 DEF Complete, Items, Message
          <5> QED
            BY <4>1, <4>4, <5>2 DEF LoopInv, Running, Processing, Clearing
        <4> QED
          BY <4>3, <4>4
      <3> QED
        BY <3>1, <3>2
    <2> QED
      BY <1>3, <2>3, <2>4, <2>5 DEF BatchInv
  <1>10. CASE UNCHANGED callVars /\ UNCHANGED clearanceVars
    BY <1>1, <1>3, <1>10 DEF callVars, BatchInv
  <1> QED
    BY <1>5, <1>6, <1>7, <1>8, <1>9, <1>10
       DEF Next, Run, ClearOffering, Expire, vars

-----------------------------------------------------------------------------
(* A row that says accepted has a complete batch.                           *)
LEMMA DeliveredStable ==
    ASSUME TypeOK, TokenInv, [Next]_vars, NEW k \in Keys, Delivered(k)
    PROVE  Delivered(k)'
  <1>1. PICK c \in Calls : key[c] = k /\ Complete(c)
    BY DEF Delivered
  <1>2. pc[c] # "idle" /\ issued'[c] = issued[c] /\ stored \subseteq stored'
    BY <1>1, BatchStable DEF TokenInv, Complete
  <1>3. key'[c] = k
    BY <1>1, <1>2, CallStable
  <1>4. Complete(c)'
    BY <1>1, <1>2 DEF Complete, Items, Message
  <1> QED
    BY <1>3, <1>4 DEF Delivered

(* The status column turns to accepted in the step of a call whose batch is *)
(* complete.                                                                *)
LEMMA AcceptStep ==
    ASSUME TypeOK, KeyInv, TokenInv, BatchInv, [Next]_vars, NEW k \in Keys,
           status'[k] = "accepted", status[k] # "accepted"
    PROVE  Delivered(k)
  <1> USE DEF TypeOK, OfferingsTypeOK
  <1>1. CASE UNCHANGED offeringVars
    BY <1>1 DEF offeringVars
  <1>2. ASSUME NEW c \in Calls, At(c, "update"), key[c] \in Keys,
               PutStatus(key[c])
        PROVE  Delivered(k)
    <2>1. key[c] = k
      BY <1>2 DEF PutStatus
    <2> QED
      BY <1>2, <2>1 DEF BatchInv, LoopInv, At, Delivered
  <1>3. ASSUME NEW j \in Keys, NEW o,
               \/ PutOffering(j, o)
               \/ DeleteRow(j)
               \/ ExpireOffering(j)
               \/ ExpireStatus(j)
        PROVE  Delivered(k)
    BY <1>3 DEF PutOffering, DeleteRow, ExpireOffering, ExpireStatus
  <1> QED
    BY <1>1, <1>2, <1>3, TableStep

LEMMA AcceptedStep ==
    ASSUME TypeOK, KeyInv, TokenInv, BatchInv, AcceptedIsStored, [Next]_vars
    PROVE  AcceptedIsStored'
  <1> SUFFICES ASSUME NEW k \in Keys, status'[k] = "accepted"
               PROVE  Delivered(k)'
    BY DEF AcceptedIsStored
  <1>1. Delivered(k)
    BY AcceptStep DEF AcceptedIsStored
  <1> QED
    BY <1>1, DeliveredStable

-----------------------------------------------------------------------------
LEMMA InvCorrect == Spec => []Inv
  <1>1. Init => Inv
    BY TypeInit, KeyInit, ReceivedInit, TokenInit, BatchInit
       DEF Inv, AcceptedIsStored, Init, OfferingsInit
  <1>2. Inv /\ [Next]_vars => Inv'
    BY TypeStep, KeyStep, ReceivedStep, TokenStep, BatchStep, AcceptedStep
       DEF Inv
  <1> QED
    BY <1>1, <1>2, PTL DEF Spec

(* Theorem: a row that says accepted has had a complete batch of its        *)
(* credentials sent to the storage service.                                 *)
THEOREM AcceptedStored == Spec => []AcceptedIsStored
  <1>1. Inv => AcceptedIsStored
    BY DEF Inv
  <1> QED
    BY <1>1, InvCorrect, PTL

(* Theorem: no credential of a batch with an invalid one is stored.         *)
THEOREM StoredVetted == Spec => []StoredIsVetted
  <1>1. Inv => StoredIsVetted
    BY DEF Inv, BatchInv, StoredIsVetted
  <1> QED
    BY <1>1, InvCorrect, PTL

(* Theorem: however many acceptances run for an offer, one batch at most is *)
(* stored for it.                                                           *)
THEOREM OneBatch == Spec => []OneBatchPerOffer
  <1>1. Inv => OneBatchPerOffer
    <2> SUFFICES ASSUME Inv, NEW m \in stored, NEW n \in stored,
                        offer[m.call] = offer[n.call]
                 PROVE  m.call = n.call
      BY DEF OneBatchPerOffer
    <2>1. m.call \in Calls /\ n.call \in Calls
      BY DEF Inv, TypeOK, ClearanceTypeOK, Messages
    <2>2. Holds(m.call) /\ Holds(n.call)
      BY DEF Inv, BatchInv, Holds
    <2> QED
      BY <2>1, <2>2 DEF Inv, TokenInv
  <1> QED
    BY <1>1, InvCorrect, PTL

(* Theorem: an offering that was announced is found under its key until it  *)
(* is rejected or expires.                                                  *)
THEOREM NotifiedFindable == Spec => []NotifiedIsFindable
  <1>1. Inv => NotifiedIsFindable
    BY DEF Inv, ReceivedInv, NotifiedIsFindable
  <1> QED
    BY <1>1, InvCorrect, PTL

-----------------------------------------------------------------------------
(* The refinement of OfferingLifecycle.                                     *)

(* A message is sent by the call it belongs to.                             *)
LEMMA SendStep ==
    ASSUME [Next]_vars, NEW m \in stored', m \notin stored
    PROVE  \E c \in Calls : StoreCredential(c) /\ m.call = c
  <1>1. PICK c \in Calls : StoreCredential(c)
    BY DEF Next, Arrive, HandleMessage, HandleRetrieval, HandleClearance,
           HandleGetOffering, Drop, Crash, Run, ProcessOffering, ClearOffering,
           LookupOffering, DeleteRejectedOffering, GetToken, HolderBinding,
           RequestCredential, ValidateCredentialResponse, UpdateOfferingStatus,
           Expire, vars, clearanceVars
  <1> QED
    BY <1>1 DEF StoreCredential, Message

(* A batch becomes complete in a turn of StoreCredential, for the key of    *)
(* that call.                                                               *)
LEMMA DeliverStep ==
    ASSUME TypeOK, TokenInv, BatchInv, [Next]_vars, NEW k \in Keys,
           Delivered(k)', ~Delivered(k)
    PROVE  \E c \in Calls : StoreCredential(c) /\ key[c] = k
  <1>1. PICK c \in Calls : key'[c] = k /\ Complete(c)'
    BY DEF Delivered
  <1>2. CASE StoreCredential(c)
    <2>1. key'[c] = key[c]
      BY <1>2 DEF StoreCredential, Goto, Fail
    <2> QED
      BY <1>1, <1>2, <2>1
  <1>3. CASE ~StoreCredential(c)
    <2>1. \A i : Message(c, i) \in stored' => Message(c, i) \in stored
      BY <1>3, SendStep DEF Message
    <2>2. PICK i \in DOMAIN issued'[c] : Message(c, i) \in stored'
      BY <1>1 DEF Complete, Items, Message
    <2>3. Items(c) # {}
      BY <2>1, <2>2 DEF BatchInv, Message
    <2>4. issued'[c] = issued[c] /\ key'[c] = key[c]
      BY <2>3, BatchStable, CallStable DEF TokenInv
    <2>5. Complete(c)
      BY <1>1, <2>1, <2>3, <2>4 DEF Complete, Items, Message
    <2> QED
      BY <1>1, <2>4, <2>5 DEF Delivered
  <1> QED
    BY <1>2, <1>3

LEMMA LifecycleInit == Init => Lifecycle!Init
  BY NoBatch
     DEF Init, OfferingsInit, ClearanceInit, Lifecycle!Init, Received,
         Delivered, Complete, Items

LEMMA LifecycleStep == Inv /\ [Next]_vars => [Lifecycle!Next]_Lifecycle!vars
  <1> SUFFICES ASSUME Inv, [Next]_vars
               PROVE  [Lifecycle!Next]_Lifecycle!vars
    OBVIOUS
  <1> USE DEF Inv
  <1> DEFINE R == {k \in Keys : Received(k)}
             D == {k \in Keys : Delivered(k)}
             A == {k \in Keys : status[k] = "accepted"}
  <1>1. ASSUME R' = R, D' = D, A' = A PROVE [Lifecycle!Next]_Lifecycle!vars
    BY <1>1 DEF Lifecycle!vars
  (* The last message of a batch delivers it.                               *)
  <1>2. ASSUME NEW c \in Calls, StoreCredential(c)
        PROVE  [Lifecycle!Next]_Lifecycle!vars
    <2>1. key[c] \in Keys /\ Received(key[c])
      BY <1>2 DEF StoreCredential, At, KeyInv, ReceivedInv, Knows, Clearing
    <2>2. R' = R /\ A' = A
      BY <1>2 DEF StoreCredential, offeringVars, Received
    <2>3. D \subseteq D'
      BY DeliveredStable
    <2>4. ASSUME NEW d \in Calls, StoreCredential(d) PROVE d = c
      <3> USE DEF StoreCredential, Goto, Fail, At, TypeOK, CallsTypeOK,
                  ClearanceTypeOK
      <3>1. CASE pc' = pc
        <4>1. next' = [next EXCEPT ![c] = @ + 1]
          BY <1>2, <3>1
        <4>2. next' = [next EXCEPT ![d] = @ + 1]
          BY <2>4, <3>1
        <4> QED
          BY <4>1, <4>2
      <3>2. CASE pc' # pc
        <4>1. pc'[c] # "publish" /\ pc' = [pc EXCEPT ![c] = pc'[c]]
          BY <1>2, <3>2
        <4>2. pc'[d] # "publish" /\ pc[d] = "publish"
          BY <2>4, <3>2
        <4> QED
          BY <4>1, <4>2
      <3> QED
        BY <3>1, <3>2
    <2>5. D' \subseteq D \union {key[c]}
      BY <2>4, DeliverStep
    <2>6. CASE D' = D \union {key[c]}
      <3>1. Lifecycle!Deliver(key[c])
        BY <2>1, <2>2, <2>6 DEF Lifecycle!Deliver
      <3> QED
        BY <2>1, <3>1 DEF Lifecycle!Next
    <2> QED
      BY <1>1, <2>2, <2>3, <2>5, <2>6
  <1>3. ASSUME \A c \in Calls : ~StoreCredential(c)
        PROVE  [Lifecycle!Next]_Lifecycle!vars
    <2>1. D' = D
      BY <1>3, DeliveredStable, DeliverStep
    <2>2. CASE UNCHANGED offeringVars
      <3>1. R' = R /\ A' = A
        BY <2>2 DEF offeringVars, Received
      <3> QED
        BY <1>1, <2>1, <3>1
    <2> USE DEF TypeOK, OfferingsTypeOK
    <2>3. ASSUME NEW c \in Calls, At(c, "store"), key[c] \in Keys,
                 PutOffering(key[c], offer[c])
          PROVE  [Lifecycle!Next]_Lifecycle!vars
      <3>1. offer[c] # NoOffer
        BY <2>3 DEF At, KeyInv
      <3>2. R' = R \union {key[c]} /\ A' = A \ {key[c]}
        BY <2>3, <3>1 DEF PutOffering, Received
      <3>3. Lifecycle!Receive(key[c])
        BY <2>1, <3>2 DEF Lifecycle!Receive
      <3>4. key[c] \in Keys
        BY <2>3
      <3> QED
        BY <3>3, <3>4 DEF Lifecycle!Next, Lifecycle!Receive
    <2>4. ASSUME NEW c \in Calls, At(c, "delete"), key[c] \in Keys,
                 DeleteRow(key[c])
          PROVE  [Lifecycle!Next]_Lifecycle!vars
      <3>1. Received(key[c])
        BY <2>4 DEF At, ReceivedInv, Knows, Clearing
      <3>2. R' = R /\ A' = A \ {key[c]}
        BY <2>4, <3>1 DEF DeleteRow, Received
      <3>3. Lifecycle!Unmark(key[c])
        BY <2>1, <3>2 DEF Lifecycle!Unmark
      <3>4. key[c] \in Keys
        BY <2>4
      <3> QED
        BY <3>3, <3>4 DEF Lifecycle!Next, Lifecycle!Unmark
    <2>5. ASSUME NEW c \in Calls, At(c, "update"), key[c] \in Keys,
                 PutStatus(key[c])
          PROVE  [Lifecycle!Next]_Lifecycle!vars
      <3>1. Delivered(key[c])
        BY <2>5 DEF At, BatchInv, LoopInv, Delivered
      <3>2. R' = R /\ A' = A \union {key[c]}
        BY <2>5 DEF PutStatus, Received
      <3>3. Lifecycle!Accept(key[c])
        BY <2>1, <2>5, <3>1, <3>2 DEF Lifecycle!Accept
      <3>4. key[c] \in Keys
        BY <2>5
      <3> QED
        BY <3>3, <3>4 DEF Lifecycle!Next, Lifecycle!Accept
    <2>6. ASSUME NEW k \in Keys, ExpireOffering(k)
          PROVE  [Lifecycle!Next]_Lifecycle!vars
      <3>1. R' = R /\ A' = A
        BY <2>6 DEF ExpireOffering, Received
      <3> QED
        BY <1>1, <2>1, <3>1
    <2>7. ASSUME NEW k \in Keys, ExpireStatus(k)
          PROVE  [Lifecycle!Next]_Lifecycle!vars
      <3>1. R' = R /\ A' = A \ {k}
        BY <2>7 DEF ExpireStatus, Received
      <3>2. Lifecycle!Unmark(k)
        BY <2>1, <3>1 DEF Lifecycle!Unmark
      <3> QED
        BY <3>2 DEF Lifecycle!Next
    <2> QED
      BY <2>2, <2>3, <2>4, <2>5, <2>6, <2>7, TableStep
  <1> QED
    BY <1>2, <1>3

(* Theorem: the service, with its concurrent calls, its failures and the    *)
(* expiry of the table, is an implementation of OfferingLifecycle.          *)
THEOREM Refinement == Spec => ImplementsLifecycle
  BY LifecycleInit, LifecycleStep, InvCorrect, PTL
     DEF Spec, ImplementsLifecycle, Lifecycle!Spec
=============================================================================
