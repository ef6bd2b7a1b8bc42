--------------------------- MODULE IssuanceProofs --------------------------
(***************************************************************************)
(* Proofs, for every value of the constants, that Issuance implements      *)
(* RetrievalService, and of its own safety properties.                     *)
(***************************************************************************)
EXTENDS Issuance, RetrievalServiceProofs, WellFoundedInduction

USE TermsAssumption, DocsAssumption, DetailsAssumption, PoliciesAssumption,
    NoNonceAssumption, NoIssuerAssumption

(* A code is asked for only with an offer whose grant is supported.         *)
GrantInv ==
    /\ step \in [Calls -> {"resolve", "offering", "fetch", "metadata",
                           "refetch", "redeem", "nonce", "sign"}]
    /\ \A c \in Calls :
          Due(c, "token", "redeem") => offer[c] \in PreAuthOffers

-----------------------------------------------------------------------------
(* Every step of the exchange is a step of RetrievalService or none at all. *)
LEMMA VetImplements ==
    ASSUME NEW c \in Calls, VetStep(c)
    PROVE  [Next]_vars
  <1> USE DEF Due, Then, Refuse, serviceVars, vars, Allowed, Denied
  <1>1. CASE UNCHANGED vars
    BY <1>1
  <1>2. CASE VetOffering(c) /\ UNCHANGED clearanceVars
    BY <1>2 DEF Next, Run, ProcessOffering
  <1>3. UNCHANGED vars \/ (VetOffering(c) /\ UNCHANGED clearanceVars)
    BY DEF VetStep, ResolveOffer, AskOfferingPolicy, FetchMetadata,
           AskMetadataPolicy, VetOffering
  <1> QED
    BY <1>1, <1>2, <1>3

LEMMA SignImplements ==
    ASSUME NEW c \in Calls, NEW reply, SignProof(c, reply)
    PROVE  [Next]_vars
  <1>1. HolderBinding(c) /\ UNCHANGED notified
    BY DEF SignProof, HolderBinding, Due, serviceVars
  <1> QED
    BY <1>1 DEF Next, Run, ClearOffering

LEMMA RetrieveImplements ==
    ASSUME GrantInv, NEW c \in Calls, RetrieveStep(c)
    PROVE  [Next]_vars
  <1> USE DEF Due, Then, Refuse, serviceVars
  <1>1. CASE RefetchMetadata(c)
    <2>1. CASE UNCHANGED callVars
      BY <1>1, <2>1 DEF RefetchMetadata, vars
    <2>2. CASE Fail(c)
      <3>1. GetToken(c) /\ UNCHANGED notified
        BY <1>1, <2>2 DEF RefetchMetadata, GetToken, clearanceVars
      <3> QED
        BY <3>1 DEF Next, Run, ClearOffering
    <2> QED
      BY <1>1, <2>1, <2>2 DEF RefetchMetadata
  <1>2. CASE RequestToken(c)
    <2>1. GetToken(c) /\ UNCHANGED notified
      BY <1>2 DEF RequestToken, GetToken, GrantInv
    <2> QED
      BY <2>1 DEF Next, Run, ClearOffering
  <1>3. CASE FetchNonce(c)
    <2>1. CASE UNCHANGED callVars
      BY <1>3, <2>1 DEF FetchNonce, vars
    <2>2. CASE Fail(c)
      <3>1. HolderBinding(c) /\ UNCHANGED notified
        BY <1>3, <2>2 DEF FetchNonce, HolderBinding
      <3> QED
        BY <3>1 DEF Next, Run, ClearOffering
    <2> QED
      BY <1>3, <2>1, <2>2 DEF FetchNonce
  <1>4. CASE SignProof(c, OwnProof(c))
    BY <1>4, SignImplements
  <1>5. CASE SendRequest(c)
    <2>1. RequestCredential(c) /\ UNCHANGED notified
      BY <1>5 DEF SendRequest, RequestCredential
    <2> QED
      BY <2>1 DEF Next, Run, ClearOffering
  <1> QED
    BY <1>1, <1>2, <1>3, <1>4, <1>5 DEF RetrieveStep

(* An I/O that fails is one of the failures of its stage.                   *)
LEMMA FailureImplements ==
    ASSUME GrantInv, NEW c \in Calls, IOFails(c)
    PROVE  [Next]_vars
  <1> USE DEF IOFails, NothingDone, LostAnswer, Due, At, Fail
  <1>1. CASE pc[c] = "vet"
    <2>1. VetOffering(c) /\ UNCHANGED clearanceVars
      BY <1>1 DEF VetOffering, clearanceVars
    <2> QED
      BY <2>1 DEF Next, Run, ProcessOffering
  <1>2. CASE pc[c] = "token"
    <2>1. GetToken(c) /\ UNCHANGED notified
      BY <1>2 DEF GetToken, GrantInv
    <2> QED
      BY <2>1 DEF Next, Run, ClearOffering
  <1>3. CASE pc[c] = "proof"
    <2>1. HolderBinding(c) /\ UNCHANGED notified
      BY <1>3 DEF HolderBinding, clearanceVars
    <2> QED
      BY <2>1 DEF Next, Run, ClearOffering
  <1>4. CASE pc[c] = "request"
    <2>1. RequestCredential(c) /\ UNCHANGED notified
      BY <1>4 DEF RequestCredential
    <2> QED
      BY <2>1 DEF Next, Run, ClearOffering
  <1> QED
    BY <1>1, <1>2, <1>3, <1>4

LEMMA FlowImplements == GrantInv /\ [FlowNext]_allVars => [Next]_vars
  <1> SUFFICES ASSUME GrantInv, [FlowNext]_allVars PROVE [Next]_vars
    OBVIOUS
  <1>1. ASSUME NEW c \in Calls, FlowRun(c) PROVE [Next]_vars
    <2>1. CASE VetStep(c)
      BY <2>1, VetImplements
    <2>2. CASE Lookup(c)
      BY <2>2 DEF Lookup, Next, Run, ClearOffering
    <2>3. CASE RetrieveStep(c)
      BY <2>3, RetrieveImplements
    <2>4. CASE OtherStage(c)
      BY <2>4 DEF OtherStage, Next, Run, ProcessOffering, ClearOffering
    <2> QED
      BY <1>1, <2>1, <2>2, <2>3, <2>4 DEF FlowRun
  <1>2. ASSUME NEW c \in Calls, IOFails(c) PROVE [Next]_vars
    BY <1>2, FailureImplements
  <1>3. ASSUME NEW c \in Calls, SignerMixesUp(c) PROVE [Next]_vars
    BY <1>3, SignImplements DEF SignerMixesUp
  <1>4. ASSUME NEW i \in Issuers, Republish(i) PROVE [Next]_vars
    BY <1>4 DEF Republish
  <1> QED
    BY <1>1, <1>2, <1>3, <1>4 DEF FlowNext, Next, allVars

LEMMA GrantStep ==
    TypeOK /\ GrantInv /\ [FlowNext]_allVars => GrantInv'
  <1> SUFFICES ASSUME TypeOK, GrantInv, [FlowNext]_allVars PROVE GrantInv'
    OBVIOUS
  <1> USE DEF TypeOK, CallsTypeOK, GrantInv, Due, At, Then, Refuse, Goto, Fail,
              callVars
  <1>1. ASSUME NEW c \in Calls, VetStep(c) PROVE GrantInv'
    BY <1>1 DEF VetStep, ResolveOffer, AskOfferingPolicy, FetchMetadata,
                AskMetadataPolicy, Allowed, Denied
  <1>2. ASSUME NEW c \in Calls, Lookup(c) PROVE GrantInv'
    BY <1>2 DEF Lookup, LookupOffering
  <1>3. ASSUME NEW c \in Calls, RefetchMetadata(c) PROVE GrantInv'
    BY <1>3 DEF RefetchMetadata
  <1>4. ASSUME NEW c \in Calls, RequestToken(c) PROVE GrantInv'
    BY <1>4 DEF RequestToken
  <1>5. ASSUME NEW c \in Calls, FetchNonce(c) PROVE GrantInv'
    BY <1>5 DEF FetchNonce
  <1>6. ASSUME NEW c \in Calls, NEW reply, SignProof(c, reply) PROVE GrantInv'
    BY <1>6 DEF SignProof
  <1>7. ASSUME NEW c \in Calls, SendRequest(c) PROVE GrantInv'
    BY <1>7 DEF SendRequest, callData
  <1>8. ASSUME NEW c \in Calls, OtherStage(c) PROVE GrantInv'
    BY <1>8 DEF OtherStage, StoreOffering, NotifyRetrieval, Exec,
                DeleteRejectedOffering, ValidateCredentialResponse,
                StoreCredential, UpdateOfferingStatus, flowVars, callData
  <1>9. ASSUME NEW c \in Calls, Arrive(c), UNCHANGED flowVars PROVE GrantInv'
    BY <1>9 DEF Arrive, HandleMessage, HandleRetrieval, HandleClearance,
                HandleGetOffering, Drop, Enter, flowVars, callData
  <1>10. ASSUME NEW c \in Calls, IOFails(c) \/ (Crash(c) /\ UNCHANGED flowVars)
         PROVE GrantInv'
    BY <1>10 DEF IOFails, Crash, flowVars, callData
  <1>11. CASE UNCHANGED <<callVars, step>>
    BY <1>11
  <1> QED
    BY <1>1, <1>2, <1>3, <1>4, <1>5, <1>6, <1>7, <1>8, <1>9, <1>10, <1>11
       DEF FlowNext, FlowRun, RetrieveStep, SignerMixesUp, Republish,
           Expire, allVars, vars, flowVars, callData

LEMMA FlowInvCorrect == FlowSpec => [](TypeOK /\ KeyInv /\ GrantInv)
  <1>1. FlowInit => TypeOK /\ KeyInv /\ GrantInv
    <2>1. FlowInit => GrantInv
      BY DEF FlowInit, Init, CallsInit, GrantInv, Due, At
    <2> QED
      BY <2>1, TypeInit, KeyInit DEF FlowInit
  <1>2. TypeOK /\ KeyInv /\ GrantInv /\ [FlowNext]_allVars
        => (TypeOK /\ KeyInv /\ GrantInv)'
    BY FlowImplements, TypeStep, KeyStep, GrantStep
  <1> QED
    BY <1>1, <1>2, PTL DEF FlowSpec

(* Theorem: the exchange in detail implements RetrievalService, so that all *)
(* that is proved of the service holds with metadata that changes, tokens,  *)
(* nonces, proofs and lost answers as well.                                 *)
THEOREM FlowRefinement == FlowSpec => ImplementsService
  <1>1. FlowInit => Init
    BY DEF FlowInit
  <1> QED
    BY <1>1, FlowImplements, FlowInvCorrect, PTL
       DEF FlowSpec, ImplementsService, Spec

(* Theorem: so the exchange in detail keeps what the service promises: what *)
(* it marks accepted is stored, it stores nothing unvetted and one batch of *)
(* an offer at most, what it announced can be found, and it follows the     *)
(* life cycle of an offering.                                               *)
THEOREM FlowKeepsPromises ==
    FlowSpec => /\ [](/\ AcceptedIsStored /\ StoredIsVetted
                     /\ OneBatchPerOffer /\ NotifiedIsFindable)
                /\ ImplementsLifecycle
  BY FlowRefinement, AcceptedStored, StoredVetted, OneBatch, NotifiedFindable,
     Refinement, PTL DEF ImplementsService

-----------------------------------------------------------------------------
(* Gates: what is stored and redeemed has been vetted.                      *)

Has(c, gate) == [call |-> c, gate |-> gate] \in passed

(* The gates lie behind a call in their order, and a call that stores has   *)
(* passed them all.                                                         *)
GateInv ==
    /\ \A c \in Calls : pc[c] = "idle" => step[c] = "resolve"
    /\ \A c \in Calls, g \in Gates :
          Has(c, g) => pc[c] \notin {"idle", "lookup"}
    /\ \A c \in Calls : Has(c, "uri") => TermsOf[offer[c]].safe
    /\ \A c \in Calls : pc[c] = "vet" =>
          /\ step[c] \in {"offering", "fetch", "metadata"} => Has(c, "uri")
          /\ step[c] \in {"fetch", "metadata"} /\ "offering" \in Policies
                => Has(c, "offering")
          /\ step[c] = "metadata" => Has(c, "document")
    /\ \A c \in Calls : pc[c] \in {"store", "notify"} =>
          \A g \in Gates : Has(c, g)

(* Rows, and the calls that have read one, hold vetted offers.              *)
TrustInv ==
    /\ \A k \in Keys : offerParams[k] # NoOffer => PassedAll(offerParams[k])
    /\ \A c \in Calls : pc[c] \in Clearing \ {"lookup"} => PassedAll(offer[c])
    /\ RedeemedWasVetted
    /\ FetchesAreSafe

Basic == TypeOK /\ KeyInv /\ GrantInv

LEMMA GateInit == FlowInit => GateInv /\ TrustInv
  BY DEF FlowInit, Init, CallsInit, OfferingsInit, ClearanceInit, GateInv, Has,
         TrustInv, Clearing, RedeemedWasVetted, FetchesAreSafe

LEMMA GateStep == Basic /\ GateInv /\ [FlowNext]_allVars => GateInv'
  <1> SUFFICES ASSUME Basic, GateInv, [FlowNext]_allVars PROVE GateInv'
    OBVIOUS
  <1> USE DEF Basic, TypeOK, CallsTypeOK, GrantInv, GateInv, Has, Gates, Due, At,
              Then, Refuse, Goto, Fail, callVars, Pass
  <1>1. ASSUME NEW c \in Calls, ResolveOffer(c) PROVE GateInv'
    BY <1>1 DEF ResolveOffer, ValidateCredentialIssuerURI, termsOf
  <1>2. ASSUME NEW c \in Calls, AskOfferingPolicy(c) PROVE GateInv'
    BY <1>2 DEF AskOfferingPolicy, Allowed, Denied
  <1>3. ASSUME NEW c \in Calls, FetchMetadata(c) PROVE GateInv'
    BY <1>3 DEF FetchMetadata
  <1>4. ASSUME NEW c \in Calls, AskMetadataPolicy(c) PROVE GateInv'
    <2>1. CASE Denied(c, "metadata")
      BY <1>4, <2>1 DEF AskMetadataPolicy, Denied
    <2>2. CASE Allowed(c, "metadata") /\ Goto(c, "store") /\ UNCHANGED step
      <3>1. \A g \in Gates : Has(c, g)'
        BY <1>4, <2>2 DEF AskMetadataPolicy, Allowed
      <3> QED
        BY <1>4, <2>2, <3>1 DEF AskMetadataPolicy, Allowed
    <2> QED
      BY <1>4, <2>1, <2>2 DEF AskMetadataPolicy
  <1>5. ASSUME NEW c \in Calls, Lookup(c) PROVE GateInv'
    BY <1>5 DEF Lookup, LookupOffering
  <1>6. ASSUME NEW c \in Calls, RetrieveStep(c) PROVE GateInv'
    BY <1>6 DEF RetrieveStep, RefetchMetadata, RequestToken, FetchNonce,
                SignProof, SendRequest, callData
  <1>7. ASSUME NEW c \in Calls, OtherStage(c) PROVE GateInv'
    BY <1>7 DEF OtherStage, StoreOffering, NotifyRetrieval, Exec,
                DeleteRejectedOffering, ValidateCredentialResponse,
                StoreCredential, UpdateOfferingStatus, flowVars, callData
  <1>8. ASSUME NEW c \in Calls, Arrive(c), UNCHANGED flowVars PROVE GateInv'
    BY <1>8 DEF Arrive, HandleMessage, HandleRetrieval, HandleClearance,
                HandleGetOffering, Drop, Enter, flowVars, callData
  <1>9. ASSUME NEW c \in Calls, IOFails(c) \/ (Crash(c) /\ UNCHANGED flowVars)
        PROVE GateInv'
    BY <1>9 DEF IOFails, Crash, flowVars, callData, Running, Processing, Clearing
  <1>10. ASSUME NEW c \in Calls, SignerMixesUp(c) PROVE GateInv'
    BY <1>10 DEF SignerMixesUp, SignProof
  <1>11. CASE UNCHANGED <<callVars, step, passed>>
    BY <1>11
  <1> QED
    BY <1>1, <1>2, <1>3, <1>4, <1>5, <1>6, <1>7, <1>8, <1>9, <1>10, <1>11
       DEF FlowNext, FlowRun, VetStep, Republish, Expire, allVars,
           vars, flowVars, callData

(* What has been vetted stays so: no gate is taken back, and a call keeps   *)
(* its offer.                                                               *)
LEMMA PassedGrows == [FlowNext]_allVars => passed \subseteq passed'
  BY DEF FlowNext, FlowRun, VetStep, ResolveOffer, AskOfferingPolicy,
         FetchMetadata, AskMetadataPolicy, Allowed, Denied, Pass, Lookup,
         RetrieveStep, RefetchMetadata, RequestToken, FetchNonce, SignProof,
         SendRequest, OtherStage, IOFails, SignerMixesUp, Republish, allVars,
         flowVars

LEMMA VettedStable ==
    ASSUME Basic, GateInv, [FlowNext]_allVars, NEW o, PassedAll(o)
    PROVE  PassedAll(o)'
  <1>1. PICK c \in Calls : offer[c] = o /\ \A g \in Gates : Has(c, g)
    BY DEF PassedAll, Has
  <1>2. pc[c] \notin {"idle", "lookup"}
    BY <1>1 DEF GateInv, Gates
  <1>3. offer'[c] = o
    BY <1>1, <1>2, CallStable, FlowImplements DEF Basic
  <1> QED
    BY <1>1, <1>3, PassedGrows DEF PassedAll, Has

(* A row holds what it held, or what a call has carried through the gates.  *)
LEMMA RowStep ==
    ASSUME Basic, GateInv, [FlowNext]_allVars, NEW k \in Keys,
           offerParams'[k] # NoOffer, offerParams'[k] # offerParams[k]
    PROVE  PassedAll(offerParams'[k])
  <1>1. PICK c \in Calls : /\ At(c, "store") /\ key[c] \in Keys
                           /\ PutOffering(key[c], offer[c])
    BY TableStep, FlowImplements
       DEF Basic, TypeOK, OfferingsTypeOK, offeringVars, DeleteRow, PutStatus,
           ExpireOffering, ExpireStatus
  <1>2. offerParams'[k] = offer[c]
    BY <1>1 DEF PutOffering, Basic, TypeOK, OfferingsTypeOK
  <1>3. \A g \in Gates : Has(c, g)
    BY <1>1 DEF GateInv, At
  <1> QED
    BY <1>2, <1>3 DEF PassedAll, Has

(* A clearance past its lookup was there before, or has just copied a row.  *)
LEMMA ClearingStep ==
    ASSUME TypeOK, [Next]_vars, NEW c \in Calls, pc'[c] \in Clearing \ {"lookup"}
    PROVE  \/ pc[c] \in Clearing \ {"lookup"} /\ offer'[c] = offer[c]
           \/ \E k \in Keys : /\ offerParams[k] # NoOffer
                              /\ offer'[c] = offerParams[k]
  <1> DEFINE Goal == \/ pc[c] \in Clearing \ {"lookup"} /\ offer'[c] = offer[c]
                     \/ \E k \in Keys : /\ offerParams[k] # NoOffer
                                        /\ offer'[c] = offerParams[k]
  <1> USE DEF TypeOK, CallsTypeOK, Clearing, At, Goto, Fail
  <1>1. ASSUME NEW d \in Calls, LookupOffering(d) PROVE Goal
    BY <1>1 DEF LookupOffering, Found, Unreadable, Decodes
  <1>2. ASSUME NEW d \in Calls, Arrive(d) \/ Crash(d) \/ ProcessOffering(d)
        PROVE  Goal
    BY <1>2 DEF Arrive, HandleMessage, HandleRetrieval, HandleClearance,
                HandleGetOffering, Drop, Enter, Crash, ProcessOffering,
                VetOffering, StoreOffering, NotifyRetrieval, Exec
  <1>3. ASSUME NEW d \in Calls, ClearOffering(d), ~LookupOffering(d) PROVE Goal
    BY <1>3 DEF ClearOffering, DeleteRejectedOffering, GetToken, HolderBinding,
                RequestCredential, ValidateCredentialResponse, StoreCredential,
                UpdateOfferingStatus, Exec
  <1>4. CASE UNCHANGED callVars
    BY <1>4 DEF callVars
  <1> QED
    BY <1>1, <1>2, <1>3, <1>4 DEF Next, Run, Expire, vars

(* A code is redeemed by a call that stands at GetToken.                    *)
LEMMA RedeemStep ==
    ASSUME [Next]_vars, NEW o \in redeemed' \ redeemed
    PROVE  \E c \in Calls : At(c, "token") /\ offer[c] = o
  BY DEF Next, Arrive, HandleMessage, HandleRetrieval, HandleClearance,
         HandleGetOffering, Drop, Crash, Run, ClearOffering, LookupOffering,
         DeleteRejectedOffering, GetToken, HolderBinding, RequestCredential,
         ValidateCredentialResponse, StoreCredential, UpdateOfferingStatus,
         Expire, vars, clearanceVars

(* An issuer is contacted by a call that is about to fetch its metadata.    *)
LEMMA VisitStep ==
    ASSUME [FlowNext]_allVars, NEW o \in visited' \ visited
    PROVE  \E c \in Calls : /\ offer[c] = o
                            /\ Due(c, "vet", "fetch") \/ At(c, "token")
  BY DEF FlowNext, FlowRun, VetStep, ResolveOffer, AskOfferingPolicy,
         FetchMetadata, AskMetadataPolicy, Lookup, RetrieveStep,
         RefetchMetadata, RequestToken, FetchNonce, SignProof, SendRequest,
         OtherStage, IOFails, NothingDone, LostAnswer, SignerMixesUp, Republish,
         allVars, flowVars, Due

LEMMA TrustStep ==
    Basic /\ GateInv /\ TrustInv /\ [FlowNext]_allVars => TrustInv'
  <1> SUFFICES ASSUME Basic, GateInv, TrustInv, [FlowNext]_allVars
               PROVE  TrustInv'
    OBVIOUS
  <1>0. [Next]_vars /\ TypeOK
    BY FlowImplements DEF Basic
  <1>1. ASSUME NEW k \in Keys, offerParams'[k] # NoOffer
        PROVE  PassedAll(offerParams[k])'
    <2>1. PICK o : o = offerParams'[k]
      OBVIOUS
    <2>2. PassedAll(o)
      BY <1>1, <2>1, RowStep DEF TrustInv
    <2>3. PassedAll(o)'
      BY <2>2, VettedStable
    <2> QED
      BY <2>1, <2>3 DEF PassedAll
  <1>2. ASSUME NEW c \in Calls, pc'[c] \in Clearing \ {"lookup"}
        PROVE  PassedAll(offer[c])'
    <2>1. PICK o : o = offer'[c]
      OBVIOUS
    <2>2. PassedAll(o)
      BY <1>0, <1>2, <2>1, ClearingStep DEF TrustInv
    <2>3. PassedAll(o)'
      BY <2>2, VettedStable
    <2> QED
      BY <2>1, <2>3 DEF PassedAll
  <1>3. ASSUME NEW o \in redeemed' PROVE PassedAll(o)'
    <2>1. PassedAll(o)
      BY <1>0, RedeemStep DEF TrustInv, RedeemedWasVetted, Clearing, At
    <2> QED
      BY <2>1, VettedStable
  <1>4. ASSUME NEW o \in visited' PROVE TermsOf[o].safe
    <2>1. CASE o \in visited
      BY <2>1 DEF TrustInv, FetchesAreSafe
    <2>2. CASE o \notin visited
      <3>1. PICK c \in Calls : /\ offer[c] = o
                               /\ Due(c, "vet", "fetch") \/ At(c, "token")
        BY <2>2, VisitStep
      <3>2. CASE At(c, "token")
        BY <3>1, <3>2
           DEF TrustInv, GateInv, PassedAll, Has, Gates, Clearing, At
      <3>3. CASE Due(c, "vet", "fetch")
        BY <3>1, <3>3 DEF GateInv, Due, At
      <3> QED
        BY <3>1, <3>2, <3>3
    <2> QED
      BY <2>1, <2>2
  <1> QED
    BY <1>1, <1>2, <1>3, <1>4 DEF TrustInv, RedeemedWasVetted, FetchesAreSafe

LEMMA TrustCorrect == FlowSpec => [](GateInv /\ TrustInv)
  <1>1. Basic /\ GateInv /\ TrustInv /\ [FlowNext]_allVars
        => (GateInv /\ TrustInv)'
    BY GateStep, TrustStep
  <1> QED
    BY <1>1, GateInit, FlowInvCorrect, PTL DEF FlowSpec, Basic

(* Theorem: a code is redeemed only for an offer that some call has taken   *)
(* through the URI check, the policies and ValidateOffering, however calls, *)
(* rows, failures and expiry interleave.                                    *)
THEOREM RedeemedVetted == FlowSpec => []RedeemedWasVetted
  <1>1. TrustInv => RedeemedWasVetted
    BY DEF TrustInv
  <1> QED
    BY <1>1, TrustCorrect, PTL

(* Theorem: no issuer is contacted whose URI was not checked before, at     *)
(* intake or at acceptance.                                                 *)
THEOREM SafeFetches == FlowSpec => []FetchesAreSafe
  <1>1. TrustInv => FetchesAreSafe
    BY DEF TrustInv
  <1> QED
    BY <1>1, TrustCorrect, PTL

-----------------------------------------------------------------------------
(* Proofs of possession: what is sent is bound to the call that sends it.   *)

(* proof[c] answers what c has asked the signer for.                        *)
Bound(c, p) ==
    /\ nonce[c] # NoNonce => p.nonce = c
    /\ p.aud = doc[c].issuer

Asking == {"validate", "publish", "update", "accepted", "failed", "crashed"}

ProofInv ==
    /\ doc = [c \in Calls |-> doc[c]]
    /\ proof = [c \in Calls |-> proof[c]]
    /\ nonce = [c \in Calls |-> nonce[c]]
    /\ \A c \in Calls : nonce[c] \in {NoNonce, c}
    /\ \A c \in Calls : pc[c] = "request" => Bound(c, proof[c])
    /\ \A r \in asked : /\ r.call \in Calls
                         /\ pc[r.call] \in Asking
                         /\ Bound(r.call, r.proof)

LEMMA RequestFields ==
    ASSUME NEW c \in Calls
    PROVE  Request(c).call = c /\ Request(c).proof = proof[c]
  BY DEF Request

LEMMA ProofStep == Basic /\ ProofInv /\ [FlowNext]_allVars => ProofInv'
  <1> SUFFICES ASSUME Basic, ProofInv, [FlowNext]_allVars PROVE ProofInv'
    OBVIOUS
  <1> USE DEF Basic, TypeOK, CallsTypeOK, ProofInv, Bound, Asking, Due, At, Then,
              Refuse, Goto, Fail, callVars, callData
  <1>1. ASSUME NEW c \in Calls, VetStep(c) PROVE ProofInv'
    BY <1>1 DEF VetStep, ResolveOffer, AskOfferingPolicy, FetchMetadata,
                AskMetadataPolicy, Allowed, Denied
  <1>2. ASSUME NEW c \in Calls, Lookup(c) PROVE ProofInv'
    BY <1>2 DEF Lookup, LookupOffering
  <1>3. ASSUME NEW c \in Calls, RefetchMetadata(c) \/ RequestToken(c)
        PROVE  ProofInv'
    BY <1>3 DEF RefetchMetadata, RequestToken
  <1>4. ASSUME NEW c \in Calls, FetchNonce(c) PROVE ProofInv'
    BY <1>4 DEF FetchNonce
  <1>5. ASSUME NEW c \in Calls, NEW reply, SignProof(c, reply) PROVE ProofInv'
    BY <1>5 DEF SignProof, ValidateHolderBinding
  <1>6. ASSUME NEW c \in Calls, SendRequest(c) PROVE ProofInv'
    BY <1>6, RequestFields DEF SendRequest
  <1>7. ASSUME NEW c \in Calls, OtherStage(c) PROVE ProofInv'
    BY <1>7 DEF OtherStage, StoreOffering, NotifyRetrieval, Exec,
                DeleteRejectedOffering, ValidateCredentialResponse,
                StoreCredential, UpdateOfferingStatus, flowVars
  <1>8. ASSUME NEW c \in Calls, Arrive(c), UNCHANGED flowVars PROVE ProofInv'
    BY <1>8 DEF Arrive, HandleMessage, HandleRetrieval, HandleClearance,
                HandleGetOffering, Drop, Enter, flowVars
  <1>9. ASSUME NEW c \in Calls, IOFails(c) PROVE ProofInv'
    BY <1>9, RequestFields DEF IOFails, NothingDone, LostAnswer
  <1>10. ASSUME NEW c \in Calls, Crash(c), UNCHANGED flowVars PROVE ProofInv'
    BY <1>10 DEF Crash, flowVars
  <1>11. CASE UNCHANGED <<callVars, callData, asked>>
    BY <1>11
  <1> QED
    BY <1>1, <1>2, <1>3, <1>4, <1>5, <1>6, <1>7, <1>8, <1>9, <1>10, <1>11
       DEF FlowNext, FlowRun, RetrieveStep, SignerMixesUp, Republish,
           Expire, allVars, vars, flowVars

LEMMA ProofCorrect == FlowSpec => []ProofInv
  <1>1. FlowInit => ProofInv
    BY DEF FlowInit, Init, CallsInit, ProofInv
  <1> QED
    BY <1>1, ProofStep, FlowInvCorrect, PTL DEF FlowSpec, Basic

(* Theorem: a call that was given a nonce sends a proof with that nonce,    *)
(* whatever proofs the signer answers with.                                 *)
THEOREM OwnNonce == FlowSpec => []OwnNonceSent
  <1>1. ProofInv => OwnNonceSent
    BY DEF ProofInv, Bound, OwnNonceSent
  <1> QED
    BY <1>1, ProofCorrect, PTL

-----------------------------------------------------------------------------
(* The types, for which the choice of the credential has to be looked into. *)

(* The first index of a set of indices is one of them.                      *)
LEMMA FirstIndex ==
    ASSUME NEW n \in Nat, NEW I \in SUBSET (1..n), I # {}
    PROVE  Min(I) \in I
  <1> DEFINE R == OpToRel(<, Nat)
  <1>1. IsWellFoundedOn(R, Nat)
    BY NatLessThanWellFounded
  <1>2. ASSUME NEW l \in Nat, NEW m \in Nat, <<l, m>> \notin R PROVE m <= l
    <2>1. ~(l < m)
      BY <1>2 DEF OpToRel
    <2> QED
      BY <2>1
  <1> HIDE DEF R
  <1>3. I \subseteq Nat
    OBVIOUS
  <1>4. PICK m \in I : \A l \in I : <<l, m>> \notin R
    BY <1>1, <1>3, WFMin, Zenon
  <1>5. \A l \in I : m <= l
    BY <1>2, <1>3, <1>4, Zenon
  <1> QED
    BY <1>5 DEF Min

LEMMA FirstIdentifier ==
    ASSUME NEW s \in Seq(Details),
           NEW k, k = SelectInSeq(s, LAMBDA d : d.identifier # None)
    PROVE  k = 0 \/ (k \in 1..Len(s) /\ s[k].identifier # None)
  <1> DEFINE I == {l \in 1..Len(s) : s[l].identifier # None}
  <1>1. CASE I = {}
    BY <1>1 DEF SelectInSeq
  <1>2. CASE I # {}
    <2>1. Len(s) \in Nat /\ I \in SUBSET (1..Len(s))
      OBVIOUS
    <2> HIDE DEF I
    <2>2. Min(I) \in I
      BY <1>2, <2>1, FirstIndex
    <2> USE DEF I
    <2> QED
      BY <1>2, <2>2 DEF SelectInSeq
  <1> QED
    BY <1>1, <1>2

LEMMA FirstConfiguration ==
    ASSUME NEW s \in Seq(Details),
           NEW k, k = SelectInSeq(s, LAMBDA d : d.configuration # None)
    PROVE  k = 0 \/ (k \in 1..Len(s) /\ s[k].configuration # None)
  <1> DEFINE I == {l \in 1..Len(s) : s[l].configuration # None}
  <1>1. CASE I = {}
    BY <1>1 DEF SelectInSeq
  <1>2. CASE I # {}
    <2>1. Len(s) \in Nat /\ I \in SUBSET (1..Len(s))
      OBVIOUS
    <2> HIDE DEF I
    <2>2. Min(I) \in I
      BY <1>2, <2>1, FirstIndex
    <2> USE DEF I
    <2> QED
      BY <1>2, <2>2 DEF SelectInSeq
  <1> QED
    BY <1>1, <1>2

(* A request always names a credential, by one of its two fields at least:  *)
(* a nonempty offer leaves fetchCredentialData no way to ask for nothing.   *)
LEMMA SelectNames ==
    ASSUME NEW s \in Seq(Details), NEW ids \in Seq(Configurations), ids # <<>>
    PROVE  LET chosen == SelectCredential(s, ids)
           IN  /\ chosen.identifier \in Identifiers \union {None}
               /\ chosen.configuration \in Configurations \union {None}
               /\ \/ chosen.identifier # None
                  \/ chosen.configuration \in Configurations
  <1> DEFINE named   == SelectInSeq(s, LAMBDA d : d.identifier # None)
             scanned == IF named = 0 THEN s ELSE SubSeq(s, 1, named - 1)
             config  == SelectInSeq(scanned, LAMBDA d : d.configuration # None)
             chosen  == SelectCredential(s, ids)
  <1>1. named = 0 \/ (named \in 1..Len(s) /\ s[named].identifier # None)
    BY FirstIdentifier
  <1>2. chosen = [identifier |-> IF named = 0 THEN None ELSE s[named].identifier,
                  configuration |-> IF config # 0 THEN scanned[config].configuration
                                    ELSE IF named = 0 THEN ids[1] ELSE None]
    BY DEF SelectCredential
  <1> HIDE DEF named, chosen
  <1>3. scanned \in Seq(Details)
    BY <1>1
  <1> HIDE DEF scanned
  <1>4. config = 0 \/ (config \in 1..Len(scanned)
                       /\ scanned[config].configuration # None)
    BY <1>3, FirstConfiguration
  <1> HIDE DEF config
  <1>5. ids[1] \in Configurations
    OBVIOUS
  <1>6. named # 0 => s[named] \in Details
    BY <1>1
  <1>7. config # 0 => scanned[config] \in Details
    BY <1>3, <1>4
  <1> QED
    BY <1>1, <1>2, <1>4, <1>5, <1>6, <1>7 DEF Details, chosen

(* The documents, details and proofs the calls work with, and what of the   *)
(* offer is known by when.                                                  *)
DataInv ==
    /\ published \in [Issuers -> Docs]
    /\ doc \in [Calls -> Docs \union {None}]
    /\ details \in [Calls -> Seq(Details)]
    /\ nonce \in [Calls -> Calls \union {NoNonce}]
    /\ proof \in [Calls -> Proofs \union {None}]
    /\ signed \subseteq Proofs
    /\ asked \subseteq Requests
    /\ passed \subseteq [call : Calls, gate : Gates]
    /\ visited \subseteq Offers

StageInv ==
    \A c \in Calls :
        /\ pc[c] \in {"token", "proof", "request"} =>
              /\ step[c] \in {"refetch", "redeem", "nonce", "sign"}
              /\ offer[c] \in Offers
        /\ step[c] \in {"redeem", "nonce", "sign"} =>
              doc[c] \in Docs /\ termsOf(c).ids # <<>>
        /\ pc[c] \in {"idle", "lookup"} => step[c] = "resolve"
        /\ pc[c] \in {"proof", "request"} =>
              step[c] \in {"nonce", "sign"} /\ doc[c].issuer \in Issuers
        /\ pc[c] = "request" => proof[c] \in Proofs

LEMMA OwnProofTyped ==
    ASSUME DataInv, NEW c \in Calls, doc[c].issuer \in Issuers
    PROVE  OwnProof(c) \in Proofs
  BY DEF DataInv, OwnProof, Proofs

LEMMA RequestTyped ==
    ASSUME DataInv, NEW c \in Calls, offer[c] \in Offers,
           termsOf(c).ids # <<>>, proof[c] \in Proofs
    PROVE  Request(c) \in Requests
  <1>1. termsOf(c).ids \in Seq(Configurations)
    BY DEF termsOf, Terms
  <1>2. details[c] \in Seq(Details)
    BY DEF DataInv
  <1> DEFINE chosen == SelectCredential(details[c], termsOf(c).ids)
  <1>3. /\ chosen.identifier \in Identifiers \union {None}
        /\ chosen.configuration \in Configurations \union {None}
    BY <1>1, <1>2, SelectNames
  <1> QED
    BY <1>3 DEF Request, Requests

LEMMA OfferedDocTyped ==
    ASSUME DataInv, NEW c \in Calls, offer[c] \in Offers
    PROVE  OfferedDoc(c) \in Docs
  BY DEF DataInv, OfferedDoc, termsOf, Terms

LEMMA DataStep ==
    Basic /\ DataInv /\ StageInv /\ [FlowNext]_allVars => DataInv'
  <1> SUFFICES ASSUME Basic, DataInv, StageInv, [FlowNext]_allVars
               PROVE  DataInv'
    OBVIOUS
  <1> USE DEF Basic, TypeOK, CallsTypeOK, Due, At
  <1>1. ASSUME NEW c \in Calls, ResolveOffer(c) PROVE DataInv'
    BY <1>1 DEF ResolveOffer, DataInv, Pass, Gates
  <1>2. ASSUME NEW c \in Calls, AskOfferingPolicy(c) \/ AskMetadataPolicy(c)
        PROVE  DataInv'
    BY <1>2 DEF AskOfferingPolicy, AskMetadataPolicy, Allowed, Denied, DataInv,
                Pass, Gates
  <1>3. ASSUME NEW c \in Calls, FetchMetadata(c) PROVE DataInv'
    <2>1. offer[c] \in Offers
      BY <1>3 DEF FetchMetadata, KeyInv
    <2> QED
      BY <1>3, <2>1, OfferedDocTyped DEF FetchMetadata, DataInv, Pass, Gates
  <1>4. ASSUME NEW c \in Calls, RefetchMetadata(c) PROVE DataInv'
    <2>1. offer[c] \in Offers
      BY <1>4 DEF RefetchMetadata, StageInv
    <2> QED
      BY <1>4, <2>1, OfferedDocTyped DEF RefetchMetadata, DataInv
  <1>5. ASSUME NEW c \in Calls, RequestToken(c) PROVE DataInv'
    BY <1>5 DEF RequestToken, DataInv
  <1>6. ASSUME NEW c \in Calls, FetchNonce(c) PROVE DataInv'
    <2>1. nonce' \in [Calls -> Calls \union {NoNonce}]
      BY <1>6 DEF FetchNonce, DataInv
    <2> QED
      BY <1>6, <2>1 DEF FetchNonce, DataInv
  <1>7. ASSUME NEW c \in Calls, NEW reply, SignProof(c, reply) PROVE DataInv'
    <2>1. OwnProof(c) \in Proofs
      BY <1>7, OwnProofTyped DEF SignProof, StageInv
    <2>2. signed' \subseteq Proofs /\ reply \in Proofs
      BY <1>7, <2>1 DEF SignProof, DataInv
    <2>3. proof' \in [Calls -> Proofs \union {None}]
      BY <1>7, <2>2 DEF SignProof, DataInv
    <2> QED
      BY <1>7, <2>2, <2>3 DEF SignProof, DataInv
  <1>8. ASSUME NEW c \in Calls, SendRequest(c) PROVE DataInv'
    <2>1. Request(c) \in Requests
      BY <1>8, RequestTyped DEF SendRequest, StageInv
    <2> QED
      BY <1>8, <2>1 DEF SendRequest, DataInv, callData
  <1>9. ASSUME NEW c \in Calls, IOFails(c) PROVE DataInv'
    <2>1. At(c, "request") => Request(c) \in Requests
      BY RequestTyped DEF StageInv
    <2>2. Due(c, "proof", "sign") => OwnProof(c) \in Proofs
      BY OwnProofTyped DEF StageInv
    <2>3. At(c, "vet") \/ At(c, "token") => offer[c] \in Offers
      BY DEF KeyInv, StageInv
    <2> QED
      BY <1>9, <2>1, <2>2, <2>3
         DEF IOFails, NothingDone, LostAnswer, DataInv, callData
  <1>10. ASSUME NEW i \in Issuers, Republish(i) PROVE DataInv'
    BY <1>10 DEF Republish, DataInv, callData
  <1>11. ASSUME NEW c \in Calls, Lookup(c) PROVE DataInv'
    BY <1>11 DEF Lookup, DataInv
  <1>12. CASE UNCHANGED flowVars
    BY <1>12 DEF flowVars, callData, DataInv
  <1> QED
    BY <1>1, <1>2, <1>3, <1>4, <1>5, <1>6, <1>7, <1>8, <1>9, <1>10, <1>11,
       <1>12
       DEF FlowNext, FlowRun, VetStep, RetrieveStep, OtherStage,
           SignerMixesUp, allVars

LEMMA StageStep ==
    Basic /\ DataInv /\ StageInv /\ [FlowNext]_allVars => StageInv'
  <1> SUFFICES ASSUME Basic, DataInv, StageInv, [FlowNext]_allVars
               PROVE  StageInv'
    OBVIOUS
  <1> USE DEF Basic, TypeOK, CallsTypeOK, GrantInv, DataInv, StageInv, Due, At,
              Then, Refuse, Goto, Fail, callVars, callData, termsOf
  <1>1. ASSUME NEW c \in Calls, ResolveOffer(c) \/ AskOfferingPolicy(c)
                                \/ AskMetadataPolicy(c)
        PROVE  StageInv'
    BY <1>1 DEF ResolveOffer, AskOfferingPolicy, AskMetadataPolicy, Allowed,
                Denied
  <1>2. ASSUME NEW c \in Calls, FetchMetadata(c) PROVE StageInv'
    <2>1. OfferedDoc(c) \in Docs
      BY <1>2, OfferedDocTyped DEF FetchMetadata, KeyInv
    <2> QED
      BY <1>2, <2>1 DEF FetchMetadata
  <1>3. ASSUME NEW c \in Calls, Lookup(c) PROVE StageInv'
    <2>1. pc'[c] = "token" => offer'[c] \in Offers
      BY <1>3 DEF Lookup, LookupOffering, Found, Unreadable, Decodes,
                  OfferingsTypeOK
    <2> QED
      BY <1>3, <2>1 DEF Lookup, LookupOffering
  <1>4. ASSUME NEW c \in Calls, RefetchMetadata(c) PROVE StageInv'
    <2>1. OfferedDoc(c) \in Docs
      BY <1>4, OfferedDocTyped DEF RefetchMetadata
    <2> QED
      BY <1>4, <2>1 DEF RefetchMetadata
  <1>5. ASSUME NEW c \in Calls, RequestToken(c) PROVE StageInv'
    <2>1. doc[c].issuer \in Issuers \union {NoIssuer}
      BY <1>5 DEF RequestToken, Documents
    <2> QED
      BY <1>5, <2>1 DEF RequestToken
  <1>6. ASSUME NEW c \in Calls, FetchNonce(c) PROVE StageInv'
    BY <1>6 DEF FetchNonce
  <1>7. ASSUME NEW c \in Calls, NEW reply, SignProof(c, reply) PROVE StageInv'
    <2>1. OwnProof(c) \in Proofs
      BY <1>7, OwnProofTyped DEF SignProof
    <2> QED
      BY <1>7, <2>1 DEF SignProof
  <1>8. ASSUME NEW c \in Calls, SendRequest(c) PROVE StageInv'
    BY <1>8 DEF SendRequest
  <1>9. ASSUME NEW c \in Calls, OtherStage(c) PROVE StageInv'
    BY <1>9 DEF OtherStage, StoreOffering, NotifyRetrieval, Exec,
                DeleteRejectedOffering, ValidateCredentialResponse,
                StoreCredential, UpdateOfferingStatus, flowVars
  <1>10. ASSUME NEW c \in Calls, Arrive(c), UNCHANGED flowVars PROVE StageInv'
    BY <1>10 DEF Arrive, HandleMessage, HandleRetrieval, HandleClearance,
                 HandleGetOffering, Drop, Enter, flowVars
  <1>11. ASSUME NEW c \in Calls, IOFails(c) \/ (Crash(c) /\ UNCHANGED flowVars)
         PROVE  StageInv'
    BY <1>11 DEF IOFails, Crash, flowVars
  <1>12. CASE UNCHANGED <<callVars, step, doc, proof>>
    BY <1>12
  <1> QED
    BY <1>1, <1>2, <1>3, <1>4, <1>5, <1>6, <1>7, <1>8, <1>9, <1>10, <1>11,
       <1>12
       DEF FlowNext, FlowRun, VetStep, RetrieveStep, SignerMixesUp,
           Republish, Expire, allVars, vars, flowVars

(* Theorem: the state of the exchange keeps its types; a proof is made for  *)
(* an issuer, and a request names what it asks for.                         *)
THEOREM FlowTypes == FlowSpec => []FlowTypeOK
  <1>1. FlowInit => DataInv /\ StageInv
    BY DEF FlowInit, Init, CallsInit, DataInv, StageInv
  <1>2. Basic /\ DataInv /\ StageInv /\ [FlowNext]_allVars
        => (DataInv /\ StageInv)'
    BY DataStep, StageStep
  <1>3. Basic /\ DataInv /\ StageInv => FlowTypeOK
    BY DEF Basic, GrantInv, DataInv, StageInv, FlowTypeOK
  <1> QED
    BY <1>1, <1>2, <1>3, FlowInvCorrect, PTL DEF FlowSpec, Basic

-----------------------------------------------------------------------------
(* What was vetted is what is used.                                         *)

(* Metadata that passed were checked, and their call fetches no others.     *)
DocInv ==
    \A c \in Calls : Has(c, "document") =>
        /\ ValidateOffering(termsOf(c), doc[c])
        /\ pc[c] \notin Clearing
        /\ pc[c] = "vet" => step[c] = "metadata"

(* Among configurations of the offer the choice is one of the offer.        *)
LEMMA SelectOffered ==
    ASSUME NEW s \in Seq(Details), NEW ids \in Seq(Configurations), ids # <<>>,
           \A n \in DOMAIN s : s[n].configuration \in ToSet(ids) \union {None}
    PROVE  LET chosen == SelectCredential(s, ids)
           IN  \/ chosen.identifier # None
               \/ chosen.configuration \in ToSet(ids)
  <1> DEFINE named   == SelectInSeq(s, LAMBDA d : d.identifier # None)
             scanned == IF named = 0 THEN s ELSE SubSeq(s, 1, named - 1)
             config  == SelectInSeq(scanned, LAMBDA d : d.configuration # None)
             chosen  == SelectCredential(s, ids)
  <1>1. named = 0 \/ (named \in 1..Len(s) /\ s[named].identifier # None)
    BY FirstIdentifier
  <1>2. chosen = [identifier |-> IF named = 0 THEN None ELSE s[named].identifier,
                  configuration |-> IF config # 0 THEN scanned[config].configuration
                                    ELSE IF named = 0 THEN ids[1] ELSE None]
    BY DEF SelectCredential
  <1>3. ids[1] \in ToSet(ids)
    BY DEF ToSet
  <1> HIDE DEF named, chosen
  <1>4. CASE named # 0
    BY <1>1, <1>2, <1>4 DEF chosen
  <1>5. CASE named = 0
    <2>1. scanned = s
      BY <1>5
    <2> HIDE DEF scanned
    <2>2. config = 0 \/ (config \in 1..Len(s) /\ s[config].configuration # None)
      BY <2>1, FirstConfiguration
    <2> HIDE DEF config
    <2>3. config # 0 => s[config].configuration \in ToSet(ids)
      BY <2>2
    <2> QED
      BY <1>2, <1>3, <1>5, <2>1, <2>3 DEF chosen
  <1> QED
    BY <1>4, <1>5

(* Only the two fetches change what a call has fetched.                     *)
LEMMA DocStable ==
    ASSUME DataInv, [FlowNext]_allVars, NEW c \in Calls,
           ~FetchMetadata(c), ~RefetchMetadata(c)
    PROVE  doc'[c] = doc[c]
  <1>1. ASSUME NEW d \in Calls, FetchMetadata(d) \/ RefetchMetadata(d)
        PROVE  doc'[c] = doc[c]
    BY <1>1 DEF FetchMetadata, RefetchMetadata, DataInv
  <1>2. CASE UNCHANGED doc
    BY <1>2
  <1> QED
    BY <1>1, <1>2
       DEF FlowNext, FlowRun, VetStep, ResolveOffer, AskOfferingPolicy,
           AskMetadataPolicy, Lookup, RetrieveStep, RequestToken, FetchNonce,
           SignProof, SendRequest, OtherStage, IOFails, SignerMixesUp, Republish,
           allVars, flowVars, callData

(* The gate of the metadata is passed by fetching them.                     *)
LEMMA PassedByFetch ==
    ASSUME [FlowNext]_allVars, NEW c \in Calls, Has(c, "document")', ~Has(c, "document")
    PROVE  FetchMetadata(c) /\ ValidateOffering(termsOf(c), OfferedDoc(c))
  <1>1. "document" \notin Policies /\ "document" # "uri"
    BY DEF Gates
  <1> QED
    BY <1>1
       DEF FlowNext, FlowRun, VetStep, ResolveOffer, AskOfferingPolicy, FetchMetadata,
           AskMetadataPolicy, Allowed, Denied, Pass, Has, Lookup, RetrieveStep,
           RefetchMetadata, RequestToken, FetchNonce, SignProof, SendRequest,
           OtherStage, IOFails, SignerMixesUp, Republish, allVars, flowVars

(* A call that has passed stays an intake.                                  *)
LEMMA PassedStays ==
    ASSUME Basic, GateInv, DocInv, [FlowNext]_allVars, NEW c \in Calls,
           Has(c, "document")
    PROVE  /\ pc'[c] \notin Clearing
           /\ pc'[c] = "vet" => step'[c] = "metadata"
  <1> DEFINE Stays == /\ pc'[c] \notin Clearing
                      /\ pc'[c] = "vet" => step'[c] = "metadata"
  <1>0. /\ pc[c] \notin Clearing \union {"idle"}
        /\ pc[c] = "vet" => step[c] = "metadata"
    BY DEF DocInv, GateInv, Gates, Clearing
  <1> USE <1>0 DEF Basic, TypeOK, CallsTypeOK, GrantInv, Due, At, Then, Refuse,
                   Goto, Fail, callVars, Clearing
  <1>1. ASSUME NEW d \in Calls, VetStep(d) PROVE Stays
    BY <1>1 DEF VetStep, ResolveOffer, AskOfferingPolicy, FetchMetadata,
                AskMetadataPolicy, Denied
  <1>2. ASSUME NEW d \in Calls, Lookup(d) PROVE Stays
    BY <1>2 DEF Lookup, LookupOffering
  <1>3. ASSUME NEW d \in Calls, RetrieveStep(d) \/ SignerMixesUp(d) PROVE Stays
    BY <1>3 DEF RetrieveStep, SignerMixesUp, RefetchMetadata, RequestToken,
                FetchNonce, SignProof, SendRequest, callData
  <1>4. ASSUME NEW d \in Calls, OtherStage(d) PROVE Stays
    BY <1>4 DEF OtherStage, StoreOffering, NotifyRetrieval, Exec,
                DeleteRejectedOffering, ValidateCredentialResponse,
                StoreCredential, UpdateOfferingStatus, flowVars, callData
  <1>5. ASSUME NEW d \in Calls, Arrive(d), UNCHANGED flowVars PROVE Stays
    BY <1>5 DEF Arrive, HandleMessage, HandleRetrieval, HandleClearance,
                HandleGetOffering, Drop, Enter, flowVars, callData
  <1>6. ASSUME NEW d \in Calls, IOFails(d) \/ (Crash(d) /\ UNCHANGED flowVars)
        PROVE  Stays
    BY <1>6 DEF IOFails, Crash, flowVars, callData
  <1>7. CASE UNCHANGED <<callVars, step>>
    BY <1>7
  <1> QED
    BY <1>1, <1>2, <1>3, <1>4, <1>5, <1>6, <1>7
       DEF FlowNext, FlowRun, Republish, Expire, allVars, vars, flowVars, callData

LEMMA DocStep ==
    Basic /\ GateInv /\ DataInv /\ DocInv /\ [FlowNext]_allVars => DocInv'
  <1> SUFFICES ASSUME Basic, GateInv, DataInv, DocInv, [FlowNext]_allVars,
                      NEW c \in Calls, Has(c, "document")'
               PROVE  /\ ValidateOffering(termsOf(c)', doc'[c])
                      /\ pc'[c] \notin Clearing
                      /\ pc'[c] = "vet" => step'[c] = "metadata"
    BY DEF DocInv, ValidateOffering, ValidateCredentialIssuerURI
  <1>1. CASE Has(c, "document")
    <2>1. /\ pc'[c] \notin Clearing
          /\ pc'[c] = "vet" => step'[c] = "metadata"
      BY <1>1, PassedStays
    <2>2. doc'[c] = doc[c]
      BY <1>1, DocStable DEF DocInv, FetchMetadata, RefetchMetadata, Due, At, Clearing
    <2>3. pc[c] \notin {"idle", "lookup"}
      BY <1>1 DEF GateInv, Gates
    <2>4. offer'[c] = offer[c]
      BY <2>3, CallStable, FlowImplements DEF Basic
    <2> QED
      BY <1>1, <2>1, <2>2, <2>4 DEF DocInv, termsOf
  <1>2. CASE ~Has(c, "document")
    <2>1. FetchMetadata(c) /\ ValidateOffering(termsOf(c), OfferedDoc(c))
      BY <1>2, PassedByFetch
    <2>2. /\ doc'[c] = OfferedDoc(c)
          /\ UNCHANGED offer
          /\ pc'[c] = "vet" /\ step'[c] = "metadata"
      BY <2>1 DEF FetchMetadata, DataInv, Basic, GrantInv, Then, callVars, Due, At
    <2> QED
      BY <2>1, <2>2 DEF termsOf, Clearing
  <1> QED
    BY <1>1, <1>2

LEMMA DocCorrect == FlowSpec => [](DataInv /\ StageInv /\ GateInv /\ DocInv)
  <1>1. FlowInit => DataInv /\ StageInv /\ GateInv /\ DocInv
    <2>1. FlowInit => DataInv /\ StageInv /\ DocInv
      BY DEF FlowInit, Init, CallsInit, DataInv, StageInv, DocInv, Has
    <2> QED
      BY <2>1, GateInit
  <1>2. Basic /\ DataInv /\ StageInv /\ GateInv /\ DocInv /\ [FlowNext]_allVars
        => (DataInv /\ StageInv /\ GateInv /\ DocInv)'
    BY DataStep, StageStep, GateStep, DocStep
  <1> QED
    BY <1>1, <1>2, FlowInvCorrect, PTL DEF FlowSpec, Basic

(* Theorem: the configuration a request names is in the metadata, for any   *)
(* offer, if the metadata list configurations and have been vetted for the  *)
(* offer as they are, and the token details configurations of the offer.    *)
THEOREM VettedRequestable == FlowSpec => []VettedIsRequestable
  <1>1. DataInv /\ StageInv /\ DocInv => VettedIsRequestable
    <2> SUFFICES ASSUME DataInv, StageInv, DocInv, NEW c \in Calls, NEW v \in Calls,
                        At(c, "request"), NamesOffered(c), Has(v, "document"),
                        offer[v] = offer[c], doc[v] = doc[c],
                        doc[c].configs # Absent
                 PROVE  Requestable(Request(c), doc[c])
      BY DEF VettedIsRequestable, Has
    <2> DEFINE ids    == termsOf(c).ids
               chosen == SelectCredential(details[c], ids)
    <2>1. offer[c] \in Offers /\ ids # <<>>
      BY DEF StageInv, At
    <2>2. ids \in Seq(Configurations) /\ details[c] \in Seq(Details)
      BY <2>1 DEF termsOf, Terms, DataInv
    <2>3. ToSet(ids) \subseteq doc[c].configs
      BY DEF DocInv, ValidateOffering, termsOf
    <2>4. chosen.identifier # None \/ chosen.configuration \in ToSet(ids)
      BY <2>1, <2>2, SelectOffered DEF NamesOffered
    <2>5. /\ Request(c).identifier = chosen.identifier
          /\ Request(c).configuration = chosen.configuration
      BY DEF Request
    <2> HIDE DEF chosen, ids
    <2> QED
      BY <2>3, <2>4, <2>5 DEF Requestable
  <1> QED
    BY <1>1, DocCorrect, PTL

(* Theorem: a proof is addressed to the issuer of the offer, whatever the   *)
(* signer answers with and however the metadata change in between, if the   *)
(* metadata at acceptance name the issuer that vetting saw.                 *)
THEOREM VettedBound == FlowSpec => []VettedBindsProof
  <1>1. DataInv /\ DocInv /\ ProofInv => VettedBindsProof
    <2> SUFFICES ASSUME DataInv, DocInv, ProofInv,
                        NEW r \in asked, NEW v \in Calls, Has(v, "document"),
                        offer[v] = offer[r.call],
                        doc[v].issuer = doc[r.call].issuer
                 PROVE  r.proof.aud = termsOf(r.call).issuer
      BY DEF VettedBindsProof, Has
    <2>1. r.proof.aud = doc[r.call].issuer
      BY DEF ProofInv, Bound
    <2>2. r.proof.aud \in Issuers
      BY DEF DataInv, Requests, Proofs
    <2>3. doc[v].issuer \in {NoIssuer, termsOf(v).issuer}
      BY DEF DocInv, ValidateOffering
    <2>4. termsOf(v) = termsOf(r.call)
      BY DEF termsOf
    <2> QED
      BY <2>1, <2>2, <2>3, <2>4
  <1> QED
    BY <1>1, DocCorrect, ProofCorrect, PTL
=============================================================================
